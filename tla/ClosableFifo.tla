----------------------------- MODULE ClosableFifo -----------------------------
(***************************************************************************)
(* What a closable, optionally bounded FIFO queue promises its callers:    *)
(* every call takes effect in one instant, items leave in the order they   *)
(* entered, nothing enters after the close, a blocking pop gives up only   *)
(* on a closed and empty queue.  RubyQueue implements it.                  *)
(***************************************************************************)
EXTENDS Naturals, Sequences

CONSTANTS Clients, Items, MaxSize, NoLimit

VARIABLES items, closed, res   \* res[c]: what client c was last answered

fifoVars == <<items, closed, res>>

HasRoom == MaxSize = NoLimit \/ Len(items) < MaxSize

Answer(c, r) == res' = [res EXCEPT ![c] = r]

FifoInit ==
  /\ items = <<>>
  /\ closed = FALSE
  /\ res = [c \in Clients |-> "pending"]

Begin(c) ==
  /\ Answer(c, "pending")
  /\ UNCHANGED <<items, closed>>

Accept(c) ==
  /\ ~closed
  /\ HasRoom
  /\ \E v \in Items : items' = Append(items, v)
  /\ Answer(c, "ok")
  /\ UNCHANGED closed

Reject(c) ==
  /\ \/ closed /\ Answer(c, "closed")
     \/ ~closed /\ ~HasRoom /\ Answer(c, "full")
     \/ closed /\ items = <<>> /\ Answer(c, "none")
     \/ items = <<>> /\ Answer(c, "empty")
  /\ UNCHANGED <<items, closed>>

Deliver(c) ==
  /\ items # <<>>
  /\ Answer(c, Head(items))
  /\ items' = Tail(items)
  /\ UNCHANGED closed

DoClose(c) ==
  /\ closed' = TRUE
  /\ Answer(c, "ok")
  /\ UNCHANGED items

FifoNext ==
  \E c \in Clients : Begin(c) \/ Accept(c) \/ Reject(c) \/ Deliver(c) \/ DoClose(c)

FifoSpec == FifoInit /\ [][FifoNext]_fifoVars
=============================================================================
