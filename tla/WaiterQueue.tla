----------------------------- MODULE WaiterQueue -----------------------------
(***************************************************************************)
(* What the primitives of jdruby-runtime/src/stdlib/thread_ext.rs share:   *)
(* thread ids, and VecDeques of ids behind std mutexes that are held for   *)
(* one push or pop, so that each access is one step.  Nobody reads a       *)
(* popped id, so the queues wake no one.                                   *)
(***************************************************************************)
EXTENDS Naturals, Sequences

CONSTANTS ThreadIds,   \* ids handed out by THREAD_ID_COUNTER, which starts at 1
          MaxWaiters   \* length up to which the queues are kept; the code has no limit

ASSUME ThreadIdsAssumption == ThreadIds \subseteq Nat \ {0}
ASSUME MaxWaitersAssumption == MaxWaiters \in Nat \ {0}

\* push_back, with the queue cut at MaxWaiters: nothing depends on its length.
PushBack(q, t) == IF Len(q) < MaxWaiters THEN Append(q, t) ELSE q

PopFront(q) == IF q = <<>> THEN q ELSE Tail(q)
=============================================================================
