---------------------------- MODULE RubySemaphore ----------------------------
(***************************************************************************)
(* RubySemaphore of jdruby-runtime/src/stdlib/thread_ext.rs: a counter of  *)
(* permits moved by load + compare_exchange, and a queue of ids that       *)
(* nothing ever wakes.  release() takes no owner: any thread may give back *)
(* a permit that is out, and the callers modelled here never give back     *)
(* more than were taken.                                                   *)
(***************************************************************************)
EXTENDS WaiterQueue

CONSTANT Permits       \* the argument of RubySemaphore::new

ASSUME PermitsAssumption == Permits \in Nat

VARIABLES permits, semWaiters, semPc,
          current,   \* the count a thread loaded
          out        \* history: permits taken and not yet given back

semVars == <<permits, semWaiters, semPc, current, out>>

SemTypeOK ==
  /\ permits \in Nat
  /\ semWaiters \in Seq(ThreadIds)
  /\ semPc \in [ThreadIds -> {"idle", "acquire", "cas", "wait", "tryCas", "pop"}]
  /\ current \in [ThreadIds -> Nat]
  /\ out \in Nat

SemGoto(t, l) == semPc' = [semPc EXCEPT ![t] = l]

SemInit ==
  /\ permits = Permits
  /\ semWaiters = <<>>
  /\ semPc = [t \in ThreadIds |-> "idle"]
  /\ current = [t \in ThreadIds |-> 0]
  /\ out = 0

Acquire(t) ==
  /\ semPc[t] = "idle"
  /\ SemGoto(t, "acquire")
  /\ UNCHANGED <<permits, semWaiters, current, out>>

\* acquire() loads the count: no permit means queue and spin.
AcquireLoad(t) ==
  /\ semPc[t] = "acquire"
  /\ current' = [current EXCEPT ![t] = permits]
  /\ SemGoto(t, IF permits = 0 THEN "wait" ELSE "cas")
  /\ UNCHANGED <<permits, semWaiters, out>>

\* Mutant: a thread that found no permit parks, and release() unparks no one.
AcquireWaitParked(t) ==
  /\ semPc[t] = "wait"
  /\ semWaiters' = PushBack(semWaiters, t)
  /\ UNCHANGED <<permits, semPc, current, out>>

AcquireWait(t) ==
  /\ semPc[t] = "wait"
  /\ semWaiters' = PushBack(semWaiters, t)
  /\ SemGoto(t, "acquire")
  /\ UNCHANGED <<permits, current, out>>

\* try_acquire(): a load, and only one compare_exchange.
TryAcquire(t) ==
  /\ semPc[t] = "idle"
  /\ permits # 0
  /\ current' = [current EXCEPT ![t] = permits]
  /\ SemGoto(t, "tryCas")
  /\ UNCHANGED <<permits, semWaiters, out>>

\* Mutant: the count is stored, not compare-exchanged.
TakePermitByStore(t) ==
  /\ permits' = current[t] - 1
  /\ out' = out + 1
  /\ SemGoto(t, "idle")

\* compare_exchange(current, current - 1): the count may have moved away and
\* come back since the load.
TakePermit(t) ==
  /\ permits = current[t]
  /\ permits' = current[t] - 1
  /\ out' = out + 1
  /\ SemGoto(t, "idle")

AcquireCas(t) ==
  /\ semPc[t] = "cas"
  /\ \/ TakePermit(t)
     \/ permits # current[t] /\ SemGoto(t, "acquire") /\ UNCHANGED <<permits, out>>
  /\ UNCHANGED <<semWaiters, current>>

TryAcquireCas(t) ==
  /\ semPc[t] = "tryCas"
  /\ \/ TakePermit(t)
     \/ permits # current[t] /\ SemGoto(t, "idle") /\ UNCHANGED <<permits, out>>
  /\ UNCHANGED <<semWaiters, current>>

\* release(): fetch_add, then the first waiter is popped and dropped.
Release(t) ==
  /\ semPc[t] = "idle"
  /\ out > 0
  /\ permits' = permits + 1
  /\ out' = out - 1
  /\ SemGoto(t, "pop")
  /\ UNCHANGED <<semWaiters, current>>

ReleasePop(t) ==
  /\ semPc[t] = "pop"
  /\ semWaiters' = PopFront(semWaiters)
  /\ SemGoto(t, "idle")
  /\ UNCHANGED <<permits, current, out>>

SemProceed(t) ==
  \/ AcquireLoad(t) \/ AcquireWait(t) \/ AcquireCas(t)
  \/ TryAcquireCas(t) \/ ReleasePop(t)

SemNext == \E t \in ThreadIds : Acquire(t) \/ TryAcquire(t) \/ Release(t) \/ SemProceed(t)

SemFairness == \A t \in ThreadIds : WF_semVars(SemProceed(t))

SemSpec == SemInit /\ [][SemNext]_semVars
SemFairSpec == SemSpec /\ SemFairness

-----------------------------------------------------------------------------
\* Permits are neither made nor lost, whatever the threads' loads and
\* compare-exchanges interleave to: what is out and what is left add up.
PermitsConserved == permits + out = Permits

\* A thread that asks for a permit does not wait beside free ones for ever:
\* some permit is out or gets taken (one thread may starve, all cannot).
PermitTaken ==
  (\E t \in ThreadIds : semPc[t] \in {"acquire", "cas", "wait"}) ~> (out > 0)
=============================================================================
