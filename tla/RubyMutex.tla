------------------------------ MODULE RubyMutex ------------------------------
(***************************************************************************)
(* RubyMutex and RubyCondVar of jdruby-runtime/src/stdlib/thread_ext.rs.   *)
(*                                                                         *)
(* The lock word is one AtomicU64 (0 = unlocked, otherwise the owner's     *)
(* thread id); `waiters` and the condition variable's queue are VecDeques  *)
(* behind std mutexes that are held for one push or pop, so each access to *)
(* them is one step.  A thread that fails its compare_exchange queues its  *)
(* id and spins: nothing parks it and nothing wakes it.                    *)
(***************************************************************************)
EXTENDS WaiterQueue

VARIABLES mutexState,    \* RubyMutex.state
          mutexWaiters,  \* RubyMutex.waiters
          cvWaiters,     \* RubyCondVar.waiters
          mutexPc,       \* where each thread is inside lock / unlock / wait
          relock,        \* the threads inside RubyCondVar::wait
          holds          \* history: threads whose last call told them they own it

mutexVars == <<mutexState, mutexWaiters, cvWaiters, mutexPc, relock, holds>>

Unlocked == 0

MutexTypeOK ==
  /\ mutexState \in ThreadIds \cup {Unlocked}
  /\ mutexWaiters \in Seq(ThreadIds)
  /\ cvWaiters \in Seq(ThreadIds)
  /\ mutexPc \in [ThreadIds -> {"idle", "cas", "enqueue", "popWaiter", "cvUnlock"}]
  /\ relock \in SUBSET ThreadIds
  /\ holds \in SUBSET ThreadIds

MutexGoto(t, l) == mutexPc' = [mutexPc EXCEPT ![t] = l]

MutexInit ==
  /\ mutexState = Unlocked
  /\ mutexWaiters = <<>>
  /\ cvWaiters = <<>>
  /\ mutexPc = [t \in ThreadIds |-> "idle"]
  /\ relock = {}
  /\ holds = {}

-----------------------------------------------------------------------------
(* lock, try_lock and unlock *)

\* lock() is entered, by any thread, the owner included.
CallLock(t) ==
  /\ mutexPc[t] = "idle"
  /\ MutexGoto(t, "cas")
  /\ UNCHANGED <<mutexState, mutexWaiters, cvWaiters, relock, holds>>

\* Mutant: the lock word is stored, not compare-exchanged.
LockAcquireByStore(t) ==
  /\ mutexPc[t] = "cas"
  /\ mutexState' = t
  /\ holds' = holds \cup {t}
  /\ relock' = relock \ {t}
  /\ MutexGoto(t, "idle")
  /\ UNCHANGED <<mutexWaiters, cvWaiters>>

\* compare_exchange(0, thread_id) succeeds: lock() returns.
LockAcquire(t) ==
  /\ mutexPc[t] = "cas"
  /\ mutexState = Unlocked
  /\ mutexState' = t
  /\ holds' = holds \cup {t}
  /\ relock' = relock \ {t}
  /\ MutexGoto(t, "idle")
  /\ UNCHANGED <<mutexWaiters, cvWaiters>>

\* It fails, also when the caller itself is the owner.
LockFail(t) ==
  /\ mutexPc[t] = "cas"
  /\ mutexState # Unlocked
  /\ MutexGoto(t, "enqueue")
  /\ UNCHANGED <<mutexState, mutexWaiters, cvWaiters, relock, holds>>

\* Mutant: the thread parks after queueing itself (no one unparks it).
LockEnqueueAndPark(t) ==
  /\ mutexPc[t] = "enqueue"
  /\ mutexWaiters' = PushBack(mutexWaiters, t)
  /\ UNCHANGED <<mutexState, cvWaiters, mutexPc, relock, holds>>

\* Mutant: the id that is queued is the one read from the lock word.
LockEnqueueOwner(t) ==
  /\ mutexPc[t] = "enqueue"
  /\ mutexWaiters' = PushBack(mutexWaiters, mutexState)
  /\ MutexGoto(t, "cas")
  /\ UNCHANGED <<mutexState, cvWaiters, relock, holds>>

\* The Err arm: push_back, yield_now, and round the loop again.
LockEnqueue(t) ==
  /\ mutexPc[t] = "enqueue"
  /\ mutexWaiters' = PushBack(mutexWaiters, t)
  /\ MutexGoto(t, "cas")
  /\ UNCHANGED <<mutexState, cvWaiters, relock, holds>>

\* try_lock that succeeds; one that fails changes nothing.
TryLock(t) ==
  /\ mutexPc[t] = "idle"
  /\ mutexState = Unlocked
  /\ mutexState' = t
  /\ holds' = holds \cup {t}
  /\ UNCHANGED <<mutexWaiters, cvWaiters, mutexPc, relock>>

\* unlock() by the owner: the word is cleared before a waiter is popped.
\* By any other thread the compare_exchange fails and nothing changes.
Unlock(t) ==
  /\ mutexPc[t] = "idle"
  /\ mutexState = t
  /\ mutexState' = Unlocked
  /\ holds' = holds \ {t}
  /\ MutexGoto(t, "popWaiter")
  /\ UNCHANGED <<mutexWaiters, cvWaiters, relock>>

\* The rest of unlock(): the first waiter is popped and dropped; a thread
\* that unlocked on behalf of wait() goes on to lock() again.
UnlockPop(t) ==
  /\ mutexPc[t] = "popWaiter"
  /\ mutexWaiters' = PopFront(mutexWaiters)
  /\ MutexGoto(t, IF t \in relock THEN "cas" ELSE "idle")
  /\ UNCHANGED <<mutexState, cvWaiters, relock, holds>>

-----------------------------------------------------------------------------
(* RubyCondVar *)

\* wait() and wait_timeout(): queue the id; the time a timeout spins for
\* leaves the mutexState alone.
CvWait(t) ==
  /\ mutexPc[t] = "idle"
  /\ cvWaiters' = PushBack(cvWaiters, t)
  /\ relock' = relock \cup {t}
  /\ MutexGoto(t, "cvUnlock")
  /\ UNCHANGED <<mutexState, mutexWaiters, holds>>

\* mutex.unlock(thread_id) inside wait(); its result is ignored.
CvUnlock(t) ==
  /\ mutexPc[t] = "cvUnlock"
  /\ \/ /\ mutexState = t
        /\ mutexState' = Unlocked
        /\ holds' = holds \ {t}
        /\ MutexGoto(t, "popWaiter")
     \/ /\ mutexState # t
        /\ MutexGoto(t, "cas")
        /\ UNCHANGED <<mutexState, holds>>
  /\ UNCHANGED <<mutexWaiters, cvWaiters, relock>>

\* signal() and broadcast(), by anybody at any time.
Signal == cvWaiters' = PopFront(cvWaiters)
Broadcast == cvWaiters' = <<>>
CvNotify ==
  /\ cvWaiters # <<>>
  /\ Signal \/ Broadcast
  /\ UNCHANGED <<mutexState, mutexWaiters, mutexPc, relock, holds>>

-----------------------------------------------------------------------------
\* The steps a call takes once it has begun.
MutexProceed(t) ==
  \/ LockAcquire(t)
  \/ LockFail(t)
  \/ LockEnqueue(t)
  \/ UnlockPop(t)
  \/ CvUnlock(t)

MutexCall(t) ==
  \/ CallLock(t)
  \/ TryLock(t)
  \/ Unlock(t)
  \/ CvWait(t)

MutexNext == (\E t \in ThreadIds : MutexCall(t) \/ MutexProceed(t)) \/ CvNotify

\* A call that has begun is scheduled on; a caller may stop calling.
MutexFairness == \A t \in ThreadIds : WF_mutexVars(MutexProceed(t))

MutexSpec == MutexInit /\ [][MutexNext]_mutexVars
MutexFairSpec == MutexSpec /\ MutexFairness

-----------------------------------------------------------------------------
(* Properties *)

\* The lock word and what the callers were told agree: the mutex is locked
\* exactly when one thread, the one whose id it stores, was told it owns it.
\* Two owners and a lock nobody can release are both excluded, through
\* lock, try_lock, unlock and the release and reacquisition inside wait.
LockAgreement == holds = IF mutexState = Unlocked THEN {} ELSE {mutexState}

\* Some thread gets the lock when threads want it: the spin loop of lock()
\* never leaves all of them queued with the lock word free.
LockProgress ==
  (\E t \in ThreadIds : mutexPc[t] \in {"cas", "enqueue"}) ~> (holds # {})
=============================================================================
