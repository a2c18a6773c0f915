------------------------------ MODULE SyncProofs ------------------------------
(***************************************************************************)
(* The spinning primitives of thread_ext.rs, for any threads and permits:  *)
(* the mutex excludes, the semaphore conserves its permits, the word of    *)
(* the read-write lock tells who holds it; and the types of all three as   *)
(* MCSync runs them.                                                       *)
(***************************************************************************)
EXTENDS MCSync, FiniteSetTheorems, TLAPS

\* The bounded push_back and pop_front keep a queue a queue of thread ids.
LEMMA QueueTypes ==
  ASSUME NEW q \in Seq(ThreadIds), NEW t \in ThreadIds
  PROVE  /\ PushBack(q, t) \in Seq(ThreadIds)
         /\ PopFront(q) \in Seq(ThreadIds)
  BY DEF PushBack, PopFront

-----------------------------------------------------------------------------
(* The mutex and its condition variable.  LockAgreement is inductive given *)
(* the types: the only steps that touch the word are a compare_exchange    *)
(* from 0 and one from the caller's own id.                                *)

\* Every state the mutex, the condition variable and their callers reach is
\* well typed: a queue holds thread ids, the word 0 or a thread id.
THEOREM MutexTypeCorrect == MutexSpec => []MutexTypeOK
<1>1. MutexInit => MutexTypeOK
  BY DEF MutexInit, MutexTypeOK, Unlocked
<1>2. MutexTypeOK /\ [MutexNext]_mutexVars => MutexTypeOK'
  <2> SUFFICES ASSUME MutexTypeOK, [MutexNext]_mutexVars PROVE MutexTypeOK'
    OBVIOUS
  <2> USE DEF MutexTypeOK, MutexGoto
  <2>1. CASE UNCHANGED mutexVars
    BY <2>1 DEF mutexVars
  <2>2. CASE CvNotify
    <3>1. CASE Signal
      BY <2>2, <3>1 DEF CvNotify, Signal, PopFront
    <3>2. CASE Broadcast
      BY <2>2, <3>2 DEF CvNotify, Broadcast
    <3> QED BY <2>2, <3>1, <3>2 DEF CvNotify
  <2>3. ASSUME NEW t \in ThreadIds, MutexCall(t) PROVE MutexTypeOK'
    <3>1. CASE CallLock(t) BY <3>1 DEF CallLock
    <3>2. CASE TryLock(t) BY <3>2 DEF TryLock
    <3>3. CASE Unlock(t) BY <3>3 DEF Unlock
    <3>4. CASE CvWait(t) BY <3>4, QueueTypes DEF CvWait
    <3> QED BY <2>3, <3>1, <3>2, <3>3, <3>4 DEF MutexCall
  <2>4. ASSUME NEW t \in ThreadIds, MutexProceed(t) PROVE MutexTypeOK'
    <3>1. CASE LockAcquire(t) BY <3>1 DEF LockAcquire
    <3>2. CASE LockFail(t) BY <3>2 DEF LockFail
    <3>3. CASE LockEnqueue(t) BY <3>3, QueueTypes DEF LockEnqueue
    <3>4. CASE UnlockPop(t) BY <3>4, QueueTypes DEF UnlockPop
    <3>5. CASE CvUnlock(t) BY <3>5 DEF CvUnlock
    <3> QED BY <2>4, <3>1, <3>2, <3>3, <3>4, <3>5 DEF MutexProceed
  <2> QED BY <2>1, <2>2, <2>3, <2>4 DEF MutexNext
<1> QED BY <1>1, <1>2, PTL DEF MutexSpec

\* Mutual exclusion of RubyMutex: at every moment the lock word is 0 and no
\* thread was told it owns the mutex, or it is the id of the one that was.
THEOREM MutualExclusion == MutexSpec => []LockAgreement
<1>1. MutexInit => LockAgreement
  BY DEF MutexInit, LockAgreement
<1>2. MutexTypeOK /\ LockAgreement /\ [MutexNext]_mutexVars => LockAgreement'
  <2> SUFFICES ASSUME MutexTypeOK, LockAgreement, [MutexNext]_mutexVars PROVE LockAgreement'
    OBVIOUS
  <2> USE ThreadIdsAssumption DEF MutexTypeOK, LockAgreement, Unlocked
  <2>1. CASE UNCHANGED mutexVars
    BY <2>1 DEF mutexVars
  <2>2. CASE CvNotify
    BY <2>2 DEF CvNotify
  <2>3. ASSUME NEW t \in ThreadIds, MutexCall(t) PROVE LockAgreement'
    <3>1. CASE CallLock(t) BY <3>1 DEF CallLock
    <3>2. CASE TryLock(t) BY <3>2 DEF TryLock
    <3>3. CASE Unlock(t) BY <3>3 DEF Unlock
    <3>4. CASE CvWait(t) BY <3>4 DEF CvWait
    <3> QED BY <2>3, <3>1, <3>2, <3>3, <3>4 DEF MutexCall
  <2>4. ASSUME NEW t \in ThreadIds, MutexProceed(t) PROVE LockAgreement'
    <3>1. CASE LockAcquire(t) BY <3>1 DEF LockAcquire
    <3>2. CASE LockFail(t) BY <3>2 DEF LockFail
    <3>3. CASE LockEnqueue(t) BY <3>3 DEF LockEnqueue
    <3>4. CASE UnlockPop(t) BY <3>4 DEF UnlockPop
    <3>5. CASE CvUnlock(t) BY <3>5 DEF CvUnlock
    <3> QED BY <2>4, <3>1, <3>2, <3>3, <3>4, <3>5 DEF MutexProceed
  <2> QED BY <2>1, <2>2, <2>3, <2>4 DEF MutexNext
<1> QED BY <1>1, <1>2, MutexTypeCorrect, PTL DEF MutexSpec

-----------------------------------------------------------------------------
(* The semaphore.  PermitsConserved is not inductive alone: the decrement  *)
(* in compare_exchange(current, current - 1) is one of a positive count    *)
(* only because a thread about to compare-exchange never loaded a 0.       *)

\* A thread that reached its compare_exchange loaded a count above 0.
LoadedPositive == \A t \in ThreadIds : semPc[t] \in {"cas", "tryCas"} => current[t] > 0

\* The inductive invariant.
SemInv == SemTypeOK /\ LoadedPositive /\ PermitsConserved

\* The compare_exchange that succeeds took the count from positive to one less.
LEMMA TakeKeepsInv ==
  ASSUME SemInv, NEW t \in ThreadIds, semPc[t] \in {"cas", "tryCas"}, TakePermit(t),
         UNCHANGED <<semWaiters, current>>
  PROVE  SemInv'
<1> USE PermitsAssumption DEF SemInv, SemTypeOK, LoadedPositive, PermitsConserved, SemGoto, TakePermit
<1>1. current[t] \in Nat /\ current[t] > 0
  OBVIOUS
<1>2. permits' \in Nat /\ out' \in Nat /\ permits' + out' = Permits
  BY <1>1
<1>3. semPc' \in [ThreadIds -> {"idle", "acquire", "cas", "wait", "tryCas", "pop"}]
  OBVIOUS
<1>4. LoadedPositive'
  BY <1>3
<1> QED BY <1>2, <1>3, <1>4

\* Every step of acquire, try_acquire and release preserves the invariant.
LEMMA SemStep == SemInv /\ [SemNext]_semVars => SemInv'
<1> SUFFICES ASSUME SemInv, [SemNext]_semVars PROVE SemInv'
  OBVIOUS
<1> USE PermitsAssumption DEF SemInv, SemTypeOK, LoadedPositive, PermitsConserved, SemGoto
<1>1. CASE UNCHANGED semVars
  BY <1>1 DEF semVars
<1>2. ASSUME NEW t \in ThreadIds, Acquire(t) PROVE SemInv'
  BY <1>2 DEF Acquire
<1>3. ASSUME NEW t \in ThreadIds, TryAcquire(t) PROVE SemInv'
  BY <1>3 DEF TryAcquire
<1>4. ASSUME NEW t \in ThreadIds, Release(t) PROVE SemInv'
  BY <1>4 DEF Release
<1>5. ASSUME NEW t \in ThreadIds, AcquireLoad(t) PROVE SemInv'
  BY <1>5 DEF AcquireLoad
<1>6. ASSUME NEW t \in ThreadIds, AcquireWait(t) PROVE SemInv'
  BY <1>6, QueueTypes DEF AcquireWait
<1>7. ASSUME NEW t \in ThreadIds, AcquireCas(t) PROVE SemInv'
  <2>1. CASE TakePermit(t)
    BY <1>7, <2>1, TakeKeepsInv DEF AcquireCas
  <2>2. CASE ~TakePermit(t)
    BY <1>7, <2>2 DEF AcquireCas
  <2> QED BY <2>1, <2>2
<1>8. ASSUME NEW t \in ThreadIds, TryAcquireCas(t) PROVE SemInv'
  <2>1. CASE TakePermit(t)
    BY <1>8, <2>1, TakeKeepsInv DEF TryAcquireCas
  <2>2. CASE ~TakePermit(t)
    BY <1>8, <2>2 DEF TryAcquireCas
  <2> QED BY <2>1, <2>2
<1>9. ASSUME NEW t \in ThreadIds, ReleasePop(t) PROVE SemInv'
  BY <1>9, QueueTypes DEF ReleasePop
<1> QED BY <1>1, <1>2, <1>3, <1>4, <1>5, <1>6, <1>7, <1>8, <1>9 DEF SemNext, SemProceed

\* The count and the number of permits out always add up to the permits the
\* semaphore was made with: no interleaving of load and compare_exchange
\* makes or loses one, and no decrement takes the count below 0.
THEOREM PermitsAreConserved == SemSpec => [](SemTypeOK /\ PermitsConserved)
<1>1. SemInit => SemInv
  BY PermitsAssumption DEF SemInit, SemInv, SemTypeOK, LoadedPositive, PermitsConserved
<1>2. SemInv => SemTypeOK /\ PermitsConserved
  BY DEF SemInv
<1> QED BY <1>1, <1>2, SemStep, PTL DEF SemSpec

-----------------------------------------------------------------------------
(* The read-write lock, for threads fewer than the largest value of the    *)
(* word.  Two facts complete WordAgreement to an inductive invariant: a    *)
(* thread that is still asking holds nothing, and the types, which keep    *)
(* u64::MAX out of what read_lock loads.                                   *)

\* A thread inside read_lock or write_lock holds nothing yet.
AskersHoldNothing ==
  \A t \in ThreadIds :
    rwPc[t] \in {"read", "readCas", "readWait", "write", "writeWait"} =>
      t \notin readers /\ t \notin writers

\* The inductive invariant.
RWInv == RWTypeOK /\ AskersHoldNothing /\ WordAgreement

\* A set of readers is finite and smaller than u64::MAX.
LEMMA ReadersBounded ==
  ASSUME NEW R \in SUBSET ThreadIds
  PROVE  IsFiniteSet(R) /\ Cardinality(R) \in Nat /\ Cardinality(R) < MaxWord
<1>1. IsFiniteSet(R) /\ Cardinality(R) <= Cardinality(ThreadIds)
  BY FewThreadsAssumption, FS_Subset
<1>2. Cardinality(R) \in Nat /\ Cardinality(ThreadIds) \in Nat
  BY <1>1, FewThreadsAssumption, FS_CardinalityType
<1> QED BY <1>1, <1>2, FewThreadsAssumption, MaxWordAssumption

\* fetch_sub(1) of a word that is not 0 does not wrap.
LEMMA FetchSubOne ==
  ASSUME NEW w \in 1..MaxWord
  PROVE  (w + MaxWord) % (MaxWord + 1) = w - 1
<1>1. w + MaxWord = (w - 1) + (MaxWord + 1) /\ w - 1 \in 0..MaxWord
  BY MaxWordAssumption
<1> QED BY <1>1, MaxWordAssumption, SMTT(30)

-----------------------------------------------------------------------------
(* The steps that move the word *)

\* compare_exchange(loaded, loaded + 1) by a thread that reads nothing yet.
LEMMA ReadCasStep ==
  ASSUME RWInv, NEW t \in ThreadIds, ReadCas(t)
  PROVE  RWInv'
<1> USE DEF RWInv
<1>1. CASE rwState # loaded[t]
  <2>1. /\ rwPc[t] = "readCas" /\ rwPc' = [rwPc EXCEPT ![t] = "read"]
        /\ UNCHANGED <<rwState, queues, loaded, readers, writers>>
    BY <1>1 DEF ReadCas, RWGoto
  <2>2. RWTypeOK' /\ AskersHoldNothing'
    BY <2>1 DEF queues, RWTypeOK, AskersHoldNothing
  <2> QED BY <2>1, <2>2 DEF WordAgreement
<1>2. CASE rwState = loaded[t]
  <2>1. loaded[t] \in 0..(MaxWord - 1) /\ t \notin readers /\ readers \in SUBSET ThreadIds
    BY DEF ReadCas, RWTypeOK, AskersHoldNothing
  <2>2. writers = {} /\ rwState = Cardinality(readers)
    BY <1>2, <2>1, MaxWordAssumption DEF WordAgreement
  <2>3. /\ rwState' = rwState + 1
        /\ readers' = readers \cup {t}
        /\ rwPc' = [rwPc EXCEPT ![t] = "idle"]
        /\ UNCHANGED <<queues, loaded, writers>>
    BY <1>2 DEF ReadCas, RWGoto
  <2>4. Cardinality(readers') = Cardinality(readers) + 1
    BY <2>1, <2>3, ReadersBounded, FS_AddElement
  <2>5. WordAgreement'
    BY <2>2, <2>3, <2>4 DEF WordAgreement
  <2>6. RWTypeOK'
    BY <1>2, <2>1, <2>3, MaxWordAssumption DEF RWTypeOK, queues
  <2>7. AskersHoldNothing'
    BY <2>3 DEF AskersHoldNothing, RWTypeOK
  <2> QED BY <2>5, <2>6, <2>7
<1> QED BY <1>1, <1>2

\* read_unlock by a thread that reads: the word was a count, and not 0.
LEMMA ReadUnlockStep ==
  ASSUME RWInv, NEW t \in ThreadIds, ReadUnlock(t)
  PROVE  RWInv'
<1> USE DEF RWInv
<1>1. t \in readers /\ readers \in SUBSET ThreadIds
  BY DEF ReadUnlock, RWTypeOK
<1>2. writers = {} /\ rwState = Cardinality(readers)
  BY <1>1 DEF WordAgreement
<1>3. Cardinality(readers) \in Nat /\ Cardinality(readers) < MaxWord /\ IsFiniteSet(readers)
  BY <1>1, ReadersBounded
<1>4. Cardinality(readers) # 0
  BY <1>1, <1>3, FS_EmptySet
<1>5. rwState \in 1..MaxWord
  BY <1>2, <1>3, <1>4, MaxWordAssumption
<1>6. /\ rwState' = rwState - 1
      /\ readers' = readers \ {t}
      /\ UNCHANGED <<queues, loaded, writers>>
  BY <1>5, FetchSubOne DEF ReadUnlock
<1>7. /\ rwPc' \in [ThreadIds -> {"idle", "read", "readCas", "readWait", "readWake",
                              "write", "writeWait", "writeWake"}]
      /\ rwPc'[t] \in {"readWake", "idle"}
      /\ \A u \in ThreadIds \ {t} : rwPc'[u] = rwPc[u]
  BY DEF ReadUnlock, RWGoto, RWTypeOK
<1>8. Cardinality(readers') = Cardinality(readers) - 1
  BY <1>1, <1>3, <1>6, FS_RemoveElement
<1>9. WordAgreement'
  BY <1>2, <1>6, <1>8 DEF WordAgreement
<1>10. RWTypeOK'
  BY <1>5, <1>6, <1>7, MaxWordAssumption DEF RWTypeOK, queues
<1>11. AskersHoldNothing'
  BY <1>6, <1>7 DEF AskersHoldNothing
<1> QED BY <1>9, <1>10, <1>11

\* write_lock's compare_exchange(0, u64::MAX).
LEMMA WriteCasStep ==
  ASSUME RWInv, NEW t \in ThreadIds, WriteCas(t)
  PROVE  RWInv'
<1> USE DEF RWInv
<1>1. CASE rwState # 0
  <2>1. /\ rwPc[t] = "write" /\ rwPc' = [rwPc EXCEPT ![t] = "writeWait"]
        /\ UNCHANGED <<rwState, queues, loaded, readers, writers>>
    BY <1>1 DEF WriteCas, RWGoto
  <2>2. RWTypeOK' /\ AskersHoldNothing'
    BY <2>1 DEF queues, RWTypeOK, AskersHoldNothing
  <2> QED BY <2>1, <2>2 DEF WordAgreement
<1>2. CASE rwState = 0
  <2>1. readers \in SUBSET ThreadIds /\ IsFiniteSet(readers)
    BY ReadersBounded DEF RWTypeOK
  <2>2. writers = {} /\ Cardinality(readers) = 0
    BY <1>2, MaxWordAssumption DEF WordAgreement
  <2>3. readers = {}
    BY <2>1, <2>2, FS_EmptySet
  <2>4. /\ rwState' = MaxWord
        /\ writers' = {t}
        /\ rwPc' = [rwPc EXCEPT ![t] = "idle"]
        /\ UNCHANGED <<queues, loaded, readers>>
    BY <1>2, <2>2 DEF WriteCas, RWGoto
  <2>5. WordAgreement'
    BY <2>3, <2>4 DEF WordAgreement
  <2>6. RWTypeOK' /\ AskersHoldNothing'
    BY <2>2, <2>4, MaxWordAssumption DEF RWTypeOK, queues, AskersHoldNothing
  <2> QED BY <2>5, <2>6
<1> QED BY <1>1, <1>2

\* write_unlock's store(0), by the writer.
LEMMA WriteUnlockStep ==
  ASSUME RWInv, NEW t \in ThreadIds, WriteUnlock(t)
  PROVE  RWInv'
<1> USE DEF RWInv
<1>1. writers = {t} /\ readers = {}
  BY DEF WriteUnlock, WordAgreement
<1>2. /\ rwState' = 0 /\ writers' = {} /\ readers' = {}
      /\ rwPc' = [rwPc EXCEPT ![t] = "writeWake"]
      /\ UNCHANGED <<queues, loaded>>
  BY <1>1 DEF WriteUnlock, RWGoto
<1>3. WordAgreement'
  BY <1>2, FS_EmptySet DEF WordAgreement
<1>4. RWTypeOK' /\ AskersHoldNothing'
  BY <1>2, MaxWordAssumption DEF RWTypeOK, queues, AskersHoldNothing
<1> QED BY <1>3, <1>4

\* Every step of the lock preserves the invariant.
LEMMA RWStep == RWInv /\ [RWNext]_rwVars => RWInv'
<1> SUFFICES ASSUME RWInv, [RWNext]_rwVars PROVE RWInv'
  OBVIOUS
<1> USE DEF RWInv
<1>1. CASE UNCHANGED rwVars
  BY <1>1 DEF rwVars, RWTypeOK, AskersHoldNothing, WordAgreement
<1>2. ASSUME NEW t \in ThreadIds, RWAsk(t) PROVE RWInv'
  <2>1. PICK l \in {"read", "write"} : rwPc' = [rwPc EXCEPT ![t] = l]
    BY <1>2 DEF RWAsk, RWGoto
  <2> QED BY <1>2, <2>1 DEF RWAsk, queues, RWTypeOK, AskersHoldNothing, WordAgreement
<1>3. ASSUME NEW t \in ThreadIds, RWAcquire(t) PROVE RWInv'
  <2>1. CASE ReadLoad(t)
    <3>1. CASE rwState = MaxWord
      <4>1. /\ rwPc[t] = "read" /\ rwPc' = [rwPc EXCEPT ![t] = "readWait"]
            /\ UNCHANGED <<rwState, queues, loaded, readers, writers>>
        BY <2>1, <3>1 DEF ReadLoad, RWGoto
      <4> QED BY <4>1 DEF queues, RWTypeOK, AskersHoldNothing, WordAgreement
    <3>2. CASE rwState # MaxWord
      <4>1. /\ rwPc[t] = "read" /\ rwPc' = [rwPc EXCEPT ![t] = "readCas"]
            /\ loaded' = [loaded EXCEPT ![t] = rwState]
            /\ UNCHANGED <<rwState, queues, readers, writers>>
        BY <2>1, <3>2 DEF ReadLoad, RWGoto
      <4>2. rwState \in 0..(MaxWord - 1)
        BY <3>2, MaxWordAssumption DEF RWTypeOK
      <4> QED BY <4>1, <4>2 DEF queues, RWTypeOK, AskersHoldNothing, WordAgreement
    <3> QED BY <3>1, <3>2
  <2>2. CASE ReadWait(t)
    BY <2>2, QueueTypes DEF ReadWait, RWGoto, RWTypeOK, AskersHoldNothing, WordAgreement
  <2>3. CASE ReadCas(t)
    BY <2>3, ReadCasStep
  <2>4. CASE WriteCas(t)
    BY <2>4, WriteCasStep
  <2>5. CASE WriteWait(t)
    BY <2>5, QueueTypes DEF WriteWait, RWGoto, RWTypeOK, AskersHoldNothing, WordAgreement
  <2> QED BY <1>3, <2>1, <2>2, <2>3, <2>4, <2>5 DEF RWAcquire
<1>4. ASSUME NEW t \in ThreadIds, RWRelease(t) PROVE RWInv'
  <2>1. CASE ReadUnlock(t)
    BY <2>1, ReadUnlockStep
  <2>2. CASE ReadWake(t)
    BY <2>2, QueueTypes DEF ReadWake, RWGoto, RWTypeOK, AskersHoldNothing, WordAgreement
  <2>3. CASE WriteUnlock(t)
    BY <2>3, WriteUnlockStep
  <2>4. CASE WriteWake(t)
    BY <2>4, QueueTypes DEF WriteWake, RWGoto, RWTypeOK, AskersHoldNothing, WordAgreement
  <2> QED BY <1>4, <2>1, <2>2, <2>3, <2>4 DEF RWRelease
<1> QED BY <1>1, <1>2, <1>3, <1>4 DEF RWNext

\* A fresh lock has neither readers nor a writer.
LEMMA RWInitInv == RWInit => RWInv
BY FS_EmptySet, MaxWordAssumption
   DEF RWInit, RWInv, RWTypeOK, AskersHoldNothing, WordAgreement

\* The lock word tells the truth at every moment: u64::MAX exactly while one
\* thread writes and none reads, otherwise the number of readers.
THEOREM WordTellsTheTruth == RWSpec => []WordAgreement
<1>1. RWInv => WordAgreement
  BY DEF RWInv
<1> QED BY <1>1, RWInitInv, RWStep, PTL DEF RWSpec

-----------------------------------------------------------------------------
(* What a lock promises *)

SharedRW == INSTANCE SharedLock
SharedMutex == INSTANCE SharedLock WITH readers <- {}, writers <- holds

\* read_lock, write_lock and their unlocks implement the abstract lock: each
\* takes effect at the one compare_exchange, fetch_sub or store that moves the
\* word, and the word's value there is enough to know who holds the lock.
THEOREM RWLockImplementsLock == RWSpec => SharedRW!LockSpec
<1>1. RWInit => SharedRW!LockInit
  BY DEF RWInit, SharedRW!LockInit
<1>2. RWInv /\ [RWNext]_rwVars => [SharedRW!LockNext]_SharedRW!lockVars
  <2> SUFFICES ASSUME RWInv, [RWNext]_rwVars
               PROVE  SharedRW!LockNext \/ UNCHANGED SharedRW!lockVars
    OBVIOUS
  <2> USE DEF RWInv, SharedRW!LockNext, SharedRW!lockVars
  <2>1. ASSUME NEW t \in ThreadIds, ReadCas(t)
        PROVE  SharedRW!Share(t) \/ UNCHANGED SharedRW!lockVars
    <3>1. CASE rwState = loaded[t]
      <4>1. rwState # MaxWord /\ t \notin readers
        BY <2>1, <3>1, MaxWordAssumption DEF ReadCas, RWTypeOK, AskersHoldNothing
      <4>2. writers = {}
        BY <4>1 DEF WordAgreement
      <4> QED BY <2>1, <3>1, <4>1, <4>2 DEF ReadCas, SharedRW!Share
    <3>2. CASE rwState # loaded[t]
      BY <2>1, <3>2 DEF ReadCas
    <3> QED BY <3>1, <3>2
  <2>2. ASSUME NEW t \in ThreadIds, ReadUnlock(t) PROVE SharedRW!Unshare(t)
    BY <2>2 DEF ReadUnlock, SharedRW!Unshare
  <2>3. ASSUME NEW t \in ThreadIds, WriteCas(t)
        PROVE  SharedRW!Take(t) \/ UNCHANGED SharedRW!lockVars
    <3>1. CASE rwState = 0
      <4>1. writers = {} /\ Cardinality(readers) = 0
        BY <3>1, MaxWordAssumption DEF WordAgreement
      <4>2. readers = {}
        BY <4>1, ReadersBounded, FS_EmptySet DEF RWTypeOK
      <4> QED BY <2>3, <3>1, <4>1, <4>2 DEF WriteCas, SharedRW!Take
    <3>2. CASE rwState # 0
      BY <2>3, <3>2 DEF WriteCas
    <3> QED BY <3>1, <3>2
  <2>4. ASSUME NEW t \in ThreadIds, WriteUnlock(t) PROVE SharedRW!Give(t)
    BY <2>4 DEF WriteUnlock, WordAgreement, SharedRW!Give
  <2>5. ASSUME NEW t \in ThreadIds,
               \/ RWAsk(t) \/ ReadLoad(t) \/ ReadWait(t) \/ WriteWait(t)
               \/ ReadWake(t) \/ WriteWake(t)
        PROVE  UNCHANGED SharedRW!lockVars
    BY <2>5 DEF RWAsk, ReadLoad, ReadWait, WriteWait, ReadWake, WriteWake
  <2>6. CASE UNCHANGED rwVars
    BY <2>6 DEF rwVars
  <2> QED BY <2>1, <2>2, <2>3, <2>4, <2>5, <2>6 DEF RWNext, RWAcquire, RWRelease
<1> QED BY <1>1, <1>2, RWInitInv, RWStep, PTL DEF RWSpec, SharedRW!LockSpec

\* lock, try_lock, unlock and the release and reacquisition inside wait
\* implement the abstract lock that is never shared.
THEOREM MutexImplementsLock == MutexSpec => SharedMutex!LockSpec
<1>1. MutexInit => SharedMutex!LockInit
  BY DEF MutexInit, SharedMutex!LockInit
<1>2. MutexTypeOK /\ LockAgreement /\ [MutexNext]_mutexVars =>
        [SharedMutex!LockNext]_SharedMutex!lockVars
  <2> SUFFICES ASSUME MutexTypeOK, LockAgreement, [MutexNext]_mutexVars
               PROVE  SharedMutex!LockNext \/ UNCHANGED SharedMutex!lockVars
    OBVIOUS
  <2> USE ThreadIdsAssumption DEF MutexTypeOK, LockAgreement, Unlocked, SharedMutex!LockNext,
                                  SharedMutex!lockVars
  <2>1. ASSUME NEW t \in ThreadIds, TryLock(t) \/ LockAcquire(t) PROVE SharedMutex!Take(t)
    BY <2>1 DEF TryLock, LockAcquire, SharedMutex!Take
  <2>2. ASSUME NEW t \in ThreadIds, Unlock(t) PROVE SharedMutex!Give(t)
    BY <2>2 DEF Unlock, SharedMutex!Give
  <2>3. ASSUME NEW t \in ThreadIds, CvUnlock(t)
        PROVE  SharedMutex!Give(t) \/ UNCHANGED SharedMutex!lockVars
    BY <2>3 DEF CvUnlock, SharedMutex!Give
  <2>4. ASSUME NEW t \in ThreadIds,
               CallLock(t) \/ CvWait(t) \/ LockFail(t) \/ LockEnqueue(t) \/ UnlockPop(t)
        PROVE  UNCHANGED SharedMutex!lockVars
    BY <2>4 DEF CallLock, CvWait, LockFail, LockEnqueue, UnlockPop
  <2>5. CASE CvNotify \/ UNCHANGED mutexVars
    BY <2>5 DEF CvNotify, mutexVars
  <2> QED BY <2>1, <2>2, <2>3, <2>4, <2>5 DEF MutexNext, MutexCall, MutexProceed
<1> QED BY <1>1, <1>2, MutexTypeCorrect, MutualExclusion, PTL DEF MutexSpec, SharedMutex!LockSpec

-----------------------------------------------------------------------------
(* The three together *)

\* The lock word keeps its type whatever is loaded, compared and stored.
THEOREM RWTypeCorrect == RWSpec => []RWTypeOK
<1>1. RWInv => RWTypeOK
  BY DEF RWInv
<1> QED BY <1>1, RWInitInv, RWStep, PTL DEF RWSpec

\* A step of the program is a step of one primitive, or none, for each.
LEMMA PrimitivesStep ==
  [Next]_syncVars =>
    [MutexNext]_mutexVars /\ [SemNext]_semVars /\ [RWNext]_rwVars
BY DEF Next, syncVars

\* What was proved of each primitive holds of the program that MCSync runs.
LEMMA PrimitivesRefine == Spec => MutexSpec /\ SemSpec /\ RWSpec
<1>1. Init => MutexInit /\ SemInit /\ RWInit
  BY DEF Init
<1> QED BY <1>1, PrimitivesStep, PTL DEF Spec, MutexSpec, SemSpec, RWSpec

\* Words, counters and queues keep the types thread_ext.rs gives them, for any
\* threads and whichever primitive they call.
THEOREM SyncTypeCorrect == Spec => []TypeOK
<1>1. MutexTypeOK /\ SemTypeOK /\ RWTypeOK => TypeOK
  BY DEF TypeOK
<1> QED BY <1>1, PrimitivesRefine, MutexTypeCorrect, PermitsAreConserved, RWTypeCorrect, PTL
=============================================================================
