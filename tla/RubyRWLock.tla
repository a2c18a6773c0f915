------------------------------ MODULE RubyRWLock ------------------------------
(***************************************************************************)
(* RubyRWLock of jdruby-runtime/src/stdlib/thread_ext.rs: one AtomicU64    *)
(* that is 0 when unlocked, the number of readers, or u64::MAX for the     *)
(* writer, and two queues of ids that nothing ever wakes.  The unlock      *)
(* operations take no thread id and check nothing, so the callers modelled *)
(* here unlock only what they hold.                                        *)
(***************************************************************************)
EXTENDS WaiterQueue, FiniteSets

CONSTANT MaxWord       \* u64::MAX

ASSUME MaxWordAssumption == MaxWord \in Nat \ {0}
\* Fewer threads than values of the word: the count cannot reach u64::MAX.
ASSUME FewThreadsAssumption == IsFiniteSet(ThreadIds) /\ Cardinality(ThreadIds) < MaxWord

VARIABLES rwState,       \* the lock word
          readWaiters, writeWaiters,
          rwPc,
          loaded,        \* the word read_lock loaded before its compare_exchange
          readers,       \* history: threads whose read_lock returned
          writers        \* history: threads whose write_lock returned

rwVars == <<rwState, readWaiters, writeWaiters, rwPc, loaded, readers, writers>>
queues == <<readWaiters, writeWaiters>>

RWTypeOK ==
  /\ rwState \in 0..MaxWord
  /\ readWaiters \in Seq(ThreadIds)
  /\ writeWaiters \in Seq(ThreadIds)
  /\ rwPc \in [ThreadIds -> {"idle", "read", "readCas", "readWait", "readWake",
                           "write", "writeWait", "writeWake"}]
  /\ loaded \in [ThreadIds -> 0..(MaxWord - 1)]
  /\ readers \in SUBSET ThreadIds
  /\ writers \in SUBSET ThreadIds

RWGoto(t, l) == rwPc' = [rwPc EXCEPT ![t] = l]

RWInit ==
  /\ rwState = 0
  /\ readWaiters = <<>>
  /\ writeWaiters = <<>>
  /\ rwPc = [t \in ThreadIds |-> "idle"]
  /\ loaded = [t \in ThreadIds |-> 0]
  /\ readers = {}
  /\ writers = {}

\* A thread that holds nothing asks for the lock, to read or to write.
RWAsk(t) ==
  /\ rwPc[t] = "idle"
  /\ t \notin readers \cup writers
  /\ \E l \in {"read", "write"} : RWGoto(t, l)
  /\ UNCHANGED <<rwState, queues, loaded, readers, writers>>

-----------------------------------------------------------------------------
(* read_lock and read_unlock *)

ReadLoad(t) ==
  /\ rwPc[t] = "read"
  /\ \/ rwState = MaxWord /\ RWGoto(t, "readWait") /\ UNCHANGED loaded
     \/ /\ rwState # MaxWord
        /\ loaded' = [loaded EXCEPT ![t] = rwState]
        /\ RWGoto(t, "readCas")
  /\ UNCHANGED <<rwState, queues, readers, writers>>

ReadWait(t) ==
  /\ rwPc[t] = "readWait"
  /\ readWaiters' = PushBack(readWaiters, t)
  /\ RWGoto(t, "read")
  /\ UNCHANGED <<rwState, writeWaiters, loaded, readers, writers>>

\* Mutant: the incremented count is stored without comparing.
ReadStore(t) ==
  /\ rwPc[t] = "readCas"
  /\ rwState' = loaded[t] + 1
  /\ readers' = readers \cup {t}
  /\ RWGoto(t, "idle")
  /\ UNCHANGED <<queues, loaded, writers>>

\* compare_exchange(rwState, rwState + 1): the count that was loaded may be stale.
ReadCas(t) ==
  /\ rwPc[t] = "readCas"
  /\ \/ /\ rwState = loaded[t]
        /\ rwState' = loaded[t] + 1
        /\ readers' = readers \cup {t}
        /\ RWGoto(t, "idle")
     \/ /\ rwState # loaded[t]
        /\ RWGoto(t, "read")
        /\ UNCHANGED <<rwState, readers>>
  /\ UNCHANGED <<queues, loaded, writers>>

\* fetch_sub(1), modulo the width of the word; the last reader wakes a writer.
ReadUnlock(t) ==
  /\ rwPc[t] = "idle"
  /\ t \in readers
  /\ rwState' = (rwState + MaxWord) % (MaxWord + 1)
  /\ readers' = readers \ {t}
  /\ RWGoto(t, IF rwState = 1 THEN "readWake" ELSE "idle")
  /\ UNCHANGED <<queues, loaded, writers>>

ReadWake(t) ==
  /\ rwPc[t] = "readWake"
  /\ writeWaiters' = PopFront(writeWaiters)
  /\ RWGoto(t, "idle")
  /\ UNCHANGED <<rwState, readWaiters, loaded, readers, writers>>

-----------------------------------------------------------------------------
(* write_lock and write_unlock *)

WriteCas(t) ==
  /\ rwPc[t] = "write"
  /\ \/ /\ rwState = 0
        /\ rwState' = MaxWord
        /\ writers' = writers \cup {t}
        /\ RWGoto(t, "idle")
     \/ /\ rwState # 0
        /\ RWGoto(t, "writeWait")
        /\ UNCHANGED <<rwState, writers>>
  /\ UNCHANGED <<queues, loaded, readers>>

\* Mutant: a writer that has queued itself waits for a wake-up that never comes.
WriteWaitParked(t) ==
  /\ rwPc[t] = "writeWait"
  /\ writeWaiters' = PushBack(writeWaiters, t)
  /\ UNCHANGED <<rwState, readWaiters, rwPc, loaded, readers, writers>>

WriteWait(t) ==
  /\ rwPc[t] = "writeWait"
  /\ writeWaiters' = PushBack(writeWaiters, t)
  /\ RWGoto(t, "write")
  /\ UNCHANGED <<rwState, readWaiters, loaded, readers, writers>>

\* store(0): the word is given up before the queues are touched.
WriteUnlock(t) ==
  /\ rwPc[t] = "idle"
  /\ t \in writers
  /\ rwState' = 0
  /\ writers' = writers \ {t}
  /\ RWGoto(t, "writeWake")
  /\ UNCHANGED <<queues, loaded, readers>>

\* Under both queue locks: one writer is popped, all readers are drained.
WriteWake(t) ==
  /\ rwPc[t] = "writeWake"
  /\ writeWaiters' = PopFront(writeWaiters)
  /\ readWaiters' = <<>>
  /\ RWGoto(t, "idle")
  /\ UNCHANGED <<rwState, loaded, readers, writers>>

-----------------------------------------------------------------------------
RWAcquire(t) ==
  \/ ReadLoad(t) \/ ReadWait(t) \/ ReadCas(t)
  \/ WriteCas(t) \/ WriteWait(t)

RWRelease(t) == ReadUnlock(t) \/ ReadWake(t) \/ WriteUnlock(t) \/ WriteWake(t)

RWNext == \E t \in ThreadIds : RWAsk(t) \/ RWAcquire(t) \/ RWRelease(t)

\* ThreadIds run; callers release what they hold but need not ask again.
RWFairness == \A t \in ThreadIds : WF_rwVars(RWAcquire(t)) /\ WF_rwVars(RWRelease(t))

RWSpec == RWInit /\ [][RWNext]_rwVars
RWFairSpec == RWSpec /\ RWFairness

-----------------------------------------------------------------------------
(* Properties *)

\* The word tells the truth: u64::MAX exactly when one thread writes and
\* nobody reads, otherwise the number of readers.  It relates the loads,
\* compare-exchanges and blind stores of all threads to what the callers
\* were told, and implies that a writer is alone.
WordAgreement ==
  \/ /\ writers = {}
     /\ rwState = Cardinality(readers)
  \/ /\ \E t \in ThreadIds : writers = {t}
     /\ readers = {}
     /\ rwState = MaxWord

\* ThreadIds that ask do not wait on a free lock forever: some thread holds the
\* lock, or gets it (starvation of one writer by readers is possible).
SomeoneGetsIt ==
  (\E t \in ThreadIds : rwPc[t] \in {"read", "readCas", "readWait", "write", "writeWait"})
    ~> (readers \cup writers # {})
=============================================================================
