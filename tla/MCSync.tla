-------------------------------- MODULE MCSync --------------------------------
(***************************************************************************)
(* The three spinning primitives of thread_ext.rs with three threads.  They *)
(* share no state, so a behaviour exercises the one `primitive` names, and  *)
(* the run covers the behaviours of each.                                   *)
(***************************************************************************)
EXTENDS RubyMutex, RubySemaphore, RubyRWLock

VARIABLE primitive   \* the object whose methods the threads call

MCThreadIds == 1..3

syncVars == <<primitive, mutexVars, semVars, rwVars>>

Init ==
  /\ primitive \in {"mutex", "semaphore", "rwlock"}
  /\ MutexInit
  /\ SemInit
  /\ RWInit

Next ==
  /\ \/ /\ primitive = "mutex"
        /\ MutexNext
        /\ UNCHANGED <<semVars, rwVars>>
     \/ /\ primitive = "semaphore"
        /\ SemNext
        /\ UNCHANGED <<mutexVars, rwVars>>
     \/ /\ primitive = "rwlock"
        /\ RWNext
        /\ UNCHANGED <<mutexVars, semVars>>
  /\ UNCHANGED primitive

\* In the primitives that are not exercised no call has begun, so what is
\* asked of them here they satisfy by having no step to take.
Fairness == MutexFairness /\ SemFairness /\ RWFairness

Spec == Init /\ [][Next]_syncVars /\ Fairness

\* The type invariants of the three modules: the words, counters and queues
\* of thread_ext.rs hold what their Rust types say.
TypeOK == MutexTypeOK /\ SemTypeOK /\ RWTypeOK
=============================================================================
