----------------------------- MODULE GreenThreads -----------------------------
(***************************************************************************)
(* What a scheduler promises the green threads: each is spawned once, runs *)
(* only after it was made runnable and scheduled, and whenever it is put   *)
(* to sleep has an alarm that stays until it wakes.  An id may be          *)
(* scheduled that has nothing to run, and a thread may be suspended by     *)
(* others.  Scheduler implements it.                                       *)
(***************************************************************************)
CONSTANT Tids

VARIABLES state,       \* the state of each thread
          scheduled,   \* those that will come before the loop
          alarmed      \* those that a deadline will wake

threadVars == <<state, scheduled, alarmed>>

Becomes(t, s) == state' = [state EXCEPT ![t] = s]

Spawn(t) ==
  /\ state[t] = "absent"
  /\ Becomes(t, "runnable")
  /\ scheduled' = scheduled \cup {t}
  /\ UNCHANGED alarmed

Wake(t) ==
  /\ state[t] \in {"blocked", "sleeping"}
  /\ Becomes(t, "runnable")
  /\ scheduled' = scheduled \cup {t}
  /\ alarmed' \in {alarmed, alarmed \ {t}}

\* A wake-up that finds nothing to wake schedules the thread all the same.
WakeInVain(t) ==
  /\ state[t] \notin {"blocked", "sleeping"}
  /\ scheduled' = scheduled \cup {t}
  /\ alarmed' \in {alarmed, alarmed \ {t}}
  /\ UNCHANGED state

Run(t) ==
  /\ t \in scheduled
  /\ state[t] = "runnable"
  /\ Becomes(t, "running")
  /\ scheduled' \in {scheduled, scheduled \ {t}}
  /\ UNCHANGED alarmed

RunNothing(t) ==
  /\ state[t] # "runnable"
  /\ scheduled' = scheduled \ {t}
  /\ UNCHANGED <<state, alarmed>>

Block(t) ==
  /\ state[t] # "absent"
  /\ Becomes(t, "blocked")
  /\ UNCHANGED <<scheduled, alarmed>>

Sleep(t) ==
  /\ Becomes(t, "sleeping")
  /\ state[t] # "absent"
  /\ alarmed' = alarmed \cup {t}
  /\ UNCHANGED scheduled

\* sleep of a thread that was never spawned sets an alarm for nobody.
SleepInVain(t) ==
  /\ state[t] = "absent"
  /\ alarmed' = alarmed \cup {t}
  /\ UNCHANGED <<state, scheduled>>

ThreadsInit ==
  /\ state \in [Tids -> {"absent", "runnable"}]
  /\ scheduled = {t \in Tids : state[t] = "runnable"}
  /\ alarmed = {}

ThreadsNext ==
  \E t \in Tids :
    Spawn(t) \/ Wake(t) \/ WakeInVain(t) \/ Run(t) \/ RunNothing(t) \/ Block(t) \/ Sleep(t) \/ SleepInVain(t)

ThreadsSpec == ThreadsInit /\ [][ThreadsNext]_threadVars
=============================================================================
