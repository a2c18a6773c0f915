------------------------------- MODULE Scheduler -------------------------------
(***************************************************************************)
(* The green thread Scheduler of jdruby-runtime/src/thread.rs: one event   *)
(* loop (run) and clients that spawn, park, unpark, join, sleep and block  *)
(* on I/O.                                                                 *)
(*                                                                         *)
(* Locks that are held while another lock is asked for are modelled: the   *)
(* threads table and the poller's interests (std RwLocks, which on Linux   *)
(* let no reader in while a writer waits) and the sleep queue's mutex.     *)
(* The global queue, `current` and the mutex of one green thread are held  *)
(* for one access each.  The loop only marks threads Running: no code      *)
(* executes their closures, so no green thread ever completes.             *)
(***************************************************************************)
EXTENDS Naturals, Sequences, FiniteSets

CONSTANTS Clients,       \* operating system threads that call the scheduler
          Tids,          \* ids of green threads, THREAD_ID_COUNTER starts at 1
          Spawned,       \* the ones spawned before the loop started
          Fds,           \* file descriptors handed to block_on_io
          Calls,         \* the operations each client uses in this instance
          None,          \* the absent value of an Option
          DispatchMax,   \* threads dispatched per round of the loop (10)
          MaxQueue       \* queued ids and sleepers beyond which no wake-up is asked for

NoThread == 0            \* block_on_io's unwrap_or(0)
Loop == "loop"           \* the thread that runs the event loop
Free == "free"           \* nobody, as the holder of a mutex

ASSUME ClientsAssumption == Loop \notin Clients
ASSUME TidsAssumption == Tids \subseteq Nat \ {NoThread} /\ Spawned \subseteq Tids /\ IsFiniteSet(Spawned)
ASSUME NoneAssumption == None \notin Tids \cup Fds \cup {NoThread}
ASSUME CallsAssumption ==
         Calls \in [Clients -> SUBSET {"spawn", "park", "unpark", "join", "sleep", "io"}]
ASSUME BoundsAssumption == DispatchMax \in Nat \ {0} /\ MaxQueue \in Nat \ {0}

VARIABLES state,         \* state of each green thread in the table
          globalQueue,
          sleepQueue,    \* entries <<thread, client that put it to sleep>>
          due,           \* the entries whose deadline has passed
          interests,     \* IoPoller.interests, None where there is none
          ready,         \* descriptors epoll will report
          current,       \* Scheduler.current
          tReaders, tWaiting,   \* the table's RwLock: readers, waiting writers
          sleepLock,     \* holder of the sleep queue's mutex
          iReaders,      \* readers of the interests' RwLock
          lpc, ltid, ln,        \* the loop: step, thread, dispatched so far
          cpc, ctid, cfd        \* each client: step, thread, descriptor

vars == <<state, globalQueue, sleepQueue, due, interests, ready, current, tReaders,
          tWaiting, sleepLock, iReaders, lpc, ltid, ln, cpc, ctid, cfd>>
queues == <<globalQueue, sleepQueue, due>>
io == <<interests, ready, iReaders>>
locks == <<tReaders, tWaiting, sleepLock>>
loopVars == <<lpc, ltid, ln>>
clientVars == <<cpc, ctid, cfd>>

Actors == Clients \cup {Loop}
Ids == Tids \cup {NoThread}

TypeOK ==
  /\ state \in [Tids -> {"absent", "runnable", "running", "blocked", "sleeping"}]
  /\ globalQueue \in Seq(Ids)
  /\ sleepQueue \in SUBSET (Ids \X Clients)
  /\ due \in SUBSET sleepQueue
  /\ interests \in [Fds -> Ids \cup {None}]
  /\ ready \in SUBSET Fds
  /\ current \in Ids \cup {None}
  /\ tReaders \in SUBSET Actors
  /\ tWaiting \in SUBSET Clients
  /\ sleepLock \in Actors \cup {Free}
  /\ iReaders \in SUBSET {Loop}
  /\ lpc \in {"top", "expire", "expireWake", "expirePush", "poll", "eventWake", "eventPush",
              "unregister", "dispatch", "run", "clear"}
  /\ ltid \in Ids
  /\ ln \in 0..DispatchMax
  /\ cpc \in [Clients -> {"idle", "insert", "spawnPush", "park", "wake", "push", "join",
                          "joinPark", "sleep", "sleepPush", "register", "ioPark"}]
  /\ ctid \in [Clients -> Ids]
  /\ cfd \in [Clients -> Fds \cup {None}]

Init ==
  /\ state = [t \in Tids |-> IF t \in Spawned THEN "runnable" ELSE "absent"]
  /\ globalQueue \in [1..Cardinality(Spawned) -> Spawned]
  /\ \A i, j \in 1..Cardinality(Spawned) : i < j => globalQueue[i] < globalQueue[j]
  /\ sleepQueue = {}
  /\ due = {}
  /\ interests = [f \in Fds |-> None]
  /\ ready = {}
  /\ current = None
  /\ tReaders = {}
  /\ tWaiting = {}
  /\ sleepLock = Free
  /\ iReaders = {}
  /\ lpc = "top"
  /\ ltid = NoThread
  /\ ln = 0
  /\ cpc = [c \in Clients |-> "idle"]
  /\ ctid = [c \in Clients |-> NoThread]
  /\ cfd = [c \in Clients |-> None]

\* threads.read() is granted: no writer holds the lock (an insert is one
\* step) and none is waiting.
CanRead == tWaiting = {}

Known(t) == t \in Tids /\ state[t] # "absent"

\* GreenThread::wake
Woken(t) == IF Known(t) /\ state[t] \in {"blocked", "sleeping"}
            THEN [state EXCEPT ![t] = "runnable"] ELSE state

Blocked(t) == IF Known(t) THEN [state EXCEPT ![t] = "blocked"] ELSE state

-----------------------------------------------------------------------------
(* The event loop *)

LGoto(l) == lpc' = l

\* sleep_queue.lock()
LockSleep ==
  /\ lpc = "top"
  /\ sleepLock = Free
  /\ sleepLock' = Loop
  /\ LGoto("expire")
  /\ UNCHANGED <<state, queues, io, current, tReaders, tWaiting, ltid, ln, clientVars>>

\* An entry whose deadline has passed is popped and its thread unparked, with
\* the sleep queue still locked.
Expire ==
  /\ lpc = "expire"
  /\ \E e \in due :
       /\ sleepQueue' = sleepQueue \ {e}
       /\ due' = due \ {e}
       /\ ltid' = e[1]
  /\ LGoto("expireWake")
  /\ UNCHANGED <<state, globalQueue, io, current, locks, ln, clientVars>>

ExpireDone ==
  /\ lpc = "expire"
  /\ due = {}
  /\ sleepLock' = Free
  /\ LGoto("poll")
  /\ UNCHANGED <<state, queues, io, current, tReaders, tWaiting, ltid, ln, clientVars>>

\* unpark(ltid) takes threads.read() and wakes the thread.
LoopWake ==
  /\ lpc \in {"expireWake", "eventWake"}
  /\ CanRead
  /\ state' = Woken(ltid)
  /\ tReaders' = tReaders \cup {Loop}
  /\ LGoto(IF lpc = "expireWake" THEN "expirePush" ELSE "eventPush")
  /\ UNCHANGED <<queues, io, current, tWaiting, sleepLock, ltid, ln, clientVars>>

LoopPush ==
  /\ lpc \in {"expirePush", "eventPush"}
  /\ globalQueue' = Append(globalQueue, ltid)
  /\ tReaders' = tReaders \ {Loop}
  /\ ltid' = NoThread
  /\ LGoto(IF lpc = "expirePush" THEN "expire" ELSE "unregister")
  /\ UNCHANGED <<state, sleepQueue, due, io, current, tWaiting, sleepLock, ln, clientVars>>

\* The poller reports a descriptor that somebody waits for; the guard of
\* interests.read() lives to the end of the `if let` block.  A descriptor is
\* polled from its registration on, so its interest is there.
Event ==
  /\ lpc = "poll"
  /\ \E f \in ready :
       /\ interests[f] # None
       /\ ready' = ready \ {f}
       /\ ltid' = interests[f]
  /\ iReaders' = {Loop}
  /\ LGoto("eventWake")
  /\ UNCHANGED <<state, queues, interests, current, locks, ln, clientVars>>

\* What follows the unpark is unregister, whose interests.write() waits for
\* iReaders to be empty: no action leaves "unregister" (SelfDeadlock).

PollDone ==
  /\ lpc = "poll"
  /\ ready = {}
  /\ LGoto("dispatch")
  /\ UNCHANGED <<state, queues, io, current, locks, ltid, ln, clientVars>>

\* Mutant: the round's counter is tested one too late.
DispatchOneMore ==
  /\ lpc = "dispatch"
  /\ ln <= DispatchMax
  /\ globalQueue # <<>>
  /\ ltid' = Head(globalQueue)
  /\ current' = Head(globalQueue)
  /\ globalQueue' = Tail(globalQueue)
  /\ ln' = ln + 1
  /\ LGoto("run")
  /\ UNCHANGED <<state, sleepQueue, due, io, locks, clientVars>>

\* Mutant: `while let Some(tid)` in place of the loop of ten.
DispatchWhileAny ==
  /\ lpc = "dispatch"
  /\ globalQueue # <<>>
  /\ ltid' = Head(globalQueue)
  /\ current' = Head(globalQueue)
  /\ globalQueue' = Tail(globalQueue)
  /\ LGoto("run")
  /\ UNCHANGED <<state, sleepQueue, due, io, locks, ln, clientVars>>

\* global_queue.pop() and current = Some(tid)
Dispatch ==
  /\ lpc = "dispatch"
  /\ ln < DispatchMax
  /\ globalQueue # <<>>
  /\ ltid' = Head(globalQueue)
  /\ current' = Head(globalQueue)
  /\ globalQueue' = Tail(globalQueue)
  /\ ln' = ln + 1
  /\ LGoto("run")
  /\ UNCHANGED <<state, sleepQueue, due, io, locks, clientVars>>

\* Mutant: the thread is queued for its next slice and not marked.
MarkRunningLater ==
  /\ lpc = "run"
  /\ CanRead
  /\ tReaders' = tReaders \cup {Loop}
  /\ globalQueue' = Append(globalQueue, ltid)
  /\ LGoto("clear")
  /\ UNCHANGED <<state, sleepQueue, due, io, current, tWaiting, sleepLock, ltid, ln,
                 clientVars>>

MarkRunning ==
  /\ lpc = "run"
  /\ CanRead
  /\ tReaders' = tReaders \cup {Loop}
  /\ state' = IF Known(ltid) /\ state[ltid] = "runnable"
              THEN [state EXCEPT ![ltid] = "running"] ELSE state
  /\ LGoto("clear")
  /\ UNCHANGED <<queues, io, current, tWaiting, sleepLock, ltid, ln, clientVars>>

ClearCurrent ==
  /\ lpc = "clear"
  /\ current' = None
  /\ tReaders' = tReaders \ {Loop}
  /\ ltid' = NoThread
  /\ LGoto("dispatch")
  /\ UNCHANGED <<state, queues, io, tWaiting, sleepLock, ln, clientVars>>

\* runnable_count() reads the table; the loop starts over.
Round ==
  /\ lpc = "dispatch"
  /\ ln = DispatchMax \/ globalQueue = <<>>
  /\ CanRead
  /\ ln' = 0
  /\ LGoto("top")
  /\ UNCHANGED <<state, queues, io, current, locks, ltid, clientVars>>

-----------------------------------------------------------------------------
(* The clients *)

CGoto(c, l) == cpc' = [cpc EXCEPT ![c] = l]
CFor(c, t) == ctid' = [ctid EXCEPT ![c] = t]
Done(c) == CGoto(c, "idle") /\ CFor(c, NoThread)
\* Bound on the wake-ups that are queued or under way.  Nothing in the code
\* keeps ids from piling up in the global queue.
RoomToWake == Len(globalQueue) + Cardinality(sleepQueue) < MaxQueue

Begin(c, op) == cpc[c] = "idle" /\ op \in Calls[c]

\* spawn: threads.write() waits for the readers to leave.
Spawn(c) ==
  /\ Begin(c, "spawn")
  /\ \E t \in Tids :
       /\ state[t] = "absent"
       /\ \A d \in Clients : cpc[d] = "insert" => ctid[d] # t
       /\ CFor(c, t)
  /\ tWaiting' = tWaiting \cup {c}
  /\ CGoto(c, "insert")
  /\ UNCHANGED <<state, queues, io, current, tReaders, sleepLock, loopVars, cfd>>

Insert(c) ==
  /\ cpc[c] = "insert"
  /\ tReaders = {}
  /\ state' = [state EXCEPT ![ctid[c]] = "runnable"]
  /\ tWaiting' = tWaiting \ {c}
  /\ CGoto(c, "spawnPush")
  /\ UNCHANGED <<queues, io, current, tReaders, sleepLock, loopVars, ctid, cfd>>

SpawnPush(c) ==
  /\ cpc[c] = "spawnPush"
  /\ globalQueue' = Append(globalQueue, ctid[c])
  /\ Done(c)
  /\ UNCHANGED <<state, sleepQueue, due, io, current, locks, loopVars, cfd>>

\* park reads `current`, and then blocks the thread it named, whichever
\* thread the caller meant.
Park(c) ==
  /\ Begin(c, "park")
  /\ current # None
  /\ CFor(c, current)
  /\ CGoto(c, "park")
  /\ UNCHANGED <<state, queues, io, current, locks, loopVars, cfd>>

Block(c) ==
  /\ cpc[c] \in {"park", "joinPark"}
  /\ CanRead
  /\ state' = Blocked(ctid[c])
  /\ CFor(c, NoThread)
  /\ CGoto(c, IF cpc[c] = "park" THEN "idle" ELSE "join")
  /\ UNCHANGED <<queues, io, current, locks, loopVars, cfd>>

\* unpark(t), of any thread
Unpark(c) ==
  /\ Begin(c, "unpark")
  /\ RoomToWake
  /\ \E t \in Tids : CFor(c, t)
  /\ CGoto(c, "wake")
  /\ UNCHANGED <<state, queues, io, current, locks, loopVars, cfd>>

Wake(c) ==
  /\ cpc[c] = "wake"
  /\ CanRead
  /\ state' = Woken(ctid[c])
  /\ tReaders' = tReaders \cup {c}
  /\ CGoto(c, "push")
  /\ UNCHANGED <<queues, io, current, tWaiting, sleepLock, loopVars, ctid, cfd>>

\* The id is queued whatever state the thread was in, known or not.
Push(c) ==
  /\ cpc[c] = "push"
  /\ globalQueue' = Append(globalQueue, ctid[c])
  /\ tReaders' = tReaders \ {c}
  /\ Done(c)
  /\ UNCHANGED <<state, sleepQueue, due, io, current, tWaiting, sleepLock, loopVars, cfd>>

\* join: an unknown target makes it return None at once; a known one is never
\* Dead, so the caller goes round: look, park the current thread, pause.
Join(c) ==
  /\ Begin(c, "join")
  /\ CanRead
  /\ \E t \in Tids : Known(t)
  /\ CGoto(c, "join")
  /\ UNCHANGED <<state, queues, io, current, locks, loopVars, ctid, cfd>>

JoinRound(c) ==
  /\ cpc[c] = "join"
  /\ CanRead
  /\ current # None
  /\ CFor(c, current)
  /\ CGoto(c, "joinPark")
  /\ UNCHANGED <<state, queues, io, current, locks, loopVars, cfd>>

\* sleep: the thread is marked under threads.read(), which is still held
\* when the sleep queue is locked.
Sleep(c) ==
  /\ Begin(c, "sleep")
  /\ current # None
  /\ RoomToWake
  /\ <<current, c>> \notin sleepQueue
  /\ CFor(c, current)
  /\ CGoto(c, "sleep")
  /\ UNCHANGED <<state, queues, io, current, locks, loopVars, cfd>>

MarkSleeping(c) ==
  /\ cpc[c] = "sleep"
  /\ CanRead
  /\ state' = IF Known(ctid[c]) THEN [state EXCEPT ![ctid[c]] = "sleeping"] ELSE state
  /\ tReaders' = tReaders \cup {c}
  /\ CGoto(c, "sleepPush")
  /\ UNCHANGED <<queues, io, current, tWaiting, sleepLock, loopVars, ctid, cfd>>

\* Mutant: the entry is made for the thread that is current by now.
SleepPushCurrent(c) ==
  /\ cpc[c] = "sleepPush"
  /\ sleepLock = Free
  /\ sleepQueue' = IF current # None THEN sleepQueue \cup {<<current, c>>} ELSE sleepQueue
  /\ tReaders' = tReaders \ {c}
  /\ Done(c)
  /\ UNCHANGED <<state, globalQueue, due, io, current, tWaiting, sleepLock, loopVars, cfd>>

SleepPush(c) ==
  /\ cpc[c] = "sleepPush"
  /\ sleepLock = Free
  /\ sleepQueue' = sleepQueue \cup {<<ctid[c], c>>}
  /\ tReaders' = tReaders \ {c}
  /\ Done(c)
  /\ UNCHANGED <<state, globalQueue, due, io, current, tWaiting, sleepLock, loopVars, cfd>>

\* block_on_io: interests.write(), with 0 when no thread is current
BlockOnIo(c) ==
  /\ Begin(c, "io")
  /\ RoomToWake
  /\ CFor(c, IF current = None THEN NoThread ELSE current)
  /\ \E f \in Fds : cfd' = [cfd EXCEPT ![c] = f]
  /\ CGoto(c, "register")
  /\ UNCHANGED <<state, queues, io, current, locks, loopVars>>

RegisterIo(c) ==
  /\ cpc[c] = "register"
  /\ iReaders = {}
  /\ interests' = [interests EXCEPT ![cfd[c]] = ctid[c]]
  /\ cfd' = [cfd EXCEPT ![c] = None]
  /\ CGoto(c, "ioPark")
  /\ UNCHANGED <<state, queues, ready, iReaders, current, locks, loopVars, ctid>>

IoPark(c) ==
  /\ cpc[c] = "ioPark"
  /\ \/ current # None /\ CFor(c, current) /\ CGoto(c, "park")
     \/ current = None /\ Done(c)
  /\ UNCHANGED <<state, queues, io, current, locks, loopVars, cfd>>

-----------------------------------------------------------------------------
(* The environment: deadlines pass, descriptors become ready. *)

Deadline ==
  /\ \E e \in sleepQueue \ due : due' = due \cup {e}
  /\ UNCHANGED <<state, globalQueue, sleepQueue, io, current, locks, loopVars, clientVars>>

Readable ==
  /\ \E f \in Fds \ ready : interests[f] # None /\ ready' = ready \cup {f}
  /\ UNCHANGED <<state, queues, interests, iReaders, current, locks, loopVars, clientVars>>

-----------------------------------------------------------------------------
RunLoop ==
  \/ LockSleep \/ Expire \/ ExpireDone \/ LoopWake \/ LoopPush
  \/ Event \/ PollDone
  \/ Dispatch \/ MarkRunning \/ ClearCurrent \/ Round

Call(c) == Spawn(c) \/ Park(c) \/ Unpark(c) \/ Join(c) \/ Sleep(c) \/ BlockOnIo(c)

Proceed(c) ==
  \/ Insert(c) \/ SpawnPush(c) \/ Block(c) \/ Wake(c) \/ Push(c) \/ JoinRound(c)
  \/ MarkSleeping(c) \/ SleepPush(c) \/ RegisterIo(c) \/ IoPark(c)

Next == RunLoop \/ (\E c \in Clients : Call(c) \/ Proceed(c)) \/ Deadline \/ Readable

\* The loop's thread and the clients inside a call are scheduled, deadlines
\* pass.  Nobody has to make calls, and no lock has to be fair.
Fairness ==
  /\ WF_vars(RunLoop)
  /\ \A c \in Clients : WF_vars(Proceed(c))
  /\ WF_vars(Deadline)

Spec == Init /\ [][Next]_vars
FairSpec == Spec /\ Fairness

-----------------------------------------------------------------------------
(* Properties *)

Queued(t) == \E i \in 1..Len(globalQueue) : globalQueue[i] = t

\* t is on its way to the loop: queued, in the loop's hands, or about to be
\* queued by whoever woke or spawned it.
Scheduled(t) ==
  \/ Queued(t)
  \/ ltid = t /\ lpc \in {"expirePush", "eventPush", "run"}
  \/ \E c \in Clients : ctid[c] = t /\ cpc[c] \in {"spawnPush", "push"}

\* t will be woken: it has an entry in the sleep queue, or one is about to be
\* pushed, or its unpark is under way.
Alarmed(t) ==
  \/ \E c \in Clients : <<t, c>> \in sleepQueue
  \/ \E c \in Clients : ctid[c] = t /\ cpc[c] = "sleepPush"
  \/ ltid = t /\ lpc = "expireWake"

RunnableIsQueued == \A t \in Tids : state[t] = "runnable" => Scheduled(t)
SleeperHasEntry == \A t \in Tids : state[t] = "sleeping" => Alarmed(t)

\* Both: no thread that waits for the loop, or for its deadline, is out of the
\* loop's sight (spawn, unpark, sleep and the loop's own wake-ups).
QueuesAgree == RunnableIsQueued /\ SleeperHasEntry

\* Two ways the loop can stop.  It asks for the interests' write lock while it
\* still holds their read lock:
SelfDeadlock == lpc = "unregister"

\* or it holds the sleep queue and asks for the table, which a sleeper holds
\* that waits for the sleep queue, with a spawn's writer waiting between them.
LockCycle ==
  /\ lpc = "expireWake"
  /\ tWaiting # {}
  /\ \E c \in Clients : cpc[c] = "sleepPush" /\ c \in tReaders

LoopStuck == SelfDeadlock \/ LockCycle

\* The guards at which the loop, or a client, waits for a lock.
LoopWaits ==
  \/ lpc = "top" /\ sleepLock # Free
  \/ lpc \in {"expireWake", "eventWake", "run"} /\ ~CanRead
  \/ lpc = "dispatch" /\ (ln = DispatchMax \/ globalQueue = <<>>) /\ ~CanRead
  \/ lpc = "unregister" /\ iReaders # {}

ClientWaits(c) ==
  \/ cpc[c] = "insert" /\ tReaders # {}
  \/ cpc[c] \in {"park", "joinPark", "wake", "join", "sleep"} /\ ~CanRead
  \/ cpc[c] = "sleepPush" /\ sleepLock # Free
  \/ cpc[c] = "register" /\ iReaders # {}

\* There are no other deadlocks than those two: in any other state the loop
\* waits only while some client that holds or is next to hold the table's lock
\* can go on, so everyone is never waiting on everyone.
LoopIsLetOn ==
  LoopWaits /\ ~LoopStuck =>
    \E c \in Clients : cpc[c] \in {"insert", "push", "sleepPush"} /\ ~ClientWaits(c)

\* The loop comes round again and again: whatever the clients call, a lock it
\* waits for is given to it, save in the two situations above.
LoopComesRound == []<>(lpc = "top" \/ LoopStuck)

\* Every runnable thread is taken up by the loop, unless the loop is stuck.
RunnableRuns ==
  \A t \in Tids : (state[t] = "runnable") ~> (state[t] # "runnable" \/ LoopStuck)

\* thread.rs: "Run the scheduler event loop." - the loop comes round again
\* and again, and waits for ever on no lock.
LoopKeepsRunning == []<>(lpc = "top")
=============================================================================
