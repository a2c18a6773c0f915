------------------------------ MODULE MCScheduler ------------------------------
(***************************************************************************)
(* Scheduler with two clients, two green threads and one descriptor.  The   *)
(* first client starts and wakes threads while the second puts the current  *)
(* one to sleep, parks it, or has it wait for the descriptor or to join.    *)
(***************************************************************************)
EXTENDS Scheduler

CONSTANTS c1, c2, fd
MCClients == {c1, c2}
MCFds == {fd}
MCCalls == [c \in MCClients |-> IF c = c1 THEN {"spawn", "unpark"}
                                          ELSE {"sleep", "park", "io", "join"}]
\* A smaller instance: both clients spawn threads and put them to sleep.
MCLockCalls == [c \in MCClients |-> {"spawn", "sleep"}]
=============================================================================
