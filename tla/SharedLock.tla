------------------------------ MODULE SharedLock ------------------------------
(***************************************************************************)
(* What a lock promises those who hold it: many may share it, or one has   *)
(* it alone, and each comes and goes in one instant.  RubyRWLock           *)
(* implements it, and RubyMutex does without ever sharing.                 *)
(***************************************************************************)
CONSTANT ThreadIds

VARIABLES readers, writers

lockVars == <<readers, writers>>

LockInit == readers = {} /\ writers = {}

Share(t) ==
  /\ writers = {}
  /\ t \notin readers
  /\ readers' = readers \cup {t}
  /\ UNCHANGED writers

Unshare(t) ==
  /\ t \in readers
  /\ readers' = readers \ {t}
  /\ UNCHANGED writers

Take(t) ==
  /\ readers = {}
  /\ writers = {}
  /\ writers' = {t}
  /\ UNCHANGED readers

Give(t) ==
  /\ writers = {t}
  /\ writers' = {}
  /\ UNCHANGED readers

LockNext == \E t \in ThreadIds : Share(t) \/ Unshare(t) \/ Take(t) \/ Give(t)

LockSpec == LockInit /\ [][LockNext]_lockVars
=============================================================================
