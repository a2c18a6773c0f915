------------------------------ MODULE Forwarding ------------------------------
(***************************************************************************)
(* The forwarding word of one object of jdgc (header.rs): evacuators race  *)
(* in try_install_forwarding, barriers shade the color by compare_exchange,*)
(* FFI code pins and unpins by load and store, readers resolve the address *)
(* with the Brooks barrier of barrier.rs.  The copying itself              *)
(* (evacuator.rs) is an empty file; an evacuator here is a caller that has *)
(* made its copy and offers its address.                                   *)
(***************************************************************************)
EXTENDS Naturals

CONSTANTS Evacuators,      \* each offers its own copy as new_ptr
          Pinners,
          Readers,
          Self             \* the object's own address

ASSUME SelfAssumption == Self \notin Evacuators

VARIABLES word,        \* the header: forwarding address, pinned bit, color
          evac,        \* each evacuator's step
          cur,         \* the word each evacuator compares against
          answer,      \* what try_install_forwarding returned, or "none"
          pin, pinOld, \* each pinner's step and the word it loaded
          seen,        \* the address each reader was last given
          pinBeside    \* does FFI code pin beside an evacuation?  Chosen once:
                       \* nothing in jdgc orders the two

fwdVars == <<word, evac, cur, answer, pin, pinOld, seen, pinBeside>>

Word == [fwd : Evacuators \cup {Self}, pinned : BOOLEAN, color : {"white", "gray"}]
FreshWord == [fwd |-> Self, pinned |-> FALSE, color |-> "white"]

FwdTypeOK ==
  /\ word \in Word
  /\ evac \in [Evacuators -> {"idle", "loop", "done"}]
  /\ cur \in [Evacuators -> Word]
  /\ answer \in [Evacuators -> Evacuators \cup {Self, "none"}]
  /\ pin \in [Pinners -> {"idle", "pin", "unpin"}]
  /\ pinOld \in [Pinners -> Word]
  /\ seen \in [Readers -> Evacuators \cup {Self}]
  /\ pinBeside \in BOOLEAN

FwdInit ==
  /\ word = FreshWord
  /\ evac = [e \in Evacuators |-> "idle"]
  /\ cur = [e \in Evacuators |-> FreshWord]
  /\ answer = [e \in Evacuators |-> "none"]
  /\ pin = [p \in Pinners |-> "idle"]
  /\ pinOld = [p \in Pinners |-> FreshWord]
  /\ seen = [r \in Readers |-> Self]
  /\ pinBeside \in BOOLEAN

-----------------------------------------------------------------------------
(* try_install_forwarding(Self, e) *)

Load(e) ==
  /\ evac[e] = "idle"
  /\ pinBeside \/ \A p \in Pinners : pin[p] = "idle"
  /\ cur' = [cur EXCEPT ![e] = word]
  /\ evac' = [evac EXCEPT ![e] = "loop"]
  /\ UNCHANGED <<word, answer, pin, pinOld, seen, pinBeside>>

\* The word the evacuator has names another address: Err(winner).
Lose(e) ==
  /\ evac[e] = "loop"
  /\ cur[e].fwd # Self
  /\ answer' = [answer EXCEPT ![e] = cur[e].fwd]
  /\ evac' = [evac EXCEPT ![e] = "done"]
  /\ UNCHANGED <<word, cur, pin, pinOld, seen, pinBeside>>

\* Mutant: the exchange is only conditional on the forwarding address it
\* loaded, and always succeeds.
InstallByStore(e) ==
  /\ evac[e] = "loop"
  /\ cur[e].fwd = Self
  /\ word' = [fwd |-> e, pinned |-> FALSE, color |-> cur[e].color]
  /\ answer' = [answer EXCEPT ![e] = e]
  /\ evac' = [evac EXCEPT ![e] = "done"]
  /\ UNCHANGED <<cur, pin, pinOld, seen, pinBeside>>

\* compare_exchange succeeds: Ok(new_ptr).  desired keeps the color bits of
\* the old word and drops its pinned bit, which is never looked at.
Install(e) ==
  /\ evac[e] = "loop"
  /\ cur[e].fwd = Self
  /\ word = cur[e]
  /\ word' = [fwd |-> e, pinned |-> FALSE, color |-> cur[e].color]
  /\ answer' = [answer EXCEPT ![e] = e]
  /\ evac' = [evac EXCEPT ![e] = "done"]
  /\ UNCHANGED <<cur, pin, pinOld, seen, pinBeside>>

\* Mutant: the failed exchange does not hand back the word it found.
RetryStale(e) ==
  /\ evac[e] = "loop"
  /\ cur[e].fwd = Self
  /\ word # cur[e]
  /\ UNCHANGED fwdVars

\* It fails: the loop goes on with the word it found.
Retry(e) ==
  /\ evac[e] = "loop"
  /\ cur[e].fwd = Self
  /\ word # cur[e]
  /\ cur' = [cur EXCEPT ![e] = word]
  /\ UNCHANGED <<word, evac, answer, pin, pinOld, seen, pinBeside>>

-----------------------------------------------------------------------------
\* try_shade_gray that succeeds changes the color by compare_exchange, and
\* keeps the other bits.
Shade ==
  /\ word.color = "white"
  /\ word' = [word EXCEPT !.color = "gray"]
  /\ UNCHANGED <<evac, cur, answer, pin, pinOld, seen, pinBeside>>

Pin(p) ==
  /\ pin[p] = "idle"
  /\ pinBeside \/ \A e \in Evacuators : evac[e] # "loop"
  /\ pinOld' = [pinOld EXCEPT ![p] = word]
  /\ \E l \in {"pin", "unpin"} : pin' = [pin EXCEPT ![p] = l]
  /\ UNCHANGED <<word, evac, cur, answer, seen, pinBeside>>

\* The store of pin() and unpin() writes the whole loaded word back.
FwdPinStore(p) ==
  /\ pin[p] # "idle"
  /\ word' = [pinOld[p] EXCEPT !.pinned = (pin[p] = "pin")]
  /\ pin' = [pin EXCEPT ![p] = "idle"]
  /\ UNCHANGED <<evac, cur, answer, pinOld, seen, pinBeside>>

\* Mutant: a pinned object is taken to be where it was.
ReadTrustsPin(r) ==
  /\ seen' = [seen EXCEPT ![r] = IF word.pinned THEN Self ELSE word.fwd]
  /\ UNCHANGED <<word, evac, cur, answer, pin, pinOld, pinBeside>>

\* ReadBarrier::apply
Read(r) ==
  /\ seen' = [seen EXCEPT ![r] = word.fwd]
  /\ UNCHANGED <<word, evac, cur, answer, pin, pinOld, pinBeside>>

-----------------------------------------------------------------------------
Evacuate(e) == Lose(e) \/ Install(e) \/ Retry(e)

FwdNext ==
  \/ \E e \in Evacuators : Load(e) \/ Evacuate(e)
  \/ Shade
  \/ \E p \in Pinners : Pin(p) \/ FwdPinStore(p)
  \/ \E r \in Readers : Read(r)

FwdFairness == \A e \in Evacuators : WF_fwdVars(Evacuate(e))

FwdSpec == FwdInit /\ [][FwdNext]_fwdVars
FwdFairSpec == FwdSpec /\ FwdFairness

-----------------------------------------------------------------------------
(* Properties *)

\* header.rs: "Returns Ok(new_ptr) on success, Err(winner_ptr) if already
\* forwarded."  One evacuator is told Ok, and everybody who was told anything
\* was told the address readers are sent to, if no pin runs beside them: the
\* store of pin() can take an installed address back.
OneWinner ==
  ~pinBeside => \A e \in Evacuators : evac[e] = "done" => answer[e] = word.fwd

\* A reader that has been sent to the copy is never sent back to the original,
\* under the same condition.
ReadsMoveForward ==
  [][~pinBeside => \A r \in Readers : seen[r] # Self => seen'[r] = seen[r]]_fwdVars

\* try_install_forwarding comes out of its compare_exchange loop once the pins
\* cease, wherever they left the word: shading, other evacuators and what was
\* pinned, unpinned or made white again under it do not keep it retrying.
\* While pins go on it may retry for ever: each store is one more failure.
PinsCease == <>[](\A p \in Pinners : pin[p] = "idle")
InstallEnds ==
  PinsCease => \A e \in Evacuators : (evac[e] = "loop") ~> (evac[e] = "done")
=============================================================================
