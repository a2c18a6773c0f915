------------------------------ MODULE MCHeaders ------------------------------
(***************************************************************************)
(* What jdgc does to object headers: a collector that marks and sweeps two *)
(* objects beside two mutators, and evacuators, pinners and a reader at    *)
(* the forwarding word of one object.  No operation of the one family runs *)
(* in the other's phase, so a behaviour is about the one `phase` names.    *)
(***************************************************************************)
EXTENDS GcMark, Forwarding

CONSTANTS o1, o2, m1, m2, e1, e2, p1, p2, r1

MCObjects == {o1, o2}
MCMutators == {m1, m2}
MCEvacuators == {e1, e2}
MCPinners == {p1, p2}
MCReaders == {r1}

VARIABLE phase

headerVars == <<phase, markVars, fwdVars>>

Init ==
  /\ phase \in {"mark", "evacuate"}
  /\ MarkInit
  /\ FwdInit

Next ==
  /\ \/ phase = "mark" /\ MarkNext /\ UNCHANGED fwdVars
     \/ phase = "evacuate" /\ FwdNext /\ UNCHANGED markVars
  /\ UNCHANGED phase

\* An evacuator runs; nobody has to pin, shade, read or collect.  In the other
\* phase it has no step to take.
Spec == Init /\ [][Next]_headerVars /\ FwdFairness

\* The type invariants of both modules: a header's bits are a color, a pinned
\* bit and an address, whatever is stored over what.
TypeOK == MarkTypeOK /\ FwdTypeOK
=============================================================================
