------------------------------- MODULE MCBridge -------------------------------
(***************************************************************************)
(* The FFI bridge: its tables under two threads, and the calls of one      *)
(* thread through the method storage.  A behaviour exercises the half that *)
(* `half` names.                                                           *)
(***************************************************************************)
EXTENDS FfiRegistry, FfiDispatch, TLC

CONSTANTS t1, t2, f, g, x, y, k1

VARIABLE half

MCThreads == {t1, t2}
MCContents == {f, g}
MCCaptures == {x}
MCTwoCaptures == {x, y}
MCClasses == {k1}
MCNames == {"initialize", "m"}
MCSymmetry == Permutations(MCThreads) \cup Permutations(MCContents)

bridgeVars == <<half, regVars, dispVars>>

BridgeInit == half \in {"tables", "calls"} /\ RegInit /\ DispInit

BridgeNext ==
  /\ \/ half = "tables" /\ RegNext /\ UNCHANGED dispVars
     \/ half = "calls" /\ DispNext /\ UNCHANGED regVars
  /\ UNCHANGED half

BridgeSpec == BridgeInit /\ [][BridgeNext]_bridgeVars

\* The tables of the bridge and the stack of calls hold what their Rust types
\* say.
TypeOK == RegTypeOK /\ DispTypeOK
=============================================================================
