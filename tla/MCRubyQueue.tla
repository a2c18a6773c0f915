----------------------------- MODULE MCRubyQueue -----------------------------
(***************************************************************************)
(* RubyQueue of capacity two with two clients and four items.  Nothing      *)
(* looks at an item, so an item is named by its place in the order in which *)
(* the pushes begin: every behaviour of FairSpec is one of OrderedSpec with *)
(* the items renamed.                                                       *)
(***************************************************************************)
EXTENDS RubyQueue

CONSTANTS c1, c2, v1, v2, v3, v4

MCClients == {c1, c2}
MCItems == {v1, v2, v3, v4}

\* What is left of the items is a suffix of <<v1, v2, v3, v4>>.
PushesInOrder == fresh' \in {MCItems, {v2, v3, v4}, {v3, v4}, {v4}, {}}

OrderedSpec == Init /\ [][Next /\ PushesInOrder]_vars /\ Fairness
=============================================================================
