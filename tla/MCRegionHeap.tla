----------------------------- MODULE MCRegionHeap -----------------------------
(* RegionHeap with small regions; sizes are in bytes, the header takes two. *)
EXTENDS RegionHeap

CONSTANTS t1, t2
MCThreads == {t1, t2}
=============================================================================
