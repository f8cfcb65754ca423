------------------------------ MODULE MtdxParts ------------------------------
(* Beside ftl_simple.c itself: the block devices that share it (MtdxBlock), and a map *)
(* of the kind in which it marks the pages that are written (LongMap).                *)
EXTENDS MtdxBlock

CONSTANTS Keys, Nodes, Threads, MaxCount, MaxOps

VARIABLES map, key, owned, pre, lm_store, ops

Lm == INSTANCE LongMap WITH store <- lm_store

\* long_map.c: the map finds what its callers have put there, and loses no node.
MapKept == Lm!MapKept
=============================================================================
