------------------------------- MODULE MC_Mem -------------------------------
(* A 32-unit physical address space with 4-unit pages and the allocation  *)
(* floor at 8.  Region bounds come from points that are aligned or not,   *)
(* below, across and above the floor, and near the top of the space, so  *)
(* that a start aligns past the last address (29) and a frame end         *)
(* overflows (28 + 4);                                                    *)
(* the maps are every sorted, disjoint map of one or two non-empty        *)
(* regions over them, each Usable or not.  The heap is two pages at 4.    *)
EXTENDS Mem

Bounds == {0, 2, 4, 7, 12, 17, 29, 31}
Regions == {r \in [start : Bounds, end : Bounds, usable : BOOLEAN] : r.start < r.end}

MCMemoryMaps ==
  {<<r>> : r \in Regions} \cup
  {m \in Regions \X Regions : m[1].end <= m[2].start}

MCLayouts == {[size |-> 1, align |-> 1], [size |-> 2, align |-> 4]}
MCSmokeBox == [size |-> 2, align |-> 2]
MCSmokeVec == [size |-> 4, align |-> 2]
=============================================================================
