------------------------------ MODULE MC_DiskFs ------------------------------
(* DiskFs with the layout constants of the code and a small disk image.    *)
EXTENDS DiskFs

CONSTANTS A, B, P1, P2, P3, P4, P5, P6, P7, X, Y

MCNames == {A, B, P1, P2, P3, P4, P5, P6, P7}
MCNameLen == [n \in MCNames |-> 1]
MCDataInputs == {<<>>, <<X>>, <<Y, Y>>}

(* Seven files written at boot: the next two files created take slots 7   *)
(* and 8, and record 7 straddles directory sectors 1 and 2.                *)
MCPreFiles == [k \in 1 .. 7 |->
                [name |-> <<P1, P2, P3, P4, P5, P6, P7>>[k], data |-> <<X>>]]
=============================================================================
