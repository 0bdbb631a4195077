----------------------------- MODULE MC_VirtioBlk -----------------------------
(* Two sectors with distinct contents, two values written, and the u16     *)
(* indices starting either at 0 or one step before they wrap.              *)
EXTENDS VirtioBlk

CONSTANTS D0, D1, W1, W2

MCInitDisk == [s \in {0, 1} |-> IF s = 0 THEN D0 ELSE D1]
MCInitIdx == {0, U16 - 1}

(* The driver without its timeout: the behaviours in which every call     *)
(* waits for its own completion, where read_sector and write_sector are   *)
(* meant to refine BlockDevice.  With Timeout, MC_VirtioBlk_stale.cfg     *)
(* shows what goes wrong.                                                  *)
NextNoTimeout ==
  \/ \E s \in Sectors : Submit(T_IN, s, NoData)
  \/ \E s \in Sectors, v \in WriteValues : Submit(T_OUT, s, v)
  \/ Poll \/ CheckStatus \/ CopyOut
  \/ DevFetch \/ DevComplete
  \/ Reboot
SpecNoTimeout == Init /\ [][NextNoTimeout]_vars
=============================================================================
