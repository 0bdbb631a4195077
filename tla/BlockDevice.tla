---------------------------- MODULE BlockDevice ----------------------------
(***************************************************************************)
(* What storage::read_sector and storage::write_sector promise their       *)
(* callers (spec.md section 5): one call at a time (STORAGE_LOCK), and     *)
(* each call takes effect at one instant between its start and its         *)
(* return.  A read returns the sector's contents at that instant; a write  *)
(* replaces them; a failed call (DeviceFailure) has no effect.             *)
(***************************************************************************)
EXTENDS Naturals

CONSTANTS
  Sectors,     \* 0 .. capacity_sectors - 1
  InitDisk,    \* the sectors at boot
  Values,      \* sector contents
  T_IN, T_OUT, \* VIRTIO_BLK_T_IN / VIRTIO_BLK_T_OUT
  NoData       \* the data of a result that carries none

VARIABLES
  adisk,   \* the sectors
  apc,     \* "idle", "pending" (called, not yet performed) or "done"
  acall,   \* the current or last call: [op, sector, val]
  ares,    \* the result of the performed call, while "done"
  aret     \* the result the last call returned

avars == <<adisk, apc, acall, ares, aret>>

Calls == [op : {T_IN, T_OUT}, sector : Sectors, val : Values \cup {NoData}]
Res == [res : {"Ok", "DeviceFailure", "None"}, data : Values \cup {NoData}]
NoResult == [res |-> "None", data |-> NoData]

Init ==
  /\ adisk = InitDisk
  /\ apc = "idle"
  /\ acall \in Calls
  /\ ares = NoResult
  /\ aret = NoResult

Invoke(op, s, v) ==
  /\ apc = "idle"
  /\ apc' = "pending"
  /\ acall' = [op |-> op, sector |-> s, val |-> v]
  /\ UNCHANGED <<adisk, ares, aret>>

(* The instant the call takes effect. *)
Perform ==
  /\ apc = "pending"
  /\ apc' = "done"
  /\ \/ /\ acall.op = T_OUT
        /\ adisk' = [adisk EXCEPT ![acall.sector] = acall.val]
        /\ ares' = [res |-> "Ok", data |-> NoData]
     \/ /\ acall.op = T_IN
        /\ ares' = [res |-> "Ok", data |-> adisk[acall.sector]]
        /\ UNCHANGED adisk
     \/ /\ ares' = [res |-> "DeviceFailure", data |-> NoData]
        /\ UNCHANGED adisk
  /\ UNCHANGED <<acall, aret>>

Return ==
  /\ apc = "done"
  /\ apc' = "idle"
  /\ aret' = ares
  /\ ares' = NoResult
  /\ UNCHANGED <<adisk, acall>>

(* A power cycle: a pending call is abandoned without effect. *)
Crash ==
  /\ apc' = "idle"
  /\ ares' = NoResult
  /\ UNCHANGED <<adisk, acall, aret>>

Next ==
  \/ \E op \in {T_IN, T_OUT}, s \in Sectors, v \in Values \cup {NoData} : Invoke(op, s, v)
  \/ Perform
  \/ Return
  \/ Crash

Spec == Init /\ [][Next]_avars
=============================================================================
