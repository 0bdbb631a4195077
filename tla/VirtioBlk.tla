------------------------------ MODULE VirtioBlk ------------------------------
(***************************************************************************)
(* The legacy virtio-blk driver of kernel/src/storage/mod.rs and the       *)
(* device on the other side of its split virtqueue.                        *)
(*                                                                         *)
(* Every request uses the one REQUEST_MEMORY (header, data sector, status) *)
(* and the fixed descriptor chain 0 -> 1 -> 2; submit_io puts head 0 in    *)
(* the avail ring, bumps avail.idx (u16), notifies, and spins until        *)
(* used.idx equals last_used_idx + 1, or gives up after MAX_POLL_SPINS     *)
(* with IoTimeout.  The device runs concurrently: it pops avail entries in *)
(* order, reading the request header when it pops one, and when it         *)
(* completes it moves the data between the disk and REQUEST_MEMORY as it   *)
(* is at that moment, writes the status and bumps used.idx.                *)
(*                                                                         *)
(* A timeout is possible whenever used.idx differs from the expected       *)
(* value: while the device still owns requests (a slow device; at most     *)
(* MaxTimeouts such), or when it owns none (then no completion can come).  *)
(***************************************************************************)
EXTENDS Naturals, Sequences

CONSTANTS
  Sectors,       \* 0 .. capacity_sectors - 1
  InitDisk,      \* [Sectors -> Values]: the disk at boot
  WriteValues,   \* contents the callers write
  Values,        \* all sector contents
  T_IN, T_OUT,       \* VIRTIO_BLK_T_IN / VIRTIO_BLK_T_OUT
  NoData,
  InitIdx,       \* possible values of the u16 indices when the queue is set up
  DeviceMayFail, \* TRUE: the device may complete with VIRTIO_BLK_S_IOERR
  MaxCalls,      \* read_sector / write_sector calls in a behaviour
  MaxTimeouts    \* timeouts while the device still owns a request

U16 == 65536
Inc16(x) == (x + 1) % U16

VARIABLES
  \* driver (StorageState and the submit_io locals)
  lastUsed, availIdx, pc, expected, call, ret,
  \* REQUEST_MEMORY
  req,
  \* device
  devAvail, inflight, usedIdx, disk,
  \* bounds and history
  calls, timeouts, held

vars == <<lastUsed, availIdx, pc, expected, call, ret, req, devAvail,
          inflight, usedIdx, disk, calls, timeouts, held>>

NoResult == [res |-> "None", data |-> NoData]
Statuses == {"Pending", "Ok", "IoErr"}   \* 0xFF, VIRTIO_BLK_S_OK, _IOERR

TypeOK ==
  /\ lastUsed \in 0 .. U16 - 1 /\ availIdx \in 0 .. U16 - 1
  /\ usedIdx \in 0 .. U16 - 1 /\ devAvail \in 0 .. U16 - 1
  /\ expected \in 0 .. U16 - 1
  /\ pc \in {"idle", "wait", "status", "copy"}
  /\ call \in [op : {T_IN, T_OUT}, sector : Sectors, val : Values \cup {NoData}]
  /\ ret \in [res : {"Ok", "DeviceFailure", "IoTimeout", "None"},
              data : Values \cup {NoData}]
  /\ req \in [op : {T_IN, T_OUT}, sector : Sectors, data : Values \cup {NoData},
             status : Statuses]
  /\ inflight \in Seq([op : {T_IN, T_OUT}, sector : Sectors])
  /\ disk \in [Sectors -> Values \cup {NoData}]
  /\ calls \in 0 .. MaxCalls /\ timeouts \in Nat
  /\ held \in [Sectors -> SUBSET Values]

(* try_init has set last_used_idx = 0 and the device has consumed every    *)
(* avail entry; after k requests all three indices equal k mod 2^16.       *)
Init ==
  /\ \E k \in InitIdx :
       /\ lastUsed = k /\ availIdx = k /\ usedIdx = k /\ devAvail = k
       /\ expected = k
  /\ pc = "idle"
  /\ call = [op |-> T_IN, sector |-> CHOOSE s \in Sectors : TRUE, val |-> NoData]
  /\ ret = NoResult
  /\ req = [op |-> T_IN, sector |-> CHOOSE s \in Sectors : TRUE,
            data |-> NoData, status |-> "Ok"]
  /\ inflight = <<>>
  /\ disk = InitDisk
  /\ calls = 0 /\ timeouts = 0
  /\ held = [s \in Sectors |-> {InitDisk[s]}]

DeviceQuiescent == devAvail = availIdx /\ inflight = <<>>

----------------------------------------------------------------------------
(* Driver.                                                                 *)

(* Mutant of Submit: avail.idx bumped without the u16 wrap. *)
SubmitNoWrap(op, s, v) ==
  /\ pc = "idle" /\ calls < MaxCalls
  /\ req' = [op |-> op, sector |-> s,
             data |-> IF op = T_OUT THEN v ELSE req.data, status |-> "Pending"]
  /\ availIdx' = availIdx + 1
  /\ expected' = Inc16(lastUsed)
  /\ call' = [op |-> op, sector |-> s, val |-> v]
  /\ pc' = "wait"
  /\ calls' = calls + 1
  /\ UNCHANGED <<lastUsed, ret, devAvail, inflight, usedIdx, disk, timeouts, held>>

(* read_sector / write_sector, then submit_io up to the polling loop:      *)
(* fill the header, status = 0xFF, copy the data of a write, publish head  *)
(* 0 at avail.idx, notify, expected_used = last_used_idx + 1.             *)
Submit(op, s, v) ==
  /\ pc = "idle" /\ calls < MaxCalls
  /\ req' = [op |-> op, sector |-> s,
             data |-> IF op = T_OUT THEN v ELSE req.data, status |-> "Pending"]
  /\ availIdx' = Inc16(availIdx)
  /\ expected' = Inc16(lastUsed)
  /\ call' = [op |-> op, sector |-> s, val |-> v]
  /\ pc' = "wait"
  /\ calls' = calls + 1
  /\ UNCHANGED <<lastUsed, ret, devAvail, inflight, usedIdx, disk, timeouts, held>>

(* Mutant of Poll: last_used_idx not advanced past the completion. *)
PollNoRecord ==
  /\ pc = "wait" /\ usedIdx = expected
  /\ pc' = "status"
  /\ UNCHANGED <<lastUsed, availIdx, expected, call, ret, req, devAvail, inflight,
                 usedIdx, disk, calls, timeouts, held>>

(* The polling loop sees used.idx == expected_used. *)
Poll ==
  /\ pc = "wait" /\ usedIdx = expected
  /\ lastUsed' = expected
  /\ pc' = "status"
  /\ UNCHANGED <<availIdx, expected, call, ret, req, devAvail, inflight,
                 usedIdx, disk, calls, timeouts, held>>

(* MAX_POLL_SPINS exhausted: IoTimeout, last_used_idx left as it was. *)
Timeout ==
  /\ pc = "wait" /\ usedIdx # expected
  /\ DeviceQuiescent \/ timeouts < MaxTimeouts
  /\ ret' = [res |-> "IoTimeout", data |-> NoData]
  /\ pc' = "idle"
  /\ timeouts' = timeouts + (IF DeviceQuiescent THEN 0 ELSE 1)
  /\ UNCHANGED <<lastUsed, availIdx, expected, call, req, devAvail, inflight,
                 usedIdx, disk, calls, held>>

(* Mutant of CheckStatus: the status byte is not looked at. *)
CheckStatusIgnored ==
  /\ pc = "status"
  /\ IF call.op = T_OUT
     THEN ret' = [res |-> "Ok", data |-> NoData] /\ pc' = "idle"
     ELSE pc' = "copy" /\ UNCHANGED ret
  /\ UNCHANGED <<lastUsed, availIdx, expected, call, req, devAvail, inflight,
                 usedIdx, disk, calls, timeouts, held>>

(* After the loop: a status other than 0 is DeviceFailure; a write is done. *)
CheckStatus ==
  /\ pc = "status"
  /\ IF req.status # "Ok"
     THEN ret' = [res |-> "DeviceFailure", data |-> NoData] /\ pc' = "idle"
     ELSE IF call.op = T_OUT
     THEN ret' = [res |-> "Ok", data |-> NoData] /\ pc' = "idle"
     ELSE pc' = "copy" /\ UNCHANGED ret
  /\ UNCHANGED <<lastUsed, availIdx, expected, call, req, devAvail, inflight,
                 usedIdx, disk, calls, timeouts, held>>

(* A read copies the request's data sector out to the caller. *)
CopyOut ==
  /\ pc = "copy"
  /\ ret' = [res |-> "Ok", data |-> req.data]
  /\ pc' = "idle"
  /\ UNCHANGED <<lastUsed, availIdx, expected, call, req, devAvail, inflight,
                 usedIdx, disk, calls, timeouts, held>>

----------------------------------------------------------------------------
(* Device.                                                                 *)

(* Pop the next avail entry (always head 0) and read the header. *)
DevFetch ==
  /\ devAvail # availIdx
  /\ inflight' = Append(inflight, [op |-> req.op, sector |-> req.sector])
  /\ devAvail' = Inc16(devAvail)
  /\ UNCHANGED <<lastUsed, availIdx, pc, expected, call, ret, req, usedIdx,
                 disk, calls, timeouts, held>>

(* Complete the oldest popped request against REQUEST_MEMORY as it is now. *)
DevComplete ==
  /\ inflight # <<>>
  /\ LET h == Head(inflight) IN
     \E st \in IF DeviceMayFail THEN {"Ok", "IoErr"} ELSE {"Ok"} :
       /\ IF st = "Ok" /\ h.op = T_OUT
          THEN /\ disk' = [disk EXCEPT ![h.sector] = req.data]
               /\ held' = [held EXCEPT ![h.sector] = @ \cup {req.data}]
          ELSE UNCHANGED <<disk, held>>
       /\ req' = [req EXCEPT !.status = st,
                             !.data = IF st = "Ok" /\ h.op = T_IN
                                      THEN disk[h.sector] ELSE @]
  /\ inflight' = Tail(inflight)
  /\ usedIdx' = Inc16(usedIdx)
  /\ UNCHANGED <<lastUsed, availIdx, pc, expected, call, ret, devAvail,
                 calls, timeouts>>

(* Power cycle: the device is reset and drops what it has not completed;   *)
(* at the next boot try_init sets last_used_idx = 0 and the queue memory   *)
(* is zero again.  The disk keeps its sectors.                             *)
Reboot ==
  /\ lastUsed' = 0 /\ availIdx' = 0 /\ usedIdx' = 0 /\ devAvail' = 0
  /\ expected' = 0
  /\ pc' = "idle"
  /\ inflight' = <<>>
  /\ req' = [req EXCEPT !.status = "Ok", !.data = NoData, !.op = T_IN]
  /\ calls' = 0
  /\ UNCHANGED <<call, ret, disk, timeouts, held>>

Next ==
  \/ \E s \in Sectors : Submit(T_IN, s, NoData)
  \/ \E s \in Sectors, v \in WriteValues : Submit(T_OUT, s, v)
  \/ Poll \/ Timeout \/ CheckStatus \/ CopyOut
  \/ DevFetch \/ DevComplete
  \/ Reboot

Spec == Init /\ [][Next]_vars


----------------------------------------------------------------------------
(* The driver as the block device of BlockDevice: a call takes effect when *)
(* the device completes the request it submitted.                         *)
Abs == INSTANCE BlockDevice WITH
  adisk <- disk,
  apc <- IF pc = "idle" THEN "idle"
         ELSE IF pc \in {"status", "copy"} \/ usedIdx = expected THEN "done"
         ELSE "pending",
  acall <- call,
  ares <- IF pc = "idle" \/ (pc = "wait" /\ usedIdx # expected)
          THEN [res |-> "None", data |-> NoData]
          ELSE IF req.status # "Ok" THEN [res |-> "DeviceFailure", data |-> NoData]
          ELSE [res |-> "Ok", data |-> IF call.op = T_IN THEN req.data ELSE NoData],
  aret <- ret

(* read_sector and write_sector behave as atomic sector operations: each   *)
(* call takes effect at one instant while it runs, and its result is the   *)
(* result of that instant (BlockDevice), over wrap-around of the u16 ring  *)
(* indices and device I/O errors.                                          *)
BlockDeviceSpec == Abs!Spec

(* A read that returns Ok returns contents the requested sector has held: *)
(* never another sector's data nor a buffer left by an earlier request.    *)
ReadOkFromSector ==
  (pc = "idle" /\ ret.res = "Ok" /\ call.op = T_IN) => ret.data \in held[call.sector]

(* Spec section 8: when the driver is idle and the device has drained the  *)
(* queue, avail.idx = used.idx and last_used_idx tracks used.idx exactly.  *)
IndicesAgree ==
  (pc = "idle" /\ DeviceQuiescent) => (availIdx = usedIdx /\ lastUsed = usedIdx)
=============================================================================
