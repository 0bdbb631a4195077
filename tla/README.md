# TLA+ models of arrOSt

arrOSt is a small x86_64 kernel in Rust. This directory holds TLA+
specifications of its components that carry state across steps, and the TLC
configurations that check them. `PROJECT.json` lists every component (modelled
or not), every run, the mutants that show each property can fail, the map from
each definition to the source lines it translates, the findings, and the
hazards of the code.

## The system and how its parts interact

| Part | Source | Role |
|---|---|---|
| virtio-blk driver | `kernel/src/storage/mod.rs` | one split virtqueue over legacy PCI; `read_sector` and `write_sector` go through `submit_io`, serialised by `STORAGE_LOCK` |
| disk filesystem | `kernel/src/fs/diskfs.rs` | superblock (sector 0), a 16-entry directory of 72-byte records packed over sectors 1-3, bump-allocated data extents |
| fs facade | `kernel/src/fs/mod.rs`, `fs/ramfs.rs` | `FsState` picks DiskFs at boot, or RamFs if mounting fails; every call runs under `FS_LOCK` |
| keyboard, mouse | `keyboard.rs`, `mouse.rs` | IRQ handlers push into lock-free single-producer/single-consumer rings that the main loop drains |
| processes | `proc/mod.rs` | process table and scheduler |
| memory | `mem/mod.rs` | bump heap and frame allocator |
| network | `net/mod.rs` | virtio-net, ARP, IPv4/ICMP, UDP, DHCP, a one-connection TCP client |
| audio | `audio.rs`, `audio/virtio_sound.rs` | virtio-sound PCM stream |
| interrupts, timer | `arch/x86_64/*`, `time.rs` | IDT, PIC, PIT and the tick counter |
| graphics, console, DOOM, shell | `gfx`, `console`, `doom*`, `shell.rs` | rendering and command dispatch |

The filesystem is the main client of storage. Each DiskFs operation is a
sequence of `storage::read_sector` and `storage::write_sector` calls, and any
of them can return `IoTimeout` or `DeviceFailure`. The virtio device runs
concurrently with the driver. It pops requests from the avail ring and
completes them into the used ring whenever it likes.

## Modules

### `DiskFs` (fs/diskfs.rs and fs/mod.rs)

**State.**
- `fs` is the in-memory `DiskFs`: `mounted`, `next_free_sector`, `file_count` and the entries.
- `disk` is the superblock, the directory records and the data sectors.
- `faults` counts storage failures.
- `lastOp` is the last operation and its result.
- `acked` is a history variable: for each name, the contents a read may return.

**Directory layout.** The on-disk directory is kept field by field. Each field
of a record sits in the directory sector of its first byte (`DirSectorOf`),
exactly as `persist_metadata` lays the bytes out. Two records straddle a
sector boundary:
- record 7 is split after `size`;
- record 14 is split after `start`.

A persist that stops part way therefore leaves a record with some fields new
and some old.

**Operations.** The code's operations are operators that return the set of
possible outcomes `[fs, disk, res, cost]`. `AndThen` chains them the way
Rust's `?` does: the first failed storage call ends the operation with
`StorageIo`, after the effects of the calls before it. A failed write may or
may not have reached the disk, because a timed-out virtio request can still
complete. The operators:
- `PersistMetadata` and the recursive `PersistPrefix`;
- `LoadDirectory` with `EntryValid` and `DecodeEntry`;
- `Format`, `MountOrFormat` and `EnsureMounted`;
- `AllocateExtent`;
- `WriteMounted`, `DeleteMounted` and `ReadFile`.

**Actions.** Each action is one whole `FS_LOCK`-protected call:
- `Write` and `Delete` (`fs::write_file` and `fs::delete_file`);
- `Sync` (`sync_metadata`);
- `Remount`;
- `Crash`, a reset that loses kernel memory and keeps the disk.

`MC_DiskFs` instantiates the module with:
- 16 slots, 72-byte records and 512-byte sectors, so the layout is the real one;
- a 13-sector disk;
- two names under test;
- contents of 0, 1 or 2 symbols;
- a boot image that already holds 7 files in slots 0-6, so the next new file lands in the straddling slot 7.

### `BlockDevice` (abstract)

This is what `read_sector` and `write_sector` promise. There is one call at a
time. Each call takes effect at a single instant between its start and its
return. A failed call has no effect.

### `VirtioBlk` (storage/mod.rs)

**State.**
- Driver: `last_used_idx`, `avail.idx`, the `submit_io` locals (`expected_used`, the phase `pc`) and the caller's call and result.
- `req` is the single shared `REQUEST_MEMORY`: header, data and status.
- Device: how far it has read the avail ring, the requests it has popped but not completed, `used.idx`, and the disk.

**Driver actions.** `submit_io` is split at the points where the device can
act in between:
- `Submit` fills `req`, publishes head 0, bumps `avail.idx` modulo 2^16 and computes `expected_used`.
- `Poll` handles `observed == expected_used`.
- `Timeout` handles `MAX_POLL_SPINS`.
- `CheckStatus` checks the status byte.
- `CopyOut` copies out the data of a read.
- `Reboot` is `try_init` after a power cycle.

**Device actions.**
- `DevFetch` pops an entry and reads the header from `req`.
- `DevComplete` moves data between the disk and `req` as `req` is at that moment, writes the status and bumps `used.idx`.

The device side follows the virtio split-ring rules (`spec_modelled` in the map).

**Refinement.** `Abs == INSTANCE BlockDevice WITH ...` maps the driver onto
the abstract device. The instant a call takes effect is the completion of the
request it submitted. The `PROPERTY BlockDeviceSpec` checks the refinement.
It is checked for `SpecNoTimeout` (in `MC_VirtioBlk`), the driver without
`Timeout`: a timed-out call breaks it, which is finding 3, checked by
`vblk_stale_read` with `Timeout` in.

**Bounds.** `MC_VirtioBlk` uses:
- 2 sectors;
- 2 write values;
- at most 3 calls per boot;
- indices that start at 0 or at 65535, so every run crosses the u16 wrap.

### `InputFifo` (abstract) and `Keyboard` (keyboard.rs, shell::poll)

`InputFifo` is what an interrupt-to-main-loop queue promises:
- items come out in order;
- none is repeated;
- none is lost, except that an item offered while `Cap` wait is dropped and counted.

`Keyboard` keeps the state of `keyboard.rs`:
- `SHIFT_PRESSED` and `EXTENDED_PREFIX`;
- the byte ring and the event ring: head, tail, storage and overflow counter;
- the phase and locals of `shell::poll`'s pop loops;
- the last byte and the last event the shell got.

**Actions.**
- `HandleScancode` is the whole IRQ1 handler as one step. The CPU runs it with interrupts off. It covers the E0 prefix, shift make/break, `map_set1_scancode_event`, `map_set1_scancode` for the table rows the model's scancodes reach, the u16 `encode_key_event`, and `push_key_event` / `push_byte` with their full test.
- `pop_key_event` and `pop_byte` run in the main loop with interrupts on. Each is split at its shared accesses: load the tail and head, read the slot, store the new tail. The handler can run between any two of these steps.

**Refinement.** Each ring is mapped onto an `InputFifo`:
- the contents between tail and head;
- the overflow counter;
- the item last taken. For events this is taken in its u16 encoding, so a decode that loses a bit is caught.

**Bounds.**
- Both rings have capacity 3: two usable slots, so each fills and wraps.
- The scancodes are E0, left shift make/break and 'a' make/break.
- The `InputFifo` alphabets are the items those scancodes can produce
  (`MCByteItems`, `MCEventItems`). Over the full tables every step would be
  tested against some 200 `Offer`s, which made the run take minutes.
- `MaxOverflow = 1` refused push per ring. Beyond it, the keyboard sends nothing more.

The real capacity, 1024, changes nothing in the logic, which depends only on the indices modulo the capacity.

### `KeyboardShift` (keyboard.rs driven by a set-1 keyboard)

This module extends `Keyboard` with the device that feeds it:
- `held` holds the physical keys that are down;
- `wire` holds the bytes still to be delivered, one per IRQ1.

**Keyboard (not code of this repository).** `Press` and `Release` queue a
key's set-1 bytes:
- left shift is 2A/AA, right shift 36/B6 and 'a' 1E/9E;
- the cursor key left is E0 4B/E0 CB, wrapped in the keyboard's fake shifts. A held shift is released around it (E0 AA, E0 B6) and pressed again after it. With NumLock on and no shift held, E0 2A comes before it and E0 AA after it.

**Driver.** `Irq` is `keyboard_interrupt_handler`, which reads the port and
calls `handle_scancode` (the action `HandleScancode` of `Keyboard`).

**Property.** `ShiftMatchesKeys`: once the wire is idle, `SHIFT_PRESSED`
says whether a shift key is held.

### `Scheduler` (proc/mod.rs, main.rs run_loop, time.rs)

**State.**
- The `Scheduler` table: `tasks` with state, deadline, step and line length; `cursor`, `next_pid` and `initialized`.
  `handle_shell_byte` is modelled for a script given as the constant `Script`.
- The shell's script index.
- The main loop's phase.
- `lag`: how far `run_loop`'s reading of `time::ticks()` is behind the counter.
- A history variable `waited`: for each Ready task, how many steps other tasks have run since it became Ready.

**Actions.**
- `ProcInit` is `proc::init`.
- `ReadTicks` is run_loop's read of the tick counter.
- `RunOnce` is `proc::run_once`. It is one step, because it runs under `SCHED_LOCK` with `now_ticks` passed in. It covers `wake_sleeping`, `pick_next`, and one step of `run_init_task` or `run_shell_task` with its syscall (`SYS_YIELD`, `SYS_SLEEP`, `SYS_EXIT`).
- `Tick` is the PIT interrupt.

**Time.** Time is relative to the tick counter. A sleeper keeps
`until_tick - TIMER_TICKS`, clamped at `-MaxLag`. With that, the real sleeps
(25, 80 and 20 ticks) fit a finite state space, and no comparison of
`wake_sleeping` changes.

**Bounds.**
- 4 slots;
- the build's script: `USER_SHELL_SCRIPT` is `b""` (proc/mod.rs:16), so `sys_read` returns 0 and the shell task starts, yields, then only sleeps 20 ticks at a time; `handle_shell_byte` is never reached in this build;
- `MaxLag = 1` tick between the read and the call.

**Properties.**
- `RoundRobinBound`: a Ready task waits for at most one step of each other task.
- `InitExits`: the init task eventually exits.

### `TcpCurl` (net/mod.rs: curl_http_roundtrip, handle_tcp, resolve_arp, the ARP cache, the RX path)

**Driver.**
- `PollRxOnce` is `poll_rx_once` with `process_frame`. Every frame's sender goes through `learn_arp`, and TCP segments then go through `handle_tcp`.
- `handle_tcp` is the operator `HandleTcp`, with the RST, SYN-ACK, data and FIN branches in the code's order. `Accepts` is its `seq == ack_next` test and `CopyToResponse` its bounded copy.
- `CurlStart` sends the ARP request, or the SYN when the gateway is known. `ArpPoll`, `ArpLookup` and `ArpTimeout` are `resolve_arp`'s loop: the 200-tick test with `poll`, the lookup (which sends the SYN through `SendSyn`), and the ArpTimeout return.
- `CurlLoopTop` is the `CURL_WAIT_TICKS` test of the wait loop, and `CurlLoop` the rest of an iteration: the request sent once, then the `finished` check.
- `CurlReturn` sends the RST, clears `pending_http` and returns the result.
- Every send can fail through `?` (`SendOutcome`): curl then returns the error at once, and the frame may or may not have gone out (`Sent`), as with a `transmit_frame` timeout. `MaxTxFail` bounds the failures.

**Time.** `elapsed` is `ticks() - start` of the loop running now.
`Tick` is the PIT's `on_timer_tick` while curl waits; it stops at the loop's
budget, which is all the loop can tell apart.

**Network.** The gateway answers ARP, another host adds ARP traffic, and the
server may send any segment it has reason to send, any number of times. With
`InOrder` the segments it sends never go back in the stream (`srvPos`), which
still allows loss and duplication; without it, any order.

**Sequence numbers.** They are relative to the two initial sequence numbers,
so the u32 wrap, common to both ends, does not show.

**Bounds.**
- a 2- or 3-byte body, one byte per segment, into a buffer one or two bytes long, so the buffer can fill;
- 2 ARP entries for 3 or 4 hosts, so entry 0 is evicted;
- 2 frames queued in the device, 5 server segments, 1 or 2 noise frames;
- budgets of 2 ticks for both loops: the loops tell apart only "time left" and "out of time";
- at most one transmit failure.

**History variable.** `gwHeard` records that the gateway's ARP reply went
through `process_frame` while `resolve_arp` waited.

**Fairness.** `FairSpec` is weakly fair to the kernel's own steps (the
loops, `poll`) and to `Tick`: curl runs on the one core with nothing else
scheduled, and the PIT keeps ticking. The network and the gateway get no
fairness: they may lose everything.

**Properties.**
- `TypeOK` includes the response never being longer than its buffer.
- `CurlReturns`: every call of curl returns. Nothing is retransmitted, so
  only the tick budgets can end a call whose segments were lost.
- `ResponseIsPrefix`: the response buffer holds the start of the body, in order.
- `ArpTimeoutOnlyUnanswered`: `resolve_arp` fails with ArpTimeout only if the
  gateway never answered.

**Configurations.** `MC_TcpCurl.cfg` (the `tcp_curl` run) is the in-order
network with one transmit failure. `MC_TcpCurl_fin.cfg` has a 3-byte body and a
2-byte buffer. `MC_TcpCurl_arp.cfg` has two other hosts and a one-byte body.

### `Mem` (mem/mod.rs: mem::init, the frame allocator, the bump heap)

**State.**
- the memory map `regions`, chosen in `Init` from `MemoryMaps`;
- `BootInfoFrameAllocator` as `fa`: `region_cursor`, `next_addr`, `current_region_end`;
- `usableFrames`, the count `mem::init` reports;
- the frames handed out, in order, and whether `allocate_frame` returned None;
- `map_heap`'s page count and the page-table frames `map_to` took;
- `GLOBAL_ALLOCATOR` as `heap`, and the blocks the kernel holds;
- `pc`: mapping, running, or `halt_loop`.

**Operators.** `align_up_u64`/`align_up_usize`, `usable_frame_count`,
`select_next_region` and `allocate_frame` are operators, the last two
`RECURSIVE` because their loops are. `allocate`, `deallocate` and `init` of
`BumpAllocator` are operators on the heap record.

**Actions.**
- `MapHeapFrame(forPage)` is one `allocate_frame` call of `map_heap`: for a
  heap page, or for a page table `map_to` has to create (the x86_64 crate's
  code, bounded by `MaxTables`). None halts, as `main` does on any
  `mem::init` error.
- `InitHeap` is the rest of `mem::init`: `init_heap_allocator` and
  `allocation_smoke_test`'s Box and Vec, dropped on return.
- `Alloc(l)` and `Dealloc(b)` are `GlobalAlloc::alloc`/`dealloc` from any
  caller. The kernel is single-core and no interrupt handler allocates, so
  `Locked`'s spinlock is never contended and each call is one step.
- `HaltLoop` is `halt_loop`.

**Bounds.** A 32-unit address space (u64 scaled), 4-unit pages and the floor
at 8. The memory maps are every sorted, disjoint map (`spec.md`, MemoryMap) of
one or two regions whose bounds are among 0, 2, 4, 7, 12, 17, 29 and 31, each
Usable or not: 560 maps. Their bounds are aligned or not, below, across and
above the floor, and near the top of the space: a region starting at 29
aligns past the last address (align_up's None), and at 28 `frame_start +
PAGE_SIZE` overflows. The heap is 2 pages; requests are 1 byte aligned to 1
and 2 bytes aligned to 4.

## Runs

| Run | Checks | Result |
|---|---|---|
| `diskfs_faults` | `TypeOK`, `MemExtentsAllocated`, `DiskExtentsAllocated`, `OkIsDurable`, `MountableWithoutFaults`, `ReadAllowedWithoutFaults`, with one storage failure | pass. Extents stay disjoint and below `next_free_sector` in memory and on disk at every instant. An Ok result is what a reboot mounts, because the superblock is written before the directory. Until a call fails, every sequence of writes, deletes, syncs, remounts and crashes leaves a mountable image and round-trips reads |
| `diskfs_torn_directory` | `DiskImageMountable` with one failure | violation: see findings |
| `diskfs_torn_overwrite` | `ReadAllowed` with one failure | violation: see findings |
| `vblk_refines` | `TypeOK`, `BlockDeviceSpec`, `IndicesAgree` without timeouts | pass: the driver is an atomic block device across u16 wrap, I/O errors and reboots |
| `vblk_stale_read` | `ReadOkFromSector` | violation: see findings |
| `kbd_rings` | `TypeOK`, `ByteQueueFifo`, `EventQueueFifo` | pass: both rings are FIFOs with counted overflow under every interleaving of IRQ1 with `pop_byte` and `pop_key_event`, the event ring through its u16 encoding |
| `kbd_shift` | `ShiftMatchesKeys` | violation: see findings |
| `sched` | `RoundRobinBound`, `InitExits` under weak fairness | pass: no Ready task is passed over twice, and the init task's sleeps all end and it exits, whatever the timer does between run_loop's read of the ticks and `run_once` |
| `tcp_curl` | `TypeOK`, `CurlReturns` under weak fairness | pass: whatever the network loses or repeats, and with a failed send, every curl call returns, and the response stays inside its buffer |
| `tcp_fin` | `ResponseIsPrefix` | violation: see findings |
| `tcp_arp_evict` | `ArpTimeoutOnlyUnanswered` | violation: see findings |
| `mem` | `TypeOK`, `FramesValid`, `FramesAscending`, `UsableFramesReported`, `HeapBlocksSound` | pass. For all 560 memory maps, every frame is aligned, at or above the floor and inside a Usable region; frames come in ascending order, so none twice; when `allocate_frame` runs out it has handed out exactly the `usable_frames` that the boot log reports (main.rs:150). Over every order of allocations and frees the live heap blocks are aligned, inside the heap and disjoint |

Each property of a passing run is broken by at least one mutant of the code
(`PROJECT.json` "mutants"). Examples:
- the directory persisted before the superblock;
- `allocate_extent` without its bump or without its bound;
- `delete` persisting before it clears the entry;
- a record check off by one;
- `avail.idx` without its wrap;
- the status byte ignored;
- a ring pushed without its full test or without its modulo;
- the event masks swapped when decoding;
- `last_used_idx` not advanced;
- `pick_next` not moving its cursor past the task it picked;
- the init task skipping its second step;
- the 1 MiB floor forgotten in `select_next_region` or in `usable_frame_count`;
- `next_addr` not advanced past a frame;
- `allocate` without its `heap_end` check;
- the bump cursor reset one free too early;
- the response copied without its room check;
- the wait loop without its `CURL_WAIT_TICKS` test.

## Findings

1. **Torn directory.** `persist_metadata` writes the directory sectors one at
   a time, and record 7 spans sectors 1 and 2 of the disk. A failed second
   write leaves `used=1` and `size=1` with `start=0` and `count=0`.
   `load_directory` rejects that record as `DiskCorrupt`. At the next boot
   `FsState` falls back to ramfs and every file is unreachable.
2. **Torn overwrite.** An in-place overwrite writes the data sector before the
   directory. If the write times out but still lands, reads return the old
   length of the new bytes.
3. **Stale read and wedged driver.** After a timeout, the next call can
   take the late completion as its own. It then returns Ok with another
   request's data. The abandoned request can also wedge the driver. Once the
   device completes it together with the next request, `used.idx` jumps past
   `expected_used`. The equality poll never matches again, and storage is
   dead until reboot.
4. **Shift state.** `handle_scancode` keeps one `SHIFT_PRESSED` flag for
   both shift keys, and it drops the E0 prefix before testing for a shift
   code. There are two failures:
   - Press left shift, press right shift, release right shift: the flag is
     false while left shift is held.
   - With NumLock on, pressing the cursor key left sends E0 2A. The flag
     becomes true with no shift key down, so an 'a' typed while the cursor key is held comes out as 'A' (its release, E0 AA, clears the flag again).
5. **FIN out of order.** `handle_tcp` accepts a FIN at any sequence
   number. When data before it is missing, `ack_next` moves over the hole and
   the client acknowledges a byte it never received. A repeated segment
   processed later in the same poll, at the shifted `ack_next`, is copied
   into the response where the missing byte belongs, and curl returns Ok with
   a corrupted body. No reordering is needed: on an in-order path, one lost
   segment and one duplicate (or a retransmission of the tail without its
   FIN) suffice. `spec.md`'s accept rule is `seq == ack_next`.
6. **Gateway evicted during ARP resolution.** `learn_arp` overwrites entry 0
   whenever the cache is full and never moves a refreshed entry, as `spec.md`
   prescribes ("replace index 0 when full"): the rule itself is at fault. If the gateway's reply lands in
   entry 0, and the same `poll` drains broadcasts from as many new hosts as
   there are free entries, the gateway is gone before `lookup_arp` runs. It
   does not answer again, so `resolve_arp` spins out its 200 ticks and
   returns ArpTimeout although the reply came.

## Fairness

`sched` and `tcp_curl` check liveness. `sched`'s specification has weak fairness on:
- `ProcInit`, `ReadTicks` and `RunOnce`, because `run_loop` is an endless loop that makes these calls in turn;
- `Tick`, because the PIT keeps interrupting.

Nothing stronger is assumed. With this fairness, `InitExits` shows that the
init task's sleeps end even though `run_loop`'s reading of the ticks is
stale.

`tcp_curl`'s fairness is described under `TcpCurl`. The drivers' inner
waits (storage, `transmit_frame`) end by `MAX_POLL_SPINS` whatever the device
does, so no "calls return" property is checked for them.

## Not modelled, and why

Some code is left out on purpose:
- **Rendering, DOOM, the console and the shell:** drawing and dispatch with no safety property a model would distinguish.
- **GDT, port I/O and build tooling:** straight-line code.
- **Formatting of names and bytes:** names are model values, and contents are short sequences of symbols.
- **Multi-sector files:** `MAX_FILE_BYTES` is one sector.
- **`list`, `file_count` and `used_bytes`:** they only read state.
- **Network: ICMP ping, the UDP mailbox, DHCP and DNS:** not modelled yet.
- **Page tables:** `map_to` and `translate_addr` are the x86_64 crate's code; `Mem` keeps only the frames `map_to` takes. `virt_to_phys`, `phys_to_virt` and `collect_stats` are arithmetic with no state.
- **PS/2 mouse:** its packet assembler and ring have the keyboard's shape. Its real hazard is in `init`: `read_data_byte` ignores the AUX status bit, so a keyboard scancode can be taken for the controller byte or an ACK. Modelling that needs the 8042's shared output buffer, which the source does not describe, and a run of its own, which all 12 runs in use leave no room for.
- **The virtio-net queue protocol:** `transmit_frame` is abstracted in `TcpCurl` to Ok or a timeout after which the frame may still go out. Its late-completion defect is the one `vblk_stale_read` shows for virtio-blk.
- **Between calls:** after a failed send, `pending_http` stays active until the next curl (hazard list); no model covers the other commands that poll meanwhile.
- **The timeout branch of `VirtioBlk` in a passing run:** with `Timeout` the driver breaks its refinement (finding 3), so `vblk_refines` checks `SpecNoTimeout`. The timeout hazards are checked by `vblk_stale_read` alone.
- **The HTTP status code parse:** formatting only.
- **TCP's ACK segments:** the server model does not react to them. It may resend anything at any time, which covers every reaction.

## Plan for further work

1. **The rest of the network:** `Dhcp`, and the UDP mailbox.
2. **`VirtioSound`:** the control and tx queue handshakes.
3. **`FsOverStorage`:** DiskFs over VirtioBlk, to follow the wedge into the filesystem, and the boot choice DiskFs/RamFs of `FsState::init`.
4. **`Mouse`:** in place of a run whose question another answers.
