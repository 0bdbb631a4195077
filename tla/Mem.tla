-------------------------------- MODULE Mem --------------------------------
(***************************************************************************)
(* Memory bring-up, kernel/src/mem/mod.rs: mem::init with the physical    *)
(* frame allocator (BootInfoFrameAllocator) feeding map_heap, then the    *)
(* bump heap (BumpAllocator behind Locked) serving the rest of the kernel.  *)
(*                                                                         *)
(* Addresses are scaled down: a u64 is an integer below Word, a page is    *)
(* PAGE_SIZE units, and the memory map is any sorted, disjoint map of at   *)
(* most two regions over that space (spec.md section 3, MemoryMap).  The   *)
(* kernel is single-core and no interrupt handler allocates, so Locked's   *)
(* spinlock is never contended and each heap call is one step.             *)
(***************************************************************************)
EXTENDS Naturals, Sequences, FiniteSets

CONSTANTS
  Word,                 \* 2^64 scaled: u64 values are 0 .. Word - 1
  PAGE_SIZE,            \* Size4KiB::SIZE
  MIN_ALLOC_PHYS_ADDR,  \* frames below this address are never handed out
  MemoryMaps,           \* the memory maps the bootloader may hand in
  HEAP_START,           \* virtual start of the heap
  HeapPages,            \* HEAP_SIZE_BYTES / PAGE_SIZE
  MaxTables,            \* page-table frames map_to may take while mapping
  Layouts,              \* [size, align] of the kernel's heap requests
  SmokeBox, SmokeVec    \* the layouts allocation_smoke_test asks for

HEAP_GUARD_BYTES == PAGE_SIZE
HEAP_SIZE_BYTES == HeapPages * PAGE_SIZE
HEAP_GUARD_LOW_START == HEAP_START - HEAP_GUARD_BYTES
HEAP_GUARD_HIGH_START == HEAP_START + HEAP_SIZE_BYTES

NoAddr == Word        \* align_up's None
NoFrame == Word       \* allocate_frame's None
Null == 0             \* null_mut()
Dangling == 1         \* NonNull::<u8>::dangling()

Larger(a, b) == IF a >= b THEN a ELSE b

(* align_up_u64 / align_up_usize: round up to align, None on overflow. *)
AlignUp(addr, align) ==
  LET up == addr + (align - (addr % align)) IN
  IF align = 0 THEN NoAddr
  ELSE IF addr % align = 0 THEN addr
  ELSE IF up < Word THEN up
  ELSE NoAddr

(* validate_heap_layout: page-multiple sizes, page-aligned boundaries, and *)
(* the guard pages adjacent to the heap.                                   *)
HeapLayoutValid ==
  /\ HEAP_SIZE_BYTES # 0
  /\ HEAP_SIZE_BYTES % PAGE_SIZE = 0 /\ HEAP_GUARD_BYTES % PAGE_SIZE = 0
  /\ HEAP_START % PAGE_SIZE = 0 /\ HEAP_GUARD_LOW_START % PAGE_SIZE = 0
  /\ HEAP_GUARD_HIGH_START % PAGE_SIZE = 0
  /\ HEAP_GUARD_LOW_START + HEAP_GUARD_BYTES = HEAP_START
  /\ HEAP_START + HEAP_SIZE_BYTES = HEAP_GUARD_HIGH_START

----------------------------------------------------------------------------
(* The frame allocator.  A region is [start, end, usable].                *)

(* Mutant of FirstFrame: the 1 MiB floor forgotten. *)
FirstFrameNoFloor(r) ==
  LET s == AlignUp(r.start, PAGE_SIZE) IN
  IF ~r.usable \/ s = NoAddr \/ ~(s < r.end) THEN NoAddr ELSE s

(* First address of a usable region that may be handed out, NoAddr if    *)
(* the region has none (the shared part of usable_frame_count and         *)
(* select_next_region).                                                    *)
FirstFrame(r) ==
  LET s == AlignUp(r.start, PAGE_SIZE) IN
  IF ~r.usable \/ s = NoAddr \/ ~(s < r.end) THEN NoAddr
  ELSE IF Larger(s, MIN_ALLOC_PHYS_ADDR) < r.end THEN Larger(s, MIN_ALLOC_PHYS_ADDR)
  ELSE NoAddr

(* Mutant of UsableFrameCount: the count ignores the 1 MiB floor. *)
RECURSIVE FramesFromNoFloor(_, _)
FramesFromNoFloor(regs, i) ==
  IF i > Len(regs) THEN 0
  ELSE (IF FirstFrameNoFloor(regs[i]) = NoAddr THEN 0
        ELSE (regs[i].end - FirstFrameNoFloor(regs[i])) \div PAGE_SIZE)
       + FramesFromNoFloor(regs, i + 1)
UsableFrameCountNoFloor(regs) == FramesFromNoFloor(regs, 1)

(* usable_frame_count: the whole frames of every usable region above     *)
(* MIN_ALLOC_PHYS_ADDR, as reported by mem::init.                          *)
RECURSIVE FramesFrom(_, _)
FramesFrom(regs, i) ==
  IF i > Len(regs) THEN 0
  ELSE (IF FirstFrame(regs[i]) = NoAddr THEN 0
        ELSE (regs[i].end - FirstFrame(regs[i])) \div PAGE_SIZE)
       + FramesFrom(regs, i + 1)
UsableFrameCount(regs) == FramesFrom(regs, 1)

(* select_next_region: from region_cursor on, the first region with a     *)
(* frame; next_addr and current_region_end are 0 when there is none.       *)
(* f is [cursor, next, end].                                               *)
RECURSIVE SelectNextRegion(_, _)
SelectNextRegion(regs, f) ==
  IF f.cursor >= Len(regs) THEN [f EXCEPT !.next = 0, !.end = 0]
  ELSE LET r == regs[f.cursor + 1] IN
       IF FirstFrame(r) = NoAddr
       THEN SelectNextRegion(regs, [f EXCEPT !.cursor = @ + 1])
       ELSE [cursor |-> f.cursor + 1, next |-> FirstFrame(r), end |-> r.end]
Selected(f) == f.end # 0

(* Mutant of AllocateFrame: next_addr not advanced past the frame. *)
RECURSIVE AllocateFrameNoAdvance(_, _)
AllocateFrameNoAdvance(regs, f) ==
  LET sel == IF f.next = 0 \/ f.next >= f.end
             THEN SelectNextRegion(regs, f) ELSE f
      frameEnd == sel.next + PAGE_SIZE
  IN IF (f.next = 0 \/ f.next >= f.end) /\ ~Selected(sel) THEN <<sel, NoFrame>>
     ELSE IF frameEnd >= Word \/ frameEnd > sel.end
     THEN AllocateFrameNoAdvance(regs, [sel EXCEPT !.next = sel.end])
     ELSE <<sel, sel.next>>

(* allocate_frame: <<allocator after the call, frame or NoFrame>>.  A      *)
(* frame that would overflow or cross the region end moves next_addr to   *)
(* the end and the loop goes on.                                           *)
RECURSIVE AllocateFrame(_, _)
AllocateFrame(regs, f) ==
  LET sel == IF f.next = 0 \/ f.next >= f.end
             THEN SelectNextRegion(regs, f) ELSE f
      frameEnd == sel.next + PAGE_SIZE
  IN IF (f.next = 0 \/ f.next >= f.end) /\ ~Selected(sel) THEN <<sel, NoFrame>>
     ELSE IF frameEnd >= Word \/ frameEnd > sel.end
     THEN AllocateFrame(regs, [sel EXCEPT !.next = sel.end])
     ELSE <<[sel EXCEPT !.next = frameEnd], sel.next>>

----------------------------------------------------------------------------
(* The bump heap.  h is [heap_start, heap_end, next, allocations,         *)
(* initialized]; a layout is [size, align].                               *)

(* Mutant of Allocate: no check against heap_end. *)
AllocateNoEndCheck(h, l) ==
  LET start == AlignUp(h.next, l.align) IN
  IF ~h.initialized THEN <<h, Null>>
  ELSE IF l.size = 0 THEN <<h, Dangling>>
  ELSE IF start = NoAddr \/ start + l.size >= Word THEN <<h, Null>>
  ELSE <<[h EXCEPT !.next = start + l.size, !.allocations = @ + 1], start>>

(* BumpAllocator::allocate: <<heap after the call, pointer>>. *)
Allocate(h, l) ==
  LET start == AlignUp(h.next, l.align) IN
  IF ~h.initialized THEN <<h, Null>>
  ELSE IF l.size = 0 THEN <<h, Dangling>>
  ELSE IF start = NoAddr \/ start + l.size >= Word THEN <<h, Null>>
  ELSE IF start + l.size > h.heap_end THEN <<h, Null>>
  ELSE <<[h EXCEPT !.next = start + l.size, !.allocations = @ + 1], start>>

(* Mutant of Deallocate: the cursor reset one free too early. *)
DeallocateResetEarly(h, l) ==
  IF l.size = 0 \/ h.allocations = 0 THEN h
  ELSE [h EXCEPT !.allocations = @ - 1,
                 !.next = IF h.allocations - 1 <= 1 THEN h.heap_start ELSE @]

(* BumpAllocator::deallocate: only the count changes, and the cursor goes *)
(* back to heap_start when it reaches zero.                                *)
Deallocate(h, l) ==
  IF l.size = 0 \/ h.allocations = 0 THEN h
  ELSE [h EXCEPT !.allocations = @ - 1,
                 !.next = IF h.allocations - 1 = 0 THEN h.heap_start ELSE @]

(* BumpAllocator::init. *)
InitBump(h, start, size) ==
  [heap_start |-> start, heap_end |-> start + size, next |-> start,
   allocations |-> 0, initialized |-> TRUE]

----------------------------------------------------------------------------
VARIABLES
  regions,       \* boot_info.memory_regions
  fa,            \* BootInfoFrameAllocator: [cursor, next, end]
  usableFrames,  \* MemoryInitReport.usable_frames
  handed,        \* frames allocate_frame has returned, in order
  exhausted,     \* allocate_frame has returned None
  mapped,        \* map_heap's mapped_pages
  tables,        \* frames map_to took for page tables
  heap,          \* GLOBAL_ALLOCATOR
  live,          \* the blocks the kernel holds: [ptr, size, align]
  pc             \* "map", "run" (boot went on) or "halted" (halt_loop)

vars == <<regions, fa, usableFrames, handed, exhausted, mapped, tables, heap,
          live, pc>>

Heaps == [heap_start : Nat, heap_end : Nat, next : Nat, allocations : Nat,
          initialized : BOOLEAN]

TypeOK ==
  /\ regions \in MemoryMaps
  /\ fa \in [cursor : 0 .. Len(regions), next : 0 .. Word - 1, end : 0 .. Word - 1]
  /\ handed \in Seq(0 .. Word - 1) /\ exhausted \in BOOLEAN
  /\ mapped \in 0 .. HeapPages /\ tables \in 0 .. MaxTables
  /\ heap \in Heaps
  /\ heap.initialized => heap.next \in heap.heap_start .. heap.heap_end
  /\ live \subseteq [ptr : Nat, size : Nat, align : Nat]
  /\ pc \in {"map", "run", "halted"}

(* BootInfoFrameAllocator::new and usable_frame_count, after              *)
(* validate_heap_layout (a failure halts); the heap is BumpAllocator::new. *)
Init ==
  /\ regions \in MemoryMaps
  /\ fa = [cursor |-> 0, next |-> 0, end |-> 0]
  /\ usableFrames = UsableFrameCount(regions)
  /\ handed = <<>> /\ exhausted = FALSE
  /\ mapped = 0 /\ tables = 0
  /\ heap = [heap_start |-> 0, heap_end |-> 0, next |-> 0, allocations |-> 0,
             initialized |-> FALSE]
  /\ live = {}
  /\ pc = IF HeapLayoutValid THEN "map" ELSE "halted"

(* One allocate_frame call of map_heap: for the next heap page (forPage) *)
(* or for a page table map_to has to create.  None fails map_heap with   *)
(* FrameAllocationFailed and mem::init's caller halts.                    *)
MapHeapFrame(forPage) ==
  /\ pc = "map" /\ mapped < HeapPages
  /\ forPage \/ tables < MaxTables
  /\ LET r == AllocateFrame(regions, fa) IN
     /\ fa' = r[1]
     /\ IF r[2] = NoFrame
        THEN /\ exhausted' = TRUE /\ pc' = "halted"
             /\ UNCHANGED <<handed, mapped, tables>>
        ELSE /\ handed' = Append(handed, r[2])
             /\ IF forPage THEN mapped' = mapped + 1 /\ UNCHANGED tables
                ELSE tables' = tables + 1 /\ UNCHANGED mapped
             /\ UNCHANGED <<exhausted, pc>>
  /\ UNCHANGED <<regions, usableFrames, heap, live>>

(* The rest of mem::init once every page is mapped: the guard pages are   *)
(* unmapped, init_heap_allocator, and allocation_smoke_test (a Box, then  *)
(* a Vec, both dropped on return, Vec first).  A null from the heap is    *)
(* handle_alloc_error, a panic.                                            *)
InitHeap ==
  /\ pc = "map" /\ mapped = HeapPages
  /\ LET h0 == InitBump(heap, HEAP_START, HEAP_SIZE_BYTES)
         b == Allocate(h0, SmokeBox)
         v == Allocate(b[1], SmokeVec)
     IN IF b[2] = Null \/ v[2] = Null
        THEN pc' = "halted" /\ heap' = IF b[2] = Null THEN b[1] ELSE v[1]
        ELSE pc' = "run" /\ heap' = Deallocate(Deallocate(v[1], SmokeVec), SmokeBox)
  /\ UNCHANGED <<regions, fa, usableFrames, handed, exhausted, mapped, tables, live>>

(* GlobalAlloc::alloc from anywhere in the kernel. *)
Alloc(l) ==
  /\ pc = "run"
  /\ LET r == Allocate(heap, l) IN
     /\ heap' = r[1]
     /\ live' = IF r[2] = Null THEN live
                ELSE live \cup {[ptr |-> r[2], size |-> l.size, align |-> l.align]}
  /\ UNCHANGED <<regions, fa, usableFrames, handed, exhausted, mapped, tables, pc>>

(* GlobalAlloc::dealloc of a block the kernel holds, with its layout. *)
Dealloc(b) ==
  /\ pc = "run"
  /\ heap' = Deallocate(heap, [size |-> b.size, align |-> b.align])
  /\ live' = live \ {b}
  /\ UNCHANGED <<regions, fa, usableFrames, handed, exhausted, mapped, tables, pc>>

(* halt_loop: hlt forever. *)
HaltLoop ==
  /\ pc = "halted"
  /\ UNCHANGED vars

Next ==
  \/ \E forPage \in BOOLEAN : MapHeapFrame(forPage)
  \/ InitHeap
  \/ \E l \in Layouts : Alloc(l)
  \/ \E b \in live : Dealloc(b)
  \/ HaltLoop

Spec == Init /\ [][Next]_vars
----------------------------------------------------------------------------
Frame(i) == handed[i]
InUsableRegion(a) ==
  \E j \in 1 .. Len(regions) :
    regions[j].usable /\ regions[j].start <= a /\ a + PAGE_SIZE <= regions[j].end

(* spec.md section 4.1 and the SAFETY comment on allocate_frame: every     *)
(* frame handed to map_heap and map_to is page-aligned, at or above       *)
(* MIN_ALLOC_PHYS_ADDR, and lies wholly inside a Usable region, whatever  *)
(* the alignment of the regions' bounds and however close they are to the *)
(* top of the address space.                                               *)
FramesValid ==
  \A i \in 1 .. Len(handed) :
    /\ Frame(i) % PAGE_SIZE = 0
    /\ Frame(i) >= MIN_ALLOC_PHYS_ADDR
    /\ InUsableRegion(Frame(i))

(* allocate_frame is a monotonic cursor: each frame it returns lies above *)
(* the previous one, so no frame is handed out twice.                      *)
FramesAscending ==
  [][Len(handed') > Len(handed) /\ handed # <<>> =>
       handed'[Len(handed')] >= handed[Len(handed)] + PAGE_SIZE]_handed

(* The usable_frames mem::init reports is what allocate_frame delivers:   *)
(* never fewer frames than handed out, and exactly as many once it has     *)
(* returned None (usable_frame_count and select_next_region apply the      *)
(* alignment and the 1 MiB floor the same way).                            *)
UsableFramesReported ==
  /\ Len(handed) <= usableFrames
  /\ exhausted => Len(handed) = usableFrames

(* The blocks the kernel holds are aligned, inside the heap and pairwise  *)
(* disjoint: the bump cursor goes back to heap_start only when no block is *)
(* live, over every order of allocations and frees.                        *)
HeapBlocksSound ==
  /\ \A b \in live :
       /\ b.ptr % b.align = 0
       /\ heap.heap_start <= b.ptr /\ b.ptr + b.size <= heap.heap_end
  /\ \A b, c \in live : b # c => b.ptr + b.size <= c.ptr \/ c.ptr + c.size <= b.ptr
=============================================================================
