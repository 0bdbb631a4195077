------------------------------ MODULE Keyboard ------------------------------
(***************************************************************************)
(* kernel/src/keyboard.rs: the IRQ1 handler decodes PS/2 set-1 scancodes   *)
(* and pushes into two lock-free single-producer single-consumer rings, a  *)
(* byte ring (ASCII of pressed keys) and an event ring (u16-encoded press  *)
(* and release events); shell::poll in the main loop drains the event ring *)
(* and then the byte ring.                                                 *)
(*                                                                         *)
(* One CPU: the handler runs with interrupts off, so handle_scancode is    *)
(* one step.  The main loop runs with interrupts on, so the handler can    *)
(* run between any two of pop_key_event's / pop_byte's shared accesses:   *)
(* load the tail and head, read the slot, store the new tail.  Each        *)
(* index is written by one side only and read with Acquire/Release, so    *)
(* the accesses are sequentially consistent here.                          *)
(***************************************************************************)
EXTENDS Naturals, Sequences

CONSTANTS
  BYTE_QUEUE_CAPACITY,
  EVENT_QUEUE_CAPACITY,
  Scancodes,    \* the scancodes the keyboard sends
  MaxOverflow   \* bound: per ring, pushes refused because it was full

EVENT_CODE_ARROW_UP == \h0100
EVENT_CODE_ARROW_DOWN == \h0101
EVENT_CODE_ARROW_LEFT == \h0102
EVENT_CODE_ARROW_RIGHT == \h0103
EVENT_CODE_MASK == \h7fff
EVENT_PRESSED_MASK == \h8000

(* x & EVENT_CODE_MASK and x & EVENT_PRESSED_MASK for a u16 x: the low 15 *)
(* bits and the top bit; likewise sc & 0x7f and sc & 0x80 for a byte.     *)
Low15(x) == x % \h8000
Bit15(x) == (x \div \h8000) % 2 = 1

(* KeyCode: Byte(b) or one of the arrows; NoCode is Option::None. *)
Byte(b) == [kind |-> "Byte", b |-> b]
Arrow(k) == [kind |-> k, b |-> 0]
NoCode == [kind |-> "None", b |-> 0]
KeyCodes == {Byte(b) : b \in 0 .. 255} \cup
            {Arrow(k) : k \in {"ArrowUp", "ArrowDown", "ArrowLeft", "ArrowRight"}}
KeyEvents == [code : KeyCodes, pressed : BOOLEAN]
NoEvent == [code |-> NoCode, pressed |-> FALSE]
NoAscii == 256

(* map_set1_scancode, for the rows the scancodes of the model reach: the   *)
(* letter keys are shifted_alpha, Enter and Space ignore shift, and a code *)
(* without a row is None.                                                  *)
ShiftedAlpha(lower, shift) == IF shift THEN lower - 32 ELSE lower
Set1Ascii(code, shift) ==
  CASE code = \h1E -> ShiftedAlpha(97, shift)     \* 'a'
    [] code = \h1F -> ShiftedAlpha(115, shift)    \* 's'
    [] code = \h1C -> 10                          \* '\n'
    [] code = \h39 -> 32                          \* ' '
    [] OTHER -> NoAscii

(* map_set1_scancode_event *)
Set1Event(code, extended) ==
  IF extended
  THEN CASE code = \h48 -> Arrow("ArrowUp")
         [] code = \h50 -> Arrow("ArrowDown")
         [] code = \h4B -> Arrow("ArrowLeft")
         [] code = \h4D -> Arrow("ArrowRight")
         [] code = \h1C -> Byte(10)
         [] OTHER -> NoCode
  ELSE IF code = \h01 THEN Byte(\h1b)
  ELSE IF Set1Ascii(code, FALSE) = NoAscii THEN NoCode
  ELSE Byte(Set1Ascii(code, FALSE))

(* encode_key_event / decode_key_event *)
EncodeKeyEvent(ev) ==
  LET code == CASE ev.code.kind = "Byte" -> ev.code.b
                [] ev.code.kind = "ArrowUp" -> EVENT_CODE_ARROW_UP
                [] ev.code.kind = "ArrowDown" -> EVENT_CODE_ARROW_DOWN
                [] ev.code.kind = "ArrowLeft" -> EVENT_CODE_ARROW_LEFT
                [] ev.code.kind = "ArrowRight" -> EVENT_CODE_ARROW_RIGHT
  \* code | EVENT_PRESSED_MASK: every code is below 0x8000, so | adds the bit
  IN IF ev.pressed THEN code + EVENT_PRESSED_MASK ELSE code

(* Mutant: the two masks swapped when decoding. *)
DecodeKeyEventSwapped(encoded) ==
  LET pressed == Low15(encoded) # 0
      value == Low15(encoded)
      code == CASE value = EVENT_CODE_ARROW_UP -> Arrow("ArrowUp")
                [] value = EVENT_CODE_ARROW_DOWN -> Arrow("ArrowDown")
                [] value = EVENT_CODE_ARROW_LEFT -> Arrow("ArrowLeft")
                [] value = EVENT_CODE_ARROW_RIGHT -> Arrow("ArrowRight")
                [] value <= 255 -> Byte(value)
                [] OTHER -> NoCode
  IN IF code = NoCode THEN NoEvent ELSE [code |-> code, pressed |-> pressed]

DecodeKeyEvent(encoded) ==
  LET pressed == Bit15(encoded)
      value == Low15(encoded)
      code == CASE value = EVENT_CODE_ARROW_UP -> Arrow("ArrowUp")
                [] value = EVENT_CODE_ARROW_DOWN -> Arrow("ArrowDown")
                [] value = EVENT_CODE_ARROW_LEFT -> Arrow("ArrowLeft")
                [] value = EVENT_CODE_ARROW_RIGHT -> Arrow("ArrowRight")
                [] value <= 255 -> Byte(value)
                [] OTHER -> NoCode
  IN IF code = NoCode THEN NoEvent ELSE [code |-> code, pressed |-> pressed]

----------------------------------------------------------------------------
(* A ring: HEAD (next slot the handler fills), TAIL (next slot the main    *)
(* loop reads), the storage and the overflow counter.                      *)
Ring(cap, Slot) == [head : 0 .. cap - 1, tail : 0 .. cap - 1,
                    slot : [0 .. cap - 1 -> Slot], overflow : 0 .. MaxOverflow]
EmptyRing(cap, zero) == [head |-> 0, tail |-> 0,
                         slot |-> [i \in 0 .. cap - 1 |-> zero], overflow |-> 0]

(* Mutants of Push: head advanced without the modulo, and no full test. *)
PushNoWrap(r, x, cap) ==
  LET nextHead == r.head + 1
  IN IF nextHead = r.tail
     THEN [r EXCEPT !.overflow = @ + 1]
     ELSE [r EXCEPT !.slot[r.head] = x, !.head = nextHead]

PushNoFullCheck(r, x, cap) ==
  [r EXCEPT !.slot[r.head] = x, !.head = (r.head + 1) % cap]

(* push_byte / push_key_event: full when the slot after head is the tail. *)
Push(r, x, cap) ==
  LET nextHead == (r.head + 1) % cap
  IN IF nextHead = r.tail
     THEN [r EXCEPT !.overflow = @ + 1]
     ELSE [r EXCEPT !.slot[r.head] = x, !.head = nextHead]

(* The items waiting in a ring, oldest first. *)
Contents(r, cap) ==
  [i \in 1 .. (r.head - r.tail + cap) % cap |-> r.slot[(r.tail + i - 1) % cap]]

VARIABLES
  shift,     \* SHIFT_PRESSED
  extended,  \* EXTENDED_PREFIX
  bq,        \* the byte ring
  eq,        \* the event ring
  pc,        \* where shell::poll is in its pop loops
  ct,        \* the tail pop_* loaded
  cv,        \* the slot value pop_* read
  lastByte,  \* the byte shell::poll got last
  lastEvent  \* the event shell::poll got last

vars == <<shift, extended, bq, eq, pc, ct, cv, lastByte, lastEvent>>

TypeOK ==
  /\ shift \in BOOLEAN /\ extended \in BOOLEAN
  /\ bq \in Ring(BYTE_QUEUE_CAPACITY, 0 .. 255)
  /\ eq \in Ring(EVENT_QUEUE_CAPACITY, 0 .. 65535)
  /\ pc \in {"ev", "evRead", "evStore", "by", "byRead", "byStore"}
  /\ ct \in Nat /\ cv \in 0 .. 65535
  /\ lastByte \in 0 .. NoAscii
  /\ lastEvent \in KeyEvents \cup {NoEvent}

(* keyboard::init has run (all zero) and shell::poll is at its first loop. *)
Init ==
  /\ shift = FALSE /\ extended = FALSE
  /\ bq = EmptyRing(BYTE_QUEUE_CAPACITY, 0)
  /\ eq = EmptyRing(EVENT_QUEUE_CAPACITY, 0)
  /\ pc = "ev" /\ ct = 0 /\ cv = 0
  /\ lastByte = NoAscii /\ lastEvent = NoEvent

----------------------------------------------------------------------------
(* The IRQ1 handler: handle_scancode(sc) as one step. *)
HandleScancode(sc) ==
  /\ bq.overflow < MaxOverflow /\ eq.overflow < MaxOverflow
  /\ IF sc = \hE0
     THEN extended' = TRUE /\ UNCHANGED <<shift, bq, eq>>
     ELSE
       LET ext == extended
           pressed == sc < \h80
           code == sc % \h80
           evCode == Set1Event(code, ext)
           ascii == Set1Ascii(code, shift)
       IN /\ extended' = FALSE
          /\ IF code \in {\h2A, \h36}
             THEN shift' = pressed /\ UNCHANGED <<bq, eq>>
             ELSE /\ eq' = IF evCode = NoCode THEN eq
                           ELSE Push(eq, EncodeKeyEvent([code |-> evCode, pressed |-> pressed]),
                                     EVENT_QUEUE_CAPACITY)
                  /\ bq' = IF ~pressed \/ ext \/ ascii = NoAscii THEN bq
                           ELSE Push(bq, ascii, BYTE_QUEUE_CAPACITY)
                  /\ UNCHANGED shift
  /\ UNCHANGED <<pc, ct, cv, lastByte, lastEvent>>

----------------------------------------------------------------------------
(* shell::poll: while let Some(event) = pop_key_event() { .. }            *)

(* pop_key_event loads its own tail and the handler's head; equal: None   *)
(* and the loop moves on to the byte ring.                                 *)
PopKeyEventLoad ==
  /\ pc = "ev"
  /\ IF eq.tail = eq.head
     THEN pc' = "by" /\ UNCHANGED ct
     ELSE pc' = "evRead" /\ ct' = eq.tail
  /\ UNCHANGED <<shift, extended, bq, eq, cv, lastByte, lastEvent>>

PopKeyEventRead ==
  /\ pc = "evRead"
  /\ cv' = eq.slot[ct]
  /\ pc' = "evStore"
  /\ UNCHANGED <<shift, extended, bq, eq, ct, lastByte, lastEvent>>

(* Store the next tail and decode; a value that decodes to None ends the  *)
(* while-let loop as well.                                                 *)
PopKeyEventStore ==
  /\ pc = "evStore"
  /\ eq' = [eq EXCEPT !.tail = (ct + 1) % EVENT_QUEUE_CAPACITY]
  /\ LET ev == DecodeKeyEvent(cv)
     IN IF ev = NoEvent
        THEN pc' = "by" /\ UNCHANGED lastEvent
        ELSE pc' = "ev" /\ lastEvent' = ev
  /\ ct' = 0 /\ cv' = 0    \* the locals of pop_key_event are gone
  /\ UNCHANGED <<shift, extended, bq, lastByte>>

(* while let Some(byte) = pop_byte() { .. }; after None, shell::poll      *)
(* returns and the main loop comes back to it.                             *)
PopByteLoad ==
  /\ pc = "by"
  /\ IF bq.tail = bq.head
     THEN pc' = "ev" /\ UNCHANGED ct
     ELSE pc' = "byRead" /\ ct' = bq.tail
  /\ UNCHANGED <<shift, extended, bq, eq, cv, lastByte, lastEvent>>

PopByteRead ==
  /\ pc = "byRead"
  /\ cv' = bq.slot[ct]
  /\ pc' = "byStore"
  /\ UNCHANGED <<shift, extended, bq, eq, ct, lastByte, lastEvent>>

PopByteStore ==
  /\ pc = "byStore"
  /\ bq' = [bq EXCEPT !.tail = (ct + 1) % BYTE_QUEUE_CAPACITY]
  /\ lastByte' = cv
  /\ pc' = "by"
  /\ ct' = 0 /\ cv' = 0
  /\ UNCHANGED <<shift, extended, eq, lastEvent>>

Next ==
  \/ \E sc \in Scancodes : HandleScancode(sc)
  \/ PopKeyEventLoad \/ PopKeyEventRead \/ PopKeyEventStore
  \/ PopByteLoad \/ PopByteRead \/ PopByteStore

Spec == Init /\ [][Next]_vars

----------------------------------------------------------------------------
(* What handle_scancode can push: the rows of the tables, encoded for the *)
(* event ring.                                                             *)
ByteItems == {Set1Ascii(c, sh) : c \in 0 .. 127, sh \in BOOLEAN} \ {NoAscii}
EventItems ==
  LET keys == {k \in (0 .. 127) \X BOOLEAN : Set1Event(k[1], k[2]) # NoCode}
  IN {EncodeKeyEvent([code |-> Set1Event(k[1], k[2]), pressed |-> p]) :
        k \in keys, p \in BOOLEAN}
NoEncoded == \h10000

(* Each ring as the InputFifo it stands for: its contents between tail and *)
(* head, its overflow counter, and what shell::poll took (an event in its  *)
(* u16 encoding, so a decode that loses information shows up).             *)
ByteQueue == INSTANCE InputFifo WITH
  Cap <- BYTE_QUEUE_CAPACITY - 1, Items <- ByteItems, NoItem <- NoAscii,
  q <- Contents(bq, BYTE_QUEUE_CAPACITY), dropped <- bq.overflow, out <- lastByte

EventQueue == INSTANCE InputFifo WITH
  Cap <- EVENT_QUEUE_CAPACITY - 1, Items <- EventItems, NoItem <- NoEncoded,
  q <- Contents(eq, EVENT_QUEUE_CAPACITY),
  dropped <- eq.overflow,
  out <- IF lastEvent = NoEvent THEN NoEncoded ELSE EncodeKeyEvent(lastEvent)

(* The byte ring, with IRQ1 interrupting pop_byte anywhere, is a FIFO of   *)
(* capacity - 1: shell::poll gets the pushed bytes in order, none twice,   *)
(* none lost except the pushes push_byte counts as overflow.               *)
ByteQueueFifo == ByteQueue!Spec

(* The same for the event ring, through encode_key_event and               *)
(* decode_key_event: the events shell::poll gets are the ones pushed.      *)
EventQueueFifo == EventQueue!Spec
====
