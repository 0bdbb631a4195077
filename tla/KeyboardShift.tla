---------------------------- MODULE KeyboardShift ----------------------------
(***************************************************************************)
(* The keyboard driver of Keyboard.tla fed by a PS/2 keyboard in scancode  *)
(* set 1.  The keyboard (not code of this repository) turns key presses    *)
(* and releases into byte sequences on the wire, one byte per IRQ1:        *)
(*   - left shift 2A / AA, right shift 36 / B6, 'a' 1E / 9E;               *)
(*   - the cursor key left is E0 4B / E0 CB, wrapped in "fake shifts":     *)
(*     with a shift key held, its make is preceded by a fake release of    *)
(*     each held shift (E0 AA, E0 B6) and its break followed by a fake     *)
(*     press (E0 2A, E0 36); with NumLock on and no shift held, the make   *)
(*     is preceded by E0 2A and the break followed by E0 AA.               *)
(* handle_scancode decides SHIFT_PRESSED from these bytes alone.          *)
(***************************************************************************)
EXTENDS Keyboard

CONSTANTS
  Keys,     \* the physical keys under test, from {"LShift", "RShift", "A", "Left"}
  NumLock   \* the keyboard's NumLock state

ShiftKeys == {"LShift", "RShift"}
FakeMake == [LShift |-> \h2A, RShift |-> \h36]
FakeBreak == [LShift |-> \hAA, RShift |-> \hB6]

VARIABLES
  held,  \* the physical keys held down
  wire   \* the bytes the keyboard has yet to deliver, one per IRQ1

kvars == <<vars, held, wire>>

(* The fake shifts around the cursor key, one E0-prefixed code per shift *)
(* key held.                                                              *)
Fakes(codes, hs) ==
  (IF "LShift" \in hs THEN <<\hE0, codes.LShift>> ELSE <<>>)
  \o (IF "RShift" \in hs THEN <<\hE0, codes.RShift>> ELSE <<>>)

MakeBytes(k, hs) ==
  CASE k = "LShift" -> <<\h2A>>
    [] k = "RShift" -> <<\h36>>
    [] k = "A" -> <<\h1E>>
    [] k = "Left" ->
         IF hs \cap ShiftKeys # {}
         THEN Fakes(FakeBreak, hs) \o <<\hE0, \h4B>>
         ELSE IF NumLock THEN <<\hE0, \h2A, \hE0, \h4B>> ELSE <<\hE0, \h4B>>

BreakBytes(k, hs) ==
  CASE k = "LShift" -> <<\hAA>>
    [] k = "RShift" -> <<\hB6>>
    [] k = "A" -> <<\h9E>>
    [] k = "Left" ->
         IF hs \cap ShiftKeys # {}
         THEN <<\hE0, \hCB>> \o Fakes(FakeMake, hs)
         ELSE IF NumLock THEN <<\hE0, \hCB, \hE0, \hAA>> ELSE <<\hE0, \hCB>>

KTypeOK ==
  /\ TypeOK
  /\ held \subseteq Keys
  /\ wire \in Seq({\hE0, \h2A, \hAA, \h36, \hB6, \h1E, \h9E, \h4B, \hCB})

KInit == Init /\ held = {} /\ wire = <<>>

(* The user presses or releases a key once the previous one is on the     *)
(* wire; the keyboard queues its bytes.                                    *)
Press(k) ==
  /\ wire = <<>> /\ k \notin held
  /\ held' = held \cup {k}
  /\ wire' = MakeBytes(k, held)
  /\ UNCHANGED vars

Release(k) ==
  /\ wire = <<>> /\ k \in held
  /\ held' = held \ {k}
  /\ wire' = BreakBytes(k, held')
  /\ UNCHANGED vars

(* IRQ1: the next byte reaches handle_scancode. *)
Irq ==
  /\ wire # <<>>
  /\ HandleScancode(Head(wire))
  /\ wire' = Tail(wire)
  /\ UNCHANGED held

KNext ==
  \/ \E k \in Keys : Press(k) \/ Release(k)
  \/ Irq
  \/ ((PopKeyEventLoad \/ PopKeyEventRead \/ PopKeyEventStore
       \/ PopByteLoad \/ PopByteRead \/ PopByteStore) /\ UNCHANGED <<held, wire>>)

KSpec == KInit /\ [][KNext]_kvars

(* Once the wire is idle, SHIFT_PRESSED, which map_set1_scancode uses to   *)
(* choose the case of a letter, says whether a shift key is held.          *)
ShiftMatchesKeys ==
  wire = <<>> => (shift <=> held \cap ShiftKeys # {})
=============================================================================
