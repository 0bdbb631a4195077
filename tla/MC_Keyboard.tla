---------------------------- MODULE MC_Keyboard ----------------------------
EXTENDS Keyboard

(* E0 prefix; left shift make/break; 'a' make/break.                        *)
MCScancodes == {\hE0, \h2A, \hAA, \h1E, \h9E}
(* What handle_scancode can push for those scancodes: the InputFifo       *)
(* alphabets of the two refinement checks.  Over the full tables every    *)
(* step would be tested against some 200 Offers.                          *)
MCEventItems ==
  LET codes == {Set1Event(sc % \h80, e) : sc \in Scancodes, e \in BOOLEAN}
  IN {EncodeKeyEvent([code |-> c, pressed |-> p]) :
        c \in codes \ {NoCode}, p \in BOOLEAN}
MCByteItems ==
  {Set1Ascii(sc % \h80, sh) : sc \in Scancodes, sh \in BOOLEAN} \ {NoAscii}
=============================================================================
