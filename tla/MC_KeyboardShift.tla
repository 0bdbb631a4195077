-------------------------- MODULE MC_KeyboardShift --------------------------
EXTENDS KeyboardShift

(* Every byte the keyboard of KeyboardShift can put on the wire. *)
MCScancodes == {\hE0, \h2A, \hAA, \h36, \hB6, \h1E, \h9E, \h4B, \hCB}
=============================================================================
