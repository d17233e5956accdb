--------------------------- MODULE MCTransmission ---------------------------
(* Two slots, one page that is accepted and one that is not; frames of one *)
(* FIFO load and of several, with and without room for the EMR preamble.   *)
EXTENDS Transmission
CONSTANTS p1, bad
MCPages == {p1, bad}
MCInvalidPages == {bad}
MCAllCommands == {"AT", "SEND", "MSG", "ABORT", "RADIO"}
=============================================================================
