--------------------------- MODULE MCModemRestart ---------------------------
(* ModemRestart with two callers that ask at once over the driver of the     *)
(* collection loop.                                                          *)
EXTENDS ModemRestart
=============================================================================
