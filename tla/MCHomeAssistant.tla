-------------------------- MODULE MCHomeAssistant --------------------------
(* Small instances of HomeAssistant. *)
EXTENDS HomeAssistant
=============================================================================
