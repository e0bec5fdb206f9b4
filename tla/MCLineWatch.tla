--------------------------- MODULE MCLineWatch ---------------------------
(***************************************************************************)
(* LineWatch on small instances.  The delays keep the order they have in   *)
(* the code (burst interval, restart window and restart guard below the    *)
(* interval, follow-up longest), scaled down to a few ticks.               *)
(***************************************************************************)
EXTENDS LineWatch

(* A tolerated channel counts as good, so the two levels the journal tells *)
(* apart are there, and a level the journal changes.                       *)
MCLevels == {Tolerated, Critical}

(* With nothing judged, only requests and restarts write events. *)
MCUnjudged == {Unknown}
MCUncalibrated == {FALSE}
MCCalibrated == {TRUE}
==========================================================================
