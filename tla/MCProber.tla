----------------------------- MODULE MCProber -----------------------------
(***************************************************************************)
(* Prober on a small instance: three misses are an outage, two micro-cuts  *)
(* a burst, and a sample lasts two attempts.                               *)
(***************************************************************************)
EXTENDS Prober

(* Every write may be refused but the closing of a row. *)
MCWrites == Writes \ {"close", "resume"}

(* No write is refused. *)
MCNone == {}

(* The closing of a row is. *)
MCClose == {"close"}
===========================================================================
