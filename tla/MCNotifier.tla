---------------------------- MODULE MCNotifier ----------------------------
(***************************************************************************)
(* Notifier on a small instance: one kind of event is wanted, one is not   *)
(* and a note never is, even when the filter takes everything.             *)
(***************************************************************************)
EXTENDS Notifier

MCKinds == {"modem_injoignable", "modulation"}
MCFilter == {"modem_injoignable", "note"}
==========================================================================
