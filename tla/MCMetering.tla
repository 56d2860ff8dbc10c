----------------------------- MODULE MCMetering -----------------------------
(***************************************************************************)
(* Instances of Metering for TLC.                                          *)
(***************************************************************************)
EXTENDS Metering

(* One job at a time has a row in system_jobs. *)
EachJob == {{"close"}, {"purge"}}

=============================================================================
