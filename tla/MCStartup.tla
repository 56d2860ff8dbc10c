----------------------------- MODULE MCStartup ------------------------------
(***************************************************************************)
(* Instances of Startup for TLC.                                           *)
(***************************************************************************)
EXTENDS Startup

TwoFiles == <<"001", "002">>
NoExamples == <<>>
OneExample == <<"invoice-chaser">>

=============================================================================
