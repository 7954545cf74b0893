----------------------------- MODULE MCObserver -----------------------------
(* Instances of Observer for TLC.                                          *)
EXTENDS Observer

AllUses == Usages
OnlyIterate == {"iterate", "close"}
=============================================================================
