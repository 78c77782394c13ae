------------------------------- MODULE MCFuse -------------------------------
(***************************************************************************)
(* The instance of SfsFuse for TLC.                                        *)
(***************************************************************************)
EXTENDS SfsFuse

NoLeftOver == {}
OneWord == {<<7>>}
==============================================================================
