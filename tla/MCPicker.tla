------------------------------ MODULE MCPicker ------------------------------
(***************************************************************************)
(* Instances of Picker for TLC.                                            *)
(***************************************************************************)
EXTENDS Picker

CONSTANTS personal, work, entry

MCVaults   == {personal, work}
MCContents == [v \in MCVaults |-> {entry}]
=============================================================================
