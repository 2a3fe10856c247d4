---------------------------- MODULE MCEngineRun ----------------------------
(* Instances of EngineRun. *)
EXTENDS EngineRun

Both == [v4 |-> TRUE, v6 |-> TRUE, pcscf4 |-> 1, pcscf6 |-> 0]
OnlyFour == [v4 |-> TRUE, v6 |-> FALSE, pcscf4 |-> 1, pcscf6 |-> 0]

\* An assignment that fits the configured stack and one that does not.
MCAssigned == {Both, OnlyFour}
MCPaths == {[stack |-> "auto", override |-> 6], [stack |-> "auto", override |-> 0]}
=============================================================================
