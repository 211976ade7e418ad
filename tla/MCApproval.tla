------------------------------ MODULE MCApproval ------------------------------
(***************************************************************************)
(* A small instance of Approval: two sources that share a state file, two  *)
(* pairs, two commands.                                                    *)
(***************************************************************************)
EXTENDS Approval

CONSTANTS a, b

\* "Feed 1" and "Feed?1" sanitise to the same name.
SharedFile == [s \in Sources |-> "source--Feed_1.json"]
\* One pair, twins, both.
SomeBatches == {<<a>>, <<b, b>>, <<b, a>>}
===============================================================================
