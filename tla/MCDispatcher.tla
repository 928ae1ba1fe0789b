---------------------------- MODULE MCDispatcher ----------------------------
(* Small instances of the execution pipeline for TLC.                      *)
EXTENDS Dispatcher, TLC

SequenceSymmetry == Permutations(SequenceNumber)

\* Two keys of which one can be held; a command per kind of plan.
MCEffect ==
  [m \in Mutation |->
     CASE m = "DownA" -> [op |-> "Down", key |-> "a"]
       [] m = "UpA"   -> [op |-> "Up", key |-> "a"]
       [] m = "TapA"  -> [op |-> "Tap", key |-> "a"]
       [] m = "TapB"  -> [op |-> "Tap", key |-> "b"]
       [] m = "DownB" -> [op |-> "Down", key |-> "b"]
       [] m = "Move"  -> [op |-> "Move", key |-> "a"]
       [] OTHER       -> [op |-> "Wait", key |-> "a"]]
=============================================================================
