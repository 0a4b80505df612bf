------------------------------- MODULE Inputs -------------------------------
(***************************************************************************)
(* Modules of pure decisions share this frame: a behaviour gives one       *)
(* decision one input, and the laws of that decision are invariants.  A    *)
(* pure module names its operators for the functions they translate and    *)
(* ends with its inputs and its laws; MCPlatform puts them together.       *)
(***************************************************************************)
EXTENDS Naturals, FiniteSets, Sequences

VARIABLE input          \* <<decision, what it is asked>>

NoTime == 1000          \* a timestamp that is missing
NoInput == <<"none", 0>>
Given(decision, asked) == input = NoInput /\ input' = <<decision, asked>>
Is(decision) == input[1] = decision
Asked == input[2]
=============================================================================
