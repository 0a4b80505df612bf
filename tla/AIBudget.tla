------------------------------ MODULE AIBudget ------------------------------
(***************************************************************************)
(* The monthly cap on AI spending (services/ai_budget.py): an operation    *)
(* asks before its work (enforce_budget) and records the cost after it     *)
(* (record_usage), in another commit.  Speech (services/tts.py) records    *)
(* without asking, and is charged only for texts it has no file of.        *)
(***************************************************************************)
EXTENDS Integers, FiniteSets

CONSTANTS
    Workers,        \* requests that may be at work at once
    Costs,          \* estimated costs of the operations
    HardCap, SpeechCost,
    Texts           \* texts to be spoken

ASSUME CostAssumption ==
    Costs \subseteq Nat /\ {HardCap, SpeechCost} \subseteq Nat
ASSUME WorkersAssumption == IsFiniteSet(Workers) /\ Workers # {}

VARIABLES
    spend,          \* usage recorded this month
    speech,         \* the part of it nobody asked for
    working,        \* worker -> cost of the work that was allowed, or -1
    spoken          \* texts whose audio file exists

budgetVars == <<spend, speech, working, spoken>>

BudgetInit == /\ spend = 0 /\ speech = 0 /\ spoken = {}
              /\ working = [w \in Workers |-> -1]

(* Mutant: the cap is compared with what has been spent so far.            *)
AllowedSoFar(cost) == spend <= HardCap
Allowed(cost) == spend + cost <= HardCap

(* enforce_budget at the start of an operation.                            *)
EnforceBudget(w) ==
    /\ working[w] = -1
    /\ \E cost \in Costs : Allowed(cost) /\ working' = [working EXCEPT ![w] = cost]
    /\ UNCHANGED <<spend, speech, spoken>>

(* Operations that fail record nothing.                                    *)
Fail(w) ==
    /\ working[w] # -1
    /\ working' = [working EXCEPT ![w] = -1]
    /\ UNCHANGED <<spend, speech, spoken>>

RecordUsage(w) ==
    /\ working[w] # -1
    /\ spend' = spend + working[w]
    /\ working' = [working EXCEPT ![w] = -1]
    /\ UNCHANGED <<speech, spoken>>

Synthesize ==
    /\ \E text \in Texts \ spoken : spoken' = spoken \union {text}
    /\ spend' = spend + SpeechCost /\ speech' = speech + SpeechCost
    /\ UNCHANGED working

NewMonth ==
    /\ spend' = 0 /\ speech' = 0
    /\ UNCHANGED <<working, spoken>>

BudgetNext ==
    \/ \E w \in Workers : EnforceBudget(w) \/ Fail(w) \/ RecordUsage(w)
    \/ Synthesize \/ NewMonth

BudgetSpec == BudgetInit /\ [][BudgetNext]_budgetVars
-----------------------------------------------------------------------------
(* What was asked for stays under the cap but for the requests that were   *)
(* at work at once: each of them but one may go beyond it, also when their *)
(* cost is recorded in the next month (ai_budget.py:30-63).                *)
SpendNearCap ==
    \A most \in Costs :
      (\A c \in Costs : c <= most) =>
        spend - speech <= HardCap + (Cardinality(Workers) - 1) * most
=============================================================================
