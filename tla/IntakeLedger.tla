---------------------------- MODULE IntakeLedger ----------------------------
(***************************************************************************)
(* What intake promises, without sessions, threads, rows or boards: a      *)
(* posting is stored and decided once, a message is settled once and only  *)
(* after what it announces is stored, only settled messages are left out   *)
(* of later fetches, and no review is accepted before its position is      *)
(* stored.  None of this is ever undone.                                   *)
(***************************************************************************)
CONSTANTS
    Postings, Decisions,
    Position,       \* posting -> the position it is for
    Messages,
    Announced,      \* message -> postings it announces
    Correction      \* message -> posting the owner makes of its review

VARIABLES
    decided,        \* posting -> what was decided of it, or "none"
    settled,        \* messages that have been read
    dropped,        \* messages that no fetch will look at again
    accepted        \* messages with a review that has become a job

lvars == <<decided, settled, dropped, accepted>>

LInit ==
    /\ decided = [p \in Postings |-> "none"]
    /\ settled = {} /\ dropped = {} /\ accepted = {}

IsStored(p) == \E q \in Postings : decided[q] # "none" /\ Position[q] = Position[p]

Store(p, decision) ==
    /\ decided[p] = "none"
    /\ decided' = [decided EXCEPT ![p] = decision]
    /\ UNCHANGED <<settled, dropped, accepted>>

(* With its reading a message may at once be one to leave out.             *)
Settle(m) ==
    /\ m \notin settled
    /\ \A p \in Announced[m] : IsStored(p)
    /\ settled' = settled \union {m}
    /\ dropped' \in {dropped, dropped \union {m}}
    /\ UNCHANGED <<decided, accepted>>

Drop(m) ==
    /\ m \in settled
    /\ dropped' = dropped \union {m}
    /\ UNCHANGED <<decided, settled, accepted>>

Accept(m) ==
    /\ IsStored(Correction[m])
    /\ accepted' = accepted \union {m}
    /\ UNCHANGED <<decided, settled, dropped>>

LNext ==
    \/ \E p \in Postings, decision \in Decisions : Store(p, decision)
    \/ \E m \in Messages : Settle(m) \/ Drop(m) \/ Accept(m)

LSpec == LInit /\ [][LNext]_lvars
=============================================================================
