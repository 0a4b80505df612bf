--------------------------- MODULE DocumentArchive ---------------------------
(***************************************************************************)
(* What the version store promises its users, without requests, locks,     *)
(* sessions or files: each job has an archive of numbered documents that   *)
(* only grows and never gives one number to two documents; marking one as  *)
(* submitted freezes it for good and makes it the submitted one.           *)
(***************************************************************************)
EXTENDS Naturals

CONSTANTS Jobs, Documents

VARIABLES
    archive,    \* the archived documents: <<job, number, document>>
    final,      \* <<job, number>> marked as submitted
    sent        \* the submitted number of each job; 0 = none

avars == <<archive, final, sent>>

AInit == archive = {} /\ final = {} /\ sent = [j \in Jobs |-> 0]

Archived(j, n) == \E d \in Documents : <<j, n, d>> \in archive

(* entry = <<job, number, document>>, the number being new for the job.    *)
Append(entry) ==
    /\ entry \in Jobs \X Nat \X Documents
    /\ ~Archived(entry[1], entry[2])
    /\ archive' = archive \union {entry}
    /\ UNCHANGED <<final, sent>>

Submit(j, n) ==
    /\ Archived(j, n)
    /\ final' = final \union {<<j, n>>}
    /\ sent' = [sent EXCEPT ![j] = n]
    /\ UNCHANGED archive

ANext ==
    \/ \E entry \in archive' : Append(entry)
    \/ \E entry \in archive : Submit(entry[1], entry[2])

ASpec == AInit /\ [][ANext]_avars
=============================================================================
