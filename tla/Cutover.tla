------------------------------- MODULE Cutover -------------------------------
(***************************************************************************)
(* Putting the rebuilt owner database in the place of the damaged one      *)
(* (scripts/phase4_execute_cutover.py, promote_database_identity_marker.py),*)
(* undoing it (in the same script, phase4_rollback_cutover.py) and         *)
(* repairing the candidate's marker (phase4_repair_candidate_marker.py).   *)
(* Databases are renamed and a marker row is replaced, in steps that       *)
(* commit one by one; a script may die after each of them.                 *)
(***************************************************************************)
EXTENDS Naturals, Sequences

CONSTANT MaxRuns        \* bound on the scripts that are started

VARIABLES
    dbs,            \* name -> database
    script,         \* the script at work, or its report
    runs            \* scripts started, part of the names they choose

cutoverVars == <<dbs, script, runs>>

Live == <<"career_os", 0>>
Candidate == <<"owner_candidate", 0>>
Archive(n) == <<"rollback", n>>
Failed(n) == <<"failed_promotion", n>>

Marker(purpose, uuid) == [purpose |-> purpose, uuid |-> uuid]
NoMarker == Marker("none", "none")
OldOwner == Marker("OWNER", "old")
NewOwner == Marker("OWNER", "new")
CandidateMarker(uuid) == Marker("OWNER_CANDIDATE", uuid)

NoScript == [name |-> "none"]
Reported(outcome, before) ==
    [name |-> "reported", outcome |-> outcome, given |-> script.given,
     before |-> before]

CutoverInit ==
    /\ dbs = [n \in {Live, Candidate} |->
                IF n = Live
                THEN [data |-> "damaged", marker |-> OldOwner, guarded |-> TRUE]
                ELSE [data |-> "rebuilt", marker |-> CandidateMarker("candidate"),
                      guarded |-> TRUE]]
    /\ script = NoScript /\ runs = 0

(* The steps of the scripts: a rename, one of the four statements that     *)
(* replace the marker and its trigger, or a check.                         *)
Rename(from, to) == [kind |-> "rename", from |-> from, to |-> to]
Marking(name, marker) ==
    [i \in 1..4 |-> [kind |-> "mark", on |-> name, statement |-> i,
                     marker |-> marker]]
Check(marker) == [kind |-> "check", marker |-> marker]

Marked(db, step) ==
    CASE step.statement = 1 -> [db EXCEPT !.guarded = FALSE]
      [] step.statement = 2 -> [db EXCEPT !.marker = NoMarker]
      [] step.statement = 3 -> [db EXCEPT !.marker = step.marker]
      [] step.statement = 4 -> [db EXCEPT !.guarded = TRUE]

(* main, once the backups of both databases are made; promote_marker       *)
(* insists on the candidate's marker, and its result is checked.           *)
CutoverSteps(n, uuid) ==
    <<Rename(Live, Archive(n)), Rename(Candidate, Live),
      Check(CandidateMarker(uuid))>>
    \o Marking(Live, NewOwner) \o <<Check(NewOwner)>>

(* Mutant: the marker is repaired after the renames, on whatever is live.  *)
UndoMarkingLast(n, uuid) ==
    <<Rename(Live, Candidate), Rename(Archive(n), Live)>>
    \o Marking(Live, CandidateMarker(uuid))

(* What the inner handler does once the candidate was renamed.             *)
Undo(n, uuid) ==
    Marking(Live, CandidateMarker(uuid))
    \o <<Rename(Live, Candidate), Rename(Archive(n), Live)>>

RollbackSteps(n, archive) == <<Rename(Live, Failed(n)), Rename(archive, Live)>>
-----------------------------------------------------------------------------
Started(name, steps, uuid) ==
    /\ script.name \in {"none", "reported"} /\ runs < MaxRuns
    /\ runs' = runs + 1
    /\ script' = [name |-> name, left |-> steps, given |-> uuid, run |-> runs,
                  whole |-> TRUE, before |-> dbs]
    /\ UNCHANGED dbs

(* The backups fail unless both are there.  The UUID is typed in.          *)
StartCutover ==
    /\ {Live, Candidate} \subseteq DOMAIN dbs
    /\ \E uuid \in {"candidate", "mistyped"} :
         Started("cutover", CutoverSteps(runs, uuid), uuid)
StartRollback ==
    \E n \in 0..MaxRuns :
      Started("rollback", RollbackSteps(runs, Archive(n)), "candidate")
StartRepair ==
    /\ Candidate \in DOMAIN dbs
    /\ Started("repair", Marking(Candidate, CandidateMarker("candidate")),
               "candidate")

Proceeds(done) ==
    script' = IF Len(script.left) = 1
              THEN Reported(IF script.name # "undo" THEN "passed"
                            ELSE IF done /\ script.whole THEN "undone"
                            ELSE "broken", script.before)
              ELSE [script EXCEPT !.left = Tail(@), !.whole = @ /\ done]

(* A step failed.  Nothing is undone for the first one; only the archive   *)
(* is put back if the candidate was not renamed yet.                       *)
Raised ==
    LET undo(steps) == [script EXCEPT !.name = "undo", !.left = steps]
    IN script' =
         IF script.name = "cutover" /\ Archive(script.run) \in DOMAIN dbs
         THEN IF Candidate \in DOMAIN dbs
              THEN undo(<<Rename(Archive(script.run), Live)>>)
              ELSE undo(Undo(script.run, script.given))
         ELSE Reported(IF script.name = "cutover" THEN "undone" ELSE "broken",
                     script.before)

Now == Head(script.left)
At(kind) == script.name \in {"cutover", "undo", "rollback", "repair"}
            /\ Now.kind = kind

(* A rename fails if the name is taken or a client is connected again.     *)
(* The undo does not look at the outcome.                                  *)
RenameStep ==
    /\ At("rename")
    /\ UNCHANGED runs
    /\ \/ /\ Now.from \in DOMAIN dbs /\ Now.to \notin DOMAIN dbs
          /\ dbs' = [n \in (DOMAIN dbs \ {Now.from}) \union {Now.to} |->
                       IF n = Now.to THEN dbs[Now.from] ELSE dbs[n]]
          /\ Proceeds(TRUE)
       \/ UNCHANGED dbs /\ IF script.name = "undo" THEN Proceeds(FALSE) ELSE Raised

MarkStep ==
    /\ At("mark")
    /\ UNCHANGED runs
    /\ \/ /\ Now.on \in DOMAIN dbs
          /\ dbs' = [dbs EXCEPT ![Now.on] = Marked(@, Now)]
          /\ Proceeds(TRUE)
       \/ UNCHANGED dbs /\ Raised

CheckStep ==
    /\ At("check")
    /\ UNCHANGED <<dbs, runs>>
    /\ \/ dbs[Live].marker = Now.marker /\ Proceeds(TRUE)
       \/ Raised

Killed ==
    /\ script.name \notin {"none", "reported"}
    /\ script' = NoScript
    /\ UNCHANGED <<dbs, runs>>

CutoverNext ==
    \/ StartCutover \/ StartRollback \/ StartRepair
    \/ RenameStep \/ MarkStep \/ CheckStep \/ Killed
CutoverSpec == CutoverInit /\ [][CutoverNext]_cutoverVars
-----------------------------------------------------------------------------
Reports(outcome) == script.name = "reported" /\ script.outcome = outcome

(* A cutover that failed and could undo its steps leaves both databases    *)
(* under their names with the data and markers they had when it began, and *)
(* no marker unguarded that was guarded, wherever it failed                *)
(* (phase4_execute_cutover.py:208-232).  But a UUID that was mistyped,     *)
(* which the promotion refuses, the undo then writes.                      *)
Restored ==
    Reports("undone") =>
      LET was == script.before
      IN /\ DOMAIN dbs = DOMAIN was /\ dbs[Live] = was[Live]
         /\ was[Candidate].guarded => dbs[Candidate].guarded
         /\ dbs[Candidate].data = was[Candidate].data
         /\ was[Candidate].marker = CandidateMarker(script.given)
              => dbs[Candidate].marker = was[Candidate].marker

(* Whatever ran, failed or died: the damaged data keep the old owner's     *)
(* marker, under any name, and the old owner's identity opens no other     *)
(* data (promote_database_identity_marker.py:50-92).                       *)
MarkerTellsData ==
    \A n \in DOMAIN dbs :
      /\ dbs[n].data = "damaged" <=> dbs[n].marker = OldOwner
      /\ dbs[n].data = "damaged" => dbs[n].guarded

(* No sequence of cutovers, failures, undos, repairs and rollbacks makes   *)
(* one database pass for the other, and one that reports its undo complete *)
(* has put back what it found.                                             *)
FailedCutoverRestores == Restored /\ MarkerTellsData
=============================================================================
