--------------------------- MODULE DiscoveryPolicy ---------------------------
(***************************************************************************)
(* The owner's discovery policy: versions kept in PostgreSQL               *)
(* (services/discovery_policy_service.py) and the compiled override of the *)
(* active one held in a module variable of the API process                 *)
(* (services/discovery_policy.py), which previews borrow to evaluate a     *)
(* candidate.  Requests run in threads; a session keeps the attributes it  *)
(* loaded, and an UPDATE leaves out columns whose value is unchanged with  *)
(* respect to what was loaded.                                             *)
(***************************************************************************)
EXTENDS Naturals, FiniteSets

CONSTANTS
    Ids,            \* primary keys of discovery_policy_versions
    Overrides,      \* compiled owner overrides
    Default,        \* the empty override: file defaults only
    Requests, Kinds, Nobody,
    Workers         \* possible numbers of worker threads

AllKinds == {"draft", "activate", "restore", "preview"}

ASSUME PolicyAssumption ==
    /\ Default \in Overrides
    /\ Nobody \notin Requests
    /\ Kinds \subseteq AllKinds
    /\ Workers \subseteq Nat

VARIABLES
    status, number, override,   \* committed table, per id; "none" = no row
    memory,         \* _ACTIVE_OVERRIDE
    degraded,       \* startup could not read the table
    previewLock,    \* holder of _PREVIEW_LOCK
    workers,        \* worker threads, fixed when the process starts
    pc, kind,       \* how far each request has got, and what it is
    req             \* what its thread remembers: the row it drafts or activates
                    \* (target), the override it drafts or previews (wanted),
                    \* the version number it read (next), the status of the
                    \* target when loaded, the rows it has seen active, the
                    \* override to put back (previous) and the one under which
                    \* the candidate was evaluated (judged)

table == <<status, number, override>>
process == <<memory, degraded, previewLock>>
vars == <<table, process, workers, pc, kind, req>>

Statuses == {"none", "draft", "active", "archived"}
PCs == {"idle", "numbered", "activating", "loaded", "selected", "committed",
        "waiting", "locked", "swapped", "evaluated", "done"}
Nothing == "nothing"
NoRow == "no row"
Request == [target : Ids \union {NoRow}, wanted : Overrides, next : Nat,
            loaded : Statuses, seen : SUBSET Ids, previous : Overrides,
            judged : Overrides \union {Nothing}]

TypeOK ==
    /\ status \in [Ids -> Statuses]
    /\ number \in [Ids -> Nat]
    /\ override \in [Ids -> Overrides]
    /\ memory \in Overrides
    /\ degraded \in BOOLEAN
    /\ previewLock \in Requests \union {Nobody}
    /\ workers \in Workers
    /\ pc \in [Requests -> PCs]
    /\ kind \in [Requests -> AllKinds]
    /\ req \in [Requests -> Request]

NoRequest == [target |-> NoRow, wanted |-> Default, next |-> 0, loaded |-> "none",
              seen |-> {}, previous |-> Default, judged |-> Nothing]

Init ==
    /\ status = [i \in Ids |-> "none"]
    /\ number = [i \in Ids |-> 0]
    /\ override = [i \in Ids |-> Default]
    /\ memory = Default
    /\ degraded = FALSE
    /\ previewLock = Nobody
    /\ workers \in Workers
    /\ pc = [r \in Requests |-> "idle"]
    /\ kind = [r \in Requests |-> "draft"]
    /\ req = [r \in Requests |-> NoRequest]

Rows == {i \in Ids : status[i] # "none"}

(* Mutant: get_active_version does not filter on the status.               *)
AnyRow == Rows
Active == {i \in Ids : status[i] = "active"}
InFlight == {r \in Requests : pc[r] \notin {"idle", "done"}}
Goto(r, label) == pc' = [pc EXCEPT ![r] = label]
Answer(r) == Goto(r, "done") /\ req' = [req EXCEPT ![r] = NoRequest]

Arrive(r, kinds) ==
    /\ pc[r] = "idle"
    /\ Cardinality(InFlight) < workers
    /\ \E k \in kinds \intersect Kinds : kind' = [kind EXCEPT ![r] = k]

-----------------------------------------------------------------------------
(* create_draft, and the draft of restore_defaults.                        *)

NextVersionNumber ==
    IF Rows = {} THEN 1
    ELSE 1 + CHOOSE n \in {number[i] : i \in Rows} :
               \A i \in Rows : number[i] <= n

(* Bound: drafts are only asked for while the model has a row for them.    *)
RowLeft == Cardinality(Rows) + Cardinality({r \in Requests : pc[r] = "numbered"})
             < Cardinality(Ids)

ReadNumber(r) ==
    /\ RowLeft
    /\ Arrive(r, {"draft", "restore"})
    /\ \E o \in Overrides :
         /\ kind'[r] = "restore" => o = Default
         /\ req' = [req EXCEPT ![r].next = NextVersionNumber, ![r].wanted = o]
    /\ Goto(r, "numbered")
    /\ UNCHANGED <<table, process, workers>>

InsertDraft(r) ==
    /\ pc[r] = "numbered"
    /\ \E i \in Ids \ Rows :
         /\ status' = [status EXCEPT ![i] = "draft"]
         /\ number' = [number EXCEPT ![i] = req[r].next]
         /\ override' = [override EXCEPT ![i] = req[r].wanted]
         /\ IF kind[r] = "restore"
            THEN Goto(r, "activating") /\ req' = [req EXCEPT ![r].target = i]
            ELSE Answer(r)
    /\ UNCHANGED <<process, workers, kind>>

-----------------------------------------------------------------------------
(* activate_version: load the target, read the active rows, archive them   *)
(* and activate the target, commit, then publish the override in memory.   *)

BeginActivate(r) ==
    /\ Arrive(r, {"activate"})
    /\ \E i \in Rows : req' = [req EXCEPT ![r].target = i]
    /\ Goto(r, "activating")
    /\ UNCHANGED <<table, process, workers>>

LoadTarget(r) ==
    /\ pc[r] = "activating"
    /\ req' = [req EXCEPT ![r].loaded = status[req[r].target]]
    /\ Goto(r, "loaded")
    /\ UNCHANGED <<table, process, workers, kind>>

SelectActive(r) ==
    /\ pc[r] = "loaded"
    /\ req' = [req EXCEPT ![r].seen = Active]
    /\ Goto(r, "selected")
    /\ UNCHANGED <<table, process, workers, kind>>

(* Mutant: the versions found active are not archived.                     *)
StatusUnarchived(r, i) == IF i = req[r].target THEN "active" ELSE status[i]

(* A target loaded as active goes archived -> active in the session: its   *)
(* status is then unchanged and not written.                               *)
StatusAfter(r, i) ==
    CASE i = req[r].target /\ req[r].loaded # "active" -> "active"
      [] i \in req[r].seen \ {req[r].target} -> "archived"
      [] OTHER -> status[i]

CommitActivation(r) ==
    /\ pc[r] = "selected"
    /\ status' = [i \in Ids |-> StatusAfter(r, i)]
    /\ Goto(r, "committed")
    /\ UNCHANGED <<number, override, process, workers, kind, req>>

(* Mutant: a draft's override is published, which only restore has at      *)
(* hand.                                                                   *)
PublishedDraft(r) == req[r].wanted

Published(r) == override[req[r].target]

SetActiveOverride(r) ==
    /\ pc[r] = "committed"
    /\ memory' = Published(r)
    /\ degraded' = FALSE
    /\ Answer(r)
    /\ UNCHANGED <<table, previewLock, workers, kind>>

-----------------------------------------------------------------------------
(* preview_policy.  The import binds the current override before the lock  *)
(* is taken; that binding is what is put back.                             *)

BeginPreview(r) ==
    /\ Arrive(r, {"preview"})
    /\ \E o \in Overrides :
         req' = [req EXCEPT ![r].wanted = o, ![r].previous = memory]
    /\ Goto(r, "waiting")
    /\ UNCHANGED <<table, process, workers>>

(* Mutant: previews do not exclude each other.                             *)
NoPreviewLock == TRUE

PreviewLockFree == previewLock = Nobody

TakePreviewLock(r) ==
    /\ pc[r] = "waiting"
    /\ PreviewLockFree
    /\ previewLock' = r
    /\ Goto(r, "locked")
    /\ UNCHANGED <<table, memory, degraded, workers, kind, req>>

SwapIn(r) ==
    /\ pc[r] = "locked"
    /\ memory' = req[r].wanted
    /\ Goto(r, "swapped")
    /\ UNCHANGED <<table, degraded, previewLock, workers, kind, req>>

EvaluateCandidate(r) ==
    /\ pc[r] = "swapped"
    /\ req' = [req EXCEPT ![r].judged = memory]
    /\ Goto(r, "evaluated")
    /\ UNCHANGED <<table, process, workers, kind>>

(* Mutant: a preview that raises keeps the lock.                           *)
PutBackOnSuccess(r) ==
    /\ pc[r] \in {"locked", "swapped", "evaluated"}
    /\ memory' = req[r].previous
    /\ previewLock' = IF pc[r] = "evaluated" THEN Nobody ELSE previewLock
    /\ Answer(r)
    /\ UNCHANGED <<table, degraded, workers, kind>>

(* The finally clause; an evaluation that raises reaches it early.         *)
PutBack(r) ==
    /\ pc[r] \in {"locked", "swapped", "evaluated"}
    /\ memory' = req[r].previous
    /\ previewLock' = Nobody
    /\ Answer(r)
    /\ UNCHANGED <<table, degraded, workers, kind>>

-----------------------------------------------------------------------------
(* The process dies and starts again: refresh_active_override loads the    *)
(* first active row; any error there leaves the file defaults.             *)
Restart ==
    /\ pc' = [r \in Requests |-> IF r \in InFlight THEN "done" ELSE pc[r]]
    /\ req' = [r \in Requests |-> NoRequest]
    /\ previewLock' = Nobody
    /\ \/ /\ IF Active = {} THEN memory' = Default
                            ELSE \E i \in Active : memory' = override[i]
          /\ degraded' = FALSE
       \/ memory' = Default /\ degraded' = TRUE
    /\ UNCHANGED <<table, workers, kind>>

Draft(r) == ReadNumber(r) \/ InsertDraft(r)
Activate(r) == BeginActivate(r) \/ LoadTarget(r) \/ SelectActive(r)
                 \/ CommitActivation(r) \/ SetActiveOverride(r)
Preview(r) == BeginPreview(r) \/ TakePreviewLock(r) \/ SwapIn(r)
                 \/ EvaluateCandidate(r) \/ PutBack(r)

Next == Restart \/ \E r \in Requests : Draft(r) \/ Activate(r) \/ Preview(r)

Spec == Init /\ [][Next]_vars

(* A served request is scheduled until it answers.                         *)
Advance(r) == pc[r] # "idle" /\ (Draft(r) \/ Activate(r) \/ Preview(r))
FairSpec == Spec /\ \A r \in Requests : WF_vars(Advance(r))

-----------------------------------------------------------------------------
(* test_second_activation_archives_previous_single_active: at most one row *)
(* is active.                                                              *)
SingleActive == Cardinality(Active) <= 1

(* One request at a time, and even if the process dies between the commit  *)
(* and the publication: the override in memory, which the hot path uses    *)
(* instead of the database, is the active version's once no request runs   *)
(* (WORKFLOW-01-5, section 6), and version numbers are never reused.       *)
ConsistentWhenSerial ==
    workers = 1 =>
      /\ \A i, j \in Rows : number[i] = number[j] => i = j
      /\ InFlight = {} /\ ~degraded =>
           IF Active = {} THEN memory = Default
           ELSE \E i \in Active : memory = override[i]

(* One request at a time, once a version is active every later step leaves *)
(* exactly one active: activation replaces it, and nothing leaves the      *)
(* owner without a policy.                                                 *)
OnePolicyWhenSerial ==
    [][workers = 1 /\ Active # {} => Cardinality(Active') = 1]_vars

Served(k) == {r \in Requests : pc[r] # "idle" /\ kind[r] = k}

(* As long as no preview has been served, and whatever drafts, activations *)
(* and restarts race, the override in use belongs to a version that has    *)
(* been activated, never to a mere draft.                                  *)
OnlyActivatedInUse ==
    Served("preview") = {} /\ memory # Default =>
      \E i \in Ids : status[i] \in {"active", "archived"} /\ override[i] = memory

(* The purpose of the lock: racing previews never evaluate each other's    *)
(* candidate (an activation in between can still replace it).              *)
PreviewJudgesItsCandidate ==
    Served("activate") \union Served("restore") = {} =>
      \A r \in Requests : req[r].judged \in {Nothing, req[r].wanted}

(* test_preview_returns_counts_and_delta_without_persisting_override: when *)
(* nothing has been activated, previews leave no override active.          *)
PreviewLeavesNoTrace ==
    InFlight = {} /\ Rows = {} => memory = Default

(* Every request that has begun is answered: the preview lock is always    *)
(* given back.                                                             *)
EveryRequestEnds == \A r \in Requests : (r \in InFlight) ~> (pc[r] = "done")
=============================================================================
