------------------------ MODULE DiscoveryPolicyProofs ------------------------
(***************************************************************************)
(* Proofs about DiscoveryPolicy for every set of rows, overrides and       *)
(* requests, and every number of worker threads.                           *)
(***************************************************************************)
EXTENDS DiscoveryPolicy, FiniteSetTheorems, TLAPS

(* The numbers of the rows have a greatest one, which the next draft reads *)
(* and exceeds.                                                            *)
Numbered ==
    Rows # {} => \E m \in Rows : \A i \in Rows : number[i] <= number[m]

(* What each state of a request implies about its kind and its target.     *)
Activating == {"activating", "loaded", "selected", "committed"}
Borrowing == {"locked", "swapped", "evaluated"}
Previewing == Borrowing \union {"waiting"}
Activated(i) == status[i] \in {"active", "archived"}

Session(r) ==
    LET s == req[r] IN
    /\ pc[r] \in Activating =>
         /\ kind[r] \in {"activate", "restore"}
         /\ s.target \in Rows
    /\ pc[r] \in Previewing => kind[r] = "preview"
    /\ pc[r] \in {"loaded", "selected"} /\ s.loaded = "active" => Activated(s.target)
    /\ pc[r] = "selected" => \A i \in s.seen : Activated(i)
    /\ pc[r] = "committed" => Activated(s.target)
    /\ pc[r] # "evaluated" => s.judged = Nothing

(* Whoever has borrowed the override in memory holds the lock.             *)
LockHeld == \A r \in Requests : pc[r] \in Borrowing => previewLock = r

(* While nobody activates anything, the override in memory is the          *)
(* candidate of the preview that has put it there.                         *)
CandidateInMemory ==
    Served("activate") \union Served("restore") = {} =>
      \A r \in Requests : pc[r] = "swapped" => memory = req[r].wanted

IInv ==
    /\ TypeOK
    /\ Numbered
    /\ \A r \in Requests : Session(r)
    /\ LockHeld
    /\ CandidateInMemory
    /\ OnlyActivatedInUse
    /\ PreviewJudgesItsCandidate

(* One request at a time.                                                  *)
OneAtATime == \A r, q \in InFlight : r = q

(* The override o is what the table says.                                  *)
Matches(o) ==
    IF Active = {} THEN o = Default ELSE \E i \in Active : o = override[i]

(* Version numbers are not reused, and at most one version is active.      *)
Distinct == \A i, j \in Rows : number[i] = number[j] => i = j
OneActive == \A i, j \in Active : i = j

(* What a request has read of the table is still so.                       *)
StillSo(r) ==
    /\ pc[r] = "numbered" => \A i \in Rows : number[i] < req[r].next
    /\ pc[r] \in {"loaded", "selected"} => req[r].loaded = status[req[r].target]
    /\ pc[r] = "selected" => req[r].seen = Active
    /\ pc[r] = "committed" => Active = {req[r].target}

(* The override in memory is the table's, but for a request that is about  *)
(* to publish it or to put it back.                                        *)
Borrowed == \E r \in Requests : pc[r] \in {"committed", "swapped", "evaluated"}
UpToDate ==
    ~degraded =>
      /\ Borrowed \/ Matches(memory)
      /\ \A r \in Requests : pc[r] \in Previewing => Matches(req[r].previous)

SerialInv ==
    /\ IInv
    /\ workers = 1 =>
         OneAtATime /\ Distinct /\ OneActive /\ UpToDate /\ \A r \in Requests : StillSo(r)

-----------------------------------------------------------------------------
(* The table only grows: a version keeps its override, and one that has    *)
(* been activated stays activated or archived.                             *)

LEMMA NoRequestType == NoRequest \in Request
  BY PolicyAssumption DEF NoRequest, Request, Statuses

(* The version number that a draft reads exceeds those of all the rows.    *)
LEMMA NextVersionExceeds ==
    ASSUME TypeOK, Numbered
    PROVE  NextVersionNumber \in Nat /\ \A i \in Rows : number[i] < NextVersionNumber
  <1>1. CASE Rows = {}
    BY <1>1 DEF NextVersionNumber
  <1>2. CASE Rows # {}
    <2> DEFINE Greatest(n) == \A i \in Rows : number[i] <= n
               numbers == {number[i] : i \in Rows}
    <2>1. \E n \in numbers : Greatest(n)
      BY <1>2 DEF Numbered
    <2>2. numbers \subseteq Nat
      BY DEF TypeOK, Rows
    <2> HIDE DEF numbers, Greatest
    <2>3. (CHOOSE n \in numbers : Greatest(n)) \in numbers
          /\ Greatest(CHOOSE n \in numbers : Greatest(n))
      BY <2>1
    <2>4. NextVersionNumber = 1 + CHOOSE n \in numbers : Greatest(n)
      BY <1>2 DEF NextVersionNumber, numbers, Greatest
    <2> DEFINE top == CHOOSE n \in numbers : Greatest(n)
    <2>5. top \in Nat /\ Greatest(top) /\ NextVersionNumber = 1 + top
      BY <2>2, <2>3, <2>4
    <2>6. \A i \in Rows : number[i] \in Nat
      BY DEF TypeOK, Rows
    <2> HIDE DEF top
    <2> QED
      BY <2>5, <2>6 DEF Greatest
  <1> QED
    BY <1>1, <1>2

(* A request that is served, in whatever role.                             *)
Serve(r) == Draft(r) \/ Activate(r) \/ Preview(r)

LEMMA ServeTypeOK ==
    ASSUME IInv, NEW r \in Requests, Serve(r)
    PROVE  TypeOK'
  <1> TypeOK /\ Session(r)
    BY DEF IInv
  <1>0. req[r] \in Request
    BY DEF TypeOK
  <1>1. CASE ReadNumber(r)
    <2>1. PICK o \in Overrides :
            req' = [req EXCEPT ![r].next = NextVersionNumber, ![r].wanted = o]
      BY <1>1 DEF ReadNumber
    <2>2. req' \in [Requests -> Request]
      BY <1>0, <2>1, NextVersionExceeds DEF IInv, TypeOK, Request
    <2> QED
      BY <1>1, <2>2 DEF ReadNumber, Arrive, Goto, TypeOK, PCs, AllKinds, table, process
  <1>2. CASE InsertDraft(r)
    BY <1>0, <1>2, NoRequestType, SMTT(30)
       DEF InsertDraft, Answer, Goto, TypeOK, Request, PCs, Statuses, process
  <1>3. CASE BeginActivate(r)
    BY <1>0, <1>3 DEF BeginActivate, Arrive, Goto, Rows, TypeOK, Request, PCs, AllKinds,
                      table, process
  <1>4. CASE LoadTarget(r)
    BY <1>0, <1>4 DEF LoadTarget, Goto, Session, Activating, Rows, TypeOK, Request, PCs,
                      table, process
  <1>5. CASE SelectActive(r)
    BY <1>0, <1>5 DEF SelectActive, Active, Goto, TypeOK, Request, PCs, table, process
  <1>6. CASE CommitActivation(r)
    BY <1>6 DEF CommitActivation, StatusAfter, Goto, TypeOK, Statuses, PCs, process
  <1>7. CASE SetActiveOverride(r)
    BY <1>0, <1>7, NoRequestType
       DEF SetActiveOverride, Published, Answer, Goto, Session, Activating, Rows, TypeOK,
           PCs, table
  <1>8. CASE BeginPreview(r)
    <2>1. PICK k \in {"preview"} : kind' = [kind EXCEPT ![r] = k]
      BY <1>8 DEF BeginPreview, Arrive
    <2>2. req' \in [Requests -> Request]
      <3>1. PICK o \in Overrides : req' = [req EXCEPT ![r].wanted = o, ![r].previous = memory]
        BY <1>8 DEF BeginPreview
      <3> QED
        BY <1>0, <3>1 DEF TypeOK, Request
    <2> QED
      BY <1>8, <2>1, <2>2 DEF BeginPreview, Goto, TypeOK, PCs, AllKinds, table, process
  <1>9. CASE TakePreviewLock(r) \/ SwapIn(r)
    BY <1>0, <1>9 DEF TakePreviewLock, SwapIn, Goto, TypeOK, Request, PCs, table
  <1>10. CASE EvaluateCandidate(r)
    BY <1>0, <1>10 DEF EvaluateCandidate, Goto, TypeOK, Request, PCs, table, process
  <1>11. CASE PutBack(r)
    BY <1>0, <1>11, NoRequestType DEF PutBack, Answer, Goto, TypeOK, Request, PCs, table
  <1> QED
    BY <1>1, <1>2, <1>3, <1>4, <1>5, <1>6, <1>7, <1>8, <1>9, <1>10, <1>11
       DEF Serve, Draft, Activate, Preview

LEMMA RestartTypeOK ==
    ASSUME TypeOK, Restart
    PROVE  TypeOK'
  <1>1. memory' \in Overrides
    <2>1. memory' = Default \/ \E i \in Ids : memory' = override[i]
      BY DEF Restart, Active
    <2> QED
      BY <2>1, PolicyAssumption DEF TypeOK
  <1>2. req' \in [Requests -> Request]
    BY NoRequestType DEF Restart
  <1>3. pc' \in [Requests -> PCs]
    <2>1. \A r \in Requests : (IF r \in InFlight THEN "done" ELSE pc[r]) \in PCs
      BY DEF TypeOK, PCs
    <2> QED
      BY <2>1 DEF Restart
  <1> QED
    BY <1>1, <1>2, <1>3 DEF Restart, TypeOK, table

(* A step of a request leaves the others alone.                            *)
OthersUntouched(r) ==
    \A q \in Requests \ {r} : pc'[q] = pc[q] /\ req'[q] = req[q] /\ kind'[q] = kind[q]

LEMMA ServeTouchesOnlyItself ==
    ASSUME TypeOK, NEW r \in Requests, Serve(r)
    PROVE  OthersUntouched(r)
  BY DEF TypeOK, OthersUntouched, Serve, Draft, Activate, Preview, ReadNumber, InsertDraft,
         BeginActivate, LoadTarget, SelectActive, CommitActivation, SetActiveOverride,
         BeginPreview, TakePreviewLock, SwapIn, EvaluateCandidate, PutBack, Arrive, Goto,
         Answer

(* Only an insertion and an activation write the table.                    *)
LEMMA OthersKeepTable ==
    ASSUME NEW r \in Requests, Serve(r)
    PROVE  InsertDraft(r) \/ CommitActivation(r) \/ UNCHANGED table
  BY DEF Serve, Draft, Activate, Preview, ReadNumber, BeginActivate, LoadTarget,
         SelectActive, SetActiveOverride, BeginPreview, TakePreviewLock, SwapIn,
         EvaluateCandidate, PutBack

LEMMA ActivationKeepsRows ==
    ASSUME IInv, NEW r \in Requests, CommitActivation(r)
    PROVE  /\ Rows' = Rows
           /\ \A i \in Ids : Activated(i) => Activated(i)'
           /\ Activated(req[r].target)'
  <1> TypeOK /\ Session(r) /\ req[r].target \in Ids
    BY DEF IInv, CommitActivation, Session, Activating, Rows
  <1>1. \A i \in Ids : status'[i] = StatusAfter(r, i)
    BY DEF CommitActivation
  <1>2. req[r].seen \subseteq Ids
    BY DEF TypeOK, Request
  <1> QED
    BY <1>1, <1>2 DEF StatusAfter, Session, CommitActivation, Activating, Activated, Rows

LEMMA TableGrows ==
    ASSUME IInv, [Next]_vars
    PROVE  /\ Rows \subseteq Rows'
           /\ \A i \in Ids : Activated(i) => Activated(i)'
           /\ \A i \in Rows : override'[i] = override[i] /\ number'[i] = number[i]
  <1> TypeOK
    BY DEF IInv
  <1>1. ASSUME NEW r \in Requests, InsertDraft(r)
        PROVE  \A i \in Rows : /\ status'[i] = status[i] /\ override'[i] = override[i]
                               /\ number'[i] = number[i]
    BY <1>1 DEF InsertDraft, TypeOK, Rows
  <1>2. ASSUME NEW r \in Requests, CommitActivation(r)
        PROVE  UNCHANGED <<number, override>>
    BY <1>2 DEF CommitActivation
  <1>3. CASE Restart \/ UNCHANGED vars
    BY <1>3 DEF Restart, vars, table, Rows, Activated
  <1>4. CASE \E r \in Requests : Serve(r)
    <2>1. PICK r \in Requests : Serve(r)
      BY <1>4
    <2>2. CASE InsertDraft(r)
      BY <1>1, <2>2 DEF Rows, Activated
    <2>3. CASE CommitActivation(r)
      BY <1>2, <2>3, ActivationKeepsRows
    <2>4. CASE UNCHANGED table
      BY <2>4 DEF table, Rows, Activated
    <2> QED
      BY <2>1, <2>2, <2>3, <2>4, OthersKeepTable
  <1> QED
    BY <1>3, <1>4 DEF Next, Serve

-----------------------------------------------------------------------------
(* The inductive invariant, part by part.                                  *)

(* A draft takes the number that it read, and there is then a greatest one *)
(* again; the other steps change neither the rows nor their numbers.       *)
LEMMA NextNumbered ==
    ASSUME IInv, [Next]_vars
    PROVE  Numbered'
  <1> TypeOK /\ Numbered
    BY DEF IInv
  <1>1. ASSUME Rows' = Rows, number' = number PROVE Numbered'
    BY <1>1 DEF Numbered
  <1>2. ASSUME NEW r \in Requests, InsertDraft(r) PROVE Numbered'
    <2>1. PICK i \in Ids \ Rows :
            /\ status' = [status EXCEPT ![i] = "draft"]
            /\ number' = [number EXCEPT ![i] = req[r].next]
      BY <1>2 DEF InsertDraft
    <2>2. /\ Rows' = Rows \union {i}
          /\ number'[i] = req[r].next /\ req[r].next \in Nat
          /\ \A k \in Rows : number'[k] = number[k] /\ number[k] \in Nat
      BY <2>1 DEF TypeOK, Rows, Request
    <2>3. CASE Rows = {}
      BY <2>2, <2>3 DEF Numbered
    <2>4. CASE Rows # {}
      <3>1. PICK m \in Rows : \A k \in Rows : number[k] <= number[m]
        BY <2>4 DEF Numbered
      <3>2. CASE number[m] <= req[r].next
        <4>1. \A k \in Rows' : number'[k] <= number'[i]
          BY <2>2, <3>1, <3>2
        <4> QED
          BY <2>2, <4>1 DEF Numbered
      <3>3. CASE ~(number[m] <= req[r].next)
        <4>1. \A k \in Rows' : number'[k] <= number'[m]
          BY <2>2, <3>1, <3>3
        <4> QED
          BY <2>2, <4>1 DEF Numbered
      <3> QED
        BY <3>2, <3>3
    <2> QED
      BY <2>3, <2>4
  <1>3. CASE \E r \in Requests : Serve(r)
    <2>1. PICK r \in Requests : Serve(r)
      BY <1>3
    <2>2. CASE CommitActivation(r)
      BY <1>1, <2>2, ActivationKeepsRows DEF CommitActivation
    <2>3. CASE UNCHANGED table
      BY <1>1, <2>3 DEF table, Rows
    <2> QED
      BY <1>2, <2>1, <2>2, <2>3, OthersKeepTable
  <1>4. CASE Restart \/ UNCHANGED vars
    BY <1>1, <1>4 DEF Restart, vars, table, Rows
  <1> QED
    BY <1>3, <1>4 DEF Next, Serve

LEMMA OthersSession ==
    ASSUME IInv, [Next]_vars, NEW q \in Requests,
           pc'[q] = pc[q], req'[q] = req[q], kind'[q] = kind[q]
    PROVE  Session(q)'
  <1>1. req[q].seen \subseteq Ids /\ Session(q)
    BY DEF IInv, TypeOK, Request
  <1>2. Rows \subseteq Ids
    BY DEF Rows
  <1>3. pc[q] \in Activating => req[q].target \in Rows
    BY <1>1 DEF Session
  <1> QED
    BY <1>1, <1>2, <1>3, TableGrows DEF Session, Activating

LEMMA ServeSession ==
    ASSUME IInv, NEW r \in Requests, Serve(r)
    PROVE  Session(r)'
  <1> DEFINE Untold == pc[r] # "evaluated" => req[r].judged = Nothing
  <1> TypeOK /\ Session(r) /\ req[r] \in Request
    BY DEF IInv, TypeOK
  <1>0. ASSUME Answer(r) PROVE Session(r)'
    BY <1>0 DEF Answer, Goto, TypeOK, NoRequest, Session, Activating, Previewing, Borrowing
  <1>1. CASE ReadNumber(r)
    BY <1>1 DEF ReadNumber, Arrive, Goto, TypeOK, Request, Session, Activating, Previewing,
                Borrowing
  <1>2. CASE InsertDraft(r)
    <2>1. CASE Answer(r)
      BY <1>0, <2>1
    <2>2. CASE ~Answer(r)
      BY <1>2, <2>2 DEF InsertDraft, Goto, TypeOK, Request, Session, Activating, Previewing,
                        Borrowing, Rows
    <2> QED
      BY <2>1, <2>2
  <1>3. CASE BeginActivate(r)
    BY <1>3 DEF BeginActivate, Arrive, Goto, TypeOK, Request, Session, Activating,
                Previewing, Borrowing, Rows, table
  <1>4. CASE LoadTarget(r)
    BY <1>4 DEF LoadTarget, Goto, TypeOK, Request, Session, Activating, Previewing,
                Borrowing, Rows, table, Activated
  <1>5. CASE SelectActive(r)
    BY <1>5 DEF SelectActive, Active, Goto, TypeOK, Request, Session, Activating,
                Previewing, Borrowing, Rows, table, Activated
  <1>6. CASE CommitActivation(r)
    <2>1. /\ pc'[r] = "committed" /\ req' = req /\ kind' = kind
          /\ pc[r] = "selected"
      BY <1>6 DEF CommitActivation, Goto, TypeOK
    <2> QED
      BY <1>6, <2>1, ActivationKeepsRows DEF Session, Activating, Previewing, Borrowing
  <1>7. CASE SetActiveOverride(r) \/ PutBack(r)
    BY <1>0, <1>7 DEF SetActiveOverride, PutBack
  <1>8. CASE BeginPreview(r)
    BY <1>8 DEF BeginPreview, Arrive, Goto, TypeOK, Request, Session, Activating,
                Previewing, Borrowing
  <1>9. CASE TakePreviewLock(r) \/ SwapIn(r)
    BY <1>9 DEF TakePreviewLock, SwapIn, Goto, TypeOK, Session, Activating, Previewing,
                Borrowing
  <1>10. CASE EvaluateCandidate(r)
    BY <1>10 DEF EvaluateCandidate, Goto, TypeOK, Request, Session, Activating, Previewing,
                 Borrowing
  <1> QED
    BY <1>1, <1>2, <1>3, <1>4, <1>5, <1>6, <1>7, <1>8, <1>9, <1>10
       DEF Serve, Draft, Activate, Preview

(* The lock is taken before the borrowing and given back with it.          *)
LEMMA ServeLockHeld ==
    ASSUME IInv, NEW r \in Requests, Serve(r)
    PROVE  LockHeld'
  <1> TypeOK /\ LockHeld /\ OthersUntouched(r)
    BY ServeTouchesOnlyItself DEF IInv
  <1>1. CASE TakePreviewLock(r)
    BY <1>1, PolicyAssumption
       DEF TakePreviewLock, PreviewLockFree, Goto, TypeOK, LockHeld, Borrowing, OthersUntouched
  <1>2. CASE PutBack(r)
    BY <1>2 DEF PutBack, Answer, Goto, TypeOK, LockHeld, Borrowing, OthersUntouched
  <1>3. CASE ~TakePreviewLock(r) /\ ~PutBack(r)
    <2>1. previewLock' = previewLock
      BY <1>3 DEF Serve, Draft, Activate, Preview, ReadNumber, InsertDraft, BeginActivate,
                  LoadTarget, SelectActive, CommitActivation, SetActiveOverride,
                  BeginPreview, SwapIn, EvaluateCandidate, process
    <2>2. pc'[r] \in Borrowing => pc[r] \in Borrowing
      BY <1>3 DEF Serve, Draft, Activate, Preview, ReadNumber, InsertDraft, BeginActivate,
                  LoadTarget, SelectActive, CommitActivation, SetActiveOverride,
                  BeginPreview, SwapIn, EvaluateCandidate, Goto, Answer, TypeOK, Borrowing
    <2> QED
      BY <2>1, <2>2 DEF LockHeld, OthersUntouched
  <1> QED
    BY <1>1, <1>2, <1>3

(* A kind of request that has been served remains served.                  *)
LEMMA ServedGrows ==
    ASSUME IInv, [Next]_vars, NEW k
    PROVE  Served(k) \subseteq Served(k)'
  <1> TypeOK
    BY DEF IInv
  <1>1. CASE \E r \in Requests : Serve(r)
    <2>1. PICK r \in Requests : Serve(r)
      BY <1>1
    <2>2. OthersUntouched(r)
      BY <2>1, ServeTouchesOnlyItself
    <2>3. pc[r] # "idle" => pc'[r] # "idle" /\ kind'[r] = kind[r]
      BY <2>1 DEF Serve, Draft, Activate, Preview, ReadNumber, InsertDraft, BeginActivate,
                  LoadTarget, SelectActive, CommitActivation, SetActiveOverride,
                  BeginPreview, TakePreviewLock, SwapIn, EvaluateCandidate, PutBack,
                  Arrive, Goto, Answer, TypeOK
    <2> QED
      BY <2>2, <2>3 DEF Served, OthersUntouched
  <1>2. CASE Restart \/ UNCHANGED vars
    BY <1>2 DEF Restart, vars, Served, InFlight, TypeOK
  <1> QED
    BY <1>1, <1>2 DEF Next, Serve

LEMMA ServeCandidate ==
    ASSUME IInv, NEW r \in Requests, Serve(r)
    PROVE  CandidateInMemory' /\ PreviewJudgesItsCandidate'
  <1> DEFINE Activations == Served("activate") \union Served("restore")
  <1> TypeOK /\ Session(r) /\ LockHeld /\ OthersUntouched(r)
    BY ServeTouchesOnlyItself DEF IInv
  <1>0. SUFFICES ASSUME (Activations = {})'
                 PROVE  /\ \A q \in Requests : pc'[q] = "swapped" => memory' = req'[q].wanted
                        /\ \A q \in Requests : req'[q].judged \in {Nothing, req'[q].wanted}
    BY DEF CandidateInMemory, PreviewJudgesItsCandidate
  <1>1. Activations = {}
    <2>1. [Next]_vars
      BY DEF Next, Serve
    <2> QED
      BY <1>0, <2>1, ServedGrows
  <1>2. /\ \A q \in Requests : pc[q] = "swapped" => memory = req[q].wanted
        /\ \A q \in Requests : req[q].judged \in {Nothing, req[q].wanted}
    BY <1>1 DEF IInv, CandidateInMemory, PreviewJudgesItsCandidate
  <1>3. ~SetActiveOverride(r)
    BY <1>1 DEF SetActiveOverride, Session, Activating, Served
  <1>4. CASE SwapIn(r) \/ PutBack(r)
    <2>1. \A q \in Requests \ {r} : pc'[q] # "swapped"
      BY <1>4 DEF SwapIn, PutBack, LockHeld, Borrowing, OthersUntouched
    <2>2. /\ pc'[r] = "swapped" => memory' = req'[r].wanted
          /\ req'[r].judged \in {Nothing, req'[r].wanted}
      BY <1>2, <1>4 DEF SwapIn, PutBack, Goto, Answer, NoRequest, TypeOK
    <2> QED
      BY <1>2, <2>1, <2>2 DEF OthersUntouched
  <1>5. CASE ~SwapIn(r) /\ ~PutBack(r)
    <2>1. memory' = memory
      BY <1>3, <1>5 DEF Serve, Draft, Activate, Preview, ReadNumber, InsertDraft,
                  BeginActivate, LoadTarget, SelectActive, CommitActivation,
                  BeginPreview, TakePreviewLock, EvaluateCandidate, process
    <2>2. pc'[r] # "swapped"
      BY <1>3, <1>5 DEF Serve, Draft, Activate, Preview, ReadNumber, InsertDraft,
                  BeginActivate, LoadTarget, SelectActive, CommitActivation,
                  BeginPreview, TakePreviewLock, EvaluateCandidate, Goto, Answer, TypeOK
    <2>3. EvaluateCandidate(r) => req'[r].judged \in {Nothing, req'[r].wanted}
      <3>1. EvaluateCandidate(r) =>
              req'[r] = [req[r] EXCEPT !.judged = memory] /\ req[r] \in Request
        BY DEF EvaluateCandidate, TypeOK
      <3> QED
        BY <1>2, <3>1 DEF EvaluateCandidate, Request
    <2>4. ~EvaluateCandidate(r) /\ pc[r] # "evaluated" =>
            req'[r].judged \in {Nothing, req'[r].wanted}
      <3> SUFFICES ASSUME ~EvaluateCandidate(r), pc[r] # "evaluated"
                   PROVE  req'[r].judged = Nothing
        OBVIOUS
      <3>1. req[r].judged = Nothing /\ req[r] \in Request
        BY DEF Session, TypeOK
      <3>2. CASE ReadNumber(r) \/ InsertDraft(r)
        BY <3>1, <3>2 DEF ReadNumber, InsertDraft, Answer, NoRequest, TypeOK, Request
      <3>3. CASE BeginActivate(r) \/ LoadTarget(r) \/ SelectActive(r) \/ CommitActivation(r)
        BY <3>1, <3>3 DEF BeginActivate, LoadTarget, SelectActive, CommitActivation, TypeOK,
                          Request
      <3>4. CASE BeginPreview(r)
        <4>1. PICK o \in Overrides :
                req' = [req EXCEPT ![r].wanted = o, ![r].previous = memory]
          BY <3>4 DEF BeginPreview
        <4> QED
          BY <3>1, <4>1 DEF TypeOK, Request
      <3>5. CASE TakePreviewLock(r)
        BY <3>1, <3>5 DEF TakePreviewLock
      <3> QED
        BY <1>3, <1>5, <3>2, <3>3, <3>4, <3>5 DEF Serve, Draft, Activate, Preview
    <2>5. pc[r] # "evaluated"
      BY <1>3, <1>5 DEF Serve, Draft, Activate, Preview, ReadNumber, InsertDraft,
                  BeginActivate, LoadTarget, SelectActive, CommitActivation,
                  BeginPreview, TakePreviewLock, EvaluateCandidate, Arrive
    <2>6. req'[r].judged \in {Nothing, req'[r].wanted}
      BY <2>3, <2>4, <2>5
    <2> QED
      BY <1>2, <2>1, <2>2, <2>6 DEF OthersUntouched
  <1> QED
    BY <1>4, <1>5

(* Without previews, memory is written by an activation, with the override *)
(* of the version that it has just activated, or by a restart, with that   *)
(* of an active version.                                                   *)
LEMMA NextOnlyActivated ==
    ASSUME IInv, [Next]_vars
    PROVE  OnlyActivatedInUse'
  <1> TypeOK
    BY DEF IInv
  <1> DEFINE InUse(o) == o # Default => \E i \in Ids : Activated(i) /\ override[i] = o
  <1>0. SUFFICES ASSUME Served("preview")' = {} PROVE InUse(memory)'
    BY DEF OnlyActivatedInUse, Activated
  <1>1. InUse(memory)
    BY <1>0, ServedGrows DEF IInv, OnlyActivatedInUse, Activated
  <1>2. ASSUME NEW i \in Ids, Activated(i)
        PROVE  Activated(i)' /\ override'[i] = override[i]
    BY <1>2, TableGrows DEF Activated, Rows
  <1>3. CASE memory' = memory
    BY <1>1, <1>2, <1>3
  <1>4. CASE Restart
    BY <1>2, <1>4 DEF Restart, Active, Activated
  <1>5. ASSUME NEW r \in Requests, SetActiveOverride(r) PROVE InUse(memory)'
    <2>1. Session(r) /\ req[r].target \in Ids
      BY <1>5 DEF IInv, Session, SetActiveOverride, Activating, Rows
    <2> QED
      BY <1>2, <1>5, <2>1 DEF SetActiveOverride, Published, Session
  <1>6. ASSUME NEW r \in Requests, SwapIn(r) \/ PutBack(r) PROVE FALSE
    <2>1. r \in Served("preview")
      BY <1>6 DEF IInv, Session, Previewing, Borrowing, SwapIn, PutBack, Served
    <2> QED
      BY <1>0, <2>1, ServedGrows
  <1>7. ASSUME NEW r \in Requests, Serve(r)
        PROVE  SetActiveOverride(r) \/ SwapIn(r) \/ PutBack(r) \/ memory' = memory
    BY <1>7 DEF Serve, Draft, Activate, Preview, ReadNumber, InsertDraft, BeginActivate,
                LoadTarget, SelectActive, CommitActivation, BeginPreview, TakePreviewLock,
                EvaluateCandidate, process
  <1>8. CASE UNCHANGED vars
    BY <1>3, <1>8 DEF vars, process
  <1> QED
    BY <1>3, <1>4, <1>5, <1>6, <1>7, <1>8 DEF Next, Serve

-----------------------------------------------------------------------------
LEMMA InitIInv == Init => IInv
  <1> SUFFICES ASSUME Init PROVE IInv
    OBVIOUS
  <1>1. TypeOK
    BY NoRequestType, PolicyAssumption DEF Init, TypeOK, Statuses, PCs, AllKinds
  <1>2. Numbered /\ OnlyActivatedInUse
    BY DEF Init, Numbered, Rows, OnlyActivatedInUse
  <1>3. \A r \in Requests : pc[r] = "idle" /\ req[r] = NoRequest
    BY DEF Init
  <1>4. \A r \in Requests : Session(r)
    BY <1>3 DEF Session, NoRequest, Activating, Previewing, Borrowing
  <1>5. LockHeld /\ CandidateInMemory /\ PreviewJudgesItsCandidate
    BY <1>3 DEF LockHeld, CandidateInMemory, PreviewJudgesItsCandidate, NoRequest, Borrowing
  <1> QED
    BY <1>1, <1>2, <1>4, <1>5 DEF IInv

LEMMA NextIInv == IInv /\ [Next]_vars => IInv'
  <1> SUFFICES ASSUME IInv, [Next]_vars PROVE IInv'
    OBVIOUS
  <1> TypeOK
    BY DEF IInv
  <1>1. Numbered' /\ OnlyActivatedInUse'
    BY NextNumbered, NextOnlyActivated
  <1>2. CASE \E r \in Requests : Serve(r)
    <2>1. PICK r \in Requests : Serve(r)
      BY <1>2
    <2>2. \A q \in Requests : Session(q)'
      BY <2>1, ServeTouchesOnlyItself, OthersSession, ServeSession DEF OthersUntouched
    <2> QED
      BY <1>1, <2>1, <2>2, ServeTypeOK, ServeLockHeld, ServeCandidate DEF IInv
  <1>3. CASE Restart
    <2>1. \A q \in Requests : pc'[q] \in {"idle", "done"} /\ req'[q] = NoRequest
      BY <1>3 DEF Restart, InFlight, TypeOK
    <2>2. \A q \in Requests : Session(q)'
      BY <2>1 DEF Session, NoRequest, Activating, Previewing, Borrowing
    <2>3. LockHeld' /\ CandidateInMemory' /\ PreviewJudgesItsCandidate'
      BY <2>1 DEF LockHeld, CandidateInMemory, PreviewJudgesItsCandidate, NoRequest, Borrowing
    <2> QED
      BY <1>1, <1>3, <2>2, <2>3, RestartTypeOK DEF IInv
  <1>4. CASE UNCHANGED vars
    <2>1. TypeOK' /\ LockHeld' /\ CandidateInMemory' /\ PreviewJudgesItsCandidate'
      BY <1>4 DEF IInv, TypeOK, LockHeld, CandidateInMemory, PreviewJudgesItsCandidate,
                  Served, vars, table, process
    <2>2. \A q \in Requests : Session(q)'
      BY <1>4, OthersSession DEF vars
    <2> QED
      BY <1>1, <2>1, <2>2 DEF IInv
  <1> QED
    BY <1>2, <1>3, <1>4 DEF Next, Serve

(* The inductive invariant: rows, memory and what every request under way  *)
(* has read of them.                                                       *)
THEOREM Invariant == Spec => []IInv
  BY InitIInv, NextIInv, PTL DEF Spec

(* However requests and restarts interleave, every variable keeps its      *)
(* type: in particular a version number is always a number, which rests on *)
(* the greatest one existing.                                              *)
THEOREM TypeCorrect == Spec => []TypeOK
  <1>1. IInv => TypeOK
    BY DEF IInv
  <1> QED
    BY <1>1, Invariant, PTL

(* As long as nobody previews, the policy in use has been activated,       *)
(* whatever activations and restarts race (activate_version,               *)
(* refresh_active_override).                                               *)
THEOREM InUseWasActivated == Spec => []OnlyActivatedInUse
  <1>1. IInv => OnlyActivatedInUse
    BY DEF IInv
  <1> QED
    BY <1>1, Invariant, PTL

(* As long as nobody activates, _PREVIEW_LOCK keeps each preview to its    *)
(* own candidate, however many race (preview_policy).                      *)
THEOREM LockIsolatesPreviews == Spec => []PreviewJudgesItsCandidate
  <1>1. IInv => PreviewJudgesItsCandidate
    BY DEF IInv
  <1> QED
    BY <1>1, Invariant, PTL

-----------------------------------------------------------------------------
(* One request at a time.                                                  *)

LEMMA Alone ==
    ASSUME SerialInv, workers = 1, NEW r \in Requests, Serve(r)
    PROVE  \A q \in Requests \ {r} : pc[q] \in {"idle", "done"}
  <1> SUFFICES ASSUME NEW q \in Requests \ {r}, q \in InFlight
               PROVE  FALSE
    BY DEF InFlight
  <1>1. InFlight = {q}
    BY DEF SerialInv, OneAtATime
  <1>2. pc[r] = "idle"
    BY <1>1 DEF InFlight, Serve, Draft, Activate, Preview, ReadNumber, InsertDraft,
                BeginActivate, LoadTarget, SelectActive, CommitActivation,
                SetActiveOverride, BeginPreview, TakePreviewLock, SwapIn,
                EvaluateCandidate, PutBack, Arrive
  <1>3. Cardinality(InFlight) < 1
    BY <1>2 DEF Serve, Draft, Activate, Preview, ReadNumber, InsertDraft,
                BeginActivate, LoadTarget, SelectActive, CommitActivation,
                SetActiveOverride, BeginPreview, TakePreviewLock, SwapIn,
                EvaluateCandidate, PutBack, Arrive
  <1>4. Cardinality(InFlight) = 1
    BY <1>1, FS_Singleton
  <1> QED
    BY <1>3, <1>4

LEMMA AloneAfter ==
    ASSUME SerialInv, workers = 1, NEW r \in Requests, Serve(r)
    PROVE  /\ \A q \in Requests \ {r} : pc'[q] \in {"idle", "done"}
           /\ OneAtATime'
           /\ \A q \in Requests \ {r} : StillSo(q)'
  <1>1. \A q \in Requests \ {r} : pc'[q] \in {"idle", "done"}
    BY Alone, ServeTouchesOnlyItself DEF SerialInv, IInv, OthersUntouched
  <1> QED
    BY <1>1 DEF OneAtATime, InFlight, StillSo

(* A serial activation archives all that was active and leaves its target  *)
(* as the only active version.                                             *)
LEMMA SerialActivation ==
    ASSUME SerialInv, workers = 1, NEW r \in Requests, CommitActivation(r)
    PROVE  Active' = {req[r].target}
  <1>1. /\ req[r].seen = Active
        /\ req[r].loaded = status[req[r].target]
        /\ req[r].target \in Ids
    BY DEF SerialInv, IInv, StillSo, Session, CommitActivation, Activating, Rows
  <1>2. \A i \in Ids : status'[i] = StatusAfter(r, i)
    BY DEF CommitActivation
  <1> QED
    BY <1>1, <1>2 DEF StatusAfter, Active

LEMMA OthersKeepActive ==
    ASSUME IInv, NEW r \in Requests, Serve(r), ~CommitActivation(r)
    PROVE  Active' = Active /\ \A i \in Active : override'[i] = override[i]
  <1>1. CASE InsertDraft(r)
    BY <1>1 DEF InsertDraft, IInv, TypeOK, Active, Rows
  <1>2. CASE UNCHANGED table
    BY <1>2 DEF table, Active
  <1> QED
    BY <1>1, <1>2, OthersKeepTable

LEMMA SerialDistinct ==
    ASSUME SerialInv, workers = 1, NEW r \in Requests, Serve(r)
    PROVE  Distinct'
  <1> TypeOK /\ IInv /\ Distinct
    BY DEF SerialInv, IInv
  <1>1. CASE InsertDraft(r)
    <2>1. PICK i \in Ids \ Rows :
            /\ status' = [status EXCEPT ![i] = "draft"]
            /\ number' = [number EXCEPT ![i] = req[r].next]
      BY <1>1 DEF InsertDraft
    <2>2. /\ Rows' = Rows \union {i}
          /\ number'[i] = req[r].next /\ req[r].next \in Nat
          /\ \A k \in Rows : number'[k] = number[k] /\ number[k] \in Nat
      BY <2>1 DEF TypeOK, Rows, Request
    <2>3. \A k \in Rows : number[k] < req[r].next
      BY <1>1 DEF InsertDraft, SerialInv, StillSo
    <2> QED
      BY <2>2, <2>3 DEF Distinct
  <1>2. CASE CommitActivation(r)
    BY <1>2, ActivationKeepsRows DEF CommitActivation, Distinct
  <1>3. CASE UNCHANGED table
    BY <1>3 DEF table, Rows, Distinct
  <1> QED
    BY <1>1, <1>2, <1>3, OthersKeepTable

LEMMA SerialOneActive ==
    ASSUME SerialInv, workers = 1, NEW r \in Requests, Serve(r)
    PROVE  OneActive'
  <1>1. CASE CommitActivation(r)
    BY <1>1, SerialActivation DEF OneActive
  <1>2. CASE ~CommitActivation(r)
    BY <1>2, OthersKeepActive DEF SerialInv, OneActive
  <1> QED
    BY <1>1, <1>2

LEMMA SerialStillSo ==
    ASSUME SerialInv, workers = 1, NEW r \in Requests, Serve(r)
    PROVE  StillSo(r)'
  <1> TypeOK /\ IInv /\ StillSo(r) /\ req[r] \in Request
    BY DEF SerialInv, IInv, TypeOK
  <1>1. CASE ReadNumber(r)
    <2>1. pc'[r] = "numbered" /\ Rows' = Rows /\ number' = number
      BY <1>1 DEF ReadNumber, Goto, TypeOK, table, Rows
    <2>2. req'[r].next = NextVersionNumber
      <3>1. PICK o \in Overrides :
              req' = [req EXCEPT ![r].next = NextVersionNumber, ![r].wanted = o]
        BY <1>1 DEF ReadNumber
      <3> QED
        BY <3>1 DEF TypeOK, Request
    <2> QED
      BY <2>1, <2>2, NextVersionExceeds DEF IInv, StillSo
  <1>2. CASE LoadTarget(r)
    BY <1>2 DEF LoadTarget, Goto, TypeOK, Request, StillSo, table
  <1>3. CASE SelectActive(r)
    BY <1>3 DEF SelectActive, Goto, TypeOK, Request, StillSo, table, Active
  <1>4. CASE CommitActivation(r)
    <2>1. pc'[r] = "committed" /\ req' = req
      BY <1>4 DEF CommitActivation, Goto, TypeOK
    <2> QED
      BY <1>4, <2>1, SerialActivation DEF StillSo
  <1>5. CASE ~ReadNumber(r) /\ ~LoadTarget(r) /\ ~SelectActive(r) /\ ~CommitActivation(r)
    <2>1. pc'[r] \notin {"numbered", "loaded", "selected", "committed"}
      BY <1>5 DEF Serve, Draft, Activate, Preview, InsertDraft, BeginActivate,
                  SetActiveOverride, BeginPreview, TakePreviewLock, SwapIn,
                  EvaluateCandidate, PutBack, Goto, Answer, TypeOK
    <2> QED
      BY <2>1 DEF StillSo
  <1> QED
    BY <1>1, <1>2, <1>3, <1>4, <1>5

(* The override in memory, or the one to put back, stays the table's: an   *)
(* activation publishes the only active version, and a preview puts back   *)
(* what it found.                                                          *)
LEMMA SerialUpToDate ==
    ASSUME SerialInv, workers = 1, NEW r \in Requests, Serve(r)
    PROVE  UpToDate'
  <1> TypeOK /\ IInv /\ StillSo(r) /\ req[r] \in Request /\ UpToDate
    BY DEF SerialInv, IInv, TypeOK
  <1> DEFINE Others == Requests \ {r}
             free == pc[r] \notin {"committed", "swapped", "evaluated"}
  <1>0. /\ free => ~Borrowed
        /\ \A q \in Others : pc'[q] \notin Previewing
    BY Alone, AloneAfter DEF Borrowed, Previewing, Borrowing
  <1>1. ~CommitActivation(r) => \A o : Matches(o) <=> Matches(o)'
    BY OthersKeepActive DEF Matches
  <1>2. CASE ReadNumber(r) \/ InsertDraft(r) \/ BeginActivate(r) \/ LoadTarget(r)
             \/ SelectActive(r)
    <2>1. /\ memory' = memory /\ degraded' = degraded /\ free
          /\ pc'[r] \notin Previewing /\ ~CommitActivation(r)
      BY <1>2 DEF ReadNumber, InsertDraft, BeginActivate, LoadTarget, SelectActive, Arrive,
                  CommitActivation, Goto, Answer, TypeOK, process, Previewing, Borrowing
    <2> QED
      BY <1>0, <1>1, <2>1 DEF UpToDate
  <1>3. CASE CommitActivation(r)
    <2>1. pc'[r] = "committed"
      BY <1>3 DEF CommitActivation, Goto, TypeOK
    <2> QED
      BY <1>0, <2>1 DEF UpToDate, Borrowed, Previewing, Borrowing
  <1>4. CASE SetActiveOverride(r)
    <2>1. /\ Active' = {req[r].target} /\ memory' = override'[req[r].target]
          /\ pc'[r] = "done"
      BY <1>4 DEF SetActiveOverride, Published, StillSo, Answer, Goto, TypeOK, table, Active
    <2>2. Matches(memory)'
      BY <2>1 DEF Matches
    <2> QED
      BY <1>0, <2>1, <2>2 DEF UpToDate, Previewing, Borrowing
  <1>5. CASE BeginPreview(r)
    <2>1. /\ memory' = memory /\ degraded' = degraded /\ free /\ ~CommitActivation(r)
      BY <1>5 DEF BeginPreview, Arrive, CommitActivation, process
    <2>2. req'[r].previous = memory
      <3>1. PICK o \in Overrides : req' = [req EXCEPT ![r].wanted = o, ![r].previous = memory]
        BY <1>5 DEF BeginPreview
      <3> QED
        BY <3>1 DEF TypeOK, Request
    <2> QED
      BY <1>0, <1>1, <2>1, <2>2 DEF UpToDate
  <1>6. CASE TakePreviewLock(r)
    <2>1. /\ memory' = memory /\ degraded' = degraded /\ free /\ ~CommitActivation(r)
          /\ req' = req /\ pc[r] \in Previewing
      BY <1>6 DEF TakePreviewLock, CommitActivation, Previewing
    <2> QED
      BY <1>0, <1>1, <2>1 DEF UpToDate
  <1>7. CASE SwapIn(r) \/ EvaluateCandidate(r)
    <2>1. /\ degraded' = degraded /\ ~CommitActivation(r) /\ pc[r] \in Previewing
          /\ pc'[r] \in {"swapped", "evaluated"} /\ req'[r].previous = req[r].previous
      BY <1>7 DEF SwapIn, EvaluateCandidate, CommitActivation, Goto, TypeOK, Request,
                  process, Previewing, Borrowing
    <2> QED
      BY <1>0, <1>1, <2>1 DEF UpToDate, Borrowed
  <1>8. CASE PutBack(r)
    <2>1. /\ degraded' = degraded /\ ~CommitActivation(r) /\ pc[r] \in Previewing
          /\ memory' = req[r].previous /\ pc'[r] = "done"
      BY <1>8 DEF PutBack, CommitActivation, Goto, Answer, TypeOK, Previewing, Borrowing
    <2> QED
      BY <1>0, <1>1, <2>1 DEF UpToDate, Previewing, Borrowing
  <1> QED
    BY <1>2, <1>3, <1>4, <1>5, <1>6, <1>7, <1>8 DEF Serve, Draft, Activate, Preview

LEMMA InitSerialInv == Init => SerialInv
  BY InitIInv
     DEF Init, SerialInv, OneAtATime, InFlight, Distinct, OneActive, UpToDate, StillSo,
         Matches, Active, Rows, Previewing, Borrowing

LEMMA NextSerialInv == SerialInv /\ [Next]_vars => SerialInv'
  <1> SUFFICES ASSUME SerialInv, [Next]_vars, workers' = 1
               PROVE  /\ OneAtATime' /\ Distinct' /\ OneActive' /\ UpToDate'
                      /\ \A r \in Requests : StillSo(r)'
    BY NextIInv DEF SerialInv
  <1> IInv /\ TypeOK
    BY DEF SerialInv, IInv
  <1>1. workers = 1
    BY DEF Next, Draft, Activate, Preview, ReadNumber, InsertDraft, BeginActivate,
           LoadTarget, SelectActive, CommitActivation, SetActiveOverride, BeginPreview,
           TakePreviewLock, SwapIn, EvaluateCandidate, PutBack, Restart, vars
  <1>2. CASE \E r \in Requests : Serve(r)
    BY <1>1, <1>2, AloneAfter, SerialDistinct, SerialOneActive, SerialUpToDate, SerialStillSo
  <1>3. CASE Restart
    <2>1. \A r \in Requests : pc'[r] \in {"idle", "done"}
      BY <1>3 DEF Restart, InFlight, TypeOK
    <2>2. OneAtATime' /\ \A r \in Requests : StillSo(r)'
      BY <2>1 DEF OneAtATime, InFlight, StillSo
    <2>3. Distinct' /\ OneActive'
      BY <1>1, <1>3 DEF SerialInv, Restart, table, Rows, Active, Distinct, OneActive
    <2>4. ~degraded' => Matches(memory)'
      BY <1>3 DEF Restart, table, Active, Matches
    <2> QED
      BY <2>1, <2>2, <2>3, <2>4 DEF UpToDate, Previewing, Borrowing
  <1>4. CASE UNCHANGED vars
    BY <1>1, <1>4
       DEF vars, table, process, SerialInv, OneAtATime, InFlight, Distinct, OneActive,
           UpToDate, StillSo, Borrowed, Matches, Active, Rows
  <1> QED
    BY <1>2, <1>3, <1>4 DEF Next, Serve

(* One request at a time: what the request at work has read is still so.   *)
THEOREM SerialInvariant == Spec => []SerialInv
  BY InitSerialInv, NextSerialInv, PTL DEF Spec

(* One request at a time, and whatever dies in between, the override in    *)
(* memory is the active version's whenever no request runs, and version    *)
(* numbers are not reused (activate_version, refresh_active_override).     *)
THEOREM SerialConsistent == Spec => []ConsistentWhenSerial
  <1>1. SerialInv => ConsistentWhenSerial
    BY DEF SerialInv, ConsistentWhenSerial, Distinct, UpToDate, Borrowed, Matches, InFlight
  <1> QED
    BY <1>1, SerialInvariant, PTL

(* One request at a time, a version once active is only ever replaced:     *)
(* every later step leaves exactly one active (activate_version).          *)
THEOREM OnePolicy == Spec => OnePolicyWhenSerial
  <1>1. ASSUME SerialInv, [Next]_vars, workers = 1, Active # {}
        PROVE  Cardinality(Active') = 1
    <2>1. \E i : Active' = {i}
      <3>1. \E i : Active = {i}
        BY <1>1 DEF SerialInv, OneActive
      <3>2. CASE \E r \in Requests : CommitActivation(r)
        BY <1>1, <3>2, SerialActivation
      <3>3. CASE ~\E r \in Requests : CommitActivation(r)
        <4>1. CASE \E r \in Requests : Serve(r)
          BY <1>1, <3>1, <3>3, <4>1, OthersKeepActive DEF SerialInv
        <4>2. CASE Restart \/ UNCHANGED vars
          BY <3>1, <4>2 DEF Restart, vars, table, Active
        <4> QED
          BY <1>1, <4>1, <4>2 DEF Next, Serve
      <3> QED
        BY <3>2, <3>3
    <2> QED
      BY <2>1, FS_Singleton
  <1>2. SerialInv /\ [Next]_vars =>
          [workers = 1 /\ Active # {} => Cardinality(Active') = 1]_vars
    BY <1>1
  <1> QED
    BY <1>2, SerialInvariant, PTL DEF Spec, OnePolicyWhenSerial

=============================================================================
