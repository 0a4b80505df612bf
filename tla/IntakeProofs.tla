---------------------------- MODULE IntakeProofs ----------------------------
(***************************************************************************)
(* What holds of the intake of jobs for every mailbox, every set of boards *)
(* and of postings, any number of requests, worker threads and deaths: the *)
(* inductive invariants behind the properties of Intake and their proofs.  *)
(***************************************************************************)
EXTENDS Intake, FiniteSetTheorems, WellFoundedInduction, TLAPS

Units == Messages \union Campaigns
Labels == {"idle", "unit", "look", "insert", "commit", "run", "thread",
           "signal", "outcome", "quarantine", "failed", "owner", "done"}
-----------------------------------------------------------------------------
(* Every set of naturals has a least element: what takes the place of an   *)
(* induction here.                                                         *)
LEMMA LeastNatural ==
    ASSUME NEW T \in SUBSET Nat, T # {}
    PROVE  \E n \in T : \A m \in T : n <= m
  <1>1. PICK R : R = OpToRel(<, Nat)
    OBVIOUS
  <1>2. PICK x \in T : \A y \in T : ~ (<<y, x>> \in R)
    BY <1>1, WFMin, NatLessThanWellFounded
  <1>3. \A y \in Nat : <<y, x>> \in R <=> y < x
    BY <1>1 DEF OpToRel
  <1>4. \A y \in T : ~(y < x)
    BY <1>2, <1>3
  <1>5. \A y \in T : x <= y
    BY <1>4
  <1> QED
    BY <1>5

LEMMA Heads ==
    ASSUME NEW S, NEW s \in Seq(S), s # <<>>
    PROVE  /\ Head(s) \in S /\ Tail(s) \in Seq(S) /\ Head(s) = s[1] /\ 1 \in DOMAIN s
           /\ \A i \in DOMAIN s : s[i] = Head(s) \/ \E j \in DOMAIN Tail(s) : Tail(s)[j] = s[i]
  <1>1. /\ Head(s) \in S /\ Tail(s) \in Seq(S) /\ Head(s) = s[1] /\ Len(s) \in Nat \ {0}
        /\ DOMAIN s = 1..Len(s)
    OBVIOUS
  <1>2. /\ Len(Tail(s)) = Len(s) - 1 /\ DOMAIN Tail(s) = 1..(Len(s) - 1)
        /\ \A j \in 1..(Len(s) - 1) : Tail(s)[j] = s[j + 1]
    OBVIOUS
  <1>3. ASSUME NEW i \in DOMAIN s, i # 1
        PROVE  \E j \in DOMAIN Tail(s) : Tail(s)[j] = s[i]
    <2>1. PICK j : j = i - 1
      OBVIOUS
    <2>2. j \in 1..(Len(s) - 1) /\ j + 1 = i
      BY <1>1, <1>3, <2>1
    <2> QED
      BY <1>2, <2>2
  <1> QED
    BY <1>1, <1>3


(* The k-th of the wanted messages, for every k up to their number.        *)
LEMMA RankStep ==
    ASSUME Mailbox \in Seq(Messages)
    PROVE  /\ Rank(0) = 0
           /\ \A i \in 0..Len(Mailbox) : Rank(i) \in Nat
           /\ \A i \in 1..Len(Mailbox) :
                Rank(i) = IF i \in Wanted THEN Rank(i - 1) + 1 ELSE Rank(i - 1)
  <1>1. Len(Mailbox) \in Nat /\ DOMAIN Mailbox = 1..Len(Mailbox)
    OBVIOUS
  <1>2. Wanted \subseteq 1..Len(Mailbox)
    BY <1>1 DEF Wanted
  <1>3. IsFiniteSet(Wanted)
    <2>1. 1 \in Int /\ Len(Mailbox) \in Int
      BY <1>1
    <2>2. IsFiniteSet(1..Len(Mailbox))
      BY <2>1, FS_Interval
    <2> QED
      BY <1>2, <2>2, FS_Subset
  <1>4. \A i : IsFiniteSet({j \in Wanted : j <= i})
                 /\ Cardinality({j \in Wanted : j <= i}) \in Nat
    BY <1>3, FS_Subset, FS_CardinalityType
  <1>5. {j \in Wanted : j <= 0} = {}
    <2>1. \A j \in Wanted : ~(j <= 0)
      BY <1>1, <1>2
    <2> QED
      BY <2>1
  <1>6. Rank(0) = 0
    BY <1>5, FS_EmptySet DEF Rank
  <1>7. ASSUME NEW i \in 1..Len(Mailbox)
        PROVE  Rank(i) = IF i \in Wanted THEN Rank(i - 1) + 1 ELSE Rank(i - 1)
    <2>1. PICK below : below = {j \in Wanted : j <= i - 1}
      OBVIOUS
    <2>2. IsFiniteSet(below) /\ i \notin below
      <3>1. IsFiniteSet(below)
        BY <1>4, <2>1
      <3>2. ~(i <= i - 1)
        BY <1>1
      <3> QED
        BY <2>1, <3>1, <3>2
    <2>3. {j \in Wanted : j <= i} = IF i \in Wanted THEN below \union {i} ELSE below
      <3>1. \A j \in 1..Len(Mailbox) : j <= i <=> (j <= i - 1 \/ j = i)
        BY <1>1
      <3>2. \A j \in Wanted : j <= i <=> (j \in below \/ j = i)
        BY <1>2, <2>1, <3>1
      <3>3. below \subseteq Wanted
        BY <2>1
      <3> QED
        BY <2>1, <3>2, <3>3
    <2>4. Cardinality(below \union {i}) = Cardinality(below) + 1
      BY <2>2, FS_AddElement
    <2> QED
      BY <2>1, <2>3, <2>4 DEF Rank
  <1> QED
    BY <1>4, <1>6, <1>7 DEF Rank

LEMMA RankReached ==
    ASSUME Mailbox \in Seq(Messages), NEW k \in Nat, 1 <= k, k <= Rank(Len(Mailbox))
    PROVE  \E i \in Wanted : Rank(i) = k
  <1>1. Len(Mailbox) \in Nat
    OBVIOUS
  <1>2. PICK T : T = {i \in 0..Len(Mailbox) : k <= Rank(i)}
    OBVIOUS
  <1>3. T \in SUBSET Nat /\ Len(Mailbox) \in T
    BY <1>1, <1>2
  <1>4. PICK i \in T : \A j \in T : i <= j
    BY <1>3, LeastNatural
  <1>5. i \in 0..Len(Mailbox) /\ Rank(i) \in Nat /\ k <= Rank(i)
    BY <1>2, RankStep
  <1>6. i # 0
    BY <1>5, RankStep
  <1>7. i - 1 \in 0..Len(Mailbox) /\ i \in 1..Len(Mailbox)
    BY <1>1, <1>5, <1>6
  <1>8. Rank(i - 1) < k /\ Rank(i - 1) \in Nat
    <2>1. i - 1 \notin T
      BY <1>4, <1>5
    <2>2. Rank(i - 1) \in Nat
      BY <1>7, RankStep
    <2> QED
      BY <1>2, <1>7, <2>1, <2>2
  <1>9. i \in Wanted /\ Rank(i) = Rank(i - 1) + 1
    BY <1>5, <1>7, <1>8, RankStep
  <1> QED
    BY <1>5, <1>8, <1>9

(* A fetch brings messages.                                                *)
LEMMA FetchedType == Fetched \in Seq(Messages)
  <1>1. Mailbox \in Seq(Messages) /\ Len(Mailbox) \in Nat /\ FetchLimit \in Nat
    BY IntakeAssumption
  <1>2. Rank(Len(Mailbox)) \in Nat
    BY <1>1, RankStep
  <1>3. PICK n \in Nat : /\ n <= Rank(Len(Mailbox))
                         /\ n = IF Rank(Len(Mailbox)) < FetchLimit
                                THEN Rank(Len(Mailbox)) ELSE FetchLimit
    BY <1>1, <1>2
  <1>4. \A k \in 1..n : \E i \in Wanted : Rank(i) = k
    BY <1>1, <1>2, <1>3, RankReached
  <1>5. Wanted \subseteq DOMAIN Mailbox
    BY DEF Wanted
  <1>6. \A k \in 1..n : Mailbox[CHOOSE i \in Wanted : Rank(i) = k] \in Messages
    BY <1>1, <1>4, <1>5
  <1>7. Fetched = [k \in 1..n |-> Mailbox[CHOOSE i \in Wanted : Rank(i) = k]]
    BY <1>3 DEF Fetched
  <1> QED
    BY <1>6, <1>7

-----------------------------------------------------------------------------
(* The session of one request: what an update leaves of it.                *)
Typed == /\ pc \in [Requests -> Labels] /\ req \in [Requests -> Request]
Became(r, s) ==
    /\ pc' \in [Requests -> Labels] /\ req' \in [Requests -> Request]
    /\ req'[r] = s
    /\ \A q \in Requests \ {r} : pc'[q] = pc[q] /\ req'[q] = req[q]

LEMMA Becomes ==
    ASSUME Typed, NEW r \in Requests, NEW label \in Labels, NEW s \in Request,
           Become(r, label, s)
    PROVE  Became(r, s) /\ pc'[r] = label
  BY DEF Typed, Become, Goto, Became

LEMMA Anew ==
    ASSUME NEW k \in RequestKinds, NEW work \in Seq(Units)
    PROVE  /\ NewRequest(k, work) \in Request /\ NewRequest(k, work).kind = k
           /\ NewRequest(k, work).errors = {} /\ NewRequest(k, work).failed = {}
           /\ NewRequest(k, work).raised = {} /\ NewRequest(k, work).broken = FALSE
           /\ NewRequest(k, work).work = work /\ NewRequest(k, work).claims = {}
           /\ NewRequest(k, work).todo = <<>>
  <1>1. "ACCEPT" \in Decisions
    BY DEF Decisions
  <1> QED
    BY <1>1 DEF NewRequest, Request, Units

LEMMA AtHand ==
    ASSUME Typed, NEW r \in Requests, req[r].work # <<>>
    PROVE  /\ Unit(r) \in Units /\ Tail(req[r].work) \in Seq(Units)
           /\ ~OnMessage(r) => Unit(r) \in Campaigns
  <1>1. req[r].work \in Seq(Units)
    BY DEF Typed, Request, Units
  <1> QED
    BY <1>1, Heads DEF Unit, OnMessage, Units

LEMMA Advanced ==
    ASSUME NEW s \in Request, s.work # <<>>
    PROVE  /\ NextUnit(s) \in Request /\ NextUnit(s).kind = s.kind
           /\ NextUnit(s).errors = s.errors /\ NextUnit(s).failed = s.failed
           /\ NextUnit(s).raised = s.raised /\ NextUnit(s).broken = s.broken
           /\ NextUnit(s).claims = s.claims
  <1>1. s.work \in Seq(Units) /\ Tail(s.work) \in Seq(Units) /\ <<>> \in Seq(Postings)
    BY Heads DEF Request, Units
  <1> QED
    BY <1>1 DEF NextUnit, Request, Units

LEMMA CommittedType ==
    ASSUME Typed, NEW r \in Requests
    PROVE  /\ Committed(r) \in Request /\ Committed(r).kind = req[r].kind
           /\ Committed(r).work = req[r].work /\ Committed(r).todo = req[r].todo
           /\ Committed(r).at = req[r].at /\ Committed(r).broken = req[r].broken
           /\ Committed(r).errors = req[r].errors /\ Committed(r).failed = req[r].failed
           /\ Committed(r).raised = req[r].raised /\ Committed(r).claims = {}
           /\ Committed(r).decision = req[r].decision /\ Committed(r).fresh = req[r].fresh
  BY DEF Typed, Committed, Request

(* The same but for the postings left.                                     *)
AsBefore(s, t) ==
    /\ s.kind = t.kind /\ s.work = t.work /\ s.claims = t.claims /\ s.at = t.at
    /\ s.broken = t.broken /\ s.errors = t.errors /\ s.failed = t.failed
    /\ s.raised = t.raised

LEMMA PostingDone ==
    ASSUME Typed, NEW r \in Requests, NEW t \in Request, t.todo # <<>>, NEW q \in Postings,
           AfterPosting(r, t, q)
    PROVE  /\ Became(r, req'[r]) /\ AsBefore(req'[r], t)
           /\ \/ t.kind \in OwnerKinds /\ pc'[r] = "owner" /\ req'[r].todo = <<q>>
              \/ /\ t.kind \notin OwnerKinds /\ req'[r].todo = Tail(t.todo)
                 /\ \/ req'[r].todo # <<>> /\ pc'[r] = "look"
                    \/ /\ req'[r].todo = <<>>
                       /\ pc'[r] = IF OnMessage(r) THEN "thread" ELSE "run"
  <1>1. t.todo \in Seq(Postings) /\ Tail(t.todo) \in Seq(Postings) /\ <<q>> \in Seq(Postings)
    BY Heads DEF Request
  <1>2. PICK s : s = [t EXCEPT !.todo = Tail(t.todo)]
    OBVIOUS
  <1>3. s \in Request /\ s.kind = t.kind /\ AsBefore(s, t) /\ s.todo = Tail(t.todo)
    BY <1>1, <1>2 DEF Request, AsBefore
  <1>4. CASE s.kind \in OwnerKinds /\ Become(r, "owner", [s EXCEPT !.todo = <<q>>])
    <2>1. PICK u : u = [s EXCEPT !.todo = <<q>>]
      OBVIOUS
    <2>2. u \in Request /\ AsBefore(u, t) /\ u.todo = <<q>>
      BY <1>1, <1>3, <2>1 DEF Request, AsBefore
    <2>3. Became(r, u) /\ pc'[r] = "owner"
      BY <1>4, <2>1, <2>2, Becomes DEF Labels
    <2> QED
      BY <1>3, <1>4, <2>2, <2>3 DEF Became
  <1>5. CASE s.kind \notin OwnerKinds /\ s.todo # <<>> /\ Become(r, "look", s)
    <2>1. Became(r, s) /\ pc'[r] = "look"
      BY <1>3, <1>5, Becomes DEF Labels
    <2> QED
      BY <1>3, <1>5, <2>1 DEF Became
  <1>6. CASE /\ s.kind \notin OwnerKinds /\ s.todo = <<>>
             /\ Become(r, IF OnMessage(r) THEN "thread" ELSE "run", s)
    <2>1. Became(r, s) /\ pc'[r] = IF OnMessage(r) THEN "thread" ELSE "run"
      BY <1>3, <1>6, Becomes DEF Labels
    <2> QED
      BY <1>3, <1>6, <2>1 DEF Became
  <1> QED
    BY <1>2, <1>4, <1>5, <1>6 DEF AfterPosting

(* An exception: the session goes on with its next board or ends.          *)
LEMMA Raises ==
    ASSUME Typed, NEW r \in Requests, NEW broken \in BOOLEAN, Raise(r, broken),
           req[r].kind \in {"discover", "all"} => req[r].work # <<>>
    PROVE  /\ Became(r, req'[r])
           /\ \/ /\ pc'[r] = "unit" /\ req[r].kind \in {"discover", "all"}
                 /\ req'[r].kind = req[r].kind
                 /\ req'[r].errors \subseteq req[r].errors \union req'[r].raised
                 /\ req'[r].failed = req[r].failed
                 /\ req[r].raised \union {Unit(r)} \subseteq req'[r].raised
                 /\ ~broken => req'[r].broken = req[r].broken
              \/ /\ pc'[r] = "done"
                 /\ req'[r].errors = {} /\ req'[r].broken = FALSE
  <1>1. PICK s : s = IF broken THEN [req[r] EXCEPT !.claims = {}, !.broken = TRUE] ELSE req[r]
    OBVIOUS
  <1>2. /\ s \in Request /\ s.kind = req[r].kind /\ s.work = req[r].work
        /\ s.errors = req[r].errors /\ s.failed = req[r].failed /\ s.raised = req[r].raised
        /\ ~broken => s.broken = req[r].broken
    BY <1>1 DEF Typed, Request
  <1>3. CASE /\ s.kind \in {"discover", "all"} /\ ~OnMessage(r)
             /\ Become(r, "unit", [NextUnit(s) EXCEPT !.errors = @ \union {Unit(r)},
                                                      !.raised = @ \union {Unit(r)}])
    <2>1. PICK u : u = [NextUnit(s) EXCEPT !.errors = @ \union {Unit(r)},
                                           !.raised = @ \union {Unit(r)}]
      OBVIOUS
    <2>2. Unit(r) \in Campaigns
      BY <1>2, <1>3, AtHand
    <2>3. /\ NextUnit(s) \in Request /\ NextUnit(s).kind = s.kind
          /\ NextUnit(s).errors = s.errors /\ NextUnit(s).failed = s.failed
          /\ NextUnit(s).raised = s.raised /\ NextUnit(s).broken = s.broken
      BY <1>2, <1>3, Advanced
    <2>4. /\ u \in Request /\ u.kind = s.kind /\ u.errors = s.errors \union {Unit(r)}
          /\ u.raised = s.raised \union {Unit(r)} /\ u.failed = s.failed
          /\ u.broken = s.broken
      BY <2>1, <2>2, <2>3 DEF Request
    <2>5. Became(r, u) /\ pc'[r] = "unit"
      BY <1>3, <2>1, <2>4, Becomes DEF Labels
    <2> QED
      BY <1>2, <1>3, <2>4, <2>5 DEF Became
  <1>4. CASE s.kind = "all" /\ Become(r, "unit", [s EXCEPT !.work = Boards, !.todo = <<>>,
                                                           !.raised = @ \union {Unit(r)}])
    <2>1. PICK u : u = [s EXCEPT !.work = Boards, !.todo = <<>>,
                                 !.raised = @ \union {Unit(r)}]
      OBVIOUS
    <2>2. /\ Boards \in Seq(Messages \union Campaigns) /\ <<>> \in Seq(Postings)
          /\ Unit(r) \in Messages \union Campaigns
      BY <1>2, <1>4, AtHand, IntakeAssumption DEF Units
    <2>3. /\ u \in Request /\ u.kind = s.kind /\ u.errors = s.errors
          /\ u.raised = s.raised \union {Unit(r)} /\ u.failed = s.failed /\ u.broken = s.broken
      BY <1>2, <2>1, <2>2 DEF Request
    <2>4. Became(r, u) /\ pc'[r] = "unit"
      BY <1>4, <2>1, <2>3, Becomes DEF Labels
    <2> QED
      BY <1>2, <1>4, <2>3, <2>4 DEF Became
  <1>5. CASE Become(r, "done", NewRequest(s.kind, <<>>))
    <2>1. PICK u : u = NewRequest(s.kind, <<>>)
      OBVIOUS
    <2>2. s.kind \in RequestKinds /\ <<>> \in Seq(Units)
      BY <1>2 DEF Request
    <2>3. u \in Request /\ u.errors = {} /\ u.broken = FALSE
      <3>1. <<>> \in Seq(Messages \union Campaigns) /\ <<>> \in Seq(Postings)
        OBVIOUS
      <3>2. "ACCEPT" \in Decisions
        BY DEF Decisions
      <3> QED
        BY <2>1, <2>2, <3>1, <3>2 DEF NewRequest, Request
    <2>4. Became(r, u) /\ pc'[r] = "done"
      BY <1>5, <2>1, <2>3, Becomes DEF Labels
    <2> QED
      BY <2>3, <2>4 DEF Became
  <1> QED
    BY <1>1, <1>3, <1>4, <1>5 DEF Raise

-----------------------------------------------------------------------------
(* The tables between two steps.                                           *)
Covered(m) == \A i \in DOMAIN Digest[m] : SamePosition(jobs, Digest[m][i]) # {}

RowsType == rows \in [Messages -> Row(1..MaxParser,
                                     {0, 1} \union {Len(Digest[m]) : m \in Messages})
                                    \union {NoRow}]
ReviewsType == DOMAIN reviews = Messages /\ \A m \in Messages : reviews[m] \in Seq(Review)
JobsType == jobs \in [Postings -> JobRow \union {NoJob}]
TablesType ==
    /\ RowsType /\ ReviewsType /\ JobsType
    /\ signals \subseteq Messages /\ companies \subseteq Range(Company)
    /\ parser \in 1..MaxParser /\ crashes \in 0..MaxCrashes[workers]
    /\ workers \in Workers

(* What a row says of its message: a row that failed or was found wanting  *)
(* is flagged for replay, a complete one has a signal and an output, and a *)
(* signal never stands without a row or, of an alert, without its jobs.    *)
RowSays(m) ==
    /\ rows[m] # NoRow =>
         /\ rows[m].status \in {"FAILED", "REPLAY_REQUIRED"} => rows[m].replay
         /\ rows[m].status = "COMPLETE" => m \in signals /\ rows[m].made # 0
    /\ m \in signals => rows[m] # NoRow /\ (Kind[m] = "alert" => Covered(m))
RowInv == \A m \in Messages : RowSays(m)

-----------------------------------------------------------------------------
(* What is so of the session of request r, by how far it has got.          *)
Looping == {"look", "insert", "commit"}
OfMail == {"thread", "signal", "outcome", "quarantine", "failed"}

PhaseFits(r) ==
    /\ pc[r] \in OfMail \union {"unit", "run"} => req[r].kind \notin OwnerKinds
    /\ pc[r] = "owner" => req[r].kind \in OwnerKinds
    /\ pc[r] \in Looping \union OfMail \union {"run", "owner"} /\ req[r].kind # "confirm"
         => req[r].work # <<>>
    /\ pc[r] \in OfMail => OnMessage(r)
    /\ pc[r] \in Looping => req[r].todo # <<>>

(* A message whose postings or signal are being worked on has its row, in  *)
(* the table or claimed, and no posting is passed over.                    *)
Claimed(r) == Unit(r) \in req[r].claims \/ rows[Unit(r)] # NoRow
MailFits(r) ==
    req[r].kind \notin OwnerKinds =>
      /\ pc[r] \in Looping /\ OnMessage(r) =>
           /\ Kind[Unit(r)] = "alert" /\ Claimed(r)
           /\ \A i \in DOMAIN Digest[Unit(r)] :
                \/ SamePosition(jobs, Digest[Unit(r)][i]) # {}
                \/ \E j \in DOMAIN req[r].todo : req[r].todo[j] = Digest[Unit(r)][i]
      /\ pc[r] \in {"thread", "signal"} =>
           /\ Kind[Unit(r)] # "unclear" /\ Claimed(r)
           /\ Kind[Unit(r)] = "alert" => Covered(Unit(r))
      /\ pc[r] = "outcome" => Kind[Unit(r)] # "unclear" /\ Unit(r) \in signals

(* The review an owner's request is about stays where it was found, and    *)
(* its decision comes after the ingestion.                                 *)
OwnerFits(r) ==
    req[r].kind \in OwnerKinds /\ pc[r] \in Looping \union {"owner"} =>
      /\ req[r].kind # "confirm" =>
           OnMessage(r) /\ req[r].at \in DOMAIN reviews[Unit(r)]
      /\ req[r].kind = "approve" => reviews[Unit(r)][req[r].at].titled
      /\ req[r].kind \in {"approve", "correct"} =>
           IF pc[r] = "owner" THEN SamePosition(jobs, Correction[Unit(r)]) # {}
           ELSE Head(req[r].todo) = Correction[Unit(r)]
      /\ req[r].kind = "confirm" /\ pc[r] = "owner" =>
           req[r].todo # <<>> /\ Head(req[r].todo) \in Stored(jobs)

SessionFits(r) == PhaseFits(r) /\ MailFits(r) /\ OwnerFits(r)

IInv ==
    /\ TablesType /\ Typed /\ RowInv /\ ApprovedHasJob
    /\ \A r \in Requests : SessionFits(r)

-----------------------------------------------------------------------------
(* What no step undoes.                                                    *)
Grows ==
    /\ Stored(jobs) \subseteq Stored(jobs')
    /\ \A m \in Messages : rows[m] # NoRow => rows'[m] # NoRow
    /\ signals \subseteq signals'
    /\ \A m \in Messages : \A i \in DOMAIN reviews[m] :
         i \in DOMAIN reviews'[m] /\ (reviews[m][i].titled => reviews'[m][i].titled)

LEMMA PositionsStay ==
    ASSUME Stored(jobs) \subseteq Stored(jobs')
    PROVE  \A p : SamePosition(jobs, p) \subseteq SamePosition(jobs', p)
  BY DEF SamePosition

(* A session that does not move still fits.                                *)
LEMMA StaysFit ==
    ASSUME NEW q \in Requests, SessionFits(q), Grows, pc'[q] = pc[q], req'[q] = req[q]
    PROVE  SessionFits(q)'
  <1>1. PhaseFits(q)'
    BY DEF SessionFits, PhaseFits, OnMessage, Unit
  <1>2. MailFits(q)'
    <2>1. \A p : SamePosition(jobs, p) # {} => SamePosition(jobs', p) # {}
      BY PositionsStay DEF Grows
    <2>2. Covered(Unit(q)) => Covered(Unit(q))'
      BY <2>1 DEF Covered, Unit
    <2>3. pc[q] \in {"thread", "signal", "outcome"} => Unit(q) \in Messages
      BY DEF SessionFits, PhaseFits, OnMessage, OfMail
    <2>4. Unit(q)' = Unit(q)
      BY DEF Unit
    <2>5. CASE req[q].kind \notin OwnerKinds /\ pc[q] \in Looping /\ OnMessage(q)
      <3>1. /\ Kind[Unit(q)] = "alert" /\ Claimed(q)
            /\ \A i \in DOMAIN Digest[Unit(q)] :
                \/ SamePosition(jobs, Digest[Unit(q)][i]) # {}
                \/ \E j \in DOMAIN req[q].todo : req[q].todo[j] = Digest[Unit(q)][i]
        BY <2>5 DEF SessionFits, MailFits
      <3>2. Claimed(q)'
        BY <2>4, <2>5, <3>1 DEF Claimed, Grows, OnMessage
      <3>3. pc'[q] \notin {"thread", "signal", "outcome"}
        BY <2>5 DEF Looping
      <3> QED
        BY <2>1, <2>4, <3>1, <3>2, <3>3 DEF MailFits
    <2>6. CASE req[q].kind \notin OwnerKinds /\ pc[q] \in {"thread", "signal"}
      <3>1. /\ Kind[Unit(q)] # "unclear" /\ Claimed(q)
            /\ Kind[Unit(q)] = "alert" => Covered(Unit(q))
        BY <2>6 DEF SessionFits, MailFits
      <3>2. Claimed(q)'
        BY <2>3, <2>4, <2>6, <3>1 DEF Claimed, Grows
      <3>3. pc'[q] \notin Looping \union {"outcome"}
        BY <2>6 DEF Looping
      <3> QED
        BY <2>2, <2>4, <3>1, <3>2, <3>3 DEF MailFits
    <2> QED
      BY <2>4, <2>5, <2>6 DEF MailFits, SessionFits, Grows, OnMessage, Looping
  <1>3. OwnerFits(q)'
    <2>1. Unit(q)' = Unit(q)
      BY DEF Unit
    <2>2. \A p : SamePosition(jobs, p) # {} => SamePosition(jobs', p) # {}
      BY PositionsStay DEF Grows
    <2> QED
      BY <2>1, <2>2 DEF SessionFits, OwnerFits, Grows, OnMessage
  <1> QED
    BY <1>1, <1>2, <1>3 DEF SessionFits

LEMMA OthersStayFit ==
    ASSUME NEW r \in Requests, \A q \in Requests : SessionFits(q), Grows, Became(r, req'[r]),
           SessionFits(r)'
    PROVE  Typed' /\ \A q \in Requests : SessionFits(q)'
  <1>1. ASSUME NEW q \in Requests, q # r
        PROVE  SessionFits(q)'
    <2>1. pc'[q] = pc[q] /\ req'[q] = req[q]
      BY <1>1 DEF Became
    <2> QED
      BY <2>1, StaysFit
  <1> QED
    BY <1>1 DEF Became, Typed

(* Nothing is asked of a session that waits or is over, and little of one  *)
(* between two units.                                                      *)
LEMMA IdleFits ==
    ASSUME NEW r \in Requests, pc'[r] \in {"idle", "done"}
    PROVE  SessionFits(r)'
  BY DEF SessionFits, PhaseFits, MailFits, OwnerFits, Looping, OfMail

LEMMA UnitFits ==
    ASSUME NEW r \in Requests, pc'[r] \in {"unit", "run", "quarantine", "failed"},
           req'[r].kind \notin OwnerKinds,
           pc'[r] # "unit" => req'[r].work # <<>>,
           pc'[r] \in {"quarantine", "failed"} => OnMessage(r)'
    PROVE  SessionFits(r)'
  BY DEF SessionFits, PhaseFits, MailFits, OwnerFits, Looping, OfMail

-----------------------------------------------------------------------------
(* The tables under what the steps write into them.                        *)
ClaimsOnly ==
    \A m \in Messages : rows'[m] = rows[m] \/ (rows[m] = NoRow /\ rows'[m] = ClaimedRow)
TitlesOnly ==
    \A m \in Messages :
      /\ DOMAIN reviews'[m] = DOMAIN reviews[m]
      /\ \A i \in DOMAIN reviews[m] :
           /\ reviews'[m][i].status = reviews[m][i].status
           /\ reviews'[m][i].job = reviews[m][i].job
           /\ reviews[m][i].titled => reviews'[m][i].titled

LEMMA FreshClaim ==
    /\ ClaimedRow # NoRow /\ ClaimedRow.status = "LEGACY"
    /\ ClaimedRow \in Row(1..MaxParser, {0, 1} \union {Len(Digest[m]) : m \in Messages})
  BY DEF ClaimedRow, NoRow, Row, Statuses, NoType

LEMMA ClaimsWritten ==
    ASSUME RowsType, NEW r \in Requests, rows' = WithClaims(r)
    PROVE  /\ RowsType' /\ ClaimsOnly
           /\ \A m \in Messages : m \in req[r].claims => rows'[m] # NoRow
  <1>1. \A m \in Messages : rows'[m] = IF m \in req[r].claims /\ rows[m] = NoRow
                                       THEN ClaimedRow ELSE rows[m]
    BY DEF WithClaims
  <1>2. RowsType'
    <2>1. DOMAIN rows' = Messages /\ rows' = [m \in Messages |-> rows'[m]]
      BY DEF WithClaims
    <2> QED
      BY <1>1, <2>1, FreshClaim DEF RowsType
  <1> QED
    BY <1>1, <1>2, FreshClaim DEF ClaimsOnly

LEMMA RowsStay ==
    ASSUME RowInv, ClaimsOnly, signals' = signals, Stored(jobs) \subseteq Stored(jobs')
    PROVE  RowInv' /\ \A m \in Messages : rows[m] # NoRow => rows'[m] # NoRow
  <1>1. \A p : SamePosition(jobs, p) # {} => SamePosition(jobs', p) # {}
    BY PositionsStay
  <1>2. \A m \in Messages : Covered(m) => Covered(m)'
    BY <1>1 DEF Covered
  <1>3. ASSUME NEW m \in Messages
        PROVE  RowSays(m)'
    BY <1>2, FreshClaim DEF RowInv, RowSays, ClaimsOnly
  <1> QED
    BY <1>3, FreshClaim DEF RowInv, ClaimsOnly

LEMMA TitleWritten ==
    ASSUME ReviewsType, NEW r \in Requests, reviews' = WithTitle(r),
           req[r].kind = "correct" =>
             Unit(r) \in Messages /\ req[r].at \in DOMAIN reviews[Unit(r)]
    PROVE  /\ ReviewsType' /\ TitlesOnly
           /\ req[r].kind = "correct" => reviews'[Unit(r)][req[r].at].titled
  <1>1. CASE req[r].kind # "correct"
    BY <1>1 DEF WithTitle, ReviewsType, TitlesOnly
  <1>2. CASE req[r].kind = "correct"
    <2>1. PICK u, i : u = Unit(r) /\ i = req[r].at
      OBVIOUS
    <2>2. u \in Messages /\ i \in DOMAIN reviews[u] /\ reviews[u] \in Seq(Review)
      BY <1>2, <2>1 DEF ReviewsType
    <2>3. PICK review : review = [reviews[u][i] EXCEPT !.titled = TRUE]
      OBVIOUS
    <2>4. /\ review \in Review /\ review.status = reviews[u][i].status
          /\ review.job = reviews[u][i].job /\ review.titled
      <3>1. PICK old \in Review : old = reviews[u][i]
        BY <2>2
      <3>2. review = [old EXCEPT !.titled = TRUE]
        BY <2>3, <3>1
      <3> QED
        BY <3>1, <3>2 DEF Review
    <2>5. PICK line : line = [reviews[u] EXCEPT ![i] = review]
      OBVIOUS
    <2>6. /\ line \in Seq(Review) /\ DOMAIN line = DOMAIN reviews[u]
          /\ \A j \in DOMAIN line : line[j] = IF j = i THEN review ELSE reviews[u][j]
      BY <2>2, <2>4, <2>5
    <2>7. reviews' = [reviews EXCEPT ![u] = line]
      BY <1>2, <2>1, <2>3, <2>5 DEF WithTitle
    <2>8. \A m \in Messages : reviews'[m] = IF m = u THEN line ELSE reviews[m]
      BY <2>2, <2>7 DEF ReviewsType
    <2>9. ReviewsType'
      BY <2>6, <2>7, <2>8 DEF ReviewsType
    <2>10. TitlesOnly
      BY <2>4, <2>6, <2>8 DEF TitlesOnly
    <2>11. reviews'[Unit(r)][req[r].at].titled
      BY <2>1, <2>2, <2>4, <2>6, <2>8
    <2> QED
      BY <2>9, <2>10, <2>11
  <1> QED
    BY <1>1, <1>2

LEMMA ReviewsStay ==
    ASSUME ApprovedHasJob, TitlesOnly, Stored(jobs) \subseteq Stored(jobs')
    PROVE  /\ ApprovedHasJob'
           /\ \A m \in Messages : \A i \in DOMAIN reviews[m] :
                i \in DOMAIN reviews'[m] /\ (reviews[m][i].titled => reviews'[m][i].titled)
  <1>1. \A p : SamePosition(jobs, p) # {} => SamePosition(jobs', p) # {}
    BY PositionsStay
  <1> QED
    BY <1>1 DEF ApprovedHasJob, TitlesOnly

(* What a step writes of the tables, when it gives no outcome, no signal   *)
(* and no decision: claims, a title, new jobs.                             *)
TablesGrow ==
    /\ RowsType' /\ ClaimsOnly /\ ReviewsType' /\ TitlesOnly
    /\ JobsType' /\ Stored(jobs) \subseteq Stored(jobs')
    /\ companies' \subseteq Range(Company)
    /\ UNCHANGED <<signals, env>>

LEMMA TablesStay ==
    ASSUME TablesType, RowInv, ApprovedHasJob, TablesGrow
    PROVE  TablesType' /\ RowInv' /\ ApprovedHasJob' /\ Grows
  <1>1. RowInv' /\ \A m \in Messages : rows[m] # NoRow => rows'[m] # NoRow
    BY RowsStay DEF TablesGrow
  <1>2. /\ ApprovedHasJob'
        /\ \A m \in Messages : \A i \in DOMAIN reviews[m] :
                i \in DOMAIN reviews'[m] /\ (reviews[m][i].titled => reviews'[m][i].titled)
    BY ReviewsStay DEF TablesGrow
  <1>3. TablesType'
    BY DEF TablesType, TablesGrow, env
  <1> QED
    BY <1>1, <1>2, <1>3 DEF TablesGrow, Grows

LEMMA TablesAlone ==
    ASSUME TablesType, UNCHANGED <<rows, reviews, jobs, companies, signals, env>>
    PROVE  TablesGrow
  BY DEF TablesType, TablesGrow, RowsType, ReviewsType, JobsType, ClaimsOnly, TitlesOnly, env

LEMMA ClaimsAlone ==
    ASSUME TablesType, NEW r \in Requests, rows' = WithClaims(r),
           UNCHANGED <<reviews, jobs, companies, signals, env>>
    PROVE  TablesGrow
  <1>1. RowsType' /\ ClaimsOnly
    BY ClaimsWritten DEF TablesType
  <1> QED
    BY <1>1 DEF TablesType, TablesGrow, ReviewsType, JobsType, TitlesOnly, env

-----------------------------------------------------------------------------
(* A session whose posting has a job goes on, and still fits.              *)
LEMMA PassedFits ==
    ASSUME Typed, NEW r \in Requests, SessionFits(r), pc[r] \in Looping, Grows,
           NEW t \in {req[r], Committed(r)}, NEW q \in Stored(jobs'),
           Position[q] = Position[Head(req[r].todo)],
           t.claims = req[r].claims
             \/ \A m \in Messages : m \in req[r].claims => rows'[m] # NoRow,
           AfterPosting(r, t, q)
    PROVE  Became(r, req'[r]) /\ SessionFits(r)'
  <1>1. /\ t \in Request /\ t.kind = req[r].kind /\ t.work = req[r].work
        /\ t.todo = req[r].todo /\ t.at = req[r].at
    BY CommittedType DEF Typed
  <1>2. req[r].todo # <<>> /\ q \in Postings
    BY DEF SessionFits, PhaseFits, Stored
  <1>3. /\ Became(r, req'[r]) /\ AsBefore(req'[r], t)
        /\ \/ t.kind \in OwnerKinds /\ pc'[r] = "owner" /\ req'[r].todo = <<q>>
           \/ /\ t.kind \notin OwnerKinds /\ req'[r].todo = Tail(t.todo)
              /\ \/ req'[r].todo # <<>> /\ pc'[r] = "look"
                 \/ /\ req'[r].todo = <<>>
                    /\ pc'[r] = IF OnMessage(r) THEN "thread" ELSE "run"
    BY <1>1, <1>2, PostingDone
  <1>4. /\ req'[r].kind = req[r].kind /\ req'[r].work = req[r].work
        /\ req'[r].at = req[r].at /\ req'[r].claims = t.claims
    BY <1>1, <1>3 DEF AsBefore
  <1>5. Unit(r)' = Unit(r) /\ OnMessage(r)' = OnMessage(r)
    BY <1>4 DEF Unit, OnMessage
  <1>6. PhaseFits(r)'
    <2>1. req[r].kind # "confirm" => req[r].work # <<>>
      BY DEF SessionFits, PhaseFits
    <2>2. req[r].kind \notin OwnerKinds => req[r].kind # "confirm"
      BY DEF OwnerKinds
    <2> QED
      BY <1>1, <1>3, <1>4, <1>5, <2>1, <2>2 DEF PhaseFits, Looping, OfMail
  <1>7. \A p : SamePosition(jobs, p) # {} => SamePosition(jobs', p) # {}
    BY PositionsStay DEF Grows
  <1>8. \A p : Position[p] = Position[q] => SamePosition(jobs', p) # {}
    BY DEF SamePosition
  <1>9. MailFits(r)'
    <2>1. CASE req[r].kind \in OwnerKinds \/ ~OnMessage(r)
      BY <1>1, <1>3, <1>4, <1>5, <2>1 DEF MailFits
    <2>2. CASE req[r].kind \notin OwnerKinds /\ OnMessage(r)
      <3>1. /\ Kind[Unit(r)] = "alert" /\ Claimed(r) /\ Unit(r) \in Messages
            /\ \A i \in DOMAIN Digest[Unit(r)] :
                 \/ SamePosition(jobs, Digest[Unit(r)][i]) # {}
                 \/ \E j \in DOMAIN req[r].todo : req[r].todo[j] = Digest[Unit(r)][i]
        BY <2>2 DEF SessionFits, MailFits, OnMessage
      <3>2. Claimed(r)'
        BY <1>4, <1>5, <3>1 DEF Claimed, Grows
      <3>3. req[r].todo \in Seq(Postings)
        BY DEF Typed, Request
      <3>4. /\ req[r].todo[1] = Head(req[r].todo)
            /\ \A j \in DOMAIN req[r].todo :
                 \/ req[r].todo[j] = Head(req[r].todo)
                 \/ \E k \in DOMAIN Tail(req[r].todo) : Tail(req[r].todo)[k] = req[r].todo[j]
        BY <1>2, <3>3, Heads
      <3>5. \A i \in DOMAIN Digest[Unit(r)] :
              \/ SamePosition(jobs', Digest[Unit(r)][i]) # {}
              \/ \E k \in DOMAIN Tail(req[r].todo) : Tail(req[r].todo)[k] = Digest[Unit(r)][i]
        BY <1>7, <1>8, <3>1, <3>4
      <3>6. req'[r].todo = Tail(req[r].todo) /\ req'[r].todo \in Seq(Postings)
        <4>1. Tail(req[r].todo) \in Seq(Postings)
          BY <1>2, <3>3, Heads
        <4>2. req'[r].todo = Tail(t.todo)
          BY <1>1, <1>3, <2>2
        <4> QED
          BY <1>1, <4>1, <4>2
      <3>7. CASE pc'[r] = "look"
        BY <1>5, <3>1, <3>2, <3>5, <3>6, <3>7 DEF MailFits, Looping
      <3>8. CASE pc'[r] = "thread" /\ req'[r].todo = <<>>
        <4>1. DOMAIN req'[r].todo = {}
          BY <3>8
        <4>2. Covered(Unit(r))'
          BY <1>5, <3>5, <3>6, <4>1 DEF Covered
        <4> QED
          BY <1>5, <3>1, <3>2, <3>8, <4>2 DEF MailFits, Looping
      <3> QED
        BY <1>1, <1>3, <2>2, <3>7, <3>8
    <2> QED
      BY <2>1, <2>2
  <1>10. OwnerFits(r)'
    <2>1. CASE req[r].kind \notin OwnerKinds
      BY <1>4, <2>1 DEF OwnerFits
    <2>2. CASE req[r].kind \in OwnerKinds
      <3>1. pc'[r] = "owner" /\ req'[r].todo = <<q>>
        BY <1>1, <1>3, <2>2
      <3>2. req'[r].todo # <<>> /\ Head(req'[r].todo) = q
        BY <3>1
      <3>3. /\ req[r].kind # "confirm" => OnMessage(r) /\ req[r].at \in DOMAIN reviews[Unit(r)]
            /\ req[r].kind = "approve" => reviews[Unit(r)][req[r].at].titled
            /\ req[r].kind \in {"approve", "correct"} => Head(req[r].todo) = Correction[Unit(r)]
        BY <2>2 DEF SessionFits, OwnerFits, Looping
      <3>4. /\ req[r].kind # "confirm" =>
                 OnMessage(r)' /\ req'[r].at \in DOMAIN reviews'[Unit(r)]
            /\ req[r].kind = "approve" => reviews'[Unit(r)][req'[r].at].titled
        BY <1>4, <1>5, <3>3 DEF Grows, OnMessage
      <3>5. req[r].kind \in {"approve", "correct"} => SamePosition(jobs', Correction[Unit(r)]) # {}
        BY <1>8, <3>3
      <3> QED
        BY <1>4, <1>5, <3>1, <3>2, <3>4, <3>5 DEF OwnerFits
    <2> QED
      BY <2>1, <2>2
  <1> QED
    BY <1>3, <1>6, <1>9, <1>10 DEF SessionFits

LEMMA RaisedFits ==
    ASSUME Typed, NEW r \in Requests, SessionFits(r), NEW broken \in BOOLEAN, Raise(r, broken),
           pc[r] \in Looping \union OfMail
    PROVE  Became(r, req'[r]) /\ SessionFits(r)'
  <1>1. req[r].kind \in {"discover", "all"} => req[r].work # <<>>
    BY DEF SessionFits, PhaseFits
  <1>2. /\ Became(r, req'[r])
        /\ \/ /\ pc'[r] = "unit" /\ req[r].kind \in {"discover", "all"}
              /\ req'[r].kind = req[r].kind
           \/ pc'[r] = "done"
    BY <1>1, Raises
  <1>3. CASE pc'[r] = "done"
    BY <1>2, <1>3, IdleFits
  <1>4. CASE pc'[r] = "unit" /\ req'[r].kind \in {"discover", "all"}
    <2>1. req'[r].kind \notin OwnerKinds /\ pc'[r] = "unit"
      BY <1>4 DEF OwnerKinds
    <2>2. SessionFits(r)'
      BY <2>1, UnitFits
    <2> QED
      BY <1>2, <2>2
  <1> QED
    BY <1>2, <1>3, <1>4

-----------------------------------------------------------------------------
(* One lemma per action.                                                   *)
LEMMA Preserved ==
    ASSUME IInv, NEW r \in Requests, Became(r, req'[r]), SessionFits(r)', Grows,
           TablesType', RowInv', ApprovedHasJob'
    PROVE  IInv'
  BY OthersStayFit DEF IInv

LEMMA PreservedHere ==
    ASSUME IInv, NEW r \in Requests, Became(r, req'[r]), SessionFits(r)', TablesGrow
    PROVE  IInv'
  BY TablesStay, Preserved DEF IInv

LEMMA ArriveKeeps ==
    ASSUME IInv, NEW r \in Requests, Arrive(r)
    PROVE  IInv'
  <1>1. TablesGrow
    BY TablesAlone DEF Arrive, IInv, mail
  <1>2. ASSUME NEW k \in RequestKinds, k \notin OwnerKinds, NEW work \in Seq(Units),
               Become(r, "unit", NewRequest(k, work))
        PROVE  IInv'
    <2>1. PICK s : s = NewRequest(k, work)
      OBVIOUS
    <2>2. s \in Request /\ s.kind = k
      BY <2>1, Anew
    <2>3. Became(r, s) /\ pc'[r] = "unit"
      BY <1>2, <2>1, <2>2, Becomes DEF IInv, Labels
    <2>4. req'[r] = s /\ Became(r, req'[r])
      BY <2>3 DEF Became
    <2>5. SessionFits(r)'
      BY <1>2, <2>2, <2>3, <2>4, UnitFits
    <2> QED
      BY <1>1, <2>4, <2>5, PreservedHere
  <1>3. ASSUME Become(r, "look", [NewRequest("confirm", <<>>) EXCEPT !.todo = <<Opportunity>>])
        PROVE  IInv'
    <2>1. PICK s : s = [NewRequest("confirm", <<>>) EXCEPT !.todo = <<Opportunity>>]
      OBVIOUS
    <2>2. s \in Request /\ s.kind = "confirm" /\ s.todo # <<>>
      <3>1. /\ <<>> \in Seq(Messages \union Campaigns) /\ <<Opportunity>> \in Seq(Postings)
            /\ <<Opportunity>> # <<>>
        BY IntakeAssumption
      <3>2. "ACCEPT" \in Decisions /\ "confirm" \in RequestKinds
        BY DEF Decisions, RequestKinds
      <3> QED
        BY <2>1, <3>1, <3>2 DEF NewRequest, Request
    <2>3. Became(r, s) /\ pc'[r] = "look"
      BY <1>3, <2>1, <2>2, Becomes DEF IInv, Labels
    <2>4. req'[r] = s /\ Became(r, req'[r])
      BY <2>3 DEF Became
    <2>5. SessionFits(r)'
      BY <2>2, <2>3, <2>4
      DEF SessionFits, PhaseFits, MailFits, OwnerFits, Looping, OfMail, OwnerKinds
    <2> QED
      BY <1>1, <2>4, <2>5, PreservedHere
  <1>4. Fetched \in Seq(Units) /\ Boards \in Seq(Units) /\ Fetched \o Boards \in Seq(Units)
    <2>1. PICK fetched \in Seq(Messages) : fetched = Fetched
      BY FetchedType
    <2>2. fetched \in Seq(Units) /\ Boards \in Seq(Units)
      BY IntakeAssumption DEF Units
    <2>3. fetched \o Boards \in Seq(Units)
      BY <2>2
    <2> QED
      BY <2>1, <2>2, <2>3
  <1> QED
    BY <1>2, <1>3, <1>4 DEF Arrive, RequestKinds, OwnerKinds

LEMMA ReviewArrivesKeeps ==
    ASSUME IInv, NEW r \in Requests, ReviewArrives(r)
    PROVE  IInv'
  <1>1. TablesGrow
    BY TablesAlone DEF ReviewArrives, IInv, mail
  <1>2. PICK k \in {"approve", "correct", "reject"}, m \in Messages, label \in {"owner", "look"} :
          /\ reviews[m] # <<>>
          /\ k = "approve" => Last(reviews[m]).titled
          /\ label = "owner" => k = "reject" \/ (k = "approve" /\ Last(reviews[m]).job)
          /\ Become(r, label, [NewRequest(k, <<m>>) EXCEPT !.todo = <<Correction[m]>>,
                                                          !.at = Len(reviews[m])])
    BY DEF ReviewArrives
  <1> PICK s : s = [NewRequest(k, <<m>>) EXCEPT !.todo = <<Correction[m]>>,
                                                !.at = Len(reviews[m])]
    OBVIOUS
  <1>3. /\ s \in Request /\ s.kind = k /\ s.work = <<m>> /\ s.todo = <<Correction[m]>>
        /\ s.at = Len(reviews[m])
    <2>1. /\ <<m>> \in Seq(Messages \union Campaigns) /\ <<Correction[m]>> \in Seq(Postings)
      BY IntakeAssumption
    <2>2. Len(reviews[m]) \in Nat
      BY DEF IInv, TablesType, ReviewsType
    <2>3. "ACCEPT" \in Decisions /\ k \in RequestKinds
      BY DEF Decisions, RequestKinds
    <2> QED
      BY <1>2, <2>1, <2>2, <2>3 DEF NewRequest, Request
  <1>4. Became(r, s) /\ pc'[r] = label
    BY <1>2, <1>3, Becomes DEF IInv, Labels
  <1>5. req'[r] = s /\ Became(r, req'[r])
    BY <1>4 DEF Became
  <1>6. Unit(r)' = m /\ OnMessage(r)' /\ req'[r].work # <<>>
        /\ req'[r].todo # <<>> /\ Head(req'[r].todo) = Correction[m]
    BY <1>3, <1>5 DEF Unit, OnMessage
  <1>7. /\ reviews' = reviews /\ jobs' = jobs /\ Len(reviews[m]) \in DOMAIN reviews[m]
        /\ Last(reviews[m]) = reviews[m][Len(reviews[m])]
    BY <1>2 DEF ReviewArrives, mail, IInv, TablesType, ReviewsType, Last
  <1>8. label = "owner" /\ k = "approve" => SamePosition(jobs, Correction[m]) # {}
    BY <1>2, <1>7 DEF IInv, ApprovedHasJob
  <1>9. PhaseFits(r)' /\ MailFits(r)'
    BY <1>3, <1>4, <1>5, <1>6 DEF PhaseFits, MailFits, OfMail, Looping, OwnerKinds
  <1>10. OwnerFits(r)'
    BY <1>2, <1>3, <1>4, <1>5, <1>6, <1>7, <1>8 DEF OwnerFits, OwnerKinds, Looping
  <1> QED
    BY <1>1, <1>5, <1>9, <1>10, PreservedHere DEF SessionFits

(* A session that goes on to its next unit.                                *)
LEMMA MovesOn ==
    ASSUME Typed, NEW r \in Requests, NEW s \in Request, s.kind \notin OwnerKinds,
           Become(r, "unit", s)
    PROVE  Became(r, req'[r]) /\ SessionFits(r)'
  <1>1. Became(r, s) /\ pc'[r] = "unit"
    BY Becomes DEF Labels
  <1>2. req'[r] = s /\ Became(r, req'[r])
    BY <1>1 DEF Became
  <1> QED
    BY <1>1, <1>2, UnitFits

LEMMA Ends ==
    ASSUME Typed, NEW r \in Requests, Become(r, "done", NewRequest(req[r].kind, <<>>))
    PROVE  Became(r, req'[r]) /\ SessionFits(r)'
  <1>1. PICK s : s = NewRequest(req[r].kind, <<>>)
    OBVIOUS
  <1>2. s \in Request
    <2>1. <<>> \in Seq(Messages \union Campaigns) /\ <<>> \in Seq(Postings)
      OBVIOUS
    <2>2. "ACCEPT" \in Decisions /\ req[r].kind \in RequestKinds
      BY DEF Decisions, Typed, Request
    <2> QED
      BY <1>1, <2>1, <2>2 DEF NewRequest, Request
  <1>3. Became(r, s) /\ pc'[r] = "done"
    BY <1>1, <1>2, Becomes DEF Labels
  <1> QED
    BY <1>3, IdleFits DEF Became

LEMMA FinishKeeps ==
    ASSUME IInv, NEW r \in Requests, Finish(r)
    PROVE  IInv'
  <1>1. TablesGrow
    BY TablesAlone, ClaimsAlone DEF Finish, IInv
  <1>2. Became(r, req'[r]) /\ SessionFits(r)'
    BY Ends DEF Finish, IInv
  <1> QED
    BY <1>1, <1>2, PreservedHere

LEMMA ClaimKeeps ==
    ASSUME IInv, NEW r \in Requests, Claim(r)
    PROVE  IInv'
  <1>1. TablesGrow
    BY TablesAlone DEF Claim, IInv, mail
  <1>2. /\ pc[r] = "unit" /\ req[r].work # <<>> /\ req[r].kind \notin OwnerKinds
        /\ req[r] \in Request
    BY DEF Claim, IInv, SessionFits, PhaseFits, Typed
  <1>3. PICK m \in Messages : m = Unit(r)
    BY DEF Claim, OnMessage
  <1>4. PICK s : s = IF rows[m] = NoRow THEN [req[r] EXCEPT !.claims = @ \union {m}] ELSE req[r]
    OBVIOUS
  <1>5. /\ s \in Request /\ s.kind = req[r].kind /\ s.work = req[r].work
        /\ m \in s.claims \/ rows[m] # NoRow
    BY <1>2, <1>4 DEF Request
  <1>6. \/ Become(r, "unit", NextUnit(req[r]))
        \/ Kind[m] = "unclear" /\ Become(r, "quarantine", s)
        \/ Kind[m] = "alert" /\ Become(r, "look", [s EXCEPT !.todo = Digest[m]])
        \/ Kind[m] \notin {"unclear", "alert"} /\ Become(r, "thread", s)
    BY <1>3, <1>4 DEF Claim
  <1>7. CASE Become(r, "unit", NextUnit(req[r]))
    BY <1>1, <1>2, <1>7, Advanced, MovesOn, PreservedHere DEF IInv
  <1>8. ASSUME NEW label \in {"quarantine", "look", "thread"}, NEW t \in Request,
               Become(r, label, t), t.kind = req[r].kind, t.work = req[r].work,
               t.claims = s.claims,
               label = "look" => Kind[m] = "alert" /\ t.todo = Digest[m],
               label = "thread" => Kind[m] \notin {"unclear", "alert"}
        PROVE  IInv'
    <2>1. Became(r, t) /\ pc'[r] = label
      BY <1>8, Becomes DEF IInv, Labels
    <2>2. req'[r] = t /\ Became(r, req'[r])
      BY <2>1 DEF Became
    <2>3. Unit(r)' = m /\ OnMessage(r)' /\ rows' = rows
      BY <1>3, <1>8, <2>2 DEF Unit, OnMessage, Claim, mail
    <2>4. Claimed(r)'
      BY <1>5, <1>8, <2>2, <2>3 DEF Claimed
    <2>5. PhaseFits(r)'
      <3>1. label = "look" => t.todo # <<>>
        BY <1>8, IntakeAssumption
      <3> QED
        BY <1>2, <1>8, <2>1, <2>2, <2>3, <3>1 DEF PhaseFits, OfMail, Looping
    <2>6. MailFits(r)'
      BY <1>8, <2>1, <2>2, <2>3, <2>4 DEF MailFits, Looping
    <2>7. OwnerFits(r)'
      BY <1>2, <1>8, <2>2 DEF OwnerFits
    <2> QED
      BY <1>1, <2>2, <2>5, <2>6, <2>7, PreservedHere DEF SessionFits
  <1>9. CASE Kind[m] = "unclear" /\ Become(r, "quarantine", s)
    BY <1>5, <1>8, <1>9
  <1>10. CASE Kind[m] \notin {"unclear", "alert"} /\ Become(r, "thread", s)
    BY <1>5, <1>8, <1>10
  <1>11. CASE Kind[m] = "alert" /\ Become(r, "look", [s EXCEPT !.todo = Digest[m]])
    <2>1. PICK t : t = [s EXCEPT !.todo = Digest[m]]
      OBVIOUS
    <2>2. Digest[m] \in Seq(Postings)
      BY IntakeAssumption
    <2>3. /\ t \in Request /\ t.kind = req[r].kind /\ t.work = req[r].work
          /\ t.claims = s.claims /\ t.todo = Digest[m]
      BY <1>5, <2>1, <2>2 DEF Request
    <2> QED
      BY <1>8, <1>11, <2>1, <2>3
  <1> QED
    BY <1>6, <1>7, <1>9, <1>10, <1>11

LEMMA FetchBoardKeeps ==
    ASSUME IInv, NEW r \in Requests, FetchBoard(r)
    PROVE  IInv'
  <1>1. TablesGrow
    BY TablesAlone, ClaimsAlone DEF FetchBoard, IInv
  <1>2. /\ pc[r] = "unit" /\ req[r].work # <<>> /\ req[r].kind \notin OwnerKinds
        /\ req[r] \in Request /\ ~OnMessage(r)
    BY DEF FetchBoard, IInv, SessionFits, PhaseFits, Typed
  <1>3. PICK b \in Campaigns : b = Unit(r)
    BY <1>2, AtHand DEF IInv
  <1>4. CASE \E recorded \in BOOLEAN :
               Become(r, "unit",
                      [NextUnit(IF recorded THEN Committed(r) ELSE req[r])
                         EXCEPT !.errors = @ \union {b}, !.failed = @ \union {b}])
    <2>1. PICK recorded \in BOOLEAN :
               Become(r, "unit",
                      [NextUnit(IF recorded THEN Committed(r) ELSE req[r])
                         EXCEPT !.errors = @ \union {b}, !.failed = @ \union {b}])
      BY <1>4
    <2> PICK t : t = IF recorded THEN Committed(r) ELSE req[r]
      OBVIOUS
    <2>2. t \in Request /\ t.kind = req[r].kind /\ t.work = req[r].work
      BY <1>2, <2>1, CommittedType DEF IInv
    <2>3. NextUnit(t) \in Request /\ NextUnit(t).kind = req[r].kind
      BY <1>2, <2>2, Advanced
    <2>4. PICK s : s = [NextUnit(t) EXCEPT !.errors = @ \union {b}, !.failed = @ \union {b}]
      OBVIOUS
    <2>5. s \in Request /\ s.kind = req[r].kind
      BY <2>3, <2>4, ZenonT(60) DEF Request
    <2> QED
      BY <1>1, <1>2, <2>1, <2>4, <2>5, MovesOn, PreservedHere DEF IInv
  <1>5. CASE Become(r, "unit", [NextUnit(req[r]) EXCEPT !.errors = @ \union {b}])
    <2>1. NextUnit(req[r]) \in Request /\ NextUnit(req[r]).kind = req[r].kind
      BY <1>2, Advanced
    <2>2. PICK s : s = [NextUnit(req[r]) EXCEPT !.errors = @ \union {b}]
      OBVIOUS
    <2>3. s \in Request /\ s.kind = req[r].kind
      BY <2>1, <2>2 DEF Request
    <2> QED
      BY <1>1, <1>2, <1>5, <2>2, <2>3, MovesOn, PreservedHere DEF IInv
  <1>6. CASE Become(r, IF Digest[b] = <<>> THEN "run" ELSE "look",
                    [req[r] EXCEPT !.todo = Digest[b]])
    <2>1. PICK s : s = [req[r] EXCEPT !.todo = Digest[b]]
      OBVIOUS
    <2>2. Digest[b] \in Seq(Postings)
      BY IntakeAssumption
    <2>3. s \in Request /\ s.kind = req[r].kind /\ s.work = req[r].work /\ s.todo = Digest[b]
      BY <1>2, <2>1, <2>2 DEF Request
    <2>4. PICK label \in {"run", "look"} : label = IF Digest[b] = <<>> THEN "run" ELSE "look"
      OBVIOUS
    <2>5. Became(r, s) /\ pc'[r] = label
      BY <1>6, <2>1, <2>3, <2>4, Becomes DEF IInv, Labels
    <2>6. req'[r] = s /\ Became(r, req'[r])
      BY <2>5 DEF Became
    <2>7. Unit(r)' = b /\ ~OnMessage(r)'
      BY <1>2, <1>3, <2>3, <2>6 DEF Unit, OnMessage
    <2>8. SessionFits(r)'
      BY <1>2, <2>3, <2>4, <2>5, <2>6, <2>7
      DEF SessionFits, PhaseFits, MailFits, OwnerFits, Looping, OfMail
    <2> QED
      BY <1>1, <2>6, <2>8, PreservedHere
  <1> QED
    BY <1>3, <1>4, <1>5, <1>6 DEF FetchBoard

LEMMA RecordRunKeeps ==
    ASSUME IInv, NEW r \in Requests, RecordRun(r)
    PROVE  IInv'
  <1>1. TablesGrow
    BY ClaimsAlone DEF RecordRun, IInv
  <1>2. pc[r] = "run" /\ req[r].work # <<>> /\ req[r].kind \notin OwnerKinds
    BY DEF RecordRun, IInv, SessionFits, PhaseFits, OwnerKinds
  <1>3. PICK t \in Request : t = Committed(r) /\ t.kind = req[r].kind /\ t.work = req[r].work
    BY CommittedType DEF IInv
  <1>4. NextUnit(t) \in Request /\ NextUnit(t).kind = req[r].kind
    BY <1>2, <1>3, Advanced
  <1> QED
    BY <1>1, <1>2, <1>3, <1>4, MovesOn, PreservedHere DEF IInv, RecordRun

LEMMA AtPosting ==
    ASSUME IInv, NEW r \in Requests, pc[r] \in Looping
    PROVE  /\ Typed /\ SessionFits(r) /\ req[r] \in Request /\ req[r].todo # <<>>
           /\ Head(req[r].todo) \in Postings
           /\ req[r].kind = "correct" =>
                Unit(r) \in Messages /\ req[r].at \in DOMAIN reviews[Unit(r)]
  <1>1. req[r].todo \in Seq(Postings) /\ req[r].todo # <<>>
    BY DEF IInv, Typed, Request, SessionFits, PhaseFits
  <1>2. Head(req[r].todo) \in Postings
    BY <1>1, Heads
  <1> QED
    BY <1>1, <1>2 DEF IInv, Typed, SessionFits, OwnerFits, OwnerKinds, OnMessage

LEMMA LookKeeps ==
    ASSUME IInv, NEW r \in Requests, Look(r)
    PROVE  IInv'
  <1> PICK p : p = Head(req[r].todo)
    OBVIOUS
  <1>1. /\ Typed /\ SessionFits(r) /\ req[r] \in Request /\ req[r].todo # <<>>
        /\ p \in Postings /\ pc[r] \in Looping
        /\ req[r].kind = "correct" =>
             Unit(r) \in Messages /\ req[r].at \in DOMAIN reviews[Unit(r)]
    BY AtPosting DEF Look, Looping
  <1>2. ASSUME UNCHANGED <<rows, reviews>>
        PROVE  TablesGrow /\ Grows
    <2>1. TablesGrow
      BY <1>2, TablesAlone DEF Look, IInv
    <2> QED
      BY <2>1, TablesStay DEF IInv
  <1>3. CASE jobs[p] # NoJob /\ AfterPosting(r, req[r], p) /\ UNCHANGED <<rows, reviews>>
    <2>1. p \in Stored(jobs')
      BY <1>1, <1>3 DEF Look, Stored
    <2> QED
      BY <1>1, <1>2, <1>3, <2>1, PassedFits, PreservedHere
  <1>4. CASE Raise(r, FALSE) /\ UNCHANGED <<rows, reviews>>
    BY <1>1, <1>2, <1>4, RaisedFits, PreservedHere
  <1>5. CASE /\ \E q \in SamePosition(jobs, p) : AfterPosting(r, Committed(r), q)
             /\ rows' = WithClaims(r) /\ reviews' = WithTitle(r)
    <2>1. PICK q \in SamePosition(jobs, p) : AfterPosting(r, Committed(r), q)
      BY <1>5
    <2>2. q \in Stored(jobs') /\ Position[q] = Position[p]
      BY <2>1 DEF Look, SamePosition
    <2>3. /\ RowsType' /\ ClaimsOnly
          /\ \A m \in Messages : m \in req[r].claims => rows'[m] # NoRow
      BY <1>5, ClaimsWritten DEF IInv, TablesType
    <2>4. ReviewsType' /\ TitlesOnly
      BY <1>1, <1>5, TitleWritten DEF IInv, TablesType
    <2>5. TablesGrow
      BY <2>3, <2>4 DEF Look, TablesGrow, IInv, TablesType, JobsType, env
    <2>6. Grows
      BY <2>5, TablesStay DEF IInv
    <2> QED
      BY <1>1, <2>1, <2>2, <2>3, <2>5, <2>6, PassedFits, PreservedHere
  <1>6. CASE /\ Become(r, "insert", [req[r] EXCEPT !.decision = DecisionOf(jobs, p)])
             /\ UNCHANGED <<rows, reviews>>
    <2>1. PICK s : s = [req[r] EXCEPT !.decision = DecisionOf(jobs, p)]
      OBVIOUS
    <2>2. DecisionOf(jobs, p) \in Decisions
      BY <1>1, PostingAssumption DEF DecisionOf, Decisions
    <2>3. /\ s \in Request /\ s.kind = req[r].kind /\ s.work = req[r].work
          /\ s.todo = req[r].todo /\ s.at = req[r].at /\ s.claims = req[r].claims
      BY <1>1, <2>1, <2>2 DEF Request
    <2>4. Became(r, s) /\ pc'[r] = "insert"
      BY <1>1, <1>6, <2>1, <2>3, Becomes DEF Labels
    <2>5. req'[r] = s /\ Became(r, req'[r])
      BY <2>4 DEF Became
    <2>6. SessionFits(r)'
      BY <1>1, <1>6, <2>3, <2>4, <2>5
      DEF Look, SessionFits, PhaseFits, MailFits, OwnerFits, Looping, OfMail, Unit, OnMessage,
          Claimed
    <2> QED
      BY <1>2, <1>6, <2>5, <2>6, PreservedHere
  <1> QED
    BY <1>3, <1>4, <1>5, <1>6 DEF Look

LEMMA InsertJobKeeps ==
    ASSUME IInv, NEW r \in Requests, InsertJob(r)
    PROVE  IInv'
  <1>1. /\ Typed /\ SessionFits(r) /\ req[r] \in Request /\ pc[r] \in Looping
    BY AtPosting DEF InsertJob, Looping
  <1>2. TablesGrow
    BY TablesAlone DEF InsertJob, IInv, mail
  <1>3. CASE Raise(r, TRUE)
    BY <1>1, <1>2, <1>3, RaisedFits, PreservedHere
  <1>4. CASE Become(r, "commit",
                    [req[r] EXCEPT !.fresh = Company[Head(req[r].todo)] \notin companies])
    <2>1. PICK fresh \in BOOLEAN : fresh = (Company[Head(req[r].todo)] \notin companies)
      OBVIOUS
    <2>2. PICK s : s = [req[r] EXCEPT !.fresh = fresh]
      OBVIOUS
    <2>3. /\ s \in Request /\ s.kind = req[r].kind /\ s.work = req[r].work
          /\ s.todo = req[r].todo /\ s.at = req[r].at /\ s.claims = req[r].claims
      BY <1>1, <2>2 DEF Request
    <2>4. Become(r, "commit", s)
      BY <1>4, <2>1, <2>2
    <2>5. Became(r, s) /\ pc'[r] = "commit"
      BY <1>1, <2>3, <2>4, Becomes DEF Labels
    <2>6. req'[r] = s /\ Became(r, req'[r])
      BY <2>5 DEF Became
    <2>7. SessionFits(r)'
      BY <1>1, <2>3, <2>5, <2>6
      DEF InsertJob, SessionFits, PhaseFits, MailFits, OwnerFits, Looping, OfMail, Unit,
          OnMessage, Claimed, mail
    <2> QED
      BY <1>2, <2>6, <2>7, PreservedHere
  <1> QED
    BY <1>3, <1>4 DEF InsertJob

LEMMA NewJobType ==
    ASSUME NEW p \in Postings, NEW decision \in Decisions
    PROVE  NewJob(p, decision) \in JobRow /\ NewJob(p, decision) # NoJob
  <1>1. StateFor(decision) \in IntakeStates
    BY DEF StateFor, IntakeStates, Decisions
  <1>2. EligibleForOwner(p, decision) \in BOOLEAN
    BY DEF EligibleForOwner
  <1> QED
    BY <1>1, <1>2 DEF NewJob, JobRow, NoJob, Decisions

LEMMA CommitJobKeeps ==
    ASSUME IInv, NEW r \in Requests, CommitJob(r)
    PROVE  IInv'
  <1> PICK p : p = Head(req[r].todo)
    OBVIOUS
  <1>1. /\ Typed /\ SessionFits(r) /\ req[r] \in Request /\ req[r].todo # <<>>
        /\ p \in Postings /\ pc[r] \in Looping
        /\ req[r].kind = "correct" =>
             Unit(r) \in Messages /\ req[r].at \in DOMAIN reviews[Unit(r)]
    BY AtPosting DEF CommitJob, Looping
  <1>2. CASE Raise(r, TRUE) /\ UNCHANGED <<rows, reviews, jobs, companies>>
    <2>1. TablesGrow
      BY <1>2, TablesAlone DEF CommitJob, IInv
    <2> QED
      BY <1>1, <1>2, <2>1, RaisedFits, PreservedHere
  <1>3. CASE /\ jobs' = [jobs EXCEPT ![p] = NewJob(p, req[r].decision)]
             /\ companies' = companies \union {Company[p]}
             /\ rows' = WithClaims(r) /\ reviews' = WithTitle(r)
             /\ AfterPosting(r, Committed(r), p)
    <2>1. /\ RowsType' /\ ClaimsOnly
          /\ \A m \in Messages : m \in req[r].claims => rows'[m] # NoRow
      BY <1>3, ClaimsWritten DEF IInv, TablesType
    <2>2. ReviewsType' /\ TitlesOnly
      BY <1>1, <1>3, TitleWritten DEF IInv, TablesType
    <2>3. NewJob(p, req[r].decision) \in JobRow /\ NewJob(p, req[r].decision) # NoJob
      BY <1>1, NewJobType DEF Request
    <2>4. JobsType' /\ Stored(jobs') = Stored(jobs) \union {p}
      BY <1>1, <1>3, <2>3 DEF IInv, TablesType, JobsType, Stored
    <2>5. companies' \subseteq Range(Company)
      BY <1>1, <1>3, PostingAssumption DEF IInv, TablesType, Range
    <2>6. TablesGrow
      BY <2>1, <2>2, <2>4, <2>5 DEF CommitJob, TablesGrow
    <2>7. Grows
      BY <2>6, TablesStay DEF IInv
    <2>8. p \in Stored(jobs')
      BY <2>4
    <2> QED
      BY <1>1, <1>3, <2>1, <2>6, <2>7, <2>8, PassedFits, PreservedHere
  <1> QED
    BY <1>2, <1>3 DEF CommitJob

LEMMA LookAtThreadKeeps ==
    ASSUME IInv, NEW r \in Requests, LookAtThread(r)
    PROVE  IInv'
  <1>1. TablesGrow
    BY TablesAlone DEF LookAtThread, IInv, mail
  <1>2. /\ Typed /\ SessionFits(r) /\ req[r] \in Request /\ pc[r] \in OfMail
        /\ req[r].kind \notin OwnerKinds /\ req[r].work # <<>> /\ pc[r] = "thread"
    BY DEF LookAtThread, OfMail, IInv, SessionFits, PhaseFits, Typed, OwnerKinds
  <1>3. CASE Become(r, "signal", req[r])
    <2>1. Became(r, req[r]) /\ pc'[r] = "signal"
      BY <1>2, <1>3, Becomes DEF Labels
    <2>2. req'[r] = req[r] /\ Became(r, req'[r])
      BY <2>1 DEF Became
    <2>3. SessionFits(r)'
      BY <1>2, <2>1, <2>2
      DEF LookAtThread, SessionFits, PhaseFits, MailFits, OwnerFits, Looping, OfMail, Unit,
          OnMessage, Claimed, Covered, mail
    <2> QED
      BY <1>1, <2>2, <2>3, PreservedHere
  <1>4. CASE Become(r, "unit", NextUnit(req[r]))
    BY <1>1, <1>2, <1>4, Advanced, MovesOn, PreservedHere
  <1>5. CASE Raise(r, FALSE)
    BY <1>1, <1>2, <1>5, RaisedFits, PreservedHere
  <1> QED
    BY <1>3, <1>4, <1>5 DEF LookAtThread

(* The message a mail step is about.                                       *)
LEMMA AtMessage ==
    ASSUME IInv, NEW r \in Requests, pc[r] \in OfMail
    PROVE  /\ Typed /\ SessionFits(r) /\ req[r] \in Request /\ Unit(r) \in Messages
           /\ req[r].kind \notin OwnerKinds /\ req[r].work # <<>>
  BY DEF OfMail, IInv, SessionFits, PhaseFits, Typed, OwnerKinds, OnMessage

(* A step to the next unit that rewrites the row of its message.           *)
LEMMA RowWritten ==
    ASSUME IInv, NEW r \in Requests, pc[r] \in OfMail,
           NEW row \in Row(1..MaxParser, {0, 1} \union {Len(Digest[m]) : m \in Messages}),
           rows' = [rows EXCEPT ![Unit(r)] = row],
           row.status \in {"FAILED", "REPLAY_REQUIRED"} => row.replay,
           row.status = "COMPLETE" => Unit(r) \in signals /\ row.made # 0,
           Become(r, "unit", NextUnit(req[r])),
           UNCHANGED <<signals, reviews, jobs, companies, env>>
    PROVE  IInv'
  <1>1. /\ Typed /\ SessionFits(r) /\ req[r] \in Request /\ Unit(r) \in Messages
        /\ req[r].kind \notin OwnerKinds /\ req[r].work # <<>>
    BY AtMessage
  <1>2. Became(r, req'[r]) /\ SessionFits(r)'
    BY <1>1, Advanced, MovesOn
  <1>3. row # NoRow
    BY DEF Row, NoRow, Statuses
  <1>4. \A m \in Messages : rows'[m] = IF m = Unit(r) THEN row ELSE rows[m]
    BY <1>1 DEF IInv, TablesType, RowsType
  <1>5. RowsType'
    BY <1>1 DEF IInv, TablesType, RowsType
  <1>6. RowInv'
    <2>1. \A m \in Messages : Covered(m)' <=> Covered(m)
      BY DEF Covered
    <2>2. ASSUME NEW m \in Messages
          PROVE  RowSays(m)'
      BY <1>3, <1>4, <2>1 DEF IInv, RowInv, RowSays
    <2> QED
      BY <2>2 DEF RowInv
  <1>7. Grows
    BY <1>3, <1>4 DEF Grows
  <1>8. TablesType' /\ ApprovedHasJob'
    BY <1>5 DEF IInv, TablesType, ReviewsType, JobsType, ApprovedHasJob, env
  <1> QED
    BY <1>2, <1>6, <1>7, <1>8, Preserved

LEMMA RecordOutcomeKeeps ==
    ASSUME IInv, NEW r \in Requests, RecordOutcome(r)
    PROVE  IInv'
  <1> PICK u : u = Unit(r)
    OBVIOUS
  <1>1. /\ u \in Messages /\ Kind[u] # "unclear" /\ u \in signals /\ pc[r] \in OfMail
    BY AtMessage DEF RecordOutcome, OfMail, IInv, SessionFits, MailFits
  <1>2. PICK row : row = OutcomeOf(u)
    OBVIOUS
  <1>3. parser \in 1..MaxParser
    BY DEF IInv, TablesType
  <1>4. CASE Kind[u] = "alert"
    <2>1. PICK n : n = Len(Digest[u])
      OBVIOUS
    <2>2. n \in Nat /\ n # 0
      BY <1>1, <1>4, <2>1, IntakeAssumption
    <2>3. row = [status |-> "COMPLETE", type |-> "JOB_ALERT", parser |-> parser, made |-> n,
                 replay |-> FALSE]
      BY <1>2, <1>4, <2>1, <2>2 DEF OutcomeOf, AlertOutcome
    <2>4. row \in Row(1..MaxParser, {0, 1} \union {Len(Digest[m]) : m \in Messages})
      BY <1>1, <1>3, <2>1, <2>3 DEF Row, Statuses, AlertTypes
    <2> QED
      BY <1>1, <1>2, <2>2, <2>3, <2>4, RowWritten DEF RecordOutcome
  <1>5. CASE Kind[u] # "alert"
    <2>1. Kind[u] \in LifecycleTypes
      BY <1>1, <1>5, IntakeAssumption
    <2>2. row = [status |-> "COMPLETE", type |-> Kind[u], parser |-> parser, made |-> 1,
                 replay |-> FALSE]
      BY <1>2, <1>5 DEF OutcomeOf, SignalOutcome
    <2>3. row \in Row(1..MaxParser, {0, 1} \union {Len(Digest[m]) : m \in Messages})
      BY <1>1, <1>3, <2>1, <2>2 DEF Row, Statuses
    <2> QED
      <3>1. row.status = "COMPLETE" /\ row.made # 0
        BY <2>2
      <3> QED
        BY <1>1, <1>2, <2>3, <3>1, RowWritten DEF RecordOutcome
  <1> QED
    BY <1>4, <1>5

LEMMA RecordFailureKeeps ==
    ASSUME IInv, NEW r \in Requests, RecordFailure(r)
    PROVE  IInv'
  <1>1. PICK row : row = Failed(parser)
    OBVIOUS
  <1>2. parser \in 1..MaxParser
    BY DEF IInv, TablesType
  <1>3. row \in Row(1..MaxParser, {0, 1} \union {Len(Digest[m]) : m \in Messages})
    BY <1>1, <1>2 DEF Row, Statuses, Failed
  <1>4. row.status = "FAILED" /\ row.replay
    BY <1>1 DEF Failed
  <1>5. pc[r] \in OfMail
    BY DEF RecordFailure, OfMail
  <1> QED
    BY <1>1, <1>3, <1>4, <1>5, RowWritten DEF RecordFailure

(* A message is quarantined, or the database refuses the review's row.     *)
ReviewAdded(r) ==
    /\ pc[r] = "quarantine"
    /\ reviews' = [reviews EXCEPT ![Unit(r)] =
                     Append(@, [status |-> "quarantined", titled |-> FALSE,
                                job |-> FALSE])]
    /\ rows' = WithClaims(r)
    /\ Become(r, "failed", Committed(r))
    /\ UNCHANGED <<signals, jobs, companies, env>>
ReviewRefused(r) ==
    /\ pc[r] = "quarantine" /\ Unit(r) \in UnstorableMail
    /\ Raise(r, TRUE)
    /\ UNCHANGED <<mail, jobs, companies, env>>

LEMMA ReviewCases ==
    ASSUME NEW r \in Requests, Quarantine(r)
    PROVE  ReviewAdded(r) \/ ReviewRefused(r)
  BY DEF Quarantine, ReviewAdded, ReviewRefused, mail

LEMMA ReviewKeeps ==
    ASSUME IInv, NEW r \in Requests, ReviewAdded(r)
    PROVE  IInv'
  <1> PICK u : u = Unit(r)
    OBVIOUS
  <1>1. /\ Typed /\ SessionFits(r) /\ req[r] \in Request /\ u \in Messages
        /\ req[r].kind \notin OwnerKinds /\ req[r].work # <<>>
    BY AtMessage DEF ReviewAdded, OfMail
  <1>2. PICK review : review = [status |-> "quarantined", titled |-> FALSE, job |-> FALSE]
    OBVIOUS
  <1>3. review \in Review /\ review.status # "approved" /\ ~review.job
    BY <1>2 DEF Review
  <1>4. PICK line : line = Append(reviews[u], review)
    OBVIOUS
  <1>5. /\ line \in Seq(Review)
        /\ \A i \in DOMAIN line :
             IF i \in DOMAIN reviews[u] THEN line[i] = reviews[u][i] ELSE line[i] = review
        /\ DOMAIN reviews[u] \subseteq DOMAIN line
    BY <1>1, <1>3, <1>4 DEF IInv, TablesType, ReviewsType
  <1>6. reviews' = [reviews EXCEPT ![u] = line]
    BY <1>2, <1>4 DEF ReviewAdded
  <1>7. DOMAIN reviews' = Messages /\ \A m \in Messages : reviews'[m] = IF m = u THEN line ELSE reviews[m]
    BY <1>6 DEF IInv, TablesType, ReviewsType
  <1>8. ReviewsType' /\ ApprovedHasJob'
    <2>1. ReviewsType'
      BY <1>5, <1>7 DEF IInv, TablesType, ReviewsType
    <2>2. jobs' = jobs
      BY DEF ReviewAdded
    <2> QED
      BY <1>3, <1>5, <1>7, <2>1, <2>2 DEF IInv, ApprovedHasJob
  <1>9. RowsType' /\ ClaimsOnly
    BY ClaimsWritten DEF ReviewAdded, IInv, TablesType
  <1>10. RowInv' /\ \A m \in Messages : rows[m] # NoRow => rows'[m] # NoRow
    BY <1>9, RowsStay DEF ReviewAdded, IInv
  <1>11. TablesType'
    BY <1>8, <1>9 DEF ReviewAdded, IInv, TablesType, JobsType, env
  <1>12. Grows
    BY <1>5, <1>7, <1>10 DEF ReviewAdded, Grows
  <1>13. PICK t \in Request : t = Committed(r) /\ t.kind = req[r].kind /\ t.work = req[r].work
    BY <1>1, CommittedType
  <1>14. Became(r, t) /\ pc'[r] = "failed"
    BY <1>1, <1>13, Becomes DEF ReviewAdded, Labels
  <1>15. req'[r] = t /\ Became(r, req'[r])
    BY <1>14 DEF Became
  <1>16. OnMessage(r)'
    BY <1>1, <1>13, <1>15 DEF OnMessage, Unit
  <1>17. SessionFits(r)'
    BY <1>1, <1>13, <1>14, <1>15, <1>16, UnitFits
  <1> QED
    BY <1>8, <1>10, <1>11, <1>12, <1>15, <1>17, Preserved

LEMMA QuarantineKeeps ==
    ASSUME IInv, NEW r \in Requests, Quarantine(r)
    PROVE  IInv'
  <1>1. CASE ReviewAdded(r)
    BY <1>1, ReviewKeeps
  <1>2. CASE ReviewRefused(r)
    <2>1. /\ Typed /\ SessionFits(r) /\ req[r] \in Request /\ req[r].work # <<>>
          /\ req[r].kind \notin OwnerKinds /\ pc[r] \in OfMail
      BY <1>2, AtMessage DEF ReviewRefused, OfMail
    <2>2. TablesGrow
      BY <1>2, TablesAlone DEF ReviewRefused, IInv, mail
    <2>3. Raise(r, TRUE)
      BY <1>2 DEF ReviewRefused
    <2> QED
      BY <2>1, <2>2, <2>3, RaisedFits, PreservedHere
  <1> QED
    BY <1>1, <1>2, ReviewCases

LEMMA InsertSignalKeeps ==
    ASSUME IInv, NEW r \in Requests, InsertSignal(r)
    PROVE  IInv'
  <1> PICK u : u = Unit(r)
    OBVIOUS
  <1>1. /\ Typed /\ SessionFits(r) /\ req[r] \in Request /\ u \in Messages
        /\ req[r].kind \notin OwnerKinds /\ req[r].work # <<>> /\ pc[r] \in OfMail
        /\ pc[r] = "signal"
    BY AtMessage DEF InsertSignal, OfMail
  <1>2. CASE Raise(r, TRUE) /\ UNCHANGED <<rows, signals, jobs>>
    <2>1. TablesGrow
      BY <1>2, TablesAlone DEF InsertSignal, IInv
    <2> QED
      BY <1>1, <1>2, <2>1, RaisedFits, PreservedHere
  <1>3. CASE /\ signals' = signals \union {u}
             /\ jobs' = [p \in Postings |->
                  IF /\ p \in About[u] \intersect Stored(jobs)
                     /\ Kind[u] \in DOMAIN LifecycleState
                  THEN [jobs[p] EXCEPT !.state = LifecycleState[Kind[u]]]
                  ELSE jobs[p]]
             /\ rows' = WithClaims(r)
             /\ Become(r, "outcome", Committed(r))
    <2>1. /\ RowsType' /\ ClaimsOnly
          /\ \A m \in Messages : m \in req[r].claims => rows'[m] # NoRow
      BY <1>3, ClaimsWritten DEF IInv, TablesType
    <2>2. ASSUME NEW p \in Postings
          PROVE  /\ jobs'[p] \in JobRow \union {NoJob}
                 /\ jobs'[p] # NoJob <=> jobs[p] # NoJob
      <3>1. jobs[p] \in JobRow \union {NoJob}
        BY DEF IInv, TablesType, JobsType
      <3>2. NoJob \notin JobRow
        BY DEF NoJob, JobRow, Decisions
      <3>3. \A k \in DOMAIN LifecycleState : LifecycleState[k] \in IntakeStates
        BY DEF LifecycleState, IntakeStates
      <3>4. CASE jobs'[p] = jobs[p]
        BY <3>1, <3>4
      <3>5. CASE /\ jobs[p] # NoJob /\ Kind[u] \in DOMAIN LifecycleState
                 /\ jobs'[p] = [jobs[p] EXCEPT !.state = LifecycleState[Kind[u]]]
        BY <3>1, <3>2, <3>3, <3>5 DEF JobRow
      <3> QED
        BY <1>3, <3>4, <3>5 DEF Stored
    <2>3. JobsType' /\ Stored(jobs') = Stored(jobs)
      <3>1. jobs' = [p \in Postings |-> jobs'[p]]
        BY <1>3
      <3> QED
        BY <2>2, <3>1 DEF JobsType, Stored
    <2>4. \A p : SamePosition(jobs', p) = SamePosition(jobs, p)
      BY <2>3 DEF SamePosition
    <2>5. \A m \in Messages : Covered(m)' <=> Covered(m)
      BY <2>4 DEF Covered
    <2>6. Claimed(r) /\ (Kind[u] = "alert" => Covered(u)) /\ Kind[u] # "unclear"
      BY <1>1 DEF SessionFits, MailFits
    <2>7. rows'[u] # NoRow
      BY <1>1, <2>1, <2>6, FreshClaim DEF Claimed, ClaimsOnly
    <2>8. RowInv'
      <3>1. ASSUME NEW m \in Messages
            PROVE  RowSays(m)'
        BY <1>3, <2>1, <2>5, <2>6, <2>7, FreshClaim DEF IInv, RowInv, RowSays, ClaimsOnly
      <3> QED
        BY <3>1 DEF RowInv
    <2>9. ApprovedHasJob'
      BY <2>4 DEF InsertSignal, IInv, ApprovedHasJob
    <2>10. TablesType'
      BY <1>1, <1>3, <2>1, <2>3 DEF InsertSignal, IInv, TablesType, ReviewsType, env
    <2>11. Grows
      BY <1>3, <2>1, <2>3, FreshClaim DEF InsertSignal, Grows, ClaimsOnly
    <2>12. PICK t \in Request : t = Committed(r) /\ t.kind = req[r].kind /\ t.work = req[r].work
      BY <1>1, CommittedType
    <2>13. Became(r, t) /\ pc'[r] = "outcome"
      BY <1>1, <1>3, <2>12, Becomes DEF Labels
    <2>14. req'[r] = t /\ Became(r, req'[r])
      BY <2>13 DEF Became
    <2>15. Unit(r)' = u
      BY <2>12, <2>14 DEF Unit
    <2>16. SessionFits(r)'
      BY <1>1, <1>3, <2>6, <2>12, <2>13, <2>14, <2>15
      DEF SessionFits, PhaseFits, MailFits, OwnerFits, Looping, OfMail, OnMessage
    <2> QED
      BY <2>8, <2>9, <2>10, <2>11, <2>14, <2>16, Preserved
  <1> QED
    BY <1>2, <1>3 DEF InsertSignal

(* What the owner's decision leaves of the reviews.                        *)
DecisionIsWritten(r, u, i) ==
    LET new == reviews'[u][i]
    IN /\ DOMAIN reviews' = Messages /\ reviews'[u] \in Seq(Review)
       /\ DOMAIN reviews'[u] = DOMAIN reviews[u]
       /\ \A m \in Messages \ {u} : reviews'[m] = reviews[m]
       /\ \A j \in DOMAIN reviews[u] \ {i} : reviews'[u][j] = reviews[u][j]
       /\ reviews[u][i].titled => new.titled
       /\ reviews[u][i].job => new.job
       /\ \/ new.titled /\ SamePosition(jobs, Correction[u]) # {}
          \/ /\ req[r].kind = "reject" /\ new.status = "rejected"
             /\ new.job = reviews[u][i].job

LEMMA DecisionWritten ==
    ASSUME IInv, NEW r \in Requests, Decide(r), req[r].kind # "confirm"
    PROVE  \E u \in Messages : \E i \in DOMAIN reviews[u] : DecisionIsWritten(r, u, i)
  <1>1. Typed /\ req[r] \in Request /\ pc[r] = "owner" /\ req[r].kind \in OwnerKinds
    BY DEF Decide, IInv, Typed, SessionFits, PhaseFits
  <1>2. PICK u, i : u = Unit(r) /\ i = req[r].at
    OBVIOUS
  <1>3. /\ u \in Messages /\ i \in DOMAIN reviews[u] /\ reviews[u] \in Seq(Review)
        /\ req[r].kind = "approve" => reviews[u][i].titled
        /\ req[r].kind # "reject" => SamePosition(jobs, Correction[u]) # {}
    BY <1>1, <1>2
    DEF IInv, SessionFits, OwnerFits, OnMessage, OwnerKinds, TablesType, ReviewsType
  <1>4. PICK with : with = WithTitle(r)
    OBVIOUS
  <1>5. /\ DOMAIN with = Messages /\ with[u] \in Seq(Review) /\ DOMAIN with[u] = DOMAIN reviews[u]
        /\ \A m \in Messages \ {u} : with[m] = reviews[m]
        /\ \A j \in DOMAIN reviews[u] \ {i} : with[u][j] = reviews[u][j]
        /\ with[u][i].status = reviews[u][i].status /\ with[u][i].job = reviews[u][i].job
        /\ reviews[u][i].titled => with[u][i].titled
        /\ req[r].kind = "correct" => with[u][i].titled
    <2>1. CASE req[r].kind # "correct"
      BY <1>3, <1>4, <2>1 DEF WithTitle, IInv, TablesType, ReviewsType
    <2>2. CASE req[r].kind = "correct"
      <3>1. PICK old \in Review : old = reviews[u][i]
        BY <1>3
      <3>2. PICK new : new = [old EXCEPT !.titled = TRUE]
        OBVIOUS
      <3>3. new \in Review /\ new.titled /\ new.status = old.status /\ new.job = old.job
        BY <3>2 DEF Review
      <3>4. with = [reviews EXCEPT ![u] = [reviews[u] EXCEPT ![i] = new]]
        BY <1>2, <1>4, <2>2, <3>1, <3>2 DEF WithTitle
      <3>5. DOMAIN reviews = Messages
        BY DEF IInv, TablesType, ReviewsType
      <3> QED
        BY <1>3, <3>1, <3>3, <3>4, <3>5
    <2> QED
      BY <2>1, <2>2
  <1>6. PICK old \in Review : old = with[u][i]
    BY <1>3, <1>5
  <1>7. PICK new : new = Decided(old, req[r].kind)
    OBVIOUS
  <1>8. /\ new \in Review /\ new.titled = old.titled /\ (old.job => new.job)
        /\ req[r].kind = "reject" => new.status = "rejected" /\ new.job = old.job
    BY <1>7 DEF Review, Decided
  <1>9. reviews' = [with EXCEPT ![u] = [with[u] EXCEPT ![i] = new]]
    BY <1>2, <1>4, <1>6, <1>7 DEF Decide
  <1>10. /\ DOMAIN reviews' = Messages /\ reviews'[u] \in Seq(Review)
         /\ DOMAIN reviews'[u] = DOMAIN reviews[u] /\ reviews'[u][i] = new
         /\ \A m \in Messages \ {u} : reviews'[m] = reviews[m]
         /\ \A j \in DOMAIN reviews[u] \ {i} : reviews'[u][j] = reviews[u][j]
    BY <1>3, <1>5, <1>8, <1>9
  <1>11. /\ reviews[u][i].titled => new.titled
         /\ reviews[u][i].job => new.job
         /\ \/ new.titled /\ SamePosition(jobs, Correction[u]) # {}
            \/ /\ req[r].kind = "reject" /\ new.status = "rejected"
               /\ new.job = reviews[u][i].job
    BY <1>1, <1>3, <1>5, <1>6, <1>8 DEF OwnerKinds
  <1> QED
    BY <1>3, <1>8, <1>10, <1>11 DEF DecisionIsWritten

LEMMA DecideKeeps ==
    ASSUME IInv, NEW r \in Requests, Decide(r)
    PROVE  IInv'
  <1>1. Typed /\ req[r] \in Request /\ pc[r] = "owner" /\ req[r].kind \in OwnerKinds
    BY DEF Decide, IInv, Typed, SessionFits, PhaseFits
  <1>2. Became(r, req'[r]) /\ SessionFits(r)'
    BY <1>1, Ends DEF Decide
  <1>3. CASE req[r].kind = "confirm"
    <2>1. PICK p : p = Head(req[r].todo)
      OBVIOUS
    <2>2. p \in Stored(jobs)
      BY <1>1, <1>3, <2>1 DEF IInv, SessionFits, OwnerFits
    <2>3. jobs' = [jobs EXCEPT ![p].manual = TRUE] /\ reviews' = reviews
      BY <1>3, <2>1 DEF Decide
    <2>4. PICK job \in JobRow : job = jobs[p] /\ p \in Postings
      BY <2>2 DEF Stored, IInv, TablesType, JobsType
    <2>5. PICK owned : owned = [job EXCEPT !.manual = TRUE]
      OBVIOUS
    <2>6. owned \in JobRow /\ NoJob \notin JobRow
      BY <2>5 DEF JobRow, NoJob, Decisions
    <2>7. jobs' = [jobs EXCEPT ![p] = owned]
      BY <2>3, <2>4, <2>5
    <2>8. JobsType' /\ Stored(jobs') = Stored(jobs)
      BY <2>2, <2>4, <2>6, <2>7 DEF IInv, TablesType, JobsType, Stored
    <2>9. TablesGrow
      BY <2>3, <2>8
      DEF Decide, TablesGrow, IInv, TablesType, RowsType, ReviewsType, ClaimsOnly, TitlesOnly
    <2> QED
      BY <1>2, <2>9, PreservedHere
  <1>4. CASE req[r].kind # "confirm"
    <2>1. PICK u \in Messages : \E i \in DOMAIN reviews[u] : DecisionIsWritten(r, u, i)
      BY <1>4, DecisionWritten
    <2>2. jobs' = jobs
      BY <1>4 DEF Decide
    <2>3. ReviewsType'
      BY <2>1 DEF DecisionIsWritten, IInv, TablesType, ReviewsType
    <2>4. ApprovedHasJob'
      BY <2>1, <2>2 DEF DecisionIsWritten, IInv, ApprovedHasJob
    <2>5. Grows
      BY <2>1, <2>2 DEF DecisionIsWritten, Decide, Grows
    <2>6. TablesType' /\ RowInv'
      BY <2>2, <2>3
      DEF Decide, IInv, TablesType, RowsType, JobsType, RowInv, RowSays, Covered, env
    <2> QED
      BY <1>2, <2>4, <2>5, <2>6, Preserved
  <1> QED
    BY <1>3, <1>4

LEMMA CrashKeeps ==
    ASSUME IInv, Crash
    PROVE  IInv'
  <1>1. TablesType' /\ RowInv' /\ ApprovedHasJob'
    <2>1. RowsType' /\ ReviewsType' /\ JobsType'
      BY DEF Crash, IInv, TablesType, RowsType, ReviewsType, JobsType, mail
    <2>2. parser' \in 1..MaxParser
      <3>1. parser \in 1..MaxParser /\ parser' \in parser..parser + 1 /\ parser' <= MaxParser
        BY DEF Crash, IInv, TablesType
      <3> QED
        BY <3>1, IntakeAssumption
    <2>3. crashes' \in 0..MaxCrashes[workers] /\ workers' = workers /\ workers \in Workers
      <3>1. /\ crashes \in 0..MaxCrashes[workers] /\ workers \in Workers
            /\ crashes < MaxCrashes[workers] /\ crashes' = crashes + 1 /\ workers' = workers
        BY DEF Crash, IInv, TablesType
      <3> QED
        BY <3>1, IntakeAssumption
    <2>4. RowInv' /\ ApprovedHasJob'
      BY DEF Crash, IInv, RowInv, RowSays, Covered, ApprovedHasJob, mail
    <2> QED
      BY <2>1, <2>2, <2>3, <2>4 DEF Crash, IInv, TablesType, mail
  <1>2. Grows
    BY DEF Crash, Grows, mail
  <1>3. NewRequest("sync", <<>>) \in Request
    <2>1. <<>> \in Seq(Messages \union Campaigns) /\ <<>> \in Seq(Postings)
      OBVIOUS
    <2>2. "ACCEPT" \in Decisions /\ "sync" \in RequestKinds
      BY DEF Decisions, RequestKinds
    <2> QED
      BY <2>1, <2>2 DEF NewRequest, Request
  <1>4. /\ pc' = [r \in Requests |-> IF r \in InFlight THEN "idle" ELSE pc[r]]
        /\ req' = [r \in Requests |-> IF r \in InFlight THEN NewRequest("sync", <<>>) ELSE req[r]]
    BY DEF Crash
  <1>5. Typed'
    BY <1>3, <1>4 DEF IInv, Typed, Labels
  <1>6. ASSUME NEW r \in Requests
        PROVE  SessionFits(r)'
    <2>1. CASE r \in InFlight
      BY <1>4, <2>1, IdleFits
    <2>2. CASE r \notin InFlight
      <3>1. pc'[r] = pc[r] /\ req'[r] = req[r] /\ SessionFits(r)
        BY <1>4, <2>2 DEF IInv
      <3> QED
        BY <1>2, <3>1, StaysFit
    <2> QED
      BY <2>1, <2>2
  <1> QED
    BY <1>1, <1>5, <1>6 DEF IInv

LEMMA BackfillKeeps ==
    ASSUME IInv, Backfill
    PROVE  IInv'
  <1>1. PICK row : row = Backfilled(ClaimedRow, 1)
    OBVIOUS
  <1>2. row = [status |-> "REPLAY_REQUIRED", type |-> "JOB_ALERT", parser |-> 1, made |-> 0,
               replay |-> TRUE]
    BY <1>1 DEF Backfilled, ClaimedRow
  <1>3. row \in Row(1..MaxParser, {0, 1} \union {Len(Digest[m]) : m \in Messages})
    <2>1. 1 \in 1..MaxParser
      BY IntakeAssumption
    <2> QED
      BY <1>2, <2>1 DEF Row, Statuses, AlertTypes
  <1>4. row # NoRow
    BY <1>2 DEF NoRow
  <1>5. \A m \in Messages :
          rows'[m] = rows[m] \/ (rows[m] = ClaimedRow /\ rows'[m] = row)
    BY <1>1 DEF Backfill
  <1>6. RowsType'
    <2>1. rows' = [m \in Messages |-> rows'[m]]
      BY DEF Backfill
    <2> QED
      BY <1>3, <1>5, <2>1 DEF IInv, TablesType, RowsType
  <1>7. RowInv'
    <2>1. \A m \in Messages : Covered(m)' <=> Covered(m)
      BY DEF Backfill, Covered
    <2>2. ASSUME NEW m \in Messages
          PROVE  RowSays(m)'
      BY <1>2, <1>4, <1>5, <2>1 DEF Backfill, IInv, RowInv, RowSays
    <2> QED
      BY <2>2 DEF RowInv
  <1>8. Grows
    BY <1>4, <1>5, FreshClaim DEF Backfill, Grows
  <1>9. TablesType' /\ ApprovedHasJob' /\ Typed'
    BY <1>6 DEF Backfill, IInv, TablesType, ReviewsType, JobsType, ApprovedHasJob, Typed, env
  <1>10. ASSUME NEW r \in Requests
         PROVE  SessionFits(r)'
    <2>1. pc'[r] = pc[r] /\ req'[r] = req[r] /\ SessionFits(r)
      BY DEF Backfill, IInv
    <2> QED
      BY <1>8, <2>1, StaysFit
  <1> QED
    BY <1>7, <1>9, <1>10 DEF IInv

LEMMA InitHolds == Init => IInv
  <1> SUFFICES ASSUME Init
               PROVE  IInv
    OBVIOUS
  <1>1. NewRequest("sync", <<>>) \in Request
    <2>1. <<>> \in Seq(Messages \union Campaigns) /\ <<>> \in Seq(Postings)
      OBVIOUS
    <2>2. "ACCEPT" \in Decisions /\ "sync" \in RequestKinds
      BY DEF Decisions, RequestKinds
    <2> QED
      BY <2>1, <2>2 DEF NewRequest, Request
  <1>2. Typed
    BY <1>1 DEF Init, Typed, Labels
  <1>3. TablesType
    <2>1. RowsType /\ ReviewsType /\ JobsType
      BY DEF Init, RowsType, ReviewsType, JobsType
    <2>2. parser \in 1..MaxParser /\ workers \in Workers /\ crashes \in 0..MaxCrashes[workers]
      BY IntakeAssumption DEF Init
    <2> QED
      BY <2>1, <2>2 DEF Init, TablesType
  <1>4. RowInv /\ ApprovedHasJob
    BY DEF Init, RowInv, RowSays, ApprovedHasJob
  <1>5. ASSUME NEW r \in Requests
        PROVE  SessionFits(r)
    BY DEF Init, SessionFits, PhaseFits, MailFits, OwnerFits, Looping, OfMail
  <1> QED
    BY <1>2, <1>3, <1>4, <1>5 DEF IInv

LEMMA StepKeeps ==
    ASSUME IInv, [Next]_vars
    PROVE  IInv'
  <1>1. CASE UNCHANGED vars
    <2>1. TablesGrow
      BY <1>1, TablesAlone DEF vars, mail, env, IInv
    <2>2. TablesType' /\ RowInv' /\ ApprovedHasJob' /\ Grows
      BY <2>1, TablesStay DEF IInv
    <2>3. pc' = pc /\ req' = req
      BY <1>1 DEF vars
    <2>4. ASSUME NEW r \in Requests
          PROVE  SessionFits(r)'
      BY <2>2, <2>3, StaysFit DEF IInv
    <2> QED
      BY <2>2, <2>3, <2>4 DEF IInv, Typed
  <1>2. CASE Next
    BY <1>2, ArriveKeeps, ReviewArrivesKeeps, FinishKeeps, ClaimKeeps, FetchBoardKeeps,
       RecordRunKeeps, LookKeeps, InsertJobKeeps, CommitJobKeeps, LookAtThreadKeeps,
       InsertSignalKeeps, RecordOutcomeKeeps, QuarantineKeeps, RecordFailureKeeps, DecideKeeps,
       CrashKeeps, BackfillKeeps
    DEF Next, Step
  <1> QED
    BY <1>1, <1>2

(* The inductive invariant: what every row says of its message, and what   *)
(* every session relies on while others write.                             *)
THEOREM Invariant == Spec => []IInv
  <1>1. IInv /\ [Next]_vars => IInv'
    BY StepKeeps
  <1> QED
    BY <1>1, InitHolds, PTL DEF Spec

(* Rows, signals, jobs, reviews and sessions have their shapes: no handler *)
(* marks a job that is not there or decides a review out of the queue.     *)
THEOREM IntakeTypeCorrect == Spec => []IntakeTypeOK
  <1>1. IInv => IntakeTypeOK
    BY DEF IInv, TablesType, RowsType, ReviewsType, JobsType, Typed, Labels, IntakeTypeOK
  <1> QED
    BY <1>1, Invariant, PTL

(* No mail is forgotten: a message whose row can suppress it has left its  *)
(* signal and, an alert, all its jobs, whatever the crashes and races of   *)
(* any number of threads.                                                  *)
THEOREM NoMailForgotten == Spec => []NothingForgotten
  <1>1. IInv => NothingForgotten
    <2> SUFFICES ASSUME IInv, NEW m \in Messages,
                        rows[m] # NoRow, Skipped(m) \/ ~Replayed(m)
                 PROVE  m \in signals /\ (Kind[m] = "alert" => Covered(m))
      BY DEF NothingForgotten, Covered
    <2>1. rows[m].status \in Statuses /\ RowSays(m)
      BY DEF IInv, TablesType, RowsType, RowInv, Row
    <2>2. m \in signals
      BY <2>1 DEF Skipped, Replayed, ShouldSkipFetch, ShouldReplayRow, NeedsReplay,
                  LegacyRowNeedsReplay, RowSays, Statuses
    <2> QED
      BY <2>1, <2>2 DEF RowSays
  <1> QED
    BY <1>1, Invariant, PTL

(* No mail is processed again once its signal is there, whether or not the *)
(* outcome was recorded before a crash.                                    *)
THEOREM NoMailTwice == Spec => []NothingTwice
  <1>1. IInv => NothingTwice
    <2> SUFFICES ASSUME IInv, NEW m \in signals
                 PROVE  /\ rows[m] # NoRow
                        /\ ~rows[m].replay =>
                             /\ Skipped(m)
                             /\ rows[m].parser \in {0, parser} => ~Replayed(m)
      BY DEF NothingTwice
    <2>1. m \in Messages /\ RowSays(m) /\ rows[m] # NoRow
      BY DEF IInv, TablesType, RowInv, RowSays
    <2>2. /\ rows[m].status \in Statuses /\ rows[m].replay \in BOOLEAN
          /\ rows[m].made \in Nat
      <3>1. \A n \in Messages : Len(Digest[n]) \in Nat
        BY IntakeAssumption
      <3> QED
        BY <2>1, <3>1 DEF IInv, TablesType, RowsType, Row
    <2>3. ~NeedsReplay(m)
      BY DEF NeedsReplay, LegacyRowNeedsReplay
    <2>4. ASSUME ~rows[m].replay
          PROVE  /\ rows[m].status \in {"LEGACY", "COMPLETE"}
                 /\ rows[m].status = "COMPLETE" => rows[m].made # 0 /\ rows[m].made > 0
      BY <2>1, <2>2, <2>4 DEF RowSays, Statuses
    <2>5. ASSUME ~rows[m].replay
          PROVE  Skipped(m)
      BY <2>1, <2>3, <2>4, <2>5 DEF Skipped, ShouldSkipFetch
    <2>6. ASSUME ~rows[m].replay, rows[m].parser \in {0, parser}
          PROVE  ~Replayed(m)
      BY <2>3, <2>4, <2>6 DEF Replayed, ShouldReplayRow
    <2> QED
      BY <2>1, <2>5, <2>6
  <1> QED
    BY <1>1, Invariant, PTL

(* A review approved, or one that has become a job, has its position in    *)
(* the jobs table.                                                         *)
THEOREM ApprovalFollowsIngestion == Spec => []ApprovedHasJob
  <1>1. IInv => ApprovedHasJob
    BY DEF IInv
  <1> QED
    BY <1>1, Invariant, PTL

-----------------------------------------------------------------------------
(* One worker.  The session at work finds the tables as it left them.      *)
AnyRefused(units) == \E u \in units : Refused(u)
Clean(s) == \/ ~s.broken /\ s.errors \subseteq s.failed \union s.raised
            \/ AnyRefused(s.raised)
FromUnit(r) ==
    req[r].kind \notin OwnerKinds /\ pc[r] \in Looping =>
      Range(req[r].todo) \subseteq Range(Digest[Unit(r)])
AloneFits(r) ==
    /\ Clean(req[r]) /\ FromUnit(r)
    /\ pc[r] \in {"insert", "commit"} =>
         /\ SamePosition(jobs, Head(req[r].todo)) = {}
         /\ req[r].decision = DecisionOf(jobs, Head(req[r].todo))
    /\ pc[r] = "commit" =>
         (req[r].fresh <=> Company[Head(req[r].todo)] \notin companies)
    /\ pc[r] = "signal" => Unit(r) \notin signals

NoRepeats ==
    \A p, q \in Stored(jobs) :
      /\ Position[p] = Position[q] => p = q
      /\ jobs[p].eligible /\ jobs[q].eligible /\ q \in SameUrl(jobs, p) => p = q

Alone ==
    /\ \A q, r \in InFlight : q = r
    /\ \A r \in Requests : AloneFits(r)
    /\ NoRepeats
SerialInv == workers = 1 => Alone

LEMMA NoneInFlight ==
    ASSUME Alone, Cardinality(InFlight) < 1
    PROVE  InFlight = {}
  <1> SUFFICES ASSUME NEW r \in InFlight
               PROVE  FALSE
    OBVIOUS
  <1>1. InFlight = {r}
    BY DEF Alone
  <1>2. Cardinality({r}) = 1
    BY FS_Singleton
  <1> QED
    BY <1>1, <1>2

LEMMA AloneStays ==
    ASSUME Typed, Alone, NEW r \in Requests, Became(r, req'[r]),
           r \in InFlight \/ InFlight = {}, AloneFits(r)', NoRepeats'
    PROVE  Alone'
  <1>1. \A q \in InFlight' : q = r
    BY DEF Alone, InFlight, Became
  <1>2. ASSUME NEW q \in Requests, q # r
        PROVE  AloneFits(q)'
    <2>1. pc[q] \in {"idle", "done"}
      BY <1>2 DEF Alone, InFlight
    <2>2. pc'[q] = pc[q] /\ req'[q] = req[q]
      BY <1>2 DEF Became
    <2> QED
      BY <2>1, <2>2 DEF Alone, AloneFits, FromUnit, Looping
  <1> QED
    BY <1>1, <1>2 DEF Alone

(* A step that inserts nothing.                                            *)
LEMMA AloneQuietly ==
    ASSUME Typed, Alone, NEW r \in Requests, Became(r, req'[r]),
           r \in InFlight \/ InFlight = {}, Clean(req'[r]),
           pc'[r] \notin {"insert", "commit", "signal"}, jobs' = jobs,
           pc'[r] = "look" => FromUnit(r)'
    PROVE  Alone'
  <1>1. AloneFits(r)'
    BY DEF AloneFits, FromUnit, Looping
  <1>2. NoRepeats'
    BY DEF Alone, NoRepeats
  <1> QED
    BY <1>1, <1>2, AloneStays

LEMMA RangeTail ==
    ASSUME NEW S, NEW s \in Seq(S), s # <<>>
    PROVE  Head(s) \in Range(s) /\ Range(Tail(s)) \subseteq Range(s)
  <1>1. /\ DOMAIN Tail(s) = 1..(Len(s) - 1) /\ Head(s) = s[1]
        /\ \A i \in 1..(Len(s) - 1) : Tail(s)[i] = s[i + 1]
        /\ DOMAIN s = 1..Len(s) /\ Len(s) \in Nat \ {0}
    OBVIOUS
  <1>2. Head(s) \in Range(s)
    BY <1>1 DEF Range
  <1>3. \A i \in DOMAIN Tail(s) : i + 1 \in DOMAIN s /\ Tail(s)[i] = s[i + 1]
    BY <1>1
  <1> QED
    BY <1>2, <1>3 DEF Range

LEMMA CleanBegin ==
    ASSUME NEW k, NEW work
    PROVE  Clean(NewRequest(k, work))
  BY DEF Clean, NewRequest

LEMMA CleanNext ==
    ASSUME NEW s \in Request, Clean(s)
    PROVE  /\ Clean(NextUnit(s)) /\ NextUnit(s).failed = s.failed
           /\ NextUnit(s).errors = s.errors /\ NextUnit(s).raised = s.raised
           /\ NextUnit(s).broken = s.broken
  BY DEF Clean, NextUnit, Request

(* An exception leaves a session clean, or it was the database's that     *)
(* refused a posting of the unit.                                          *)
LEMMA CleanRaise ==
    ASSUME IInv, Alone, NEW r \in Requests, NEW broken \in BOOLEAN, Raise(r, broken),
           pc[r] \in Looping \union OfMail, jobs' = jobs,
           broken /\ req[r].kind \notin OwnerKinds => AnyRefused({Unit(r)})
    PROVE  Alone'
  <1>1. Typed /\ (req[r].kind \in {"discover", "all"} => req[r].work # <<>>)
    BY DEF IInv, SessionFits, PhaseFits, OwnerKinds
  <1>2. /\ Became(r, req'[r])
        /\ \/ /\ pc'[r] = "unit" /\ req[r].kind \notin OwnerKinds
              /\ req'[r].errors \subseteq req[r].errors \union req'[r].raised
              /\ req'[r].failed = req[r].failed
              /\ req[r].raised \union {Unit(r)} \subseteq req'[r].raised
              /\ ~broken => req'[r].broken = req[r].broken
           \/ pc'[r] = "done" /\ req'[r].errors = {} /\ req'[r].broken = FALSE
    BY <1>1, Raises DEF OwnerKinds
  <1>3. Clean(req'[r])
    <2>1. Clean(req[r])
      BY DEF Alone, AloneFits
    <2>2. CASE pc'[r] = "unit" /\ (broken \/ AnyRefused(req[r].raised))
      <3>1. AnyRefused(req'[r].raised)
        BY <1>2, <2>2 DEF AnyRefused
      <3> QED
        BY <3>1 DEF Clean
    <2>3. CASE pc'[r] = "unit" /\ ~broken /\ ~AnyRefused(req[r].raised)
      BY <1>2, <2>1, <2>3 DEF Clean
    <2> QED
      BY <1>2, <2>2, <2>3 DEF Clean
  <1>4. r \in InFlight
    BY DEF InFlight, Looping, OfMail
  <1> QED
    BY <1>1, <1>2, <1>3, <1>4, AloneQuietly

LEMMA NextAlone ==
    ASSUME IInv, Alone, NEW r \in Requests, pc[r] \notin {"idle", "done"}, jobs' = jobs,
           NEW s \in Request, Clean(s), Become(r, "unit", NextUnit(s)), s.work # <<>>
    PROVE  Alone'
  <1>1. Typed /\ r \in InFlight
    BY DEF IInv, InFlight
  <1>2. NextUnit(s) \in Request /\ Clean(NextUnit(s))
    BY Advanced, CleanNext
  <1>3. Became(r, NextUnit(s)) /\ pc'[r] = "unit"
    BY <1>1, <1>2, Becomes DEF Labels
  <1>4. req'[r] = NextUnit(s) /\ Became(r, req'[r])
    BY <1>3 DEF Became
  <1> QED
    BY <1>1, <1>2, <1>3, <1>4, AloneQuietly

LEMMA PassedAlone ==
    ASSUME IInv, Alone, NEW r \in Requests, pc[r] \in Looping,
           NEW t \in {req[r], Committed(r)}, NEW q \in Postings, AfterPosting(r, t, q), NoRepeats'
    PROVE  Alone'
  <1>1. /\ Typed /\ req[r].todo # <<>> /\ Clean(req[r]) /\ r \in InFlight
    BY DEF IInv, SessionFits, PhaseFits, Alone, AloneFits, InFlight, Looping
  <1>2. t \in Request /\ t.todo # <<>> /\ Clean(t)
    BY <1>1, CommittedType DEF Typed, Clean
  <1>3. /\ Became(r, req'[r]) /\ AsBefore(req'[r], t)
        /\ \/ pc'[r] \in {"owner", "look"}
           \/ pc'[r] = IF OnMessage(r) THEN "thread" ELSE "run"
    BY <1>1, <1>2, PostingDone
  <1>4. Clean(req'[r])
    BY <1>2, <1>3 DEF Clean, AsBefore
  <1>5. FromUnit(r)'
    <2> SUFFICES ASSUME req'[r].kind \notin OwnerKinds, pc'[r] \in Looping
                 PROVE  Range(req'[r].todo) \subseteq Range(Digest[Unit(r)'])
      BY DEF FromUnit
    <2>1. t.kind = req[r].kind /\ t.work = req[r].work /\ t.todo = req[r].todo
      BY <1>1, CommittedType
    <2>2. req'[r].kind = req[r].kind /\ Unit(r)' = Unit(r)
      BY <1>3, <2>1 DEF AsBefore, Unit
    <2>3. req'[r].todo = Tail(req[r].todo)
      BY <1>1, <1>2, <2>1, <2>2, PostingDone
    <2>4. Range(req[r].todo) \subseteq Range(Digest[Unit(r)])
      BY <2>2 DEF Alone, AloneFits, FromUnit
    <2>5. req[r].todo \in Seq(Postings)
      BY <1>1 DEF Typed, Request
    <2> QED
      BY <1>1, <2>2, <2>3, <2>4, <2>5, RangeTail
  <1>6. AloneFits(r)'
    BY <1>3, <1>4, <1>5 DEF AloneFits
  <1> QED
    BY <1>1, <1>3, <1>6, AloneStays

LEMMA BeginAlone ==
    ASSUME IInv, Alone, NEW r \in Requests, Arrive(r) \/ ReviewArrives(r), workers = 1
    PROVE  Alone'
  <1>1. InFlight = {} /\ jobs' = jobs
    BY NoneInFlight DEF Arrive, ReviewArrives
  <1>2. Typed /\ Typed'
    BY ArriveKeeps, ReviewArrivesKeeps DEF IInv
  <1>3. ASSUME NEW label \in {"unit", "look", "owner"}, NEW s, Become(r, label, s), Clean(s),
               label = "look" => s.kind \in OwnerKinds
        PROVE  Alone'
    <2>1. req'[r] = s /\ s \in Request
      BY <1>2, <1>3 DEF Become, Typed
    <2>2. Became(r, s) /\ pc'[r] = label
      BY <1>2, <1>3, <2>1, Becomes DEF Labels
    <2>3. pc'[r] = "look" => FromUnit(r)'
      BY <1>3, <2>1, <2>2 DEF FromUnit
    <2> QED
      BY <1>1, <1>2, <1>3, <2>1, <2>2, <2>3, AloneQuietly
  <1>4. CASE Arrive(r)
    <2>1. ASSUME NEW k, NEW work, Become(r, "unit", NewRequest(k, work))
          PROVE  Alone'
      BY <1>3, <2>1, CleanBegin
    <2>2. ASSUME Become(r, "look", [NewRequest("confirm", <<>>) EXCEPT !.todo = <<Opportunity>>])
          PROVE  Alone'
      <3>1. /\ Clean([NewRequest("confirm", <<>>) EXCEPT !.todo = <<Opportunity>>])
            /\ [NewRequest("confirm", <<>>) EXCEPT !.todo = <<Opportunity>>].kind \in OwnerKinds
        BY DEF NewRequest, Clean, OwnerKinds
      <3> QED
        BY <1>3, <2>2, <3>1
    <2> QED
      BY <1>4, <2>1, <2>2 DEF Arrive
  <1>5. CASE ReviewArrives(r)
    <2>1. PICK k \in OwnerKinds, m \in Messages, label \in {"owner", "look"} :
            Become(r, label, [NewRequest(k, <<m>>) EXCEPT !.todo = <<Correction[m]>>,
                                                          !.at = Len(reviews[m])])
      BY <1>5 DEF ReviewArrives, OwnerKinds
    <2>2. /\ Clean([NewRequest(k, <<m>>) EXCEPT !.todo = <<Correction[m]>>,
                                                !.at = Len(reviews[m])])
          /\ [NewRequest(k, <<m>>) EXCEPT !.todo = <<Correction[m]>>,
                                          !.at = Len(reviews[m])].kind = k
      BY DEF NewRequest, Clean
    <2> QED
      BY <1>3, <2>1, <2>2
  <1> QED
    BY <1>4, <1>5

LEMMA EndAlone ==
    ASSUME IInv, Alone, NEW r \in Requests, pc[r] \notin {"idle", "done"},
           Become(r, "done", NewRequest(req[r].kind, <<>>)), NoRepeats'
    PROVE  Alone'
  <1>1. Typed /\ r \in InFlight
    BY DEF IInv, InFlight
  <1>2. Became(r, req'[r]) /\ req'[r] = NewRequest(req[r].kind, <<>>) /\ pc'[r] = "done"
    BY <1>1, Ends DEF Become, Goto, Typed
  <1>3. AloneFits(r)'
    BY <1>2, CleanBegin DEF AloneFits, FromUnit, Looping
  <1> QED
    BY <1>1, <1>2, <1>3, AloneStays

LEMMA ClaimAlone ==
    ASSUME IInv, Alone, NEW r \in Requests, Claim(r)
    PROVE  Alone'
  <1>1. /\ Typed /\ r \in InFlight /\ req[r] \in Request /\ Clean(req[r]) /\ req[r].work # <<>>
        /\ jobs' = jobs /\ pc[r] \notin {"idle", "done"}
    BY DEF Claim, IInv, InFlight, Typed, Alone, AloneFits
  <1>2. CASE Become(r, "unit", NextUnit(req[r]))
    BY <1>1, <1>2, NextAlone
  <1>3. CASE ~Become(r, "unit", NextUnit(req[r]))
    <2>1. PICK m \in Messages : m = Unit(r)
      BY DEF Claim, OnMessage
    <2>2. PICK s : s = IF rows[m] = NoRow THEN [req[r] EXCEPT !.claims = @ \union {m}] ELSE req[r]
      OBVIOUS
    <2>3. s \in Request /\ Clean(s)
      BY <1>1, <2>2 DEF Request, Clean
    <2>4. PICK t : t = [s EXCEPT !.todo = Digest[m]]
      OBVIOUS
    <2>5. t \in Request /\ Clean(t)
      <3>1. Digest[m] \in Seq(Postings)
        BY IntakeAssumption
      <3> QED
        BY <2>3, <2>4, <3>1 DEF Request, Clean
    <2>6. PICK label \in {"quarantine", "look", "thread"}, u \in {s, t} :
            Become(r, label, u) /\ (label = "look" => u = t)
      BY <1>3, <2>1, <2>2, <2>4 DEF Claim
    <2>7. Became(r, u) /\ pc'[r] = label /\ Clean(u)
      BY <1>1, <2>3, <2>5, <2>6, Becomes DEF Labels
    <2>8. req'[r] = u /\ Became(r, req'[r])
      BY <2>7 DEF Became
    <2>9. s.work = req[r].work /\ t.work = s.work /\ t.todo = Digest[m]
      BY <1>1, <2>2, <2>3, <2>4 DEF Request
    <2>10. pc'[r] = "look" => FromUnit(r)'
      BY <2>1, <2>6, <2>7, <2>8, <2>9 DEF FromUnit, Unit
    <2> QED
      BY <1>1, <2>7, <2>8, <2>10, AloneQuietly
  <1> QED
    BY <1>2, <1>3

LEMMA FetchBoardAlone ==
    ASSUME IInv, Alone, NEW r \in Requests, FetchBoard(r)
    PROVE  Alone'
  <1>1. /\ Typed /\ r \in InFlight /\ req[r] \in Request /\ Clean(req[r]) /\ req[r].work # <<>>
        /\ jobs' = jobs /\ (req[r].broken => AnyRefused(req[r].raised))
    BY DEF FetchBoard, IInv, InFlight, Typed, Alone, AloneFits, Clean
  <1>2. PICK b \in Campaigns : b = Unit(r)
    BY <1>1, AtHand DEF FetchBoard
  <1>3. \E label \in {"unit", "run", "look"}, s \in Request :
          /\ Become(r, label, s) /\ Clean(s)
          /\ label = "look" => s.todo = Digest[b] /\ s.work = req[r].work
    <2>1. CASE \E recorded \in BOOLEAN :
                 Become(r, "unit",
                      [NextUnit(IF recorded THEN Committed(r) ELSE req[r])
                         EXCEPT !.errors = @ \union {b}, !.failed = @ \union {b}])
      <3>1. PICK recorded \in BOOLEAN :
                 Become(r, "unit",
                      [NextUnit(IF recorded THEN Committed(r) ELSE req[r])
                         EXCEPT !.errors = @ \union {b}, !.failed = @ \union {b}])
        BY <2>1
      <3> PICK t : t = IF recorded THEN Committed(r) ELSE req[r]
        OBVIOUS
      <3>2. t \in Request /\ Clean(t) /\ t.work # <<>>
        BY <1>1, CommittedType DEF Clean
      <3>3. NextUnit(t) \in Request /\ Clean(NextUnit(t))
        BY <3>2, Advanced, CleanNext
      <3>4. PICK s : s = [NextUnit(t) EXCEPT !.errors = @ \union {b}, !.failed = @ \union {b}]
        OBVIOUS
      <3>5. s \in Request /\ Clean(s)
        BY <3>3, <3>4, ZenonT(60) DEF Request, Clean
      <3> QED
        BY <3>1, <3>4, <3>5
    <2>2. CASE Become(r, IF Digest[b] = <<>> THEN "run" ELSE "look",
                      [req[r] EXCEPT !.todo = Digest[b]])
      <3>1. PICK s : s = [req[r] EXCEPT !.todo = Digest[b]]
        OBVIOUS
      <3>2. Digest[b] \in Seq(Postings)
        BY IntakeAssumption
      <3>3. s \in Request /\ Clean(s) /\ s.todo = Digest[b] /\ s.work = req[r].work
        BY <1>1, <3>1, <3>2 DEF Request, Clean
      <3> QED
        BY <2>2, <3>1, <3>3
    <2>3. CASE /\ req[r].broken
               /\ Become(r, "unit", [NextUnit(req[r]) EXCEPT !.errors = @ \union {b}])
      <3>1. PICK s : s = [NextUnit(req[r]) EXCEPT !.errors = @ \union {b}]
        OBVIOUS
      <3>2. NextUnit(req[r]) \in Request /\ NextUnit(req[r]).raised = req[r].raised
        BY <1>1, Advanced
      <3>3. s \in Request /\ s.raised = req[r].raised
        BY <3>1, <3>2 DEF Request
      <3>4. Clean(s)
        BY <1>1, <2>3, <3>3 DEF Clean
      <3> QED
        BY <2>3, <3>1, <3>3, <3>4
    <2> QED
      BY <1>1, <1>2, <2>1, <2>2, <2>3 DEF FetchBoard
  <1>4. PICK label \in {"unit", "run", "look"}, s \in Request :
          /\ Become(r, label, s) /\ Clean(s)
          /\ label = "look" => s.todo = Digest[b] /\ s.work = req[r].work
    BY <1>3
  <1>5. Became(r, s) /\ pc'[r] = label
    BY <1>1, <1>4, Becomes DEF Labels
  <1>6. req'[r] = s /\ Became(r, req'[r])
    BY <1>5 DEF Became
  <1>7. pc'[r] = "look" => FromUnit(r)'
    BY <1>2, <1>4, <1>5, <1>6 DEF FromUnit, Unit
  <1> QED
    BY <1>1, <1>4, <1>5, <1>6, <1>7, AloneQuietly

LEMMA RecordRunAlone ==
    ASSUME IInv, Alone, NEW r \in Requests, RecordRun(r)
    PROVE  Alone'
  <1>1. Typed /\ Clean(req[r]) /\ req[r].work # <<>>
    BY DEF RecordRun, IInv, SessionFits, PhaseFits, OwnerKinds, Alone, AloneFits
  <1>2. PICK t \in Request : t = Committed(r) /\ Clean(t) /\ t.work # <<>>
    BY <1>1, CommittedType DEF Clean
  <1> QED
    BY <1>2, NextAlone DEF RecordRun

LEMMA SamePostings ==
    ASSUME JobsType, JobsType', Stored(jobs') = Stored(jobs), NoRepeats,
           \A p \in Stored(jobs) : jobs'[p].eligible = jobs[p].eligible
    PROVE  NoRepeats'
  <1>1. \A p : SameUrl(jobs', p) = SameUrl(jobs, p)
    BY DEF SameUrl
  <1> QED
    BY <1>1 DEF NoRepeats

LEMMA LookAlone ==
    ASSUME IInv, Alone, NEW r \in Requests, Look(r)
    PROVE  Alone'
  <1> PICK p : p = Head(req[r].todo)
    OBVIOUS
  <1>1. /\ Typed /\ req[r] \in Request /\ p \in Postings /\ pc[r] \in Looping /\ jobs' = jobs
        /\ Clean(req[r]) /\ r \in InFlight
    BY AtPosting DEF Look, Looping, Alone, AloneFits, InFlight
  <1>2. NoRepeats'
    BY <1>1 DEF Alone, NoRepeats
  <1>3. CASE Raise(r, FALSE)
    BY <1>1, <1>3, CleanRaise
  <1>4. CASE AfterPosting(r, req[r], p)
    BY <1>1, <1>2, <1>4, PassedAlone
  <1>5. CASE \E q \in SamePosition(jobs, p) : AfterPosting(r, Committed(r), q)
    <2>1. PICK q \in SamePosition(jobs, p) : AfterPosting(r, Committed(r), q)
      BY <1>5
    <2>2. q \in Postings
      BY DEF SamePosition, Stored
    <2> QED
      BY <1>1, <1>2, <2>1, <2>2, PassedAlone
  <1>6. CASE /\ SamePosition(jobs, p) = {}
             /\ Become(r, "insert", [req[r] EXCEPT !.decision = DecisionOf(jobs, p)])
    <2>1. PICK s : s = [req[r] EXCEPT !.decision = DecisionOf(jobs, p)]
      OBVIOUS
    <2>2. DecisionOf(jobs, p) \in Decisions
      BY <1>1, PostingAssumption DEF DecisionOf, Decisions
    <2>3. /\ s \in Request /\ Clean(s) /\ s.todo = req[r].todo
          /\ s.decision = DecisionOf(jobs, p)
          /\ s.kind = req[r].kind /\ s.work = req[r].work
      BY <1>1, <2>1, <2>2 DEF Request, Clean
    <2>4. Became(r, s) /\ pc'[r] = "insert"
      BY <1>1, <1>6, <2>1, <2>3, Becomes DEF Labels
    <2>5. req'[r] = s /\ Became(r, req'[r])
      BY <2>4 DEF Became
    <2>6. FromUnit(r)'
      BY <1>1, <2>3, <2>5 DEF Alone, AloneFits, FromUnit, Unit
    <2>7. AloneFits(r)'
      BY <1>1, <1>6, <2>3, <2>4, <2>5, <2>6 DEF AloneFits
    <2> QED
      BY <1>1, <1>2, <2>5, <2>7, AloneStays
  <1> QED
    BY <1>3, <1>4, <1>5, <1>6 DEF Look

LEMMA InsertJobAlone ==
    ASSUME IInv, Alone, NEW r \in Requests, InsertJob(r)
    PROVE  Alone'
  <1> PICK p : p = Head(req[r].todo)
    OBVIOUS
  <1>1. /\ Typed /\ req[r] \in Request /\ p \in Postings /\ jobs' = jobs
        /\ companies' = companies /\ r \in InFlight
        /\ Clean(req[r]) /\ SamePosition(jobs, p) = {} /\ req[r].decision = DecisionOf(jobs, p)
    BY AtPosting DEF InsertJob, Looping, Alone, AloneFits, InFlight
  <1>2. jobs[p] = NoJob
    BY <1>1 DEF SamePosition, Stored
  <1>3. CASE p \in Unstorable
    <2>1. Raise(r, TRUE)
      BY <1>3 DEF InsertJob
    <2>2. ASSUME req[r].kind \notin OwnerKinds PROVE AnyRefused({Unit(r)})
      <3>1. /\ Range(req[r].todo) \subseteq Range(Digest[Unit(r)])
            /\ req[r].todo \in Seq(Postings) /\ req[r].todo # <<>>
        BY <1>1, <2>2 DEF InsertJob, Alone, AloneFits, FromUnit, Looping, Request,
                          IInv, SessionFits, PhaseFits
      <3>2. p \in Range(Digest[Unit(r)])
        BY <3>1, RangeTail
      <3> QED
        BY <1>3, <3>2 DEF AnyRefused, Refused
    <2>3. pc[r] \in Looping
      BY DEF InsertJob, Looping
    <2> QED
      BY <1>1, <2>1, <2>2, <2>3, CleanRaise
  <1>4. CASE p \notin Unstorable
    <2>1. PICK fresh \in BOOLEAN : fresh = (Company[p] \notin companies)
      OBVIOUS
    <2>2. PICK s : s = [req[r] EXCEPT !.fresh = fresh]
      OBVIOUS
    <2>3. /\ s \in Request /\ Clean(s) /\ s.todo = req[r].todo /\ s.decision = req[r].decision
          /\ s.fresh <=> Company[p] \notin companies
          /\ s.kind = req[r].kind /\ s.work = req[r].work
      BY <1>1, <2>1, <2>2 DEF Request, Clean
    <2>4. Become(r, "commit", s)
      BY <1>2, <1>4, <2>1, <2>2 DEF InsertJob
    <2>5. Became(r, s) /\ pc'[r] = "commit"
      BY <1>1, <2>3, <2>4, Becomes DEF Labels
    <2>6. req'[r] = s /\ Became(r, req'[r])
      BY <2>5 DEF Became
    <2>7. FromUnit(r)'
      BY <1>1, <2>3, <2>6 DEF InsertJob, Alone, AloneFits, FromUnit, Unit, Looping
    <2>8. AloneFits(r)'
      BY <1>1, <2>3, <2>5, <2>6, <2>7 DEF AloneFits
    <2>9. NoRepeats'
      BY <1>1 DEF Alone, NoRepeats
    <2> QED
      BY <1>1, <2>6, <2>8, <2>9, AloneStays
  <1> QED
    BY <1>3, <1>4

LEMMA CommitJobAlone ==
    ASSUME IInv, Alone, NEW r \in Requests, CommitJob(r)
    PROVE  Alone'
  <1> PICK p : p = Head(req[r].todo)
    OBVIOUS
  <1> PICK job : job = NewJob(p, req[r].decision)
    OBVIOUS
  <1>1. /\ Typed /\ req[r] \in Request /\ p \in Postings /\ pc[r] \in Looping
        /\ SamePosition(jobs, p) = {} /\ req[r].decision = DecisionOf(jobs, p)
        /\ req[r].fresh <=> Company[p] \notin companies
    BY AtPosting DEF CommitJob, Looping, Alone, AloneFits
  <1>2. jobs' = [jobs EXCEPT ![p] = job] /\ AfterPosting(r, Committed(r), p)
    BY <1>1 DEF CommitJob
  <1>3. job \in JobRow /\ job # NoJob
    BY <1>1, NewJobType DEF Request
  <1>4. jobs \in [Postings -> JobRow \union {NoJob}]
    BY DEF IInv, TablesType, JobsType
  <1>5. /\ \A q \in Postings : jobs'[q] = IF q = p THEN job ELSE jobs[q]
        /\ Stored(jobs') = Stored(jobs) \union {p}
    BY <1>1, <1>2, <1>3, <1>4 DEF Stored
  <1>6. p \notin Stored(jobs) /\ \A q \in Stored(jobs) : Position[q] # Position[p]
    BY <1>1 DEF SamePosition
  <1>7. job.eligible => \A q \in Stored(jobs) : ~(Url[q] = Url[p] /\ Url[p] # NoUrl)
    <2>1. job.eligible => req[r].decision # "DUPLICATE"
      BY DEF NewJob, EligibleForOwner
    <2> QED
      BY <1>1, <2>1 DEF DecisionOf, SameUrl
  <1>8. NoRepeats'
    <2>1. ASSUME NEW a \in Stored(jobs'), NEW b \in Stored(jobs')
          PROVE  /\ Position[a] = Position[b] => a = b
                 /\ jobs'[a].eligible /\ jobs'[b].eligible /\ b \in SameUrl(jobs', a) => a = b
      <3>1. CASE a = p /\ b = p
        BY <3>1
      <3>2. CASE a \in Stored(jobs) /\ b \in Stored(jobs)
        <4>1. a # p /\ b # p /\ a \in Postings /\ b \in Postings
          BY <1>6, <3>2 DEF Stored
        <4>2. jobs'[a] = jobs[a] /\ jobs'[b] = jobs[b]
          BY <1>5, <4>1
        <4>3. b \in SameUrl(jobs', a) <=> b \in SameUrl(jobs, a)
          BY <1>5, <3>2 DEF SameUrl
        <4> QED
          BY <3>2, <4>2, <4>3 DEF Alone, NoRepeats
      <3>3. CASE a = p /\ b \in Stored(jobs)
        BY <1>1, <1>5, <1>6, <1>7, <3>3 DEF SameUrl
      <3>4. CASE a \in Stored(jobs) /\ b = p
        BY <1>1, <1>5, <1>6, <1>7, <3>4 DEF SameUrl
      <3> QED
        BY <1>5, <3>1, <3>2, <3>3, <3>4
    <2> QED
      BY <2>1 DEF NoRepeats
  <1> QED
    BY <1>1, <1>2, <1>8, PassedAlone

LEMMA LookAtThreadAlone ==
    ASSUME IInv, Alone, NEW r \in Requests, LookAtThread(r)
    PROVE  Alone'
  <1>1. /\ Typed /\ req[r] \in Request /\ pc[r] \in OfMail /\ req[r].work # <<>>
        /\ Unit(r) \in Messages /\ Clean(req[r]) /\ r \in InFlight
        /\ jobs' = jobs /\ signals' = signals /\ pc[r] \notin {"idle", "done"}
    BY AtMessage DEF LookAtThread, OfMail, Alone, AloneFits, InFlight, mail
  <1>2. CASE Raise(r, FALSE)
    BY <1>1, <1>2, CleanRaise
  <1>3. CASE Become(r, "unit", NextUnit(req[r]))
    BY <1>1, <1>3, NextAlone
  <1>4. CASE ThreadSignals(Unit(r)) = {} /\ Become(r, "signal", req[r])
    <2>1. Unit(r) \notin signals
      BY <1>4 DEF ThreadSignals
    <2>2. Became(r, req[r]) /\ pc'[r] = "signal"
      BY <1>1, <1>4, Becomes DEF Labels
    <2>3. req'[r] = req[r] /\ Became(r, req'[r])
      BY <2>2 DEF Became
    <2>4. AloneFits(r)'
      BY <1>1, <2>1, <2>2, <2>3 DEF AloneFits, Unit, FromUnit, Looping
    <2>5. NoRepeats'
      BY <1>1 DEF Alone, NoRepeats
    <2> QED
      BY <1>1, <2>3, <2>4, <2>5, AloneStays
  <1> QED
    BY <1>2, <1>3, <1>4 DEF LookAtThread

LEMMA SignalAlone ==
    ASSUME IInv, Alone, NEW r \in Requests, InsertSignal(r), Unit(r) \notin UnstorableMail
    PROVE  Alone'
  <1> PICK u : u = Unit(r)
    OBVIOUS
  <1>1. /\ Typed /\ req[r] \in Request /\ u \notin signals /\ Clean(req[r]) /\ r \in InFlight
        /\ JobsType /\ NoRepeats
    BY AtMessage DEF InsertSignal, OfMail, Alone, AloneFits, InFlight, IInv, TablesType
  <1>2. /\ jobs' = [p \in Postings |->
                  IF /\ p \in About[u] \intersect Stored(jobs)
                     /\ Kind[u] \in DOMAIN LifecycleState
                  THEN [jobs[p] EXCEPT !.state = LifecycleState[Kind[u]]]
                  ELSE jobs[p]]
        /\ Become(r, "outcome", Committed(r))
    BY <1>1 DEF InsertSignal
  <1>3. JobsType'
    BY InsertSignalKeeps DEF IInv, TablesType
  <1>4. NoJob \notin JobRow
    BY DEF NoJob, JobRow, Decisions
  <1>5. ASSUME NEW p \in Postings
        PROVE  /\ jobs'[p] # NoJob <=> jobs[p] # NoJob
               /\ jobs[p] # NoJob => jobs'[p].eligible = jobs[p].eligible
    <2>1. jobs[p] \in JobRow \union {NoJob}
      BY <1>1 DEF JobsType
    <2>2. CASE jobs'[p] = jobs[p]
      BY <2>2
    <2>3. CASE /\ jobs[p] \in JobRow
               /\ jobs'[p] = [jobs[p] EXCEPT !.state = LifecycleState[Kind[u]]]
      <3>1. jobs'[p].decision = jobs[p].decision /\ jobs'[p].eligible = jobs[p].eligible
        BY <2>3 DEF JobRow
      <3>2. jobs'[p].decision # "none"
        BY <2>3, <3>1 DEF JobRow, Decisions
      <3> QED
        BY <1>4, <2>3, <3>1, <3>2 DEF NoJob
    <2> QED
      BY <1>2, <2>1, <2>2, <2>3 DEF Stored
  <1>6. NoRepeats'
    <2>1. Stored(jobs') = Stored(jobs)
      BY <1>5 DEF Stored
    <2>2. \A p \in Stored(jobs) : jobs'[p].eligible = jobs[p].eligible
      BY <1>5 DEF Stored
    <2> QED
      BY <1>1, <1>3, <2>1, <2>2, SamePostings
  <1>7. Committed(r) \in Request /\ Clean(Committed(r))
    BY <1>1, CommittedType DEF Clean
  <1>8. Became(r, Committed(r)) /\ pc'[r] = "outcome"
    BY <1>1, <1>2, <1>7, Becomes DEF Labels
  <1>9. req'[r] = Committed(r) /\ Became(r, req'[r])
    BY <1>8 DEF Became
  <1>10. AloneFits(r)'
    BY <1>7, <1>8, <1>9 DEF AloneFits, FromUnit, Looping
  <1> QED
    BY <1>1, <1>6, <1>9, <1>10, AloneStays

LEMMA InsertSignalAlone ==
    ASSUME IInv, Alone, NEW r \in Requests, InsertSignal(r)
    PROVE  Alone'
  <1>1. CASE Unit(r) \in UnstorableMail
    <2>1. Raise(r, TRUE) /\ jobs' = jobs /\ pc[r] \in OfMail
      BY <1>1 DEF InsertSignal, OfMail
    <2>2. AnyRefused({Unit(r)})
      BY <1>1 DEF AnyRefused, Refused
    <2> QED
      BY <2>1, <2>2, CleanRaise
  <1> QED
    BY <1>1, SignalAlone

LEMMA RecordAlone ==
    ASSUME IInv, Alone, NEW r \in Requests, RecordOutcome(r) \/ RecordFailure(r)
    PROVE  Alone'
  <1>1. /\ req[r] \in Request /\ Clean(req[r]) /\ req[r].work # <<>>
        /\ jobs' = jobs /\ pc[r] \notin {"idle", "done"} /\ Become(r, "unit", NextUnit(req[r]))
    BY AtMessage DEF RecordOutcome, RecordFailure, OfMail, Alone, AloneFits
  <1> QED
    BY <1>1, NextAlone

LEMMA ReviewAlone ==
    ASSUME IInv, Alone, NEW r \in Requests, ReviewAdded(r)
    PROVE  Alone'
  <1>1. Typed /\ Clean(req[r]) /\ r \in InFlight /\ jobs' = jobs
    BY DEF ReviewAdded, IInv, Alone, AloneFits, InFlight
  <1>2. Committed(r) \in Request /\ Clean(Committed(r))
    BY <1>1, CommittedType DEF Clean
  <1>3. Became(r, Committed(r)) /\ pc'[r] = "failed"
    BY <1>1, <1>2, Becomes DEF ReviewAdded, Labels
  <1>4. req'[r] = Committed(r) /\ Became(r, req'[r])
    BY <1>3 DEF Became
  <1> QED
    BY <1>1, <1>2, <1>3, <1>4, AloneQuietly

LEMMA QuarantineAlone ==
    ASSUME IInv, Alone, NEW r \in Requests, Quarantine(r)
    PROVE  Alone'
  <1>1. CASE ReviewAdded(r)
    BY <1>1, ReviewAlone
  <1>2. CASE ReviewRefused(r)
    <2>1. AnyRefused({Unit(r)})
      BY <1>2 DEF ReviewRefused, AnyRefused, Refused
    <2> QED
      BY <1>2, <2>1, CleanRaise DEF ReviewRefused, OfMail
  <1> QED
    BY <1>1, <1>2, ReviewCases

LEMMA DecideAlone ==
    ASSUME IInv, Alone, NEW r \in Requests, Decide(r)
    PROVE  Alone'
  <1>1. pc[r] = "owner" /\ Become(r, "done", NewRequest(req[r].kind, <<>>))
    BY DEF Decide
  <1>2. JobsType /\ JobsType' /\ NoRepeats
    BY DecideKeeps DEF IInv, TablesType, Alone
  <1>3. NoRepeats'
    <2>1. CASE jobs' = jobs
      BY <1>2, <2>1 DEF NoRepeats
    <2>2. CASE jobs' = [jobs EXCEPT ![Head(req[r].todo)].manual = TRUE]
      <3>1. NoJob \notin JobRow
        BY DEF NoJob, JobRow, Decisions
      <3>2. ASSUME NEW p \in Postings
            PROVE  /\ jobs'[p] # NoJob <=> jobs[p] # NoJob
                   /\ jobs[p] # NoJob => jobs'[p].eligible = jobs[p].eligible
        <4>1. jobs[p] \in JobRow \union {NoJob}
          BY <1>2 DEF JobsType
        <4>2. CASE jobs'[p] = jobs[p]
          BY <4>2
        <4>3. CASE jobs[p] \in JobRow /\ jobs'[p] = [jobs[p] EXCEPT !.manual = TRUE]
          <5>1. jobs'[p].decision = jobs[p].decision /\ jobs'[p].eligible = jobs[p].eligible
            BY <4>3 DEF JobRow
          <5>2. jobs'[p].decision # "none"
            BY <4>3, <5>1 DEF JobRow, Decisions
          <5> QED
            BY <3>1, <4>3, <5>1, <5>2 DEF NoJob
        <4>4. CASE jobs[p] = NoJob /\ jobs'[p] = [jobs[p] EXCEPT !.manual = TRUE]
          <5>1. jobs'[p] = NoJob
            BY <4>4 DEF NoJob
          <5> QED
            BY <4>4, <5>1
        <4> QED
          BY <1>2, <2>2, <4>1, <4>2, <4>3, <4>4 DEF JobsType
      <3>3. Stored(jobs') = Stored(jobs)
        BY <3>2 DEF Stored
      <3>4. \A p \in Stored(jobs) : jobs'[p].eligible = jobs[p].eligible
        BY <3>2 DEF Stored
      <3> QED
        BY <1>2, <3>3, <3>4, SamePostings
    <2> QED
      BY <2>1, <2>2 DEF Decide
  <1> QED
    BY <1>1, <1>3, EndAlone

LEMMA CrashAlone ==
    ASSUME IInv, Alone, Crash
    PROVE  Alone'
  <1>1. \A r \in Requests : pc'[r] \in {"idle", "done"}
                            /\ (req'[r] = req[r] \/ req'[r] = NewRequest("sync", <<>>))
    BY DEF Crash, InFlight
  <1>2. \A r \in Requests : AloneFits(r)'
    BY <1>1, CleanBegin DEF Alone, AloneFits, FromUnit, Looping
  <1>3. NoRepeats'
    BY DEF Crash, Alone, NoRepeats
  <1>4. InFlight' = {}
    BY <1>1 DEF InFlight
  <1> QED
    BY <1>2, <1>3, <1>4 DEF Alone

LEMMA SerialKeeps ==
    ASSUME IInv, SerialInv, [Next]_vars
    PROVE  SerialInv'
  <1> SUFFICES ASSUME workers' = 1
               PROVE  Alone'
    BY DEF SerialInv
  <1>1. workers' = workers
    BY DEF Next, Arrive, ReviewArrives, Step, Finish, Claim, FetchBoard, RecordRun, Look,
           InsertJob, CommitJob, LookAtThread, InsertSignal, RecordOutcome, Quarantine,
           RecordFailure, Decide, Crash, Backfill, vars, env
  <1>2. Alone /\ workers = 1
    BY <1>1 DEF SerialInv
  <1>3. CASE UNCHANGED vars \/ Backfill
    BY <1>2, <1>3
    DEF vars, mail, env, Backfill, Alone, AloneFits, FromUnit, InFlight, NoRepeats, Unit
  <1>4. ASSUME NEW r \in Requests, Finish(r)
        PROVE  Alone'
    <2>1. NoRepeats'
      BY <1>2, <1>4 DEF Finish, Alone, NoRepeats
    <2> QED
      BY <1>2, <1>4, <2>1, EndAlone DEF Finish
  <1>5. CASE Next
    BY <1>2, <1>3, <1>4, <1>5, BeginAlone, ClaimAlone, FetchBoardAlone, RecordRunAlone, LookAlone,
       InsertJobAlone, CommitJobAlone, LookAtThreadAlone, InsertSignalAlone, RecordAlone,
       QuarantineAlone, DecideAlone, CrashAlone
    DEF Next, Step
  <1> QED
    BY <1>3, <1>5

(* With one worker: what the session at work read is still so when it      *)
(* writes, so that no unique constraint fails, and a session is broken or  *)
(* reports a board that did not fail itself only after the database        *)
(* refused a posting too long for its column.                              *)
THEOREM SerialInvariant == Spec => []SerialInv
  <1>1. Init => SerialInv
    BY CleanBegin
    DEF Init, SerialInv, Alone, AloneFits, FromUnit, Looping, InFlight, NoRepeats, Stored
  <1>2. IInv /\ SerialInv /\ [Next]_vars => SerialInv'
    BY SerialKeeps
  <1> QED
    BY <1>1, <1>2, Invariant, PTL DEF Spec

(* With one worker repeats are recognised: one job per position, one that  *)
(* the owner sees per URL.                                                 *)
THEOREM OneEligibleJob == Spec => []OneEligibleJobWhenSerial
  <1>1. SerialInv => OneEligibleJobWhenSerial
    BY DEF SerialInv, Alone, NoRepeats, OneEligibleJobWhenSerial
  <1> QED
    BY <1>1, SerialInvariant, PTL

(* With one worker the failure of a board stays with the board, unless the *)
(* database refused a posting of it or of an earlier unit.                 *)
THEOREM BoardsIsolated == Spec => []BoardsIsolatedWhenSerial
  <1>1. SerialInv => BoardsIsolatedWhenSerial
    BY DEF SerialInv, Alone, AloneFits, Clean, AnyRefused, BoardsIsolatedWhenSerial
  <1> QED
    BY <1>1, SerialInvariant, PTL

-----------------------------------------------------------------------------
(* The ledger.  Two more things no step breaks: a job about to be          *)
(* committed is in no table and in no other session, and a message nothing *)
(* could be read in never gets a signal.                                   *)
AtCommit(r) == pc[r] = "commit"
CommitFits(r) ==
    AtCommit(r) =>
      /\ Head(req[r].todo) \notin Stored(jobs)
      /\ \A q \in Requests \ {r} :
           AtCommit(q) => Head(req[q].todo) # Head(req[r].todo)
UnreadFits(r) == pc[r] \in {"quarantine", "failed"} => Kind[Unit(r)] = "unclear"
LInv ==
    /\ \A m \in signals : Kind[m] # "unclear"
    /\ \A r \in Requests : CommitFits(r) /\ UnreadFits(r)

(* Where a session goes.                                                   *)
Elsewhere == Labels \ {"commit", "quarantine", "failed"}
GoesOn(r) == \E label \in Elsewhere : \E s : Become(r, label, s)

LEMMA Moves ==
    ASSUME Typed, NEW r \in Requests, NEW label, NEW s, Become(r, label, s)
    PROVE  /\ pc'[r] = label /\ req'[r] = s
           /\ \A q \in Requests \ {r} : pc'[q] = pc[q] /\ req'[q] = req[q]
  BY DEF Typed, Become, Goto

LEMMA PostingGoesOn ==
    ASSUME NEW r, NEW t, NEW q, AfterPosting(r, t, q)
    PROVE  GoesOn(r)
  BY DEF AfterPosting, GoesOn, Elsewhere, Labels

LEMMA RaiseGoesOn ==
    ASSUME NEW r, NEW broken, Raise(r, broken)
    PROVE  GoesOn(r)
  BY DEF Raise, GoesOn, Elsewhere, Labels

LEMMA CalmStep ==
    ASSUME Typed, LInv, NEW r \in Requests, GoesOn(r), Stored(jobs') = Stored(jobs),
           \A m \in signals' \ signals : Kind[m] # "unclear"
    PROVE  LInv'
  <1>1. PICK label, s : label \in Elsewhere /\ Become(r, label, s)
    BY DEF GoesOn
  <1>2. /\ pc'[r] \notin {"commit", "quarantine", "failed"}
        /\ \A q \in Requests \ {r} : pc'[q] = pc[q] /\ req'[q] = req[q]
    BY <1>1, Moves DEF Elsewhere
  <1> QED
    BY <1>2 DEF LInv, CommitFits, UnreadFits, AtCommit, Unit

LEMMA SameStored ==
    ASSUME IInv, NEW r \in Requests, Decide(r)
    PROVE  /\ JobDecisions' = JobDecisions /\ Stored(jobs') = Stored(jobs)
           /\ req[r].kind = "confirm" => reviews' = reviews
  <1>1. CASE req[r].kind # "confirm"
    BY <1>1 DEF Decide, JobDecisions
  <1>2. CASE req[r].kind = "confirm"
    <2>1. PICK p : p = Head(req[r].todo)
      OBVIOUS
    <2>2. p \in Stored(jobs)
      BY <1>2, <2>1 DEF Decide, IInv, SessionFits, OwnerFits, OwnerKinds
    <2>3. jobs' = [jobs EXCEPT ![p].manual = TRUE] /\ reviews' = reviews
      BY <1>2, <2>1 DEF Decide
    <2>4. PICK job \in JobRow : job = jobs[p] /\ p \in Postings
      BY <2>2 DEF Stored, IInv, TablesType, JobsType
    <2>5. PICK owned : owned = [job EXCEPT !.manual = TRUE]
      OBVIOUS
    <2>6. owned \in JobRow /\ NoJob \notin JobRow /\ owned.decision = job.decision
      BY <2>5 DEF JobRow, NoJob, Decisions
    <2>7. jobs' = [jobs EXCEPT ![p] = owned]
      BY <2>3, <2>4, <2>5
    <2>8. \A q \in Postings : /\ jobs'[q].decision = jobs[q].decision
                              /\ jobs'[q] = NoJob <=> jobs[q] = NoJob
      BY <2>4, <2>6, <2>7 DEF IInv, TablesType, JobsType
    <2> QED
      BY <2>3, <2>8 DEF JobDecisions, Stored
  <1> QED
    BY <1>1, <1>2

(* The row of a job changes by a signal in its state only.                 *)
LEMMA SignalledJobs ==
    ASSUME IInv, NEW m, jobs' = [p \in Postings |->
             IF /\ p \in About[m] \intersect Stored(jobs)
                /\ Kind[m] \in DOMAIN LifecycleState
             THEN [jobs[p] EXCEPT !.state = LifecycleState[Kind[m]]]
             ELSE jobs[p]]
    PROVE  JobDecisions' = JobDecisions /\ Stored(jobs') = Stored(jobs)
  <1>1. ASSUME NEW p \in Postings
        PROVE  /\ jobs'[p].decision = jobs[p].decision
               /\ jobs'[p] = NoJob <=> jobs[p] = NoJob
    <2>1. jobs[p] \in JobRow \union {NoJob} /\ NoJob \notin JobRow
      BY DEF IInv, TablesType, JobsType, NoJob, JobRow, Decisions
    <2>2. \A k \in DOMAIN LifecycleState : LifecycleState[k] \in IntakeStates
      BY DEF LifecycleState, IntakeStates
    <2>3. CASE jobs'[p] = jobs[p]
      BY <2>3
    <2>4. CASE /\ jobs[p] # NoJob /\ Kind[m] \in DOMAIN LifecycleState
               /\ jobs'[p] = [jobs[p] EXCEPT !.state = LifecycleState[Kind[m]]]
      <3>1. PICK job \in JobRow : job = jobs[p]
        BY <2>1, <2>4
      <3>2. PICK state \in IntakeStates : state = LifecycleState[Kind[m]]
        BY <2>2, <2>4
      <3>3. PICK new : new = [job EXCEPT !.state = state]
        OBVIOUS
      <3>4. new \in JobRow /\ new.decision = job.decision
        BY <3>3 DEF JobRow
      <3> QED
        BY <2>1, <2>4, <3>1, <3>2, <3>3, <3>4
    <2> QED
      BY <2>3, <2>4 DEF Stored
  <1> QED
    BY <1>1 DEF JobDecisions, Stored

LEMMA QuietStep ==
    ASSUME IInv, LInv, NEW r \in Requests,
           \/ Arrive(r) \/ ReviewArrives(r) \/ Finish(r) \/ FetchBoard(r) \/ RecordRun(r)
           \/ Look(r) \/ LookAtThread(r) \/ RecordOutcome(r) \/ RecordFailure(r) \/ Decide(r)
    PROVE  LInv'
  <1>1. Stored(jobs') = Stored(jobs)
    <2>1. CASE Decide(r)
      BY <2>1, SameStored
    <2> QED
      BY <2>1 DEF Arrive, ReviewArrives, Finish, FetchBoard, RecordRun, Look, LookAtThread,
                  RecordOutcome, RecordFailure
  <1>2. signals' = signals
    BY DEF Arrive, ReviewArrives, Finish, FetchBoard, RecordRun, Look, LookAtThread,
           RecordOutcome, RecordFailure, Decide, mail
  <1>3. GoesOn(r)
    <2>1. CASE Arrive(r) \/ ReviewArrives(r)
      BY <2>1 DEF Arrive, ReviewArrives, GoesOn, Elsewhere, Labels
    <2>2. CASE Finish(r) \/ RecordRun(r) \/ RecordOutcome(r) \/ RecordFailure(r) \/ Decide(r)
      BY <2>2 DEF Finish, RecordRun, RecordOutcome, RecordFailure, Decide, GoesOn, Elsewhere, Labels
    <2>3. CASE FetchBoard(r)
      BY <2>3 DEF FetchBoard, GoesOn, Elsewhere, Labels
    <2>4. CASE \E label \in {"unit", "insert", "signal"} : \E s : Become(r, label, s)
      BY <2>4 DEF GoesOn, Elsewhere, Labels
    <2>5. CASE Look(r)
      <3>1. \/ Raise(r, FALSE)
            \/ \E t, q : AfterPosting(r, t, q)
            \/ \E label \in {"unit", "insert", "signal"} : \E s : Become(r, label, s)
        BY <2>5 DEF Look
      <3> QED
        BY <2>4, <3>1, PostingGoesOn, RaiseGoesOn
    <2>6. CASE LookAtThread(r)
      <3>1. \/ \E s : Become(r, "unit", s)
            \/ \E s : Become(r, "signal", s)
            \/ Raise(r, FALSE)
        BY <2>6, Zenon DEF LookAtThread
      <3> QED
        BY <2>4, <3>1, RaiseGoesOn
    <2> QED
      BY <2>1, <2>2, <2>3, <2>5, <2>6
  <1> QED
    BY <1>1, <1>2, <1>3, CalmStep DEF IInv

LEMMA ClaimStays ==
    ASSUME IInv, LInv, NEW r \in Requests, Claim(r)
    PROVE  LInv'
  <1>1. /\ UNCHANGED <<jobs, signals>> /\ Typed /\ req[r] \in Request
    BY DEF Claim, mail, IInv, Typed
  <1>2. PICK m : m = Unit(r)
    OBVIOUS
  <1>3. PICK s : s = IF rows[m] = NoRow THEN [req[r] EXCEPT !.claims = @ \union {m}] ELSE req[r]
    OBVIOUS
  <1>4. s.work = req[r].work
    BY <1>1, <1>3 DEF Request
  <1>5. \/ \E label \in {"unit", "look", "thread"} : \E t : Become(r, label, t)
        \/ Kind[m] = "unclear" /\ Become(r, "quarantine", s)
    BY <1>2, <1>3 DEF Claim
  <1>6. CASE \E label \in {"unit", "look", "thread"} : \E t : Become(r, label, t)
    BY <1>1, <1>6, CalmStep DEF GoesOn, Elsewhere, Labels
  <1>7. CASE Kind[m] = "unclear" /\ Become(r, "quarantine", s)
    <2>1. /\ pc'[r] = "quarantine" /\ req'[r] = s
          /\ \A q \in Requests \ {r} : pc'[q] = pc[q] /\ req'[q] = req[q]
      BY <1>1, <1>7, Moves
    <2>2. Unit(r)' = m
      BY <1>2, <1>4, <2>1 DEF Unit
    <2> QED
      BY <1>1, <1>7, <2>1, <2>2 DEF LInv, CommitFits, UnreadFits, AtCommit, Unit
  <1> QED
    BY <1>5, <1>6, <1>7

LEMMA ReviewStays ==
    ASSUME IInv, LInv, NEW r \in Requests, ReviewAdded(r)
    PROVE  LInv'
  <1>1. UNCHANGED <<jobs, signals>> /\ Typed
    BY DEF ReviewAdded, IInv
  <1>2. PICK s : s = Committed(r) /\ s.work = req[r].work
    BY <1>1, CommittedType
  <1>3. /\ pc'[r] = "failed" /\ req'[r] = s
        /\ \A q \in Requests \ {r} : pc'[q] = pc[q] /\ req'[q] = req[q]
    BY <1>1, <1>2, Moves DEF ReviewAdded
  <1>4. Unit(r)' = Unit(r) /\ Kind[Unit(r)] = "unclear"
    BY <1>2, <1>3 DEF Unit, ReviewAdded, LInv, UnreadFits
  <1> QED
    BY <1>1, <1>3, <1>4 DEF LInv, CommitFits, UnreadFits, AtCommit, Unit

LEMMA QuarantineStays ==
    ASSUME IInv, LInv, NEW r \in Requests, Quarantine(r)
    PROVE  LInv'
  <1>1. CASE ReviewAdded(r)
    BY <1>1, ReviewStays
  <1>2. CASE ReviewRefused(r)
    BY <1>2, RaiseGoesOn, CalmStep DEF ReviewRefused, IInv, mail
  <1> QED
    BY <1>1, <1>2, ReviewCases

(* The wait for another session's key is what keeps two of them from       *)
(* committing one posting.                                                 *)
LEMMA InsertJobStays ==
    ASSUME IInv, LInv, NEW r \in Requests, InsertJob(r)
    PROVE  LInv'
  <1> PICK p : p = Head(req[r].todo)
    OBVIOUS
  <1>1. /\ UNCHANGED <<jobs, signals>> /\ Typed /\ req[r] \in Request /\ p \in Postings
    BY AtPosting DEF InsertJob, mail, Looping
  <1>2. CASE Raise(r, TRUE)
    BY <1>1, <1>2, RaiseGoesOn, CalmStep
  <1>3. CASE /\ jobs[p] = NoJob
             /\ Become(r, "commit", [req[r] EXCEPT !.fresh = Company[p] \notin companies])
    <2>1. PICK s : s = [req[r] EXCEPT !.fresh = Company[p] \notin companies]
      OBVIOUS
    <2>2. s.todo = req[r].todo
      BY <1>1, <2>1 DEF Request
    <2>3. /\ pc'[r] = "commit" /\ req'[r] = s
          /\ \A q \in Requests \ {r} : pc'[q] = pc[q] /\ req'[q] = req[q]
      BY <1>1, <1>3, <2>1, Moves
    <2>4. \A q \in Requests \ {r} : AtCommit(q) => Head(req[q].todo) # p
      BY DEF InsertJob, InFlight, AtCommit
    <2>5. p \notin Stored(jobs)
      BY <1>3 DEF Stored
    <2> QED
      BY <1>1, <2>2, <2>3, <2>4, <2>5 DEF LInv, CommitFits, UnreadFits, AtCommit, Unit
  <1> QED
    BY <1>2, <1>3 DEF InsertJob

LEMMA CommitJobStays ==
    ASSUME IInv, LInv, NEW r \in Requests, CommitJob(r)
    PROVE  LInv'
  <1> PICK p : p = Head(req[r].todo)
    OBVIOUS
  <1>1. signals' = signals /\ Typed /\ AtCommit(r) /\ p \in Postings
    BY AtPosting DEF CommitJob, Looping, AtCommit
  <1>2. CASE Raise(r, TRUE) /\ jobs' = jobs
    BY <1>1, <1>2, RaiseGoesOn, CalmStep
  <1>3. CASE /\ jobs' = [jobs EXCEPT ![p] = NewJob(p, req[r].decision)]
             /\ AfterPosting(r, Committed(r), p)
    <2>1. PICK label, s : label \in Elsewhere /\ Become(r, label, s)
      BY <1>3, PostingGoesOn DEF GoesOn
    <2>2. /\ pc'[r] \notin {"commit", "quarantine", "failed"}
          /\ \A q \in Requests \ {r} : pc'[q] = pc[q] /\ req'[q] = req[q]
      BY <1>1, <2>1, Moves DEF Elsewhere
    <2>3. Stored(jobs') \subseteq Stored(jobs) \union {p}
      BY <1>3 DEF Stored, IInv, TablesType, JobsType
    <2>4. \A q \in Requests \ {r} : AtCommit(q) => Head(req[q].todo) # p
      BY <1>1 DEF LInv, CommitFits
    <2> QED
      BY <1>1, <2>2, <2>3, <2>4 DEF LInv, CommitFits, UnreadFits, AtCommit, Unit
  <1> QED
    BY <1>2, <1>3 DEF CommitJob

LEMMA InsertSignalStays ==
    ASSUME IInv, LInv, NEW r \in Requests, InsertSignal(r)
    PROVE  LInv'
  <1>1. Typed /\ Kind[Unit(r)] # "unclear"
    BY DEF InsertSignal, IInv, SessionFits, MailFits, PhaseFits, OfMail
  <1>2. CASE Raise(r, TRUE) /\ UNCHANGED <<signals, jobs>>
    BY <1>1, <1>2, RaiseGoesOn, CalmStep
  <1>3. CASE signals' = signals \union {Unit(r)} /\ Become(r, "outcome", Committed(r))
             /\ Stored(jobs') = Stored(jobs)
    BY <1>1, <1>3, CalmStep DEF GoesOn, Elsewhere, Labels
  <1> QED
    BY <1>2, <1>3, SignalledJobs DEF InsertSignal

LEMMA LedgerStays ==
    ASSUME IInv, LInv, [Next]_vars
    PROVE  LInv'
  <1>1. CASE UNCHANGED vars \/ Backfill
    BY <1>1 DEF vars, mail, env, Backfill, LInv, CommitFits, UnreadFits, AtCommit, Unit
  <1>2. CASE Crash
    <2>1. /\ \A r \in Requests : pc'[r] \in {"idle", "done"}
          /\ signals' = signals
      BY <1>2 DEF Crash, InFlight, mail
    <2> QED
      BY <2>1 DEF LInv, CommitFits, UnreadFits, AtCommit
  <1> QED
    BY <1>1, <1>2, QuietStep, ClaimStays, QuarantineStays, InsertJobStays, CommitJobStays,
       InsertSignalStays
    DEF Next, Step

(* What the fetch leaves out is what has a signal and no flag.             *)
SettledUnflagged == \A m : m \in LeftOut <=> m \in signals /\ ~rows[m].replay

LEMMA LeftOutIs ==
    ASSUME IInv
    PROVE  SettledUnflagged
  <1> SUFFICES ASSUME NEW m \in Messages
               PROVE  Skipped(m) <=> m \in signals /\ ~rows[m].replay
    BY DEF SettledUnflagged, LeftOut, IInv, TablesType
  <1>1. RowSays(m) /\ (m \in signals => ~NeedsReplay(m)) /\ (NeedsReplay(m) <=> m \notin signals)
    BY DEF IInv, RowInv, NeedsReplay, LegacyRowNeedsReplay
  <1>2. ASSUME Skipped(m) PROVE m \in signals /\ ~rows[m].replay
    <2>1. rows[m] # NoRow /\ rows[m].status \in {"LEGACY", "COMPLETE"} /\ ~rows[m].replay
      BY <1>2 DEF Skipped, ShouldSkipFetch
    <2>2. rows[m].status = "LEGACY" => ~NeedsReplay(m)
      BY <1>2 DEF Skipped, ShouldSkipFetch
    <2> QED
      BY <1>1, <2>1, <2>2 DEF RowSays
  <1>3. ASSUME m \in signals, ~rows[m].replay PROVE Skipped(m)
    <2>1. rows[m] # NoRow
      BY <1>1, <1>3 DEF RowSays
    <2>2. rows[m].status \in Statuses /\ rows[m].made \in Nat
      <3>1. \A n \in Messages : Len(Digest[n]) \in Nat
        BY IntakeAssumption
      <3> QED
        BY <2>1, <3>1 DEF IInv, TablesType, RowsType, Row
    <2>3. /\ rows[m].status \in {"LEGACY", "COMPLETE"}
          /\ rows[m].status = "COMPLETE" => rows[m].made > 0
      BY <1>1, <1>3, <2>1, <2>2 DEF RowSays, Statuses
    <2> QED
      BY <1>1, <1>3, <2>1, <2>3 DEF Skipped, ShouldSkipFetch
  <1> QED
    BY <1>2, <1>3

LEMMA LeftOutNext == IInv' => SettledUnflagged'
  <1>1. IInv => SettledUnflagged
    BY LeftOutIs
  <1> QED
    BY <1>1, PTL

LEMMA StoredIs ==
    ASSUME IInv
    PROVE  /\ \A p \in Postings : p \in Stored(jobs) <=> JobDecisions[p] # "none"
           /\ \A p : Ledger!IsStored(p) <=> SamePosition(jobs, p) # {}
  <1>1. \A p \in Postings : p \in Stored(jobs) <=> JobDecisions[p] # "none"
    <2>1. \A p \in Postings : jobs[p] \in JobRow \/ jobs[p] = NoJob
      BY DEF IInv, TablesType, JobsType
    <2>2. \A job \in JobRow : job.decision # "none" /\ job # NoJob
      BY DEF JobRow, Decisions, NoJob
    <2>3. NoJob.decision = "none"
      BY DEF NoJob
    <2> QED
      BY <2>1, <2>2, <2>3 DEF JobDecisions, Stored
  <1>2. Stored(jobs) \subseteq Postings
    BY DEF Stored
  <1> QED
    BY <1>1, <1>2 DEF Ledger!IsStored, SamePosition

(* A step that the ledger does not see.                                    *)
LEMMA TitlesUnseen ==
    ASSUME TitlesOnly
    PROVE  WithJob' = WithJob
  BY DEF TitlesOnly, WithJob

LEMMA ClaimsUnseen ==
    ASSUME IInv, IInv', ClaimsOnly, signals' = signals
    PROVE  LeftOut' = LeftOut
  <1>1. \A m \in signals : m \in Messages /\ rows[m] # NoRow
    BY DEF IInv, TablesType, RowInv, RowSays
  <1>2. \A m \in signals : rows'[m] = rows[m]
    BY <1>1 DEF ClaimsOnly
  <1>3. \A m : m \in LeftOut' <=> m \in signals' /\ ~rows'[m].replay
    BY LeftOutNext DEF SettledUnflagged
  <1> QED
    BY <1>2, <1>3, LeftOutIs DEF SettledUnflagged

LEMMA RowsAlone ==
    ASSUME rows' = rows
    PROVE  ClaimsOnly
  BY DEF ClaimsOnly

LEMMA TitlesAsWere ==
    ASSUME reviews' = reviews
    PROVE  TitlesOnly
  BY DEF TitlesOnly

LEMMA RowsOrClaims ==
    ASSUME IInv, NEW r \in Requests, rows' = rows \/ rows' = WithClaims(r)
    PROVE  ClaimsOnly
  BY RowsAlone, ClaimsWritten DEF IInv, TablesType

Seen == UNCHANGED <<JobDecisions, signals, LeftOut, WithJob>>

LEMMA UnseenStep ==
    ASSUME IInv, IInv', NEW r \in Requests,
           \/ Arrive(r) \/ ReviewArrives(r) \/ Finish(r) \/ Claim(r) \/ FetchBoard(r)
           \/ RecordRun(r) \/ Look(r) \/ InsertJob(r) \/ LookAtThread(r)
    PROVE  Seen
  <1>1. jobs' = jobs /\ signals' = signals
    BY DEF Arrive, ReviewArrives, Finish, Claim, FetchBoard, RecordRun, Look, InsertJob,
           LookAtThread, mail
  <1>2. rows' = rows \/ rows' = WithClaims(r)
    BY DEF Arrive, ReviewArrives, Finish, Claim, FetchBoard, RecordRun, Look, InsertJob,
           LookAtThread, mail
  <1>3. TitlesOnly
    <2>1. CASE Look(r) /\ reviews' = WithTitle(r)
      <3>1. /\ req[r].kind = "correct" =>
                 Unit(r) \in Messages /\ req[r].at \in DOMAIN reviews[Unit(r)]
        BY <2>1, AtPosting DEF Look, Looping
      <3> QED
        BY <2>1, <3>1, TitleWritten DEF IInv, TablesType
    <2>2. CASE reviews' = reviews
      BY <2>2, TitlesAsWere
    <2> QED
      BY <2>1, <2>2 DEF Arrive, ReviewArrives, Finish, Claim, FetchBoard, RecordRun, Look,
                        InsertJob, LookAtThread, mail
  <1>4. LeftOut' = LeftOut
    BY <1>1, <1>2, RowsOrClaims, ClaimsUnseen
  <1>5. JobDecisions' = JobDecisions
    BY <1>1 DEF JobDecisions
  <1> QED
    BY <1>1, <1>3, <1>4, <1>5, TitlesUnseen DEF Seen

LEMMA CommitIsStore ==
    ASSUME IInv, IInv', LInv, NEW r \in Requests, CommitJob(r)
    PROVE  Seen \/ \E p \in Postings, d \in Decisions : Ledger!Store(p, d)
  <1> PICK p : p = Head(req[r].todo)
    OBVIOUS
  <1>1. /\ Typed /\ req[r] \in Request /\ p \in Postings /\ AtCommit(r)
        /\ signals' = signals
        /\ req[r].kind = "correct" =>
             Unit(r) \in Messages /\ req[r].at \in DOMAIN reviews[Unit(r)]
    BY AtPosting DEF CommitJob, Looping, AtCommit
  <1>2. rows' = rows \/ rows' = WithClaims(r)
    BY DEF CommitJob
  <1>3. TitlesOnly
    BY <1>1, TitlesAsWere, TitleWritten DEF CommitJob, IInv, TablesType
  <1>4. LeftOut' = LeftOut /\ WithJob' = WithJob
    BY <1>1, <1>2, <1>3, RowsOrClaims, ClaimsUnseen, TitlesUnseen
  <1>5. CASE jobs' = jobs
    BY <1>1, <1>4, <1>5 DEF Seen, JobDecisions
  <1>6. CASE jobs' = [jobs EXCEPT ![p] = NewJob(p, req[r].decision)]
    <2>1. PICK d \in Decisions : d = req[r].decision
      BY <1>1 DEF Request
    <2>2. NewJob(p, d).decision = d
      BY DEF NewJob
    <2>3. JobDecisions' = [JobDecisions EXCEPT ![p] = d]
      BY <1>1, <1>6, <2>1, <2>2 DEF JobDecisions, IInv, TablesType, JobsType
    <2>4. JobDecisions[p] = "none"
      BY <1>1, StoredIs DEF LInv, CommitFits
    <2>5. Ledger!Store(p, d)
      BY <1>1, <1>4, <2>3, <2>4 DEF Ledger!Store
    <2> QED
      BY <1>1, <2>5
  <1> QED
    BY <1>5, <1>6 DEF CommitJob

LEMMA SignalIsSettle ==
    ASSUME IInv, IInv', LInv, NEW r \in Requests, InsertSignal(r)
    PROVE  Seen \/ \E m \in Messages : Ledger!Settle(m)
  <1> PICK m : m = Unit(r)
    OBVIOUS
  <1>1. /\ m \in Messages /\ SessionFits(r) /\ req[r].kind \notin OwnerKinds
        /\ pc[r] = "signal" /\ WithJob' = WithJob
    BY AtMessage DEF InsertSignal, OfMail, WithJob
  <1>2. CASE UNCHANGED <<rows, signals, jobs>>
    <2>1. LeftOut' = LeftOut
      BY <1>2, RowsAlone, ClaimsUnseen
    <2> QED
      BY <1>1, <1>2, <2>1 DEF Seen, JobDecisions
  <1>3. CASE /\ m \notin signals /\ signals' = signals \union {m}
             /\ JobDecisions' = JobDecisions /\ rows' = WithClaims(r)
    <2>1. \A p \in Announces[m] : Ledger!IsStored(p)
      <3>1. Kind[m] = "alert" => Covered(m)
        BY <1>1 DEF SessionFits, MailFits
      <3> QED
        BY <1>1, <3>1, StoredIs DEF Covered, Announces, Range
    <2>2. \A n \in signals : rows'[n] = rows[n]
      <3>1. ClaimsOnly
        BY <1>3, RowsOrClaims
      <3>2. \A n \in signals : n \in Messages /\ rows[n] # NoRow
        BY DEF IInv, TablesType, RowInv, RowSays
      <3> QED
        BY <3>1, <3>2 DEF ClaimsOnly
    <2>3. \A n : n \in LeftOut' <=> n \in signals' /\ ~rows'[n].replay
      BY LeftOutNext DEF SettledUnflagged
    <2>4. LeftOut' \in {LeftOut, LeftOut \union {m}}
      <3>1. \A n : n # m => (n \in LeftOut' <=> n \in LeftOut)
        BY <1>3, <2>2, <2>3, LeftOutIs DEF SettledUnflagged
      <3>2. m \notin LeftOut
        BY <1>3, LeftOutIs DEF SettledUnflagged
      <3> QED
        BY <3>1, <3>2
    <2>5. Ledger!Settle(m)
      BY <1>1, <1>3, <2>1, <2>4 DEF Ledger!Settle
    <2> QED
      BY <1>1, <2>5
  <1>4. \/ UNCHANGED <<rows, signals, jobs>>
        \/ /\ m \notin signals /\ signals' = signals \union {m}
           /\ JobDecisions' = JobDecisions /\ rows' = WithClaims(r)
    BY SignalledJobs DEF InsertSignal
  <1> QED
    BY <1>2, <1>3, <1>4

LEMMA RowLeavesOthers ==
    ASSUME IInv, IInv', NEW m \in Messages, NEW row,
           rows' = [rows EXCEPT ![m] = row], signals' = signals
    PROVE  /\ \A n : n # m => (n \in LeftOut' <=> n \in LeftOut)
           /\ m \in LeftOut' <=> m \in signals /\ ~row.replay
  <1>1. rows'[m] = row /\ \A n \in Messages : n # m => rows'[n] = rows[n]
    BY DEF IInv, TablesType, RowsType
  <1>2. \A n : n \in LeftOut' <=> n \in signals' /\ ~rows'[n].replay
    BY LeftOutNext DEF SettledUnflagged
  <1>3. signals \subseteq Messages
    BY DEF IInv, TablesType
  <1> QED
    BY <1>1, <1>2, <1>3, LeftOutIs DEF SettledUnflagged

LEMMA OutcomeIsDrop ==
    ASSUME IInv, IInv', NEW r \in Requests, RecordOutcome(r)
    PROVE  \E m \in Messages : Ledger!Drop(m)
  <1> PICK m : m = Unit(r)
    OBVIOUS
  <1>1. m \in Messages /\ Kind[m] # "unclear" /\ m \in signals
    BY AtMessage DEF RecordOutcome, OfMail, IInv, SessionFits, MailFits
  <1>2. UNCHANGED <<JobDecisions, signals, WithJob>>
    BY DEF RecordOutcome, JobDecisions, WithJob
  <1>3. ~OutcomeOf(m).replay
    <2>1. CASE Kind[m] = "alert"
      <3>1. PICK n : n = Len(Digest[m])
        OBVIOUS
      <3>2. n \in Nat /\ n # 0
        BY <1>1, <2>1, <3>1, IntakeAssumption
      <3> QED
        BY <2>1, <3>1, <3>2 DEF OutcomeOf, AlertOutcome
    <2>2. CASE Kind[m] # "alert"
      BY <2>2 DEF OutcomeOf, SignalOutcome
    <2> QED
      BY <2>1, <2>2
  <1>4. LeftOut' = LeftOut \union {m}
    BY <1>1, <1>2, <1>3, RowLeavesOthers DEF RecordOutcome
  <1> QED
    BY <1>1, <1>2, <1>4 DEF Ledger!Drop

LEMMA FailureIsUnseen ==
    ASSUME IInv, IInv', LInv, NEW r \in Requests, RecordFailure(r)
    PROVE  Seen
  <1> PICK m : m = Unit(r)
    OBVIOUS
  <1>1. m \in Messages /\ m \notin signals
    BY AtMessage DEF RecordFailure, OfMail, LInv, UnreadFits
  <1>2. UNCHANGED <<JobDecisions, signals, WithJob>>
    BY DEF RecordFailure, JobDecisions, WithJob
  <1>3. LeftOut' = LeftOut
    BY <1>1, <1>2, RowLeavesOthers, LeftOutIs DEF RecordFailure, SettledUnflagged
  <1> QED
    BY <1>2, <1>3 DEF Seen

LEMMA ReviewIsUnseen ==
    ASSUME IInv, IInv', NEW r \in Requests, ReviewAdded(r)
    PROVE  Seen
  <1> PICK u : u = Unit(r)
    OBVIOUS
  <1>1. u \in Messages /\ UNCHANGED <<JobDecisions, signals>>
    BY AtMessage DEF ReviewAdded, OfMail, JobDecisions
  <1>2. LeftOut' = LeftOut
    BY <1>1, RowsOrClaims, ClaimsUnseen DEF ReviewAdded
  <1>3. PICK review : review = [status |-> "quarantined", titled |-> FALSE, job |-> FALSE]
    OBVIOUS
  <1>4. PICK line : line = Append(reviews[u], review)
    OBVIOUS
  <1>5. /\ \A i \in DOMAIN line :
             IF i \in DOMAIN reviews[u] THEN line[i] = reviews[u][i] ELSE line[i] = review
        /\ DOMAIN reviews[u] \subseteq DOMAIN line
    BY <1>1, <1>4 DEF IInv, TablesType, ReviewsType
  <1>6. \A m \in Messages : reviews'[m] = IF m = u THEN line ELSE reviews[m]
    BY <1>3, <1>4 DEF ReviewAdded, IInv, TablesType, ReviewsType
  <1>7. ~review.job
    BY <1>3
  <1>8. WithJob' = WithJob
    BY <1>5, <1>6, <1>7 DEF WithJob
  <1> QED
    BY <1>1, <1>2, <1>8 DEF Seen

LEMMA QuarantineIsUnseen ==
    ASSUME IInv, IInv', NEW r \in Requests, Quarantine(r)
    PROVE  Seen
  <1>1. CASE ReviewAdded(r)
    BY <1>1, ReviewIsUnseen
  <1>2. CASE ReviewRefused(r)
    <2>1. UNCHANGED <<rows, signals, jobs, reviews>>
      BY <1>2 DEF ReviewRefused, mail
    <2>2. LeftOut' = LeftOut
      BY <2>1, RowsAlone, ClaimsUnseen
    <2> QED
      BY <2>1, <2>2 DEF Seen, JobDecisions, WithJob
  <1> QED
    BY <1>1, <1>2, ReviewCases

LEMMA DecisionIsAccept ==
    ASSUME IInv, IInv', NEW r \in Requests, Decide(r)
    PROVE  Seen \/ \E m \in Messages : Ledger!Accept(m)
  <1>1. UNCHANGED <<JobDecisions, signals>>
    BY SameStored DEF Decide
  <1>2. LeftOut' = LeftOut
    BY RowsAlone, ClaimsUnseen DEF Decide
  <1>3. CASE req[r].kind = "confirm"
    BY <1>1, <1>2, <1>3, SameStored DEF Seen, WithJob
  <1>4. CASE req[r].kind # "confirm"
    <2>1. PICK u \in Messages : \E i \in DOMAIN reviews[u] : DecisionIsWritten(r, u, i)
      BY <1>4, DecisionWritten
    <2>2. PICK i \in DOMAIN reviews[u] : DecisionIsWritten(r, u, i)
      BY <2>1
    <2>3. /\ \A m \in Messages \ {u} : reviews'[m] = reviews[m]
          /\ DOMAIN reviews'[u] = DOMAIN reviews[u]
          /\ \A j \in DOMAIN reviews[u] \ {i} : reviews'[u][j] = reviews[u][j]
      BY <2>2 DEF DecisionIsWritten
    <2>4. \A m : m # u => (m \in WithJob' <=> m \in WithJob)
      BY <2>3 DEF WithJob
    <2>5. CASE reviews'[u][i].job = reviews[u][i].job
      BY <1>1, <1>2, <2>3, <2>4, <2>5 DEF Seen, WithJob
    <2>6. CASE SamePosition(jobs, Correction[u]) # {} /\ u \in WithJob'
      <3>1. WithJob' = WithJob \union {u}
        BY <2>4, <2>6
      <3>2. Ledger!IsStored(Correction[u])
        BY <2>6, StoredIs
      <3> QED
        BY <1>1, <1>2, <3>1, <3>2 DEF Ledger!Accept
    <2>7. CASE SamePosition(jobs, Correction[u]) # {} /\ u \notin WithJob'
      <3>1. u \notin WithJob
        BY <2>2, <2>3, <2>7 DEF DecisionIsWritten, WithJob
      <3>2. WithJob' = WithJob
        BY <2>4, <2>7, <3>1
      <3> QED
        BY <1>1, <1>2, <3>2 DEF Seen
    <2> QED
      BY <2>2, <2>5, <2>6, <2>7 DEF DecisionIsWritten
  <1> QED
    BY <1>3, <1>4

LEMMA OthersUnseen ==
    ASSUME IInv, IInv', Crash \/ Backfill
    PROVE  Seen
  <1>1. UNCHANGED <<JobDecisions, signals, WithJob>>
    BY DEF Crash, Backfill, mail, JobDecisions, WithJob
  <1>2. CASE Crash
    BY <1>1, <1>2, RowsAlone, ClaimsUnseen DEF Crash, mail, Seen
  <1>3. CASE Backfill
    <2>1. \A m \in signals : m \in Messages /\ rows'[m] = rows[m]
      BY <1>3 DEF Backfill, NeedsReplay, LegacyRowNeedsReplay, IInv, TablesType
    <2>2. \A m : m \in LeftOut' <=> m \in signals' /\ ~rows'[m].replay
      BY LeftOutNext DEF SettledUnflagged
    <2>3. LeftOut' = LeftOut
      BY <1>1, <2>1, <2>2, LeftOutIs DEF SettledUnflagged
    <2> QED
      BY <1>1, <2>3 DEF Seen
  <1> QED
    BY <1>2, <1>3

(* Intake, with its sessions, threads, rows, boards, deaths and parser     *)
(* versions, keeps the ledger of IntakeLedger: every step is one of the    *)
(* ledger's or changes nothing in it.                                      *)
THEOREM IntakeKeepsLedger == Spec => ImplementsLedger
  <1>1. Init => Ledger!LInit /\ LInv
    <2> SUFFICES ASSUME Init PROVE Ledger!LInit /\ LInv
      OBVIOUS
    <2>1. JobDecisions = [p \in Postings |-> "none"]
      BY DEF Init, JobDecisions, NoJob
    <2>2. LeftOut = {} /\ WithJob = {}
      BY DEF Init, LeftOut, WithJob, Skipped, ShouldSkipFetch
    <2> QED
      BY <2>1, <2>2 DEF Init, Ledger!LInit, LInv, CommitFits, UnreadFits, AtCommit
  <1>2. IInv /\ LInv /\ [Next]_vars => LInv'
    BY LedgerStays
  <1>3. IInv /\ IInv' /\ LInv /\ [Next]_vars => [Ledger!LNext]_(Ledger!lvars)
    <2> SUFFICES ASSUME IInv, IInv', LInv, [Next]_vars
                 PROVE  Seen \/ Ledger!LNext
      BY DEF Seen, Ledger!lvars
    <2>1. CASE UNCHANGED vars
      <3>1. UNCHANGED <<JobDecisions, signals, WithJob>>
        BY <2>1 DEF vars, mail, JobDecisions, WithJob
      <3> QED
        BY <2>1, <3>1, RowsAlone, ClaimsUnseen DEF vars, mail, Seen
    <2>2. CASE Next
      BY <2>2, UnseenStep, CommitIsStore, SignalIsSettle, OutcomeIsDrop, FailureIsUnseen,
         QuarantineIsUnseen, DecisionIsAccept, OthersUnseen
      DEF Next, Step, Ledger!LNext
    <2> QED
      BY <2>1, <2>2
  <1> QED
    BY <1>1, <1>2, <1>3, Invariant, PTL DEF Spec, ImplementsLedger, Ledger!LSpec
=============================================================================
