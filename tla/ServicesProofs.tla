--------------------------- MODULE ServicesProofs ---------------------------
(***************************************************************************)
(* Proofs about the services that all requests share: the cap on AI        *)
(* spending, the sessions, and the link to Google with its folders, for    *)
(* every set of requests.                                                  *)
(***************************************************************************)
EXTENDS AIBudget, Sessions, GoogleLinks, FiniteSetTheorems, TLAPS

-----------------------------------------------------------------------------
(* The budget.  A work that is allowed leaves, besides its cost, room for  *)
(* one work of the dearest kind per worker that is free.                   *)

Free == {w \in Workers : working[w] = -1}
AtWork == Workers \ Free
SpendAsked == spend - speech
BudgetTypeOK ==
    /\ spend \in Nat /\ speech \in Nat /\ speech <= spend
    /\ working \in [Workers -> Costs \union {-1}]
    /\ \A w \in AtWork : working[w] <= HardCap

RoomFor(most) ==
    /\ Free = Workers => SpendAsked <= HardCap + (Cardinality(Workers) - 1) * most
    /\ Free # Workers =>
         \E w \in AtWork : SpendAsked + working[w] <= HardCap + Cardinality(Free) * most

BudgetInv ==
    /\ BudgetTypeOK
    /\ \A most \in Costs : (\A c \in Costs : c <= most) => RoomFor(most)

(* Room for the dearest work, for one worker more.                         *)
LEMMA OneMore ==
    ASSUME NEW n \in Nat, NEW most \in Nat
    PROVE  (n + 1) * most = n * most + most /\ n * most >= 0 /\ n * most \in Nat
  OBVIOUS

LEMMA MoreRoom ==
    ASSUME NEW n \in Nat, NEW m \in Nat, NEW most \in Nat, n <= m
    PROVE  n * most <= m * most
  OBVIOUS

LEMMA Remains ==
    ASSUME NEW m \in Nat, NEW n \in Nat, n <= m
    PROVE  m - n \in Nat
  OBVIOUS

LEMMA FreeWorkers ==
    /\ IsFiniteSet(Free) /\ Cardinality(Free) \in Nat /\ Cardinality(Workers) \in Nat
    /\ Cardinality(Workers) >= 1 /\ Cardinality(Free) <= Cardinality(Workers)
    /\ Free # Workers => Cardinality(Free) <= Cardinality(Workers) - 1
  <1>1. Free \subseteq Workers /\ IsFiniteSet(Workers) /\ Workers # {}
    BY WorkersAssumption DEF Free
  <1>2. IsFiniteSet(Free) /\ Cardinality(Free) <= Cardinality(Workers)
    BY <1>1, FS_Subset
  <1>3. Cardinality(Free) \in Nat /\ Cardinality(Workers) \in Nat /\ Cardinality(Workers) # 0
    BY <1>1, <1>2, FS_CardinalityType, FS_EmptySet
  <1>4. Free # Workers => Cardinality(Free) < Cardinality(Workers)
    BY <1>1, <1>2, <1>3, FS_Subset
  <1> QED
    BY <1>2, <1>3, <1>4

(* A worker more or less is free.                                          *)
LEMMA OneFreeMore ==
    ASSUME NEW w \in AtWork, Free' = Free \union {w}
    PROVE  Cardinality(Free') = Cardinality(Free) + 1
  BY FreeWorkers, FS_AddElement DEF AtWork, Free

LEMMA OneFreeLess ==
    ASSUME NEW w \in Free, Free' = Free \ {w}
    PROVE  Cardinality(Free) = Cardinality(Free') + 1 /\ Cardinality(Free') \in Nat
  <1>1. Cardinality(Free') = Cardinality(Free) - 1
    BY FreeWorkers, FS_RemoveElement
  <1>2. IsFiniteSet(Free') /\ Cardinality(Free') \in Nat
    BY FreeWorkers, FS_Subset, FS_CardinalityType
  <1> QED
    BY <1>1, <1>2, FreeWorkers

LEMMA BudgetTypes ==
    ASSUME BudgetTypeOK, NEW most \in Costs, \A c \in Costs : c <= most
    PROVE  /\ most \in Nat /\ HardCap \in Nat /\ SpeechCost \in Nat /\ SpendAsked \in Nat
           /\ \A w \in AtWork : working[w] \in Nat /\ working[w] <= most
  <1>1. /\ Costs \subseteq Nat /\ HardCap \in Nat /\ SpeechCost \in Nat
        /\ spend \in Nat /\ speech \in Nat /\ speech <= spend
    BY CostAssumption DEF BudgetTypeOK
  <1>2. SpendAsked \in Nat
    BY <1>1 DEF SpendAsked
  <1>3. ASSUME NEW w \in AtWork PROVE working[w] \in Costs
    BY DEF BudgetTypeOK, AtWork, Free
  <1> QED
    BY <1>1, <1>2, <1>3

LEMMA EnforceRoom ==
    ASSUME BudgetInv, NEW w \in Workers, EnforceBudget(w)
    PROVE  BudgetInv'
  <1>1. PICK cost \in Costs : Allowed(cost) /\ working' = [working EXCEPT ![w] = cost]
    BY DEF EnforceBudget
  <1>2. BudgetTypeOK /\ w \in Free /\ cost \in Nat /\ cost <= HardCap
        /\ UNCHANGED <<spend, speech>>
    BY <1>1, CostAssumption DEF EnforceBudget, BudgetInv, BudgetTypeOK, Free, Allowed
  <1>3. /\ Free' = Free \ {w} /\ AtWork' = AtWork \union {w} /\ working'[w] = cost
        /\ \A v \in AtWork : working'[v] = working[v]
    BY <1>1, <1>2 DEF BudgetTypeOK, Free, AtWork
  <1>4. BudgetTypeOK'
    BY <1>1, <1>2, <1>3 DEF BudgetTypeOK
  <1>5. ASSUME NEW most \in Costs, \A c \in Costs : c <= most PROVE RoomFor(most)'
    <2>1. most \in Nat /\ HardCap \in Nat /\ SpendAsked \in Nat
      BY <1>2, <1>5, BudgetTypes
    <2>2. Cardinality(Free') \in Nat
      BY <1>2, <1>3, OneFreeLess
    <2>3. Cardinality(Free') * most >= 0 /\ Cardinality(Free') * most \in Nat
      BY <2>1, <2>2, OneMore
    <2>4. SpendAsked' + cost <= HardCap
      BY <1>1, <1>2, CostAssumption DEF SpendAsked, Allowed, BudgetTypeOK
    <2>5. SpendAsked' = SpendAsked
      BY <1>2 DEF SpendAsked
    <2>6. SpendAsked' + working'[w] <= HardCap + Cardinality(Free') * most
      BY <1>2, <1>3, <2>1, <2>3, <2>4, <2>5
    <2>7. w \in AtWork' /\ Free' # Workers
      BY <1>3
    <2> QED
      BY <2>6, <2>7 DEF RoomFor
  <1> QED
    BY <1>4, <1>5 DEF BudgetInv

(* A work that ends, failed or recorded, gives back room for one.          *)
LEMMA DoneRoom ==
    ASSUME BudgetInv, NEW w \in Workers, Fail(w) \/ RecordUsage(w)
    PROVE  BudgetInv'
  <1>1. /\ BudgetTypeOK /\ working[w] # -1 /\ working' = [working EXCEPT ![w] = -1]
        /\ w \in AtWork
    BY DEF BudgetInv, Fail, RecordUsage, AtWork, Free
  <1>2. /\ Free' = Free \union {w} /\ AtWork' = AtWork \ {w}
        /\ \A v \in AtWork' : working'[v] = working[v]
    BY <1>1 DEF BudgetTypeOK, Free, AtWork
  <1>c. working[w] \in Costs /\ working[w] \in Nat
    BY <1>1, CostAssumption DEF BudgetTypeOK
  <1>3. /\ spend' \in Nat /\ speech' \in Nat /\ speech' <= spend'
        /\ SpendAsked' \in Nat /\ SpendAsked' <= SpendAsked + working[w]
    <2>1. /\ spend \in Nat /\ speech \in Nat /\ speech <= spend /\ speech' = speech
          /\ spend' = spend \/ spend' = spend + working[w]
      BY <1>1 DEF BudgetTypeOK, Fail, RecordUsage
    <2>2. spend' \in Nat /\ speech' \in Nat /\ speech' <= spend'
      BY <1>c, <2>1
    <2>3. spend' - speech' <= (spend - speech) + working[w]
      BY <1>c, <2>1
    <2>4. spend' - speech' \in Nat
      BY <2>2, Remains
    <2> QED
      BY <2>2, <2>3, <2>4 DEF SpendAsked
  <1>4. BudgetTypeOK'
    BY <1>1, <1>2, <1>3 DEF BudgetTypeOK
  <1>5. ASSUME NEW most \in Costs, \A c \in Costs : c <= most PROVE RoomFor(most)'
    <2> DEFINE idle == Cardinality(Free)
    <2>1. /\ most \in Nat /\ HardCap \in Nat /\ SpendAsked \in Nat /\ SpendAsked' \in Nat
          /\ \A v \in AtWork : working[v] \in Nat /\ working[v] <= most
      BY <1>1, <1>3, <1>5, BudgetTypes
    <2>2. /\ idle \in Nat /\ Cardinality(Free') = idle + 1
          /\ Cardinality(Free') * most = idle * most + most /\ idle * most \in Nat
      BY <1>1, <1>2, <2>1, FreeWorkers, OneFreeMore, OneMore
    <2>3. PICK v \in AtWork : SpendAsked + working[v] <= HardCap + idle * most
      BY <1>1, <1>5 DEF BudgetInv, RoomFor, AtWork, Free
    <2>4. CASE Free' = Workers
      <3>1. v = w
        BY <1>2, <2>3, <2>4 DEF AtWork
      <3>2. Cardinality(Workers) - 1 = idle
        BY <2>2, <2>4
      <3>3. SpendAsked' <= HardCap + (Cardinality(Workers) - 1) * most
        BY <1>3, <1>c, <2>1, <2>2, <2>3, <3>1, <3>2
      <3> QED
        BY <2>4, <3>3 DEF RoomFor
    <2>5. CASE Free' # Workers
      <3>1. \E u \in AtWork' : SpendAsked' + working'[u] <= HardCap + (idle * most + most)
        <4>1. CASE v # w
          <5>1. v \in AtWork' /\ working'[v] = working[v]
            BY <1>2, <4>1
          <5>2. SpendAsked' + working[v] <= HardCap + (idle * most + most)
            BY <1>1, <1>3, <2>1, <2>2, <2>3
          <5> QED
            BY <5>1, <5>2
        <4>2. CASE v = w
          <5>1. PICK u \in AtWork' : TRUE
            BY <2>5 DEF AtWork, Free
          <5>2. working'[u] = working[u] /\ u \in AtWork
            BY <1>2, <5>1
          <5>3. SpendAsked' + working[u] <= HardCap + (idle * most + most)
            BY <1>1, <1>3, <2>1, <2>2, <2>3, <4>2, <5>2
          <5> QED
            BY <5>1, <5>2, <5>3
        <4> QED
          BY <4>1, <4>2
      <3> QED
        BY <2>2, <2>5, <3>1 DEF RoomFor
    <2> QED
      BY <2>4, <2>5
  <1> QED
    BY <1>4, <1>5 DEF BudgetInv

(* A new month takes the recorded usage away; no work at hand costs more   *)
(* than the cap.                                                           *)
LEMMA MonthRoom ==
    ASSUME BudgetInv, NewMonth
    PROVE  BudgetInv'
  <1>1. /\ BudgetTypeOK /\ UNCHANGED working /\ spend' = 0 /\ speech' = 0
        /\ Free' = Free /\ AtWork' = AtWork
    BY DEF BudgetInv, NewMonth, AtWork, Free
  <1>2. BudgetTypeOK'
    BY <1>1 DEF BudgetTypeOK
  <1>3. ASSUME NEW most \in Costs, \A c \in Costs : c <= most PROVE RoomFor(most)'
    <2>1. /\ most \in Nat /\ HardCap \in Nat /\ SpendAsked' = 0
          /\ \A v \in AtWork : working[v] \in Nat /\ working[v] <= HardCap
      BY <1>1, <1>3, BudgetTypes DEF SpendAsked, BudgetTypeOK
    <2>2. /\ Cardinality(Free) * most \in Nat /\ (Cardinality(Workers) - 1) * most \in Nat
      BY <2>1, FreeWorkers, OneMore
    <2>3. SpendAsked' <= HardCap + (Cardinality(Workers) - 1) * most
      BY <2>1, <2>2
    <2>4. Free # Workers =>
            \E v \in AtWork : SpendAsked' + working[v] <= HardCap + Cardinality(Free) * most
      <3>1. Free # Workers => \E v \in AtWork : TRUE
        BY DEF AtWork, Free
      <3>2. \A v \in AtWork : SpendAsked' + working[v] <= HardCap + Cardinality(Free) * most
        BY <2>1, <2>2
      <3> QED
        BY <3>1, <3>2
    <2> QED
      BY <1>1, <2>3, <2>4 DEF RoomFor
  <1> QED
    BY <1>2, <1>3 DEF BudgetInv

LEMMA SpeechRoom ==
    ASSUME BudgetInv, Synthesize \/ UNCHANGED budgetVars
    PROVE  BudgetInv'
  <1>1. /\ BudgetTypeOK /\ UNCHANGED working
        /\ Free' = Free /\ AtWork' = AtWork
        /\ spend' \in Nat /\ speech' \in Nat /\ speech' <= spend' /\ SpendAsked' = SpendAsked
    BY CostAssumption DEF BudgetInv, BudgetTypeOK, Synthesize, budgetVars, AtWork, Free,
                          SpendAsked
  <1>2. BudgetTypeOK'
    BY <1>1 DEF BudgetTypeOK
  <1> QED
    BY <1>1, <1>2 DEF BudgetInv, RoomFor

LEMMA InitBudgetInv == BudgetInit => BudgetInv
  <1> SUFFICES ASSUME BudgetInit PROVE BudgetInv
    OBVIOUS
  <1>1. BudgetTypeOK /\ Free = Workers /\ SpendAsked = 0
    BY DEF BudgetInit, BudgetTypeOK, AtWork, Free, SpendAsked
  <1>2. ASSUME NEW most \in Costs PROVE RoomFor(most)
    <2>1. most \in Nat /\ HardCap \in Nat /\ (Cardinality(Workers) - 1) * most \in Nat
      BY CostAssumption, FreeWorkers, OneMore
    <2> QED
      BY <1>1, <2>1 DEF RoomFor
  <1> QED
    BY <1>1, <1>2 DEF BudgetInv

LEMMA NextBudgetInv == BudgetInv /\ [BudgetNext]_budgetVars => BudgetInv'
  BY EnforceRoom, DoneRoom, MonthRoom, SpeechRoom DEF BudgetNext

(* Whatever operations are asked for, fail or are recorded, and in         *)
(* whatever month, those that were asked for exceed the cap by at most one *)
(* of the dearest per worker but one (enforce_budget, record_usage).       *)
THEOREM SpendingNearCap == BudgetSpec => []SpendNearCap
  <1>1. BudgetInv => SpendNearCap
    <2> SUFFICES ASSUME BudgetInv, NEW most \in Costs, \A c \in Costs : c <= most
                 PROVE  SpendAsked <= HardCap + (Cardinality(Workers) - 1) * most
      BY DEF SpendNearCap, SpendAsked
    <2>1. RoomFor(most) /\ BudgetTypeOK
      BY DEF BudgetInv
    <2>2. CASE Free = Workers
      BY <2>1, <2>2 DEF RoomFor
    <2>3. CASE Free # Workers
      <3>1. PICK w \in AtWork : SpendAsked + working[w] <= HardCap + Cardinality(Free) * most
        BY <2>1, <2>3 DEF RoomFor
      <3>2. /\ most \in Nat /\ HardCap \in Nat /\ SpendAsked \in Nat /\ working[w] \in Nat
        BY <2>1, BudgetTypes
      <3>3. Cardinality(Free) * most <= (Cardinality(Workers) - 1) * most
        BY <2>3, <3>2, FreeWorkers, MoreRoom
      <3>4. /\ Cardinality(Free) * most \in Nat
            /\ (Cardinality(Workers) - 1) * most \in Nat
        BY <3>2, FreeWorkers, OneMore
      <3> QED
        BY <3>1, <3>2, <3>3, <3>4
    <2> QED
      BY <2>2, <2>3
  <1>2. BudgetSpec => []BudgetInv
    BY InitBudgetInv, NextBudgetInv, PTL DEF BudgetSpec
  <1> QED
    BY <1>1, <1>2, PTL

-----------------------------------------------------------------------------
(* The sessions.  A request that touches a session may find the row        *)
(* changed or gone, but it is the row of the same sign-in: a token is not  *)
(* issued twice.                                                           *)

Row == [user : Accounts, remember : BOOLEAN, created : Nat, used : Nat,
        expires : Nat, revoked : BOOLEAN]
Entering == [at : {"expire", "touch", "entered"}, token : Tokens, seen : Row,
             time : Nat, purpose : {"use", "logout"}, late : BOOLEAN]
Cleaning == [at : {"clean"}, account : Accounts, stale : SUBSET Tokens]
Issuing == [at : {"issue"}, account : Accounts]

Expiry(row) == IF row.remember THEN row.used + Remember ELSE row.created + Short
Over(t) == session[t] = NoSession \/ session[t].revoked

SessionsTypeOK ==
    /\ session \in [Tokens -> Row \union {NoSession}]
    /\ request \in [Requests -> {Idle} \union Entering \union Cleaning \union Issuing]
    /\ clock \in Nat /\ ended \subseteq Tokens

(* What a request that has read its session's row may rely on.             *)
SeenAlive(req) ==
    /\ ~req.late /\ req.seen.expires = Expiry(req.seen)
    /\ req.at # "expire" => req.time < req.seen.expires
StillTheSame(req) ==
    /\ session[req.token] = NoSession => req.token \in ended
    /\ session[req.token] # NoSession =>
         session[req.token].remember = req.seen.remember

SessionsInv ==
    /\ SessionsTypeOK
    /\ \A t \in ended : Over(t)
    /\ \A t \in Rows : session[t].expires = Expiry(session[t])
    /\ \A r \in Requests : request[r] \in Entering =>
                             SeenAlive(request[r]) /\ StillTheSame(request[r])

LEMMA RowsAreRecords == NoSession \notin Row
  BY DEF NoSession, Row

LEMMA RequestKinds ==
    ASSUME NEW req \in {Idle} \union Entering \union Cleaning \union Issuing
    PROVE  /\ req \in Entering <=> req.at \in {"expire", "touch", "entered"}
           /\ req \in Cleaning <=> req.at = "clean"
           /\ req \in Issuing <=> req.at = "issue"
           /\ req = Idle <=> req.at = "idle"
  BY DEF Idle, Entering, Cleaning, Issuing

(* What every step keeps of a token's row: its times may be written, it    *)
(* may be revoked, or taken away when its end is told; a row is new only   *)
(* under a token that was never told to be over.                           *)
RowKept(t) ==
    /\ session'[t] = NoSession /\ session[t] # NoSession => t \in ended'
    /\ session'[t] # NoSession =>
         /\ session'[t].expires = Expiry(session'[t])
         /\ IF session[t] = NoSession THEN t \notin ended
            ELSE /\ session'[t].remember = session[t].remember
                 /\ session[t].revoked => session'[t].revoked
(* And of a request: it has just read a live row, or goes on as it was.    *)
JustRead(req) == SeenAlive(req) /\ session'[req.token] = req.seen
RequestKept(r) ==
    request'[r] \in Entering =>
      \/ JustRead(request'[r])
      \/ /\ request[r] \in Entering
         /\ \/ request'[r] = request[r]
            \/ /\ request[r].at = "touch"
               /\ request'[r] = [request[r] EXCEPT !.at = "entered"]
AllKept ==
    /\ ended \subseteq ended'
    /\ \A t \in Tokens : RowKept(t)
    /\ \A t \in ended' \ ended : Over(t)'
    /\ \A r \in Requests : RequestKept(r)

LEMMA KeptIsEnough ==
    ASSUME SessionsInv, SessionsTypeOK', AllKept
    PROVE  SessionsInv'
  <1>1. ASSUME NEW t \in ended' PROVE Over(t)'
    BY <1>1 DEF SessionsInv, SessionsTypeOK, AllKept, RowKept, Over
  <1>2. ASSUME NEW t \in Rows' PROVE (session[t].expires = Expiry(session[t]))'
    BY <1>2 DEF AllKept, RowKept, Rows
  <1>3. ASSUME NEW r \in Requests, request'[r] \in Entering
        PROVE  SeenAlive(request'[r]) /\ StillTheSame(request[r])'
    <2>1. CASE JustRead(request'[r])
      <3>1. request'[r].seen \in Row /\ request'[r].seen # NoSession
        BY <1>3, RowsAreRecords DEF Entering
      <3> QED
        BY <2>1, <3>1 DEF JustRead, StillTheSame
    <2>2. CASE request[r] \in Entering /\ request'[r].token = request[r].token
               /\ request'[r].seen = request[r].seen /\ SeenAlive(request'[r])
      <3>1. StillTheSame(request[r]) /\ request[r].token \in Tokens
        BY <2>2 DEF SessionsInv, Entering
      <3>2. RowKept(request[r].token) /\ ended \subseteq ended'
        BY <3>1 DEF AllKept
      <3> QED
        BY <2>2, <3>1, <3>2 DEF RowKept, StillTheSame
    <2>3. CASE request[r] \in Entering /\ request'[r] = request[r]
      <3>1. SeenAlive(request'[r])
        BY <2>3 DEF SessionsInv
      <3> QED
        BY <2>2, <2>3, <3>1
    <2>4. CASE /\ request[r] \in Entering /\ request[r].at = "touch"
               /\ request'[r] = [request[r] EXCEPT !.at = "entered"]
      <3>1. SeenAlive(request[r])
        BY <2>4 DEF SessionsInv
      <3>2. /\ request'[r].at = "entered" /\ request'[r].token = request[r].token
            /\ request'[r].seen = request[r].seen /\ request'[r].late = request[r].late
            /\ request'[r].time = request[r].time
        BY <2>4 DEF Entering
      <3>3. SeenAlive(request'[r])
        BY <2>4, <3>1, <3>2 DEF SeenAlive, Expiry
      <3> QED
        BY <2>2, <2>4, <3>2, <3>3
    <2> QED
      BY <1>3, <2>1, <2>3, <2>4 DEF AllKept, RequestKept
  <1> QED
    BY <1>1, <1>2, <1>3 DEF SessionsInv

LEMMA RowChanges ==
    ASSUME NEW row \in Row
    PROVE  /\ [row EXCEPT !.revoked = TRUE] \in Row
           /\ [row EXCEPT !.revoked = TRUE].revoked
           /\ [row EXCEPT !.revoked = TRUE].remember = row.remember
           /\ Expiry([row EXCEPT !.revoked = TRUE]) = Expiry(row)
           /\ [row EXCEPT !.revoked = TRUE].expires = row.expires
  BY DEF Row, Expiry

LEMMA RowTouched ==
    ASSUME NEW row \in Row, NEW seen \in Row, NEW time \in Nat,
           seen.remember = row.remember, row.expires = Expiry(row)
    PROVE  /\ Touched(row, seen, time) \in Row
           /\ Touched(row, seen, time).revoked = row.revoked
           /\ Touched(row, seen, time).remember = row.remember
           /\ Touched(row, seen, time).expires = Expiry(Touched(row, seen, time))
  <1> DEFINE end == IF seen.remember THEN time + Remember ELSE row.expires
  <1>1. end \in Nat /\ Remember \in Nat
    BY LifetimeAssumption DEF Row
  <1>2. Touched(row, seen, time) = [[row EXCEPT !.used = time] EXCEPT !.expires = end]
    BY DEF Touched, Row
  <1>3. PICK used : used = [row EXCEPT !.used = time]
    OBVIOUS
  <1>4. /\ used \in Row /\ used.used = time /\ used.revoked = row.revoked
        /\ used.remember = row.remember /\ used.created = row.created
    BY <1>3 DEF Row
  <1>5. PICK new : new = [used EXCEPT !.expires = end]
    OBVIOUS
  <1>6. /\ new \in Row /\ new.used = time /\ new.revoked = row.revoked
        /\ new.remember = row.remember /\ new.created = row.created /\ new.expires = end
    BY <1>1, <1>4, <1>5 DEF Row
  <1>7. new = Touched(row, seen, time)
    BY <1>2, <1>3, <1>5
  <1>8. new.expires = Expiry(new)
    BY <1>6 DEF Expiry
  <1> QED
    BY <1>6, <1>7, <1>8

LEMMA RowsStay ==
    ASSUME SessionsInv, NEW t \in Tokens, session'[t] = session[t], ended \subseteq ended'
    PROVE  RowKept(t)
  BY DEF SessionsInv, RowKept, Rows

(* Steps that revoke a request's row and tell its end: Expire, Logout.     *)
LEMMA RevokeKeeps ==
    ASSUME SessionsInv, NEW r \in Requests, request[r] \in Entering,
           session' = IF session[request[r].token] = NoSession THEN session
                      ELSE [session EXCEPT ![request[r].token].revoked = TRUE],
           ended' = ended \union {request[r].token},
           Goes(r, Idle), clock' = clock
    PROVE  SessionsInv'
  <1>1. PICK token \in Tokens : token = request[r].token /\ SessionsTypeOK
    BY DEF Entering, SessionsInv
  <1>2. session[token] \in Row \/ session[token] = NoSession
    BY <1>1 DEF SessionsTypeOK
  <1>3. /\ \A t \in Tokens \ {token} : session'[t] = session[t]
        /\ session[token] = NoSession => session'[token] = NoSession
        /\ session[token] # NoSession =>
             session'[token] = [session[token] EXCEPT !.revoked = TRUE]
    BY <1>1 DEF SessionsTypeOK
  <1>4. SessionsTypeOK'
    BY <1>1, <1>2, <1>3, RowChanges DEF SessionsTypeOK, Goes
  <1>5. RowKept(token) /\ Over(token)'
    <2>1. CASE session[token] = NoSession
      BY <1>3, <2>1 DEF RowKept, Over
    <2>2. CASE session[token] # NoSession
      <3>1. PICK row \in Row : row = session[token]
        BY <1>2, <2>2
      <3>2. row.expires = Expiry(row)
        BY <1>1, <2>2, <3>1 DEF SessionsInv, Rows
      <3>3. PICK new \in Row : /\ new = [row EXCEPT !.revoked = TRUE] /\ new.revoked
                               /\ new.remember = row.remember /\ new.expires = Expiry(new)
        BY <3>2, RowChanges
      <3>4. session'[token] = new /\ new # NoSession
        BY <1>3, <2>2, <3>1, <3>3, RowsAreRecords
      <3> QED
        BY <2>2, <3>1, <3>3, <3>4 DEF RowKept, Over
    <2> QED
      BY <2>1, <2>2
  <1>6. \A t \in Tokens : RowKept(t)
    BY <1>3, <1>5, RowsStay
  <1>7. \A q \in Requests : RequestKept(q)
    BY <1>1, RequestKinds DEF SessionsTypeOK, Goes, RequestKept, Idle
  <1>8. AllKept
    BY <1>1, <1>5, <1>6, <1>7 DEF AllKept, Over
  <1> QED
    BY <1>4, <1>8, KeptIsEnough

(* A touch writes the times of the row there is, if there is one.          *)
LEMMA TouchKeeps ==
    ASSUME SessionsInv, NEW r \in Requests, Touch(r)
    PROVE  SessionsInv'
  <1>1. PICK token \in Tokens : /\ token = request[r].token /\ SessionsTypeOK
                                /\ request[r] \in Entering /\ request[r].seen \in Row
                                /\ request[r].time \in Nat
    BY RequestKinds DEF Touch, Entering, SessionsInv, SessionsTypeOK
  <1>2. /\ \A t \in Tokens \ {token} : session'[t] = session[t]
        /\ session[token] = NoSession => session'[token] = NoSession
        /\ session[token] # NoSession =>
             session'[token] = Touched(session[token], request[r].seen, request[r].time)
    BY <1>1 DEF SessionsTypeOK, Touch
  <1>3. session[token] # NoSession =>
          /\ session[token] \in Row /\ session[token].expires = Expiry(session[token])
          /\ session[token].remember = request[r].seen.remember
    BY <1>1 DEF SessionsInv, SessionsTypeOK, StillTheSame, Rows
  <1>4. session'[token] \in Row \union {NoSession} /\ RowKept(token)
    <2>1. CASE session[token] = NoSession
      BY <1>2, <2>1 DEF RowKept
    <2>2. CASE session[token] # NoSession
      <3>1. PICK new \in Row : /\ new = session'[token]
                               /\ new.revoked = session[token].revoked
                               /\ new.remember = session[token].remember
                               /\ new.expires = Expiry(new)
        BY <1>1, <1>2, <1>3, <2>2, RowTouched
      <3> QED
        BY <2>2, <3>1, RowsAreRecords DEF RowKept
    <2> QED
      BY <2>1, <2>2
  <1>5. /\ request' = [request EXCEPT ![r] = Idle]
           \/ request' = [request EXCEPT ![r] = [request[r] EXCEPT !.at = "entered"]]
        /\ request[r].at = "touch" /\ UNCHANGED <<clock, ended>>
    BY DEF Touch, Goes
  <1>6. [request[r] EXCEPT !.at = "entered"] \in Entering
    BY <1>1 DEF Entering
  <1>7. \A q \in Requests : /\ request'[q] \in {Idle} \union Entering \union Cleaning \union Issuing
                            /\ RequestKept(q)
    <2>1. ASSUME NEW q \in Requests, request'[q] = request[q]
          PROVE  RequestKept(q)
      BY <2>1 DEF RequestKept
    <2>2. Idle \notin Entering
      BY DEF Idle, Entering
    <2> QED
      BY <1>1, <1>5, <1>6, <2>1, <2>2 DEF SessionsTypeOK, RequestKept
  <1>8. SessionsTypeOK'
    <2>1. session' \in [Tokens -> Row \union {NoSession}]
      <3>1. session' = session \/ \E row : session' = [session EXCEPT ![token] = row]
        BY <1>1 DEF Touch
      <3> QED
        BY <1>1, <1>4, <3>1 DEF SessionsTypeOK
    <2>2. request' \in [Requests -> {Idle} \union Entering \union Cleaning \union Issuing]
      BY <1>1, <1>5, <1>7 DEF SessionsTypeOK
    <2> QED
      BY <1>1, <1>5, <2>1, <2>2 DEF SessionsTypeOK
  <1>9. AllKept
    BY <1>2, <1>4, <1>5, <1>7, RowsStay DEF AllKept
  <1> QED
    BY <1>8, <1>9, KeptIsEnough

(* Steps that write no row: what a request becomes is no entry, or one it  *)
(* has read in this step.                                                  *)
LEMMA RowsUntouched ==
    ASSUME SessionsInv, SessionsTypeOK', UNCHANGED session, ended' = ended,
           \A q \in Requests : RequestKept(q)
    PROVE  SessionsInv'
  <1>1. AllKept
    BY RowsStay DEF AllKept
  <1> QED
    BY <1>1, KeptIsEnough

LEMMA LookupKeeps ==
    ASSUME SessionsInv, NEW r \in Requests, NEW t \in Tokens,
           NEW p \in {"use", "logout"}, Lookup(r, t, p)
    PROVE  SessionsInv'
  <1>1. PICK req : /\ req = [at |-> IF session[t].expires <= clock THEN "expire" ELSE "touch",
                            token |-> t, seen |-> session[t], time |-> clock,
                            purpose |-> p, late |-> t \in ended]
                   /\ request' = [request EXCEPT ![r] = req]
    BY DEF Lookup, Goes
  <1>2. /\ session[t] \in Row /\ ~session[t].revoked /\ clock \in Nat
        /\ session[t].expires = Expiry(session[t]) /\ t \notin ended
    BY DEF Lookup, SessionsInv, SessionsTypeOK, Over, Rows
  <1>3. req \in Entering
    BY <1>1, <1>2 DEF Entering
  <1>4. SeenAlive(req)
    BY <1>1, <1>2 DEF SeenAlive, Row
  <1>5. session'[req.token] = req.seen
    BY <1>1 DEF Lookup
  <1>6. SessionsTypeOK'
    BY <1>1, <1>3 DEF SessionsInv, SessionsTypeOK, Lookup
  <1>7. \A q \in Requests : RequestKept(q)
    BY <1>1, <1>4, <1>5 DEF SessionsInv, SessionsTypeOK, RequestKept, JustRead
  <1> QED
    BY <1>6, <1>7, RowsUntouched DEF Lookup

(* Signing in, leaving, and time.                                          *)
QuietStep ==
    \/ \E r \in Requests : Leave(r) \/ Login(r) \/ SetupAdmin(r)
    \/ Tick \/ UNCHANGED sessionVars
LEMMA QuietKeeps ==
    ASSUME SessionsInv, QuietStep
    PROVE  SessionsInv'
  <1>1. UNCHANGED session /\ ended' = ended /\ clock' \in Nat
    BY DEF QuietStep, Leave, Login, SetupAdmin, Tick, sessionVars, SessionsInv, SessionsTypeOK
  <1>2. \/ UNCHANGED request
        \/ \E r \in Requests : Goes(r, Idle) \/ Signing(r, Owner)
    BY DEF QuietStep, Leave, Login, SetupAdmin, Tick, sessionVars
  <1>3. /\ request' \in [Requests -> {Idle} \union Entering \union Cleaning \union Issuing]
        /\ \A q \in Requests : request'[q] = request[q] \/ request'[q] \notin Entering
    <2>1. ASSUME NEW r \in Requests, Signing(r, Owner)
          PROVE  \E req \in Cleaning : request' = [request EXCEPT ![r] = req]
      BY <2>1 DEF Signing, Goes, Cleaning, Accounts, Rows
    <2>2. Idle \notin Entering /\ \A req \in Cleaning : req \notin Entering
      BY DEF Idle, Entering, Cleaning
    <2> QED
      BY <1>2, <2>1, <2>2 DEF Goes, SessionsInv, SessionsTypeOK
  <1>4. SessionsTypeOK'
    BY <1>1, <1>3 DEF SessionsInv, SessionsTypeOK
  <1>5. \A q \in Requests : RequestKept(q)
    BY <1>3 DEF RequestKept
  <1> QED
    BY <1>1, <1>4, <1>5, RowsUntouched

(* The test account's sessions go, and their ends are told.                *)
LEMMA StrayOutKeeps ==
    ASSUME SessionsInv, StrayOut
    PROVE  /\ session' \in [Tokens -> Row \union {NoSession}]
           /\ ended' \subseteq Tokens /\ ended \subseteq ended'
           /\ \A t \in Tokens : RowKept(t)
           /\ \A t \in ended' \ ended : Over(t)'
  <1>1. SessionsTypeOK
    BY DEF SessionsInv
  <1>2. \A t \in Tokens :
          \/ session'[t] = session[t]
          \/ session[t] \in Row /\ session'[t] = NoSession /\ t \in ended'
    BY <1>1 DEF StrayOut, SessionsTypeOK, Rows
  <1>3. ended' \subseteq Tokens /\ ended \subseteq ended'
    BY <1>1 DEF StrayOut, SessionsTypeOK, Rows
  <1>4. session' \in [Tokens -> Row \union {NoSession}]
    BY <1>1, <1>2 DEF StrayOut, SessionsTypeOK
  <1>5. \A t \in Tokens : RowKept(t)
    BY <1>2, <1>3, RowsStay DEF RowKept
  <1>6. \A t \in ended' \ ended : Over(t)'
    BY <1>1 DEF StrayOut, SessionsTypeOK, Rows, Over
  <1> QED
    BY <1>3, <1>4, <1>5, <1>6

LEMMA LocalKeeps ==
    ASSUME SessionsInv, Restart \/ \E r \in Requests : LocalAdminLogin(r)
    PROVE  SessionsInv'
  <1>1. StrayOut /\ UNCHANGED clock /\ SessionsTypeOK
    BY DEF Restart, LocalAdminLogin, SessionsInv
  <1>2. /\ request' \in [Requests -> {Idle} \union Entering \union Cleaning \union Issuing]
        /\ \A q \in Requests : request'[q] = request[q] \/ request'[q] \notin Entering
    <2>1. ASSUME NEW r \in Requests, Signing(r, Owner)
          PROVE  \E req \in Cleaning : request' = [request EXCEPT ![r] = req]
      BY <2>1 DEF Signing, Goes, Cleaning, Accounts, Rows
    <2>2. Idle \notin Entering /\ \A req \in Cleaning : req \notin Entering
      BY DEF Idle, Entering, Cleaning
    <2>3. \/ UNCHANGED request
          \/ request' = [q \in Requests |-> Idle]
          \/ \E r \in Requests : Signing(r, Owner)
      BY DEF Restart, LocalAdminLogin
    <2> QED
      BY <1>1, <2>1, <2>2, <2>3 DEF SessionsTypeOK
  <1>3. SessionsTypeOK'
    BY <1>1, <1>2, StrayOutKeeps DEF SessionsTypeOK
  <1>4. AllKept
    BY <1>1, <1>2, StrayOutKeeps DEF AllKept, RequestKept
  <1> QED
    BY <1>3, <1>4, KeptIsEnough

LEMMA CleanKeeps ==
    ASSUME SessionsInv, NEW r \in Requests, Clean(r)
    PROVE  SessionsInv'
  <1>1. /\ SessionsTypeOK /\ request[r] \in Cleaning
        /\ request[r].stale \subseteq Tokens /\ request[r].account \in Accounts
    BY RequestKinds DEF Clean, Cleaning, SessionsInv, SessionsTypeOK
  <1>2. \A t \in Tokens :
          \/ session'[t] = session[t] /\ (t \in request[r].stale => session[t] = NoSession)
          \/ session[t] \in Row /\ session'[t] = [session[t] EXCEPT !.revoked = TRUE]
    BY <1>1 DEF Clean, SessionsTypeOK, Rows
  <1>3. ended' = ended \union request[r].stale /\ UNCHANGED clock
    BY DEF Clean
  <1>4. ASSUME NEW t \in Tokens
        PROVE  /\ session'[t] \in Row \union {NoSession} /\ RowKept(t)
               /\ t \in request[r].stale => Over(t)'
    <2>1. CASE session'[t] = session[t] /\ (t \in request[r].stale => session[t] = NoSession)
      BY <1>1, <1>3, <2>1, RowsStay DEF SessionsTypeOK, Over
    <2>2. CASE session[t] \in Row /\ session'[t] = [session[t] EXCEPT !.revoked = TRUE]
      <3>1. PICK row \in Row : row = session[t] /\ row # NoSession
        BY <2>2, RowsAreRecords
      <3>2. row.expires = Expiry(row)
        BY <1>1, <3>1 DEF SessionsInv, Rows
      <3>3. PICK new \in Row : /\ new = [row EXCEPT !.revoked = TRUE] /\ new.revoked
                               /\ new.remember = row.remember /\ new.expires = Expiry(new)
        BY <3>2, RowChanges
      <3>4. session'[t] = new /\ new # NoSession
        BY <2>2, <3>1, <3>3, RowsAreRecords
      <3> QED
        BY <3>1, <3>3, <3>4 DEF RowKept, Over
    <2> QED
      BY <1>2, <2>1, <2>2
  <1>5. PICK req \in Issuing : request' = [request EXCEPT ![r] = req]
    BY <1>1 DEF Clean, Goes, Issuing
  <1>6. \A q \in Requests : RequestKept(q)
    <2>1. req \notin Entering
      BY DEF Issuing, Entering
    <2> QED
      BY <1>1, <1>5, <2>1 DEF RequestKept, SessionsTypeOK
  <1>7. SessionsTypeOK'
    <2>1. session' \in [Tokens -> Row \union {NoSession}]
      BY <1>4 DEF Clean
    <2> QED
      BY <1>1, <1>3, <1>5, <2>1 DEF SessionsTypeOK
  <1>8. AllKept
    BY <1>1, <1>3, <1>4, <1>6 DEF AllKept
  <1> QED
    BY <1>7, <1>8, KeptIsEnough

(* A token is issued once: its row is that of one sign-in.                 *)
LEMMA IssueKeeps ==
    ASSUME SessionsInv, NEW r \in Requests, Issue(r)
    PROVE  SessionsInv'
  <1>1. PICK t \in Tokens \ Rows, remember \in BOOLEAN :
          /\ t \notin ended
          /\ session' = [session EXCEPT ![t] =
                           NewSession(request[r].account, remember, clock)]
    BY DEF Issue
  <1>2. /\ SessionsTypeOK /\ clock \in Nat /\ request[r].account \in Accounts
        /\ UNCHANGED clock /\ ended' = ended /\ session[t] = NoSession
    BY <1>1, RequestKinds DEF Issue, Issuing, SessionsInv, SessionsTypeOK, Rows
  <1>3. PICK row : row = NewSession(request[r].account, remember, clock)
    OBVIOUS
  <1>4. row \in Row /\ row.expires = Expiry(row)
    BY <1>2, <1>3, LifetimeAssumption DEF NewSession, Row, Expiry
  <1>5. session' = [session EXCEPT ![t] = row] /\ row # NoSession
    BY <1>1, <1>3, <1>4, RowsAreRecords
  <1>6. RowKept(t) /\ \A u \in Tokens \ {t} : session'[u] = session[u]
    BY <1>1, <1>2, <1>4, <1>5 DEF RowKept, SessionsTypeOK
  <1>7. Idle \notin Entering
    BY DEF Idle, Entering
  <1>8. SessionsTypeOK'
    BY <1>2, <1>4, <1>5 DEF SessionsTypeOK, Issue, Goes
  <1>9. AllKept
    BY <1>2, <1>6, <1>7, RowsStay DEF AllKept, RequestKept, Issue, Goes, SessionsTypeOK
  <1> QED
    BY <1>8, <1>9, KeptIsEnough

LEMMA InitSessionsInv == SessionsInit => SessionsInv
  <1> SUFFICES ASSUME SessionsInit PROVE SessionsInv
    OBVIOUS
  <1>1. NewSession(Stray, TRUE, 0) \in Row
        /\ NewSession(Stray, TRUE, 0).expires = Expiry(NewSession(Stray, TRUE, 0))
    BY LifetimeAssumption DEF NewSession, Row, Expiry, Accounts
  <1>2. SessionsTypeOK
    BY <1>1 DEF SessionsInit, SessionsTypeOK
  <1>3. \A t \in Rows : session[t].expires = Expiry(session[t])
    BY <1>1 DEF SessionsInit, Rows
  <1>4. \A r \in Requests : request[r] \notin Entering
    BY DEF SessionsInit, Idle, Entering
  <1> QED
    BY <1>2, <1>3, <1>4 DEF SessionsInv, SessionsInit

LEMMA NextSessionsInv == SessionsInv /\ [SessionsNext]_sessionVars => SessionsInv'
  <1> SUFFICES ASSUME SessionsInv, [SessionsNext]_sessionVars PROVE SessionsInv'
    OBVIOUS
  <1>1. ASSUME NEW r \in Requests, Expire(r) \/ Logout(r) PROVE SessionsInv'
    <2>1. request[r] \in Entering
      BY <1>1, RequestKinds DEF Expire, Logout, SessionsInv, SessionsTypeOK
    <2> QED
      BY <1>1, <2>1, RevokeKeeps DEF Expire, Logout
  <1> QED
    BY <1>1, LookupKeeps, TouchKeeps, QuietKeeps, LocalKeeps, CleanKeeps, IssueKeeps
    DEF SessionsNext, QuietStep

(* Whatever requests read, touch, revoke, clean and issue in between, and  *)
(* wherever the process restarts, a request enters only with a session     *)
(* that was alive when it came (get_user_for_session_token, sessions.py).  *)
THEOREM OnlyTheLivingEnter == SessionsSpec => []OnlyLiveSessionsEnter
  <1>1. SessionsInv => OnlyLiveSessionsEnter
    BY RequestKinds DEF SessionsInv, SessionsTypeOK, SeenAlive, Expiry, OnlyLiveSessionsEnter
  <1>2. SessionsSpec => []SessionsInv
    BY InitSessionsInv, NextSessionsInv, PTL DEF SessionsSpec
  <1> QED
    BY <1>1, <1>2, PTL

-----------------------------------------------------------------------------
(* Google.  The services are saved in one order, so a row that is linked   *)
(* is of no older consent than those after it.                             *)
IsToken(row) ==
    /\ row.grant \in 1..grants
    /\ {row.fresh, row.readable, row.refresh} \subseteq BOOLEAN
    /\ row = [grant |-> row.grant, fresh |-> row.fresh,
              readable |-> row.readable, refresh |-> row.refresh]
Older(a, b) == Linked(a) /\ Linked(b) => link[b].grant <= link[a].grant
LeftToSave == {<<"google", "gmail", "drive">>, <<"gmail", "drive">>, <<"drive">>}
SavedOrNone(s) == Linked(s) => link[s].grant = grants
AccountInv ==
    /\ grants \in Nat /\ revoked \in 0..grants
    /\ link = [s \in ServiceNames |-> link[s]]
    /\ \A s \in ServiceNames : link[s] = NoLink \/ IsToken(link[s])
    /\ Older("google", "gmail") /\ Older("gmail", "drive")
    /\ Older("google", "drive")
    /\ \/ callback = NoCallback
       \/ /\ grants > 0 /\ callback.left \in LeftToSave
          /\ callback.refresh \in BOOLEAN
          /\ callback = [left |-> callback.left, refresh |-> callback.refresh]
          /\ callback.left # <<"google", "gmail", "drive">> =>
               SavedOrNone("google")
          /\ callback.left = <<"drive">> => SavedOrNone("gmail")

LEMMA Names == ServiceNames = {"google", "gmail", "drive"}
  <1>1. DOMAIN Services = {1, 2, 3}
    BY DEF Services
  <1> QED
    BY <1>1 DEF ServiceNames, Services

LEMMA LinkedIs ==
    ASSUME AccountInv, NEW s \in ServiceNames
    PROVE  /\ Linked(s) <=> IsToken(link[s])
           /\ Linked(s) <=> link[s].grant # 0
           /\ ~Linked(s) => link[s] = NoLink
  BY DEF AccountInv, Linked, IsToken, NoLink

LEMMA GrantIs ==
    ASSUME AccountInv, NEW s \in ServiceNames, Linked(s)
    PROVE  link[s].grant \in Nat /\ link[s].grant > 0
  <1>1. IsToken(link[s]) /\ grants \in Nat
    BY LinkedIs DEF AccountInv
  <1>2. link[s].grant \in 1..grants
    BY <1>1 DEF IsToken
  <1> QED
    BY <1>1, <1>2

(* Rows that lapse, are renewed or cannot be read any more.                *)
Retimed(new, old) ==
    \E b \in BOOLEAN, c \in BOOLEAN : new = [old EXCEPT !.fresh = b, !.readable = c]

LEMMA OnlyTimes ==
    ASSUME AccountInv, grants' = grants, revoked' \in {revoked, grants},
           callback' \in {callback, NoCallback},
           link' = [s \in ServiceNames |-> link'[s]],
           \A s \in ServiceNames :
             \/ link'[s] = link[s]
             \/ Linked(s) /\ Retimed(link'[s], link[s])
    PROVE  AccountInv'
  <1>1. ASSUME NEW s \in ServiceNames
        PROVE  /\ Linked(s)' <=> Linked(s)
               /\ Linked(s) => IsToken(link[s])' /\ link'[s].grant = link[s].grant
               /\ link'[s] = NoLink \/ IsToken(link[s])'
    <2>1. CASE link'[s] = link[s]
      BY <2>1, LinkedIs DEF AccountInv, Linked, IsToken
    <2>2. CASE Linked(s) /\ Retimed(link'[s], link[s])
      <3>1. PICK b \in BOOLEAN, c \in BOOLEAN :
              link'[s] = [link[s] EXCEPT !.fresh = b, !.readable = c]
        BY <2>2 DEF Retimed
      <3>2. IsToken(link[s])
        BY <2>2, LinkedIs
      <3>3. link'[s] = [grant |-> link[s].grant, fresh |-> b,
                        readable |-> c, refresh |-> link[s].refresh]
        BY <3>1, <3>2 DEF IsToken
      <3>4. IsToken(link[s])' /\ link'[s].grant = link[s].grant
        BY <3>2, <3>3 DEF IsToken
      <3>5. link'[s] # NoLink
        <4>1. link'[s].grant > 0 /\ NoLink.grant = 0
          BY <3>4 DEF IsToken, NoLink, AccountInv
        <4> QED
          BY <4>1
      <3> QED
        BY <2>2, <3>4, <3>5 DEF Linked
    <2> QED
      BY <2>1, <2>2
  <1>2. /\ Older("google", "gmail")' /\ Older("gmail", "drive")'
        /\ Older("google", "drive")'
        /\ SavedOrNone("google") => SavedOrNone("google")'
        /\ SavedOrNone("gmail") => SavedOrNone("gmail")'
    BY <1>1, Names DEF AccountInv, Older, SavedOrNone
  <1>3. \/ callback' = NoCallback
        \/ /\ grants' > 0 /\ callback'.left \in LeftToSave
           /\ callback'.refresh \in BOOLEAN
           /\ callback' = [left |-> callback'.left, refresh |-> callback'.refresh]
           /\ callback'.left # <<"google", "gmail", "drive">> =>
                SavedOrNone("google")'
           /\ callback'.left = <<"drive">> => SavedOrNone("gmail")'
    <2>1. CASE callback' = callback
      <3> HIDE DEF LeftToSave, NoCallback
      <3>1. \/ callback = NoCallback
            \/ /\ grants > 0 /\ callback.left \in LeftToSave
               /\ callback.refresh \in BOOLEAN
               /\ callback = [left |-> callback.left, refresh |-> callback.refresh]
               /\ callback.left # <<"google", "gmail", "drive">> =>
                    SavedOrNone("google")
               /\ callback.left = <<"drive">> => SavedOrNone("gmail")
        BY DEF AccountInv
      <3> QED
        BY <1>2, <2>1, <3>1
    <2> QED
      BY <2>1
  <1>4. grants' \in Nat /\ revoked' \in 0..grants'
    BY DEF AccountInv
  <1> QED
    BY <1>1, <1>2, <1>3, <1>4 DEF AccountInv

LEMMA RefreshedIs ==
    ASSUME AccountInv, NEW asked \in SUBSET ServiceNames
    PROVE  /\ Refreshed(asked) = [s \in ServiceNames |-> Refreshed(asked)[s]]
           /\ \A s \in ServiceNames :
                \/ Refreshed(asked)[s] = link[s]
                \/ Linked(s) /\ Retimed(Refreshed(asked)[s], link[s])
  <1>1. ASSUME NEW s \in ServiceNames, Linked(s)
        PROVE  Retimed([link[s] EXCEPT !.fresh = TRUE], link[s])
    <2>1. /\ [link[s] EXCEPT !.fresh = TRUE] =
               [link[s] EXCEPT !.fresh = TRUE, !.readable = link[s].readable]
          /\ link[s].readable \in BOOLEAN
      BY <1>1, LinkedIs DEF IsToken
    <2> QED
      BY <2>1 DEF Retimed
  <1>2. ASSUME NEW s \in ServiceNames, NEW a \in asked, HasToken(a), TokenRow(a) = s
        PROVE  Linked(s)
    BY <1>2, Names DEF HasToken, TokenRow, Readable
  <1> QED
    BY <1>1, <1>2 DEF Refreshed

(* Every step keeps the order of the consents.                             *)
LEMMA AccountInit == GoogleInit => AccountInv
  <1> SUFFICES ASSUME GoogleInit PROVE AccountInv
    OBVIOUS
  <1>1. CASE grants = 0
    BY <1>1, Names DEF GoogleInit, AccountInv, NoLink, Linked, Older
  <1>2. CASE grants = 1
    <2>1. link = [s \in ServiceNames |->
                    [grant |-> 1, fresh |-> TRUE, readable |-> TRUE, refresh |-> TRUE]]
      BY <1>2 DEF GoogleInit
    <2>2. \A s \in ServiceNames : IsToken(link[s]) /\ link[s].grant = 1
      <3> DEFINE row == [grant |-> 1, fresh |-> TRUE, readable |-> TRUE, refresh |-> TRUE]
      <3>1. IsToken(row) /\ row.grant = 1
        BY <1>2 DEF IsToken
      <3>2. \A s \in ServiceNames : link[s] = row
        BY <2>1
      <3> QED
        BY <3>1, <3>2
    <2> QED
      BY <1>2, <2>1, <2>2, Names DEF GoogleInit, AccountInv, Older
  <1> QED
    BY <1>1, <1>2 DEF GoogleInit

LEMMA SaveKeepsOrder ==
    ASSUME AccountInv, SaveToken
    PROVE  AccountInv'
  <1> DEFINE h == Head(callback.left)
  <1> DEFINE new == Saved(link[h], callback.refresh, grants)
  <1>1. /\ grants > 0 /\ callback.left \in LeftToSave /\ callback.refresh \in BOOLEAN
        /\ callback = [left |-> callback.left, refresh |-> callback.refresh]
        /\ callback.left # <<"google", "gmail", "drive">> => SavedOrNone("google")
        /\ callback.left = <<"drive">> => SavedOrNone("gmail")
    BY DEF AccountInv, SaveToken, NoCallback
  <1>2. /\ grants \in Nat /\ UNCHANGED <<grants, revoked>>
        /\ link' = [link EXCEPT ![h] = new]
    BY DEF AccountInv, SaveToken
  <1>3. \/ callback.left = <<"google", "gmail", "drive">> /\ h = "google"
           /\ callback' = [left |-> <<"gmail", "drive">>, refresh |-> callback.refresh]
        \/ callback.left = <<"gmail", "drive">> /\ h = "gmail"
           /\ callback' = [left |-> <<"drive">>, refresh |-> callback.refresh]
        \/ callback.left = <<"drive">> /\ h = "drive" /\ callback' = NoCallback
    <2>1. CASE callback.left = <<"google", "gmail", "drive">>
      <3>1. /\ Head(callback.left) = "google" /\ Len(callback.left) = 3
            /\ Tail(callback.left) = <<"gmail", "drive">>
        BY <2>1
      <3> QED
        BY <1>1, <2>1, <3>1 DEF SaveToken
    <2>2. CASE callback.left = <<"gmail", "drive">>
      <3>1. /\ Head(callback.left) = "gmail" /\ Len(callback.left) = 2
            /\ Tail(callback.left) = <<"drive">>
        BY <2>2
      <3> QED
        BY <1>1, <2>2, <3>1 DEF SaveToken
    <2>3. CASE callback.left = <<"drive">>
      <3>1. Head(callback.left) = "drive" /\ Len(callback.left) = 1
        BY <2>3
      <3> QED
        BY <1>1, <2>3, <3>1 DEF SaveToken
    <2> QED
      BY <1>1, <2>1, <2>2, <2>3 DEF LeftToSave
  <1>4. h \in ServiceNames
    BY <1>3, Names
  <1>5. PICK keep \in BOOLEAN :
          new = [grant |-> grants, fresh |-> TRUE, readable |-> TRUE, refresh |-> keep]
    <2>1. link[h] = NoLink \/ IsToken(link[h])
      BY <1>4 DEF AccountInv
    <2>2. (callback.refresh \/ (link[h] # NoLink /\ link[h].readable /\ link[h].refresh))
            \in BOOLEAN
      BY <1>1, <2>1 DEF IsToken
    <2> QED
      BY <2>2 DEF Saved
  <1> HIDE DEF h, new
  <1>6. IsToken(new) /\ new.grant = grants /\ new # NoLink
    BY <1>1, <1>2, <1>5 DEF IsToken, NoLink
  <1>7. /\ link' = [s \in ServiceNames |-> link'[s]]
        /\ link'[h] = new /\ \A s \in ServiceNames : s # h => link'[s] = link[s]
    BY <1>2, <1>4 DEF AccountInv
  <1>8. \A s \in ServiceNames : link'[s] = NoLink \/ IsToken(link[s])'
    <2>1. \A s \in ServiceNames : link[s] = NoLink \/ IsToken(link[s])
      BY DEF AccountInv
    <2> QED
      BY <1>2, <1>6, <1>7, <2>1 DEF IsToken
  <1>9. /\ \A s \in ServiceNames \ {h} : Linked(s)' <=> Linked(s)
        /\ link'[h] # NoLink
        /\ \A s \in ServiceNames : Linked(s) => link[s].grant \in 1..grants
    <2>1. \A s \in ServiceNames : Linked(s) => link[s].grant \in 1..grants
      BY LinkedIs DEF IsToken
    <2>2. \A s \in ServiceNames : s # h => (Linked(s)' <=> Linked(s))
      BY <1>7 DEF Linked
    <2>3. link'[h] # NoLink
      BY <1>6, <1>7
    <2> QED
      BY <2>1, <2>2, <2>3
  <1>10. /\ Older("google", "gmail")' /\ Older("gmail", "drive")'
         /\ Older("google", "drive")'
    BY <1>1, <1>2, <1>3, <1>6, <1>7, <1>9, Names DEF AccountInv, Older, SavedOrNone, Linked
  <1>11. \/ callback' = NoCallback
         \/ /\ callback'.left \in LeftToSave /\ callback'.refresh \in BOOLEAN
            /\ callback' = [left |-> callback'.left, refresh |-> callback'.refresh]
            /\ callback'.left # <<"google", "gmail", "drive">> => SavedOrNone("google")'
            /\ callback'.left = <<"drive">> => SavedOrNone("gmail")'
    <2>1. h = "google" => SavedOrNone("google")'
      BY <1>2, <1>6, <1>7 DEF SavedOrNone
    <2>2. h = "gmail" => SavedOrNone("gmail")' /\ SavedOrNone("google")'
      BY <1>1, <1>2, <1>3, <1>6, <1>7, <1>9, Names DEF SavedOrNone
    <2>3. <<"gmail", "drive">> # <<"drive">>
      OBVIOUS
    <2> QED
      BY <1>1, <1>3, <2>1, <2>2, <2>3 DEF LeftToSave
  <1> QED
    BY <1>1, <1>2, <1>7, <1>8, <1>10, <1>11 DEF AccountInv

LEMMA AccountStep ==
    ASSUME AccountInv, [AccountNext \/ DriveNext]_linkVars
    PROVE  AccountInv'
  <1>1. link = [s \in ServiceNames |-> link[s]]
    BY DEF AccountInv
  <1>2. ASSUME UNCHANGED <<grants, link>>, revoked' \in {revoked, grants},
               callback' \in {callback, NoCallback}
        PROVE  AccountInv'
    BY <1>1, <1>2, OnlyTimes
  <1>3. ASSUME NEW asked \in SUBSET ServiceNames, UNCHANGED <<grants, revoked, callback>>,
               link' = Refreshed(asked)
        PROVE  AccountInv'
    BY <1>3, RefreshedIs, OnlyTimes
  <1>4. CASE Consent
    <2>1. /\ grants \in Nat /\ grants' = grants + 1 /\ UNCHANGED <<revoked, link>>
          /\ revoked' \in 0..grants'
      BY <1>4 DEF Consent, AccountInv
    <2>2. \A s \in ServiceNames : link'[s] = NoLink \/ IsToken(link[s])'
      BY <2>1 DEF AccountInv, IsToken
    <2>3. /\ Older("google", "gmail")' /\ Older("gmail", "drive")'
          /\ Older("google", "drive")'
      BY <2>1 DEF AccountInv, Older, Linked
    <2>4. PICK forced \in BOOLEAN : callback' \in Exchanged(forced)
      BY <1>4 DEF Consent
    <2>5. PICK sent \in BOOLEAN : sent = RefreshSent(forced)
      BY DEF RefreshSent
    <2>6. \/ callback' = NoCallback
          \/ callback' = [left |-> <<"google", "gmail", "drive">>, refresh |-> sent]
      BY <2>4, <2>5 DEF Exchanged, Services
    <2>7. <<"google", "gmail", "drive">> # <<"drive">>
      OBVIOUS
    <2> QED
      BY <1>1, <2>1, <2>2, <2>3, <2>6, <2>7 DEF AccountInv, LeftToSave
  <1>5. CASE SaveToken
    BY <1>5, SaveKeepsOrder
  <1>6. CASE Disconnect
    <2>1. /\ link' = [s \in ServiceNames |-> NoLink] /\ UNCHANGED <<grants, callback>>
          /\ revoked' \in 0..grants'
      BY <1>6 DEF Disconnect, AccountInv
    <2>2. \A s \in ServiceNames : ~Linked(s)' /\ link'[s] = NoLink
      BY <2>1 DEF Linked
    <2> QED
      BY <2>1, <2>2, Names DEF AccountInv, Older, SavedOrNone
  <1>7. CASE Refresh
    BY <1>3, <1>7 DEF Refresh
  <1>8. CASE Lapse
    <2>1. PICK s \in ServiceNames : Linked(s) /\ link' = [link EXCEPT ![s].fresh = FALSE]
      BY <1>8 DEF Lapse
    <2>2. /\ [link[s] EXCEPT !.fresh = FALSE] =
               [link[s] EXCEPT !.fresh = FALSE, !.readable = link[s].readable]
          /\ link[s].readable \in BOOLEAN
      BY <2>1, LinkedIs DEF IsToken
    <2>3. /\ link' = [t \in ServiceNames |-> link'[t]]
          /\ link'[s] = [link[s] EXCEPT !.fresh = FALSE]
          /\ \A t \in ServiceNames : t # s => link'[t] = link[t]
      BY <1>1, <2>1
    <2>4. Retimed(link'[s], link[s])
      BY <2>2, <2>3 DEF Retimed
    <2> QED
      BY <1>8, <2>1, <2>3, <2>4, OnlyTimes DEF Lapse
  <1>9. CASE KeyChange
    <2>1. link' = [s \in ServiceNames |->
                  IF Linked(s) THEN [link[s] EXCEPT !.readable = FALSE] ELSE NoLink]
      BY <1>9 DEF KeyChange
    <2>2. ASSUME NEW s \in ServiceNames, Linked(s)
          PROVE  Retimed([link[s] EXCEPT !.readable = FALSE], link[s])
      <3>1. /\ [link[s] EXCEPT !.readable = FALSE] =
                 [link[s] EXCEPT !.fresh = link[s].fresh, !.readable = FALSE]
            /\ link[s].fresh \in BOOLEAN
        BY <2>2, LinkedIs DEF IsToken
      <3> QED
        BY <3>1 DEF Retimed
    <2>3. /\ link' = [s \in ServiceNames |-> link'[s]]
          /\ \A s \in ServiceNames :
               link'[s] = link[s] \/ (Linked(s) /\ Retimed(link'[s], link[s]))
      BY <2>1, <2>2, LinkedIs
    <2> QED
      BY <1>9, <2>3, OnlyTimes DEF KeyChange
  <1>10. CASE CreateRoot \/ BindRoot \/ SyncSubfolders
    BY <1>3, <1>10, Names DEF CreateRoot, BindRoot, SyncSubfolders
  <1>11. CASE StoreRoot \/ BuildFails \/ Crash \/ Trash \/ Revoke \/ MakeSubfolder
              \/ RecordSubfolders
    BY <1>2, <1>11
       DEF StoreRoot, BuildFails, Crash, Trash, Revoke, MakeSubfolder, RecordSubfolders,
           accountVars
  <1>12. CASE EvaluateHealth
    BY <1>2, <1>3, <1>12, Names DEF EvaluateHealth
  <1>13. CASE UNCHANGED linkVars
    BY <1>2, <1>13 DEF linkVars, accountVars
  <1> QED
    BY <1>4, <1>5, <1>6, <1>7, <1>8, <1>9, <1>10, <1>11, <1>12, <1>13
       DEF AccountNext, DriveNext, SharedNext

(* What a report of good health has seen, and that it still holds when the *)
(* renewed tokens are written.                                             *)
Seen ==
    /\ Works("drive") /\ folders[root]
    /\ Linked("drive") /\ link["drive"].readable /\ link[TokenRow("gmail")].refresh
         => Works("gmail")
HealthInv == AccountInv /\ (health = "HEALTHY" => Seen)

LEMMA GmailFollows ==
    AccountInv /\ Works("drive") =>
      (Linked("drive") /\ link["drive"].readable /\ link[TokenRow("gmail")].refresh
         => Works("gmail"))
  <1> SUFFICES ASSUME AccountInv, Works("drive"), Linked("drive"), link["drive"].readable,
                      link[TokenRow("gmail")].refresh
               PROVE  Works("gmail")
    OBVIOUS
  <1>1. /\ "google" \in ServiceNames /\ "gmail" \in ServiceNames
        /\ "drive" \in ServiceNames
    BY Names
  <1>2. \A s \in ServiceNames : Linked(s) => link[s].grant \in Nat
    BY GrantIs
  <1>3. Readable("drive") /\ TokenRow("drive") = "drive"
    BY DEF Readable, TokenRow
  <1>4. link["drive"].grant > revoked /\ revoked \in Nat
    BY <1>3 DEF Works, Alive, AccountInv
  <1>5. TokenRow("gmail") \in ServiceNames /\ Linked(TokenRow("gmail"))
    BY <1>1, <1>3 DEF TokenRow, Readable
  <1>6. link["drive"].grant <= link[TokenRow("gmail")].grant
    BY <1>1, <1>2, <1>3, <1>5 DEF TokenRow, AccountInv, Older, Readable
  <1>7. Alive(link[TokenRow("gmail")])
    BY <1>2, <1>4, <1>5, <1>6, <1>1 DEF Alive
  <1> QED
    BY <1>1, <1>3, <1>7 DEF Works, HasToken, Answers

LEMMA RenewedRow ==
    ASSUME NEW row, IsToken(row), NEW b \in BOOLEAN
    PROVE  [row EXCEPT !.fresh = b] =
             [grant |-> row.grant, fresh |-> b, readable |-> row.readable,
              refresh |-> row.refresh]
  BY DEF IsToken

LEMMA RenewedWorks ==
    ASSUME AccountInv, Works("drive"), UNCHANGED <<grants, revoked>>,
           link' = Refreshed({"google", "drive"})
    PROVE  Works("drive")'
  <1> DEFINE asked == {"google", "drive"}
  <1>1. asked \in SUBSET ServiceNames /\ "drive" \in ServiceNames
    BY Names
  <1>2. /\ link' = [s \in ServiceNames |-> link'[s]]
        /\ \A s \in ServiceNames :
             \/ link'[s] = link[s]
             \/ Linked(s) /\ link'[s] = [link[s] EXCEPT !.fresh = TRUE]
    <2>1. \A a \in asked : HasToken(a) => Linked(TokenRow(a))
      BY Names DEF HasToken, TokenRow, Readable
    <2> QED
      BY <2>1 DEF Refreshed
  <1>3. ASSUME NEW s \in ServiceNames, Linked(s)
        PROVE  LET row == [link[s] EXCEPT !.fresh = TRUE]
               IN /\ row.grant = link[s].grant /\ row.readable = link[s].readable
                  /\ row.fresh = TRUE /\ row.refresh = link[s].refresh
                  /\ row # NoLink
    <2> DEFINE row == [link[s] EXCEPT !.fresh = TRUE]
    <2>1. IsToken(link[s])
      BY <1>3, LinkedIs
    <2>2. row = [grant |-> link[s].grant, fresh |-> TRUE,
                 readable |-> link[s].readable, refresh |-> link[s].refresh]
      BY <2>1, RenewedRow
    <2> HIDE DEF row
    <2>3. /\ row.grant = link[s].grant /\ row.readable = link[s].readable
          /\ row.fresh = TRUE /\ row.refresh = link[s].refresh
      BY <2>2
    <2>4. row.grant > 0 /\ NoLink.grant = 0
      BY <2>1, <2>3 DEF IsToken, NoLink, AccountInv
    <2>5. row # NoLink
      BY <2>4
    <2> QED
      BY <2>3, <2>5 DEF row
  <1>4. ASSUME NEW s \in ServiceNames
        PROVE  /\ Linked(s)' <=> Linked(s)
               /\ Linked(s) => /\ link'[s].readable = link[s].readable
                               /\ link'[s].grant = link[s].grant
    BY <1>2, <1>3 DEF Linked
  <1>5. \A s \in ServiceNames : Readable(s)' <=> Readable(s)
    BY <1>4 DEF Readable
  <1>6. /\ TokenRow("drive")' = TokenRow("drive")
        /\ TokenRow("drive") \in ServiceNames /\ Linked(TokenRow("drive"))
        /\ HasToken("drive") /\ Alive(link[TokenRow("drive")])
        /\ \E c \in ServiceNames : Readable(c)
    BY <1>5, Names DEF TokenRow, Works, HasToken, Readable
  <1>7. link'[TokenRow("drive")].fresh = TRUE
    <2>1. link'[TokenRow("drive")] = [link[TokenRow("drive")] EXCEPT !.fresh = TRUE]
      BY <1>6 DEF Refreshed
    <2> QED
      BY <1>3, <1>6, <2>1
  <1>8. Alive(link[TokenRow("drive")])'
    BY <1>4, <1>6 DEF Alive
  <1>9. (\E c \in ServiceNames : Readable(c))'
    BY <1>5, <1>6
  <1> QED
    BY <1>6, <1>7, <1>8, <1>9 DEF Works, HasToken, Answers, LooksFresh

LEMMA HealthStep ==
    ASSUME HealthInv, [AccountNext \/ DriveNext]_linkVars
    PROVE  HealthInv'
  <1>1. AccountInv /\ AccountInv'
    BY AccountStep DEF HealthInv
  <1>2. CASE health' = "none"
    BY <1>1, <1>2 DEF HealthInv
  <1>3. ASSUME UNCHANGED <<grants, revoked, link, folders, root, health>>
        PROVE  HealthInv'
    BY <1>1, <1>3
       DEF HealthInv, Seen, Works, HasToken, TokenRow, Readable, Linked, Answers,
           LooksFresh, Alive
  <1>4. CASE EvaluateHealth
    <2>1. PICK seen \in Answers200 :
            /\ health' = Report(seen)
            /\ IF Linked("google") /\ link["google"].readable /\ HasToken("google")
               THEN link' = Refreshed({"google", "drive"}) /\ root' = RootStored(seen)
               ELSE UNCHANGED <<link, root>>
      BY <1>4 DEF EvaluateHealth
    <2>2. CASE Report(seen) # "HEALTHY"
      BY <1>1, <2>1, <2>2 DEF HealthInv
    <2>3. CASE Report(seen) = "HEALTHY"
      <3>1. /\ Linked("google") /\ link["google"].readable /\ HasToken("google")
            /\ HasToken("drive") /\ Root(seen)[2]
        BY <2>3 DEF Report
      <3>2. /\ Works("drive") /\ Root(seen)[1] \in DOMAIN folders
            /\ folders[Root(seen)[1]]
        BY <3>1 DEF Root, Answers200, Accessible
      <3>3. /\ link' = Refreshed({"google", "drive"}) /\ root' = Root(seen)[1]
            /\ UNCHANGED <<grants, revoked, folders>>
        BY <1>4, <2>1, <3>1 DEF EvaluateHealth, RootStored
      <3>4. Works("drive")' /\ folders'[root']
        BY <1>1, <3>2, <3>3, RenewedWorks
      <3>5. (Linked("drive") /\ link["drive"].readable
               /\ link[TokenRow("gmail")].refresh => Works("gmail"))'
        BY <1>1, <3>4, GmailFollows, PTL
      <3> QED
        BY <1>1, <3>4, <3>5 DEF HealthInv, Seen
    <2> QED
      BY <2>2, <2>3
  <1>5. CASE AccountNext
    BY <1>2, <1>5 DEF AccountNext, Consent, SaveToken, Disconnect, Refresh, Lapse, KeyChange
  <1>6. CASE CreateRoot \/ StoreRoot \/ Trash \/ Revoke \/ BindRoot \/ SyncSubfolders
             \/ MakeSubfolder \/ RecordSubfolders
    BY <1>2, <1>6 DEF CreateRoot, StoreRoot, Trash, Revoke, BindRoot, SyncSubfolders,
                      MakeSubfolder, RecordSubfolders
  <1>7. CASE BuildFails \/ Crash
    BY <1>3, <1>7 DEF BuildFails, Crash, accountVars
  <1>8. CASE UNCHANGED linkVars
    BY <1>3, <1>8 DEF linkVars, accountVars, driveVars
  <1> QED
    BY <1>4, <1>5, <1>6, <1>7, <1>8 DEF DriveNext, SharedNext

(* However consents, revocations, callbacks cut off and requests follow    *)
(* each other: when health is reported good, Drive's token and root folder *)
(* work, and so does Gmail's token if it can be renewed                    *)
(* (HealthyMeansUsable).                                                   *)
THEOREM HealthIsTrue == LinksSpec => []HealthyMeansUsable
  <1>1. GoogleInit => HealthInv
    BY AccountInit DEF GoogleInit, HealthInv
  <1>2. HealthInv /\ [AccountNext \/ DriveNext]_linkVars => HealthInv'
    BY HealthStep
  <1>3. HealthInv => HealthyMeansUsable
    BY DEF HealthInv, Seen, HealthyMeansUsable
  <1> QED
    BY <1>1, <1>2, <1>3, PTL DEF LinksSpec

-----------------------------------------------------------------------------
(* Folders.  A root that goes to the bin stays there with what was in it,  *)
(* so the subfolders that were found or made under a root are gone when    *)
(* another root takes its place, unless that one was given up while it was *)
(* in place.                                                               *)
FolderNames == {Subfolders[i] : i \in DOMAIN Subfolders}
Subfolder == [id : Nat, root : Nat, name : FolderNames]
InPlace(f) == f \in DOMAIN folders /\ folders[f]
Current(f) == f \in DOMAIN folders /\ (f = root \/ ~folders[f])

FoldersInv ==
    /\ \E n \in Nat \ {0} : folders \in [1..n -> BOOLEAN]
    /\ root \in {Nothing} \union DOMAIN folders
    /\ made \in Nat
    /\ subfolders \subseteq Subfolder /\ \A s \in subfolders : InPlace(s.root)
    /\ ~unseen => ExistingRootIsUsed
    /\ \A s, t \in subfolders : s.root = t.root /\ s.name = t.name => s = t

(* The names are taken from the front of the list, one after another.      *)
Halfway(b) ==
    /\ b.map \in Seq(Subfolder) /\ b.left \in Seq(FolderNames)
    /\ Len(b.map) + Len(b.left) = Len(Subfolders)
    /\ \A i \in 1..Len(b.map) :
         b.map[i].root = b.root /\ b.map[i].name = Subfolders[i]
    /\ \A i \in 1..Len(b.left) : b.left[i] = Subfolders[Len(b.map) + i]
IsBuilding(b) ==
    /\ b = [root |-> b.root, stored |-> b.stored, records |-> b.records,
            left |-> b.left, map |-> b.map]
    /\ b.root \in DOMAIN folders /\ {b.stored, b.records} \subseteq BOOLEAN
    /\ b.stored => Current(b.root) \/ unrecorded
    /\ Halfway(b)
AllUnder(list, f) ==
    /\ list \in Seq(Subfolder) /\ Len(list) = Len(Subfolders)
    /\ \A i \in 1..Len(list) : list[i].root = f /\ list[i].name = Subfolders[i]
RecordedInv ==
    \/ recorded = NoSubfolders
    \/ unrecorded
    \/ \E f \in DOMAIN folders : Current(f) /\ AllUnder(recorded, f)
DriveInv ==
    /\ FoldersInv /\ RecordedInv /\ {unrecorded, unseen} \subseteq BOOLEAN
    /\ building = NotBuilding \/ IsBuilding(building)

LEMMA HalfwayAtFirst ==
    ASSUME NEW f, NEW stored, NEW records
    PROVE  Halfway(Building(f, stored, records))
  <1>1. Subfolders \in Seq(FolderNames)
    BY LinksAssumption DEF FolderNames
  <1> QED
    BY <1>1 DEF Halfway, Building, NoSubfolders

LEMMA FreshBuilding ==
    ASSUME NEW f \in DOMAIN folders', NEW stored \in BOOLEAN, NEW records \in BOOLEAN,
           building' = Building(f, stored, records), stored => Current(f)'
    PROVE  IsBuilding(building)'
  <1>1. Halfway(building')
    BY HalfwayAtFirst
  <1>2. building' = [root |-> f, stored |-> stored, records |-> records,
                     left |-> Subfolders, map |-> NoSubfolders]
    BY DEF Building
  <1> QED
    BY <1>1, <1>2 DEF IsBuilding, Halfway

(* The root that is resolved is in place, and replaces one in place only   *)
(* when that is given up.                                                  *)
LEMMA RootIs ==
    ASSUME FoldersInv, NEW seen \in Answers200
    PROVE  /\ Root(seen)[2] => InPlace(Root(seen)[1])
           /\ RootStored(seen) \in {Nothing} \union DOMAIN folders
           /\ \/ RootStored(seen) = root
              \/ root = Nothing
              \/ ~folders[root]
              \/ GivenUp(seen)
           /\ Root(seen)[2] => RootStored(seen) = Root(seen)[1]
  <1>1. Root(seen)[2] => Accessible(Root(seen)[1])
    BY DEF Root, Answers200, Accessible
  <1> QED
    BY <1>1 DEF RootStored, GivenUp, Accessible, InPlace, FoldersInv

(* Nothing but the root, the request and the log of roots changes.         *)
LEMMA RootMoves ==
    ASSUME DriveInv, UNCHANGED <<folders, subfolders, made, recorded, unseen>>,
           root' \in {Nothing} \union DOMAIN folders, unrecorded' \in BOOLEAN,
           building' = NotBuilding \/ IsBuilding(building)',
           unrecorded' \/ (unrecorded' = unrecorded /\ \A f : Current(f) => Current(f)')
    PROVE  DriveInv'
  <1>1. FoldersInv'
    BY DEF DriveInv, FoldersInv, InPlace, AppFolders, ExistingRootIsUsed
  <1>2. RecordedInv'
    BY DEF DriveInv, RecordedInv, AllUnder
  <1> QED
    BY <1>1, <1>2 DEF DriveInv

Resolved(seen) ==
    root' = RootStored(seen) /\ unrecorded' = (unrecorded \/ GivenUp(seen))

LEMMA SameRoot ==
    ASSUME DriveInv, UNCHANGED <<folders, subfolders, made, recorded>>,
           \/ UNCHANGED <<root, unrecorded>>
           \/ \E seen \in Answers200 : Resolved(seen)
    PROVE  /\ root' \in {Nothing} \union DOMAIN folders /\ unrecorded' \in BOOLEAN
           /\ unrecorded' \/ (unrecorded' = unrecorded /\ \A f : Current(f) => Current(f)')
           /\ IsBuilding(building) /\ building' = building => IsBuilding(building)'
  <1>1. /\ FoldersInv /\ root \in {Nothing} \union DOMAIN folders
        /\ Nothing \notin DOMAIN folders /\ unrecorded \in BOOLEAN
    BY DEF DriveInv, FoldersInv, Nothing
  <1>2. CASE UNCHANGED <<root, unrecorded>>
    <2>1. \A f : Current(f) => Current(f)'
      BY <1>2 DEF Current
    <2> QED
      BY <1>1, <1>2, <2>1 DEF IsBuilding, Halfway
  <1>3. CASE \E seen \in Answers200 : Resolved(seen)
    <2>1. PICK seen \in Answers200 : Resolved(seen)
      BY <1>3
    <2>2. /\ root' \in {Nothing} \union DOMAIN folders /\ unrecorded' \in BOOLEAN
          /\ unrecorded => unrecorded'
      BY <1>1, <2>1, RootIs DEF Resolved, GivenUp
    <2>3. CASE GivenUp(seen)
      <3>1. unrecorded' = TRUE
        BY <2>1, <2>3 DEF Resolved
      <3> QED
        BY <2>2, <3>1 DEF IsBuilding, Halfway
    <2>4. CASE ~GivenUp(seen)
      <3>1. root' = root \/ root = Nothing \/ ~folders[root]
        BY <1>1, <2>1, <2>4, RootIs DEF Resolved
      <3>2. \A f : Current(f) => Current(f)'
        BY <1>1, <3>1 DEF Current
      <3>3. unrecorded' = unrecorded
        BY <1>1, <2>1, <2>4 DEF Resolved
      <3> QED
        BY <2>2, <3>2, <3>3 DEF IsBuilding, Halfway
    <2> QED
      BY <2>3, <2>4
  <1> QED
    BY <1>2, <1>3

LEMMA RootMade ==
    ASSUME DriveInv, CreateRoot
    PROVE  DriveInv'
  <1>1. /\ UNCHANGED <<root, subfolders, made, recorded, unrecorded>>
        /\ {unrecorded, unseen} \subseteq BOOLEAN
    BY DEF CreateRoot, DriveInv
  <1>2. PICK n \in Nat \ {0} : folders \in [1..n -> BOOLEAN]
    BY DEF DriveInv, FoldersInv
  <1>3. ASSUME NEW f \in AppRoots, building' = Building(f, FALSE, TRUE),
               UNCHANGED <<folders, unseen>>
        PROVE  DriveInv'
    <2>1. f \in DOMAIN folders
      BY DEF AppRoots, AppFolders
    <2>2. f \in DOMAIN folders'
      BY <1>3, <2>1
    <2>3. IsBuilding(building)'
      BY <1>3, <2>2, FreshBuilding
    <2>4. \A g : Current(g) => Current(g)'
      BY <1>1, <1>3 DEF Current
    <2>5. root' \in {Nothing} \union DOMAIN folders
      BY <1>1 DEF DriveInv, FoldersInv
    <2> QED
      BY <1>1, <1>3, <2>3, <2>4, <2>5, RootMoves
  <1> DEFINE new == Cardinality(DOMAIN folders) + 1
  <1>4. ASSUME NEW answered \in BOOLEAN, answered => AppRoots = {},
               unseen' = (unseen \/ ~answered), building' = Building(new, FALSE, TRUE),
               folders' = [f \in DOMAIN folders \union {new} |->
                             IF f = new THEN TRUE ELSE folders[f]]
        PROVE  DriveInv'
    <2>1. DOMAIN folders = 1..n /\ new = n + 1
      BY <1>2, FS_Interval
    <2> HIDE DEF new
    <2>2. DOMAIN folders' = 1..(n + 1)
      BY <1>2, <1>4, <2>1
    <2>3. ASSUME NEW f \in 1..n
          PROVE  folders'[f] = folders[f]
      <3>1. f \in DOMAIN folders \union {new} /\ f # new
        BY <1>2, <2>1
      <3> QED
        BY <1>4, <3>1
    <2>4. folders'[n + 1] = TRUE
      BY <1>2, <1>4, <2>1
    <2>5. folders' \in [1..(n + 1) -> BOOLEAN]
      <3>1. folders' = [f \in 1..(n + 1) |-> folders'[f]]
        BY <1>4, <2>2
      <3>2. \A f \in 1..(n + 1) : f = n + 1 \/ f \in 1..n
        BY <1>2
      <3>3. \A f \in 1..(n + 1) : folders'[f] \in BOOLEAN
        BY <1>2, <2>3, <2>4, <3>2
      <3> QED
        BY <3>1, <3>3
    <2>6. \A f \in DOMAIN folders' : f = n + 1 \/ f \in DOMAIN folders
      BY <1>2, <2>1, <2>2
    <2>7. \A f \in DOMAIN folders : f \in DOMAIN folders' /\ folders'[f] = folders[f]
      BY <1>2, <2>1, <2>2, <2>3
    <2>8. ~unseen' => ExistingRootIsUsed'
      <3> SUFFICES ASSUME ~unseen' PROVE ExistingRootIsUsed'
        OBVIOUS
      <3>1. \A f \in AppFolders : ~folders[f]
        BY <1>4 DEF AppRoots
      <3>2. \A f \in AppFolders' : folders'[f] => f = n + 1
        BY <2>6, <2>7, <3>1 DEF AppFolders
      <3> QED
        BY <3>2 DEF ExistingRootIsUsed
    <2>9. FoldersInv'
      <3>1. /\ root \in {Nothing} \union DOMAIN folders /\ made \in Nat
            /\ subfolders \subseteq Subfolder /\ \A s \in subfolders : InPlace(s.root)
            /\ \A s, t \in subfolders : s.root = t.root /\ s.name = t.name => s = t
        BY DEF DriveInv, FoldersInv
      <3>2. \A s \in subfolders : InPlace(s.root)'
        BY <2>7, <3>1 DEF InPlace
      <3>3. n + 1 \in Nat \ {0}
        BY <1>2
      <3> QED
        BY <1>1, <2>5, <2>7, <2>8, <3>1, <3>2, <3>3 DEF FoldersInv
    <2>10. \A f : Current(f) => Current(f)'
      BY <1>1, <2>7 DEF Current
    <2>11. RecordedInv'
      BY <1>1, <2>7, <2>10 DEF DriveInv, RecordedInv, AllUnder
    <2>12. IsBuilding(building)'
      <3>1. new \in DOMAIN folders'
        BY <1>2, <2>1, <2>2
      <3> QED
        BY <1>4, <3>1, FreshBuilding
    <2>13. unseen' \in BOOLEAN
      BY <1>1, <1>4
    <2> QED
      BY <1>1, <2>9, <2>11, <2>12, <2>13 DEF DriveInv
  <1> QED
    BY <1>3, <1>4 DEF CreateRoot

LEMMA OneFurther ==
    ASSUME NEW S, NEW T, NEW map \in Seq(S), NEW left \in Seq(T), NEW t \in S,
           left # <<>>
    PROVE  /\ Append(map, t) \in Seq(S) /\ Tail(left) \in Seq(T)
           /\ Len(Append(map, t)) + Len(Tail(left)) = Len(map) + Len(left)
           /\ Head(left) = left[1] /\ 1 \in 1..Len(left)
           /\ \A i \in 1..Len(Append(map, t)) :
                \/ i \in 1..Len(map) /\ Append(map, t)[i] = map[i]
                \/ i = Len(map) + 1 /\ Append(map, t)[i] = t
           /\ \A i \in 1..Len(Tail(left)) :
                /\ i + 1 \in 1..Len(left) /\ Tail(left)[i] = left[i + 1]
                /\ Len(map) + (i + 1) = Len(Append(map, t)) + i
  OBVIOUS

WithTaken(b, t) == [b EXCEPT !.left = Tail(@), !.map = Append(@, t)]

LEMMA Taken ==
    ASSUME building # NotBuilding, DriveInv, building.stored, building.left # <<>>,
           NEW t \in Subfolder, t.root = building.root, t.name = Head(building.left),
           building' = WithTaken(building, t), UNCHANGED <<folders, root, unrecorded>>
    PROVE  IsBuilding(building)'
  <1>1. IsBuilding(building)
    BY DEF DriveInv
  <1>2. building' = [root |-> building.root, stored |-> building.stored,
                     records |-> building.records, left |-> Tail(building.left),
                     map |-> Append(building.map, t)]
    BY <1>1 DEF IsBuilding, WithTaken
  <1>3. /\ building'.root = building.root /\ building'.stored = building.stored
        /\ building'.records = building.records
        /\ building'.left = Tail(building.left)
        /\ building'.map = Append(building.map, t)
    BY <1>2
  <1>4. Halfway(building)'
    <2>1. /\ building.map \in Seq(Subfolder) /\ building.left \in Seq(FolderNames)
          /\ Len(building.map) + Len(building.left) = Len(Subfolders)
          /\ \A i \in 1..Len(building.map) :
               /\ building.map[i].root = building.root
               /\ building.map[i].name = Subfolders[i]
          /\ \A i \in 1..Len(building.left) :
               building.left[i] = Subfolders[Len(building.map) + i]
      BY <1>1 DEF IsBuilding, Halfway
    <2>2. PICK map, left : map = building.map /\ left = building.left
      OBVIOUS
    <2>3. /\ map \in Seq(Subfolder) /\ left \in Seq(FolderNames) /\ left # <<>>
          /\ Len(map) + Len(left) = Len(Subfolders)
      BY <2>1, <2>2
    <2>4. /\ Append(map, t) \in Seq(Subfolder) /\ Tail(left) \in Seq(FolderNames)
          /\ Len(Append(map, t)) + Len(Tail(left)) = Len(Subfolders)
          /\ Head(left) = left[1] /\ 1 \in 1..Len(left)
          /\ \A i \in 1..Len(Append(map, t)) :
               \/ i \in 1..Len(map) /\ Append(map, t)[i] = map[i]
               \/ i = Len(map) + 1 /\ Append(map, t)[i] = t
          /\ \A i \in 1..Len(Tail(left)) :
               /\ i + 1 \in 1..Len(left) /\ Tail(left)[i] = left[i + 1]
               /\ Len(map) + (i + 1) = Len(Append(map, t)) + i
      BY <2>3, OneFurther
    <2>5. t.name = Subfolders[Len(map) + 1]
      BY <2>1, <2>2, <2>4
    <2>6. ASSUME NEW i \in 1..Len(Append(map, t))
          PROVE  /\ Append(map, t)[i].root = building.root
                 /\ Append(map, t)[i].name = Subfolders[i]
      BY <2>1, <2>2, <2>4, <2>5
    <2>7. ASSUME NEW i \in 1..Len(Tail(left))
          PROVE  Tail(left)[i] = Subfolders[Len(Append(map, t)) + i]
      BY <2>1, <2>2, <2>4
    <2>8. PICK further, rest : further = Append(map, t) /\ rest = Tail(left)
      OBVIOUS
    <2>9. /\ building'.root = building.root
          /\ building'.map = further /\ building'.left = rest
          /\ further \in Seq(Subfolder) /\ rest \in Seq(FolderNames)
          /\ Len(further) + Len(rest) = Len(Subfolders)
      BY <1>3, <2>2, <2>4, <2>8
    <2>10. /\ \A i \in 1..Len(further) :
                further[i].root = building.root /\ further[i].name = Subfolders[i]
           /\ \A i \in 1..Len(rest) : rest[i] = Subfolders[Len(further) + i]
      BY <2>6, <2>7, <2>8
    <2> QED
      BY <2>9, <2>10 DEF Halfway
  <1>5. (building.stored => Current(building.root) \/ unrecorded)' /\ building.root \in DOMAIN folders'
        /\ {building'.stored, building'.records} \subseteq BOOLEAN
    BY <1>1, <1>3 DEF IsBuilding, Current
  <1> HIDE DEF Halfway
  <1> QED
    BY <1>2, <1>3, <1>4, <1>5 DEF IsBuilding

LEMMA SubfolderMade ==
    ASSUME DriveInv, MakeSubfolder
    PROVE  DriveInv'
  <1>1. /\ building # NotBuilding /\ building.stored /\ building.left # <<>>
        /\ UNCHANGED <<folders, root, recorded, unrecorded, unseen>>
        /\ IsBuilding(building) /\ FoldersInv
    BY DEF DriveInv, MakeSubfolder
  <1>2. building.root \in DOMAIN folders /\ building.root \in Nat
    BY <1>1 DEF IsBuilding, FoldersInv
  <1>3. Head(building.left) \in FolderNames
    <2>1. building.left \in Seq(FolderNames)
      BY <1>1 DEF IsBuilding, Halfway
    <2> QED
      BY <1>1, <2>1
  <1> DEFINE name == Head(building.left)
  <1> DEFINE new == [id |-> made + 1, root |-> building.root, name |-> name]
  <1> DEFINE Takes(t) == building' = WithTaken(building, t)
  <1>4. RecordedInv'
    BY <1>1 DEF DriveInv, RecordedInv, AllUnder, Current
  <1>5. CASE (\E t \in Found(name) : Takes(t)) /\ UNCHANGED <<subfolders, made>>
    <2>1. PICK t \in Found(name) : Takes(t)
      BY <1>5
    <2>2. t \in Subfolder /\ t.root = building.root /\ t.name = name
      BY <1>1 DEF Found, FoldersInv
    <2>3. IsBuilding(building)'
      BY <1>1, <2>1, <2>2, Taken
    <2>4. FoldersInv'
      BY <1>1, <1>5 DEF FoldersInv, InPlace, AppFolders, ExistingRootIsUsed
    <2> QED
      BY <1>1, <1>4, <2>3, <2>4 DEF DriveInv
  <1>6. CASE /\ Found(name) = {} /\ Takes(new) /\ made' = made + 1
             /\ subfolders' = IF folders[building.root]
                              THEN subfolders \union {new} ELSE subfolders
    <2>1. made \in Nat /\ subfolders \subseteq Subfolder
      BY <1>1 DEF FoldersInv
    <2>2. new \in Subfolder /\ new.root = building.root /\ new.name = name
      BY <1>2, <1>3, <2>1 DEF Subfolder
    <2>3. IsBuilding(building)'
      BY <1>1, <1>6, <2>2, Taken
    <2>4. \A s \in subfolders : ~(s.root = new.root /\ s.name = new.name)
      BY <1>6, <2>2 DEF Found
    <2>5. /\ \A s \in subfolders : InPlace(s.root)
          /\ \A s, t \in subfolders : s.root = t.root /\ s.name = t.name => s = t
      BY <1>1 DEF FoldersInv
    <2> HIDE DEF new, name
    <2>6. /\ subfolders' \subseteq Subfolder /\ made' \in Nat
          /\ \A s \in subfolders' : InPlace(s.root)
          /\ \A s, t \in subfolders' : s.root = t.root /\ s.name = t.name => s = t
      BY <1>2, <1>6, <2>1, <2>2, <2>4, <2>5 DEF InPlace
    <2>7. FoldersInv'
      BY <1>1, <2>6 DEF FoldersInv, InPlace, AppFolders, ExistingRootIsUsed
    <2> QED
      BY <1>1, <1>4, <2>3, <2>7 DEF DriveInv
  <1> QED
    BY <1>5, <1>6 DEF MakeSubfolder, WithTaken

LEMMA Binned ==
    ASSUME DriveInv, Trash
    PROVE  DriveInv'
  <1>1. UNCHANGED <<root, made, recorded, building, unrecorded, unseen>>
    BY DEF Trash
  <1>2. PICK n \in Nat \ {0} : folders \in [1..n -> BOOLEAN]
    BY DEF DriveInv, FoldersInv
  <1>3. /\ folders' \in [1..n -> BOOLEAN] /\ subfolders' \subseteq subfolders
        /\ \A f \in DOMAIN folders : folders'[f] => folders[f]
        /\ \A s \in subfolders' : folders'[s.root] = folders[s.root]
    <2>1. CASE \E f \in DOMAIN folders :
                 /\ folders[f] /\ folders' = [folders EXCEPT ![f] = FALSE]
                 /\ subfolders' = {s \in subfolders : s.root # f}
      <3>1. PICK f \in DOMAIN folders :
              /\ folders' = [folders EXCEPT ![f] = FALSE]
              /\ subfolders' = {s \in subfolders : s.root # f}
        BY <2>1
      <3>2. /\ folders' \in [1..n -> BOOLEAN] /\ folders'[f] = FALSE
            /\ \A g \in DOMAIN folders : g # f => folders'[g] = folders[g]
        BY <1>2, <3>1
      <3>3. \A s \in subfolders : s.root \in DOMAIN folders
        BY DEF DriveInv, FoldersInv, InPlace
      <3>4. \A s \in subfolders' : s \in subfolders /\ s.root # f
        BY <3>1
      <3> QED
        BY <3>2, <3>3, <3>4
    <2>2. CASE folders' = folders /\ \E s \in subfolders : subfolders' = subfolders \ {s}
      BY <1>2, <2>2
    <2> QED
      BY <2>1, <2>2 DEF Trash
  <1>4. DOMAIN folders' = DOMAIN folders
    BY <1>2, <1>3
  <1>5. FoldersInv'
    <2>1. /\ root \in {Nothing} \union DOMAIN folders /\ made \in Nat
          /\ subfolders \subseteq Subfolder /\ \A s \in subfolders : InPlace(s.root)
          /\ ~unseen => ExistingRootIsUsed
          /\ \A s, t \in subfolders : s.root = t.root /\ s.name = t.name => s = t
      BY DEF DriveInv, FoldersInv
    <2>2. \A s \in subfolders' : InPlace(s.root)'
      BY <1>3, <1>4, <2>1 DEF InPlace
    <2>3. (~unseen => ExistingRootIsUsed)'
      BY <1>1, <1>3, <1>4, <2>1 DEF AppFolders, ExistingRootIsUsed
    <2> QED
      BY <1>1, <1>2, <1>3, <1>4, <2>1, <2>2, <2>3 DEF FoldersInv
  <1>6. \A f : Current(f) => Current(f)'
    BY <1>1, <1>3, <1>4 DEF Current
  <1>7. RecordedInv'
    BY <1>1, <1>4, <1>6 DEF DriveInv, RecordedInv, AllUnder
  <1>8. building = NotBuilding \/ IsBuilding(building)'
    BY <1>1, <1>4, <1>6 DEF DriveInv, IsBuilding, Halfway
  <1> QED
    BY <1>1, <1>5, <1>7, <1>8 DEF DriveInv

LEMMA DriveStep ==
    ASSUME DriveInv, [AccountNext \/ DriveNext]_linkVars
    PROVE  DriveInv'
  <1>1. ASSUME UNCHANGED <<folders, subfolders, made, recorded, unseen>>,
               \/ UNCHANGED <<root, unrecorded>>
               \/ \E seen \in Answers200 : Resolved(seen),
               building' \in {building, NotBuilding}
        PROVE  DriveInv'
    BY <1>1, SameRoot, RootMoves DEF DriveInv
  <1>2. CASE UNCHANGED driveVars
    BY <1>1, <1>2 DEF driveVars
  <1>3. CASE Crash \/ BuildFails \/ EvaluateHealth
    BY <1>1, <1>3 DEF Crash, BuildFails, EvaluateHealth, Resolved
  <1>4. CASE CreateRoot
    BY <1>4, RootMade
  <1>5. CASE BindRoot
    <2>1. PICK f \in DOMAIN folders : building' = Building(f, FALSE, TRUE)
      BY <1>5 DEF BindRoot
    <2>2. UNCHANGED <<folders, root, subfolders, made, recorded, unrecorded, unseen>>
      BY <1>5 DEF BindRoot
    <2>3. f \in DOMAIN folders'
      BY <2>2
    <2>4. IsBuilding(building)'
      BY <2>1, <2>3, FreshBuilding
    <2> QED
      BY <2>2, <2>4, SameRoot, RootMoves DEF DriveInv
  <1>6. CASE StoreRoot
    <2>1. /\ building # NotBuilding /\ IsBuilding(building)
          /\ root' = building.root /\ unrecorded' = TRUE
          /\ building' = [building EXCEPT !.stored = TRUE]
          /\ UNCHANGED <<folders, subfolders, made, recorded, unseen>>
      BY <1>6 DEF StoreRoot, DriveInv
    <2>2. PICK yes \in BOOLEAN : yes = TRUE
      OBVIOUS
    <2>3. building' = [building EXCEPT !.stored = yes]
      BY <2>1, <2>2
    <2>4. building' = [root |-> building.root, stored |-> yes,
                       records |-> building.records, left |-> building.left,
                       map |-> building.map]
      BY <2>1, <2>3 DEF IsBuilding
    <2>5. Current(building.root)'
      BY <2>1 DEF Current, IsBuilding
    <2>6. IsBuilding(building)'
      BY <2>1, <2>4, <2>5 DEF IsBuilding, Halfway
    <2> QED
      BY <2>1, <2>6, RootMoves DEF IsBuilding
  <1>7. CASE SyncSubfolders
    <2>1. PICK seen \in Answers200, records \in BOOLEAN :
            /\ Root(seen)[2] /\ Resolved(seen)
            /\ building' = Building(Root(seen)[1], TRUE, records)
      BY <1>7 DEF SyncSubfolders, Resolved
    <2>2. UNCHANGED <<folders, subfolders, made, recorded, unseen>>
      BY <1>7 DEF SyncSubfolders
    <2>3. PICK f : f = Root(seen)[1]
      OBVIOUS
    <2>4. InPlace(f) /\ root' = f
      BY <2>1, <2>3, RootIs DEF DriveInv, Resolved
    <2>5. f \in DOMAIN folders' /\ Current(f)'
      BY <2>2, <2>4 DEF Current, InPlace
    <2>6. building' = Building(f, TRUE, records)
      BY <2>1, <2>3
    <2>7. IsBuilding(building)'
      BY <2>5, <2>6, FreshBuilding
    <2> QED
      BY <2>1, <2>2, <2>7, SameRoot, RootMoves DEF DriveInv
  <1>8. CASE Trash
    BY <1>8, Binned
  <1>9. CASE MakeSubfolder
    BY <1>9, SubfolderMade
  <1>10. CASE RecordSubfolders
    <2>1. /\ IsBuilding(building) /\ building.stored /\ building.left = <<>>
          /\ building' = NotBuilding /\ UNCHANGED <<folders, root, subfolders, made, unseen>>
          /\ {unrecorded, unseen} \subseteq BOOLEAN
      BY <1>10 DEF RecordSubfolders, DriveInv
    <2>2. /\ Current(building.root) \/ unrecorded
          /\ AllUnder(building.map, building.root)
      BY <2>1 DEF IsBuilding, Halfway, AllUnder
    <2>3. PICK f, list : f = building.root /\ list = building.map
      OBVIOUS
    <2>4. FoldersInv'
      BY <2>1 DEF DriveInv, FoldersInv, InPlace, AppFolders, ExistingRootIsUsed
    <2>5. CASE recorded' = list /\ unrecorded' = (unrecorded /\ f # root)
      <3>1. f \in DOMAIN folders' /\ AllUnder(list, f)
        BY <2>1, <2>2, <2>3 DEF IsBuilding
      <3>2. Current(f)' \/ unrecorded'
        BY <2>1, <2>2, <2>3, <2>5, <3>1 DEF Current
      <3>3. RecordedInv'
        BY <2>5, <3>1, <3>2 DEF RecordedInv, AllUnder
      <3>4. unrecorded' \in BOOLEAN
        BY <2>1, <2>5
      <3> QED
        BY <2>1, <2>4, <3>3, <3>4 DEF DriveInv
    <2>6. CASE UNCHANGED <<recorded, unrecorded>>
      <3>1. \A g : Current(g) => Current(g)'
        BY <2>1 DEF Current
      <3> QED
        BY <2>1, <2>6, <3>1, RootMoves DEF DriveInv, FoldersInv
    <2> QED
      BY <1>10, <2>3, <2>5, <2>6 DEF RecordSubfolders
  <1> QED
    BY <1>2, <1>3, <1>4, <1>5, <1>6, <1>7, <1>8, <1>9, <1>10
       DEF AccountNext, DriveNext, SharedNext, Consent, SaveToken, Disconnect, Refresh,
           Lapse, KeyChange, Revoke, linkVars

(* However often the building of folders is cut off and tried again, and   *)
(* whatever questions to Google go wrong: one subfolder of each name under *)
(* a root, one root while no search for it went unanswered, and recorded   *)
(* subfolders that are all there are those of the active root, until one   *)
(* is stored or given up without subfolders recorded for it                *)
(* (OneOfEachFolder).                                                      *)
THEOREM FoldersAreUnique == LinksSpec => []OneOfEachFolder
  <1>1. GoogleInit => DriveInv
    <2> SUFFICES ASSUME GoogleInit PROVE DriveInv
      OBVIOUS
    <2>1. /\ folders \in [1..1 -> BOOLEAN] /\ DOMAIN folders = {ConfiguredId}
          /\ root = Nothing /\ building = NotBuilding /\ subfolders = {}
          /\ made = 0 /\ recorded = NoSubfolders /\ unrecorded = FALSE
          /\ unseen = FALSE
      BY DEF GoogleInit, ConfiguredId
    <2>2. FoldersInv
      BY <2>1 DEF FoldersInv, AppFolders, ExistingRootIsUsed
    <2> QED
      BY <2>1, <2>2 DEF DriveInv, RecordedInv
  <1>2. DriveInv /\ [AccountNext \/ DriveNext]_linkVars => DriveInv'
    BY DriveStep
  <1>3. DriveInv => OneOfEachFolder
    <2> SUFFICES ASSUME DriveInv PROVE OneOfEachFolder
      OBVIOUS
    <2>1. /\ ~unseen => ExistingRootIsUsed
          /\ \A s, t \in subfolders : s.root = t.root /\ s.name = t.name => s = t
      BY DEF DriveInv, FoldersInv
    <2>2. ASSUME Complete, ~unrecorded
          PROVE  /\ \A i \in DOMAIN recorded : recorded[i].root = root
                 /\ [i \in DOMAIN recorded |-> recorded[i].name] = Subfolders
      <3>1. /\ recorded # NoSubfolders
            /\ \A i \in DOMAIN recorded : recorded[i] \in subfolders
        BY <2>2 DEF Complete
      <3>2. PICK f \in DOMAIN folders : Current(f) /\ AllUnder(recorded, f)
        BY <2>2, <3>1 DEF DriveInv, RecordedInv
      <3>3. /\ recorded \in Seq(Subfolder) /\ Len(recorded) = Len(Subfolders)
            /\ \A i \in 1..Len(recorded) :
                 recorded[i].root = f /\ recorded[i].name = Subfolders[i]
        BY <3>2 DEF AllUnder
      <3>4. DOMAIN recorded = 1..Len(recorded) /\ 1 \in DOMAIN recorded
        BY <3>1, <3>3 DEF NoSubfolders
      <3>5. InPlace(f)
        BY <3>1, <3>3, <3>4 DEF DriveInv, FoldersInv
      <3>6. f = root
        BY <3>2, <3>5 DEF Current, InPlace
      <3>7. Subfolders \in Seq(FolderNames)
        BY LinksAssumption DEF FolderNames
      <3>8. Subfolders = [i \in 1..Len(Subfolders) |-> Subfolders[i]]
        BY <3>7
      <3> QED
        BY <3>3, <3>4, <3>6, <3>8
    <2> QED
      BY <2>1, <2>2 DEF OneOfEachFolder
  <1> QED
    BY <1>1, <1>2, <1>3, PTL DEF LinksSpec
=============================================================================
