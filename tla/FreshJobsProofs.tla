--------------------------- MODULE FreshJobsProofs ---------------------------
(***************************************************************************)
(* Theorems about the Fresh Jobs list and the advice beside it, for every  *)
(* instance.                                                               *)
(***************************************************************************)
EXTENDS FreshJobs, TLAPS

Decisions == {"ACCEPT", "SECONDARY_REVIEW", "QUARANTINE", "OWNER_REVIEW",
              "HISTORICAL", "REJECT"}
JobStates == {"NORMALIZED", "SECONDARY_REVIEW", "CLOSED", "REJECTED",
              "SHORTLISTED", "SUBMITTED"}
JobRow == [decision : Decisions, discovered : Nat, received : Nat,
           effective : Nat, eligible : BOOLEAN, archived : BOOLEAN,
           state : JobStates, expired : BOOLEAN, tracked : BOOLEAN,
           manual : BOOLEAN]

(* What a posting in the table has been read from.                         *)
IsPayload(p) ==
    /\ p = [f \in PayloadFields |-> p[f]]
    /\ p.employer \in BOOLEAN /\ p.confirmed \in BOOLEAN
    /\ {p.posted, p.received} \subseteq Nat
    /\ {p.fetched, p.discovered} \subseteq {0, NoTime}
    /\ p.persisted = "none"

(* What the gate asks of a posting whatever the day: not refused, in scope,*)
(* a place and a role that need no review, and an employer.                *)
InScope(p) == ~Refused(p) /\ p.title # <<>> /\ ~OutOfScope(p)
Fit(p, country) ==
    /\ ~Refused(p) /\ p.title # <<>> /\ p.employer
    /\ ~Outside(Location(p.text, country), RoleOf(p.title, p.body))
    /\ RoleVerdict(Location(p.text, country), RoleOf(p.title, p.body)) = "ACCEPT"

(* The time that the audit goes by.                                        *)
AuditTime(p, row) == FirstKnown(p.posted, FirstKnown(row.received, row.discovered))

-----------------------------------------------------------------------------
(* Roles, verdicts and decisions are of a few kinds.                       *)
LEMMA Roles ==
    ASSUME NEW title, NEW body
    PROVE  RoleOf(title, body) \in {"primary", "secondary", "reject"}
  BY DEF RoleOf, RoleUnder, RoleOfKinds

LEMMA Places ==
    ASSUME NEW text, NEW country
    PROVE  Location(text, country) \in
             {"AMBIGUOUS", "RELOCATION_REQUIRED", "INELIGIBLE_FOREIGN",
              "ELIGIBLE_LOCAL", "ELIGIBLE_US"}
  BY DEF Location

LEMMA Tiers ==
    ASSUME NEW time \in Nat, NEW now \in Nat
    PROVE  /\ Tier(Age(time, now)) \in {"TODAY", "FRESH", "RECENT", "HISTORICAL"}
           /\ Tier(Age(time, now)) = "HISTORICAL" <=> Age(time, now) > RecentDays
           /\ Age(time, now) \in Nat
           /\ Age(time, now) > RecentDays => now > time + RecentDays
  BY TierAssumption DEF Tier, Age

(* The gate, in terms of what depends on the day and what does not.        *)
LEMMA GateIs ==
    ASSUME NEW p, NEW now, NEW allow, p.employer \in BOOLEAN
    PROVE  /\ Gate(p, now, allow) \in Decisions
           /\ Gate(p, now, allow) = "ACCEPT" <=>
                /\ Fit(p, p.country)
                /\ FreshnessTime(p, now, allow) # NoTime
                /\ Tier(Age(FreshnessTime(p, now, allow), now)) = "HISTORICAL" =>
                     IsProtected(p)
  <1>1. PICK role \in {"primary", "secondary", "reject"} : role = RoleOf(p.title, p.body)
    BY Roles
  <1>2. PICK place : place = Location(p.text, p.country)
    OBVIOUS
  <1>3. PICK time : time = FreshnessTime(p, now, allow)
    OBVIOUS
  <1>4. PICK old \in BOOLEAN : old <=> Tier(Age(time, now)) = "HISTORICAL"
    OBVIOUS
  <1>5. PICK protected \in BOOLEAN : protected <=> IsProtected(p)
    OBVIOUS
  <1>6. Gate(p, now, allow) =
          IF Refused(p) THEN "REJECT" ELSE IF p.title = <<>> THEN "QUARANTINE"
          ELSE Judged(p, place, role, time, now)
    BY <1>1, <1>2, <1>3 DEF Gate
  <1>7. PICK verdict \in {"OWNER_REVIEW", "SECONDARY_REVIEW", "ACCEPT"} :
          verdict = RoleVerdict(place, role)
    BY DEF RoleVerdict
  <1>8. PICK aged : aged = AgeVerdict(verdict, role, time, IsProtected(p), now)
    OBVIOUS
  <1>9. aged = IF time = NoTime
               THEN IF role = "primary" \/ verdict = "ACCEPT" THEN "OWNER_REVIEW" ELSE verdict
               ELSE IF old /\ ~protected THEN "HISTORICAL" ELSE verdict
    BY <1>4, <1>5, <1>8 DEF AgeVerdict
  <1>10. Judged(p, place, role, time, now) =
           IF Outside(place, role) THEN "REJECT"
           ELSE IF aged = "ACCEPT" /\ ~p.employer THEN "OWNER_REVIEW" ELSE aged
    BY <1>7, <1>8 DEF Judged, EmployerVerdict
  <1>11. Fit(p, p.country) <=> /\ ~Refused(p) /\ p.title # <<>> /\ p.employer
                               /\ ~Outside(place, role) /\ verdict = "ACCEPT"
    BY <1>1, <1>2, <1>7 DEF Fit
  <1>12. Gate(p, now, allow) \in Decisions
    BY <1>6, <1>7, <1>9, <1>10 DEF Decisions
  <1>13. Gate(p, now, allow) = "ACCEPT" <=>
           Fit(p, p.country) /\ time # NoTime /\ (old => protected)
    BY <1>6, <1>7, <1>9, <1>10, <1>11
  <1> QED
    BY <1>3, <1>4, <1>5, <1>12, <1>13

(* What the audit hands to the gate.                                       *)
LEMMA AuditFields ==
    ASSUME NEW p, NEW row, IsPayload(p)
    PROVE  LET a == AuditPayload(p, row)
           IN /\ a.text = p.text /\ a.title = p.title /\ a.body = p.body
              /\ a.url = p.url /\ a.employer = p.employer /\ a.posted = p.posted
              /\ a.source = p.source /\ a.country = "none"
              /\ a.state = row.state /\ a.persisted = row.decision
              /\ a.received = row.received /\ a.fetched = NoTime
              /\ a.discovered = row.discovered
              /\ a.confirmed <=> p.source \in ManualSources \union {"ad_hoc"} \/ row.manual
  BY DEF IsPayload, PayloadFields, AuditPayload

LEMMA AuditAsks ==
    ASSUME NEW p, NEW row \in JobRow, NEW now \in Nat, IsPayload(p), row.discovered < NoTime
    PROVE  /\ TimeAgain(p, row, now) = AuditTime(p, row)
           /\ TimeAgain(p, row, now) \in Nat /\ TimeAgain(p, row, now) # NoTime
           /\ Again(p, row, now) \in Decisions
           /\ Again(p, row, now) = "ACCEPT" <=>
                /\ Fit(p, "none")
                /\ AgedOut(p, row, now) => IsProtected(AuditPayload(p, row))
  <1>1. PICK a : a = AuditPayload(p, row)
    OBVIOUS
  <1>2. /\ a.text = p.text /\ a.title = p.title /\ a.body = p.body
        /\ a.url = p.url /\ a.employer = p.employer /\ a.posted = p.posted
        /\ a.source = p.source /\ a.country = "none"
        /\ a.persisted = row.decision
        /\ a.received = row.received /\ a.fetched = NoTime
        /\ a.discovered = row.discovered
    BY <1>1, AuditFields
  <1>3. row.discovered \in Nat /\ row.discovered # NoTime /\ row.received \in Nat
        /\ row.decision # "DUPLICATE"
    BY DEF JobRow, NoTime, Decisions
  <1>4. p.posted \in Nat /\ p.employer \in BOOLEAN
    BY DEF IsPayload
  <1>5. FreshnessTime(a, now, FALSE) = AuditTime(p, row)
    BY <1>2, <1>3 DEF FreshnessTime, AuditTime, FirstKnown
  <1>6. AuditTime(p, row) \in Nat /\ AuditTime(p, row) # NoTime
    BY <1>3, <1>4 DEF AuditTime, FirstKnown
  <1>7. Fit(a, "none") <=> Fit(p, "none")
    BY <1>2 DEF Fit, Refused
  <1>8. Again(p, row, now) = Gate(a, now, FALSE)
    BY <1>1, <1>2, <1>3 DEF Again, OwnerDecision
  <1>9. /\ Gate(a, now, FALSE) \in Decisions
        /\ Gate(a, now, FALSE) = "ACCEPT" <=>
             /\ Fit(a, "none") /\ FreshnessTime(a, now, FALSE) # NoTime
             /\ Tier(Age(FreshnessTime(a, now, FALSE), now)) = "HISTORICAL" => IsProtected(a)
    BY <1>2, <1>4, GateIs
  <1> QED
    BY <1>1, <1>5, <1>6, <1>7, <1>8, <1>9 DEF TimeAgain, AgedOut

-----------------------------------------------------------------------------
(* What holds of a row from its ingestion on.  It keeps the receipt of a   *)
(* posting that was in scope, and the age by which the list goes is not    *)
(* younger than the one by which the audit does; it was accepted because   *)
(* the posting fits, unless its country code vouched for it; and nothing   *)
(* that leaves an audit valid disturbs what it settled.                    *)
Kept ==
    InScope(posting) =>
      /\ job.received = posting.received
      /\ job.effective <= AuditTime(posting, job)
Accepted ==
    job.decision = "ACCEPT" /\ posting.country = "none" => Fit(posting, "none")
SettledRow ==
    \/ /\ job.eligible <=> Again(posting, job, today) = "ACCEPT"
       /\ job.eligible => job.decision = "ACCEPT" /\ ~Stale(job)
    \/ /\ IsProtected(AuditPayload(posting, job))
       /\ AgedOut(posting, job, today)
RowInv ==
    /\ IsPayload(posting) /\ job \in JobRow /\ job.discovered <= today
    /\ Kept /\ Accepted
FreshInv ==
    /\ today \in 0..MaxDay /\ audited \in BOOLEAN
    /\ job # NoRow => RowInv
    /\ audited => job # NoRow

(* What is ingested is a payload that nothing has been decided of.         *)
LEMMA Payloads ==
    ASSUME NEW p \in Offers \union Opportunities \union Imports
    PROVE  IsPayload(p)
  <1>1. CASE p \in Offers
    BY <1>1, OffersAssumption DEF IsPayload
  <1>2. ASSUME NEW form PROVE IsPayload(OpportunityOf(form)) /\ IsPayload(ImportOf(form))
    <2>1. PICK employer \in BOOLEAN : employer = (Employer(form) # <<>>)
      OBVIOUS
    <2>2. PICK body : body = FlattenSeq([i \in DOMAIN Body(form) |-> Body(form)[i].value])
      OBVIOUS
    <2>3. PICK url : url = IF form.url = Nowhere THEN "ad_hoc" ELSE form.url
      OBVIOUS
    <2>4. PICK p0 : p0 = OpportunityOf(form)
      OBVIOUS
    <2>9. PICK title, source : title = Title(form) /\ source = SourceOf(form.url)
      OBVIOUS
    <2>5. p0 = [text |-> form.text, country |-> "none", title |-> title,
                body |-> body, employer |-> employer, url |-> url,
                posted |-> NoTime, received |-> NoTime, fetched |-> NoTime,
                discovered |-> NoTime, source |-> source, state |-> "none",
                confirmed |-> TRUE, persisted |-> "none"]
      BY <2>1, <2>2, <2>3, <2>4, <2>9 DEF OpportunityOf
    <2>6. IsPayload(p0)
      BY <2>1, <2>5 DEF IsPayload, PayloadFields, NoTime
    <2>7. ImportOf(form) = [p0 EXCEPT !.body = <<"forwarded", form.url>>,
                                      !.url = form.url, !.source = "user_forwarded_links"]
      BY <2>4 DEF ImportOf
    <2>8. IsPayload(ImportOf(form))
      <3>1. PICK imported : imported = ImportOf(form)
        OBVIOUS
      <3>2. PICK words, address : words = <<"forwarded", form.url>> /\ address = form.url
        OBVIOUS
      <3>3. imported = [p0 EXCEPT !.body = words, !.url = address,
                                  !.source = "user_forwarded_links"]
        BY <2>7, <3>1, <3>2
      <3>4. imported = [text |-> form.text, country |-> "none", title |-> title,
                        body |-> words, employer |-> employer, url |-> address,
                        posted |-> NoTime, received |-> NoTime, fetched |-> NoTime,
                        discovered |-> NoTime, source |-> "user_forwarded_links",
                        state |-> "none", confirmed |-> TRUE, persisted |-> "none"]
        BY <2>5, <3>3
      <3>5. IsPayload(imported)
        BY <2>1, <3>4 DEF IsPayload, PayloadFields, NoTime
      <3> QED
        BY <3>1, <3>5
    <2> QED
      BY <2>4, <2>6, <2>8
  <1>3. CASE p \in Opportunities \union Imports
    BY <1>2, <1>3 DEF Opportunities, Imports
  <1> QED
    BY <1>1, <1>2, <1>3

(* A new row is what the gate made of its posting.                         *)
FirstScored(row, made, old, marked) ==
    \/ row = [made EXCEPT !.expired = old]
    \/ row = [made EXCEPT !.expired = old, !.tracked = marked]
LEMMA NewRow ==
    ASSUME NEW p, IsPayload(p), NEW now \in 0..MaxDay, NEW marked \in BOOLEAN,
           NEW made, made = RowOf(p, now), NEW old \in BOOLEAN,
           NEW row, FirstScored(row, made, old, marked)
    PROVE  /\ row \in JobRow /\ row.discovered = now /\ row # NoRow
           /\ InScope(p) => /\ row.received = p.received
                            /\ row.effective <= AuditTime(p, row)
           /\ row.decision = "ACCEPT" /\ p.country = "none" => Fit(p, "none")
  <1>1. PICK allow \in BOOLEAN : allow <=> p.source \in ManualSources \/ p.confirmed
    OBVIOUS
  <1>2. PICK decision : decision = Gate(p, now, p.source \in ManualSources \/ p.confirmed)
    OBVIOUS
  <1>3. decision \in Decisions /\ (decision = "ACCEPT" => Fit(p, p.country))
    BY <1>2, GateIs DEF IsPayload
  <1>4. PICK time : time = FirstKnown(FreshnessTime(p, now, p.source \in ManualSources \/ p.confirmed), now)
    OBVIOUS
  <1>5. /\ now \in Nat /\ now < NoTime /\ NoTime \in Nat
    BY OffersAssumption DEF NoTime
  <1>6. /\ p.posted \in Nat /\ p.received \in Nat /\ p.fetched \in {0, NoTime}
        /\ p.discovered \in {0, NoTime}
    BY DEF IsPayload
  <1>7. time \in Nat /\ time <= FirstKnown(p.posted, FirstKnown(p.received, now))
    BY <1>4, <1>5, <1>6 DEF FreshnessTime, FirstKnown, NoTime
  <1>9. PICK received \in Nat, effective \in Nat :
          /\ made = Row(p, decision, received, effective, now)
          /\ InScope(p) => received = p.received /\ effective = time
    BY <1>2, <1>4, <1>5, <1>6, <1>7 DEF RowOf, InScope
  <1>10. PICK eligible \in BOOLEAN, archived \in BOOLEAN :
           /\ eligible = (decision = "ACCEPT" \/ (p.confirmed /\ decision # "REJECT"))
           /\ archived = (decision = "HISTORICAL" \/ (decision = "REJECT" /\ "closed" \in p.text))
    OBVIOUS
  <1>14. PICK state \in {"NORMALIZED", "SECONDARY_REVIEW", "CLOSED", "REJECTED"} :
           state = StateAfterGate(decision)
    BY <1>3 DEF StateAfterGate, Decisions
  <1>15. PICK manual \in BOOLEAN : manual = p.confirmed
    BY DEF IsPayload
  <1>16. made = [decision |-> decision, discovered |-> now,
                 received |-> received, effective |-> effective,
                 eligible |-> eligible, archived |-> archived, state |-> state,
                 expired |-> FALSE, tracked |-> FALSE, manual |-> manual]
    BY <1>9, <1>10, <1>14, <1>15 DEF Row
  <1>11. /\ made \in JobRow /\ made.discovered = now /\ made.decision = decision
         /\ InScope(p) => made.received = p.received /\ made.effective = time
    <2>2. made \in JobRow
      BY <1>3, <1>5, <1>14, <1>15, <1>16 DEF JobRow, JobStates
    <2>3. made.received = received /\ made.effective = effective
          /\ made.discovered = now /\ made.decision = decision
      BY <1>16
    <2> QED
      BY <1>9, <2>2, <2>3
  <1>12. /\ row \in JobRow /\ row.discovered = now /\ row.decision = decision
         /\ row.received = made.received /\ row.effective = made.effective
    BY <1>11 DEF JobRow, FirstScored
  <1>13. row # NoRow
    BY <1>3, <1>12 DEF NoRow, Decisions
  <1> QED
    BY <1>3, <1>6, <1>7, <1>11, <1>12, <1>13 DEF AuditTime

(* A step that leaves alone what a row was ingested with.                  *)
LEMMA StillSound ==
    ASSUME FreshInv, job # NoRow, posting' = posting, today' \in 0..MaxDay, today <= today',
           job' \in JobRow, job'.received = job.received,
           job'.effective = job.effective, job'.discovered = job.discovered,
           job'.decision = job.decision \/ (job'.decision = "ACCEPT" => Fit(posting, "none"))
    PROVE  RowInv' /\ job' # NoRow
  <1>1. RowInv
    BY DEF FreshInv
  <1>2. IsPayload(posting)' /\ job'.discovered <= today'
    BY <1>1, OffersAssumption DEF RowInv, FreshInv, JobRow
  <1>3. AuditTime(posting, job)' = AuditTime(posting, job)
    BY DEF AuditTime
  <1>4. Kept'
    BY <1>1, <1>3 DEF RowInv, Kept
  <1>5. Accepted'
    BY <1>1 DEF RowInv, Accepted
  <1>6. job' # NoRow
    BY DEF JobRow, Decisions, NoRow
  <1> QED
    BY <1>2, <1>4, <1>5, <1>6 DEF RowInv

LEMMA NewRowSound ==
    ASSUME FreshInv, job = NoRow, UNCHANGED <<today, audited>>,
           posting' \in Offers \union Opportunities \union Imports,
           NEW marked \in BOOLEAN,
           \/ job' = Scored(posting', RowOf(posting', today), today)
           \/ job' = [Scored(posting', RowOf(posting', today), today) EXCEPT !.tracked = marked]
    PROVE  FreshInv'
  <1>1. PICK p : p = posting'
    OBVIOUS
  <1>2. PICK made : made = RowOf(p, today)
    OBVIOUS
  <1> PICK old \in BOOLEAN : old = Expired(p.posted, made.discovered, today)
    BY DEF Expired
  <1>5. PICK row : row = job'
    OBVIOUS
  <1>3. FirstScored(row, made, old, marked)
    BY <1>1, <1>2, <1>5 DEF Scored, FirstScored
  <1>4. IsPayload(p) /\ today \in 0..MaxDay
    BY <1>1, Payloads DEF FreshInv
  <1>6. /\ row \in JobRow /\ row.discovered = today /\ row # NoRow
        /\ InScope(p) => row.received = p.received /\ row.effective <= AuditTime(p, row)
        /\ row.decision = "ACCEPT" /\ p.country = "none" => Fit(p, "none")
    BY <1>2, <1>3, <1>4, NewRow
  <1>7. RowInv'
    BY <1>1, <1>4, <1>5, <1>6 DEF RowInv, Kept, Accepted, FreshInv
  <1> QED
    BY <1>7, <1>5, <1>6 DEF FreshInv

LEMMA RescoredSound ==
    ASSUME FreshInv, job # NoRow, NEW row \in JobRow, row.received = job.received,
           row.effective = job.effective, row.discovered = job.discovered,
           row.decision = job.decision, job' = Scored(posting, row, today),
           UNCHANGED <<posting, today>>, audited' \in BOOLEAN
    PROVE  FreshInv'
  <1>1. PICK old \in BOOLEAN : old = Expired(posting.posted, row.discovered, today)
    BY DEF Expired
  <1>2. job' = [row EXCEPT !.expired = old]
    BY <1>1 DEF Scored
  <1>3. /\ job' \in JobRow /\ job'.received = job.received /\ job'.effective = job.effective
        /\ job'.discovered = job.discovered /\ job'.decision = job.decision
    BY <1>2 DEF JobRow
  <1>4. today' \in 0..MaxDay /\ today <= today'
    BY OffersAssumption DEF FreshInv
  <1>5. RowInv' /\ job' # NoRow
    BY <1>3, <1>4, StillSound
  <1> QED
    BY <1>4, <1>5 DEF FreshInv

(* The audit accepts what fits and lists nothing else.                     *)
LEMMA SettledIs ==
    ASSUME NEW row \in JobRow, NEW decision \in Decisions, NEW shown \in BOOLEAN,
           NEW settled, settled = Settled(row, decision, shown)
    PROVE  /\ settled \in JobRow
           /\ settled.received = row.received /\ settled.effective = row.effective
           /\ settled.discovered = row.discovered /\ settled.manual = row.manual
           /\ settled.decision = row.decision \/ settled.decision = decision
           /\ decision = "ACCEPT" /\ shown =>
                /\ settled.eligible /\ settled.decision = "ACCEPT"
                /\ settled.state \notin {"REJECTED", "CLOSED"}
                /\ settled.state = row.state \/ settled.state = "NORMALIZED"
                /\ settled.state = "NORMALIZED" =>
                     row.state \in {"NORMALIZED", "REJECTED", "CLOSED"}
           /\ decision # "ACCEPT" =>
                /\ ~settled.eligible /\ settled.decision = decision
                /\ settled.state \notin ProtectedStates
           /\ decision = "ACCEPT" /\ ~shown => settled = row
  <1>1. CASE decision = "ACCEPT" /\ shown
    BY <1>1 DEF Settled, ForReview, JobRow, JobStates, Decisions
  <1>2. CASE decision = "ACCEPT" /\ ~shown
    BY <1>2 DEF Settled, ForReview
  <1>3. CASE decision \in ForReview
    BY <1>3 DEF Settled, ForReview, JobRow, JobStates, Decisions, ProtectedStates
  <1>4. CASE decision \in {"HISTORICAL", "REJECT"}
    BY <1>4 DEF Settled, ForReview, JobRow, JobStates, Decisions, ProtectedStates
  <1> QED
    BY <1>1, <1>2, <1>3, <1>4 DEF Decisions, ForReview

LEMMA AuditSound ==
    ASSUME FreshInv, Audit
    PROVE  FreshInv'
  <1>1. /\ RowInv /\ job # NoRow /\ job \in JobRow /\ IsPayload(posting)
        /\ today \in Nat /\ today < NoTime /\ job.discovered < NoTime
        /\ UNCHANGED <<posting, today>>
    BY OffersAssumption DEF Audit, FreshInv, RowInv, JobRow, NoTime
  <1>2. PICK decision : decision = Again(posting, job, today)
    OBVIOUS
  <1>3. decision \in Decisions /\ (decision = "ACCEPT" => Fit(posting, "none"))
    BY <1>1, <1>2, AuditAsks
  <1>4. PICK shown \in BOOLEAN :
          shown = (VisibleAgain(posting, job, decision, today) /\ ~AgedOut(posting, job, today))
    OBVIOUS
  <1>5. job' = Settled(job, decision, shown)
    BY <1>2, <1>4 DEF Audit, SettledNow
  <1>6. /\ job' \in JobRow /\ job'.received = job.received /\ job'.effective = job.effective
        /\ job'.discovered = job.discovered
        /\ job'.decision = job.decision \/ job'.decision = decision
    BY <1>1, <1>3, <1>5, SettledIs
  <1>7. today' \in 0..MaxDay /\ today <= today' /\ audited' \in BOOLEAN
    BY <1>1 DEF FreshInv, Audit
  <1>8. RowInv' /\ job' # NoRow
    BY <1>1, <1>3, <1>6, <1>7, StillSound
  <1> QED
    BY <1>7, <1>8 DEF FreshInv

LEMMA FreshStep ==
    ASSUME FreshInv, [FreshNext]_freshVars
    PROVE  FreshInv'
  <1>1. CASE Ingest \/ ConfirmNew \/ ImportUrl
    <2>1. /\ job = NoRow /\ UNCHANGED <<today, audited>>
          /\ posting' \in Offers \union Opportunities \union Imports
      BY <1>1 DEF Ingest, ConfirmNew, ImportUrl
    <2>2. PICK marked \in BOOLEAN :
            \/ job' = Scored(posting', RowOf(posting', today), today)
            \/ job' = [Scored(posting', RowOf(posting', today), today)
                         EXCEPT !.tracked = marked]
      BY <1>1 DEF Ingest, ConfirmNew, ImportUrl
    <2> QED
      BY <2>1, <2>2, NewRowSound
  <1>2. CASE Day
    <2>1. /\ UNCHANGED <<posting, job>> /\ today' \in 0..MaxDay /\ today <= today'
          /\ audited' = FALSE
      BY <1>2, OffersAssumption DEF Day, FreshInv
    <2>2. CASE job = NoRow
      BY <2>1, <2>2 DEF FreshInv
    <2>3. CASE job # NoRow
      <3>1. job' \in JobRow
        BY <2>1, <2>3 DEF FreshInv, RowInv
      <3>2. RowInv' /\ job' # NoRow
        BY <2>1, <2>3, <3>1, StillSound
      <3> QED
        BY <2>1, <3>2 DEF FreshInv
    <2> QED
      BY <2>2, <2>3
  <1>3. CASE Progress \/ SetManualStatus \/ Reconcile
    <2>1. /\ job # NoRow /\ UNCHANGED <<posting, today>> /\ job \in JobRow
          /\ audited' \in BOOLEAN
      BY <1>3 DEF Progress, SetManualStatus, Reconcile, FreshInv, RowInv
    <2>2. PICK state \in JobStates, tracked \in BOOLEAN :
            job' = [job EXCEPT !.state = state] \/ job' = [job EXCEPT !.tracked = tracked]
      BY <1>3 DEF Progress, SetManualStatus, Reconcile, Reconciled, JobStates
    <2>3. /\ job' \in JobRow /\ job'.received = job.received
          /\ job'.effective = job.effective /\ job'.discovered = job.discovered
          /\ job'.decision = job.decision
      BY <2>1, <2>2 DEF JobRow
    <2>4. today' \in 0..MaxDay /\ today <= today'
      BY <2>1, OffersAssumption DEF FreshInv
    <2>5. RowInv' /\ job' # NoRow
      BY <2>1, <2>3, <2>4, StillSound
    <2> QED
      BY <2>1, <2>4, <2>5 DEF FreshInv
  <1>4. CASE Confirm
    <2>1. /\ job # NoRow /\ UNCHANGED <<posting, today>> /\ job \in JobRow
          /\ audited' \in BOOLEAN
      BY <1>4 DEF Confirm, FreshInv, RowInv
    <2>2. PICK row : row = [job EXCEPT !.tracked = TRUE, !.manual = TRUE]
      OBVIOUS
    <2>3. /\ row \in JobRow /\ row.received = job.received
          /\ row.effective = job.effective /\ row.discovered = job.discovered
          /\ row.decision = job.decision
      BY <2>1, <2>2 DEF JobRow
    <2>4. job' = Scored(posting, row, today)
      BY <1>4, <2>2 DEF Confirm
    <2> QED
      BY <2>1, <2>3, <2>4, RescoredSound
  <1>5. CASE Rescore \/ ScoreAll
    <2>1. /\ job # NoRow /\ UNCHANGED <<posting, today, audited>> /\ job \in JobRow
          /\ job' = Scored(posting, job, today)
      BY <1>5 DEF Rescore, ScoreAll, FreshInv, RowInv
    <2> QED
      BY <2>1, RescoredSound DEF FreshInv
  <1>6. CASE Audit
    BY <1>6, AuditSound
  <1>7. CASE UNCHANGED freshVars
    BY <1>7 DEF freshVars, FreshInv, RowInv, Kept, Accepted
  <1> QED
    BY <1>1, <1>2, <1>3, <1>4, <1>5, <1>6, <1>7 DEF FreshNext

(* The invariant of a row on the list: what its ingestion and its audits   *)
(* have established, and what no later step takes back.                    *)
THEOREM RowInvariant == FreshSpec => []FreshInv
  <1>1. FreshInit => FreshInv
    <2>1. 0 \in 0..MaxDay
      BY OffersAssumption
    <2> QED
      BY <2>1 DEF FreshInit, FreshInv
  <1>2. FreshInv /\ [FreshNext]_freshVars => FreshInv'
    BY FreshStep
  <1> QED
    BY <1>1, <1>2, PTL DEF FreshSpec

-----------------------------------------------------------------------------
(* The tiers that the file shows by default; an owner's policy may show    *)
(* fewer, and the list goes by its age alone.                              *)
DefaultTiersShown == {"TODAY", "FRESH", "RECENT"} \subseteq VisibleTiers

(* What the gate accepts is shown unless it has aged out and is protected. *)
LEMMA AcceptedIsShown ==
    ASSUME DefaultTiersShown, NEW p, NEW row \in JobRow, NEW now \in Nat, IsPayload(p),
           row.discovered < NoTime, Again(p, row, now) = "ACCEPT"
    PROVE  VisibleAgain(p, row, "ACCEPT", now)
  <1>1. /\ TimeAgain(p, row, now) \in Nat /\ TimeAgain(p, row, now) # NoTime
        /\ AgedOut(p, row, now) => IsProtected(AuditPayload(p, row))
    BY AuditAsks
  <1>2. Tier(Age(TimeAgain(p, row, now), now)) \in {"TODAY", "FRESH", "RECENT", "HISTORICAL"}
    BY <1>1, Tiers
  <1>3. CASE IsProtected(AuditPayload(p, row))
    BY <1>3 DEF VisibleAgain, OwnerVisible
  <1>4. CASE ~IsProtected(AuditPayload(p, row))
    <2>1. Tier(Age(TimeAgain(p, row, now), now)) \in VisibleTiers
      BY <1>1, <1>2, <1>4 DEF AgedOut, DefaultTiersShown
    <2> QED
      BY <1>1, <1>4, <2>1 DEF VisibleAgain, OwnerVisible
  <1> QED
    BY <1>3, <1>4

(* A job on the list is one the gate would accept and show now, for every  *)
(* set of offers and forms and every policy that shows the tiers of the    *)
(* file (routers/jobs.py:45, job_eligibility.py:798).                      *)
THEOREM ListedStaysAccepted ==
    ASSUME DefaultTiersShown
    PROVE  FreshSpec => []ListedIsAccepted
  <1>1. FreshInv => ListedIsAccepted
    <2> SUFFICES ASSUME FreshInv, job # NoRow, Listed(job, today), posting.country = "none",
                        ~(job.tracked /\ ~job.manual)
                 PROVE  /\ Again(posting, job, today) = "ACCEPT"
                        /\ VisibleAgain(posting, job, "ACCEPT", today)
      BY DEF ListedIsAccepted
    <2>1. /\ RowInv /\ job \in JobRow /\ IsPayload(posting)
          /\ today \in Nat /\ job.discovered < NoTime
      BY OffersAssumption DEF FreshInv, RowInv, JobRow, NoTime
    <2>2. Fit(posting, "none")
      BY <2>1 DEF RowInv, Accepted, Listed
    <2>3. /\ TimeAgain(posting, job, today) = AuditTime(posting, job)
          /\ TimeAgain(posting, job, today) \in Nat
      BY <2>1, AuditAsks
    <2>4. AgedOut(posting, job, today) => IsProtected(AuditPayload(posting, job))
      <3>1. CASE job.state \in ProtectedStates
        BY <2>1, <3>1, AuditFields DEF IsProtected
      <3>2. CASE job.tracked
        <4>1. job.manual
          BY <3>2
        <4>2. AuditPayload(posting, job).confirmed
          BY <2>1, <4>1, AuditFields
        <4> QED
          BY <4>2 DEF IsProtected
      <3>3. CASE job.effective + RecentDays >= today
        <4>1. InScope(posting)
          BY <2>2, <2>1 DEF Fit, InScope, OutOfScope
        <4>2. job.effective <= TimeAgain(posting, job, today) /\ job.effective \in Nat
          BY <2>1, <2>3, <4>1 DEF RowInv, Kept, JobRow
        <4>3. ~(today > TimeAgain(posting, job, today) + RecentDays) /\ RecentDays \in Nat
          BY <2>1, <2>3, <3>3, <4>2, TierAssumption
        <4> QED
          BY <2>1, <2>3, <4>3, Tiers DEF AgedOut
      <3> QED
        BY <3>1, <3>2, <3>3 DEF Listed
    <2>5. Again(posting, job, today) = "ACCEPT"
      BY <2>1, <2>2, <2>4, AuditAsks
    <2> QED
      BY <2>1, <2>5, AcceptedIsShown
  <1> QED
    BY <1>1, RowInvariant, PTL

-----------------------------------------------------------------------------
(* What an audit settles stays so under the steps that do not reset it:    *)
(* scoring, which the gate does not ask for, and reconciliation, which     *)
(* finds no stale row that is not protected from ageing.                   *)
SettledInv == FreshInv /\ (audited => SettledRow)

(* The gate asks for little of a row: what was ingested, whether it is     *)
(* confirmed, and whether its state is protected.                          *)
LEMMA AgainDependsOn ==
    ASSUME NEW p, NEW row \in JobRow, NEW other \in JobRow, NEW now \in Nat, IsPayload(p),
           row.discovered < NoTime, other.discovered = row.discovered,
           other.received = row.received, other.manual = row.manual
    PROVE  /\ AgedOut(p, other, now) <=> AgedOut(p, row, now)
           /\ (other.state \in ProtectedStates <=> row.state \in ProtectedStates) =>
                /\ IsProtected(AuditPayload(p, other)) <=> IsProtected(AuditPayload(p, row))
                /\ Again(p, other, now) = "ACCEPT" <=> Again(p, row, now) = "ACCEPT"
           /\ IsProtected(AuditPayload(p, other)) =>
                \/ other.state \in ProtectedStates
                \/ IsProtected(AuditPayload(p, row))
  <1>1. TimeAgain(p, other, now) = TimeAgain(p, row, now)
    <2>1. TimeAgain(p, row, now) = AuditTime(p, row)
      BY AuditAsks
    <2>2. TimeAgain(p, other, now) = AuditTime(p, other)
      BY AuditAsks
    <2>3. AuditTime(p, other) = AuditTime(p, row)
      BY DEF AuditTime
    <2> QED
      BY <2>1, <2>2, <2>3
  <1>2. AgedOut(p, other, now) <=> AgedOut(p, row, now)
    BY <1>1 DEF AgedOut
  <1>3. IsProtected(AuditPayload(p, row)) <=>
          row.state \in ProtectedStates \/ AuditPayload(p, row).confirmed
    BY AuditFields DEF IsProtected
  <1>4. IsProtected(AuditPayload(p, other)) <=>
          other.state \in ProtectedStates \/ AuditPayload(p, other).confirmed
    BY AuditFields DEF IsProtected
  <1>5. AuditPayload(p, other).confirmed <=> AuditPayload(p, row).confirmed
    BY AuditFields
  <1> QED
    BY <1>2, <1>3, <1>4, <1>5, AuditAsks

LEMMA AuditSettlesRow ==
    ASSUME DefaultTiersShown, FreshInv, Audit
    PROVE  SettledRow'
  <1>1. /\ RowInv /\ job # NoRow /\ job \in JobRow /\ IsPayload(posting)
        /\ today \in Nat /\ job.discovered < NoTime
        /\ UNCHANGED <<posting, today>>
    BY OffersAssumption DEF Audit, FreshInv, RowInv, JobRow, NoTime
  <1>2. PICK decision : decision = Again(posting, job, today)
    OBVIOUS
  <1>3. decision \in Decisions
    BY <1>1, <1>2, AuditAsks
  <1>4. PICK shown \in BOOLEAN :
          shown = (VisibleAgain(posting, job, decision, today) /\ ~AgedOut(posting, job, today))
    OBVIOUS
  <1>5. PICK settled : settled = job' /\ settled = Settled(job, decision, shown)
    BY <1>2, <1>4 DEF Audit, SettledNow
  <1>6. /\ settled \in JobRow /\ settled.received = job.received
        /\ settled.discovered = job.discovered /\ settled.manual = job.manual
    BY <1>1, <1>3, <1>5, SettledIs
  <1>7. CASE decision = "ACCEPT" /\ shown
    <2>1. /\ settled.eligible /\ settled.decision = "ACCEPT"
          /\ settled.state \notin {"REJECTED", "CLOSED"}
          /\ settled.state \in ProtectedStates <=> job.state \in ProtectedStates
      <3>1. /\ settled.eligible /\ settled.decision = "ACCEPT"
            /\ settled.state \notin {"REJECTED", "CLOSED"}
            /\ settled.state = job.state \/ settled.state = "NORMALIZED"
            /\ settled.state = "NORMALIZED" =>
                 job.state \in {"NORMALIZED", "REJECTED", "CLOSED"}
        <4>1. /\ decision = "ACCEPT" /\ shown =>
                   /\ settled.eligible /\ settled.decision = "ACCEPT"
                   /\ settled.state \notin {"REJECTED", "CLOSED"}
                   /\ settled.state = job.state \/ settled.state = "NORMALIZED"
                   /\ settled.state = "NORMALIZED" =>
                        job.state \in {"NORMALIZED", "REJECTED", "CLOSED"}
          BY <1>1, <1>3, <1>5, SettledIs
        <4> QED
          BY <1>7, <4>1
      <3>2. \A s \in {"NORMALIZED", "REJECTED", "CLOSED"} : s \notin ProtectedStates
        BY DEF ProtectedStates
      <3> QED
        BY <3>1, <3>2
    <2>2. Again(posting, settled, today) = "ACCEPT"
      BY <1>1, <1>2, <1>6, <1>7, <2>1, AgainDependsOn
    <2> QED
      BY <1>1, <1>5, <2>1, <2>2 DEF SettledRow, Stale
  <1>8. CASE decision = "ACCEPT" /\ ~shown
    <2>1. settled = job
      BY <1>1, <1>3, <1>5, <1>8, SettledIs
    <2>2. VisibleAgain(posting, job, "ACCEPT", today)
      BY <1>1, <1>2, <1>8, AcceptedIsShown
    <2>3. AgedOut(posting, job, today)
      BY <1>4, <1>8, <2>2
    <2>4. IsProtected(AuditPayload(posting, job))
      BY <1>1, <1>2, <1>8, <2>3, AuditAsks
    <2> QED
      BY <1>1, <1>5, <2>1, <2>3, <2>4 DEF SettledRow
  <1>9. CASE decision # "ACCEPT"
    <2>1. ~settled.eligible /\ settled.state \notin ProtectedStates
      BY <1>1, <1>3, <1>5, <1>9, SettledIs
    <2>2. Again(posting, settled, today) # "ACCEPT"
      BY <1>1, <1>2, <1>6, <1>9, <2>1, AgainDependsOn, AuditAsks
    <2> QED
      BY <1>1, <1>5, <2>1, <2>2 DEF SettledRow
  <1> QED
    BY <1>7, <1>8, <1>9

(* Scoring changes nothing the gate asks for.                              *)
LEMMA ScoringSettles ==
    ASSUME FreshInv, SettledRow, job # NoRow, job' = Scored(posting, job, today),
           UNCHANGED <<posting, today>>
    PROVE  SettledRow'
  <1>1. /\ job \in JobRow /\ IsPayload(posting) /\ today \in Nat /\ job.discovered < NoTime
    BY OffersAssumption DEF FreshInv, RowInv, JobRow, NoTime
  <1>2. PICK old \in BOOLEAN : old = Expired(posting.posted, job.discovered, today)
    BY DEF Expired
  <1>3. PICK row : row = job' /\ row = [job EXCEPT !.expired = old]
    BY <1>2 DEF Scored
  <1>4. /\ row \in JobRow /\ row.received = job.received /\ row.discovered = job.discovered
        /\ row.manual = job.manual /\ row.state = job.state /\ row.decision = job.decision
        /\ row.eligible = job.eligible
    BY <1>1, <1>3 DEF JobRow
  <1>5. /\ AgedOut(posting, row, today) <=> AgedOut(posting, job, today)
        /\ IsProtected(AuditPayload(posting, row)) <=> IsProtected(AuditPayload(posting, job))
        /\ Again(posting, row, today) = "ACCEPT" <=> Again(posting, job, today) = "ACCEPT"
    BY <1>1, <1>4, AgainDependsOn
  <1>6. Stale(row) <=> Stale(job)
    BY <1>4 DEF Stale
  <1> QED
    BY <1>3, <1>4, <1>5, <1>6 DEF SettledRow

(* A stale row is reconciled after an audit only if it is protected.       *)
LEMMA ReconciledStaysSettled ==
    ASSUME FreshInv, SettledRow, Reconcile
    PROVE  SettledRow'
  <1>1. /\ job \in JobRow /\ IsPayload(posting) /\ today \in Nat /\ job.discovered < NoTime
        /\ UNCHANGED <<posting, today>>
    BY OffersAssumption DEF FreshInv, RowInv, JobRow, NoTime, Reconcile
  <1>2. Stale(job) /\ job.eligible
    BY DEF Reconcile, Stale
  <1>3. IsProtected(AuditPayload(posting, job)) /\ AgedOut(posting, job, today)
    BY <1>2 DEF SettledRow
  <1>4. PICK row : row = job' /\ row = [job EXCEPT !.state = "NORMALIZED"]
    BY DEF Reconcile, Reconciled
  <1>5. /\ row \in JobRow /\ row.received = job.received /\ row.discovered = job.discovered
        /\ row.manual = job.manual /\ row.state \notin ProtectedStates
        /\ job.state \notin ProtectedStates
    BY <1>1, <1>2, <1>4 DEF JobRow, JobStates, Stale, ProtectedStates
  <1>6. AgedOut(posting, row, today) /\ IsProtected(AuditPayload(posting, row))
    BY <1>1, <1>3, <1>5, AgainDependsOn
  <1> QED
    BY <1>1, <1>4, <1>6 DEF SettledRow

(* After an audit eligibility is what the gate says until a day passes or  *)
(* the job moves on (audit_fresh_jobs.py:291).                             *)
THEOREM AuditSettles ==
    ASSUME DefaultTiersShown
    PROVE  FreshSpec => []AuditSettlesEligibility
  <1>1. FreshInit => SettledInv
    <2>1. 0 \in 0..MaxDay
      BY OffersAssumption
    <2> QED
      BY <2>1 DEF FreshInit, FreshInv, SettledInv
  <1>2. SettledInv /\ [FreshNext]_freshVars => SettledInv'
    <2> SUFFICES ASSUME SettledInv, [FreshNext]_freshVars, audited'
                 PROVE  SettledRow'
      BY FreshStep DEF SettledInv
    <2>1. FreshInv /\ (audited => SettledRow /\ job # NoRow)
      BY DEF SettledInv, FreshInv
    <2>2. CASE Audit
      BY <2>1, <2>2, AuditSettlesRow
    <2>3. CASE Rescore \/ ScoreAll
      BY <2>1, <2>3, ScoringSettles DEF Rescore, ScoreAll
    <2>4. CASE Reconcile
      BY <2>1, <2>4, ReconciledStaysSettled DEF Reconcile
    <2>5. CASE Ingest \/ ConfirmNew \/ ImportUrl
      BY <2>1, <2>5 DEF Ingest, ConfirmNew, ImportUrl
    <2>6. CASE Day \/ Progress \/ SetManualStatus \/ Confirm
      BY <2>6 DEF Day, Progress, SetManualStatus, Confirm
    <2>7. CASE UNCHANGED freshVars
      BY <2>1, <2>7 DEF freshVars, SettledRow
    <2> QED
      BY <2>2, <2>3, <2>4, <2>5, <2>6, <2>7 DEF FreshNext
  <1>3. SettledInv => AuditSettlesEligibility
    BY DEF SettledInv, SettledRow, AuditSettlesEligibility
  <1> QED
    BY <1>1, <1>2, <1>3, PTL DEF FreshSpec-----------------------------------------------------------------------------
(* Quotients grow with what is divided.                                    *)
LEMMA QuotientIs ==
    ASSUME NEW a \in Nat, NEW n \in Nat, n > 0
    PROVE  /\ a \div n \in Nat
           /\ n * (a \div n) <= a /\ a < n * (a \div n) + n
  OBVIOUS

LEMMA QuotientGrows ==
    ASSUME NEW a \in Nat, NEW b \in Nat, NEW n \in Nat, n > 0, a <= b
    PROVE  a \div n \in Nat /\ b \div n \in Nat /\ a \div n <= b \div n
  <1>1. PICK q \in Nat : q = a \div n
    BY QuotientIs
  <1>2. PICK r \in Nat : r = b \div n
    BY QuotientIs
  <1>3. n * q <= a /\ b < n * r + n
    BY <1>1, <1>2, QuotientIs
  <1>4. ASSUME q > r PROVE FALSE
    <2>1. q >= r + 1
      BY <1>4
    <2>2. n * q >= n * (r + 1)
      BY <2>1, SMTT(30)
    <2>3. n * (r + 1) = n * r + n
      OBVIOUS
    <2> QED
      BY <1>3, <2>2, <2>3
  <1> QED
    BY <1>1, <1>2, <1>4

(* The rubric: whoever pays what is not rejected pays a tenth of the       *)
(* target (config/scoring-rubric.yml:17-19).                               *)
RubricFits == TargetSalary <= 10 * RejectBelow

LEMMA CompensationGrows ==
    ASSUME RubricFits, NEW s \in Nat, NEW t \in Nat, s # NoSalary, s <= t
    PROVE  /\ Compensation(s) \in Nat /\ Compensation(t) \in Nat
           /\ Compensation(s) <= Compensation(t)
  <1>1. /\ TargetSalary \in Nat /\ RejectBelow \in Nat /\ TargetSalary > 0
        /\ RejectBelow <= TargetSalary /\ TargetSalary <= 10 * RejectBelow
        /\ s \in Nat \ {0} /\ t \in Nat \ {0}
    BY SalaryAssumption DEF RubricFits, NoSalary
  <1>2. \A x \in Nat \ {0} :
          /\ (x * 14000) \div TargetSalary \in Nat
          /\ x >= RejectBelow => 1400 <= (x * 14000) \div TargetSalary
          /\ x < TargetSalary => (x * 14000) \div TargetSalary <= 14000
    <2> TAKE x \in Nat \ {0}
    <2>1. (x * 14000) \in Nat
      OBVIOUS
    <2>2. PICK q \in Nat : q = (x * 14000) \div TargetSalary
      BY <1>1, <2>1, QuotientIs
    <2>3. TargetSalary * q <= x * 14000 /\ x * 14000 < TargetSalary * q + TargetSalary
      BY <1>1, <2>1, <2>2, QuotientIs
    <2>4. ASSUME x >= RejectBelow PROVE 1400 <= q
      <3>1. TargetSalary * 1400 <= x * 14000
        BY <1>1, <2>4
      <3>2. ASSUME q < 1400 PROVE FALSE
        <4>1. TargetSalary * (q + 1) <= TargetSalary * 1400
          BY <1>1, <3>2, SMTT(30)
        <4>2. TargetSalary * (q + 1) = TargetSalary * q + TargetSalary
          BY <1>1
        <4> QED
          BY <1>1, <2>3, <3>1, <4>1, <4>2
      <3> QED
        BY <3>2
    <2>5. ASSUME x < TargetSalary PROVE q <= 14000
      <3>1. TargetSalary * q <= TargetSalary * 14000
        BY <1>1, <2>3, <2>5
      <3>2. ASSUME q > 14000 PROVE FALSE
        <4>1. TargetSalary * (14000 + 1) <= TargetSalary * q
          BY <1>1, <3>2, SMTT(30)
        <4>2. TargetSalary * (14000 + 1) = TargetSalary * 14000 + TargetSalary
          BY <1>1
        <4> QED
          BY <1>1, <3>1, <4>1, <4>2
      <3> QED
        BY <3>2
    <2> QED
      BY <2>2, <2>4, <2>5
  <1>3. (s * 14000) \div TargetSalary <= (t * 14000) \div TargetSalary
    BY <1>1, QuotientGrows
  <1>4. \A x \in Nat \ {0} : Compensation(x) =
          IF x < RejectBelow THEN 1400
          ELSE IF x >= TargetSalary THEN 14000 ELSE (x * 14000) \div TargetSalary
    BY DEF Compensation, NoSalary, Full
  <1> QED
    BY <1>1, <1>2, <1>3, <1>4

LEMMA LeadershipGrows ==
    ASSUME NEW hits \in Nat, NEW tech \in Nat, NEW more \in Nat, tech <= more
    PROVE  /\ Leadership(hits, tech) \in Nat /\ Leadership(hits, more) \in Nat
           /\ Leadership(hits, tech) <= Leadership(hits, more)
           /\ Technical(tech) \in Nat /\ Technical(more) \in Nat
           /\ Technical(tech) <= Technical(more)
  <1>1. \A n \in Nat : Technical(n) = 1400 * n /\ Aligned(n) = 2000 * n
    BY DEF Technical, Aligned, Full
  <1>2. PICK a \in Nat : a = Aligned(hits)
    BY <1>1
  <1>3. (a * 7) \div 10 \in Nat /\ (a * 7) \div 10 <= a
    BY QuotientIs
  <1> QED
    BY <1>1, <1>2, <1>3 DEF Leadership

Worth(f) == Workplace[f.workplace]
Stability(f) == IF f.unstable THEN 35 ELSE 70

LEMMA FactsAre ==
    ASSUME NEW f \in Facts
    PROVE  /\ f.salary \in Nat /\ f.tech \in Nat /\ f.lead \in Nat /\ f.ai \in Nat
           /\ f.evidence \in 0..5 /\ Worth(f) \in {0, 20, 45, 85, 100}
           /\ f.evidence \in Nat /\ Worth(f) \in Nat
           /\ f.workplace \in {"fully_remote_us", "remote", "hybrid", "unknown",
                               "mandatory_relocation"}
           /\ Worth(f) = 0 <=> f.workplace = "mandatory_relocation"
           /\ f.unstable \in BOOLEAN /\ f.advisedAgainst \in BOOLEAN
  <1>1. /\ f.salary \in Nat /\ f.tech \in Nat /\ f.lead \in Nat /\ f.ai \in Nat
        /\ f.evidence \in 0..5 /\ f.unstable \in BOOLEAN /\ f.advisedAgainst \in BOOLEAN
    BY HitsAssumption DEF Facts
  <1>2. f.workplace \in {"fully_remote_us", "remote", "hybrid", "unknown",
                         "mandatory_relocation"}
    BY DEF Facts, Workplace
  <1> QED
    BY <1>1, <1>2 DEF Worth, Workplace

(* What a job scores, and how it grows with each fact.                     *)
LEMMA TotalIs ==
    ASSUME RubricFits, NEW f \in Facts
    PROVE  /\ Compensation(f.salary) \in Nat /\ Leadership(f.lead, f.tech) \in Nat
           /\ Stability(f) \in {35, 70}
           /\ Total(f) = 25 * Compensation(f.salary) + 2800 * Worth(f)
                         + 28000 * f.tech + 10 * Leadership(f.lead, f.tech)
                         + 20000 * f.ai + 1400 * Stability(f) + 14000 * f.evidence
           /\ Total(f) \in Nat
  <1>1. /\ f.salary \in Nat /\ f.tech \in Nat /\ f.lead \in Nat /\ f.ai \in Nat
        /\ f.evidence \in Nat /\ Worth(f) \in Nat
    BY FactsAre
  <1>2. Compensation(f.salary) \in Nat
    <2>1. CASE f.salary = NoSalary
      BY <2>1 DEF Compensation
    <2> QED
      BY <1>1, <2>1, CompensationGrows
  <1>3. Leadership(f.lead, f.tech) \in Nat
    <2>1. f.lead \in Nat /\ f.tech \in Nat /\ f.tech <= f.tech
      BY <1>1
    <2> QED
      BY <2>1, LeadershipGrows
  <1>4. Stability(f) \in {35, 70}
    BY DEF Stability
  <1>5. Technical(f.tech) = 1400 * f.tech /\ Aligned(f.ai) = 2000 * f.ai
    BY DEF Technical, Aligned, Full
  <1>6. Total(f) = 25 * Compensation(f.salary) + 20 * 140 * Worth(f)
                   + 20 * Technical(f.tech) + 10 * Leadership(f.lead, f.tech)
                   + 10 * Aligned(f.ai) + 10 * 140 * Stability(f)
                   + 5 * (14000 \div 5) * f.evidence
    BY DEF Total, Worth, Stability, Full
  <1>7. 14000 \div 5 = 2800
    OBVIOUS
  <1>8. Total(f) = 25 * Compensation(f.salary) + 2800 * Worth(f)
                   + 28000 * f.tech + 10 * Leadership(f.lead, f.tech)
                   + 20000 * f.ai + 1400 * Stability(f) + 14000 * f.evidence
    BY <1>1, <1>2, <1>3, <1>4, <1>5, <1>6, <1>7
  <1> QED
    BY <1>1, <1>2, <1>3, <1>4, <1>8

LEMMA MoreOfEach ==
    ASSUME RubricFits, NEW f \in Facts, NEW g \in Facts,
           g.salary = f.salary \/ (f.salary # NoSalary /\ f.salary <= g.salary),
           Worth(f) <= Worth(g), f.tech <= g.tech, g.lead = f.lead, f.ai <= g.ai,
           f.evidence <= g.evidence, g.unstable => f.unstable,
           g.advisedAgainst => f.advisedAgainst
    PROVE  Total(f) <= Total(g) /\ (PassesHardFilters(f) => PassesHardFilters(g))
  <1>1. /\ f.salary \in Nat /\ f.tech \in Nat /\ f.lead \in Nat /\ f.ai \in Nat
        /\ f.evidence \in Nat /\ Worth(f) \in Nat
        /\ Worth(f) = 0 <=> f.workplace = "mandatory_relocation"
    BY FactsAre
  <1>2. /\ g.salary \in Nat /\ g.tech \in Nat /\ g.lead \in Nat /\ g.ai \in Nat
        /\ g.evidence \in Nat /\ Worth(g) \in Nat
        /\ Worth(g) = 0 <=> g.workplace = "mandatory_relocation"
    BY FactsAre
  <1>3. /\ Compensation(f.salary) \in Nat /\ Compensation(g.salary) \in Nat
        /\ Compensation(f.salary) <= Compensation(g.salary)
    <2>1. CASE g.salary = f.salary
      BY <2>1, TotalIs
    <2>2. CASE f.salary # NoSalary /\ f.salary <= g.salary
      BY <1>1, <1>2, <2>2, CompensationGrows
    <2> QED
      BY <2>1, <2>2
  <1>4. /\ Leadership(f.lead, f.tech) \in Nat /\ Leadership(g.lead, g.tech) \in Nat
        /\ Leadership(f.lead, f.tech) <= Leadership(g.lead, g.tech)
    BY <1>1, <1>2, LeadershipGrows
  <1>5. Stability(f) \in {35, 70} /\ Stability(g) \in {35, 70} /\ Stability(f) <= Stability(g)
    BY DEF Stability
  <1>6. Total(f) = 25 * Compensation(f.salary) + 2800 * Worth(f)
                   + 28000 * f.tech + 10 * Leadership(f.lead, f.tech)
                   + 20000 * f.ai + 1400 * Stability(f) + 14000 * f.evidence
    BY TotalIs
  <1>7. Total(g) = 25 * Compensation(g.salary) + 2800 * Worth(g)
                   + 28000 * g.tech + 10 * Leadership(g.lead, g.tech)
                   + 20000 * g.ai + 1400 * Stability(g) + 14000 * g.evidence
    BY TotalIs
  <1>8. Total(f) <= Total(g)
    BY <1>1, <1>2, <1>3, <1>4, <1>5, <1>6, <1>7
  <1>9. ASSUME PassesHardFilters(f) PROVE PassesHardFilters(g)
    <2>1. g.workplace # "mandatory_relocation"
      BY <1>1, <1>2, <1>9 DEF PassesHardFilters
    <2>2. g.salary = NoSalary \/ g.salary >= MinimumBase
      <3>1. MinimumBase \in Nat
        BY SalaryAssumption
      <3> QED
        BY <1>1, <1>2, <1>9, <3>1 DEF PassesHardFilters
    <2> QED
      BY <1>9, <2>1, <2>2 DEF PassesHardFilters
  <1> QED
    BY <1>8, <1>9

LEMMA ImprovedIsMore ==
    ASSUME RubricFits, NEW f \in Facts, NEW g \in Improved(f)
    PROVE  /\ Total(f) <= Total(g) /\ g \in Facts
           /\ PassesHardFilters(f) => PassesHardFilters(g)
  <1>1. /\ f.salary \in Nat /\ f.tech \in Nat /\ f.lead \in Nat /\ f.ai \in Nat
        /\ f.evidence \in Nat /\ Worth(f) \in Nat
    BY FactsAre
  <1>2. CASE g \in {[f EXCEPT !.tech = n] : n \in {t \in TechHits : t > f.tech}}
    <2>1. PICK n \in TechHits : n > f.tech /\ g = [f EXCEPT !.tech = n]
      BY <1>2
    <2>2. /\ g \in Facts /\ g.tech = n /\ g.salary = f.salary /\ g.lead = f.lead
          /\ g.ai = f.ai /\ g.evidence = f.evidence /\ g.workplace = f.workplace
          /\ g.unstable = f.unstable /\ g.advisedAgainst = f.advisedAgainst
      BY <2>1 DEF Facts
    <2>3. n \in Nat
      BY HitsAssumption
    <2>4. /\ f.tech <= g.tech /\ f.ai <= g.ai /\ f.evidence <= g.evidence
          /\ g.salary = f.salary \/ (f.salary # NoSalary /\ f.salary <= g.salary)
      BY <1>1, <2>1, <2>2, <2>3
    <2>5. Worth(f) <= Worth(g)
      BY <1>1, <2>2 DEF Worth
    <2> QED
      BY <2>2, <2>4, <2>5, MoreOfEach
  <1>3. CASE g \in {[f EXCEPT !.ai = n] : n \in {t \in AiHits : t > f.ai}}
    <2>1. PICK n \in AiHits : n > f.ai /\ g = [f EXCEPT !.ai = n]
      BY <1>3
    <2>2. /\ g \in Facts /\ g.ai = n /\ g.salary = f.salary /\ g.lead = f.lead
          /\ g.tech = f.tech /\ g.evidence = f.evidence /\ g.workplace = f.workplace
          /\ g.unstable = f.unstable /\ g.advisedAgainst = f.advisedAgainst
      BY <2>1 DEF Facts
    <2>3. n \in Nat
      BY HitsAssumption
    <2>4. /\ f.tech <= g.tech /\ f.ai <= g.ai /\ f.evidence <= g.evidence
          /\ g.salary = f.salary \/ (f.salary # NoSalary /\ f.salary <= g.salary)
      BY <1>1, <2>1, <2>2, <2>3
    <2>5. Worth(f) <= Worth(g)
      BY <1>1, <2>2 DEF Worth
    <2> QED
      BY <2>2, <2>4, <2>5, MoreOfEach
  <1>4. CASE g \in {[f EXCEPT !.evidence = n] : n \in {t \in Evidence : t > f.evidence}}
    <2>1. PICK n \in Evidence : n > f.evidence /\ g = [f EXCEPT !.evidence = n]
      BY <1>4
    <2>2. /\ g \in Facts /\ g.evidence = n /\ g.salary = f.salary /\ g.lead = f.lead
          /\ g.tech = f.tech /\ g.ai = f.ai /\ g.workplace = f.workplace
          /\ g.unstable = f.unstable /\ g.advisedAgainst = f.advisedAgainst
      BY <2>1 DEF Facts
    <2>3. n \in Nat
      BY HitsAssumption
    <2>4. /\ f.tech <= g.tech /\ f.ai <= g.ai /\ f.evidence <= g.evidence
          /\ g.salary = f.salary \/ (f.salary # NoSalary /\ f.salary <= g.salary)
      BY <1>1, <2>1, <2>2, <2>3
    <2>5. Worth(f) <= Worth(g)
      BY <1>1, <2>2 DEF Worth
    <2> QED
      BY <2>2, <2>4, <2>5, MoreOfEach
  <1>5. CASE g \in {[f EXCEPT !.salary = n] :
                      n \in {s \in Salaries : f.salary # NoSalary /\ s > f.salary}}
    <2>1. PICK n \in Salaries : f.salary # NoSalary /\ n > f.salary /\ g = [f EXCEPT !.salary = n]
      BY <1>5
    <2>2. /\ g \in Facts /\ g.salary = n /\ g.evidence = f.evidence /\ g.lead = f.lead
          /\ g.tech = f.tech /\ g.ai = f.ai /\ g.workplace = f.workplace
          /\ g.unstable = f.unstable /\ g.advisedAgainst = f.advisedAgainst
      BY <2>1 DEF Facts
    <2>3. n \in Nat
      BY HitsAssumption
    <2>4. /\ f.tech <= g.tech /\ f.ai <= g.ai /\ f.evidence <= g.evidence
          /\ g.salary = f.salary \/ (f.salary # NoSalary /\ f.salary <= g.salary)
      BY <1>1, <2>1, <2>2, <2>3
    <2>5. Worth(f) <= Worth(g)
      BY <1>1, <2>2 DEF Worth
    <2> QED
      BY <2>2, <2>4, <2>5, MoreOfEach
  <1>6. CASE g \in {[f EXCEPT !.workplace = w] :
                      w \in {v \in DOMAIN Workplace : Workplace[v] > Workplace[f.workplace]}}
    <2>1. PICK w \in DOMAIN Workplace :
            Workplace[w] > Workplace[f.workplace] /\ g = [f EXCEPT !.workplace = w]
      BY <1>6
    <2>2. /\ g \in Facts /\ g.salary = f.salary /\ g.evidence = f.evidence /\ g.lead = f.lead
          /\ g.tech = f.tech /\ g.ai = f.ai /\ g.workplace = w
          /\ g.unstable = f.unstable /\ g.advisedAgainst = f.advisedAgainst
      BY <2>1 DEF Facts
    <2>3. Worth(g) > Worth(f) /\ Worth(g) \in Nat
      BY <2>1, <2>2, FactsAre DEF Worth
    <2> QED
      BY <1>1, <2>2, <2>3, MoreOfEach
  <1>7. CASE g \in {[f EXCEPT !.unstable = FALSE], [f EXCEPT !.advisedAgainst = FALSE]}
    <2>1. /\ g \in Facts /\ g.salary = f.salary /\ g.evidence = f.evidence
          /\ g.lead = f.lead /\ g.tech = f.tech /\ g.ai = f.ai
          /\ g.workplace = f.workplace
          /\ g.unstable => f.unstable
          /\ g.advisedAgainst => f.advisedAgainst
      BY <1>7 DEF Facts
    <2> QED
      BY <1>1, <2>1, MoreOfEach DEF Worth
  <1> QED
    BY <1>2, <1>3, <1>4, <1>5, <1>6, <1>7 DEF Improved

(* A posting that is better in one respect and the same in all others is   *)
(* never recommended less, and none is shortlisted that has no strength    *)
(* (scoring.py:66-141, trust_matching.py:200-221).                         *)
THEOREM AdviceHolds ==
    ASSUME RubricFits
    PROVE  ScoreSpec => []AdviceIsConsistent
  <1> DEFINE Inv == Is("score") => Asked \in Facts
  <1>1. input = NoInput => Inv
    BY DEF NoInput, Is
  <1>2. Inv /\ [AskScore]_input => Inv'
    BY DEF Is, Asked, AskScore, Given
  <1>3. ASSUME NEW f \in Facts, NEW g \in Improved(f)
        PROVE  Recommendation(f) <= Recommendation(g)
    <2>1. /\ Total(f) <= Total(g) /\ g \in Facts
          /\ PassesHardFilters(f) => PassesHardFilters(g)
      BY <1>3, ImprovedIsMore
    <2>2. Total(f) \in Nat /\ Total(g) \in Nat
      BY <2>1, TotalIs
    <2> QED
      BY <2>1, <2>2 DEF Recommendation, Full
  <1>4. ASSUME NEW f \in Facts, Recommendation(f) >= 3 PROVE Strengths(f) # {}
    <2>1. Total(f) >= 75 * 14000
      BY <1>4, TotalIs DEF Recommendation, Full
    <2> SUFFICES ASSUME Strengths(f) = {} PROVE FALSE
      OBVIOUS
    <2>2. PICK c \in Nat, l \in Nat :
            c = Compensation(f.salary) /\ l = Leadership(f.lead, f.tech)
      BY TotalIs
    <2>3. /\ Technical(f.tech) = 1400 * f.tech /\ Aligned(f.ai) = 2000 * f.ai
      BY DEF Technical, Aligned, Full
    <2>4. /\ f.tech \in Nat /\ f.ai \in Nat /\ f.evidence \in 0..5
          /\ Worth(f) \in {0, 20, 45, 85, 100}
      BY FactsAre
    <2>5. 1400 * f.tech < 8400
      <3>1. "technical" \notin Strengths(f)
        OBVIOUS
      <3> QED
        BY <2>3, <2>4, <3>1 DEF Strengths
    <2>6. l < 8400
      <3>1. "leadership" \notin Strengths(f)
        OBVIOUS
      <3> QED
        BY <2>2, <3>1 DEF Strengths
    <2>7. Worth(f) < 80
      <3>1. "remote" \notin Strengths(f)
        OBVIOUS
      <3> QED
        BY <2>4, <3>1 DEF Strengths, Worth
    <2>8. c < 9800
      <3>1. "compensation" \notin Strengths(f)
        OBVIOUS
      <3> QED
        BY <2>2, <3>1 DEF Strengths
    <2>9. 2000 * f.ai < 7000
      <3>1. "ai" \notin Strengths(f)
        OBVIOUS
      <3> QED
        BY <2>3, <2>4, <3>1 DEF Strengths
    <2>10. Stability(f) \in {35, 70} /\
           Total(f) = 25 * c + 2800 * Worth(f) + 28000 * f.tech + 10 * l
                      + 20000 * f.ai + 1400 * Stability(f) + 14000 * f.evidence
      BY <2>2, TotalIs
    <2> QED
      BY <2>1, <2>2, <2>4, <2>5, <2>6, <2>7, <2>8, <2>9, <2>10
  <1>5. Inv => AdviceIsConsistent
    BY <1>3, <1>4 DEF AdviceIsConsistent
  <1> QED
    BY <1>1, <1>2, <1>5, PTL DEF ScoreSpec
=============================================================================
