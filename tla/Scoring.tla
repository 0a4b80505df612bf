------------------------------- MODULE Scoring -------------------------------
(***************************************************************************)
(* The ranking of a job (services/scoring.py) and the hard filters         *)
(* (services/trust_matching.py): advice, never eligibility.  Salaries are  *)
(* in thousands, times in days; a text counts by its keyword hits.         *)
(***************************************************************************)
EXTENDS Inputs

CONSTANTS
    TargetSalary, RejectBelow,  \* salary_policy of the rubric
    MinimumBase,                \* of the candidate's profile
    ExpiryDays, StaleDays,      \* DEFAULT_EXPIRY_DAYS, STALE_POSTING_DAYS
    Salaries, TechHits, LeadHits, AiHits, Evidence      \* inputs

ASSUME SalaryAssumption ==
    /\ {TargetSalary, RejectBelow, MinimumBase, ExpiryDays, StaleDays}
         \subseteq Nat
    /\ RejectBelow <= TargetSalary /\ TargetSalary > 0
ASSUME HitsAssumption ==
    /\ Salaries \union TechHits \union LeadHits \union AiHits \subseteq Nat
    /\ Evidence \subseteq 0..5

NoSalary == 0           \* not published

(* Scores are in parts of 14000, for hundred points.                       *)
Full == 14000

Compensation(salary) ==
    IF salary = NoSalary THEN 55 * 140
    ELSE IF salary < RejectBelow THEN 10 * 140
    ELSE IF salary >= TargetSalary THEN Full
    ELSE (salary * Full) \div TargetSalary

Workplace == [fully_remote_us |-> 100, remote |-> 85, hybrid |-> 45,
              unknown |-> 20, mandatory_relocation |-> 0]

(* 10 technical keywords, 7 of leadership, 7 of AI.                        *)
Technical(hits) == (Full \div 10) * hits
Aligned(hits) == (Full \div 7) * hits

(* Mutant: the penalty goes to titles that do have technical scope.        *)
LeadershipOfExperts(hits, tech) ==
    IF Aligned(hits) > 70 * 140 /\ Technical(tech) >= 40 * 140
    THEN (Aligned(hits) * 7) \div 10 ELSE Aligned(hits)

(* Much leadership without technical scope is penalized.                   *)
Leadership(hits, tech) ==
    IF Aligned(hits) > 70 * 140 /\ Technical(tech) < 40 * 140
    THEN (Aligned(hits) * 7) \div 10 ELSE Aligned(hits)

Total(f) ==
    25 * Compensation(f.salary) + 20 * 140 * Workplace[f.workplace]
    + 20 * Technical(f.tech) + 10 * Leadership(f.lead, f.tech)
    + 10 * Aligned(f.ai) + 10 * 140 * (IF f.unstable THEN 35 ELSE 70)
    + 5 * (Full \div 5) * f.evidence

(* _compute_expiration                                                     *)
Expired(posted, discovered, now) ==
    \/ now > (IF posted = NoTime THEN discovered ELSE posted) + ExpiryDays
    \/ posted # NoTime /\ now > posted + StaleDays

(* apply_hard_filters, for a profile that is remote first and does not     *)
(* relocate; advised against: travel, authorization, presence on site.     *)
PassesHardFilters(f) ==
    /\ f.workplace # "mandatory_relocation"
    /\ f.salary = NoSalary \/ f.salary >= MinimumBase
    /\ ~f.advisedAgainst

(* score_job: by the thresholds of the rubric; a failed filter overrides.  *)
(* 1 is REJECT, 2 SECONDARY_REVIEW, 3 SHORTLIST, 4 HIGH_PRIORITY.          *)
Recommendation(f) ==
    IF Total(f) < 65 * Full \/ ~PassesHardFilters(f) THEN 1
    ELSE IF Total(f) < 75 * Full THEN 2
    ELSE IF Total(f) < 85 * Full THEN 3 ELSE 4

(* build_fit_reasons: what speaks for a job.  Without any of it, and with  *)
(* a title of no known family, the owner reads of mixed signals.           *)
Strengths(f) ==
    {s \in {"technical", "leadership", "remote", "compensation", "ai"} :
       CASE s = "technical" -> Technical(f.tech) >= 60 * 140
         [] s = "leadership" -> Leadership(f.lead, f.tech) >= 60 * 140
         [] s = "remote" -> Workplace[f.workplace] >= 80
         [] s = "compensation" -> Compensation(f.salary) >= 70 * 140
         [] s = "ai" -> Aligned(f.ai) >= 50 * 140}
-----------------------------------------------------------------------------
Facts == [salary : Salaries, workplace : DOMAIN Workplace, tech : TechHits,
          lead : LeadHits, ai : AiHits, unstable : BOOLEAN,
          evidence : Evidence, advisedAgainst : BOOLEAN]

AskScore == \E f \in Facts : Given("score", f)
ScoreSpec == input = NoInput /\ [][AskScore]_input

(* Facts that improve f in one respect.  Publishing a salary and more      *)
(* leadership are not among them: both can cost points.                    *)
Improved(f) ==
    {[f EXCEPT !.tech = n] : n \in {t \in TechHits : t > f.tech}}
    \union {[f EXCEPT !.ai = n] : n \in {t \in AiHits : t > f.ai}}
    \union {[f EXCEPT !.evidence = n] : n \in {t \in Evidence : t > f.evidence}}
    \union {[f EXCEPT !.salary = n] :
              n \in {s \in Salaries : f.salary # NoSalary /\ s > f.salary}}
    \union {[f EXCEPT !.workplace = w] :
              w \in {v \in DOMAIN Workplace :
                       Workplace[v] > Workplace[f.workplace]}}
    \union {[f EXCEPT !.unstable = FALSE], [f EXCEPT !.advisedAgainst = FALSE]}

(* A posting that is better in one respect and the same in all others is   *)
(* never recommended less: caps, penalties, thresholds and hard filters    *)
(* together are monotone (scoring.py:66-141, trust_matching.py:129-165).   *)
(* And none is shortlisted whose reasons would have to be mixed signals:   *)
(* the thresholds of the reasons and of the total fit together             *)
(* (trust_matching.py:200-221).                                            *)
AdviceIsConsistent ==
    Is("score") =>
      /\ \A better \in Improved(Asked) :
           Recommendation(Asked) <= Recommendation(better)
      /\ Recommendation(Asked) >= 3 => Strengths(Asked) # {}
=============================================================================
