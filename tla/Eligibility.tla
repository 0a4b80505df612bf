----------------------------- MODULE Eligibility -----------------------------
(***************************************************************************)
(* The Fresh Jobs gate (services/job_eligibility.py): what is decided of   *)
(* one posting, and whether the owner sees it by default.  Ages are in     *)
(* days; a text is the set of the kinds of markers found in it.            *)
(***************************************************************************)
EXTENDS TitleMatching, Scoring

CONSTANTS
    TodayDays, FreshDays, RecentDays,   \* bounds of the freshness tiers
    VisibleTiers                        \* default_visible_tiers

ASSUME TierAssumption ==
    /\ {TodayDays, FreshDays, RecentDays} \subseteq Nat
    /\ TodayDays <= FreshDays /\ FreshDays <= RecentDays
    /\ VisibleTiers \subseteq {"TODAY", "FRESH", "RECENT", "HISTORICAL"}

ProtectedStates == {"SHORTLISTED", "PACKET_READY", "PACKET_GENERATING",
                    "NEEDS_EDIT", "APPROVED_FOR_SUBMISSION", "SUBMITTED",
                    "FOLLOW_UP_DUE", "RECRUITER_SIGNAL", "INTERVIEW_SIGNAL",
                    "INTERVIEW_SCHEDULED", "OFFER"}
ManualSources == {"user_forwarded_links", "manual_opportunity"}

(* What the lists of patterns find in a text: a foreign place, anything    *)
(* American, relocation, the notice that a posting is closed.              *)
TextMarkers == {"foreign", "us", "relocation", "closed"}
(* Besides them: a place near home (local_hybrid of the policy), presence  *)
(* at a place, a location cut short.                                       *)
Signs == TextMarkers \union {"local", "onsite", "truncated"}

(* evaluate_location; country is the payload's own country code.           *)
Location(text, country) ==
    LET american == "us" \in text \/ country = "US"
    IN IF "truncated" \in text THEN "AMBIGUOUS"
       ELSE IF "relocation" \in text THEN "RELOCATION_REQUIRED"
       ELSE IF "foreign" \in text /\ ~american THEN "INELIGIBLE_FOREIGN"
       ELSE IF {"local", "onsite"} \subseteq text THEN "ELIGIBLE_LOCAL"
       ELSE IF american THEN "ELIGIBLE_US" ELSE "AMBIGUOUS"

Tier(age) ==
    IF age <= TodayDays THEN "TODAY"
    ELSE IF age <= FreshDays THEN "FRESH"
    ELSE IF age <= RecentDays THEN "RECENT" ELSE "HISTORICAL"

(* evaluate_freshness: the first time that is known counts.  A discovery   *)
(* time missing in the payload is now, for callers that allow it.          *)
FirstKnown(time, otherwise) == IF time = NoTime THEN otherwise ELSE time
FreshnessTime(p, now, allowDiscovered) ==
    LET discovered ==
            IF allowDiscovered \/ p.source \in ManualSources
            THEN FirstKnown(p.discovered, now) ELSE p.discovered
    IN FirstKnown(p.posted,
                  FirstKnown(p.received, FirstKnown(p.fetched, discovered)))

Age(time, now) == IF time > now THEN 0 ELSE now - time

(* is_saved_search_url, by the kind of the URL; others name one job.       *)
ListingUrls == {"none", "linkedin_search", "linkedin_page", "indeed_search"}
IsSavedSearchUrl(url) == url \in ListingUrls

IsProtected(p) == p.state \in ProtectedStates \/ p.confirmed

(* evaluate_eligibility.  Each check may lower the verdict of those before *)
(* it: staleness overrides the reviews, an unknown time only acceptance.   *)
Refused(p) ==
    "closed" \in p.text \/ IsSavedSearchUrl(p.url)
Outside(location, role) ==
    \/ location \in {"INELIGIBLE_FOREIGN", "RELOCATION_REQUIRED"}
    \/ role = "reject"
OutOfScope(p) ==
    Outside(Location(p.text, p.country), RoleOf(p.title, p.body))

RoleVerdict(location, role) ==
    IF location = "AMBIGUOUS" THEN "OWNER_REVIEW"
    ELSE IF role = "secondary" THEN "SECONDARY_REVIEW" ELSE "ACCEPT"

AgeVerdict(verdict, role, time, protected, now) ==
    IF time = NoTime
    THEN IF role = "primary" \/ verdict = "ACCEPT" THEN "OWNER_REVIEW"
                                                  ELSE verdict
    ELSE IF Tier(Age(time, now)) = "HISTORICAL" /\ ~protected
         THEN "HISTORICAL" ELSE verdict

EmployerVerdict(verdict, p) ==
    IF verdict = "ACCEPT" /\ ~p.employer THEN "OWNER_REVIEW" ELSE verdict

Judged(p, location, role, time, now) ==
    IF Outside(location, role) THEN "REJECT"
    ELSE EmployerVerdict(AgeVerdict(RoleVerdict(location, role), role, time,
                                    IsProtected(p), now), p)

Gate(p, now, allowDiscovered) ==
    IF Refused(p) THEN "REJECT"
    ELSE IF p.title = <<>> THEN "QUARANTINE"
    ELSE Judged(p, Location(p.text, p.country), RoleOf(p.title, p.body),
                FreshnessTime(p, now, allowDiscovered), now)

OwnerVisible(p, decision, time, now) ==
    IF IsProtected(p)
    THEN decision \notin {"REJECT", "DUPLICATE", "QUARANTINE"}
    ELSE /\ decision = "ACCEPT"
         /\ time # NoTime /\ Tier(Age(time, now)) \in VisibleTiers

(* evaluate_owner_decision: a stored duplicate stays one.                  *)
OwnerDecision(p, now) ==
    IF p.persisted = "DUPLICATE" THEN "DUPLICATE" ELSE Gate(p, now, FALSE)
=============================================================================
