--------------------------- MODULE PolicyOverrides ---------------------------
(***************************************************************************)
(* From an owner's override to the discovery policy in use: validation and *)
(* compilation (services/discovery_policy_service.py) and the merge with   *)
(* the defaults of the file (services/discovery_policy.py).  An override   *)
(* has values for some keys; a policy has sections, a list is replaced.    *)
(***************************************************************************)
EXTENDS TitleMatching

CONSTANTS
    RawOverrides,       \* inputs: what owners ask for
    PolicyPostings      \* [title, body]: postings the policies are tried on

(* The file has every section, refuses both kinds of places, and keeps its *)
(* tiers in an order that the shortest freshness of an owner respects.     *)
ASSUME FileAssumption ==
    /\ {"freshness", "geography", "sources", "role_profiles",
        "role_reject_patterns", "domain_reject_patterns"}
         \subseteq DOMAIN DefaultPolicy
    /\ {"foreign_only", "relocation_required"} \subseteq DOMAIN DefaultPolicy.geography
    /\ DefaultPolicy.geography.foreign_only = "reject"
    /\ DefaultPolicy.geography.relocation_required = "reject"
    /\ {"today_hours", "fresh_hours", "recent_hours", "default_visible_tiers"}
         \subseteq DOMAIN DefaultPolicy.freshness
    /\ DefaultPolicy.freshness.default_visible_tiers # {}
    /\ LET freshness == DefaultPolicy.freshness
       IN /\ {freshness.today_hours, freshness.fresh_hours,
              freshness.recent_hours} \subseteq Nat
          /\ freshness.today_hours <= freshness.fresh_hours
          /\ freshness.fresh_hours <= 72
          /\ freshness.fresh_hours <= freshness.recent_hours

AllTiers == {"TODAY", "FRESH", "RECENT", "HISTORICAL"}
PublicProviders == {"adzuna", "jooble", "usajobs", "remotive", "remote_ok",
                    "rss", "greenhouse", "lever", "ashby"}
GmailSources == {"linkedin_alert_emails", "indeed_alert_emails",
                 "dice_alert_emails", "usajobs_alert_emails",
                 "glassdoor_alert_emails"}
Lists == {"title_include", "title_exclude", "domain_exclude", "local_hybrid"}
GeoActions == {"remote_us", "remote_unspecified"}
Salary == {"salary_target_usd", "salary_strong_usd"}

SalaryLimit == 2000000
OverrideKeys == Lists \union GeoActions \union Salary
        \union {"freshness_days", "visible_tiers", "primary_families",
               "include_secondary", "providers", "gmail_sources",
               "owner_review_sensitivity"}

(* validate_overrides, key by key.  Families may be named that nobody has. *)
Acceptable(key, value) ==
    /\ key \in OverrideKeys
    /\ key = "freshness_days" => value \in {3, 7, 14, 30}
    /\ key = "visible_tiers" => value # {} /\ value \subseteq AllTiers
    /\ key \in Lists => <<>> \notin value
    /\ key \in GeoActions => value \in {"accept", "owner_review", "reject"}
    /\ key \in Salary => value \in 1..SalaryLimit
    /\ key = "providers" => DOMAIN value \subseteq PublicProviders
    /\ key = "gmail_sources" => DOMAIN value \subseteq GmailSources
    /\ key = "owner_review_sensitivity" => value \in {"strict", "balanced", "broad"}
Valid(raw) == \A key \in DOMAIN raw : Acceptable(key, raw[key])

(* preset_overrides                                                        *)
Strict == [freshness_days |-> 3, visible_tiers |-> {"TODAY", "FRESH"},
           include_secondary |-> FALSE, remote_unspecified |-> "reject",
           owner_review_sensitivity |-> "strict"]
Broad == [freshness_days |-> 14, visible_tiers |-> AllTiers,
          include_secondary |-> TRUE, remote_unspecified |-> "owner_review",
          owner_review_sensitivity |-> "broad"]
-----------------------------------------------------------------------------
Empty == <<>>
Value(raw, key, otherwise) == IF key \in DOMAIN raw THEN raw[key] ELSE otherwise
Only(name, value) == [n \in {name} |-> value]
Taken(raw, key, name) ==
    IF key \in DOMAIN raw THEN Only(name, raw[key]) ELSE Empty
Section(name, values) ==
    IF DOMAIN values = {} THEN Empty ELSE Only(name, values)
Merged(base, over) ==
    [n \in DOMAIN base \union DOMAIN over |->
       IF n \in DOMAIN over THEN over[n] ELSE base[n]]

(* Families are switched off one by one, secondary profiles all at once;   *)
(* phrases of the owner's make a primary profile of their own.             *)
OwnerProfile(phrases) ==
    [id |-> "owner_custom_include", eligibility |-> "primary",
     patterns |-> phrases, requireAny |-> {}]
ProfilesKept(raw) ==
    LET included == Value(raw, "title_include", {})
    IN {p \in DefaultPolicy.role_profiles :
          IF p.eligibility = "primary"
          THEN Value(Value(raw, "primary_families", Empty), p.id, TRUE)
          ELSE Value(raw, "include_secondary", TRUE)}
       \union IF included = {} THEN {} ELSE {OwnerProfile(included)}
ProfilesAsked(raw) ==
    \/ DOMAIN Value(raw, "primary_families", Empty) # {}
    \/ "include_secondary" \in DOMAIN raw
    \/ Value(raw, "title_include", {}) # {}

(* Mutant: lists replace the ones of the file, as everywhere else.         *)
OnlyNew(defaults, phrases) == phrases
WithDefaults(defaults, phrases) == defaults \union phrases

Excluded(raw, key, section) ==
    IF Value(raw, key, {}) = {} THEN Empty
    ELSE Only(section, WithDefaults(DefaultPolicy[section], raw[key]))

Switched(raw, key) ==
    LET asked == Value(raw, key, Empty)
    IN [s \in DOMAIN asked |-> [enabled |-> asked[s]]]

(* compile_overrides, section by section                                   *)
Freshness(raw) ==
    Merged(IF "freshness_days" \in DOMAIN raw
           THEN Only("recent_hours", 24 * raw.freshness_days) ELSE Empty,
           Taken(raw, "visible_tiers", "default_visible_tiers"))
Geography(raw) ==
    Merged(Merged(Taken(raw, "remote_us", "remote_us"),
                  Taken(raw, "remote_unspecified", "remote_unspecified")),
           Taken(raw, "local_hybrid", "local_hybrid"))
Roles(raw) ==
    Merged(IF ProfilesAsked(raw) THEN Only("role_profiles", ProfilesKept(raw))
                                 ELSE Empty,
           Merged(Excluded(raw, "title_exclude", "role_reject_patterns"),
                  Excluded(raw, "domain_exclude", "domain_reject_patterns")))
Pay(raw) == Merged(Taken(raw, "salary_target_usd", "target_max_usd"),
                   Taken(raw, "salary_strong_usd", "strong_max_usd"))
Sources(raw) == Merged(Switched(raw, "providers"), Switched(raw, "gmail_sources"))
Compiled(raw) ==
    Merged(Merged(Merged(Section("freshness", Freshness(raw)),
                         Section("geography", Geography(raw))),
                  Roles(raw)),
           Merged(Merged(Section("salary", Pay(raw)),
                         Section("sources", Sources(raw))),
                  Taken(raw, "owner_review_sensitivity",
                        "owner_review_sensitivity")))

(* _deep_merge, of a policy: sections with keys are merged, so are sources,*)
(* whose values have keys too.                                             *)
MergedSources(base, over) ==
    [s \in DOMAIN base \union DOMAIN over |->
       Merged(Value(base, s, Empty), Value(over, s, Empty))]
DeepMerge(base, over) ==
    [s \in DOMAIN base \union DOMAIN over |->
       IF s \notin DOMAIN over THEN base[s]
       ELSE IF s \in {"freshness", "geography", "salary"}
            THEN Merged(base[s], over[s])
       ELSE IF s = "sources" THEN MergedSources(base[s], over[s])
       ELSE over[s]]

(* refresh_active_override: what does not compile is ignored.              *)
Effective(raw) ==
    DeepMerge(DefaultPolicy, IF Valid(raw) THEN Compiled(raw) ELSE Empty)
-----------------------------------------------------------------------------
BoardsOpen(policy) ==
    {s \in DOMAIN policy.sources :
       /\ policy.sources[s].enabled
       /\ "provider_id" \in DOMAIN policy.sources[s]}

AskPolicy == \E raw \in RawOverrides : Given("policy", raw)
PolicySpec == input = NoInput /\ [][AskPolicy]_input

(* Whatever the owner asks for, places stay refused that the file refuses; *)
(* a title passes that the file rejects only for a phrase of the owner's,  *)
(* and never one of the file's exclusions; the tiers stay in order; and no *)
(* source is asked that the file does not describe (the invariants stated  *)
(* in discovery_policy_service.py:8-13).                                   *)
PolicyKeepsSafety ==
    Is("policy") =>
      LET raw == Asked
          policy == Effective(raw)
      IN /\ policy.geography.foreign_only = "reject"
         /\ policy.geography.relocation_required = "reject"
         /\ policy.freshness.today_hours <= policy.freshness.fresh_hours
         /\ policy.freshness.fresh_hours <= policy.freshness.recent_hours
         /\ policy.freshness.default_visible_tiers # {}
         /\ BoardsOpen(policy) \subseteq DOMAIN DefaultPolicy.sources
         /\ \A p \in PolicyPostings :
              /\ RoleUnder(DefaultPolicy, p.title, p.body) = "reject"
              /\ RoleUnder(policy, p.title, p.body) # "reject"
              => /\ ~Rejected(DefaultPolicy, p.title, p.body)
                 /\ \E phrase \in Value(raw, "title_include", {}) :
                      PatternInTitle(phrase, p.title)
=============================================================================
