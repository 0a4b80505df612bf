----------------------------- MODULE MCPlatform -----------------------------
(***************************************************************************)
(* The parts of the system that share no state with the document, intake   *)
(* and workflow models, on small instances.  A behaviour is about one part *)
(* only, chosen in its initial state.                                      *)
(***************************************************************************)
EXTENDS FreshJobs, Sessions, AIBudget, GoogleLinks, Cutover, DatabaseIdentity,
        RecoveryRows, AlertParsing, JobSources, PolicyOverrides, TLC,
        Provisioning, JobPages

VARIABLE part

MCTitles == UNION {[1..n -> {"qe", "manager", "managers"}] : n \in 0..4}
MCPatterns == {<<>>, <<"qe">>, <<"manager">>, <<"qe", "manager">>,
               <<"manager", "qe">>, <<"manager", "qe", "manager">>,
               <<"manager", "managers">>}
MCWordsContaining == [r \in {"test"} |-> {"test", "latest"}]
MCPolicy ==
    [freshness |-> [today_hours |-> 24, fresh_hours |-> 72,
                    recent_hours |-> 168,
                    default_visible_tiers |-> {"TODAY", "FRESH", "RECENT"}],
     geography |-> [remote_us |-> "accept", remote_unspecified |-> "owner_review",
                    foreign_only |-> "reject", relocation_required |-> "reject",
                    local_hybrid |-> {<<"york">>}],
     salary |-> [target_max_usd |-> 200000, strong_max_usd |-> 170000],
     role_profiles |->
       {[id |-> "qe_manager", eligibility |-> "primary",
         patterns |-> {<<"qe", "manager">>}, requireAny |-> {}],
        [id |-> "secondary_em", eligibility |-> "secondary",
         patterns |-> {<<"manager">>}, requireAny |-> {"test"}]},
     role_reject_patterns |-> {<<"junior">>},
     domain_reject_patterns |-> {<<"hardware">>},
     sources |-> [s \in {"adzuna", "lever"} |->
                    [enabled |-> TRUE, provider_id |-> s, boards |-> {}]]
                 @@ [linkedin_alert_emails |-> [enabled |-> TRUE]]]
MCAsked(key) ==
    CASE key = "freshness_days" -> {3, 5, 30}
      [] key = "visible_tiers" -> {{}, {"TODAY"}, {"FRESH", "ALL"}}
      [] key = "primary_families" ->
           {<<>>, [f \in {"qe_manager"} |-> FALSE], [f \in {"other"} |-> FALSE]}
      [] key = "include_secondary" -> BOOLEAN
      [] key \in Lists -> {{}, {<<>>}, {<<"junior">>}, {<<"qe">>}}
      [] key \in GeoActions \union {"foreign_only"} -> {"accept", "ignore"}
      [] key \in Salary -> {0, 150000}
      [] key = "providers" -> {[s \in {"lever", "monster"} |-> TRUE],
                               [s \in {"lever", "ashby"} |-> TRUE],
                               [s \in {"adzuna"} |-> FALSE]}
      [] key = "gmail_sources" -> {[s \in {"dice_alert_emails"} |-> TRUE]}
      [] key = "owner_review_sensitivity" -> {"strict"}
MCRaws ==
    LET keys == {"freshness_days", "visible_tiers", "primary_families",
                 "include_secondary", "foreign_only", "providers",
                 "gmail_sources", "owner_review_sensitivity"}
                \union Lists \union GeoActions \union Salary
    IN {Strict, Broad, Empty}
       \union UNION {{(k :> v) @@ (l :> w) : v \in MCAsked(k), w \in MCAsked(l)} :
                       k, l \in keys}
MCPostings == [title : UNION {[1..n -> {"qe", "manager", "junior"}] : n \in 0..3},
               body : {<<>>, <<"latest">>, <<"hardware">>}]
MCTexts == {{}, {"us"}, {"foreign"}, {"foreign", "us"}, {"local", "onsite"},
            {"relocation"}, {"us", "closed"}}

Posting(text, title, employer, times, received, source) ==
    [text |-> text, country |-> times.country, title |-> title,
     body |-> <<"latest">>, employer |-> employer, url |-> "other_site",
     posted |-> times.posted, received |-> received, fetched |-> times.fetched,
     discovered |-> NoTime, source |-> source, state |-> "none",
     confirmed |-> FALSE, persisted |-> "none"]
NoTimes == [posted |-> NoTime, fetched |-> NoTime, country |-> "none"]
ProviderTimes ==
    {TimesOf(p, [d \in Dates |-> IF d = known THEN 0 ELSE NoTime], 0) :
       p \in Providers, known \in {"none", "published", "updated", "close"}}
MCOffers ==
    {Posting(text, title, employer, from[1], from[2], "connector") :
       text \in MCTexts,
       title \in {<<>>, <<"qe">>, <<"qe", "manager">>, <<"manager">>,
                 <<"junior", "qe", "manager">>},
       employer \in BOOLEAN,
       from \in (ProviderTimes \X {NoTime}) \union {<<NoTimes, 0>>}}
    \union {[Posting({"us"}, title, TRUE, NoTimes, 0, "connector")
               EXCEPT !.url = url] :
              title \in {<<"qe", "manager">>, <<"manager">>},
              url \in {"linkedin_view", "linkedin_search", "none"}}
MCForms ==
    LET Pasted(label, value) == [label |-> label, value |-> value, fits |-> TRUE]
    IN [url : {"none", "linkedin_view", "linkedin_search"},
        title : {<<>>, <<"qe", "manager">>}, company : {<<>>, <<"acme">>},
        lines : {<<>>, <<Pasted("none", <<"manager">>)>>,
                 <<Pasted("none", <<"latest">>), Pasted("title", <<"manager">>),
                   Pasted("company", <<"acme">>)>>},
        text : MCTexts]

MCListed == [effective : {0, 1}, value : {0, 1, 2}, discovered : {1, 2}]

MCAlters == <<{}, {}, {1, 2}>>
MCSubfolders == <<"packets", "archive">>

MCJobKinds ==
    LET Kind(signs, tag) == [signs |-> signs, tag |-> tag]
    IN {Kind({s}, "live") :
          s \in {"fixture", "test", "bad_mail", "pg_test", "example",
                 "e2e_name", "digest", "manual", "alert", "connector"}}
       \union {Kind({}, "live"), Kind({"gitlab", "connector"}, "live"),
               Kind({"alert"}, "FIXTURE"), Kind({"manual"}, "TEST"),
               Kind({"bad_mail"}, "TEST")}

NoFacts(url) == Line("none", Unknown, Unknown, url)
Subject(layout) == <<Line(layout, "subject", "acme", NoUrl)>>
Entry(e) ==
    [i \in 1..e.gap |-> NoFacts(NoUrl)]
    \o <<Line(e.layout, e.title, e.company, NoUrl),
         NoFacts(Url("linkedin", e.job, e.tracked))>>
Entries(title, tracked) ==
    [gap : {0, 3}, layout : {"at", "stacked"}, title : {title, Unknown},
     company : {"acme", Unknown}, job : {<<7>>, <<7, 0>>, <<8>>},
     tracked : tracked]
MCMails ==
    {[label |-> "linkedin", names |-> {}, words |-> {},
      text |-> Subject(layout) \o Entry(e) \o Entry(f)] :
       layout \in {"none", "at"},
       e \in Entries("one", BOOLEAN), f \in Entries("two", {FALSE})}
    \union
    {[label |-> label, names |-> names, words |-> words,
      text |-> Subject("none")
               \o <<NoFacts(Url(board, <<5>>, FALSE)),
                    Line(Singles[board].word, Unknown, "acme", NoUrl)>>] :
       label \in {"dice", "glassdoor", "other_alerts", "Offers",
                  "Processing", "other", "foreign_label"},
       names \in SUBSET {"linkedin", "dice", "usajobs"},
       words \in SUBSET {"OFFER", "INTERVIEW"}, board \in DOMAIN Singles}

decisions == AskTitle \/ AskScore \/ AskIdentity \/ AskRecovery \/ AskMail
             \/ AskSource \/ AskPolicy \/ AskPages

vars == <<part, input, freshVars, sessionVars, budgetVars, linkVars,
          cutoverVars, provisionVars>>

(* The parts a behaviour is not about start in one way only.               *)
Init ==
    /\ part \in {"decisions", "freshJobs", "sessions", "budget", "google",
                 "drive", "cutover", "provisioning"}
    /\ input = NoInput /\ FreshInit /\ SessionsInit /\ BudgetInit /\ GoogleInit
    /\ CutoverInit /\ ProvisioningInit
    /\ part # "sessions" => Rows = {}
    /\ part \notin {"google", "drive"} => folders[ConfiguredId]
    /\ part = "drive" <=> grants = 1

Next ==
    \/ /\ part = "decisions" /\ input = NoInput /\ decisions
       /\ UNCHANGED <<freshVars, sessionVars, budgetVars, linkVars, cutoverVars,
                      provisionVars>>
    \/ /\ part = "freshJobs" /\ FreshNext
       /\ UNCHANGED <<input, sessionVars, budgetVars, linkVars, cutoverVars,
                      provisionVars>>
    \/ /\ part = "sessions" /\ SessionsNext
       /\ UNCHANGED <<input, freshVars, budgetVars, linkVars, cutoverVars,
                      provisionVars>>
    \/ /\ part = "budget" /\ BudgetNext
       /\ UNCHANGED <<input, freshVars, sessionVars, linkVars, cutoverVars,
                      provisionVars>>
    \/ /\ \/ part = "google" /\ (AccountNext \/ SharedNext)
          \/ part = "drive" /\ DriveNext
       /\ UNCHANGED <<input, freshVars, sessionVars, budgetVars, cutoverVars,
                      provisionVars>>
    \/ /\ part = "cutover" /\ CutoverNext
       /\ UNCHANGED <<input, freshVars, sessionVars, budgetVars, linkVars,
                      provisionVars>>
    \/ /\ part = "provisioning" /\ ProvisioningNext
       /\ UNCHANGED <<input, freshVars, sessionVars, budgetVars, linkVars,
                      cutoverVars>>
Step == Next /\ UNCHANGED part
Spec == Init /\ [][Step]_vars
=============================================================================
