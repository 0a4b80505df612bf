-------------------------- MODULE DecisionsProofs --------------------------
(***************************************************************************)
(* Theorems about the pure decisions, for every input: what becomes of the *)
(* sources of jobs, of an owner's policy, of a title, of a page of the     *)
(* list and of the entries of a mail.                                      *)
(***************************************************************************)
EXTENDS JobSources, PolicyOverrides, JobPages, AlertParsing,
        FiniteSetTheorems, SequenceTheorems, WellFoundedInduction, TLAPS

-----------------------------------------------------------------------------
(* The sources.                                                            *)
LEMMA RegistryFacts ==
    /\ Providers = {"greenhouse", "lever", "ashby", "remotive", "remote_ok",
                    "rss", "adzuna", "jooble", "usajobs"}
    /\ Ats = {"greenhouse", "lever", "ashby"}
    /\ Needing("feed") = {"rss"}
    /\ Keyed = {"adzuna", "jooble", "usajobs"}
    /\ \A p \in Providers :
         Registry[p].onFailure = IF p = "lever" THEN "refused" ELSE "failed"
  <1>1. Providers = {"greenhouse", "lever", "ashby", "remotive", "remote_ok",
                     "rss", "adzuna", "jooble", "usajobs"}
    BY DEF Providers, Registry
  <1>2. /\ Plain.needs = "nothing" /\ Plain.onFailure = "failed"
        /\ Greenhouse.needs = "board" /\ Greenhouse.onFailure = "failed"
        /\ Ashby.needs = "board" /\ Ashby.onFailure = "failed"
        /\ Rss.needs = "feed" /\ Rss.onFailure = "failed"
        /\ Adzuna.needs = "keys" /\ Adzuna.onFailure = "failed"
        /\ Jooble.needs = "keys" /\ Jooble.onFailure = "failed"
    BY DEF Plain, Greenhouse, Ashby, Rss, Adzuna, Jooble
  <1>3. /\ Lever.needs = "board" /\ Lever.onFailure = "refused"
        /\ Usajobs.needs = "keys" /\ Usajobs.onFailure = "failed"
        /\ Remotive = Plain /\ RemoteOk = Plain
    BY DEF Plain, Lever, Usajobs, Remotive, RemoteOk
  <1>4. /\ Registry["greenhouse"] = Greenhouse /\ Registry["lever"] = Lever
        /\ Registry["ashby"] = Ashby /\ Registry["remotive"] = Remotive
        /\ Registry["remote_ok"] = RemoteOk /\ Registry["rss"] = Rss
        /\ Registry["adzuna"] = Adzuna /\ Registry["jooble"] = Jooble
        /\ Registry["usajobs"] = Usajobs
    BY DEF Registry
  <1>5. \A p \in Providers :
          Registry[p].onFailure = IF p = "lever" THEN "refused" ELSE "failed"
    BY <1>1, <1>2, <1>3, <1>4
  <1>6. \A p \in Providers :
          Registry[p].needs =
            IF p \in {"greenhouse", "lever", "ashby"} THEN "board"
            ELSE IF p = "rss" THEN "feed"
            ELSE IF p \in {"adzuna", "jooble", "usajobs"} THEN "keys" ELSE "nothing"
    BY <1>1, <1>2, <1>3, <1>4
  <1> QED
    BY <1>1, <1>5, <1>6 DEF Ats, Keyed, Needing

(* What a run reports.                                                     *)
LEMMA RunReports ==
    ASSUME NEW p \in Providers, NEW board, NEW env,
           NEW site \in {"jobs", "empty", "failed", "ingest_fails"}
    PROVE  LET result == RunConnector(p, board, env, site)
               ready == BaseStatus(p, env) = "READY"
               asked == ~(p \in Ats /\ board = NoBoard) /\ IsConfigured(p, env)
           IN /\ result.health = "HEALTHY" <=> ready /\ asked /\ site = "jobs"
              /\ result.row = "HEALTHY" <=> result.health = "HEALTHY"
  <1> DEFINE fetched == Fetched(p, board, env, site)
  <1> DEFINE asked == ~(p \in Ats /\ board = NoBoard) /\ IsConfigured(p, env)
  <1>1. BaseStatus(p, env) \in {"DISABLED", "NOT_CONFIGURED", "READY"}
    BY DEF BaseStatus
  <1>2. /\ fetched \in {"refused", "failed", "jobs", "empty", "ingest_fails"}
        /\ fetched = "jobs" <=> asked /\ site = "jobs"
    BY RegistryFacts DEF Fetched
  <1> HIDE DEF fetched, asked
  <1>3. RunConnector(p, board, env, site) =
          IF BaseStatus(p, env) # "READY" THEN Result(BaseStatus(p, env), NoRun)
          ELSE IF fetched \in {"refused", "ingest_fails"} THEN Result("ERROR", NoRun)
          ELSE IF fetched = "failed" THEN Result("ERROR", "ERROR")
          ELSE IF fetched = "empty" THEN Result("DEGRADED", "DEGRADED")
          ELSE Result("HEALTHY", "HEALTHY")
    BY <1>2 DEF RunConnector, fetched
  <1>4. \A health, row : Result(health, row).health = health /\ Result(health, row).row = row
    BY DEF Result
  <1> QED
    BY <1>1, <1>2, <1>3, <1>4 DEF NoRun, asked

(* For every set of boards: what the inventory calls ready runs, only what *)
(* it calls ready brings jobs, and health is what the last run with a row  *)
(* found (discovery_source_inventory.py:158-187).                          *)
THEOREM InventoryIsTrue == SourceSpec => []InventoryTellsWhatRuns
  <1> DEFINE Inv == Is("source") =>
                      /\ Asked.key \in Providers
                      /\ Asked.cfg.enabled \in BOOLEAN /\ Asked.cfg.boards \subseteq Boards
                      /\ Asked.site \in {"jobs", "empty", "failed", "ingest_fails"}
                      /\ Asked.before \in {NoRun, "ERROR", "DEGRADED", "HEALTHY"}
  <1>1. input = NoInput => Inv
    BY DEF NoInput, Is
  <1>2. Inv /\ [AskSource]_input => Inv'
    BY DEF AskSource, Given, Is, Asked
  <1>3. Inv => InventoryTellsWhatRuns
    <2> SUFFICES ASSUME Inv, Is("source") PROVE InventoryTellsWhatRuns
      BY DEF InventoryTellsWhatRuns
    <2> DEFINE key == Asked.key
               env == Asked.env
               cfg == Asked.cfg
               ready == SkipReason(key, cfg, env) = "none"
               Run(board) == RunConnector(key, board, env, Asked.site)
    <2>1. ready => /\ cfg.enabled
                   /\ key \in Ats => cfg.boards # {}
                   /\ key \notin Ats => BaseStatus(key, env) # "DISABLED"
                   /\ key \in Keyed => IsConfigured(key, env)
      BY RegistryFacts DEF SkipReason
    <2>2. ready => Campaigns(key, cfg) # {}
      BY <2>1 DEF Campaigns
    <2>3. ASSUME NEW b \in Campaigns(key, cfg)
          PROVE  cfg.enabled /\ (key \in Ats => b # NoBoard /\ cfg.boards # {})
      BY <2>3, BoardsAssumption DEF Campaigns
    <2>4. ASSUME ready, Asked.site = "jobs", ~(key \in Ats /\ ~env.allowed),
                 ~(key = "rss" /\ ~env.set), NEW b \in Campaigns(key, cfg)
          PROVE  Run(b).health = "HEALTHY"
      <3>1. BaseStatus(key, env) = "READY" /\ IsConfigured(key, env)
        BY <2>1, <2>4, RegistryFacts DEF BaseStatus, IsConfigured
      <3> QED
        BY <2>3, <2>4, <3>1, RunReports
    <2>5. ASSUME NEW b \in Campaigns(key, cfg), Run(b).health = "HEALTHY"
          PROVE  ready /\ ~Skipped(key, cfg, env)
      <3>1. BaseStatus(key, env) = "READY" /\ IsConfigured(key, env)
        BY <2>5, RunReports
      <3> QED
        BY <2>3, <3>1, RegistryFacts DEF SkipReason, Skipped
    <2>6. ASSUME NEW b \in Campaigns(key, cfg),
                 Probe(key, env, LastRow(Asked.before, Run(b))) = "HEALTHY"
          PROVE  Run(b).health = "HEALTHY" \/ (Run(b).row = NoRun /\ Asked.before = "HEALTHY")
      <3>1. LastRow(Asked.before, Run(b)) = "HEALTHY"
        BY <2>6 DEF Probe, BaseStatus
      <3> QED
        BY <3>1, RunReports DEF LastRow
    <2> QED
      BY <2>2, <2>4, <2>5, <2>6 DEF InventoryTellsWhatRuns
  <1> QED
    BY <1>1, <1>2, <1>3, PTL DEF SourceSpec

-----------------------------------------------------------------------------
(* The policy.  What compiles has few keys, and their values are known.    *)
LEMMA MergedValue ==
    ASSUME NEW base, NEW over, NEW n
    PROVE  /\ n \in DOMAIN Merged(base, over) <=> n \in DOMAIN base \/ n \in DOMAIN over
           /\ n \in DOMAIN over => Merged(base, over)[n] = over[n]
           /\ n \in DOMAIN base /\ n \notin DOMAIN over => Merged(base, over)[n] = base[n]
  BY DEF Merged

LEMMA OnlyOne ==
    ASSUME NEW name, NEW value, NEW n
    PROVE  /\ n \in DOMAIN Only(name, value) <=> n = name
           /\ Only(name, value)[name] = value
  BY DEF Only

LEMMA EmptyHasNone == \A n : n \notin DOMAIN Empty
  BY DEF Empty

(* A section is left out when nothing of it is asked for.                  *)
LEMMA SectionValue ==
    ASSUME NEW name, NEW values, NEW n
    PROVE  /\ n \in DOMAIN Section(name, values) <=> n = name /\ DOMAIN values # {}
           /\ DOMAIN values # {} => Section(name, values)[name] = values
  <1>1. DOMAIN values = {} => Section(name, values) = Empty
    BY DEF Section
  <1>2. DOMAIN values # {} => Section(name, values) = Only(name, values)
    BY DEF Section
  <1> QED
    BY <1>1, <1>2, EmptyHasNone, OnlyOne

LEMMA TakenValue ==
    ASSUME NEW raw, NEW key, NEW name, NEW n
    PROVE  /\ n \in DOMAIN Taken(raw, key, name) <=> n = name /\ key \in DOMAIN raw
           /\ key \in DOMAIN raw => Taken(raw, key, name)[name] = raw[key]
  <1>1. key \notin DOMAIN raw => Taken(raw, key, name) = Empty
    BY DEF Taken
  <1>2. key \in DOMAIN raw => Taken(raw, key, name) = Only(name, raw[key])
    BY DEF Taken
  <1> QED
    BY <1>1, <1>2, EmptyHasNone, OnlyOne

(* What an acceptable override makes of each section.                      *)
LEMMA CompiledFreshness ==
    ASSUME NEW raw, Valid(raw), NEW n \in DOMAIN Freshness(raw)
    PROVE  \/ n = "recent_hours" /\ Freshness(raw)[n] \in {72, 168, 336, 720}
           \/ n = "default_visible_tiers" /\ Freshness(raw)[n] # {}
  <1> DEFINE asked == "freshness_days" \in DOMAIN raw
             hours == IF asked THEN Only("recent_hours", 24 * raw.freshness_days) ELSE Empty
             tiers == Taken(raw, "visible_tiers", "default_visible_tiers")
  <1>1. ASSUME asked PROVE 24 * raw.freshness_days \in {72, 168, 336, 720}
    <2>1. Acceptable("freshness_days", raw["freshness_days"])
      BY <1>1 DEF Valid
    <2>2. raw.freshness_days \in {3, 7, 14, 30}
      BY <2>1 DEF Acceptable
    <2> QED
      BY <2>2
  <1>2. ASSUME "visible_tiers" \in DOMAIN raw PROVE raw.visible_tiers # {}
    <2>1. Acceptable("visible_tiers", raw["visible_tiers"])
      BY <1>2 DEF Valid
    <2> QED
      BY <2>1 DEF Acceptable
  <1>3. ASSUME NEW k \in DOMAIN hours
        PROVE  k = "recent_hours" /\ hours[k] \in {72, 168, 336, 720}
    <2>1. asked
      BY EmptyHasNone
    <2>2. hours = Only("recent_hours", 24 * raw.freshness_days)
      BY <2>1
    <2> QED
      BY <1>1, <2>1, <2>2, OnlyOne
  <1>4. ASSUME NEW k \in DOMAIN tiers
        PROVE  k = "default_visible_tiers" /\ tiers[k] # {}
    BY <1>2, TakenValue
  <1> HIDE DEF hours, tiers
  <1>5. Freshness(raw) = Merged(hours, tiers)
    BY DEF Freshness, hours, tiers
  <1>6. n \in DOMAIN hours \/ n \in DOMAIN tiers
    BY <1>5, MergedValue
  <1>7. Freshness(raw)[n] = IF n \in DOMAIN tiers THEN tiers[n] ELSE hours[n]
    BY <1>5, <1>6, MergedValue
  <1> QED
    BY <1>3, <1>4, <1>6, <1>7

LEMMA CompiledGeography ==
    ASSUME NEW raw
    PROVE  DOMAIN Geography(raw) \subseteq {"remote_us", "remote_unspecified", "local_hybrid"}
  <1> DEFINE us == Taken(raw, "remote_us", "remote_us")
             other == Taken(raw, "remote_unspecified", "remote_unspecified")
             local == Taken(raw, "local_hybrid", "local_hybrid")
  <1>1. /\ \A n : n \in DOMAIN us => n = "remote_us"
        /\ \A n : n \in DOMAIN other => n = "remote_unspecified"
        /\ \A n : n \in DOMAIN local => n = "local_hybrid"
    BY TakenValue
  <1>2. Geography(raw) = Merged(Merged(us, other), local)
    BY DEF Geography
  <1> HIDE DEF us, other, local
  <1> QED
    BY <1>1, <1>2, MergedValue

LEMMA CompiledSources ==
    ASSUME NEW raw, NEW s \in DOMAIN Sources(raw)
    PROVE  DOMAIN Sources(raw)[s] = {"enabled"}
  <1> DEFINE boards == Switched(raw, "providers")
             alerts == Switched(raw, "gmail_sources")
  <1>1. \A key : \A t \in DOMAIN Switched(raw, key) :
          DOMAIN Switched(raw, key)[t] = {"enabled"}
    BY DEF Switched
  <1>2. /\ \A t \in DOMAIN boards : DOMAIN boards[t] = {"enabled"}
        /\ \A t \in DOMAIN alerts : DOMAIN alerts[t] = {"enabled"}
    BY <1>1
  <1>3. Sources(raw) = Merged(boards, alerts)
    BY DEF Sources
  <1> HIDE DEF boards, alerts
  <1>4. s \in DOMAIN boards \/ s \in DOMAIN alerts
    BY <1>3, MergedValue
  <1>5. Sources(raw)[s] = IF s \in DOMAIN alerts THEN alerts[s] ELSE boards[s]
    BY <1>3, <1>4, MergedValue
  <1> QED
    BY <1>2, <1>4, <1>5

(* Reject patterns are only added to.                                      *)
LEMMA CompiledRoles ==
    ASSUME NEW raw, NEW n \in DOMAIN Roles(raw)
    PROVE  \/ n = "role_profiles" /\ Roles(raw)[n] = ProfilesKept(raw)
           \/ /\ n \in {"role_reject_patterns", "domain_reject_patterns"}
              /\ DefaultPolicy[n] \subseteq Roles(raw)[n]
  <1> DEFINE profiles == IF ProfilesAsked(raw) THEN Only("role_profiles", ProfilesKept(raw))
                         ELSE Empty
             titles == Excluded(raw, "title_exclude", "role_reject_patterns")
             domains == Excluded(raw, "domain_exclude", "domain_reject_patterns")
  <1>1. \A k \in DOMAIN profiles : k = "role_profiles" /\ profiles[k] = ProfilesKept(raw)
    BY OnlyOne, EmptyHasNone
  <1>2. ASSUME NEW key, NEW section, NEW k \in DOMAIN Excluded(raw, key, section)
        PROVE  k = section /\ DefaultPolicy[section] \subseteq Excluded(raw, key, section)[k]
    <2>1. Excluded(raw, key, section)
            = Only(section, WithDefaults(DefaultPolicy[section], raw[key]))
      BY <1>2, EmptyHasNone DEF Excluded
    <2> QED
      BY <1>2, <2>1, OnlyOne DEF WithDefaults
  <1>3. /\ \A k \in DOMAIN titles : /\ k = "role_reject_patterns"
                                    /\ DefaultPolicy[k] \subseteq titles[k]
        /\ \A k \in DOMAIN domains : /\ k = "domain_reject_patterns"
                                     /\ DefaultPolicy[k] \subseteq domains[k]
    BY <1>2
  <1>4. Roles(raw) = Merged(profiles, Merged(titles, domains))
    BY DEF Roles
  <1> HIDE DEF profiles, titles, domains
  <1>5. n \in DOMAIN profiles \/ n \in DOMAIN titles \/ n \in DOMAIN domains
    BY <1>4, MergedValue
  <1>6. Roles(raw)[n] = IF n \in DOMAIN domains THEN domains[n]
                        ELSE IF n \in DOMAIN titles THEN titles[n] ELSE profiles[n]
    BY <1>4, <1>5, MergedValue
  <1> QED
    BY <1>1, <1>3, <1>5, <1>6

LEMMA CompiledSections ==
    ASSUME NEW raw, NEW n \in DOMAIN Compiled(raw)
    PROVE  /\ n = "freshness" => Compiled(raw)[n] = Freshness(raw)
           /\ n = "geography" => Compiled(raw)[n] = Geography(raw)
           /\ n = "sources" => Compiled(raw)[n] = Sources(raw)
           /\ n \in {"role_profiles", "role_reject_patterns", "domain_reject_patterns"}
                => n \in DOMAIN Roles(raw) /\ Compiled(raw)[n] = Roles(raw)[n]
  <1> DEFINE F == Section("freshness", Freshness(raw))
             G == Section("geography", Geography(raw))
             R == Roles(raw)
             P == Section("salary", Pay(raw))
             S == Section("sources", Sources(raw))
             O == Taken(raw, "owner_review_sensitivity", "owner_review_sensitivity")
  <1>1. /\ \A k \in DOMAIN F : k = "freshness" /\ F[k] = Freshness(raw)
        /\ \A k \in DOMAIN G : k = "geography" /\ G[k] = Geography(raw)
        /\ \A k \in DOMAIN P : k = "salary"
        /\ \A k \in DOMAIN S : k = "sources" /\ S[k] = Sources(raw)
        /\ \A k \in DOMAIN O : k = "owner_review_sensitivity"
    BY SectionValue, TakenValue
  <1>2. \A k \in DOMAIN R : k \in {"role_profiles", "role_reject_patterns",
                                   "domain_reject_patterns"}
    BY CompiledRoles
  <1>3. Compiled(raw) = Merged(Merged(Merged(F, G), R), Merged(Merged(P, S), O))
    BY DEF Compiled
  <1> HIDE DEF F, G, R, P, S, O
  <1>4. \/ n \in DOMAIN F \/ n \in DOMAIN G \/ n \in DOMAIN R
        \/ n \in DOMAIN P \/ n \in DOMAIN S \/ n \in DOMAIN O
    BY <1>3, MergedValue
  <1>5. CASE n \in DOMAIN O
    BY <1>1, <1>5
  <1>6. CASE n \in DOMAIN P
    BY <1>1, <1>6
  <1>7. CASE n \in DOMAIN S
    <2>1. n = "sources" /\ n \notin DOMAIN O
      BY <1>1, <1>7
    <2>2. Compiled(raw)[n] = S[n]
      BY <1>3, <1>7, <2>1, MergedValue
    <2> QED
      BY <1>1, <1>7, <2>1, <2>2
  <1>8. CASE n \in DOMAIN R
    <2>1. /\ n \in {"role_profiles", "role_reject_patterns", "domain_reject_patterns"}
          /\ n \notin DOMAIN O /\ n \notin DOMAIN P /\ n \notin DOMAIN S
      BY <1>1, <1>2, <1>8
    <2>2. Compiled(raw)[n] = R[n]
      BY <1>3, <1>8, <2>1, MergedValue
    <2> QED
      BY <1>8, <2>1, <2>2 DEF R
  <1>9. CASE n \in DOMAIN G
    <2>1. /\ n = "geography" /\ n \notin DOMAIN R
          /\ n \notin DOMAIN O /\ n \notin DOMAIN P /\ n \notin DOMAIN S
      BY <1>1, <1>2, <1>9
    <2>2. Compiled(raw)[n] = G[n]
      BY <1>3, <1>9, <2>1, MergedValue
    <2> QED
      BY <1>1, <1>9, <2>1, <2>2
  <1>10. CASE n \in DOMAIN F
    <2>1. /\ n = "freshness" /\ n \notin DOMAIN R /\ n \notin DOMAIN G
          /\ n \notin DOMAIN O /\ n \notin DOMAIN P /\ n \notin DOMAIN S
      BY <1>1, <1>2, <1>10
    <2>2. Compiled(raw)[n] = F[n]
      BY <1>3, <1>10, <2>1, MergedValue
    <2> QED
      BY <1>1, <1>10, <2>1, <2>2
  <1> QED
    BY <1>4, <1>5, <1>6, <1>7, <1>8, <1>9, <1>10

(* A section of the policy in use, of the override that is heeded.         *)
Heeded(raw) == IF Valid(raw) THEN Compiled(raw) ELSE Empty

LEMMA EffectiveSection ==
    ASSUME NEW raw, NEW n \in DOMAIN DefaultPolicy
    PROVE  /\ n \notin DOMAIN Heeded(raw) => Effective(raw)[n] = DefaultPolicy[n]
           /\ n \in DOMAIN Heeded(raw) =>
                Effective(raw)[n] =
                  IF n \in {"freshness", "geography", "salary"}
                  THEN Merged(DefaultPolicy[n], Compiled(raw)[n])
                  ELSE IF n = "sources" THEN MergedSources(DefaultPolicy[n], Compiled(raw)[n])
                  ELSE Compiled(raw)[n]
           /\ n \in DOMAIN Heeded(raw) => Valid(raw) /\ n \in DOMAIN Compiled(raw)
  <1>1. Effective(raw) = DeepMerge(DefaultPolicy, Heeded(raw))
    BY DEF Effective, Heeded
  <1>2. n \in DOMAIN Heeded(raw) => Heeded(raw) = Compiled(raw) /\ Valid(raw)
    BY EmptyHasNone DEF Heeded
  <1>3. Effective(raw)[n] =
          IF n \notin DOMAIN Heeded(raw) THEN DefaultPolicy[n]
          ELSE IF n \in {"freshness", "geography", "salary"}
               THEN Merged(DefaultPolicy[n], Heeded(raw)[n])
          ELSE IF n = "sources" THEN MergedSources(DefaultPolicy[n], Heeded(raw)[n])
          ELSE Heeded(raw)[n]
    BY <1>1 DEF DeepMerge
  <1> QED
    BY <1>2, <1>3

LEMMA PlacesStayRefused ==
    ASSUME NEW raw, NEW n \in {"foreign_only", "relocation_required"}
    PROVE  Effective(raw).geography[n] = "reject"
  <1>1. /\ "geography" \in DOMAIN DefaultPolicy
        /\ n \in DOMAIN DefaultPolicy.geography /\ DefaultPolicy.geography[n] = "reject"
    BY FileAssumption
  <1>2. CASE "geography" \notin DOMAIN Heeded(raw)
    BY <1>1, <1>2, EffectiveSection
  <1>3. CASE "geography" \in DOMAIN Heeded(raw)
    <2>1. /\ "geography" \in DOMAIN Compiled(raw)
          /\ Effective(raw)["geography"] =
               Merged(DefaultPolicy["geography"], Compiled(raw)["geography"])
      BY <1>1, <1>3, EffectiveSection
    <2>2. Compiled(raw)["geography"] = Geography(raw)
      BY <2>1, CompiledSections
    <2>3. n \notin DOMAIN Geography(raw)
      BY CompiledGeography
    <2> QED
      BY <1>1, <2>1, <2>2, <2>3, MergedValue
  <1> QED
    BY <1>2, <1>3

LEMMA TiersStayInOrder ==
    ASSUME NEW raw
    PROVE  LET freshness == Effective(raw).freshness
           IN /\ freshness.today_hours <= freshness.fresh_hours
              /\ freshness.fresh_hours <= freshness.recent_hours
              /\ freshness.default_visible_tiers # {}
  <1> DEFINE file == DefaultPolicy.freshness
             freshness == Effective(raw).freshness
  <1>1. /\ "freshness" \in DOMAIN DefaultPolicy
        /\ {"today_hours", "fresh_hours", "recent_hours", "default_visible_tiers"}
             \subseteq DOMAIN file
        /\ file.default_visible_tiers # {}
        /\ file.today_hours \in Nat /\ file.fresh_hours \in Nat /\ file.recent_hours \in Nat
        /\ file.today_hours <= file.fresh_hours /\ file.fresh_hours <= 72
        /\ file.fresh_hours <= file.recent_hours
    BY FileAssumption
  <1>2. CASE "freshness" \notin DOMAIN Heeded(raw)
    <2>1. freshness = file
      BY <1>1, <1>2, EffectiveSection
    <2> QED
      BY <1>1, <2>1
  <1>3. CASE "freshness" \in DOMAIN Heeded(raw)
    <2>1. /\ Valid(raw) /\ "freshness" \in DOMAIN Compiled(raw)
          /\ freshness = Merged(file, Compiled(raw)["freshness"])
      BY <1>1, <1>3, EffectiveSection
    <2>2. freshness = Merged(file, Freshness(raw))
      BY <2>1, CompiledSections
    <2> HIDE DEF file, freshness
    <2>3. \A n \in DOMAIN Freshness(raw) :
            \/ n = "recent_hours" /\ Freshness(raw)[n] \in {72, 168, 336, 720}
            \/ n = "default_visible_tiers" /\ Freshness(raw)[n] # {}
      BY <2>1, CompiledFreshness
    <2>4. /\ freshness["today_hours"] = file["today_hours"]
          /\ freshness["fresh_hours"] = file["fresh_hours"]
      BY <1>1, <2>2, <2>3, MergedValue
    <2>5. freshness["default_visible_tiers"] # {}
      BY <1>1, <2>2, <2>3, MergedValue
    <2>6. freshness["recent_hours"] \in {72, 168, 336, 720, file["recent_hours"]}
      BY <1>1, <2>2, <2>3, MergedValue
    <2>7. /\ freshness.today_hours <= freshness.fresh_hours
          /\ freshness.fresh_hours <= freshness.recent_hours
      BY <1>1, <2>4, <2>6
    <2> QED
      BY <2>5, <2>7 DEF freshness
  <1> QED
    BY <1>2, <1>3

(* A source the file does not describe is only switched: no provider of    *)
(* it is known.                                                            *)
LEMMA NoSourceIsAdded ==
    ASSUME NEW raw
    PROVE  BoardsOpen(Effective(raw)) \subseteq DOMAIN DefaultPolicy.sources
  <1>1. "sources" \in DOMAIN DefaultPolicy
    BY FileAssumption
  <1> DEFINE file == DefaultPolicy.sources
             sources == Effective(raw).sources
  <1>2. CASE "sources" \notin DOMAIN Heeded(raw)
    <2>1. sources = file
      BY <1>1, <1>2, EffectiveSection
    <2> QED
      BY <2>1 DEF BoardsOpen
  <1>3. CASE "sources" \in DOMAIN Heeded(raw)
    <2>1. /\ "sources" \in DOMAIN Compiled(raw)
          /\ sources = MergedSources(file, Compiled(raw)["sources"])
      BY <1>1, <1>3, EffectiveSection
    <2>2. sources = MergedSources(file, Sources(raw))
      BY <2>1, CompiledSections
    <2> HIDE DEF file, sources
    <2>3. ASSUME NEW s \in DOMAIN sources, s \notin DOMAIN file
          PROVE  "provider_id" \notin DOMAIN sources[s]
      <3>1. /\ s \in DOMAIN Sources(raw)
            /\ sources[s] = Merged(Value(file, s, Empty), Value(Sources(raw), s, Empty))
        BY <2>2, <2>3 DEF MergedSources
      <3>2. sources[s] = Merged(Empty, Sources(raw)[s])
        BY <2>3, <3>1 DEF Value
      <3>3. "provider_id" \notin DOMAIN Sources(raw)[s]
        BY <3>1, CompiledSources
      <3> QED
        BY <3>2, <3>3, MergedValue, EmptyHasNone
    <2> QED
      BY <2>3 DEF BoardsOpen, sources, file
  <1> QED
    BY <1>2, <1>3

(* The patterns of the file that reject stay in force.                     *)
LEMMA RejectionsStay ==
    ASSUME NEW raw, NEW n \in {"role_reject_patterns", "domain_reject_patterns"}
    PROVE  DefaultPolicy[n] \subseteq Effective(raw)[n]
  <1>1. n \in DOMAIN DefaultPolicy
    BY FileAssumption
  <1>2. CASE n \notin DOMAIN Heeded(raw)
    BY <1>1, <1>2, EffectiveSection
  <1>3. CASE n \in DOMAIN Heeded(raw)
    <2>1. n \in DOMAIN Compiled(raw) /\ Effective(raw)[n] = Compiled(raw)[n]
      BY <1>1, <1>3, EffectiveSection
    <2>2. n \in DOMAIN Roles(raw) /\ Compiled(raw)[n] = Roles(raw)[n]
      BY <2>1, CompiledSections
    <2> QED
      BY <2>1, <2>2, CompiledRoles
  <1> QED
    BY <1>2, <1>3

LEMMA ProfilesOfFileOrOwner ==
    ASSUME NEW raw, NEW p \in Effective(raw).role_profiles
    PROVE  \/ p \in DefaultPolicy.role_profiles
           \/ p.patterns = Value(raw, "title_include", {})
  <1>1. "role_profiles" \in DOMAIN DefaultPolicy
    BY FileAssumption
  <1>2. CASE "role_profiles" \notin DOMAIN Heeded(raw)
    BY <1>1, <1>2, EffectiveSection
  <1>3. CASE "role_profiles" \in DOMAIN Heeded(raw)
    <2>1. /\ "role_profiles" \in DOMAIN Compiled(raw)
          /\ Effective(raw)["role_profiles"] = Compiled(raw)["role_profiles"]
      BY <1>1, <1>3, EffectiveSection
    <2>2. /\ "role_profiles" \in DOMAIN Roles(raw)
          /\ Compiled(raw)["role_profiles"] = Roles(raw)["role_profiles"]
      BY <2>1, CompiledSections
    <2>3. Roles(raw)["role_profiles"] = ProfilesKept(raw)
      BY <2>2, CompiledRoles
    <2>4. p \in ProfilesKept(raw)
      BY <2>1, <2>2, <2>3
    <2>5. \/ p \in DefaultPolicy.role_profiles
          \/ p = OwnerProfile(Value(raw, "title_include", {}))
      BY <2>4 DEF ProfilesKept
    <2> QED
      BY <2>5 DEF OwnerProfile
  <1> QED
    BY <1>2, <1>3

LEMMA RejectedOrMatched ==
    ASSUME NEW policy, NEW title, NEW body
    PROVE  RoleUnder(policy, title, body) = "reject" <=>
             \/ Rejected(policy, title, body)
             \/ \A p \in policy.role_profiles : ~Fits(p, title, body)
  <1> DEFINE kinds == Kinds(policy, title, body)
             rejected == Rejected(policy, title, body)
  <1>1. kinds = {} <=> \A p \in policy.role_profiles : ~Fits(p, title, body)
    BY DEF Kinds
  <1> HIDE DEF kinds, rejected
  <1>2. RoleOfKinds(rejected, kinds) = "reject" <=> rejected \/ kinds = {}
    BY DEF RoleOfKinds
  <1> QED
    BY <1>1, <1>2 DEF RoleUnder, kinds, rejected

(* For every file, every override and every posting: an owner's policy     *)
(* refuses what it may not allow (discovery_policy_service.py:8-13).       *)
THEOREM PolicyIsSafe == PolicySpec => []PolicyKeepsSafety
  <1>1. PolicyKeepsSafety
    <2> SUFFICES ASSUME Is("policy") PROVE PolicyKeepsSafety
      BY DEF PolicyKeepsSafety
    <2> DEFINE raw == Asked
               policy == Effective(raw)
    <2>1. /\ policy.geography["foreign_only"] = "reject"
          /\ policy.geography["relocation_required"] = "reject"
      BY PlacesStayRefused
    <2>2. /\ policy.freshness.today_hours <= policy.freshness.fresh_hours
          /\ policy.freshness.fresh_hours <= policy.freshness.recent_hours
          /\ policy.freshness.default_visible_tiers # {}
      BY TiersStayInOrder
    <2>3. BoardsOpen(policy) \subseteq DOMAIN DefaultPolicy.sources
      BY NoSourceIsAdded
    <2>4. ASSUME NEW p \in PolicyPostings,
                 RoleUnder(DefaultPolicy, p.title, p.body) = "reject",
                 RoleUnder(policy, p.title, p.body) # "reject"
          PROVE  /\ ~Rejected(DefaultPolicy, p.title, p.body)
                 /\ \E phrase \in Value(raw, "title_include", {}) :
                      PatternInTitle(phrase, p.title)
      <3>1. ~Rejected(policy, p.title, p.body)
        BY <2>4, RejectedOrMatched
      <3>2. /\ DefaultPolicy["role_reject_patterns"] \subseteq policy["role_reject_patterns"]
            /\ DefaultPolicy["domain_reject_patterns"] \subseteq policy["domain_reject_patterns"]
        BY RejectionsStay
      <3>3. ~Rejected(DefaultPolicy, p.title, p.body)
        BY <3>1, <3>2 DEF Rejected
      <3>4. PICK q \in policy.role_profiles : Fits(q, p.title, p.body)
        BY <2>4, RejectedOrMatched
      <3>5. q \notin DefaultPolicy.role_profiles
        BY <2>4, <3>3, <3>4, RejectedOrMatched
      <3>6. q.patterns = Value(raw, "title_include", {})
        BY <3>4, <3>5, ProfilesOfFileOrOwner
      <3> QED
        BY <3>3, <3>4, <3>6 DEF Fits
    <2> QED
      BY <2>1, <2>2, <2>3, <2>4 DEF PolicyKeepsSafety
  <1> QED
    BY <1>1, PTL DEF PolicySpec

-----------------------------------------------------------------------------
(* Titles.  Every set of naturals has a least element: what takes the      *)
(* place of an induction here.                                             *)
LEMMA LeastNatural ==
    ASSUME NEW T \in SUBSET Nat, T # {}
    PROVE  \E n \in T : \A m \in T : n <= m
  <1>1. PICK R : R = OpToRel(<, Nat)
    OBVIOUS
  <1>2. PICK x \in T : \A y \in T : ~ (<<y, x>> \in R)
    BY <1>1, WFMin, NatLessThanWellFounded
  <1>3. \A y \in Nat : <<y, x>> \in R <=> y < x
    BY <1>1 DEF OpToRel
  <1>4. \A y \in T : ~(y < x)
    BY <1>2, <1>3
  <1>5. \A y \in T : x <= y
    BY <1>4
  <1> QED
    BY <1>5

(* How much of the needle is found in each prefix of the first n tokens.   *)
IsPass(found, needle, title, n) ==
    /\ found \in [0..n -> 0..Len(needle)]
    /\ found[0] = 0
    /\ \A i \in 1..n : found[i] = Further(needle, title[i], found[i - 1])

LEMMA OneStep ==
    ASSUME NEW S, NEW needle \in Seq(S), NEW token, NEW k \in 0..Len(needle)
    PROVE  /\ Further(needle, token, k) \in 0..Len(needle)
           /\ Further(needle, token, k) \in {k, k + 1}
           /\ Further(needle, token, k) = k + 1 <=>
                k < Len(needle) /\ token = needle[k + 1]
  <1>1. Len(needle) \in Nat
    OBVIOUS
  <1> QED
    BY <1>1 DEF Further

LEMMA PassExists ==
    ASSUME NEW S, NEW needle \in Seq(S), NEW title \in Seq(S)
    PROVE  \E found : IsPass(found, needle, title, Len(title))
  <1>1. Len(needle) \in Nat /\ Len(title) \in Nat
    OBVIOUS
  <1> DEFINE T == {n \in 0..Len(title) : ~\E found : IsPass(found, needle, title, n)}
  <1>2. SUFFICES ASSUME T # {} PROVE FALSE
    BY <1>1
  <1>3. T \in SUBSET Nat
    BY <1>1
  <1>4. PICK n \in T : \A m \in T : n <= m
    BY <1>2, <1>3, LeastNatural
  <1>5. n # 0
    <2> DEFINE start == [i \in 0..0 |-> 0]
    <2>1. IsPass(start, needle, title, 0)
      BY <1>1 DEF IsPass
    <2> QED
      BY <2>1
  <1>6. n - 1 \in 0..Len(title) /\ n \in 1..Len(title) /\ n - 1 \notin T
    BY <1>1, <1>4, <1>5
  <1>7. PICK before : IsPass(before, needle, title, n - 1)
    BY <1>6
  <1> DEFINE last == Further(needle, title[n], before[n - 1])
             after == [i \in 0..n |-> IF i = n THEN last ELSE before[i]]
  <1>8. /\ before \in [0..(n - 1) -> 0..Len(needle)] /\ before[0] = 0
        /\ \A i \in 1..(n - 1) : before[i] = Further(needle, title[i], before[i - 1])
    BY <1>7 DEF IsPass
  <1>9. before[n - 1] \in 0..Len(needle)
    BY <1>1, <1>6, <1>8
  <1>10. last \in 0..Len(needle)
    BY <1>9, OneStep
  <1> HIDE DEF last
  <1>11. after \in [0..n -> 0..Len(needle)]
    BY <1>1, <1>6, <1>8, <1>10
  <1>12. after[0] = 0
    BY <1>1, <1>6, <1>8
  <1>13. ASSUME NEW i \in 1..n PROVE after[i] = Further(needle, title[i], after[i - 1])
    <2>1. i - 1 \in 0..(n - 1) /\ after[i - 1] = before[i - 1]
      BY <1>1, <1>6, <1>13
    <2>2. CASE i = n
      BY <2>1, <2>2 DEF last
    <2>3. CASE i # n
      <3>1. i \in 1..(n - 1)
        BY <1>1, <1>6, <1>13, <2>3
      <3>2. after[i] = before[i]
        BY <1>1, <1>6, <1>13, <2>3
      <3> QED
        BY <1>8, <2>1, <3>1, <3>2
    <2> QED
      BY <2>2, <2>3
  <1>14. IsPass(after, needle, title, n)
    BY <1>11, <1>12, <1>13 DEF IsPass
  <1> QED
    BY <1>4, <1>14

(* The recursive function is such a pass.                                  *)
LEMMA ThePass ==
    ASSUME NEW S, NEW needle \in Seq(S), NEW title \in Seq(S)
    PROVE  \E found : /\ IsPass(found, needle, title, Len(title))
                      /\ TokensInOrder(needle, title) <=> found[Len(title)] = Len(needle)
  <1> DEFINE Body(f) == [i \in 0..Len(title) |->
                           IF i = 0 THEN 0 ELSE Further(needle, title[i], f[i - 1])]
             found == CHOOSE f : f = Body(f)
             L == Len(title)
  <1>1. Len(needle) \in Nat /\ L \in Nat
    OBVIOUS
  <1>2. PICK g : IsPass(g, needle, title, L)
    BY PassExists
  <1>3. g = Body(g)
    <2>1. /\ g \in [0..L -> 0..Len(needle)] /\ g[0] = 0
          /\ \A i \in 1..L : g[i] = Further(needle, title[i], g[i - 1])
      BY <1>2 DEF IsPass
    <2>2. \A i \in 0..L : i # 0 => i \in 1..L
      BY <1>1
    <2>3. \A i \in 0..L : g[i] = Body(g)[i]
      BY <2>1, <2>2
    <2> QED
      BY <2>1, <2>3
  <1>4. found = Body(found)
    BY <1>3, Zenon
  <1>5. TokensInOrder(needle, title) <=> found[Len(title)] = Len(needle)
    BY Zenon DEF TokensInOrder
  <1> HIDE DEF found
  <1>6. /\ DOMAIN found = 0..L /\ found[0] = 0
        /\ \A i \in 1..L : found[i] = Further(needle, title[i], found[i - 1])
    <2>1. \A i \in 1..L : i # 0 /\ i \in 0..L
      BY <1>1
    <2>2. 0 \in 0..L
      BY <1>1
    <2> QED
      BY <1>4, <2>1, <2>2
  <1> DEFINE T == {i \in 0..L : found[i] \notin 0..Len(needle)}
  <1>7. T = {}
    <2> SUFFICES ASSUME T # {} PROVE FALSE
      OBVIOUS
    <2>1. T \in SUBSET Nat
      BY <1>1
    <2>2. PICK i \in T : \A j \in T : i <= j
      BY <2>1, LeastNatural
    <2>3. i # 0
      BY <1>1, <1>6, <2>2
    <2>4. i \in 1..L /\ i - 1 \in 0..L /\ i - 1 \notin T
      BY <1>1, <2>2, <2>3
    <2>5. found[i - 1] \in 0..Len(needle)
      BY <2>4
    <2> QED
      BY <1>6, <2>2, <2>4, <2>5, OneStep
  <1>8. found \in [0..L -> 0..Len(needle)]
    <2>1. found = [i \in 0..L |-> found[i]]
      BY <1>4
    <2> QED
      BY <1>7, <2>1
  <1>9. IsPass(found, needle, title, L)
    BY <1>6, <1>8 DEF IsPass
  <1> QED
    BY <1>5, <1>9

LEMMA PassGrows ==
    ASSUME NEW S, NEW needle \in Seq(S), NEW title \in Seq(S), NEW found,
           IsPass(found, needle, title, Len(title)),
           NEW a \in 0..Len(title), NEW b \in a..Len(title)
    PROVE  found[a] <= found[b]
  <1> DEFINE L == Len(title)
             T == {i \in a..L : found[i] < found[a]}
  <1>1. Len(needle) \in Nat /\ L \in Nat
    OBVIOUS
  <1>2. /\ found \in [0..L -> 0..Len(needle)]
        /\ \A i \in 1..L : found[i] = Further(needle, title[i], found[i - 1])
    BY DEF IsPass
  <1>3. T = {}
    <2> SUFFICES ASSUME T # {} PROVE FALSE
      OBVIOUS
    <2>1. T \in SUBSET Nat
      BY <1>1
    <2>2. PICK i \in T : \A j \in T : i <= j
      BY <2>1, LeastNatural
    <2>3. i # a /\ found[a] \in 0..Len(needle)
      BY <1>1, <1>2, <2>2
    <2>4. i \in 1..L /\ i - 1 \in a..L /\ i - 1 \in 0..L /\ i - 1 \notin T
      BY <1>1, <2>2, <2>3
    <2>5. found[i - 1] \in 0..Len(needle) /\ ~(found[i - 1] < found[a])
      BY <1>2, <2>4
    <2>6. found[i] \in {found[i - 1], found[i - 1] + 1}
      BY <1>2, <2>4, <2>5, OneStep
    <2> QED
      BY <1>1, <2>2, <2>3, <2>5, <2>6
  <1>4. b \in a..L /\ found[a] \in 0..Len(needle) /\ found[b] \in 0..Len(needle)
    BY <1>1, <1>2
  <1>5. ~(found[b] < found[a])
    BY <1>3, <1>4
  <1> QED
    BY <1>1, <1>4, <1>5

(* Where the needle's tokens stand, one after the other.                   *)
IsPlaced(f, needle, title) ==
    /\ f \in [DOMAIN needle -> DOMAIN title]
    /\ \A i, j \in DOMAIN needle : i < j => f[i] < f[j]
    /\ \A i \in DOMAIN needle : title[f[i]] = needle[i]

LEMMA PassFindsAPlace ==
    ASSUME NEW S, NEW needle \in Seq(S), NEW title \in Seq(S), NEW found,
           IsPass(found, needle, title, Len(title)), found[Len(title)] = Len(needle)
    PROVE  \E f : IsPlaced(f, needle, title)
  <1> DEFINE L == Len(title)
             m == Len(needle)
  <1>1. /\ m \in Nat /\ L \in Nat /\ DOMAIN needle = 1..m /\ DOMAIN title = 1..L
    OBVIOUS
  <1>2. /\ found \in [0..L -> 0..m] /\ found[0] = 0
        /\ \A i \in 1..L : found[i] = Further(needle, title[i], found[i - 1])
    BY DEF IsPass
  <1>3. ASSUME NEW k \in 1..m
        PROVE  \E i \in 1..L : found[i] = k /\ title[i] = needle[k]
    <2> DEFINE T == {i \in 0..L : k <= found[i]}
    <2>1. L \in T /\ T \in SUBSET Nat
      BY <1>1
    <2>2. PICK i \in T : \A j \in T : i <= j
      BY <2>1, LeastNatural
    <2>3. i # 0
      BY <1>1, <1>2, <2>2
    <2>4. i \in 1..L /\ i - 1 \in 0..L /\ i - 1 \notin T
      BY <1>1, <2>2, <2>3
    <2>5. /\ found[i - 1] \in 0..m /\ found[i] \in 0..m /\ k <= found[i]
          /\ ~(k <= found[i - 1])
      BY <1>2, <2>2, <2>4
    <2>6. /\ found[i] \in {found[i - 1], found[i - 1] + 1}
          /\ found[i] = found[i - 1] + 1 <=> found[i - 1] < m /\ title[i] = needle[found[i - 1] + 1]
      BY <1>2, <2>4, <2>5, OneStep
    <2>7. found[i] = found[i - 1] + 1 /\ found[i] = k
      BY <1>1, <2>5, <2>6
    <2> QED
      BY <2>4, <2>6, <2>7
  <1> DEFINE f == [k \in 1..m |-> CHOOSE i \in 1..L : found[i] = k /\ title[i] = needle[k]]
  <1>4. \A k \in 1..m : f[k] \in 1..L /\ found[f[k]] = k /\ title[f[k]] = needle[k]
    BY <1>3
  <1>5. f \in [1..m -> 1..L]
    BY <1>4
  <1> HIDE DEF f
  <1>6. ASSUME NEW i \in 1..m, NEW j \in 1..m, i < j PROVE f[i] < f[j]
    <2>1. f[i] \in 1..L /\ f[j] \in 1..L /\ found[f[i]] = i /\ found[f[j]] = j
      BY <1>4
    <2>2. CASE f[j] <= f[i]
      <3>1. f[j] \in 0..L /\ f[i] \in f[j]..L
        BY <1>1, <2>1, <2>2
      <3>2. found[f[j]] <= found[f[i]]
        BY <3>1, PassGrows
      <3> QED
        BY <1>1, <1>6, <2>1, <3>2
    <2> QED
      BY <1>1, <2>1, <2>2
  <1>7. IsPlaced(f, needle, title)
    BY <1>1, <1>4, <1>5, <1>6 DEF IsPlaced
  <1> QED
    BY <1>7

(* The pass is never behind a placement: it misses none.                   *)
LEMMA PassMissesNone ==
    ASSUME NEW S, NEW needle \in Seq(S), NEW title \in Seq(S), NEW found, NEW f,
           IsPass(found, needle, title, Len(title)), IsPlaced(f, needle, title)
    PROVE  found[Len(title)] = Len(needle)
  <1> DEFINE L == Len(title)
             m == Len(needle)
  <1>1. /\ m \in Nat /\ L \in Nat /\ DOMAIN needle = 1..m /\ DOMAIN title = 1..L
    OBVIOUS
  <1>2. /\ found \in [0..L -> 0..m] /\ found[0] = 0
        /\ \A i \in 1..L : found[i] = Further(needle, title[i], found[i - 1])
    BY DEF IsPass
  <1>3. /\ f \in [1..m -> 1..L]
        /\ \A i, j \in 1..m : i < j => f[i] < f[j]
        /\ \A i \in 1..m : title[f[i]] = needle[i]
    BY <1>1 DEF IsPlaced
  <1> DEFINE T == {k \in 1..m : found[f[k]] < k}
  <1>4. T = {}
    <2> SUFFICES ASSUME T # {} PROVE FALSE
      OBVIOUS
    <2>1. T \in SUBSET Nat
      BY <1>1
    <2>2. PICK k \in T : \A l \in T : k <= l
      BY <2>1, LeastNatural
    <2>3. k \in 1..m /\ f[k] \in 1..L /\ f[k] - 1 \in 0..L /\ title[f[k]] = needle[k]
      BY <1>1, <1>3, <2>2
    <2>4. found[f[k] - 1] \in 0..m /\ found[f[k]] \in 0..m /\ found[f[k]] < k
      BY <1>2, <2>2, <2>3
    <2>5. k - 1 <= found[f[k] - 1]
      <3>1. CASE k = 1
        BY <1>1, <2>4, <3>1
      <3>2. CASE k # 1
        <4>1. k - 1 \in 1..m /\ k - 1 < k /\ k - 1 \notin T
          BY <1>1, <2>2, <2>3, <3>2
        <4>2. f[k - 1] \in 1..L /\ f[k - 1] < f[k] /\ ~(found[f[k - 1]] < k - 1)
          BY <1>3, <2>3, <4>1
        <4>3. f[k - 1] \in 0..L /\ f[k] - 1 \in f[k - 1]..L
          BY <1>1, <2>3, <4>2
        <4>4. found[f[k - 1]] <= found[f[k] - 1] /\ found[f[k - 1]] \in 0..m
          BY <1>2, <4>3, PassGrows
        <4> QED
          BY <1>1, <2>3, <2>4, <4>2, <4>4
      <3> QED
        BY <3>1, <3>2
    <2>6. /\ found[f[k]] \in {found[f[k] - 1], found[f[k] - 1] + 1}
          /\ found[f[k]] = found[f[k] - 1] + 1
               <=> found[f[k] - 1] < m /\ title[f[k]] = needle[found[f[k] - 1] + 1]
      BY <1>2, <2>3, <2>4, OneStep
    <2>7. found[f[k] - 1] = k - 1 /\ found[f[k] - 1] < m /\ found[f[k] - 1] + 1 = k
      BY <1>1, <2>3, <2>4, <2>5, <2>6
    <2> QED
      BY <1>1, <2>3, <2>4, <2>6, <2>7
  <1>5. L \in 0..L /\ found[L] \in 0..m
    BY <1>1, <1>2
  <1>6. CASE m = 0
    BY <1>1, <1>5, <1>6
  <1>7. CASE m # 0
    <2>1. m \in 1..m /\ f[m] \in 0..L /\ L \in f[m]..L
      BY <1>1, <1>3, <1>7
    <2>2. ~(found[f[m]] < m) /\ found[f[m]] \in 0..m
      BY <1>2, <1>4, <2>1
    <2>3. found[f[m]] <= found[L]
      BY <2>1, PassGrows
    <2> QED
      BY <1>1, <1>5, <2>2, <2>3
  <1> QED
    BY <1>6, <1>7

LEMMA GreedyIsExact ==
    ASSUME NEW S, NEW needle \in Seq(S), NEW title \in Seq(S)
    PROVE  TokensInOrder(needle, title) <=> \E f : IsPlaced(f, needle, title)
  <1>1. PICK found : /\ IsPass(found, needle, title, Len(title))
                     /\ TokensInOrder(needle, title) <=> found[Len(title)] = Len(needle)
    BY ThePass
  <1>2. found[Len(title)] = Len(needle) => \E f : IsPlaced(f, needle, title)
    BY <1>1, PassFindsAPlace
  <1>3. ASSUME NEW f, IsPlaced(f, needle, title) PROVE found[Len(title)] = Len(needle)
    BY <1>1, <1>3, PassMissesNone
  <1> QED
    BY <1>1, <1>2, <1>3

(* A variant is as long as its pattern.                                    *)
LEMMA VariantsType ==
    ASSUME NEW S, NEW pattern \in Seq(S), NEW v \in Variants(pattern)
    PROVE  v \in Seq(S \union {"manager", "managers"}) /\ DOMAIN v = DOMAIN pattern
  <1> DEFINE All == S \union {"manager", "managers"}
  <1>1. Len(pattern) \in Nat /\ pattern \in [1..Len(pattern) -> All] /\ pattern \in Seq(All)
    OBVIOUS
  <1>2. ASSUME NEW from, NEW to \in All
        PROVE  Swapped(pattern, from, to) \in [1..Len(pattern) -> All]
    BY <1>1, <1>2 DEF Swapped
  <1>3. v \in [1..Len(pattern) -> All]
    <2>1. CASE v = pattern
      BY <1>1, <2>1
    <2>2. CASE v = Swapped(pattern, "managers", "manager")
      BY <1>2, <2>2
    <2>3. CASE v = Swapped(pattern, "manager", "managers")
      BY <1>2, <2>3
    <2> QED
      BY <2>1, <2>2, <2>3 DEF Variants
  <1> QED
    BY <1>1, <1>3

(* For all titles and patterns, of any length: the one pass over the title *)
(* finds a pattern exactly when its tokens stand there in order            *)
(* (title_normalization.py:50-72).                                         *)
THEOREM TitleMatchIsExact == TitleSpec => []TitleMatchIsEmbedding
  <1> DEFINE Inv == Is("title") =>
                      Asked.title \in Titles /\ Asked.pattern \in Patterns
  <1>1. input = NoInput => Inv
    BY DEF NoInput, Is
  <1>2. Inv /\ [AskTitle]_input => Inv'
    BY DEF AskTitle, Given, Is, Asked
  <1>3. Inv => TitleMatchIsEmbedding
    <2> SUFFICES ASSUME Inv, Is("title") PROVE TitleMatchIsEmbedding
      BY DEF TitleMatchIsEmbedding
    <2> DEFINE title == Asked.title
               pattern == Asked.pattern
               S == Range(title) \union Range(pattern)
               All == S \union {"manager", "managers"}
               Places == {f \in [DOMAIN pattern -> DOMAIN title] :
                            \A i, j \in DOMAIN pattern : i < j => f[i] < f[j]}
    <2>1. title \in Seq(Range(title)) /\ pattern \in Seq(Range(pattern))
      BY TokensAssumption
    <2> HIDE DEF title, pattern
    <2>2. title \in Seq(All) /\ pattern \in Seq(S)
      BY <2>1
    <2>3. ASSUME NEW v \in Variants(pattern)
          PROVE  TokensInOrder(v, title) <=>
                   \E f \in Places : \A i \in DOMAIN pattern : title[f[i]] = v[i]
      <3>1. v \in Seq(All) /\ DOMAIN v = DOMAIN pattern
        BY <2>2, VariantsType
      <3>2. TokensInOrder(v, title) <=> \E f : IsPlaced(f, v, title)
        BY <2>2, <3>1, GreedyIsExact
      <3>3. \A f : IsPlaced(f, v, title) <=>
                     f \in Places /\ \A i \in DOMAIN pattern : title[f[i]] = v[i]
        BY <3>1 DEF IsPlaced
      <3> QED
        BY <3>2, <3>3
    <2>4. ASSUME pattern # <<>>, NEW f \in Places PROVE title # <<>>
      <3>1. 1 \in DOMAIN pattern
        BY <2>2, <2>4
      <3>2. f[1] \in DOMAIN title
        BY <3>1
      <3> QED
        BY <3>2
    <2>5. PatternInTitle(pattern, title) <=>
            pattern # <<>> /\ \E v \in Variants(pattern), f \in Places :
              \A i \in DOMAIN pattern : title[f[i]] = v[i]
      BY <2>3, <2>4 DEF PatternInTitle
    <2> QED
      BY <2>5 DEF TitleMatchIsEmbedding, title, pattern
  <1> QED
    BY <1>1, <1>2, <1>3, PTL DEF TitleSpec

-----------------------------------------------------------------------------
(* Pages.                                                                  *)
LEMMA Division ==
    ASSUME NEW a \in Nat, NEW b \in Nat \ {0}
    PROVE  /\ a \div b \in Nat
           /\ (a \div b) * b <= a
           /\ a < (a \div b) * b + b
  OBVIOUS

LEMMA Products ==
    ASSUME NEW a \in Nat, NEW b \in Nat, NEW c \in Nat \ {0}
    PROVE  /\ a * c \in Nat
           /\ a <= b => a * c <= b * c
           /\ a * c < b * c => a < b
           /\ (a + 1) * c = a * c + c
  OBVIOUS

LEMMA MinMaxOfTwo ==
    ASSUME NEW a \in Int, NEW b \in Int
    PROVE  /\ Min({a, b}) = IF a <= b THEN a ELSE b
           /\ Max({a, b}) = IF a <= b THEN b ELSE a
  <1>1. PICK least \in {a, b} : \A y \in {a, b} : least <= y
    OBVIOUS
  <1>2. PICK most \in {a, b} : \A y \in {a, b} : most >= y
    OBVIOUS
  <1>3. Min({a, b}) \in {a, b} /\ \A y \in {a, b} : Min({a, b}) <= y
    BY <1>1 DEF Min
  <1>4. Max({a, b}) \in {a, b} /\ \A y \in {a, b} : Max({a, b}) >= y
    BY <1>2 DEF Max
  <1> QED
    BY <1>3, <1>4

(* What stands on a page: the places between its bounds.                   *)
Stands(s, page, size, i) ==
    \E p \in DOMAIN s : (page - 1) * size < p /\ p <= page * size /\ s[p] = i

LEMMA OnPage ==
    ASSUME NEW n \in Nat, NEW s \in [1..n -> 1..n],
           NEW page \in Nat \ {0}, NEW size \in Nat \ {0}, NEW i
    PROVE  i \in Range(Page(s, page, size)) <=> Stands(s, page, size, i)
  <1> DEFINE from == (page - 1) * size + 1
             to == Min({page * size, n})
  <1>1. (page - 1) * size \in Nat /\ page * size \in Nat
    BY Products
  <1>2. /\ from \in Nat \ {0} /\ to \in Nat /\ to <= n /\ to <= page * size
        /\ to = page * size \/ to = n
    BY <1>1, MinMaxOfTwo
  <1>3. s \in Seq(1..n) /\ Len(s) = n
    OBVIOUS
  <1>4. Page(s, page, size) = SubSeq(s, from, to)
    BY <1>3 DEF Page
  <1> HIDE DEF from, to
  <1>5. SubSeq(s, from, to) = [k \in 1..(to - from + 1) |-> s[from + k - 1]]
    BY <1>2, <1>3
  <1>6. Range(Page(s, page, size)) = {s[from + k - 1] : k \in 1..(to - from + 1)}
    BY <1>4, <1>5 DEF Range
  <1>7. ASSUME i \in Range(Page(s, page, size))
        PROVE  \E p \in 1..n : (page - 1) * size < p /\ p <= page * size /\ s[p] = i
    <2>1. PICK k \in 1..(to - from + 1) : i = s[from + k - 1]
      BY <1>6, <1>7
    <2>2. /\ from + k - 1 \in 1..n /\ from + k - 1 <= to /\ from <= from + k - 1
      BY <1>2, <2>1
    <2>3. (page - 1) * size < from + k - 1 /\ from + k - 1 <= page * size
      BY <1>1, <1>2, <2>2 DEF from
    <2> QED
      BY <2>1, <2>2, <2>3
  <1>8. ASSUME NEW p \in 1..n, (page - 1) * size < p, p <= page * size, s[p] = i
        PROVE  i \in Range(Page(s, page, size))
    <2>1. p <= to /\ from <= p
      BY <1>1, <1>2, <1>8 DEF from
    <2>2. p - from + 1 \in 1..(to - from + 1) /\ from + (p - from + 1) - 1 = p
      BY <1>2, <2>1
    <2> QED
      BY <1>6, <1>8, <2>2
  <1> QED
    BY <1>7, <1>8 DEF Stands

(* The order of the sort keys is total.                                    *)
LEMMA RankType ==
    ASSUME NEW column \in 0..(Behind - 1), NEW dir
    PROVE  Rank(column, dir) \in Nat
  BY DEF Rank, Behind

LEMMA KeysType ==
    ASSUME NEW row \in ListedRows, NEW by \in {"newest", "fit", "title"}, NEW dir
    PROVE  \E a, b, c \in Nat :
             SortKeys(row, by, dir) = IF by = "title" THEN <<a, b>> ELSE <<a, b, c>>
  <1> DEFINE newest == Rank(row.effective, "desc")
             found == Rank(row.discovered, "desc")
  <1>1. /\ row.effective \in 0..(Behind - 1) /\ row.value \in 0..(Behind - 1)
        /\ row.discovered \in 0..(Behind - 1)
    BY PagesAssumption
  <1>2. newest \in Nat /\ found \in Nat /\ \A d : Rank(row.value, d) \in Nat
    BY <1>1, RankType
  <1>3. by = "newest" => SortKeys(row, by, dir) = <<newest, Rank(row.value, "desc"), found>>
    BY Zenon DEF SortKeys
  <1>4. by = "fit" => SortKeys(row, by, dir) = <<Rank(row.value, dir), newest, found>>
    BY Zenon DEF SortKeys
  <1>5. by = "title" => SortKeys(row, by, dir) = <<Rank(row.value, "asc"), newest>>
    BY Zenon DEF SortKeys
  <1> HIDE DEF newest, found
  <1> QED
    BY <1>2, <1>3, <1>4, <1>5

LEMMA TotalOrder ==
    ASSUME NEW keys, NEW others,
           \/ /\ \E a, b \in Nat : keys = <<a, b>>
              /\ \E a, b \in Nat : others = <<a, b>>
           \/ /\ \E a, b, c \in Nat : keys = <<a, b, c>>
              /\ \E a, b, c \in Nat : others = <<a, b, c>>,
           keys # others
    PROVE  Precedes(keys, others) <=> ~Precedes(others, keys)
  <1>1. CASE /\ \E a, b \in Nat : keys = <<a, b>>
             /\ \E a, b \in Nat : others = <<a, b>>
    <2>1. PICK a, b, d, e \in Nat : keys = <<a, b>> /\ others = <<d, e>>
      BY <1>1
    <2>2. \A x, y, v, w \in Nat :
            Precedes(<<x, y>>, <<v, w>>) <=> x < v \/ (y < w /\ x = v)
      <3> SUFFICES ASSUME NEW x \in Nat, NEW y \in Nat, NEW v \in Nat, NEW w \in Nat
                   PROVE  Precedes(<<x, y>>, <<v, w>>) <=> x < v \/ (y < w /\ x = v)
        OBVIOUS
      <3>1. DOMAIN <<x, y>> = {1, 2} /\ 1..(1 - 1) = {} /\ 1..(2 - 1) = {1}
        OBVIOUS
      <3> QED
        BY <3>1 DEF Precedes
    <2> QED
      BY <2>1, <2>2
  <1>2. CASE /\ \E a, b, c \in Nat : keys = <<a, b, c>>
             /\ \E a, b, c \in Nat : others = <<a, b, c>>
    <2>1. PICK a, b, c, d, e, f \in Nat : keys = <<a, b, c>> /\ others = <<d, e, f>>
      BY <1>2
    <2>2. \A x, y, z, u, v, w \in Nat :
            Precedes(<<x, y, z>>, <<u, v, w>>)
              <=> x < u \/ (y < v /\ x = u) \/ (z < w /\ x = u /\ y = v)
      <3> SUFFICES ASSUME NEW x \in Nat, NEW y \in Nat, NEW z \in Nat,
                          NEW u \in Nat, NEW v \in Nat, NEW w \in Nat
                   PROVE  Precedes(<<x, y, z>>, <<u, v, w>>)
                            <=> x < u \/ (y < v /\ x = u) \/ (z < w /\ x = u /\ y = v)
        OBVIOUS
      <3>1. /\ DOMAIN <<x, y, z>> = {1, 2, 3}
            /\ 1..(1 - 1) = {} /\ 1..(2 - 1) = {1} /\ 1..(3 - 1) = {1, 2}
        OBVIOUS
      <3> QED
        BY <3>1 DEF Precedes
    <2> QED
      BY <2>1, <2>2
  <1> QED
    BY <1>1, <1>2

(* In whatever order the rows come, one that ties with no other comes in   *)
(* the same place: after those that precede it, before the others.         *)
LEMMA InjectiveIsOnto ==
    ASSUME NEW n \in Nat, NEW s \in [1..n -> 1..n], IsInjective(s), NEW i \in 1..n
    PROVE  \E q \in 1..n : s[q] = i
  <1>1. IsFiniteSet(1..n)
    BY FS_Interval
  <1>2. s \in Injection(1..n, 1..n)
    BY DEF Injection
  <1>3. s \in Surjection(1..n, 1..n)
    BY <1>1, <1>2, FS_Injection
  <1> QED
    BY <1>3 DEF Surjection

Before(rows, by, dir, i) ==
    {j \in DOMAIN rows : Precedes(SortKeys(rows[j], by, dir), SortKeys(rows[i], by, dir))}

IsUnique(rows, by, dir, i) ==
    \A j \in DOMAIN rows \ {i} : SortKeys(rows[i], by, dir) # SortKeys(rows[j], by, dir)
OnItsSide(rows, by, dir, i, j, first) ==
    IF first THEN Precedes(SortKeys(rows[j], by, dir), SortKeys(rows[i], by, dir))
             ELSE Precedes(SortKeys(rows[i], by, dir), SortKeys(rows[j], by, dir))

LEMMA PlaceOfUnique ==
    ASSUME NEW n \in Nat, NEW rows \in [1..n -> ListedRows],
           NEW by \in {"newest", "fit", "title"}, NEW dir,
           NEW i \in 1..n, IsUnique(rows, by, dir, i),
           NEW s \in Ordered(rows, by, dir), NEW q \in 1..n, s[q] = i
    PROVE  /\ q = Cardinality(Before(rows, by, dir, i)) + 1
           /\ \A p \in 1..n : p # q => OnItsSide(rows, by, dir, i, s[p], p < q)
  <1> DEFINE Keys(j) == SortKeys(rows[j], by, dir)
             before == {j \in 1..n : Precedes(Keys(j), Keys(i))}
  <1>1. DOMAIN rows = 1..n
    OBVIOUS
  <1>2. /\ s \in [1..n -> 1..n]
        /\ \A a, b \in 1..n : s[a] = s[b] => a = b
        /\ \A a, b \in 1..n : a < b => ~Precedes(Keys(s[b]), Keys(s[a]))
    BY <1>1 DEF Ordered, IsInjective
  <1>3. ASSUME NEW j \in 1..n, j # i
        PROVE  Precedes(Keys(j), Keys(i)) <=> ~Precedes(Keys(i), Keys(j))
    <2>1. Keys(j) # Keys(i) /\ rows[j] \in ListedRows /\ rows[i] \in ListedRows
      BY <1>1, <1>3 DEF IsUnique
    <2>2. \/ /\ \E a, b \in Nat : Keys(j) = <<a, b>>
             /\ \E a, b \in Nat : Keys(i) = <<a, b>>
          \/ /\ \E a, b, c \in Nat : Keys(j) = <<a, b, c>>
             /\ \E a, b, c \in Nat : Keys(i) = <<a, b, c>>
      BY <2>1, KeysType
    <2> QED
      BY <2>1, <2>2, TotalOrder
  <1>4. \A p \in 1..n : p # q => s[p] \in 1..n /\ s[p] # i
    BY <1>2
  <1>5. ASSUME NEW p \in 1..n, p # q
        PROVE  IF p < q THEN Precedes(Keys(s[p]), Keys(i))
                        ELSE Precedes(Keys(i), Keys(s[p]))
    BY <1>2, <1>3, <1>4, <1>5
  <1> HIDE DEF Keys
  <1>6. ~Precedes(Keys(i), Keys(i))
    <2>1. rows[i] \in ListedRows
      OBVIOUS
    <2>2. \/ \E a, b \in Nat : Keys(i) = <<a, b>>
          \/ \E a, b, c \in Nat : Keys(i) = <<a, b, c>>
      BY <2>1, KeysType DEF Keys
    <2>3. \A a, b \in Nat : ~Precedes(<<a, b>>, <<a, b>>)
      BY DEF Precedes
    <2>4. \A a, b, c \in Nat : ~Precedes(<<a, b, c>>, <<a, b, c>>)
      BY DEF Precedes
    <2> QED
      BY <2>2, <2>3, <2>4
  <1> DEFINE front == [p \in 1..(q - 1) |-> s[p]]
  <1>7. front \in Bijection(1..(q - 1), before)
    <2>1. \A p \in 1..(q - 1) : p \in 1..n /\ p < q /\ p # q
      OBVIOUS
    <2>2. front \in [1..(q - 1) -> before]
      BY <1>2, <1>5, <2>1
    <2>3. IsInjective(front)
      BY <1>2, <2>1 DEF IsInjective
    <2>4. ASSUME NEW j \in before PROVE \E p \in 1..(q - 1) : front[p] = j
      <3>1. j \in 1..n /\ Precedes(Keys(j), Keys(i)) /\ j # i
        BY <1>6, <2>4
      <3>2. PICK p \in 1..n : s[p] = j
        <4>1. IsInjective(s)
          BY <1>2 DEF IsInjective
        <4>2. s \in [1..n -> 1..n] /\ j \in 1..n
          BY <1>2, <3>1
        <4> HIDE DEF before, front
        <4> QED
          BY <4>1, <4>2, InjectiveIsOnto
      <3>3. p # q
        BY <3>1, <3>2
      <3>4. p < q
        BY <1>3, <1>5, <3>1, <3>2, <3>3
      <3> QED
        BY <3>2, <3>4
    <2> QED
      BY <2>2, <2>3, <2>4 DEF Bijection, Injection, Surjection
  <1>8. Cardinality(before) = q - 1
    <2> HIDE DEF before, front
    <2>1. ExistsBijection(1..(q - 1), before)
      BY <1>7 DEF ExistsBijection
    <2>2. q - 1 \in Nat
      OBVIOUS
    <2> QED
      BY <2>1, <2>2, FS_CountingElements
  <1>9. q = Cardinality(Before(rows, by, dir, i)) + 1
    <2>1. Before(rows, by, dir, i) = before
      BY <1>1 DEF Before, Keys
    <2> QED
      BY <1>8, <2>1
  <1> QED
    BY <1>5, <1>9 DEF Keys, OnItsSide

LEMMA PageCountValue ==
    ASSUME NEW n \in Nat, NEW size \in Nat \ {0}
    PROVE  LET c == (n + size - 1) \div size
           IN /\ c \in Nat /\ n + size - 1 < c * size + size
              /\ PageCount(n, size) = IF 1 <= c THEN c ELSE 1
              /\ PageCount(n, size) \in Nat \ {0}
  <1> DEFINE c == (n + size - 1) \div size
  <1>1. c \in Nat /\ n + size - 1 < c * size + size
    BY Division
  <1>2. PageCount(n, size) = Max({1, c})
    BY DEF PageCount
  <1> HIDE DEF c
  <1>3. PageCount(n, size) = IF 1 <= c THEN c ELSE 1
    <2>1. PICK one \in Int : one = 1
      OBVIOUS
    <2>2. PageCount(n, size) = Max({one, c}) /\ c \in Int
      BY <1>1, <1>2, <2>1
    <2>3. PageCount(n, size) = IF one <= c THEN c ELSE one
      BY <2>2, MinMaxOfTwo
    <2> QED
      BY <2>1, <2>3
  <1>4. PageCount(n, size) \in Nat \ {0}
    BY <1>1, <1>3
  <1> QED
    BY <1>1, <1>3, <1>4 DEF c

(* The page of a place, and why the list announces it.                     *)
LEMMA PageOfPlace ==
    ASSUME NEW n \in Nat, NEW q \in 1..n, NEW size \in Nat \ {0}
    PROVE  LET page == (q - 1) \div size + 1
           IN /\ page \in 1..PageCount(n, size)
              /\ (page - 1) * size < q /\ q <= page * size
              /\ \A p \in 1..PageCount(n, size) :
                   /\ p < page => p * size < q
                   /\ page < p => q <= (p - 1) * size
  <1> DEFINE d == (q - 1) \div size
             c == (n + size - 1) \div size
             page == d + 1
  <1>1. d \in Nat /\ d * size <= q - 1 /\ q - 1 < d * size + size
    BY Division
  <1>2. /\ c \in Nat /\ n + size - 1 < c * size + size
        /\ PageCount(n, size) = IF 1 <= c THEN c ELSE 1
    BY PageCountValue
  <1> HIDE DEF d, c
  <1>4. d * size \in Nat /\ c * size \in Nat /\ (d + 1) * size = d * size + size
    BY <1>1, <1>2, Products
  <1>5. d * size < c * size
    BY <1>1, <1>2, <1>4
  <1>6. d < c
    BY <1>1, <1>2, <1>5, Products
  <1>7. page \in 1..PageCount(n, size) /\ PageCount(n, size) \in Nat
    BY <1>1, <1>2, <1>6
  <1>8. (page - 1) * size < q /\ q <= page * size
    <2>1. page - 1 = d
      BY <1>1
    <2> QED
      BY <1>1, <1>4, <2>1
  <1>9. ASSUME NEW p \in 1..PageCount(n, size)
        PROVE  /\ p < page => p * size < q
               /\ page < p => q <= (p - 1) * size
    <2>1. p \in Nat /\ p - 1 \in Nat
      BY <1>7
    <2>2. ASSUME p < page PROVE p * size < q
      <3>1. p <= d
        BY <1>1, <2>1, <2>2
      <3>2. p * size <= d * size /\ p * size \in Nat
        BY <1>1, <2>1, <3>1, Products
      <3> QED
        BY <1>1, <1>4, <3>2
    <2>3. ASSUME page < p PROVE q <= (p - 1) * size
      <3>1. d + 1 <= p - 1 /\ d + 1 \in Nat
        BY <1>1, <2>1, <2>3
      <3>2. (d + 1) * size <= (p - 1) * size /\ (p - 1) * size \in Nat
        BY <2>1, <3>1, Products
      <3> QED
        BY <1>1, <1>4, <3>2
    <2> QED
      BY <2>2, <2>3
  <1> QED
    BY <1>7, <1>8, <1>9 DEF d

(* For lists of any length and pages of any size: a job that ties with no  *)
(* other stands on exactly one page (jobs.py:143-204).                     *)
THEOREM PagesCoverEveryList == PagesSpec => []PagesCoverTheList
  <1> DEFINE Inv == Is("pages") =>
                      \E n \in Nat :
                        /\ Asked.rows \in [1..n -> ListedRows]
                        /\ Asked.size \in PageSizes
                        /\ Asked.by \in {"newest", "fit", "title"}
  <1>1. input = NoInput => Inv
    BY DEF NoInput, Is
  <1>2. Inv /\ [AskPages]_input => Inv'
    <2> SUFFICES ASSUME Inv, [AskPages]_input, Is("pages")'
                 PROVE  Inv'
      OBVIOUS
    <2>1. CASE UNCHANGED input
      BY <2>1 DEF Is, Asked
    <2>2. CASE AskPages
      <3>1. PICK n \in 0..MaxListed : \E rows \in [1..n -> ListedRows], size \in PageSizes,
                 by \in {"newest", "fit", "title"}, dir \in {"asc", "desc"} :
              Given("pages", [rows |-> rows, size |-> size, by |-> by, dir |-> dir])
        BY <2>2 DEF AskPages
      <3>2. n \in Nat
        BY PagesAssumption
      <3>3. /\ Asked'.rows \in [1..n -> ListedRows]
            /\ Asked'.size \in PageSizes
            /\ Asked'.by \in {"newest", "fit", "title"}
        BY <3>1 DEF Given, Asked
      <3> QED
        BY <3>2, <3>3
    <2> QED
      BY <2>1, <2>2
  <1>3. Inv => PagesCoverTheList
    <2> SUFFICES ASSUME Inv, Is("pages") PROVE PagesCoverTheList
      BY DEF PagesCoverTheList
    <2> DEFINE rows == Asked.rows
               size == Asked.size
               by == Asked.by
               dir == Asked.dir
               Keys(i) == SortKeys(rows[i], by, dir)
               Pages == 1..PageCount(Len(rows), size)
               Shown(fetched, page) == Range(Page(fetched[page], page, size))
               Unique == {i \in DOMAIN rows :
                            \A j \in DOMAIN rows \ {i} : Keys(i) # Keys(j)}
    <2>1. PICK n \in Nat : rows \in [1..n -> ListedRows]
      OBVIOUS
    <2>2. size \in Nat \ {0} /\ by \in {"newest", "fit", "title"}
      BY PagesAssumption
    <2> HIDE DEF rows, size, by, dir
    <2>3. Len(rows) = n /\ DOMAIN rows = 1..n
      BY <2>1
    <2>4. ASSUME NEW fetched \in [Pages -> Ordered(rows, by, dir)], NEW i \in Unique
          PROVE  \E page \in Pages :
                   /\ i \in Shown(fetched, page)
                   /\ \A p \in Pages \ {page} :
                        /\ i \notin Shown(fetched, p)
                        /\ \A j \in Shown(fetched, p) :
                             IF p < page THEN Precedes(Keys(j), Keys(i))
                                         ELSE Precedes(Keys(i), Keys(j))
      <3>1. i \in 1..n /\ \A j \in 1..n \ {i} : Keys(i) # Keys(j)
        BY <2>3, <2>4
      <3> DEFINE q == Cardinality(Before(rows, by, dir, i)) + 1
                 page == (q - 1) \div size + 1
      <3>2. ASSUME NEW p \in Pages
            PROVE  /\ fetched[p] \in [1..n -> 1..n]
                   /\ q \in 1..n /\ fetched[p][q] = i
                   /\ \A r \in 1..n : r # q =>
                        /\ fetched[p][r] # i
                        /\ IF r < q THEN Precedes(Keys(fetched[p][r]), Keys(i))
                                    ELSE Precedes(Keys(i), Keys(fetched[p][r]))
        <4> DEFINE s == fetched[p]
        <4>1. s \in Ordered(rows, by, dir)
          BY <2>4
        <4>2. s \in [1..n -> 1..n] /\ IsInjective(s)
          BY <2>3, <4>1 DEF Ordered
        <4> HIDE DEF s
        <4>3. PICK k \in 1..n : s[k] = i
          BY <3>1, <4>2, InjectiveIsOnto
        <4>4. i \in 1..n /\ IsUnique(rows, by, dir, i)
          BY <2>3, <3>1 DEF IsUnique
        <4> HIDE DEF Keys
        <4>5. /\ k = q
              /\ \A r \in 1..n : r # k => OnItsSide(rows, by, dir, i, s[r], r < k)
          BY <2>1, <2>2, <4>1, <4>3, <4>4, PlaceOfUnique
        <4>6. \A r \in 1..n : r # k => s[r] # i
          BY <4>2, <4>3 DEF IsInjective
        <4> HIDE DEF q
        <4> QED
          BY <4>2, <4>3, <4>5, <4>6 DEF s, OnItsSide, Keys
      <3> HIDE DEF q
      <3>3. 1 \in Pages /\ Pages \subseteq Nat \ {0}
        <4>1. PageCount(n, size) \in Nat \ {0}
          BY <2>2, PageCountValue
        <4> QED
          BY <2>3, <4>1
      <3>4. q \in 1..n
        BY <3>2, <3>3
      <3>5. /\ page \in Pages
            /\ (page - 1) * size < q /\ q <= page * size
            /\ \A p \in Pages : /\ p < page => p * size < q
                                /\ page < p => q <= (p - 1) * size
        BY <2>2, <2>3, <3>4, PageOfPlace
      <3> HIDE DEF page
      <3>6. \A p \in Pages : \A j :
              j \in Shown(fetched, p) <=> Stands(fetched[p], p, size, j)
        <4> SUFFICES ASSUME NEW p \in Pages, NEW j
                     PROVE  j \in Range(Page(fetched[p], p, size))
                              <=> Stands(fetched[p], p, size, j)
          OBVIOUS
        <4>1. fetched[p] \in [1..n -> 1..n] /\ p \in Nat \ {0}
          BY <3>2, <3>3
        <4> HIDE DEF Pages
        <4> QED
          BY <2>2, <4>1, OnPage
      <3> HIDE DEF Shown, Pages
      <3>7. i \in Shown(fetched, page)
        BY <3>2, <3>5, <3>6 DEF Stands
      <3>8. ASSUME NEW p \in Pages \ {page}, NEW j \in Shown(fetched, p)
            PROVE  /\ j # i
                   /\ IF p < page THEN Precedes(Keys(j), Keys(i))
                                  ELSE Precedes(Keys(i), Keys(j))
        <4>1. PICK r \in 1..n : (p - 1) * size < r /\ r <= p * size /\ fetched[p][r] = j
          BY <3>2, <3>6, <3>8 DEF Stands
        <4>2. p \in Nat \ {0} /\ page \in Nat \ {0} /\ p # page
          BY <3>3, <3>5
        <4>3. p * size \in Nat /\ (p - 1) * size \in Nat
          BY <2>2, <4>2, Products
        <4>4. IF p < page THEN r < q ELSE q < r
          BY <3>4, <3>5, <4>1, <4>2, <4>3
        <4>5. r # q /\ (r < q <=> p < page)
          BY <3>4, <4>4
        <4>6. /\ fetched[p][r] # i
              /\ IF r < q THEN Precedes(Keys(fetched[p][r]), Keys(i))
                          ELSE Precedes(Keys(i), Keys(fetched[p][r]))
          BY <3>2, <4>5
        <4> HIDE DEF Keys
        <4> QED
          BY <4>1, <4>5, <4>6
      <3> HIDE DEF Keys
      <3> QED
        BY <3>5, <3>7, <3>8
    <2> QED
      BY <2>4 DEF PagesCoverTheList, rows, size, by, dir
  <1> QED
    BY <1>1, <1>2, <1>3, PTL DEF PagesSpec

-----------------------------------------------------------------------------
(* Mails.                                                                  *)
LEMMA LeastOf ==
    ASSUME NEW T \in SUBSET Nat, T # {}
    PROVE  Min(T) \in T /\ \A m \in T : Min(T) <= m
  <1>1. \E n \in T : \A m \in T : n <= m
    BY LeastNatural
  <1> QED
    BY <1>1 DEF Min

(* A window has the lines of the text that are near.                       *)
FirstLine(at) == Max({1, at - Radius})
LastLine(n, at) == Min({n, at + Radius})

LEMMA WindowBounds ==
    ASSUME NEW n \in Nat, NEW at \in 1..n
    PROVE  /\ FirstLine(at) \in 1..n /\ LastLine(n, at) \in 1..n
           /\ \A i \in Nat : FirstLine(at) <= i /\ i <= LastLine(n, at) <=>
                             1 <= i /\ i <= n /\ i <= at + Radius /\ at <= i + Radius
  <1>1. PICK one, low, high \in Int : one = 1 /\ low = at - Radius /\ high = at + Radius
    BY RadiusAssumption
  <1>2. PICK from \in Int : from = Max({one, low}) /\ from = IF one <= low THEN low ELSE one
    <2>1. Max({one, low}) = IF one <= low THEN low ELSE one
      BY MinMaxOfTwo
    <2> QED
      BY <2>1
  <1>3. PICK to \in Int : to = Min({n, high}) /\ to = IF n <= high THEN n ELSE high
    <2>1. n \in Int
      OBVIOUS
    <2>2. Min({n, high}) = IF n <= high THEN n ELSE high
      BY <2>1, MinMaxOfTwo
    <2> QED
      BY <2>2
  <1>4. from \in 1..n /\ to \in 1..n
    BY <1>1, <1>2, <1>3, RadiusAssumption
  <1>5. \A i \in Nat : from <= i /\ i <= to <=>
                      1 <= i /\ i <= n /\ i <= at + Radius /\ at <= i + Radius
    BY <1>1, <1>2, <1>3, RadiusAssumption
  <1>6. from = FirstLine(at) /\ to = LastLine(n, at)
    BY <1>1, <1>2, <1>3 DEF FirstLine, LastLine
  <1> QED
    BY <1>4, <1>5, <1>6

LEMMA WindowLines ==
    ASSUME NEW S, NEW text \in Seq(S), NEW at \in DOMAIN text
    PROVE  /\ Around(text, at) \in Seq(S)
           /\ \A k \in DOMAIN Around(text, at) :
                \E i \in Near(text, at) : Around(text, at)[k] = text[i]
           /\ \A i \in Near(text, at) :
                \E k \in DOMAIN Around(text, at) : Around(text, at)[k] = text[i]
  <1>1. PICK n \in Nat : n = Len(text) /\ DOMAIN text = 1..n
    OBVIOUS
  <1>2. at \in 1..n
    BY <1>1
  <1>3. PICK from, to \in 1..n :
          /\ from = FirstLine(at) /\ to = LastLine(n, at)
          /\ \A i \in Nat : from <= i /\ i <= to <=>
                          1 <= i /\ i <= n /\ i <= at + Radius /\ at <= i + Radius
    BY <1>2, WindowBounds
  <1>4. Around(text, at) = SubSeq(text, from, to)
    BY <1>1, <1>3 DEF Around, FirstLine, LastLine
  <1>5. \A i : i \in Near(text, at) <=> i \in Nat /\ from <= i /\ i <= to
    <2>1. \A i : i \in Near(text, at) <=>
                i \in Nat /\ 1 <= i /\ i <= n /\ i <= at + Radius /\ at <= i + Radius
      BY <1>1 DEF Near
    <2> QED
      BY <1>3, <2>1
  <1>6. from \in Int /\ to \in Int /\ \A i \in from..to : text[i] \in S
    BY <1>1
  <1>7. /\ SubSeq(text, from, to) \in Seq(S)
        /\ \A k \in 1..(to - from + 1) : SubSeq(text, from, to)[k] = text[from + k - 1]
    BY <1>6, SubSeqProperties
  <1>8. DOMAIN SubSeq(text, from, to) = 1..(to - from + 1)
    <2>1. Len(SubSeq(text, from, to)) = IF from <= to THEN to - from + 1 ELSE 0
      BY <1>6, SubSeqProperties
    <2> QED
      BY <1>7, <2>1
  <1>9. ASSUME NEW k \in 1..(to - from + 1)
        PROVE  from + k - 1 \in Near(text, at)
    BY <1>5, <1>9
  <1>10. ASSUME NEW i \in Near(text, at)
         PROVE  i - from + 1 \in 1..(to - from + 1) /\ from + (i - from + 1) - 1 = i
    BY <1>5, <1>10
  <1>11. \A k \in DOMAIN SubSeq(text, from, to) :
           \E i \in Near(text, at) : SubSeq(text, from, to)[k] = text[i]
    BY <1>7, <1>8, <1>9
  <1>12. \A i \in Near(text, at) :
           \E k \in DOMAIN SubSeq(text, from, to) : SubSeq(text, from, to)[k] = text[i]
    BY <1>7, <1>8, <1>10
  <1> QED
    BY <1>4, <1>7, <1>11, <1>12

(* What is extracted is a line of a layout with a title, or nothing.       *)
Nothing == Line("none", Unknown, Unknown, NoUrl)
IsStated(line) == line.layout \in {"at", "stacked"}

LEMMA FirstStatedType ==
    ASSUME NEW S, NEW window \in Seq(S), NEW layout, Stated(window, layout) # {}
    PROVE  /\ FirstStated(window, layout).layout = layout
           /\ \E k \in DOMAIN window : window[k] = FirstStated(window, layout)
  <1>1. Stated(window, layout) \in SUBSET Nat
    BY DEF Stated
  <1>2. Min(Stated(window, layout)) \in Stated(window, layout)
    BY <1>1, LeastOf
  <1> QED
    BY <1>2 DEF Stated, FirstStated

LEMMA ExtractedType ==
    ASSUME NEW S, NEW window \in Seq(S)
    PROVE  \/ Extracted(window) = Nothing
           \/ /\ Extracted(window).title # Unknown
              /\ IsStated(Extracted(window))
              /\ \E k \in DOMAIN window : window[k] = Extracted(window)
  BY FirstStatedType DEF Extracted, Usable, Nothing, IsStated

LEMMA ExtractedAlone ==
    ASSUME NEW S, NEW window \in Seq(S), NEW facts, IsStated(facts),
           \E k \in DOMAIN window : window[k] = facts,
           \A k \in DOMAIN window : IsStated(window[k]) => window[k] = facts
    PROVE  Extracted(window) = IF facts.title = Unknown THEN Nothing ELSE facts
  <1>1. ASSUME NEW layout \in {"at", "stacked"}, Usable(window, layout)
        PROVE  FirstStated(window, layout) = facts /\ facts.title # Unknown
    <2>1. Stated(window, layout) # {} /\ FirstStated(window, layout).title # Unknown
      BY <1>1 DEF Usable
    <2>2. /\ FirstStated(window, layout).layout = layout
          /\ \E k \in DOMAIN window : window[k] = FirstStated(window, layout)
      BY <2>1, FirstStatedType
    <2>3. FirstStated(window, layout) = facts
      BY <2>2 DEF IsStated
    <2> QED
      BY <2>1, <2>3
  <1>2. ASSUME facts.title # Unknown
        PROVE  Usable(window, "at") \/ Usable(window, "stacked")
    <2>1. facts.layout \in {"at", "stacked"} /\ Stated(window, facts.layout) # {}
      BY DEF IsStated, Stated
    <2>2. /\ FirstStated(window, facts.layout).layout = facts.layout
          /\ \E k \in DOMAIN window : window[k] = FirstStated(window, facts.layout)
      BY <2>1, FirstStatedType
    <2>3. FirstStated(window, facts.layout) = facts
      BY <2>1, <2>2 DEF IsStated
    <2> QED
      BY <1>2, <2>1, <2>3 DEF Usable
  <1> QED
    BY <1>1, <1>2 DEF Extracted, Nothing

(* Only entries with a title and an employer pass the bar.                 *)
LEMMA TheBar ==
    ASSUME NEW board \in DOMAIN Digests, NEW raw, NEW facts
    PROVE  LET entry == EntryOf(board, raw, facts)
           IN /\ entry.job = raw.job
              /\ entry.title = facts.title /\ entry.company = facts.company
              /\ entry.confidence >= MinConfidence
                   <=> facts.title # Unknown /\ facts.company # Unknown
  <1>1. board \in {"linkedin", "indeed"}
    BY DEF Digests
  <1>2. /\ Digests["linkedin"] = <<90, 70, 40>> /\ Digests["indeed"] = <<88, 65, 40>>
    BY DEF Digests
  <1>3. /\ Digests[board][1] >= MinConfidence
        /\ ~(Digests[board][2] >= MinConfidence)
        /\ ~(Digests[board][3] >= MinConfidence)
    BY <1>1, <1>2 DEF MinConfidence
  <1>4. EntryOf(board, raw, facts).confidence =
          Digests[board][IF facts.title = Unknown THEN 3
                         ELSE IF facts.company = Unknown THEN 2 ELSE 1]
    BY DEF EntryOf, Alert
  <1>5. /\ EntryOf(board, raw, facts).job = raw.job
        /\ EntryOf(board, raw, facts).title = facts.title
        /\ EntryOf(board, raw, facts).company = facts.company
    BY DEF EntryOf, Alert
  <1>6. CASE facts.title = Unknown
    BY <1>3, <1>4, <1>5, <1>6
  <1>7. CASE facts.title # Unknown /\ facts.company = Unknown
    BY <1>3, <1>4, <1>5, <1>7
  <1>8. CASE facts.title # Unknown /\ facts.company # Unknown
    BY <1>3, <1>4, <1>5, <1>8
  <1> QED
    BY <1>6, <1>7, <1>8

(* The first URL of a job is a URL of it in the text.                      *)
LEMMA FirstUrlFacts ==
    ASSUME NEW mail \in Mails, NEW board, board # "none",
           NEW job \in JobIdsOf(board, mail.text)
    PROVE  LET url == FirstUrl(board, mail.text, job)
           IN /\ url # NoUrl /\ url.job = job /\ job \in Seq(Nat)
              /\ \E i \in DOMAIN mail.text : mail.text[i].url = url
  <1> DEFINE text == mail.text
             T == {i \in UrlsOf(board, text) : text[i].url.job = job}
  <1>1. /\ text \in Seq(Range(text))
        /\ \A i \in DOMAIN text : text[i].url # NoUrl => text[i].url.job \in Seq(Nat)
    BY MailsAssumption
  <1> HIDE DEF text
  <1>2. T # {} /\ T \in SUBSET Nat
    <2>1. \E i \in UrlsOf(board, text) : job = text[i].url.job
      BY DEF JobIdsOf, text
    <2>2. DOMAIN text \subseteq Nat
      BY <1>1
    <2> QED
      BY <2>1, <2>2 DEF UrlsOf
  <1> HIDE DEF T
  <1>3. Min(T) \in T
    BY <1>2, LeastOf
  <1>4. PICK i \in DOMAIN text :
          /\ i = Min(T) /\ text[i].url.board = board /\ text[i].url.job = job
    BY <1>3 DEF T, UrlsOf
  <1>5. FirstUrl(board, text, job) = text[i].url
    BY <1>4 DEF FirstUrl, T
  <1>6. text[i].url # NoUrl
    BY <1>4 DEF NoUrl
  <1> QED
    BY <1>1, <1>4, <1>5, <1>6 DEF text

(* Where a URL of the text is, and where the parser finds it.              *)
FirstPlace(text, url) == Min({i \in DOMAIN text : text[i].url = url})
Found(text, url) == {i \in DOMAIN text : Holds(text[i], url)}

LEMMA WindowIsAround ==
    ASSUME NEW S, NEW text \in Seq(S), NEW url, url # NoUrl, url.job \in Seq(Nat),
           \E i \in DOMAIN text : text[i].url = url
    PROVE  LET at == FirstPlace(text, url)
           IN /\ at \in DOMAIN text
              /\ Min(Found(text, url)) \in DOMAIN text
              /\ (\A i \in 1..(at - 1) : ~Holds(text[i], url)) => Min(Found(text, url)) = at
  <1> DEFINE T == {i \in DOMAIN text : text[i].url = url}
  <1>1. DOMAIN text \subseteq Nat \ {0}
    OBVIOUS
  <1>2. T # {} /\ T \in SUBSET Nat
    BY <1>1
  <1> HIDE DEF T
  <1>3. Min(T) \in T
    BY <1>2, LeastOf
  <1>4. PICK at \in DOMAIN text : at = FirstPlace(text, url) /\ text[at].url = url
    BY <1>3 DEF T, FirstPlace
  <1>5. IsPrefix(url.job, url.job)
    BY DEF IsPrefix
  <1>6. Holds(text[at], url)
    BY <1>4, <1>5 DEF Holds
  <1>7. at \in Found(text, url) /\ Found(text, url) \in SUBSET Nat
    BY <1>1, <1>4, <1>6 DEF Found
  <1>8. /\ Min(Found(text, url)) \in Found(text, url)
        /\ Min(Found(text, url)) <= at
    BY <1>7, LeastOf
  <1>9. PICK m \in DOMAIN text : m = Min(Found(text, url)) /\ Holds(text[m], url)
    BY <1>8 DEF Found
  <1>10. ASSUME \A i \in 1..(at - 1) : ~Holds(text[i], url)
         PROVE  m = at
    <2>1. m \in Nat \ {0} /\ at \in Nat \ {0} /\ m <= at
      BY <1>1, <1>8, <1>9
    <2>2. m \notin 1..(at - 1)
      BY <1>9, <1>10
    <2> QED
      BY <2>1, <2>2
  <1> QED
    BY <1>4, <1>9, <1>10

(* What the digest says of a job, from the window of its first URL.        *)
Reading(board, text, job) ==
    Extracted(Window(text, FirstUrl(board, text, job)))

LEMMA ReadingType ==
    ASSUME NEW mail \in Mails, NEW board, board # "none",
           NEW job \in JobIdsOf(board, mail.text)
    PROVE  LET reading == Reading(board, mail.text, job)
           IN \/ reading = Nothing
              \/ \E i \in DOMAIN mail.text : mail.text[i] = reading
  <1> DEFINE text == mail.text
             S == Range(text)
             url == FirstUrl(board, text, job)
             at == Min(Found(text, url))
  <1>1. text \in Seq(S)
    BY MailsAssumption
  <1>2. /\ url # NoUrl /\ url.job \in Seq(Nat)
        /\ \E i \in DOMAIN text : text[i].url = url
    BY FirstUrlFacts
  <1> HIDE DEF text, S, url
  <1>3. at \in DOMAIN text
    BY <1>1, <1>2, WindowIsAround
  <1>4. Window(text, url) = Around(text, at)
    BY DEF Window, Found
  <1> HIDE DEF at
  <1>5. /\ Around(text, at) \in Seq(S)
        /\ \A k \in DOMAIN Around(text, at) :
             \E i \in Near(text, at) : Around(text, at)[k] = text[i]
    BY <1>1, <1>3, WindowLines
  <1>6. \/ Extracted(Around(text, at)) = Nothing
        \/ \E k \in DOMAIN Around(text, at) :
             Around(text, at)[k] = Extracted(Around(text, at))
    BY <1>5, ExtractedType
  <1>7. \/ Extracted(Around(text, at)) = Nothing
        \/ \E i \in DOMAIN text : text[i] = Extracted(Around(text, at))
    BY <1>5, <1>6 DEF Near
  <1> QED
    BY <1>4, <1>7 DEF Reading, url, text

LEMMA ReadingAlone ==
    ASSUME NEW mail \in Mails, NEW board, board # "none",
           NEW job \in JobIdsOf(board, mail.text), NEW facts,
           LET url == FirstUrl(board, mail.text, job)
           IN Alone(mail.text, url, FirstPlace(mail.text, url), facts)
    PROVE  Reading(board, mail.text, job) =
             IF facts.title = Unknown THEN Nothing ELSE facts
  <1> DEFINE text == mail.text
             S == Range(text)
             url == FirstUrl(board, text, job)
             at == FirstPlace(text, url)
  <1>1. text \in Seq(S)
    BY MailsAssumption
  <1>2. /\ url # NoUrl /\ url.job \in Seq(Nat)
        /\ \E i \in DOMAIN text : text[i].url = url
    BY FirstUrlFacts
  <1>3. Alone(text, url, at, facts)
    OBVIOUS
  <1> HIDE DEF text, S, url
  <1>4. at \in DOMAIN text
    BY <1>1, <1>2, WindowIsAround
  <1>5. \A i \in 1..(at - 1) : ~Holds(text[i], url)
    BY <1>3 DEF Alone
  <1>6. Min(Found(text, url)) = at
    BY <1>1, <1>2, <1>5, WindowIsAround
  <1> HIDE DEF at
  <1>7. Window(text, url) = Around(text, at)
    BY <1>6 DEF Window, Found
  <1>8. /\ Around(text, at) \in Seq(S)
        /\ \A k \in DOMAIN Around(text, at) :
             \E i \in Near(text, at) : Around(text, at)[k] = text[i]
        /\ \A i \in Near(text, at) :
             \E k \in DOMAIN Around(text, at) : Around(text, at)[k] = text[i]
    BY <1>1, <1>4, WindowLines
  <1>9. /\ \A i \in Near(text, at) : IsStated(text[i]) => text[i] = facts
        /\ \E i \in Near(text, at) : IsStated(text[i]) /\ text[i] = facts
    <2>1. {text[i] : i \in {n \in Near(text, at) :
                              text[n].layout \in {"at", "stacked"}}} = {facts}
      BY <1>3 DEF Alone
    <2> QED
      BY <2>1 DEF IsStated
  <1>10. /\ IsStated(facts)
         /\ \E k \in DOMAIN Around(text, at) : Around(text, at)[k] = facts
         /\ \A k \in DOMAIN Around(text, at) :
              IsStated(Around(text, at)[k]) => Around(text, at)[k] = facts
    BY <1>8, <1>9
  <1>11. Extracted(Around(text, at)) = IF facts.title = Unknown THEN Nothing ELSE facts
    BY <1>8, <1>10, ExtractedAlone
  <1> QED
    BY <1>7, <1>11 DEF Reading, url, text

(* The entry of a job is ingested if its reading is usable, and no other   *)
(* entry is.                                                               *)
EntriesOf(mail, job) == {a \in Ingested(mail) : a.job = job}

LEMMA TakenIsTheReading ==
    ASSUME NEW mail \in Mails, NEW board \in DOMAIN Digests,
           board = BoardOf(mail), Classified(mail) = "JOB_ALERT",
           NEW job \in JobIdsOf(board, mail.text)
    PROVE  LET reading == Reading(board, mail.text, job)
           IN \E entry :
                /\ entry.title = reading.title /\ entry.company = reading.company
                /\ EntriesOf(mail, job) =
                     IF Unknown \in {reading.title, reading.company}
                     THEN {} ELSE {entry}
  <1> DEFINE text == mail.text
             EntryFor(j) == EntryOf(board, FirstUrl(board, text, j), Reading(board, text, j))
             reading == Reading(board, text, job)
  <1>1. board # "none"
    BY DEF Digests
  <1>2. Alerts(mail) = {EntryFor(j) : j \in JobIdsOf(board, text)}
    BY <1>1 DEF Alerts, DigestAlerts, Reading
  <1>3. ASSUME NEW j \in JobIdsOf(board, text)
        PROVE  /\ EntryFor(j).job = j
               /\ EntryFor(j).title = Reading(board, text, j).title
               /\ EntryFor(j).company = Reading(board, text, j).company
               /\ EntryFor(j).confidence >= MinConfidence
                    <=> /\ Reading(board, text, j).title # Unknown
                        /\ Reading(board, text, j).company # Unknown
    <2>1. FirstUrl(board, text, j).job = j
      BY <1>1, FirstUrlFacts
    <2> QED
      BY <2>1, TheBar
  <1> HIDE DEF EntryFor
  <1>4. Ingested(mail) = {a \in Alerts(mail) : a.confidence >= MinConfidence}
    BY DEF Ingested
  <1>5. \A a : a \in EntriesOf(mail, job) <=>
                 /\ a = EntryFor(job)
                 /\ reading.title # Unknown /\ reading.company # Unknown
    BY <1>2, <1>3, <1>4 DEF EntriesOf
  <1>6. EntriesOf(mail, job) = IF Unknown \in {reading.title, reading.company}
                           THEN {} ELSE {EntryFor(job)}
    BY <1>5
  <1> QED
    BY <1>3, <1>6

(* Every mail, with any window: no entry takes the facts of another job.   *)
THEOREM EntriesKeepFacts == MailSpec => []EntriesKeepTheirFacts
  <1> DEFINE Inv == Is("mail") => Asked \in Mails
  <1>1. input = NoInput => Inv
    BY DEF NoInput, Is
  <1>2. Inv /\ [AskMail]_input => Inv'
    BY DEF AskMail, Given, Is, Asked
  <1>3. Inv => EntriesKeepTheirFacts
    <2> SUFFICES ASSUME Inv, Is("mail") PROVE EntriesKeepTheirFacts
      BY DEF EntriesKeepTheirFacts
    <2> DEFINE mail == Asked
               text == mail.text
               board == BoardOf(mail)
    <2>1. mail \in Mails
      OBVIOUS
    <2> HIDE DEF mail
    <2>2. \/ Ingested(mail) # {}
          \/ Quarantined(mail)
          \/ Classified(mail) # "JOB_ALERT"
      BY DEF Quarantined
    <2>3. ASSUME board \in DOMAIN Digests, Classified(mail) = "JOB_ALERT",
                 NEW job \in JobIdsOf(board, text)
          PROVE  /\ Cardinality(EntriesOf(mail, job)) <= 1
                 /\ \A a \in EntriesOf(mail, job) : \E i \in DOMAIN text :
                      a.title = text[i].title /\ a.company = text[i].company
                 /\ \A facts :
                      LET url == FirstUrl(board, text, job)
                      IN Alone(text, url, FirstPlace(text, url), facts) =>
                           IF Unknown \in {facts.title, facts.company}
                           THEN EntriesOf(mail, job) = {}
                           ELSE \E a \in EntriesOf(mail, job) :
                                  a.title = facts.title /\ a.company = facts.company
      <3> DEFINE reading == Reading(board, text, job)
      <3>1. board # "none"
        BY <2>3 DEF Digests
      <3> HIDE DEF board
      <3>2. PICK entry :
              /\ entry.title = reading.title /\ entry.company = reading.company
              /\ EntriesOf(mail, job) = IF Unknown \in {reading.title, reading.company}
                                    THEN {} ELSE {entry}
        BY <2>1, <2>3, TakenIsTheReading DEF board
      <3>3. \/ reading = Nothing
            \/ \E i \in DOMAIN text : text[i] = reading
        BY <2>1, <2>3, <3>1, ReadingType
      <3>4. Cardinality(EntriesOf(mail, job)) <= 1
        <4>1. EntriesOf(mail, job) = {} \/ EntriesOf(mail, job) = {entry}
          BY <3>2
        <4>2. Cardinality(EntriesOf(mail, job)) \in {0, 1}
          BY <4>1, FS_EmptySet, FS_Singleton
        <4> QED
          BY <4>2
      <3>5. Nothing.title = Unknown /\ Nothing.company = Unknown
        BY DEF Nothing, Line
      <3>6. ASSUME NEW facts,
                   LET url == FirstUrl(board, text, job)
                   IN Alone(text, url, FirstPlace(text, url), facts)
            PROVE  reading = IF facts.title = Unknown THEN Nothing ELSE facts
        BY <2>1, <2>3, <3>1, <3>6, ReadingAlone
      <3> HIDE DEF reading
      <3>7. \A a \in EntriesOf(mail, job) : \E i \in DOMAIN text :
              a.title = text[i].title /\ a.company = text[i].company
        BY <3>2, <3>3, <3>5
      <3>8. \A facts :
              LET url == FirstUrl(board, text, job)
              IN Alone(text, url, FirstPlace(text, url), facts) =>
                   IF Unknown \in {facts.title, facts.company}
                   THEN EntriesOf(mail, job) = {}
                   ELSE \E a \in EntriesOf(mail, job) :
                          a.title = facts.title /\ a.company = facts.company
        BY <3>2, <3>5, <3>6
      <3> QED
        BY <3>4, <3>7, <3>8
    <2> QED
      BY <2>2, <2>3 DEF EntriesKeepTheirFacts, EntriesOf, FirstPlace, mail
  <1> QED
    BY <1>1, <1>2, <1>3, PTL DEF MailSpec
=============================================================================
