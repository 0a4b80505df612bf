------------------------------ MODULE JobSources ------------------------------
(***************************************************************************)
(* The sources of jobs: the providers (integrations/job_providers.py),     *)
(* what a discovery campaign does with the sources of the policy           *)
(* (services/fresh_jobs_discovery.py, connector_runner.py) and what the    *)
(* source inventory and the health probe then say of them                  *)
(* (discovery_source_inventory.py, connector_runner.py).                   *)
(***************************************************************************)
EXTENDS Inputs

CONSTANT Boards         \* names of company boards

(* A board has a name, which is how the code tells it from none.           *)
NoBoard == "none"
ASSUME BoardsAssumption == NoBoard \notin Boards

(* What tells the providers apart: whether a run needs a company board,    *)
(* keys or a feed; the dates of an item in the order in which they are     *)
(* asked for; whether postings carry the time they were fetched at, and    *)
(* the country code.  Lever makes a refusal of every failure of its site.  *)
Plain == [needs |-> "nothing", dates |-> <<"published">>, stamped |-> TRUE,
          country |-> "none", onFailure |-> "failed"]
Greenhouse == [Plain EXCEPT !.needs = "board",
                            !.dates = <<"published", "updated">>]
Lever == [Plain EXCEPT !.needs = "board", !.stamped = FALSE,
                       !.onFailure = "refused"]
Ashby == [Plain EXCEPT !.needs = "board", !.stamped = FALSE]
Remotive == Plain
RemoteOk == Plain
Rss == [Plain EXCEPT !.needs = "feed", !.dates = <<>>, !.stamped = FALSE]
Adzuna == [Plain EXCEPT !.needs = "keys"]
Jooble == [Plain EXCEPT !.needs = "keys", !.dates = <<"updated", "published">>]
Usajobs == [Plain EXCEPT !.needs = "keys", !.country = "US",
                         !.dates = <<"published", "start", "close">>]

(* PROVIDER_REGISTRY; the fixture feed takes no part in discovery.         *)
Registry == [greenhouse |-> Greenhouse, lever |-> Lever, ashby |-> Ashby,
             remotive |-> Remotive, remote_ok |-> RemoteOk, rss |-> Rss,
             adzuna |-> Adzuna, jooble |-> Jooble, usajobs |-> Usajobs]
Providers == DOMAIN Registry
Dates == {"published", "updated", "start", "close"}
Needing(need) == {p \in Providers : Registry[p].needs = need}

(* fetch_jobs, of one item fetched now; its dates are known or not.        *)
TimesOf(provider, item, now) ==
    LET p == Registry[provider]
        known == SelectSeq(p.dates, LAMBDA d : item[d] # NoTime)
    IN [posted |-> IF known = <<>> THEN NoTime ELSE item[Head(known)],
        fetched |-> IF p.stamped THEN now ELSE NoTime,
        country |-> p.country]

(* requires_api_key, is_configured and base_status; env says whether the   *)
(* source policy allows the provider, and whether its keys or feeds are    *)
(* set.                                                                    *)
Keyed == Needing("keys")
IsConfigured(p, env) == p \in Keyed \union Needing("feed") => env.set
BaseStatus(p, env) ==
    IF ~env.allowed THEN "DISABLED"
    ELSE IF p \in Keyed /\ ~IsConfigured(p, env) THEN "NOT_CONFIGURED"
    ELSE "READY"

(* What the policy says of a source: enabled or not, with company boards.  *)
Ats == Needing("board")

(* Mutant: company boards are not told apart.                              *)
CampaignsBoardless(key, cfg) == IF cfg.enabled THEN {NoBoard} ELSE {}

(* enabled_discovery_providers: one campaign for each board.               *)
Campaigns(key, cfg) ==
    IF ~cfg.enabled THEN {} ELSE IF key \in Ats THEN cfg.boards ELSE {NoBoard}

(* _skipped_sources: of a source that is not configured there is a         *)
(* campaign all the same.                                                  *)
Skipped(key, cfg, env) ==
    /\ cfg.enabled
    /\ IF key \in Ats THEN cfg.boards = {} ELSE ~IsConfigured(key, env)

(* skip_reason in build_source_inventory                                   *)
SkipReason(key, cfg, env) ==
    IF ~cfg.enabled THEN "disabled_in_policy"
    ELSE IF key \in Ats
         THEN IF cfg.boards = {} THEN "enabled_no_approved_boards" ELSE "none"
    ELSE IF key \in Keyed /\ ~IsConfigured(key, env)
         THEN "credentials_not_configured"
    ELSE IF BaseStatus(key, env) = "DISABLED" THEN "blocked_by_source_policy"
    ELSE "none"

(* fetch_jobs: a ValueError refuses the run.                               *)
Fetched(p, board, env, site) ==
    IF (p \in Ats /\ board = NoBoard) \/ ~IsConfigured(p, env) THEN "refused"
    ELSE IF site = "failed" THEN Registry[p].onFailure ELSE site

(* run_connector, live, as discover_fresh_jobs reports it: the health of   *)
(* the run, and its row if there is one.  A run that fails while jobs are  *)
(* ingested has none, and neither has one that is refused.                 *)
NoRun == "none"
Result(health, row) == [health |-> health, row |-> row]
RunConnector(p, board, env, site) ==
    LET fetched == Fetched(p, board, env, site)
    IN IF BaseStatus(p, env) # "READY" THEN Result(BaseStatus(p, env), NoRun)
       ELSE CASE fetched \in {"refused", "ingest_fails"} -> Result("ERROR", NoRun)
              [] fetched = "failed" -> Result("ERROR", "ERROR")
              [] fetched = "empty" -> Result("DEGRADED", "DEGRADED")
              [] fetched = "jobs" -> Result("HEALTHY", "HEALTHY")

(* probe_connector_health, by the last row of the provider's runs.         *)
Probe(p, env, last) ==
    IF BaseStatus(p, env) # "READY" THEN BaseStatus(p, env)
    ELSE IF last = NoRun THEN "CONFIGURED" ELSE last
LastRow(before, result) == IF result.row = NoRun THEN before ELSE result.row
-----------------------------------------------------------------------------
AskSource ==
    \E key \in Providers, enabled, allowed, set \in BOOLEAN,
       boards \in SUBSET Boards,
       site \in {"jobs", "empty", "failed", "ingest_fails"},
       before \in {NoRun, "ERROR", "DEGRADED", "HEALTHY"} :
      Given("source", [key |-> key, site |-> site, before |-> before,
                       cfg |-> [enabled |-> enabled, boards |-> boards],
                       env |-> [allowed |-> allowed, set |-> set]])
SourceSpec == input = NoInput /\ [][AskSource]_input

(* The inventory knows which sources will run: one without a reason to     *)
(* skip it has campaigns that bring jobs when its site has some, but for   *)
(* boards the source policy blocks and feeds that are not set; only such   *)
(* sources bring jobs, and the campaign does not report them as skipped.   *)
(* A source that is healthy after a run brought jobs, or its run left no   *)
(* row and an older one counts (discovery_source_inventory.py:158-187,     *)
(* fresh_jobs_discovery.py:13, connector_runner.py:53).                    *)
InventoryTellsWhatRuns ==
    Is("source") =>
      LET key == Asked.key
          env == Asked.env
          ready == SkipReason(key, Asked.cfg, env) = "none"
          campaigns == Campaigns(key, Asked.cfg)
          Run(board) == RunConnector(key, board, env, Asked.site)
      IN /\ ready => /\ campaigns # {}
                     /\ \/ \A b \in campaigns : Asked.site = "jobs" =>
                             Run(b).health = "HEALTHY"
                        \/ key \in Ats /\ ~env.allowed
                        \/ key = "rss" /\ ~env.set
         /\ \A b \in campaigns :
              /\ Run(b).health = "HEALTHY" =>
                   ready /\ ~Skipped(key, Asked.cfg, env)
              /\ Probe(key, env, LastRow(Asked.before, Run(b))) = "HEALTHY" =>
                   \/ Run(b).health = "HEALTHY"
                   \/ Run(b).row = NoRun /\ Asked.before = "HEALTHY"
=============================================================================
