CONSTANTS
 DefaultPolicy <- MCPolicy RawOverrides <- MCRaws PolicyPostings <- MCPostings
 WordsContaining <- MCWordsContaining Titles <- MCTitles Patterns <- MCPatterns
 TodayDays = 1 FreshDays = 2 RecentDays = 3 VisibleTiers = {"TODAY","FRESH","RECENT"} ExpiryDays = 5 StaleDays = 6
 Offers <- MCOffers Forms <- MCForms MaxDay = 7
 TargetSalary = 200 RejectBelow = 170 MinimumBase = 180
 Salaries = {0, 150, 170, 175, 180, 200, 230} TechHits = {0, 3, 4, 7, 10} LeadHits = {4, 5, 7} AiHits = {0, 3, 7} Evidence = {0, 5}
 Requests = {r1, r2} Tokens = {t1, t2} Owner = owner Stray = stray Remember = 2 Short = 1 MaxTime = 3
 Workers = {w1, w2, w3} Costs = {1, 3} HardCap = 8 SpeechCost = 1 Texts = {x1, x2}
 MaxGrants = 3 MaxFolders = 2 MaxSubfolders = 4 Subfolders <- MCSubfolders Configured = TRUE
 MaxRuns = 3
 Versions = 3 MarkerVersion = 2 Alters <- MCAlters
 Hosts = {"postgres", "postgres-e2e", "127.0.0.1", "localhost"} Ports = {5432, 5433} Uuids = {"u1", "u2"}
 Jobs = {1, 2} CompanyIds = {"c1", "c2"} JobKinds <- MCJobKinds
 Radius = 2 Mails <- MCMails
 Boards = {"b1", "b2"}
 ListedRows <- MCListed PageSizes = {1, 2, 3} MaxListed = 3
SPECIFICATION Spec
CHECK_DEADLOCK FALSE
INVARIANT PolicyKeepsSafety ListedIsAccepted AuditSettlesEligibility TitleMatchIsEmbedding PagesCoverTheList AdviceIsConsistent OnlyLiveSessionsEnter SpendNearCap HealthyMeansUsable OneOfEachFolder FailedCutoverRestores PreparedForRuntime OneIdentityPerDatabase RecoveredRowsHaveParents EntriesKeepTheirFacts InventoryTellsWhatRuns
