----------------------------- MODULE GoogleLinks -----------------------------
(***************************************************************************)
(* The link to the owner's Google account: consent and callback            *)
(* (routers/integrations.py), the token rows of three services             *)
(* (services/google_api.py), the folders on Drive                          *)
(* (services/drive_settings.py) and the health shown for all of them       *)
(* (services/google_health.py).  One callback runs at a time, which saves  *)
(* the services one commit after another, and one request at a time builds *)
(* folders; anything may happen between their steps, and any question to   *)
(* Google may go wrong.                                                    *)
(***************************************************************************)
EXTENDS Naturals, Sequences, FiniteSets

CONSTANTS
    MaxGrants,      \* bound on the consents that are given
    MaxFolders,     \* bound on the root folders that are created
    MaxSubfolders,  \* bound on the subfolders that are created
    Subfolders,     \* DRIVE_SUBFOLDERS, a sequence of names
    Configured      \* GOOGLE_DRIVE_FOLDER_ID is set

ASSUME LinksAssumption ==
    /\ {MaxGrants, MaxFolders, MaxSubfolders} \subseteq Nat
    /\ Subfolders \in Seq({Subfolders[i] : i \in DOMAIN Subfolders})
    /\ Configured \in BOOLEAN

Services == <<"google", "gmail", "drive">>
ServiceNames == {Services[i] : i \in DOMAIN Services}

VARIABLES
    grants,         \* consents given so far
    revoked,        \* the last of them that Google forgot, and all before
    link,           \* service -> its active row of oauth_tokens
    callback,       \* consent being saved: services left, what Google sent
    folders,        \* root folders on Drive: id -> is it in place
    root,           \* drive_active_root_folder_id
    subfolders,     \* subfolders in place: [id, root, name]
    made,           \* subfolders that were ever created
    recorded,       \* drive_subfolder_ids: the subfolder of each name
    building,       \* the request that builds folders: what it knows and does
    unrecorded,     \* history: a root was stored, or one in place given up
                    \* for another, and no subfolders recorded for it since
    unseen,         \* history: a search for a root got no answer, and a root
                    \* was made
    health          \* last report, until anything else happens

accountVars == <<grants, revoked, link, callback>>
driveVars == <<folders, root, subfolders, made, recorded, building, unrecorded,
               unseen>>
linkVars == <<accountVars, driveVars, health>>

NoLink == [grant |-> 0]
NoCallback == [left |-> <<>>]
NotBuilding == [root |-> 0]
NoSubfolders == <<>>
Nothing == 0
ConfiguredId == 1       \* the folder named in the environment
AppFolders == DOMAIN folders \ {ConfiguredId}
Linked(s) == link[s] # NoLink

(* Before the first consent, or with one in force.                         *)
GoogleInit ==
    /\ grants \in {0, 1} /\ revoked = 0
    /\ link = [s \in ServiceNames |->
                 IF grants = 0 THEN NoLink
                 ELSE [grant |-> 1, fresh |-> TRUE, readable |-> TRUE,
                       refresh |-> TRUE]]
    /\ callback = NoCallback
    /\ folders \in [{ConfiguredId} -> BOOLEAN]
    /\ root = Nothing /\ building = NotBuilding
    /\ subfolders = {} /\ made = 0 /\ recorded = NoSubfolders
    /\ unrecorded = FALSE /\ unseen = FALSE
    /\ health = "none"

(* What Google accepts, and what the code can tell without asking it.      *)
Alive(row) == row.grant > revoked
LooksFresh(row) == row.fresh
Answers(row) == LooksFresh(row) \/ (row.refresh /\ Alive(row))

(* get_token: the row of the service, or of another one if there is none   *)
(* that can be decrypted.  A row about to expire is refreshed, or the call *)
(* fails.                                                                  *)
Readable(s) == Linked(s) /\ link[s].readable
TokenRow(s) ==
    IF Readable(s) THEN s
    ELSE IF Readable("google") THEN "google"
    ELSE IF Readable("gmail") THEN "gmail" ELSE "drive"
HasToken(s) ==
    (\E c \in ServiceNames : Readable(c)) /\ Answers(link[TokenRow(s)])
(* The rows after get_token was called for these services.                 *)
Refreshed(asked) ==
    [s \in ServiceNames |->
       IF \E a \in asked : HasToken(a) /\ TokenRow(a) = s
       THEN [link[s] EXCEPT !.fresh = TRUE] ELSE link[s]]
(* What Google says to a call made with that token.                        *)
Works(s) == HasToken(s) /\ Alive(link[TokenRow(s)])
-----------------------------------------------------------------------------
(* build_oauth_url asks for offline access; without a forced consent       *)
(* screen Google sends a refresh token only with the first grant since a   *)
(* revocation.                                                             *)
RefreshSent(forced) == forced \/ grants = revoked

(* The code that the browser brings is exchanged, and the account asked    *)
(* for its address: a refusal, a failed call or another account than the   *)
(* dedicated one ends the callback, and what Google has sent is lost.      *)
Exchanged(forced) ==
    {NoCallback, [left |-> Services, refresh |-> RefreshSent(forced)]}

(* The owner consents; a state is good for one callback.                   *)
Consent ==
    /\ callback = NoCallback /\ grants < MaxGrants
    /\ grants' = grants + 1
    /\ \E forced \in BOOLEAN : callback' \in Exchanged(forced)
    /\ health' = "none"
    /\ UNCHANGED <<revoked, link, driveVars>>

(* save_token: one already held survives if Google sent none.              *)
Saved(row, sent, grant) ==
    [grant |-> grant, fresh |-> TRUE, readable |-> TRUE,
     refresh |-> sent \/ (row # NoLink /\ row.readable /\ row.refresh)]

SaveToken ==
    /\ callback.left # <<>>
    /\ link' = [link EXCEPT ![Head(callback.left)] =
                              Saved(@, callback.refresh, grants)]
    /\ callback' = IF Len(callback.left) = 1 THEN NoCallback
                   ELSE [callback EXCEPT !.left = Tail(@)]
    /\ health' = "none"
    /\ UNCHANGED <<grants, revoked, driveVars>>

(* The process dies, and with it the requests it was serving.              *)
Crash ==
    /\ callback # NoCallback \/ building # NotBuilding
    /\ callback' = NoCallback /\ building' = NotBuilding
    /\ UNCHANGED <<grants, revoked, link, folders, root, subfolders, made,
                   recorded, unrecorded, unseen, health>>

(* disconnect_service: all services, and Google is told.                   *)
Disconnect ==
    /\ \E s \in ServiceNames : Linked(s)
    /\ link' = [s \in ServiceNames |-> NoLink]
    /\ revoked' \in {revoked, grants}
    /\ health' = "none"
    /\ UNCHANGED <<grants, callback, driveVars>>

(* google_refresh, and whatever else asks for a token.                     *)
Refresh ==
    /\ \E s \in ServiceNames :
         HasToken(s) /\ ~link[TokenRow(s)].fresh /\ link' = Refreshed({s})
    /\ health' = "none"
    /\ UNCHANGED <<grants, revoked, callback, driveVars>>

(* Outside: access tokens expire, the owner revokes the app at Google, the *)
(* encryption key changes, a folder goes to the bin.                       *)
Lapse ==
    /\ \E s \in ServiceNames : Linked(s) /\ link[s].fresh
                               /\ link' = [link EXCEPT ![s].fresh = FALSE]
    /\ health' = "none"
    /\ UNCHANGED <<grants, revoked, callback, driveVars>>
Revoke ==
    /\ revoked < grants /\ revoked' = grants /\ health' = "none"
    /\ UNCHANGED <<grants, link, callback, driveVars>>
KeyChange ==
    /\ \E s \in ServiceNames : Linked(s) /\ link[s].readable
    /\ link' = [s \in ServiceNames |->
                  IF Linked(s) THEN [link[s] EXCEPT !.readable = FALSE]
                               ELSE NoLink]
    /\ health' = "none"
    /\ UNCHANGED <<grants, revoked, callback, driveVars>>
Trash ==
    /\ \/ \E f \in DOMAIN folders :
            /\ folders[f] /\ folders' = [folders EXCEPT ![f] = FALSE]
            /\ subfolders' = {s \in subfolders : s.root # f}
       \/ \E s \in subfolders :
            subfolders' = subfolders \ {s} /\ UNCHANGED folders
    /\ health' = "none"
    /\ UNCHANGED <<accountVars, root, made, recorded, building, unrecorded,
                   unseen>>
-----------------------------------------------------------------------------
(* What is_drive_folder_accessible can say yes to.  It says no to whatever *)
(* Google answers but 200, so that of the folders asked about any may seem *)
(* not to be there.                                                        *)
Accessible(f) ==
    Works("drive") /\ f \in DOMAIN folders /\ folders[f]
Answers200 == SUBSET {f \in {root, ConfiguredId} : Accessible(f)}

(* Mutant: a root that is stored is taken for accessible.                  *)
RootTrusted(seen) ==
    IF root # Nothing THEN <<root, TRUE>>
    ELSE IF Configured THEN <<ConfiguredId, ConfiguredId \in seen>>
    ELSE <<Nothing, FALSE>>

(* resolve_active_drive_root: the stored root, else the configured one,    *)
(* which then is stored; the folders seen are those answered with 200.     *)
Root(seen) ==
    IF root \in seen THEN <<root, TRUE>>
    ELSE IF Configured /\ ConfiguredId \in seen THEN <<ConfiguredId, TRUE>>
    ELSE IF root # Nothing THEN <<root, FALSE>>
    ELSE <<IF Configured THEN ConfiguredId ELSE Nothing, FALSE>>
RootStored(seen) == IF Root(seen)[2] THEN Root(seen)[1] ELSE root

(* A root that is in place is given up for another.                        *)
GivenUp(seen) ==
    root # Nothing /\ folders[root] /\ RootStored(seen) # root

(* Mutant: only the root that is stored is looked for.                     *)
StoredRoots == {f \in AppFolders : folders[f] /\ f = root}

(* _find_app_root_folder                                                   *)
AppRoots == {f \in AppFolders : folders[f]}

Building(folder, stored, records) ==
    [root |-> folder, stored |-> stored, records |-> records,
     left |-> Subfolders, map |-> NoSubfolders]

(* create_app_drive_root: a root of that name is reused before one is      *)
(* made, and stored in another step.  A search without an answer is taken  *)
(* for one that found nothing.                                             *)
CreateRoot ==
    /\ building = NotBuilding /\ Works("drive")
    /\ \/ /\ \E f \in AppRoots : building' = Building(f, FALSE, TRUE)
          /\ UNCHANGED <<folders, unseen>>
       \/ /\ Cardinality(AppFolders) < MaxFolders
          /\ \E answered \in BOOLEAN :
               /\ answered => AppRoots = {}
               /\ unseen' = (unseen \/ ~answered)
          /\ LET new == Cardinality(DOMAIN folders) + 1
             IN /\ building' = Building(new, FALSE, TRUE)
                /\ folders' = [f \in DOMAIN folders \union {new} |->
                                 IF f = new THEN TRUE ELSE folders[f]]
    /\ link' = Refreshed({"drive"}) /\ health' = "none"
    /\ UNCHANGED <<grants, revoked, callback, root, subfolders, made, recorded,
                   unrecorded>>

(* phase3_final_resolve_drive --bind: an active root, or the only one of   *)
(* that name.                                                              *)
BindRoot ==
    /\ building = NotBuilding /\ Works("drive")
    /\ \E seen \in Answers200 : \E f \in DOMAIN folders :
         /\ IF Root(seen)[2] THEN f = Root(seen)[1] ELSE AppRoots = {f}
         /\ building' = Building(f, FALSE, TRUE)
    /\ link' = Refreshed({"drive"}) /\ health' = "none"
    /\ UNCHANGED <<grants, revoked, callback, folders, root, subfolders, made,
                   recorded, unrecorded, unseen>>
StoreRoot ==
    /\ building # NotBuilding /\ ~building.stored
    /\ root' = building.root /\ building' = [building EXCEPT !.stored = TRUE]
    /\ unrecorded' = TRUE /\ health' = "none"
    /\ UNCHANGED <<accountVars, folders, subfolders, made, recorded, unseen>>

(* sync_drive_subfolders, also at the end of a callback, and the uploads,  *)
(* which look for the same folders but record nothing.                     *)
SyncSubfolders ==
    /\ building = NotBuilding
    /\ \E seen \in Answers200, records \in BOOLEAN :
         /\ Root(seen)[2]
         /\ building' = Building(Root(seen)[1], TRUE, records)
         /\ root' = RootStored(seen)
         /\ unrecorded' = (unrecorded \/ GivenUp(seen))
    /\ link' = Refreshed({"drive"}) /\ health' = "none"
    /\ UNCHANGED <<grants, revoked, callback, folders, subfolders, made,
                   recorded, unseen>>

(* ensure_drive_folder_tree, for one name.                                 *)
Found(name) == {s \in subfolders : s.root = building.root /\ s.name = name}
MakeSubfolder ==
    /\ building # NotBuilding /\ building.stored /\ building.left # <<>>
    /\ Works("drive")
    /\ LET name == Head(building.left)
           new == [id |-> made + 1, root |-> building.root, name |-> name]
           Takes(s) == building' = [building EXCEPT !.left = Tail(@),
                                                    !.map = Append(@, s)]
       IN \/ /\ \E s \in Found(name) : Takes(s)
             /\ UNCHANGED <<subfolders, made>>
          \/ /\ Found(name) = {} /\ made < MaxSubfolders
             /\ Takes(new) /\ made' = made + 1
             /\ subfolders' = IF folders[building.root]
                              THEN subfolders \union {new} ELSE subfolders
    /\ health' = "none"
    /\ UNCHANGED <<accountVars, folders, root, recorded, unrecorded, unseen>>
RecordSubfolders ==
    /\ building # NotBuilding /\ building.stored /\ building.left = <<>>
    /\ IF building.records
       THEN /\ recorded' = building.map
            /\ unrecorded' = (unrecorded /\ building.root # root)
       ELSE UNCHANGED <<recorded, unrecorded>>
    /\ building' = NotBuilding /\ health' = "none"
    /\ UNCHANGED <<accountVars, folders, root, subfolders, made, unseen>>

(* Google refuses a call, and the request ends where it was.               *)
BuildFails ==
    /\ building # NotBuilding /\ building' = NotBuilding
    /\ UNCHANGED <<accountVars, folders, root, subfolders, made, recorded,
                   unrecorded, unseen, health>>

(* evaluate_google_health.  A refresh that fails is reported as temporary: *)
(* what get_token raises is advice, which names none of the errors that    *)
(* are looked for.  The request fails if the row of Drive does not answer. *)
Report(seen) ==
    CASE ~Linked("google") -> "DISCONNECTED"
      [] Linked("google") /\ ~link["google"].readable -> "REAUTH_REQUIRED"
      [] Linked("google") /\ link["google"].readable /\ ~HasToken("google") ->
           "DEGRADED"
      [] OTHER -> IF ~HasToken("drive") THEN "ERROR"
                  ELSE IF Root(seen)[2] THEN "HEALTHY" ELSE "DEGRADED"
EvaluateHealth ==
    /\ \E seen \in Answers200 :
         /\ health' = Report(seen)
         /\ IF Linked("google") /\ link["google"].readable /\ HasToken("google")
            THEN /\ link' = Refreshed({"google", "drive"})
                 /\ root' = RootStored(seen)
                 /\ unrecorded' = (unrecorded \/ GivenUp(seen))
            ELSE UNCHANGED <<link, root, unrecorded>>
    /\ UNCHANGED <<grants, revoked, callback, folders, subfolders, made,
                   recorded, building, unseen>>

AccountNext ==
    \/ Consent \/ SaveToken \/ Disconnect \/ Refresh \/ Lapse \/ KeyChange
(* What concerns the account and the folders both.                         *)
SharedNext == Crash \/ Trash \/ Revoke \/ EvaluateHealth
DriveNext ==
    \/ SharedNext
    \/ CreateRoot \/ BindRoot \/ StoreRoot \/ BuildFails
    \/ SyncSubfolders \/ MakeSubfolder \/ RecordSubfolders
LinksSpec == GoogleInit /\ [][AccountNext \/ DriveNext]_linkVars
-----------------------------------------------------------------------------
(* When health is reported good, Google has accepted the token of Drive    *)
(* and the root folder is there.  Gmail, which is not asked, then works    *)
(* too, also after callbacks that were cut off between two services: if    *)
(* its token can be renewed and Drive has a token of its own               *)
(* (google_health.py:41-207).                                              *)
HealthyMeansUsable ==
    health = "HEALTHY" =>
      /\ Works("drive") /\ folders[root]
      /\ Linked("drive") /\ link["drive"].readable
           /\ link[TokenRow("gmail")].refresh => Works("gmail")

(* subfolders_complete of phase4_final_validate: those recorded are there. *)
Complete ==
    recorded # NoSubfolders /\ Works("drive")
    /\ \A i \in DOMAIN recorded : recorded[i] \in subfolders

(* The design keeps one root folder of the application, and uses the one   *)
(* that exists (docs/Program/R2-Execution-Pack/06, line 21).               *)
ExistingRootIsUsed ==
    \A f, g \in AppFolders : folders[f] /\ folders[g] => f = g

(* However often the building of folders is cut off between Drive and the  *)
(* settings and tried again, one root folder of that name is in place      *)
(* unless a search for it got no answer, and always one subfolder of each  *)
(* name under each root (drive_settings.py:75-90, google_api.py:496-523).  *)
(* When the recorded subfolders are all there, they are those of the       *)
(* active root, also after the root fell back to the configured one: but   *)
(* for a request that was cut off after it stored a root, and a root in    *)
(* place that Google did not answer for (drive_settings.py:56, 108-115),   *)
(* until subfolders are recorded again.                                    *)
OneOfEachFolder ==
    /\ ~unseen => ExistingRootIsUsed
    /\ \A s, t \in subfolders : s.root = t.root /\ s.name = t.name => s = t
    /\ Complete /\ ~unrecorded =>
         /\ \A i \in DOMAIN recorded : recorded[i].root = root
         /\ [i \in DOMAIN recorded |-> recorded[i].name] = Subfolders
=============================================================================
