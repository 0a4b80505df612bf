--------------------------- MODULE DatabaseIdentity ---------------------------
(***************************************************************************)
(* Which database a process may work on: the connection guard of the       *)
(* application (services/database_identity.py), the preflights of the      *)
(* privileged helpers (owner_database_identity_preflight.py,               *)
(* recovery_database_identity_preflight.py) and the roles that             *)
(* scripts/provision_database_roles.py creates.                            *)
(***************************************************************************)
EXTENDS Inputs

CONSTANTS
    Hosts, Ports,       \* what database URLs may name
    Uuids               \* identities

Purposes == {"OWNER", "CI", "E2E", "RECOVERY", "OWNER_CANDIDATE"}
DatabasesOf == [OWNER |-> {"career_os"}, CI |-> {"career_os"},
                E2E |-> {"career_os_e2e", "career_os_test"},
                RECOVERY |-> {"career_os_recovery"},
                OWNER_CANDIDATE |-> {"career_os_owner_candidate"}]
StackOf == [OWNER |-> "owner", CI |-> "owner", E2E |-> "e2e",
            RECOVERY |-> "recovery", OWNER_CANDIDATE |-> "candidate"]

(* A user is the stack it is provisioned for and what it may do there; the *)
(* recovery databases are on the owner's server and have its bootstrap     *)
(* user.                                                                   *)
Users == ({"owner", "e2e", "recovery", "candidate"} \X {"runtime", "migrate"})
         \union ({"owner", "e2e"} \X {"bootstrap"})
Bootstrap(purpose) == IF purpose = "E2E" THEN <<"e2e", "bootstrap">>
                                         ELSE <<"owner", "bootstrap">>
RoleOn(purpose, kind) == <<StackOf[purpose], kind>>
Urls == [db : UNION {DatabasesOf[p] : p \in Purposes} \union {"postgres"},
         user : Users, host : Hosts, port : Ports]

(* Mutant: a migration role of one's own stack opens any database.         *)
MigratingAnywhere(purpose, u) == u.user = RoleOn(purpose, "migrate")
Migrating(purpose, u) ==
    u.db \in DatabasesOf[purpose] /\ u.user = RoleOn(purpose, "migrate")

(* The early returns, for users that set a database up.                    *)
SettingUp(purpose, u) ==
    /\ purpose \in {"E2E", "RECOVERY", "OWNER_CANDIDATE"}
    /\ u.db \in DatabasesOf[purpose]
    /\ u.user \in {RoleOn(purpose, "migrate"), Bootstrap(purpose)}

(* The hosts are looked at last, and only for users at run time.           *)
Running(purpose, u) ==
    /\ u.db \in DatabasesOf[purpose] /\ u.user = RoleOn(purpose, "runtime")
    /\ ~(purpose = "OWNER" /\ u.host \in {"postgres-e2e", "127.0.0.1"} /\ u.port = 5433)
    /\ ~(purpose = "E2E" /\ u.host = "postgres")

(* assert_connection_matches_identity                                      *)
AcceptsConnection(purpose, u) ==
    SettingUp(purpose, u) \/ Migrating(purpose, u) \/ Running(purpose, u)

(* validate_database_identity_marker: markers are the rows of the table.   *)
AcceptsMarker(purpose, uuid, markers) ==
    markers = {[purpose |-> purpose, uuid |-> uuid]}

(* validate_runtime_database, and validate_before_migration, which lets a  *)
(* database without a marker pass.                                         *)
MayRun(purpose, uuid, u, markers) ==
    AcceptsConnection(purpose, u) /\ AcceptsMarker(purpose, uuid, markers)
MayMigrate(purpose, uuid, runtime, markers) ==
    markers = {} \/ MayRun(purpose, uuid, runtime, markers)

(* assert_owner_target_metadata, validate_recovery_database_identity: the  *)
(* targets of the privileged helpers, who connect as bootstrap user.       *)
OwnerTarget(u) ==
    /\ u.db = "career_os" /\ u.port # 5433
    /\ u.host \in {"127.0.0.1", "localhost", "postgres"}
OwnerHelper(uuid, u, markers) ==
    OwnerTarget(u) /\ AcceptsMarker("OWNER", uuid, markers)
RecoveryTarget(purpose, u) ==
    purpose \in {"RECOVERY", "OWNER_CANDIDATE"} /\ u.db \in DatabasesOf[purpose]

(* _ensure_identity_marker, at the end of provisioning: a marker that is   *)
(* there is never replaced; another identity is refused.                   *)
Provisioned(purpose, uuid, markers) ==
    IF markers = {} THEN {[purpose |-> purpose, uuid |-> uuid]} ELSE markers
ProvisionPasses(purpose, uuid, markers) ==
    AcceptsMarker(purpose, uuid, Provisioned(purpose, uuid, markers))
-----------------------------------------------------------------------------
Markers == {{}} \union {{[purpose |-> p, uuid |-> i]} :
                          p \in Purposes, i \in Uuids}

AskIdentity ==
    \E u \in Urls, markers \in Markers :
      Given("identity", [url |-> u, markers |-> markers])
IdentitySpec == input = NoInput /\ [][AskIdentity]_input

(* A URL tells the purposes apart, but for the owner's and the build's,    *)
(* whatever user, host and port it names: the early returns for users that *)
(* set databases up open nothing to another purpose, and the helpers for   *)
(* the owner's database and for recovery have no target that a process of  *)
(* another purpose would accept.  A database with a marker is migrated and *)
(* provisioned for one identity only, and a helper that works on it shares *)
(* that identity with the application (database_identity.py:157-264).      *)
OneIdentityPerDatabase ==
    Is("identity") =>
      LET u == Asked.url
          markers == Asked.markers
      IN /\ \A p, q \in Purposes :
              AcceptsConnection(p, u) =>
                /\ AcceptsConnection(q, u) => (p = q \/ {p, q} = {"OWNER", "CI"})
                /\ OwnerTarget(u) => p \in {"OWNER", "CI"}
                /\ RecoveryTarget(q, u) => p = q
         /\ \A p, q \in Purposes, i, j \in Uuids :
              /\ markers # {} /\ MayMigrate(p, i, u, markers)
              /\ ProvisionPasses(q, j, markers)
              => p = q /\ i = j
         /\ \A p \in Purposes, i, j \in Uuids, user \in Users :
              /\ OwnerHelper(i, u, markers)
              /\ MayRun(p, j, [u EXCEPT !.user = user], markers)
              => p = "OWNER" /\ i = j
=============================================================================
