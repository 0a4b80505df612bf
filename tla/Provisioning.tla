----------------------------- MODULE Provisioning -----------------------------
(***************************************************************************)
(* Roles, grants and the marker of the owner's database                    *)
(* (scripts/provision_database_roles.py), among the migrations that create *)
(* its tables (alembic).  Provisioning commits statement by statement, may *)
(* die between two of them and is run again; the API's container migrates  *)
(* whenever it starts, also while provisioning runs.  Sequences, which have *)
(* their own grants beside those of the tables, are left out.              *)
(***************************************************************************)
EXTENDS Naturals, Sequences

CONSTANTS
    Versions,       \* number of migrations; each creates a table of its number
    MarkerVersion,  \* the one that creates aarohan_meta.database_identity
    Alters          \* migration -> earlier tables it alters

ASSUME VersionAssumption ==
    /\ Versions \in Nat /\ MarkerVersion \in 1..Versions
    /\ Alters \in [1..Versions -> SUBSET (1..Versions)]

VARIABLES
    roles,          \* roles that were created
    tables,         \* migration -> [owner, users] of its table
    schemas,        \* schemas that exist
    mayCreate,      \* where the migration role may create things
    usable,         \* schemas that runtime may use
    defaults,       \* <<creator, schema>> whose new tables runtime may use
    marker,         \* identity in the marker table
    provision,      \* statements left to a run of provisioning, and its fate
    prepared        \* history: a run passed, and nothing was done past it

provisionVars == <<roles, tables, schemas, mayCreate, usable, defaults, marker,
                   provision, prepared>>

SchemaOf(v) == IF v = MarkerVersion THEN "aarohan_meta" ELSE "public"
In(schema) == {v \in DOMAIN tables : SchemaOf(v) = schema}
NotProvisioning == [left |-> <<>>]
Provisions == provision # NotProvisioning

ProvisioningInit ==
    /\ roles = {} /\ tables = <<>> /\ schemas = {"public"}
    /\ mayCreate = {} /\ usable = {"public"}
    /\ defaults = {} /\ marker = "none"
    /\ provision = NotProvisioning /\ prepared = FALSE

Granted(users, schema) ==
    [v \in DOMAIN tables |->
       IF v \in In(schema) THEN [tables[v] EXCEPT !.users = @ \union users]
                           ELSE tables[v]]
-----------------------------------------------------------------------------
(* A migration commits as a whole or not at all.  The bootstrap user may   *)
(* do anything; the migration role needs alembic_version, the right to     *)
(* create, and to own what it alters.                                      *)
NextVersion == Len(tables) + 1
MigrateRoleMay ==
    /\ "migrate" \in roles
    /\ tables # <<>> => tables[1].owner = "migrate" \/ "migrate" \in tables[1].users
    /\ IF SchemaOf(NextVersion) \in schemas THEN SchemaOf(NextVersion) \in mayCreate
                                      ELSE "database" \in mayCreate
    /\ \A v \in Alters[NextVersion] : tables[v].owner = "migrate"

Migrate(role) ==
    /\ NextVersion <= Versions
    /\ role = "migrate" => MigrateRoleMay
    /\ LET served == <<role, SchemaOf(NextVersion)>> \in defaults
       IN /\ tables' = Append(tables, [owner |-> role,
                                       users |-> IF served THEN {"runtime"} ELSE {}])
          /\ provision' = IF Provisions
                          THEN [provision EXCEPT !.overtaken =
                                  @ \/ role = "bootstrap" \/ ~served]
                          ELSE provision
    /\ schemas' = schemas \union {SchemaOf(NextVersion)}
    /\ mayCreate' = IF role = "migrate"
                    THEN mayCreate \union {SchemaOf(NextVersion)} ELSE mayCreate
    /\ prepared' = (prepared /\ role = "migrate")
    /\ UNCHANGED <<roles, usable, defaults, marker>>

(* A cutover puts the candidate's database in place, with tables that the  *)
(* candidate's own roles were given; its marker may not be the one that    *)
(* the environment names.                                                  *)
CutOver ==
    /\ ~Provisions /\ Len(tables) >= MarkerVersion
    /\ tables' = [v \in DOMAIN tables |-> [owner |-> "candidate", users |-> {}]]
    /\ usable' = {"public"}
    /\ mayCreate' = {} /\ defaults' = {} /\ marker' \in {"mine", "other"}
    /\ prepared' = FALSE
    /\ UNCHANGED <<roles, schemas, provision>>
-----------------------------------------------------------------------------
(* provision_owner, statement by statement, but for those that give the    *)
(* migration role its rights on one schema.                                *)
Statements ==
    <<<<"role", "migrate">>, <<"role", "runtime">>,
      <<"create", "database">>, <<"create", "public">>, <<"create", "aarohan_meta">>,
      <<"reassign", "all">>,
      <<"usage", "public">>, <<"tables", "public">>, <<"default", "public">>,
      <<"usage", "aarohan_meta">>, <<"tables", "aarohan_meta">>,
      <<"default", "aarohan_meta">>,
      <<"schema", "aarohan_meta">>, <<"owner", "aarohan_meta">>,
      <<"usage", "aarohan_meta">>, <<"tables", "aarohan_meta">>,
      <<"all", "aarohan_meta">>, <<"default", "aarohan_meta">>,
      <<"marker", "aarohan_meta">>>>
Reaches(kind, on) == Provisions /\ Head(provision.left) = <<kind, on>>
After(n) == provision' = [provision EXCEPT
                            !.left = SubSeq(@, n + 1, Len(@))]
Done == After(1)

Provision ==
    /\ ~Provisions
    /\ provision' = [left |-> Statements, overtaken |-> FALSE]
    /\ UNCHANGED <<roles, tables, schemas, mayCreate, usable, defaults, marker,
                   prepared>>

EnsureRole ==
    \E role \in {"migrate", "runtime"} :
      /\ Reaches("role", role) /\ Done
      /\ roles' = roles \union {role}
      /\ UNCHANGED <<tables, schemas, mayCreate, usable, defaults, marker, prepared>>

(* _grant_migrate_privileges, on the database and the schemas that exist.  *)
GrantMigrate ==
    \E on \in {"database", "public", "aarohan_meta"} :
      /\ Reaches("create", on) /\ Done
      /\ IF on \in schemas \union {"database"}
         THEN mayCreate' = mayCreate \union {on} /\ tables' = Granted({"migrate"}, on)
         ELSE UNCHANGED <<mayCreate, tables>>
      /\ UNCHANGED <<roles, schemas, usable, defaults, marker, prepared>>

(* _reassign_application_objects: what the bootstrap user owns, one table  *)
(* after another.  A table the bootstrap user creates meanwhile is taken   *)
(* along here, not in the code; the run counts as overtaken then.          *)
Reassignable == {v \in DOMAIN tables : tables[v].owner = "bootstrap"}
Reassign ==
    /\ Reaches("reassign", "all")
    /\ IF Reassignable = {} THEN Done /\ UNCHANGED tables
       ELSE /\ \E v \in Reassignable :
                 tables' = [tables EXCEPT ![v].owner = "migrate"]
            /\ UNCHANGED provision
    /\ UNCHANGED <<roles, schemas, mayCreate, usable, defaults, marker, prepared>>

(* _grant_runtime_privileges passes over a schema that does not exist.     *)
GrantUsage ==
    \E schema \in {"public", "aarohan_meta"} :
      /\ Reaches("usage", schema)
      /\ IF schema \in schemas THEN Done /\ usable' = usable \union {schema}
                              ELSE After(3) /\ UNCHANGED usable
      /\ UNCHANGED <<roles, tables, schemas, mayCreate, defaults, marker, prepared>>

(* GRANT ... ON ALL TABLES IN SCHEMA: those there are.                     *)
GrantTables ==
    \E schema \in {"public", "aarohan_meta"} :
      /\ \/ Reaches("tables", schema) /\ tables' = Granted({"runtime"}, schema)
         \/ Reaches("all", schema) /\ tables' = Granted({"migrate"}, schema)
      /\ Done
      /\ UNCHANGED <<roles, schemas, mayCreate, usable, defaults, marker, prepared>>

(* Mutant: default privileges without FOR ROLE are those of the user who   *)
(* states them.                                                            *)
DefaultOfBootstrap(schema) == {<<"bootstrap", schema>>}
DefaultFor(schema) == {<<"migrate", schema>>}

(* ALTER DEFAULT PRIVILEGES FOR ROLE: those that will be.                  *)
SetDefault ==
    \E schema \in {"public", "aarohan_meta"} :
      /\ Reaches("default", schema) /\ Done
      /\ defaults' = defaults \union DefaultFor(schema)
      /\ UNCHANGED <<roles, tables, schemas, mayCreate, usable, marker, prepared>>

(* _ensure_meta_schema begins: the schema is created, then handed to the   *)
(* migration role.                                                         *)
EnsureMetaSchema ==
    /\ \/ /\ Reaches("schema", "aarohan_meta")
          /\ schemas' = schemas \union {"aarohan_meta"} /\ UNCHANGED mayCreate
       \/ /\ Reaches("owner", "aarohan_meta")
          /\ mayCreate' = mayCreate \union {"aarohan_meta"} /\ UNCHANGED schemas
    /\ Done
    /\ UNCHANGED <<roles, tables, usable, defaults, marker, prepared>>

(* _ensure_identity_marker: it fails without its table, and when another   *)
(* identity is there.                                                      *)
EnsureMarker ==
    /\ Reaches("marker", "aarohan_meta")
    /\ provision' = NotProvisioning
    /\ marker' = IF Len(tables) >= MarkerVersion /\ marker = "none"
                 THEN "mine" ELSE marker
    /\ prepared' = (prepared \/ (marker' = "mine" /\ ~provision.overtaken))
    /\ UNCHANGED <<roles, tables, schemas, mayCreate, usable, defaults>>

ProvisionKilled ==
    /\ Provisions /\ provision' = NotProvisioning
    /\ UNCHANGED <<roles, tables, schemas, mayCreate, usable, defaults, marker,
                   prepared>>

ProvisioningNext ==
    \/ Migrate("bootstrap") \/ Migrate("migrate") \/ CutOver
    \/ Provision \/ EnsureRole \/ GrantMigrate \/ Reassign \/ GrantUsage
    \/ GrantTables \/ SetDefault \/ EnsureMetaSchema \/ EnsureMarker \/ ProvisionKilled
ProvisioningSpec == ProvisioningInit /\ [][ProvisioningNext]_provisionVars
-----------------------------------------------------------------------------
(* Once a run of provisioning passed, after however many that died or      *)
(* failed, the application may use every table and its schema, also tables *)
(* of migrations that come later or while provisioning runs again, and the *)
(* marker is its own; the migration role owns every table but those the    *)
(* candidate brought along (provision_database_roles.py:83-260).  Two      *)
(* migrations take another run: one by the bootstrap user, and one that    *)
(* overtakes a run before the default privileges of its schema were ever   *)
(* set, perhaps after the tables of that schema were granted (196-213).    *)
PreparedForRuntime ==
    prepared =>
      /\ marker = "mine"
      /\ \A v \in DOMAIN tables :
           /\ SchemaOf(v) \in usable
           /\ "runtime" \in tables[v].users
           /\ tables[v].owner \in {"migrate", "candidate"}
=============================================================================
