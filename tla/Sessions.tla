------------------------------ MODULE Sessions ------------------------------
(***************************************************************************)
(* Sign-in and application sessions (services/sessions.py,                 *)
(* services/local_auth.py, routers/auth.py, dependencies.py).  A request   *)
(* reads its session's row, and writes columns of it in a later commit;    *)
(* other requests commit in between.                                       *)
(***************************************************************************)
EXTENDS Naturals, FiniteSets

CONSTANTS
    Requests, Tokens,
    Owner, Stray,               \* the configured account and the test one
    Remember, Short,            \* REMEMBER_ME_DAYS, SHORT_SESSION_HOURS
    MaxTime                     \* bound on the clock

ASSUME LifetimeAssumption ==
    {Remember, Short} \subseteq Nat \ {0} /\ Owner # Stray

VARIABLES
    session,        \* token -> row of user_sessions
    users,          \* account -> "none", "active" or "inactive"
    clock,
    request,        \* request -> what it is doing
    ended           \* tokens whose end somebody has been told of

sessionVars == <<session, users, clock, request, ended>>

NoSession == [user |-> "none"]
Idle == [at |-> "idle"]
Rows == {t \in Tokens : session[t] # NoSession}
Accounts == {Owner, Stray}

NewSession(account, remember, now) ==
    [user |-> account, remember |-> remember, created |-> now, used |-> now,
     expires |-> now + (IF remember THEN Remember ELSE Short),
     revoked |-> FALSE]

(* An empty database, or one that the test account has been signed in to   *)
(* before it became the owner's.                                           *)
SessionsInit ==
    /\ clock = 0
    /\ \/ /\ users = [a \in Accounts |-> "none"]
          /\ session = [t \in Tokens |-> NoSession]
       \/ /\ users = [a \in Accounts |-> IF a = Stray THEN "active" ELSE "none"]
          /\ \E old \in Tokens :
               session = [t \in Tokens |-> IF t = old THEN NewSession(Stray, TRUE, 0)
                                          ELSE NoSession]
    /\ request = [r \in Requests |-> Idle]
    /\ ended = {}

Goes(r, what) == request' = [request EXCEPT ![r] = what]
-----------------------------------------------------------------------------
(* get_user_for_session_token, the query.  What the request saw is kept.   *)
Lookup(r, t, purpose) ==
    /\ request[r] = Idle
    /\ session[t] # NoSession /\ ~session[t].revoked
    /\ Goes(r, [at |-> IF session[t].expires <= clock THEN "expire" ELSE "touch",
                token |-> t, seen |-> session[t], time |-> clock,
                purpose |-> purpose, late |-> t \in ended])
    /\ UNCHANGED <<session, users, clock, ended>>

(* Its row is expired: it is revoked, and the request refused.             *)
Expire(r) ==
    /\ request[r].at = "expire"
    /\ session' = IF session[request[r].token] = NoSession THEN session
                  ELSE [session EXCEPT ![request[r].token].revoked = TRUE]
    /\ ended' = ended \union {request[r].token}
    /\ Goes(r, Idle)
    /\ UNCHANGED <<users, clock>>

(* Mutant: the row is written as it was read.                              *)
TouchedWhole(row, seen, time) ==
    [seen EXCEPT !.used = time,
                 !.expires = IF seen.remember THEN time + Remember ELSE @]

(* Only the columns that changed are written, the expiry of a remembered   *)
(* session among them.                                                     *)
Touched(row, seen, time) ==
    [row EXCEPT !.used = time,
                !.expires = IF seen.remember THEN time + Remember ELSE @]

(* A row deleted meanwhile fails the request; an account that is not       *)
(* active any more refuses it.                                             *)
Touch(r) ==
    LET t == request[r].token
        known == session[t] # NoSession /\ users[session[t].user] = "active"
    IN /\ request[r].at = "touch"
       /\ session' = IF session[t] = NoSession THEN session
                     ELSE [session EXCEPT ![t] = Touched(@, request[r].seen,
                                                         request[r].time)]
       /\ Goes(r, IF known THEN [request[r] EXCEPT !.at = "entered"] ELSE Idle)
       /\ UNCHANGED <<users, clock, ended>>

Leave(r) ==
    /\ request[r].at = "entered" /\ request[r].purpose = "use"
    /\ Goes(r, Idle)
    /\ UNCHANGED <<session, users, clock, ended>>

(* logout, revoke_session_token                                            *)
Logout(r) ==
    /\ request[r].at = "entered" /\ request[r].purpose = "logout"
    /\ session' = IF session[request[r].token] = NoSession THEN session
                  ELSE [session EXCEPT ![request[r].token].revoked = TRUE]
    /\ ended' = ended \union {request[r].token}
    /\ Goes(r, Idle)
    /\ UNCHANGED <<users, clock>>
-----------------------------------------------------------------------------
Signing(r, account) ==
    Goes(r, [at |-> "clean", account |-> account,
             stale |-> {t \in Rows : ~session[t].revoked
                                     /\ session[t].expires <= clock}])

(* login: the password has been verified; whether the account is active is *)
(* not asked.  The test account is refused on the owner's database.        *)
Login(r) ==
    /\ request[r] = Idle
    /\ users[Owner] # "none"
    /\ Signing(r, Owner)
    /\ UNCHANGED <<session, users, clock, ended>>

(* setup_admin, for the first account of the database.                     *)
SetupAdmin(r) ==
    /\ request[r] = Idle
    /\ \A a \in Accounts : users[a] = "none"
    /\ users' = [users EXCEPT ![Owner] = "active"]
    /\ Signing(r, Owner)
    /\ UNCHANGED <<session, clock, ended>>

(* deactivate_stray_e2e_user, then ensure_configured_owner: an owner that   *)
(* is not there yet is made if the environment has a password for it.      *)
StrayOut ==
    /\ session' = [t \in Tokens |->
                     IF session[t].user = Stray THEN NoSession ELSE session[t]]
    /\ ended' = ended \union {t \in Rows : session[t].user = Stray}
OwnerEnsured ==
    \E made \in BOOLEAN :
      users' = [a \in Accounts |->
                  IF a = Owner /\ (made \/ users[a] # "none") THEN "active"
                  ELSE IF users[a] = "none" THEN "none" ELSE "inactive"]

LocalAdminLogin(r) ==
    /\ request[r] = Idle
    /\ StrayOut /\ OwnerEnsured
    /\ IF users'[Owner] = "none" THEN UNCHANGED request ELSE Signing(r, Owner)
    /\ UNCHANGED clock

(* bootstrap_admin_from_env, when the process comes up again.              *)
Restart ==
    /\ StrayOut /\ OwnerEnsured
    /\ request' = [r \in Requests |-> Idle]
    /\ UNCHANGED clock

(* cleanup_expired_sessions writes what it has selected.                   *)
Clean(r) ==
    /\ request[r].at = "clean"
    /\ session' = [t \in Tokens |->
                     IF t \in request[r].stale \intersect Rows
                     THEN [session[t] EXCEPT !.revoked = TRUE] ELSE session[t]]
    /\ ended' = ended \union request[r].stale
    /\ Goes(r, [at |-> "issue", account |-> request[r].account])
    /\ UNCHANGED <<users, clock>>

(* create_session                                                          *)
Issue(r) ==
    /\ request[r].at = "issue"
    /\ \E t \in Tokens \ Rows, remember \in BOOLEAN :
         /\ t \notin ended
         /\ session' = [session EXCEPT ![t] =
                          NewSession(request[r].account, remember, clock)]
    /\ Goes(r, Idle)
    /\ UNCHANGED <<users, clock, ended>>

Tick ==
    /\ clock < MaxTime /\ clock' = clock + 1
    /\ UNCHANGED <<session, users, request, ended>>

SessionsNext ==
    \/ \E r \in Requests :
         \/ \E t \in Tokens, p \in {"use", "logout"} : Lookup(r, t, p)
         \/ Expire(r) \/ Touch(r) \/ Leave(r) \/ Logout(r) \/ Login(r)
         \/ SetupAdmin(r) \/ LocalAdminLogin(r) \/ Clean(r) \/ Issue(r)
    \/ Restart \/ Tick

SessionsSpec == SessionsInit /\ [][SessionsNext]_sessionVars
-----------------------------------------------------------------------------
(* A request enters only with a session that is alive: none whose logout  *)
(* or expiry had been answered before the request came, whatever requests  *)
(* were touching that session at the time; and time ends sessions, one not *)
(* remembered a fixed time after sign-in however much it is used, a        *)
(* remembered one when it was not used for that long (sessions.py:52-95).  *)
OnlyLiveSessionsEnter ==
    \A r \in Requests : request[r].at = "entered" =>
      /\ ~request[r].late
      /\ request[r].time < (IF request[r].seen.remember
                            THEN request[r].seen.used + Remember
                            ELSE request[r].seen.created + Short)
=============================================================================
