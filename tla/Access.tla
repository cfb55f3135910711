-------------------------------- MODULE Access --------------------------------
(***************************************************************************)
(* Accounts and the login page: first-run setup, users an administrator    *)
(* creates and deletes, grants of a pipeline to developers, logins and the *)
(* throttle that counts failed ones per client (src/app/routes/auth_routes *)
(* .py, users_routes.py, pipeline_routes.py, src/app/login_throttle.py,    *)
(* src/app/cli.py).                                                        *)
(*                                                                         *)
(* Requests run in a thread pool with a database session each; a read and  *)
(* the commit that relies on it are two actions.  The throttle's row is    *)
(* the row of one client; time is what is left of its ban.                 *)
(***************************************************************************)
EXTENDS Naturals, FiniteSets

CONSTANTS
  Forms,          \* request threads for setup and the users page
  Logins,         \* request threads for the login form, of one client
  MaxUsers,       \* bound: ids of users are 1..MaxUsers
  FAILS_PER_BAN,  \* failed logins that trip a ban
  MAX_BAN_LEVEL   \* bans grow up to this level

ASSUME LoginsAssumption == IsFiniteSet(Logins)
ASSUME UsersAssumption == MaxUsers \in Nat \ {0}
ASSUME ThrottleAssumption == FAILS_PER_BAN \in Nat \ {0} /\ MAX_BAN_LEVEL \in Nat \ {0}

UserIds == 1..MaxUsers
Roles == {"admin", "operator", "developer"}

VARIABLES
  role,     \* users by id: "none" where there is no row
  grants,   \* users with a pipeline_access row of the pipeline
  form,     \* the setup and users requests: where they are, who asks, about whom
  throttle, \* the client's login_throttle row
  login,    \* the login requests: where they are, the row as they read it
  cleared,  \* history: has a success deleted the row since no login was in flight?
  bans,     \* history: bans that began since no login was in flight, at most 2
  setUp,    \* history: has an administrator been created?
  crossed,  \* history: was a user deleted while a request of theirs was under way?
  guesses   \* history: wrong passwords since the row was cleared or last set a ban

accounts == <<role, grants, form, setUp, crossed>>
logins == <<throttle, login, cleared, bans, guesses>>
vars == <<role, grants, form, throttle, login, cleared, bans, setUp, crossed, guesses>>

Exists(u) == role[u] # "none"
Admins == {u \in UserIds : role[u] = "admin"}

\* SQLite gives a new row the largest id in use plus one.
NextId(u) == /\ ~Exists(u)
             /\ \A v \in UserIds : Exists(v) => v < u
             /\ u - 1 \in {0} \union {v \in UserIds : Exists(v)}

NoForm == [at |-> "idle", self |-> 0, target |-> 0]

AddUser(u, r) ==
  /\ NextId(u)
  /\ role' = [role EXCEPT ![u] = r]
  /\ setUp' = (setUp \/ r = "admin")

-----------------------------------------------------------------------------
(* Setup, the users page, the command line.                                *)

\* setup_post: count() is 0.
BeginSetup(q) ==
  /\ form[q].at = "idle" /\ \A u \in UserIds : ~Exists(u)
  /\ form' = [form EXCEPT ![q].at = "setup"]
  /\ UNCHANGED <<role, grants, setUp, crossed, logins>>

\* The commit does not look again: two setups with two names both succeed,
\* with one name the second is an IntegrityError.
FinishSetup(q) ==
  /\ form[q].at = "setup"
  /\ \/ \E u \in UserIds : AddUser(u, "admin")
     \/ setUp /\ UNCHANGED <<role, setUp>>
  /\ form' = [form EXCEPT ![q] = NoForm]
  /\ UNCHANGED <<grants, crossed, logins>>

\* The middleware loads the session's user and require_admin looks at it.
BeginAdmin(q, u) ==
  /\ form[q].at = "idle" /\ role[u] = "admin"
  /\ form' = [form EXCEPT ![q] = [at |-> "admin", self |-> u, target |-> 0]]
  /\ UNCHANGED <<role, grants, setUp, crossed, logins>>

\* users_create; a name that is taken, or an invalid form, changes nothing.
CreateUser(q) ==
  /\ form[q].at = "admin"
  /\ \/ \E u \in UserIds, r \in Roles : AddUser(u, r)
     \/ UNCHANGED <<role, setUp>>
  /\ form' = [form EXCEPT ![q] = NoForm]
  /\ UNCHANGED <<grants, crossed, logins>>

\* Fault: one may delete oneself.
ReadAnyTarget(q, t) ==
  /\ form[q].at = "admin" /\ Exists(t)
  /\ form' = [form EXCEPT ![q].at = "delete", ![q].target = t]
  /\ UNCHANGED <<role, grants, setUp, crossed, logins>>

\* users_delete: the target is there and is not who asks.
ReadTarget(q, t) ==
  /\ form[q].at = "admin" /\ Exists(t) /\ t # form[q].self
  /\ form' = [form EXCEPT ![q].at = "delete", ![q].target = t]
  /\ UNCHANGED <<role, grants, setUp, crossed, logins>>

\* A grant's user_id cannot become NULL: the commit of the deletion is then
\* refused, and the page says that the name is in use.
DeleteRefused(q) ==
  /\ form[q].at = "delete" /\ form[q].target \in grants
  /\ form' = [form EXCEPT ![q] = NoForm]
  /\ UNCHANGED <<role, grants, setUp, crossed, logins>>

\* db.delete(target); db.commit().
DeleteUser(q) ==
  /\ form[q].at = "delete" /\ form[q].target \notin grants
  /\ role' = [role EXCEPT ![form[q].target] = "none"]
  /\ crossed' = (crossed \/ \E p \in Forms \ {q} : form[p].self = form[q].target)
  /\ form' = [form EXCEPT ![q] = NoForm]
  /\ UNCHANGED <<grants, setUp, logins>>

\* cmd_create_admin, beside the running server.
CreateAdmin ==
  /\ \E u \in UserIds : AddUser(u, "admin")
  /\ UNCHANGED <<grants, form, crossed, logins>>

\* pipeline_access_grant: the user id comes from a page that may be old.
Grant(u) ==
  /\ \E v \in UserIds : role[v] \in {"admin", "operator"}
  /\ u \notin grants
  /\ grants' = grants \union {u}
  /\ UNCHANGED <<role, form, setUp, crossed, logins>>

Revoke(u) ==
  /\ \E v \in UserIds : role[v] \in {"admin", "operator"}
  /\ u \in grants
  /\ grants' = grants \ {u}
  /\ UNCHANGED <<role, form, setUp, crossed, logins>>

-----------------------------------------------------------------------------
(* The login form and its throttle.                                        *)

NoRow == [fails |-> 0, level |-> 0, ban |-> 0, row |-> FALSE]

Banned == throttle.ban > 0

NoLogin == [at |-> "idle", seen |-> NoRow]

InFlight == {l \in Logins : login[l].at # "idle"}

At(l, s) == login' = [login EXCEPT ![l].at = s]

\* The request ends; what it read is gone with its session.  It has deleted
\* the row, or begun a ban, or neither.
EndLogin(l, clears, begins) ==
  /\ login' = [login EXCEPT ![l] = NoLogin]
  /\ cleared' = (InFlight # {l} /\ (cleared \/ clears))
  /\ bans' = IF InFlight = {l} THEN 0 ELSE IF begins /\ bans < 2 THEN bans + 1 ELSE bans

\* Fault: the ban is not looked at.
CheckNothing(l) ==
  /\ login[l].at = "idle"
  /\ At(l, "checked")
  /\ UNCHANGED <<accounts, throttle, cleared, bans, guesses>>

\* check: a banned client gets its answer here.
Check(l) ==
  /\ login[l].at = "idle" /\ ~Banned
  /\ At(l, "checked")
  /\ UNCHANGED <<accounts, throttle, cleared, bans, guesses>>

\* verify_password.
Verify(l) ==
  /\ login[l].at = "checked"
  /\ \/ (\E u \in UserIds : Exists(u)) /\ At(l, "right") /\ UNCHANGED guesses
     \/ At(l, "wrong") /\ guesses' = guesses + 1
  /\ UNCHANGED <<accounts, throttle, cleared, bans>>

\* record_success: the client's row is deleted, with whatever it says by now.
RecordSuccess(l) ==
  /\ login[l].at = "right"
  /\ throttle' = NoRow
  /\ guesses' = 0
  /\ EndLogin(l, TRUE, FALSE)
  /\ UNCHANGED accounts

\* record_failure, first half: db.get.
ReadRow(l) ==
  /\ login[l].at = "wrong"
  /\ login' = [login EXCEPT ![l].at = "count", ![l].seen = throttle]
  /\ UNCHANGED <<accounts, throttle, cleared, bans, guesses>>

\* Fault: after the longest ban comes the shortest one.
TripAnew(seen) ==
  LET level == IF seen.level < MAX_BAN_LEVEL THEN seen.level + 1 ELSE 1
  IN throttle' = [throttle EXCEPT !.row = TRUE, !.fails = 0, !.level = level, !.ban = level] /\ guesses' = 0

\* The level and the end of the ban, from the level that was read; a column
\* that does not change is not written.
Trip(seen) ==
  /\ throttle' = [throttle EXCEPT
       !.row = TRUE,
       !.fails = 0,
       !.level = IF seen.level < MAX_BAN_LEVEL THEN seen.level + 1 ELSE @,
       !.ban = IF seen.level < MAX_BAN_LEVEL THEN seen.level + 1 ELSE MAX_BAN_LEVEL]
  /\ guesses' = 0

\* Fault: the failures are counted once for all requests that overlap.
CountNothing(seen) ==
  throttle' = [throttle EXCEPT !.fails = seen.fails, !.row = TRUE]

Count(seen) ==
  throttle' = [throttle EXCEPT !.fails = seen.fails + 1, !.row = TRUE]

\* The failure that was counted is the last one before a ban.
Last(seen) == seen.fails + 1 >= FAILS_PER_BAN

\* record_failure, second half: the counter that was read, plus one, replaces
\* the row's.  A row another request has inserted, or deleted, meanwhile makes
\* the commit fail and the attempt uncounted.
RecordFailure(l) ==
  LET seen == login[l].seen IN
  /\ login[l].at = "count"
  /\ \/ seen.row # throttle.row /\ UNCHANGED <<throttle, guesses>>
     \/ seen.row = throttle.row /\ Last(seen) /\ Trip(seen)
     \/ seen.row = throttle.row /\ ~Last(seen) /\ Count(seen) /\ UNCHANGED guesses
  /\ EndLogin(l, FALSE, seen.row = throttle.row /\ Last(seen))
  /\ UNCHANGED accounts

\* Time passes.  A ban outlives every request that had passed its check when
\* the ban began: the shortest is ten minutes.
Tick ==
  /\ Banned /\ InFlight = {}
  /\ throttle' = [throttle EXCEPT !.ban = @ - 1]
  /\ UNCHANGED <<accounts, login, cleared, bans, guesses>>

-----------------------------------------------------------------------------
Init ==
  /\ role = [u \in UserIds |-> "none"]
  /\ grants = {}
  /\ form = [q \in Forms |-> NoForm]
  /\ throttle = NoRow
  /\ login = [l \in Logins |-> NoLogin]
  /\ cleared = FALSE
  /\ bans = 0
  /\ setUp = FALSE
  /\ crossed = FALSE
  /\ guesses = 0

LoginStep(l) == Verify(l) \/ RecordSuccess(l) \/ ReadRow(l) \/ RecordFailure(l)

AccountNext ==
  \/ \E q \in Forms : BeginSetup(q) \/ FinishSetup(q) \/ CreateUser(q) \/ DeleteRefused(q) \/ DeleteUser(q)
  \/ \E q \in Forms, u \in UserIds : BeginAdmin(q, u) \/ ReadTarget(q, u)
  \/ CreateAdmin
  \/ \E u \in UserIds : Grant(u) \/ Revoke(u)

LoginNext == (\E l \in Logins : Check(l) \/ LoginStep(l)) \/ Tick

Next == AccountNext \/ LoginNext

Spec == Init /\ [][Next]_vars

\* The server finishes the requests it has accepted, and the clock goes on.
FairSpec == Spec /\ WF_vars(Tick) /\ \A l \in Logins : WF_vars(LoginStep(l))

-----------------------------------------------------------------------------
ThrottleRows == [fails : 0..(FAILS_PER_BAN - 1), level : 0..MAX_BAN_LEVEL,
                 ban : 0..MAX_BAN_LEVEL, row : BOOLEAN]

TypeOK ==
  /\ role \in [UserIds -> Roles \union {"none"}]
  /\ grants \subseteq UserIds
  /\ form \in [Forms -> [at : {"idle", "setup", "admin", "delete"},
                         self : UserIds \union {0}, target : UserIds \union {0}]]
  /\ throttle \in ThrottleRows
  /\ login \in [Logins -> [at : {"idle", "checked", "right", "wrong", "count"},
                          seen : ThrottleRows]]
  /\ cleared \in BOOLEAN
  /\ bans \in 0..2
  /\ setUp \in BOOLEAN
  /\ crossed \in BOOLEAN
  /\ guesses \in Nat

\* Once there was an administrator there always is one (users_routes.py:64:
\* "admin count can never drop below 1"), unless an administrator is deleted
\* while a request of theirs, which may be deleting the other one, is going on.
AdminRemains == setUp /\ ~crossed => Admins # {}

\* The passwords that a request which has read a count of s may still let through.
\* The last count before a ban: none, its commit begins the ban.  Otherwise it
\* sets the row to s + 1 however far others have counted meanwhile, and each
\* request, itself among them, may start again from there.
LetThrough[s \in 0..(FAILS_PER_BAN - 1)] ==
  IF s = FAILS_PER_BAN - 1 THEN 0 ELSE 1 + Cardinality(Logins) * LetThrough[s + 1]

\* The throttle bounds the passwords a client may try between two bans even if
\* its requests overlap and overwrite each other's counts (with two of them,
\* at most eight wrong ones instead of three): a count that is set back was
\* read before, and each request in flight holds one.
GuessesBounded == guesses <= Cardinality(Logins) * (1 + LetThrough[0])

\* A failed login, although it writes what it computed from an earlier read,
\* never lifts a ban; and it reduces neither the level of the client nor what
\* is left of its ban, unless the row was deleted or a second ban began while
\* logins were in flight (then the last of them to write decides).
BansOnlyGrow ==
  [][\A l \in Logins : RecordFailure(l) =>
       /\ Banned => Banned'
       /\ ~cleared /\ bans < 2 =>
            throttle'.level >= throttle.level /\ throttle'.ban >= throttle.ban]_vars

\* Every ban ends, even if the client goes on trying all the time.
BanEnds == Banned ~> ~Banned

=============================================================================
