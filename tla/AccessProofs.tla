----------------------------- MODULE AccessProofs -----------------------------
(***************************************************************************)
(* Proofs about Access, for every set of request threads and every bound:  *)
(* type correctness, that an administrator remains, that failed logins     *)
(* which overlap lift no ban and shorten none that is the first one to     *)
(* begin among them, that they cannot go on guessing between two bans, and *)
(* that a ban wears off.                                                   *)
(***************************************************************************)
EXTENDS Access, TLAPS, FiniteSetTheorems

-----------------------------------------------------------------------------
(* Type correctness.                                                       *)

\* What requests and rows may look like.
FormRecords == [at : {"idle", "setup", "admin", "delete"},
                self : UserIds \union {0}, target : UserIds \union {0}]
LoginRecords == [at : {"idle", "checked", "right", "wrong", "count"}, seen : ThrottleRows]

LEMMA Nothing == NoForm \in FormRecords /\ NoRow \in ThrottleRows /\ NoLogin \in LoginRecords
  <1>1. 0 \in 0..(FAILS_PER_BAN - 1) /\ 0 \in 0..MAX_BAN_LEVEL
    BY ThrottleAssumption
  <1>2. NoRow \in ThrottleRows
    BY <1>1 DEF NoRow, ThrottleRows
  <1>3. QED
    BY <1>2 DEF NoForm, FormRecords, NoLogin, LoginRecords

LEMMA InitTypes == Init => TypeOK
  <1> SUFFICES ASSUME Init PROVE TypeOK
    OBVIOUS
  <1>1. form \in [Forms -> FormRecords] /\ login \in [Logins -> LoginRecords] /\ throttle \in ThrottleRows
    BY Nothing DEF Init
  <1>2. role \in [UserIds -> Roles \union {"none"}] /\ grants \subseteq UserIds
    BY DEF Init
  <1>3. cleared \in BOOLEAN /\ setUp \in BOOLEAN /\ crossed \in BOOLEAN
    BY DEF Init
  <1>4. bans \in 0..2 /\ guesses \in Nat
    BY DEF Init
  <1>5. QED
    BY <1>1, <1>2, <1>3, <1>4 DEF TypeOK, FormRecords, LoginRecords

LEMMA AccountTypes ==
  ASSUME TypeOK, AccountNext
  PROVE  TypeOK'
  <1> USE DEF TypeOK
  <1>1. ASSUME UNCHANGED logins
        PROVE  throttle' \in ThrottleRows /\ login' \in [Logins -> LoginRecords]
               /\ cleared' \in BOOLEAN /\ bans' \in 0..2 /\ guesses' \in Nat
    BY <1>1 DEF logins, LoginRecords
  <1>2. ASSUME NEW u \in UserIds, NEW r \in Roles, AddUser(u, r)
        PROVE  role' \in [UserIds -> Roles \union {"none"}] /\ setUp' \in BOOLEAN
    BY <1>2 DEF AddUser
  <1>3. "admin" \in Roles
    BY DEF Roles
  <1>4. ASSUME NEW q \in Forms, BeginSetup(q) \/ FinishSetup(q) \/ CreateUser(q)
        PROVE  TypeOK'
    <2>1. form' \in [Forms -> FormRecords]
      BY <1>4, Nothing DEF BeginSetup, FinishSetup, CreateUser, FormRecords
    <2>2. role' \in [UserIds -> Roles \union {"none"}] /\ setUp' \in BOOLEAN
      BY <1>2, <1>3, <1>4 DEF BeginSetup, FinishSetup, CreateUser
    <2>3. UNCHANGED <<grants, crossed, logins>>
      BY <1>4 DEF BeginSetup, FinishSetup, CreateUser
    <2>4. QED
      BY <1>1, <2>1, <2>2, <2>3 DEF FormRecords, LoginRecords
  <1>5. ASSUME NEW q \in Forms, DeleteRefused(q) \/ DeleteUser(q)
        PROVE  TypeOK'
    <2>1. form' \in [Forms -> FormRecords]
      BY <1>5, Nothing DEF DeleteRefused, DeleteUser, FormRecords
    <2>2. QED
      BY <1>1, <1>5, <2>1 DEF DeleteRefused, DeleteUser, FormRecords, LoginRecords
  <1>6. ASSUME NEW q \in Forms, NEW u \in UserIds, BeginAdmin(q, u) \/ ReadTarget(q, u)
        PROVE  TypeOK'
    <2>1. form' \in [Forms -> FormRecords]
      BY <1>6 DEF BeginAdmin, ReadTarget, FormRecords
    <2>2. QED
      BY <1>1, <1>6, <2>1 DEF BeginAdmin, ReadTarget, FormRecords, LoginRecords
  <1>7. CASE CreateAdmin
    BY <1>1, <1>2, <1>3, <1>7 DEF CreateAdmin, FormRecords, LoginRecords
  <1>8. CASE \E u \in UserIds : Grant(u) \/ Revoke(u)
    BY <1>1, <1>8 DEF Grant, Revoke, FormRecords, LoginRecords
  <1>9. QED
    BY <1>4, <1>5, <1>6, <1>7, <1>8 DEF AccountNext

LEMMA EndTypes ==
  ASSUME TypeOK, NEW l \in Logins, NEW clears \in BOOLEAN, NEW begins \in BOOLEAN,
         EndLogin(l, clears, begins)
  PROVE  login' \in [Logins -> LoginRecords] /\ cleared' \in BOOLEAN /\ bans' \in 0..2
  <1>1. login' \in [Logins -> LoginRecords]
    BY Nothing DEF EndLogin, TypeOK, LoginRecords
  <1>2. cleared' \in BOOLEAN
    BY DEF EndLogin
  <1>3. bans' \in 0..2
    BY DEF EndLogin, TypeOK
  <1>4. QED
    BY <1>1, <1>2, <1>3

\* What record_failure writes is a row of the table: the counter stays below
\* the number that trips a ban, the level within its cap.
LEMMA FailureTypes ==
  ASSUME TypeOK, NEW l \in Logins, RecordFailure(l)
  PROVE  TypeOK'
  <1> USE DEF TypeOK
  <1> DEFINE seen == login[l].seen
  <1>1. seen \in ThrottleRows /\ throttle \in ThrottleRows
    OBVIOUS
  <1>3. ASSUME Last(seen), Trip(seen)
        PROVE  throttle' \in ThrottleRows /\ guesses' \in Nat
    <2>1. 0 \in 0..(FAILS_PER_BAN - 1) /\ MAX_BAN_LEVEL \in 0..MAX_BAN_LEVEL
      BY ThrottleAssumption
    <2>2. seen.level < MAX_BAN_LEVEL => seen.level + 1 \in 0..MAX_BAN_LEVEL
      BY <1>1, ThrottleAssumption DEF ThrottleRows
    <2>3. throttle' \in ThrottleRows
      BY <1>1, <1>3, <2>1, <2>2 DEF Trip, ThrottleRows
    <2>4. QED
      BY <1>3, <2>3 DEF Trip
  <1>4. ASSUME ~Last(seen), Count(seen), UNCHANGED guesses
        PROVE  throttle' \in ThrottleRows /\ guesses' \in Nat
    <2>1. seen.fails + 1 \in 0..(FAILS_PER_BAN - 1)
      BY <1>1, <1>4, ThrottleAssumption DEF ThrottleRows, Last
    <2>2. QED
      BY <1>1, <1>4, <2>1 DEF Count, ThrottleRows
  <1>5. throttle' \in ThrottleRows /\ guesses' \in Nat
    BY <1>1, <1>3, <1>4 DEF RecordFailure
  <1>6. login' \in [Logins -> LoginRecords] /\ cleared' \in BOOLEAN /\ bans' \in 0..2
    BY EndTypes DEF RecordFailure
  <1>7. QED
    BY <1>5, <1>6 DEF RecordFailure, accounts, LoginRecords

LEMMA LoginTypes ==
  ASSUME TypeOK, LoginNext
  PROVE  TypeOK'
  <1> USE DEF TypeOK, accounts
  <1>1. ASSUME NEW l \in Logins, Check(l) \/ Verify(l) \/ ReadRow(l)
        PROVE  TypeOK'
    BY <1>1 DEF Check, Verify, ReadRow, At
  <1>2. ASSUME NEW l \in Logins, RecordSuccess(l)
        PROVE  TypeOK'
    BY <1>2, Nothing, EndTypes DEF RecordSuccess, LoginRecords
  <1>3. CASE Tick
    BY <1>3, ThrottleAssumption DEF Tick, Banned, ThrottleRows
  <1>4. QED
    BY <1>1, <1>2, <1>3, FailureTypes DEF LoginNext, LoginStep

\* Every variable keeps its type; in particular the level of a ban stays at
\* most MAX_BAN_LEVEL and a counter that reaches FAILS_PER_BAN is never stored.
THEOREM TypeCorrect == Spec => []TypeOK
  <1>1. TypeOK /\ [Next]_vars => TypeOK'
    <2>1. TypeOK /\ UNCHANGED vars => TypeOK'
      BY DEF TypeOK, vars
    <2>2. QED
      BY <2>1, AccountTypes, LoginTypes DEF Next
  <1>2. QED
    BY InitTypes, <1>1, PTL DEF Spec

-----------------------------------------------------------------------------
(* An administrator remains.                                               *)

\* Until two administrators cross, who asks is an administrator.
AskersRemain == ~crossed => \A q \in Forms : form[q].at \in {"admin", "delete"} => form[q].self \in Admins

\* users_delete has compared the target with who asks.
NobodyDeletesThemselves == \A q \in Forms : form[q].at = "delete" => form[q].target # form[q].self

AdminInv == TypeOK /\ AskersRemain /\ NobodyDeletesThemselves /\ AdminRemains

LEMMA AdminStep ==
  ASSUME AdminInv, AccountNext
  PROVE  AdminInv'
  <1> USE DEF AdminInv, AskersRemain, NobodyDeletesThemselves, AdminRemains, Admins, NoForm
  <1>0. TypeOK'
    BY AccountTypes
  <1>1. ASSUME NEW u \in UserIds, NEW r \in Roles, AddUser(u, r)
        PROVE  Admins \subseteq Admins' /\ (r = "admin" => u \in Admins')
    BY <1>1 DEF AddUser, NextId, Exists, TypeOK
  <1>2. ASSUME NEW q \in Forms, BeginSetup(q) \/ FinishSetup(q) \/ CreateUser(q)
        PROVE  AdminInv'
    <2>1. Admins \subseteq Admins' /\ (setUp' => setUp \/ Admins' # {}) /\ crossed' = crossed
      BY <1>1, <1>2 DEF BeginSetup, FinishSetup, CreateUser, AddUser, TypeOK, Roles
    <2>2. \A p \in Forms : form'[p].at \in {"admin", "delete"} => form'[p] = form[p]
      BY <1>2 DEF BeginSetup, FinishSetup, CreateUser, TypeOK
    <2>3. QED
      BY <1>0, <2>1, <2>2
  <1>3. ASSUME NEW q \in Forms, DeleteUser(q)
        PROVE  AdminInv'
    <2>1. CASE crossed'
      BY <1>0, <1>3, <2>1 DEF DeleteUser, TypeOK
    <2>2. CASE ~crossed'
      <3>1. ~crossed /\ \A p \in Forms : form[p].at \in {"admin", "delete"} => form[p].self # form[q].target
        BY <1>3, <2>2 DEF DeleteUser
      <3>2. \A p \in Forms : form[p].at \in {"admin", "delete"} => form[p].self \in Admins'
        BY <1>3, <3>1 DEF DeleteUser, TypeOK
      <3>3. form[q].self \in Admins'
        BY <1>3, <3>2 DEF DeleteUser
      <3>4. QED
        BY <1>0, <1>3, <3>2, <3>3 DEF DeleteUser, TypeOK
    <2>3. QED
      BY <2>1, <2>2
  <1>4. ASSUME NEW q \in Forms, NEW u \in UserIds, BeginAdmin(q, u) \/ ReadTarget(q, u) \/ DeleteRefused(q)
        PROVE  AdminInv'
    BY <1>0, <1>4 DEF BeginAdmin, ReadTarget, DeleteRefused, TypeOK
  <1>5. CASE CreateAdmin
    BY <1>0, <1>1, <1>5 DEF CreateAdmin, AddUser, TypeOK, Roles
  <1>6. CASE \E u \in UserIds : Grant(u) \/ Revoke(u)
    BY <1>0, <1>6 DEF Grant, Revoke, TypeOK
  <1>7. UserIds # {}
    BY UsersAssumption DEF UserIds
  <1>8. QED
    BY <1>2, <1>3, <1>4, <1>5, <1>6, <1>7 DEF AccountNext

\* However many requests overlap, the administrators are all gone only after
\* one was deleted while a request of theirs was under way.
THEOREM AnAdminRemains == Spec => []AdminRemains
  <1>1. Init => AdminInv
    BY InitTypes DEF Init, AdminInv, AskersRemain, NobodyDeletesThemselves, AdminRemains, NoForm
  <1>2. AdminInv /\ [Next]_vars => AdminInv'
    <2>1. AdminInv /\ LoginNext => UNCHANGED <<role, form, setUp, crossed>>
      BY DEF LoginNext, LoginStep, Check, Verify, RecordSuccess, ReadRow, RecordFailure, Tick, accounts
    <2>2. AdminInv /\ LoginNext => AdminInv'
      BY <2>1, LoginTypes DEF AdminInv, AskersRemain, NobodyDeletesThemselves, AdminRemains, Admins
    <2>3. AdminInv /\ UNCHANGED vars => AdminInv'
      BY DEF vars, AdminInv, AskersRemain, NobodyDeletesThemselves, AdminRemains, Admins, TypeOK
    <2>4. QED
      BY <2>2, <2>3, AdminStep DEF Next
  <1>3. AdminInv => AdminRemains
    BY DEF AdminInv
  <1>4. QED
    BY <1>1, <1>2, <1>3, PTL DEF Spec

-----------------------------------------------------------------------------
(* Bans only grow.                                                         *)

\* Until the row is deleted or a second ban begins among the logins in flight,
\* each has read the level of the row, or the level before the ban that began.
ReadsAreClose ==
  ~cleared /\ bans < 2 =>
    /\ InFlight # {} => throttle.ban <= throttle.level
    /\ \A l \in Logins : login[l].at = "count" =>
         /\ login[l].seen.level <= throttle.level
         /\ throttle.level <= login[l].seen.level + bans

BanInv == TypeOK /\ ReadsAreClose

\* The numbers of a row.
LEMMA RowNumbers ==
  ASSUME NEW r \in ThrottleRows
  PROVE  r.level \in Nat /\ r.level <= MAX_BAN_LEVEL /\ r.ban \in Nat /\ r.ban <= MAX_BAN_LEVEL
  BY ThrottleAssumption DEF ThrottleRows

\* The level and the ban that a trip leaves.
LEMMA TripLevels ==
  ASSUME TypeOK, NEW seen \in ThrottleRows, Trip(seen)
  PROVE  /\ seen.level < MAX_BAN_LEVEL => throttle'.level = seen.level + 1 /\ throttle'.ban = seen.level + 1
         /\ ~(seen.level < MAX_BAN_LEVEL) => throttle'.level = throttle.level /\ throttle'.ban = MAX_BAN_LEVEL
  BY DEF Trip, TypeOK, ThrottleRows

\* What a failed login leaves is at least what it finds, if what it read is close.
LEMMA FailureGrows ==
  ASSUME BanInv, NEW l \in Logins, RecordFailure(l)
  PROVE  /\ Banned => Banned'
         /\ ~cleared /\ bans < 2 => throttle'.level >= throttle.level /\ throttle'.ban >= throttle.ban
  <1> DEFINE seen == login[l].seen
  <1>1. seen \in ThrottleRows /\ throttle \in ThrottleRows /\ bans \in 0..2
    BY DEF BanInv, TypeOK
  <1>2. /\ seen.level \in Nat /\ seen.level <= MAX_BAN_LEVEL /\ throttle.level \in Nat
        /\ throttle.level <= MAX_BAN_LEVEL /\ throttle.ban \in Nat /\ throttle.ban <= MAX_BAN_LEVEL
    BY <1>1, RowNumbers
  <1>3. login[l].at = "count" /\ InFlight # {}
    BY DEF RecordFailure, InFlight
  <1>4. CASE Trip(seen)
    <2>1. ASSUME ~cleared, bans < 2
          PROVE  throttle.level <= seen.level + 1 /\ throttle.ban <= throttle.level
      BY <1>1, <1>2, <1>3, <2>1 DEF BanInv, ReadsAreClose
    <2>2. CASE seen.level < MAX_BAN_LEVEL
      <3>1. throttle'.level = seen.level + 1 /\ throttle'.ban = seen.level + 1
        BY <1>1, <1>4, <2>2, TripLevels DEF BanInv
      <3>2. Banned'
        BY <1>2, <3>1 DEF Banned
      <3>3. QED
        BY <1>2, <2>1, <3>1, <3>2
    <2>3. CASE ~(seen.level < MAX_BAN_LEVEL)
      <3>1. throttle'.level = throttle.level /\ throttle'.ban = MAX_BAN_LEVEL
        BY <1>1, <1>4, <2>3, TripLevels DEF BanInv
      <3>2. Banned'
        BY <3>1, ThrottleAssumption DEF Banned
      <3>3. QED
        BY <1>2, <3>1, <3>2
    <2>4. QED
      BY <2>2, <2>3
  <1>5. CASE Count(seen) \/ UNCHANGED throttle
    <2>1. throttle'.level = throttle.level /\ throttle'.ban = throttle.ban
      BY <1>1, <1>5 DEF Count, ThrottleRows
    <2>2. QED
      BY <1>2, <2>1 DEF Banned
  <1>6. QED
    BY <1>4, <1>5 DEF RecordFailure

\* Logins that end: with the last of them the history begins anew.
LEMMA LastOneEnds ==
  ASSUME TypeOK, NEW l \in Logins, NEW clears \in BOOLEAN, NEW begins \in BOOLEAN,
         EndLogin(l, clears, begins)
  PROVE  /\ InFlight' = InFlight \ {l}
         /\ login'[l].at = "idle" /\ \A m \in Logins : m # l => login'[m] = login[m]
  BY DEF EndLogin, TypeOK, InFlight, NoLogin

LEMMA SuccessStaysClose ==
  ASSUME BanInv, NEW l \in Logins, RecordSuccess(l)
  PROVE  ReadsAreClose'
  <1>1. login[l].at = "right" /\ EndLogin(l, TRUE, FALSE) /\ TypeOK
    BY DEF RecordSuccess, BanInv
  <1>2. InFlight' = InFlight \ {l}
    BY <1>1, LastOneEnds
  <1>3. CASE InFlight = {l}
    BY <1>2, <1>3 DEF ReadsAreClose, InFlight
  <1>4. CASE InFlight # {l}
    <2>1. cleared' = TRUE
      BY <1>1, <1>4 DEF EndLogin
    <2>2. QED
      BY <2>1 DEF ReadsAreClose
  <1>5. QED
    BY <1>3, <1>4

LEMMA FailureStaysClose ==
  ASSUME BanInv, NEW l \in Logins, RecordFailure(l)
  PROVE  ReadsAreClose'
  <1> DEFINE seen == login[l].seen
             begins == seen.row = throttle.row /\ Last(seen)
  <1>1. login[l].at = "count" /\ EndLogin(l, FALSE, begins) /\ TypeOK
    BY DEF RecordFailure, BanInv
  <1>2. /\ seen \in ThrottleRows /\ throttle \in ThrottleRows /\ bans \in 0..2
        /\ seen.level \in Nat /\ seen.level <= MAX_BAN_LEVEL /\ throttle.level \in Nat
        /\ throttle.level <= MAX_BAN_LEVEL /\ throttle.ban \in Nat
        /\ \A m \in Logins : login[m].seen.level \in Nat
    BY <1>1, RowNumbers DEF TypeOK
  <1>3. begins \in BOOLEAN
    OBVIOUS
  <1>4. InFlight' = InFlight \ {l} /\ login'[l].at = "idle" /\ \A m \in Logins : m # l => login'[m] = login[m]
    BY <1>1, <1>3, LastOneEnds
  <1>5. CASE InFlight = {l}
    BY <1>4, <1>5 DEF ReadsAreClose, InFlight
  <1>6. CASE InFlight # {l} /\ begins
    <2>1. cleared' = cleared /\ bans' = IF bans < 2 THEN bans + 1 ELSE bans
      BY <1>1, <1>6 DEF EndLogin, TypeOK
    <2>2. CASE cleared \/ bans # 0
      <3>1. cleared' \/ ~(bans' < 2)
        BY <1>2, <2>1, <2>2
      <3>2. QED
        BY <3>1 DEF ReadsAreClose
    <2>3. CASE ~cleared /\ bans = 0
      <3>1. bans' = 1
        BY <2>1, <2>3
      <3>2. \A m \in Logins : login[m].at = "count" => login[m].seen.level = throttle.level
        BY <1>2, <2>3 DEF BanInv, ReadsAreClose
      <3>3. seen.level = throttle.level
        BY <1>1, <3>2
      <3>4. Trip(seen)
        BY <1>6 DEF RecordFailure
      <3>5. /\ throttle.level <= throttle'.level /\ throttle'.level <= throttle.level + 1
            /\ throttle'.ban <= throttle'.level
        <4>1. CASE seen.level < MAX_BAN_LEVEL
          <5>1. throttle'.level = seen.level + 1 /\ throttle'.ban = seen.level + 1
            BY <1>1, <1>2, <3>4, <4>1, TripLevels
          <5>2. QED
            BY <1>2, <3>3, <5>1
        <4>2. CASE ~(seen.level < MAX_BAN_LEVEL)
          <5>1. throttle'.level = throttle.level /\ throttle'.ban = MAX_BAN_LEVEL
            BY <1>1, <1>2, <3>4, <4>2, TripLevels
          <5>2. QED
            BY <1>2, <3>3, <4>2, <5>1, ThrottleAssumption
        <4>3. QED
          BY <4>1, <4>2
      <3>6. \A m \in Logins : login'[m].at = "count" => login'[m].seen.level = throttle.level
        BY <1>4, <3>2
      <3>7. QED
        BY <3>1, <3>5, <3>6 DEF ReadsAreClose
    <2>4. QED
      BY <2>2, <2>3
  <1>7. CASE InFlight # {l} /\ ~begins
    <2>1. cleared' = cleared /\ bans' = bans
      BY <1>1, <1>7 DEF EndLogin, TypeOK
    <2>2. throttle'.level = throttle.level /\ throttle'.ban = throttle.ban
      BY <1>2, <1>7 DEF RecordFailure, Count, ThrottleRows
    <2>3. \A m \in Logins : login'[m].at = "count" => login[m].at = "count" /\ login'[m] = login[m]
      BY <1>4
    <2>4. InFlight # {}
      BY <1>1 DEF InFlight
    <2>5. QED
      BY <2>1, <2>2, <2>3, <2>4 DEF BanInv, ReadsAreClose
  <1>8. QED
    BY <1>5, <1>6, <1>7

LEMMA OthersStayClose ==
  ASSUME BanInv, NEW l \in Logins, Check(l) \/ Verify(l) \/ ReadRow(l)
  PROVE  ReadsAreClose'
  <1>1. throttle' = throttle /\ cleared' = cleared /\ bans' = bans /\ TypeOK
    BY DEF Check, Verify, ReadRow, BanInv
  <1>2. throttle.level \in Nat /\ throttle.ban \in Nat /\ bans \in 0..2
    BY <1>1, RowNumbers DEF TypeOK
  <1>3. InFlight # {} \/ throttle.ban <= throttle.level
    BY <1>1, <1>2 DEF Check, Verify, ReadRow, Banned, InFlight
  <1>4. ASSUME NEW m \in Logins, login'[m].at = "count"
        PROVE  (login[m].at = "count" /\ login'[m] = login[m]) \/ login'[m].seen = throttle
    BY <1>1, <1>4 DEF Check, Verify, ReadRow, At, TypeOK
  <1>5. ASSUME ~cleared, bans < 2, NEW m \in Logins, login'[m].at = "count"
        PROVE  login'[m].seen.level <= throttle.level /\ throttle.level <= login'[m].seen.level + bans
    <2>1. CASE login[m].at = "count" /\ login'[m] = login[m]
      BY <1>5, <2>1 DEF BanInv, ReadsAreClose
    <2>2. CASE login'[m].seen = throttle
      BY <1>2, <2>2
    <2>3. QED
      BY <1>4, <1>5, <2>1, <2>2
  <1>6. ~cleared /\ bans < 2 => throttle.ban <= throttle.level
    BY <1>3 DEF BanInv, ReadsAreClose
  <1>7. QED
    BY <1>1, <1>5, <1>6 DEF ReadsAreClose

LEMMA BanStep == BanInv /\ [Next]_vars => BanInv'
  <1>1. ASSUME BanInv, UNCHANGED logins PROVE ReadsAreClose'
    BY <1>1 DEF BanInv, ReadsAreClose, logins, InFlight
  <1>2. ASSUME BanInv, AccountNext PROVE UNCHANGED logins
    BY <1>2 DEF AccountNext, BeginSetup, FinishSetup, CreateUser, DeleteRefused, DeleteUser, BeginAdmin,
                ReadTarget, CreateAdmin, Grant, Revoke
  <1>3. ASSUME BanInv, Tick PROVE ReadsAreClose'
    <2>1. InFlight' = {} /\ \A l \in Logins : login'[l].at = "idle"
      BY <1>3 DEF Tick, InFlight
    <2>2. QED
      BY <2>1 DEF ReadsAreClose
  <1>4. BanInv /\ LoginNext => ReadsAreClose'
    BY <1>3, OthersStayClose, SuccessStaysClose, FailureStaysClose DEF LoginNext, LoginStep
  <1>5. UNCHANGED vars => UNCHANGED logins
    BY DEF vars, logins
  <1>6. BanInv /\ [Next]_vars => TypeOK'
    <2>1. TypeOK /\ UNCHANGED vars => TypeOK'
      BY DEF TypeOK, vars
    <2>2. QED
      BY <2>1, AccountTypes, LoginTypes DEF BanInv, Next
  <1>7. QED
    BY <1>1, <1>2, <1>4, <1>5, <1>6 DEF BanInv, Next

\* However many failed logins overlap and overwrite each other, none lifts a
\* ban; and the level and the ban of a client only grow, until a login among
\* them succeeds or a second ban begins among them.
THEOREM BansAlwaysGrow == Spec => BansOnlyGrow
  <1>1. Init => BanInv
    <2>1. Init => ReadsAreClose
      BY DEF Init, ReadsAreClose, InFlight, NoLogin
    <2>2. QED
      BY <2>1, InitTypes DEF BanInv
  <1>2. BanInv /\ [Next]_vars =>
          [\A l \in Logins : RecordFailure(l) =>
             /\ Banned => Banned'
             /\ ~cleared /\ bans < 2 =>
                  throttle'.level >= throttle.level /\ throttle'.ban >= throttle.ban]_vars
    BY FailureGrows
  <1>3. QED
    BY <1>1, <1>2, BanStep, PTL DEF Spec, BansOnlyGrow

-----------------------------------------------------------------------------
(* Guesses are bounded.                                                    *)

\* The last failure a row can count, the threads of the login form, and the most
\* that one of them stands for.
LastCount == FAILS_PER_BAN - 1
Threads == Cardinality(Logins)
Most == 1 + LetThrough[0]

LEMMA LastCountType == LastCount \in Nat
  BY ThrottleAssumption DEF LastCount

LEMMA ThreadsType == Threads \in Nat /\ (Logins # {} => Threads >= 1)
  <1>1. Threads \in Nat /\ (Threads = 0 <=> Logins = {})
    BY LoginsAssumption, FS_CardinalityType, FS_EmptySet DEF Threads
  <1>2. QED
    BY <1>1

LEMMA Times ==
  ASSUME NEW x \in Nat
  PROVE  Threads * x \in Nat /\ (Logins # {} => x <= Threads * x)
  <1>1. ASSUME NEW n \in Nat PROVE n * x \in Nat /\ (n >= 1 => x <= n * x)
    OBVIOUS
  <1>2. QED
    BY <1>1, ThreadsType

\* Every set of naturals that is not empty has a least element.
LEMMA LeastOne ==
  ASSUME NEW S \in SUBSET Nat, S # {}
  PROVE  \E m \in S : \A n \in S : m <= n
  <1> DEFINE R == {p \in Nat \X Nat : p[1] < p[2]}
  <1>1. R = OpToRel(<, Nat)
    BY DEF OpToRel
  <1>2. IsWellFoundedOn(R, Nat)
    BY <1>1, NatLessThanWellFounded
  <1>3. \A x, y \in Nat : <<y, x>> \in R <=> y < x
    OBVIOUS
  <1> HIDE DEF R
  <1>4. PICK m \in S : \A n \in S : ~ (<<n, m>> \in R)
    BY <1>2, WFMin
  <1>5. ASSUME NEW n \in S PROVE m <= n
    <2>1. m \in Nat /\ n \in Nat /\ ~ (n < m)
      BY <1>3, <1>4
    <2>2. QED
      BY <2>1
  <1>6. QED
    BY <1>5

\* The functions that are what LetThrough is to be, from the count k on.
Solutions(k) ==
  {f \in [k..LastCount -> Nat] :
     \A s \in k..LastCount : f[s] = IF s = LastCount THEN 0 ELSE 1 + Threads * f[s + 1]}

\* There is one from every count on: the last count has one, and one from k + 1
\* on has a continuation to k.
LEMMA SolutionsExist == Solutions(0) # {}
  <1> DEFINE Without == {j \in 0..LastCount : Solutions(LastCount - j) = {}}
  <1>1. SUFFICES ASSUME Without # {} PROVE FALSE
    <2>1. LastCount \in 0..LastCount /\ LastCount - LastCount = 0
      BY LastCountType
    <2>2. QED
      BY <2>1
  <1>2. PICK m \in Without : \A n \in Without : m <= n
    <2>1. Without \in SUBSET Nat
      BY LastCountType
    <2> HIDE DEF Without
    <2>2. QED
      BY <1>1, <2>1, LeastOne
  <1>3. m \in 0..LastCount /\ m \in Nat
    BY LastCountType
  <1>4. CASE m = 0
    <2> DEFINE g == [s \in LastCount..LastCount |-> 0]
    <2>1. g \in Solutions(LastCount - m)
      BY <1>4, LastCountType DEF Solutions
    <2>2. QED
      BY <2>1
  <1>5. CASE m # 0
    <2> DEFINE k == LastCount - m
    <2>1. k \in Nat /\ k + 1 \in Nat /\ k < LastCount
      BY <1>3, <1>5, LastCountType
    <2>2. m - 1 \in 0..LastCount /\ LastCount - (m - 1) = k + 1 /\ ~ (m <= m - 1)
      BY <1>3, <1>5, LastCountType
    <2>3. m - 1 \notin Without
      BY <1>2, <2>2
    <2>4. PICK f : f \in Solutions(k + 1)
      BY <2>2, <2>3
    <2>5. /\ \A s \in (k + 1)..LastCount : f[s] \in Nat
          /\ \A s \in (k + 1)..LastCount : f[s] = IF s = LastCount THEN 0 ELSE 1 + Threads * f[s + 1]
      BY <2>4 DEF Solutions
    <2> HIDE DEF k
    <2> DEFINE g == [s \in k..LastCount |-> IF s = k THEN 1 + Threads * f[k + 1] ELSE f[s]]
    <2>6. k + 1 \in (k + 1)..LastCount
      BY <2>1, LastCountType
    <2>7. 1 + Threads * f[k + 1] \in Nat
      BY <2>5, <2>6, Times
    <2>8. \A s \in k..LastCount : s # k => s \in (k + 1)..LastCount
      BY <2>1, LastCountType
    <2>9. g \in [k..LastCount -> Nat]
      BY <2>5, <2>7, <2>8
    <2>10. ASSUME NEW s \in k..LastCount
           PROVE  g[s] = IF s = LastCount THEN 0 ELSE 1 + Threads * g[s + 1]
      <3>1. CASE s = k
        <4>1. s # LastCount /\ s + 1 \in k..LastCount /\ s + 1 # k /\ s + 1 = k + 1
          BY <2>1, <3>1, LastCountType
        <4>2. g[s + 1] = f[k + 1]
          BY <4>1
        <4>3. g[s] = 1 + Threads * f[k + 1]
          BY <3>1
        <4>4. QED
          BY <4>1, <4>2, <4>3
      <3>2. CASE s # k
        <4>1. g[s] = f[s] /\ s \in (k + 1)..LastCount
          BY <2>8, <3>2
        <4>2. CASE s = LastCount
          BY <2>5, <4>1, <4>2
        <4>3. CASE s # LastCount
          <5>1. s + 1 \in k..LastCount /\ s + 1 # k
            BY <2>1, <4>1, <4>3, LastCountType
          <5>2. g[s + 1] = f[s + 1]
            BY <5>1
          <5>3. QED
            BY <2>5, <4>1, <4>3, <5>2
        <4>4. QED
          BY <4>2, <4>3
      <3>3. QED
        BY <3>1, <3>2
    <2> HIDE DEF g
    <2>11. g \in Solutions(k)
      BY <2>9, <2>10 DEF Solutions
    <2>12. Solutions(LastCount - m) = {}
      BY <1>2
    <2>13. QED
      BY <2>11, <2>12 DEF k
  <1>6. QED
    BY <1>4, <1>5

\* The recursive definition of LetThrough has a solution, so it is one.
LEMMA LetThroughIs ==
  ASSUME NEW s \in 0..LastCount
  PROVE  LetThrough[s] = IF s = LastCount THEN 0 ELSE 1 + Threads * LetThrough[s + 1]
  <1>1. PICK f : f \in Solutions(0)
    BY SolutionsExist
  <1>2. f = [t \in 0..LastCount |-> IF t = LastCount THEN 0 ELSE 1 + Threads * f[t + 1]]
    BY <1>1 DEF Solutions
  <1>3. LetThrough = CHOOSE g : g = [t \in 0..LastCount |-> IF t = LastCount THEN 0 ELSE 1 + Threads * g[t + 1]]
    BY DEF LetThrough, LastCount, Threads
  <1>4. LetThrough = [t \in 0..LastCount |-> IF t = LastCount THEN 0 ELSE 1 + Threads * LetThrough[t + 1]]
    BY <1>2, <1>3
  <1>5. QED
    BY <1>4

\* Its values are numbers, from the last count on down.
LEMMA LetThroughType ==
  ASSUME NEW s \in 0..LastCount
  PROVE  LetThrough[s] \in Nat
  <1> DEFINE Wrong == {j \in 0..LastCount : LetThrough[LastCount - j] \notin Nat}
  <1>1. Wrong = {}
    <2> SUFFICES ASSUME Wrong # {} PROVE FALSE
      OBVIOUS
    <2>1. PICK m \in Wrong : \A n \in Wrong : m <= n
      <3>1. Wrong \in SUBSET Nat
        BY LastCountType
      <3> HIDE DEF Wrong
      <3>2. QED
        BY <3>1, LeastOne
    <2>2. m \in 0..LastCount /\ LastCount - m \in 0..LastCount /\ LetThrough[LastCount - m] \notin Nat
      BY LastCountType
    <2>3. m # 0
      <3>1. m = 0 => LastCount - m = LastCount
        BY LastCountType
      <3>2. QED
        BY <2>2, <3>1, LetThroughIs
    <2>4. m - 1 \in 0..LastCount /\ ~ (m <= m - 1) /\ LastCount - (m - 1) = (LastCount - m) + 1
      BY <2>2, <2>3, LastCountType
    <2>5. LetThrough[(LastCount - m) + 1] \in Nat
      BY <2>1, <2>4
    <2>6. LetThrough[LastCount - m] = 1 + Threads * LetThrough[(LastCount - m) + 1]
      <3>1. LastCount - m # LastCount
        BY <2>2, <2>3, LastCountType
      <3>2. QED
        BY <2>2, <3>1, LetThroughIs
    <2>7. QED
      BY <2>2, <2>5, <2>6, Times
  <1>2. LastCount - s \in 0..LastCount /\ LastCount - (LastCount - s) = s
    BY LastCountType
  <1>3. QED
    BY <1>1, <1>2

\* A request that has read a lower count lets through more.
LEMMA LetThroughFalls ==
  ASSUME Logins # {}, NEW s \in 0..LastCount
  PROVE  /\ LetThrough[s] <= LetThrough[0]
         /\ s # LastCount => 1 + LetThrough[s + 1] <= LetThrough[s]
  <1>1. ASSUME NEW t \in 0..LastCount, t # LastCount
        PROVE  t + 1 \in 0..LastCount /\ 1 + LetThrough[t + 1] <= LetThrough[t]
    <2>1. t + 1 \in 0..LastCount
      BY <1>1, LastCountType
    <2>2. LetThrough[t + 1] \in Nat
      BY <2>1, LetThroughType
    <2>3. LetThrough[t] = 1 + Threads * LetThrough[t + 1]
      BY <1>1, LetThroughIs
    <2>4. Threads * LetThrough[t + 1] \in Nat /\ LetThrough[t + 1] <= Threads * LetThrough[t + 1]
      BY <2>2, Times
    <2>5. QED
      BY <2>1, <2>2, <2>3, <2>4
  <1> DEFINE Higher == {t \in 0..LastCount : ~ (LetThrough[t] <= LetThrough[0])}
  <1>2. Higher = {}
    <2> SUFFICES ASSUME Higher # {} PROVE FALSE
      OBVIOUS
    <2>1. PICK m \in Higher : \A n \in Higher : m <= n
      <3>1. Higher \in SUBSET Nat
        BY LastCountType
      <3> HIDE DEF Higher
      <3>2. QED
        BY <3>1, LeastOne
    <2>2. 0 \in 0..LastCount /\ LetThrough[0] \in Nat
      BY LastCountType, LetThroughType
    <2>3. m \in 0..LastCount /\ m # 0
      BY <2>2
    <2>4. m - 1 \in 0..LastCount /\ m - 1 # LastCount /\ (m - 1) + 1 = m /\ ~ (m <= m - 1)
      BY <2>3, LastCountType
    <2>5. LetThrough[m - 1] <= LetThrough[0]
      BY <2>1, <2>4
    <2>6. 1 + LetThrough[m] <= LetThrough[m - 1]
      <3>1. 1 + LetThrough[(m - 1) + 1] <= LetThrough[m - 1]
        BY <1>1, <2>4
      <3>2. QED
        BY <2>4, <3>1
    <2>7. LetThrough[m] \in Nat /\ LetThrough[m - 1] \in Nat
      BY <2>3, <2>4, LetThroughType
    <2>8. QED
      BY <2>1, <2>2, <2>5, <2>6, <2>7
  <1>3. QED
    BY <1>1, <1>2

-----------------------------------------------------------------------------
(* A sum over the logins, as the number of tokens they hold.               *)

Tokens(w) == {t \in Logins \X (1..Most) : t[2] <= w[t[1]]}
Total(w) == Cardinality(Tokens(w))

\* What logins may weigh.
Loads == [Logins -> 0..Most]

LEMMA MostType == Most \in Nat /\ Most >= 1
  <1>1. 0 \in 0..LastCount
    BY LastCountType
  <1>2. QED
    BY <1>1, LetThroughType DEF Most

LEMMA TotalType ==
  ASSUME NEW w
  PROVE  IsFiniteSet(Tokens(w)) /\ Total(w) \in Nat /\ Total(w) <= Threads * Most
  <1>1. IsFiniteSet(1..Most) /\ Cardinality(1..Most) = Most
    BY MostType, FS_Interval
  <1>2. IsFiniteSet(Logins \X (1..Most)) /\ Cardinality(Logins \X (1..Most)) = Threads * Most
    BY <1>1, LoginsAssumption, FS_Product DEF Threads
  <1>3. Tokens(w) \in SUBSET (Logins \X (1..Most))
    BY DEF Tokens
  <1>4. IsFiniteSet(Tokens(w)) /\ Total(w) <= Threads * Most
    BY <1>2, <1>3, FS_Subset DEF Total
  <1>5. QED
    BY <1>4, FS_CardinalityType DEF Total

\* If none of them weighs more, the sum is not more.
LEMMA TotalFalls ==
  ASSUME NEW v \in Loads, NEW w \in Loads, \A m \in Logins : v[m] <= w[m]
  PROVE  Total(v) <= Total(w)
  <1>1. Tokens(v) \in SUBSET Tokens(w)
    <2>1. ASSUME NEW m \in Logins, NEW i \in 1..Most, i <= v[m] PROVE i <= w[m]
      BY <2>1, MostType DEF Loads
    <2>2. QED
      BY <2>1 DEF Tokens
  <1>2. QED
    BY <1>1, TotalType, FS_Subset DEF Total

\* If besides one weighs less, so does the sum.
LEMMA TotalFallsByOne ==
  ASSUME NEW v \in Loads, NEW w \in Loads, \A m \in Logins : v[m] <= w[m],
         NEW l \in Logins, v[l] < w[l]
  PROVE  Total(v) + 1 <= Total(w)
  <1> DEFINE top == <<l, w[l]>>
  <1>1. v[l] \in 0..Most /\ w[l] \in 0..Most
    BY DEF Loads
  <1>2. top \in Tokens(w)
    BY <1>1, MostType DEF Tokens
  <1>3. Tokens(v) \in SUBSET (Tokens(w) \ {top})
    <2>1. ASSUME NEW m \in Logins, NEW i \in 1..Most, i <= v[m]
          PROVE  i <= w[m] /\ <<m, i>> # top
      BY <1>1, <2>1, MostType DEF Loads
    <2>2. QED
      BY <2>1 DEF Tokens
  <1> HIDE DEF top
  <1>4. IsFiniteSet(Tokens(w) \ {top}) /\ Cardinality(Tokens(w) \ {top}) = Total(w) - 1
    BY <1>2, TotalType, FS_RemoveElement DEF Total
  <1>5. Total(v) <= Total(w) - 1
    BY <1>3, <1>4, FS_Subset DEF Total
  <1>6. Total(v) \in Nat /\ Total(w) \in Nat
    BY TotalType
  <1>7. QED
    BY <1>5, <1>6

\* What a token is beyond the weight of its login in w.
LEMMA ExtraTokens ==
  ASSUME NEW v \in Loads, NEW w \in Loads, NEW l \in Logins, v[l] <= w[l], NEW r \in Nat,
         \A m \in Logins \ {l} : v[m] <= w[m] + r
  PROVE  Cardinality(Tokens(v) \ Tokens(w)) <= (Threads - 1) * r
  <1> DEFINE extra == Tokens(v) \ Tokens(w)
             places == (Logins \ {l}) \X (1..r)
             place == [t \in extra |-> <<t[1], t[2] - w[t[1]]>>]
  <1>1. IsFiniteSet(places) /\ Cardinality(places) = (Threads - 1) * r
    <2>1. IsFiniteSet(Logins \ {l}) /\ Cardinality(Logins \ {l}) = Threads - 1
      BY LoginsAssumption, FS_RemoveElement DEF Threads
    <2>2. IsFiniteSet(1..r) /\ Cardinality(1..r) = r
      BY FS_Interval
    <2>3. /\ IsFiniteSet(places)
          /\ Cardinality(places) = Cardinality(Logins \ {l}) * Cardinality(1..r)
      BY <2>1, <2>2, FS_Product
    <2>4. QED
      BY <2>1, <2>2, <2>3
  <1>2. ASSUME NEW m \in Logins, NEW i \in 1..Most, i <= v[m], ~ (i <= w[m])
        PROVE  m # l /\ i - w[m] \in 1..r
    <2>1. v[m] \in 0..Most /\ w[m] \in 0..Most
      BY DEF Loads
    <2>2. m # l
      BY <1>2, <2>1, MostType
    <2>3. QED
      BY <1>2, <2>1, <2>2, MostType
  <1>3. \A t \in extra : /\ t = <<t[1], t[2]>> /\ t[1] \in Logins /\ t[2] \in 1..Most
                         /\ t[2] <= v[t[1]] /\ ~ (t[2] <= w[t[1]])
    BY DEF Tokens
  <1>4. \A t \in extra : place[t] \in places
    BY <1>2, <1>3
  <1>5. ASSUME NEW t \in extra, NEW u \in extra, place[t] = place[u] PROVE t = u
    <2>1. t[1] = u[1] /\ t[2] - w[t[1]] = u[2] - w[t[1]]
      BY <1>5
    <2>2. w[t[1]] \in Nat /\ t[2] \in Nat /\ u[2] \in Nat
      BY <1>3, MostType DEF Loads
    <2>3. t[2] = u[2]
      BY <2>1, <2>2
    <2>4. QED
      BY <1>3, <2>1, <2>3
  <1>6. place \in Injection(extra, places)
    <2>1. place \in [extra -> places]
      BY <1>4
    <2> HIDE DEF place, extra, places
    <2>2. QED
      BY <1>5, <2>1 DEF Injection, IsInjective
  <1> HIDE DEF place, places, extra
  <1>7. Cardinality(extra) <= (Threads - 1) * r
    BY <1>1, <1>6, FS_Injection
  <1>8. QED
    BY <1>7 DEF extra

\* If each of the others weighs at most r more and one so much less that it
\* pays for them, the sum is not more.
LEMMA OnePaysForAll ==
  ASSUME NEW v \in Loads, NEW w \in Loads, NEW l \in Logins, NEW r \in Nat,
         v[l] + (Threads - 1) * r <= w[l],
         \A m \in Logins \ {l} : v[m] <= w[m] + r
  PROVE  Total(v) <= Total(w)
  <1> DEFINE extra == Tokens(v) \ Tokens(w)
             common == Tokens(v) \cap Tokens(w)
             paid == {l} \X ((v[l] + 1)..w[l])
  <1>1. v[l] \in Nat /\ w[l] \in Nat /\ v[l] <= Most /\ w[l] <= Most /\ Threads \in Nat /\ Threads >= 1
    BY MostType, ThreadsType DEF Loads
  <1>2. (Threads - 1) * r \in Nat
    <2>1. ASSUME NEW n \in Nat, n >= 1 PROVE (n - 1) * r \in Nat
      BY <2>1
    <2>2. QED
      BY <1>1, <2>1
  <1>3. v[l] <= w[l]
    BY <1>1, <1>2
  <1>4. IsFiniteSet(paid) /\ Cardinality(paid) = w[l] - v[l]
    <2>1. IsFiniteSet((v[l] + 1)..w[l]) /\ Cardinality((v[l] + 1)..w[l]) = w[l] - v[l]
      <3>1. v[l] + 1 \in Int /\ w[l] \in Int
        BY <1>1
      <3>2. /\ IsFiniteSet((v[l] + 1)..w[l])
            /\ Cardinality((v[l] + 1)..w[l]) = IF v[l] + 1 > w[l] THEN 0 ELSE w[l] - (v[l] + 1) + 1
        BY <3>1, FS_Interval
      <3>3. QED
        BY <1>1, <1>3, <3>2
    <2>2. IsFiniteSet({l}) /\ Cardinality({l}) = 1
      BY FS_Singleton
    <2>3. /\ IsFiniteSet(paid)
          /\ Cardinality(paid) = Cardinality({l}) * Cardinality((v[l] + 1)..w[l])
      BY <2>1, <2>2, FS_Product
    <2>4. QED
      BY <1>1, <2>1, <2>2, <2>3
  <1>5. Cardinality(extra) <= (Threads - 1) * r
    BY <1>3, ExtraTokens
  <1>6. Tokens(v) = common \cup extra /\ common \cap extra = {}
    OBVIOUS
  <1>7. common \cap paid = {}
    <2>1. ASSUME NEW i \in (v[l] + 1)..w[l] PROVE ~ (i <= v[l])
      BY <1>1, <2>1
    <2>2. QED
      BY <2>1 DEF Tokens
  <1>8. common \cup paid \in SUBSET Tokens(w)
    <2>1. ASSUME NEW i \in (v[l] + 1)..w[l] PROVE i \in 1..Most /\ i <= w[l]
      BY <1>1, <2>1, MostType
    <2>2. QED
      BY <2>1 DEF Tokens
  <1>9. IsFiniteSet(common) /\ IsFiniteSet(extra)
    BY TotalType, FS_Subset
  <1> HIDE DEF extra, common, paid
  <1>10. Cardinality(common) \in Nat /\ Cardinality(extra) \in Nat /\ Cardinality({}) = 0
    BY <1>9, FS_CardinalityType, FS_EmptySet
  <1>11. Total(v) = Cardinality(common) + Cardinality(extra)
    <2>1. Cardinality(common \cup extra) = Cardinality(common) + Cardinality(extra) - Cardinality(common \cap extra)
      BY <1>9, FS_Union
    <2>2. Cardinality(common \cap extra) = 0 /\ Total(v) = Cardinality(common \cup extra)
      BY <1>6, <1>10, Zenon DEF Total
    <2>3. QED
      BY <1>10, <2>1, <2>2
  <1>12. Cardinality(common \cup paid) = Cardinality(common) + (w[l] - v[l])
    <2>1. Cardinality(common \cup paid) = Cardinality(common) + Cardinality(paid) - Cardinality(common \cap paid)
      BY <1>4, <1>9, FS_Union
    <2>2. Cardinality(common \cap paid) = 0
      BY <1>7, <1>10, Zenon
    <2>3. QED
      BY <1>1, <1>4, <1>10, <2>1, <2>2
  <1>13. Cardinality(common \cup paid) <= Total(w)
    BY <1>8, TotalType, FS_Subset DEF Total
  <1>14. Total(w) \in Nat
    BY TotalType
  <1>15. QED
    BY <1>1, <1>2, <1>5, <1>10, <1>11, <1>12, <1>13, <1>14

-----------------------------------------------------------------------------
(* The invariant: what was guessed and what the logins still stand for.    *)

\* A login that has failed stands for what its count lets through, as it will
\* read it or has read it; any other one for a password more.  (What it has read
\* is lost if the row has come or gone meanwhile, and it starts again.)
Weights(log, row) ==
  [l \in Logins |->
     IF log[l].at = "wrong" THEN LetThrough[row.fails]
     ELSE IF log[l].at = "count" /\ log[l].seen.row = row.row THEN LetThrough[log[l].seen.fails]
     ELSE 1 + LetThrough[row.fails]]

\* Where there is no row nothing is counted.
RowsBegin ==
  /\ ~throttle.row => throttle.fails = 0
  /\ \A l \in Logins : ~login[l].seen.row => login[l].seen.fails = 0

GuessInv == TypeOK /\ RowsBegin /\ guesses + Total(Weights(login, throttle)) <= Threads * Most

LEMMA WeightsType ==
  ASSUME NEW log \in [Logins -> LoginRecords], NEW row \in ThrottleRows
  PROVE  Weights(log, row) \in Loads
  <1>1. ASSUME NEW l \in Logins
        PROVE  Weights(log, row)[l] \in 0..Most
    <2>1. row.fails \in 0..LastCount /\ log[l].seen.fails \in 0..LastCount /\ 0 \in 0..LastCount
      BY LastCountType DEF ThrottleRows, LoginRecords, LastCount
    <2>2. ASSUME NEW s \in 0..LastCount
          PROVE  LetThrough[s] \in 0..Most /\ 1 + LetThrough[s] \in 0..Most
      <3>1. LetThrough[s] \in Nat /\ LetThrough[0] \in Nat /\ LetThrough[s] <= LetThrough[0]
        BY <2>1, LetThroughType, LetThroughFalls
      <3>2. QED
        BY <3>1 DEF Most
    <2>3. QED
      BY <2>1, <2>2 DEF Weights
  <1>2. QED
    BY <1>1 DEF Weights, Loads

LEMMA RowsBeginStep ==
  ASSUME TypeOK, RowsBegin, LoginNext
  PROVE  RowsBegin'
  <1> USE DEF RowsBegin, TypeOK, ThrottleRows
  <1>1. ASSUME NEW l \in Logins, Check(l) \/ Verify(l) \/ ReadRow(l)
        PROVE  RowsBegin'
    BY <1>1 DEF Check, Verify, ReadRow, At
  <1>2. ASSUME NEW l \in Logins, RecordSuccess(l)
        PROVE  RowsBegin'
    BY <1>2 DEF RecordSuccess, EndLogin, NoLogin, NoRow
  <1>3. ASSUME NEW l \in Logins, RecordFailure(l)
        PROVE  RowsBegin'
    BY <1>3 DEF RecordFailure, Trip, Count, EndLogin, NoLogin, NoRow
  <1>4. CASE Tick
    BY <1>4 DEF Tick
  <1>5. QED
    BY <1>1, <1>2, <1>3, <1>4 DEF LoginNext, LoginStep

\* A failure that is counted: the count is set to one more than was read, and
\* whoever counted further meanwhile may have to do so again.
LEMMA CountPays ==
  ASSUME TypeOK, RowsBegin, NEW l \in Logins, login[l].at = "count",
         login[l].seen.row = throttle.row, ~Last(login[l].seen), Count(login[l].seen),
         login' = [login EXCEPT ![l] = NoLogin], TypeOK'
  PROVE  Total(Weights(login', throttle')) <= Total(Weights(login, throttle))
  <1> DEFINE w == Weights(login, throttle)
             v == Weights(login', throttle')
             s == login[l].seen.fails
             r == LetThrough[s + 1]
  <1>1. v \in Loads /\ w \in Loads
    BY WeightsType DEF TypeOK, LoginRecords
  <1>2. /\ throttle \in ThrottleRows /\ throttle.fails \in 0..LastCount
        /\ \A m \in Logins : login[m].seen.fails \in 0..LastCount
    BY DEF TypeOK, ThrottleRows, LastCount
  <1>3. s \in 0..LastCount /\ s # LastCount /\ s + 1 \in 0..LastCount /\ 0 \in 0..LastCount
    <2>1. s \in 0..LastCount
      BY <1>2
    <2>2. s + 1 <= LastCount
      BY <2>1, ThrottleAssumption DEF Last, LastCount
    <2>3. QED
      BY <2>1, <2>2, LastCountType
  <1>4. throttle'.fails = s + 1 /\ throttle'.row = TRUE
    BY <1>2 DEF Count, ThrottleRows
  <1>5. login'[l] = NoLogin /\ \A m \in Logins \ {l} : login'[m] = login[m]
    BY DEF TypeOK
  <1>6. v[l] = 1 + r /\ w[l] = LetThrough[s]
    BY <1>4, <1>5 DEF Weights, NoLogin
  <1>7. LetThrough[s] = 1 + Threads * r /\ r \in Nat
    BY <1>3, LetThroughIs, LetThroughType
  <1> DEFINE u == LetThrough[throttle.fails]
  <1>8. u \in Nat
    BY <1>2, LetThroughType
  <1>9. CASE throttle.row
    <2>1. ASSUME NEW m \in Logins \ {l} PROVE v[m] <= w[m] + r
      <3>1. CASE login[m].at = "wrong"
        <4>1. v[m] = r /\ w[m] = u
          BY <1>4, <1>5, <3>1 DEF Weights
        <4>2. QED
          BY <1>7, <1>8, <4>1
      <3>2. CASE login[m].at # "wrong" /\ login[m].at = "count" /\ login[m].seen.row = throttle.row
        <4>1. throttle'.row = throttle.row
          BY <1>4, <1>9 DEF TypeOK, ThrottleRows
        <4>2. login'[m].at = "count" /\ login'[m].seen = login[m].seen /\ login'[m].seen.row = throttle'.row
          BY <1>5, <3>2, <4>1
        <4>3. v[m] = LetThrough[login[m].seen.fails] /\ w[m] = LetThrough[login[m].seen.fails]
          BY <3>2, <4>2 DEF Weights
        <4>4. w[m] \in 0..Most
          BY <1>1 DEF Loads
        <4>5. QED
          BY <1>7, <4>3, <4>4, MostType
      <3>3. CASE login[m].at # "wrong" /\ ~ (login[m].at = "count" /\ login[m].seen.row = throttle.row)
        <4>1. v[m] = 1 + r /\ w[m] = 1 + u
          BY <1>4, <1>5, <1>9, <3>3 DEF Weights
        <4>2. QED
          BY <1>7, <1>8, <4>1
      <3>4. QED
        BY <3>1, <3>2, <3>3
    <2>2. v[l] + (Threads - 1) * r <= w[l]
      <3>1. ASSUME NEW n \in Nat PROVE (1 + r) + (n - 1) * r = 1 + n * r /\ 1 + n * r \in Nat
        BY <1>7
      <3>2. (1 + r) + (Threads - 1) * r = 1 + Threads * r /\ 1 + Threads * r \in Nat
        BY <3>1, ThreadsType
      <3> HIDE DEF v, w, r
      <3>3. QED
        BY <1>6, <1>7, <3>2
    <2> HIDE DEF v, w, r
    <2>3. QED
      BY <1>1, <1>7, <2>1, <2>2, OnePaysForAll DEF v, w
  <1>10. CASE ~throttle.row
    <2>1. throttle.fails = 0 /\ s = 0
      BY <1>10 DEF RowsBegin
    <2>2. 1 + r <= u /\ r <= u
      <3>1. 1 + LetThrough[s + 1] <= LetThrough[s]
        BY <1>3, LetThroughFalls
      <3>2. QED
        BY <1>7, <1>8, <2>1, <3>1
    <2>3. ASSUME NEW m \in Logins PROVE v[m] <= w[m]
      <3>1. CASE m = l
        BY <1>6, <1>8, <2>1, <2>2, <3>1
      <3>2. CASE m # l /\ login[m].at = "wrong"
        <4>1. v[m] = r /\ w[m] = u
          BY <1>4, <1>5, <3>2 DEF Weights
        <4>2. QED
          BY <1>7, <1>8, <2>2, <4>1
      <3>3. CASE m # l /\ login[m].at = "count" /\ ~login[m].seen.row
        <4>1. login[m].seen.fails = 0 /\ login[m].seen.row = FALSE /\ throttle.row = FALSE
          BY <1>10, <3>3 DEF RowsBegin, TypeOK, ThrottleRows
        <4>2. v[m] = 1 + r /\ w[m] = u
          BY <1>4, <1>5, <2>1, <3>3, <4>1 DEF Weights
        <4>3. QED
          BY <1>7, <1>8, <2>2, <4>2
      <3>4. CASE m # l /\ login[m].at = "count" /\ login[m].seen.row
        <4>1. v[m] = LetThrough[login[m].seen.fails] /\ w[m] = 1 + u
          BY <1>4, <1>5, <1>10, <3>4 DEF Weights, TypeOK, ThrottleRows
        <4>2. LetThrough[login[m].seen.fails] <= u /\ LetThrough[login[m].seen.fails] \in Nat
          BY <1>2, <2>1, LetThroughFalls, LetThroughType
        <4>3. QED
          BY <1>8, <4>1, <4>2
      <3>5. CASE m # l /\ login[m].at # "wrong" /\ login[m].at # "count"
        <4>1. v[m] = 1 + r /\ w[m] = 1 + u
          BY <1>4, <1>5, <3>5 DEF Weights
        <4>2. QED
          BY <1>7, <1>8, <2>2, <4>1
      <3>6. QED
        BY <3>1, <3>2, <3>3, <3>4, <3>5
    <2> HIDE DEF v, w
    <2>4. QED
      BY <1>1, <2>3, TotalFalls DEF v, w
  <1>11. QED
    BY <1>9, <1>10

LEMMA GuessStep ==
  ASSUME GuessInv, LoginNext
  PROVE  GuessInv'
  <1> DEFINE w == Weights(login, throttle)
             v == Weights(login', throttle')
  <1>1. TypeOK' /\ RowsBegin'
    BY LoginTypes, RowsBeginStep DEF GuessInv
  <1>2. v \in Loads /\ w \in Loads
    BY <1>1, WeightsType DEF GuessInv, TypeOK, LoginRecords
  <1>3. /\ Total(v) \in Nat /\ Total(v) <= Threads * Most /\ Total(w) \in Nat /\ guesses \in Nat
        /\ Threads * Most \in Nat
    BY TotalType, Times, MostType DEF GuessInv, TypeOK
  <1>4. SUFFICES guesses' + Total(v) <= Threads * Most
    BY <1>1 DEF GuessInv
  <1>5. guesses + Total(w) <= Threads * Most
    BY DEF GuessInv
  <1>6. ASSUME NEW l \in Logins, Verify(l)
        PROVE  guesses' + Total(v) <= Threads * Most
    <2>1. throttle' = throttle /\ \A m \in Logins : m # l => login'[m] = login[m]
      BY <1>6 DEF Verify, At, GuessInv, TypeOK
    <2>2. CASE login'[l].at = "right" /\ UNCHANGED guesses
      <3>1. \A m \in Logins : v[m] = w[m]
        BY <1>6, <2>1, <2>2 DEF Verify, Weights
      <3>2. \A m \in Logins : v[m] <= w[m]
        BY <1>2, <3>1, MostType DEF Loads
      <3> HIDE DEF v, w
      <3>3. QED
        BY <1>2, <1>3, <1>5, <2>2, <3>2, TotalFalls
    <2>3. CASE login'[l].at = "wrong" /\ guesses' = guesses + 1
      <3>1. /\ \A m \in Logins : m # l => v[m] = w[m]
            /\ v[l] = LetThrough[throttle.fails] /\ w[l] = 1 + v[l]
        BY <1>6, <2>1, <2>3 DEF Verify, Weights
      <3>2. v[l] < w[l] /\ \A m \in Logins : v[m] <= w[m]
        BY <1>2, <3>1, MostType DEF Loads
      <3> HIDE DEF v, w
      <3>3. Total(v) + 1 <= Total(w)
        BY <1>2, <3>2, TotalFallsByOne
      <3>4. QED
        BY <1>3, <1>5, <2>3, <3>3
    <2>4. QED
      BY <1>6, <2>2, <2>3 DEF Verify, At, GuessInv, TypeOK
  <1>7. ASSUME NEW l \in Logins, RecordFailure(l)
        PROVE  guesses' + Total(v) <= Threads * Most
    <2> DEFINE seen == login[l].seen
    <2>1. login[l].at = "count" /\ login' = [login EXCEPT ![l] = NoLogin]
      BY <1>7 DEF RecordFailure, EndLogin
    <2>2. CASE seen.row # throttle.row /\ UNCHANGED <<throttle, guesses>>
      <3>1. \A m \in Logins : v[m] = w[m]
        BY <2>1, <2>2 DEF Weights, NoLogin, GuessInv, TypeOK
      <3>2. \A m \in Logins : v[m] <= w[m]
        BY <1>2, <3>1, MostType DEF Loads
      <3> HIDE DEF v, w
      <3>3. QED
        BY <1>2, <1>3, <1>5, <2>2, <3>2, TotalFalls
    <2>3. CASE Trip(seen)
      <3>1. guesses' = 0
        BY <2>3 DEF Trip
      <3> HIDE DEF v
      <3>2. QED
        BY <1>3, <3>1
    <2>4. CASE seen.row = throttle.row /\ ~Last(seen) /\ Count(seen) /\ UNCHANGED guesses
      <3>1. Total(v) <= Total(w)
        BY <1>1, <2>1, <2>4, CountPays DEF GuessInv
      <3> HIDE DEF v, w
      <3>2. QED
        BY <1>3, <1>5, <2>4, <3>1
    <2>5. QED
      BY <1>7, <2>2, <2>3, <2>4 DEF RecordFailure
  <1>8. ASSUME NEW l \in Logins, RecordSuccess(l)
        PROVE  guesses' + Total(v) <= Threads * Most
    <2>1. guesses' = 0
      BY <1>8 DEF RecordSuccess
    <2> HIDE DEF v
    <2>2. QED
      BY <1>3, <2>1
  <1>9. ASSUME guesses' = guesses, \A m \in Logins : v[m] = w[m]
        PROVE  guesses' + Total(v) <= Threads * Most
    <2>1. \A m \in Logins : v[m] <= w[m]
      BY <1>2, <1>9, MostType DEF Loads
    <2> HIDE DEF v, w
    <2>2. QED
      BY <1>2, <1>3, <1>5, <1>9, <2>1, TotalFalls
  <1>10. ASSUME NEW l \in Logins, Check(l) \/ ReadRow(l)
         PROVE  guesses' = guesses /\ \A m \in Logins : v[m] = w[m]
    BY <1>10 DEF Check, ReadRow, At, Weights, GuessInv, TypeOK
  <1>11. CASE Tick
    <2>1. guesses' = guesses /\ login' = login /\ throttle'.fails = throttle.fails /\ throttle'.row = throttle.row
      BY <1>11 DEF Tick, GuessInv, TypeOK, ThrottleRows
    <2>2. \A m \in Logins : v[m] = w[m]
      BY <2>1 DEF Weights
    <2>3. QED
      BY <1>9, <2>1, <2>2
  <1> HIDE DEF v, w
  <1>12. QED
    BY <1>6, <1>7, <1>8, <1>9, <1>10, <1>11 DEF LoginNext, LoginStep

\* However many logins overlap and overwrite each other's counts, the wrong
\* passwords between two bans are bounded: what was guessed and what the logins
\* in flight still stand for never exceeds what it is when nothing was guessed.
THEOREM GuessesAlwaysBounded == Spec => []GuessesBounded
  <1>1. Init => GuessInv
    <2> SUFFICES ASSUME Init PROVE GuessInv
      OBVIOUS
    <2>1. TypeOK
      BY InitTypes
    <2>2. RowsBegin
      BY DEF Init, RowsBegin, NoRow, NoLogin
    <2>3. guesses = 0
      BY DEF Init
    <2>4. QED
      BY <2>1, <2>2, <2>3, TotalType DEF GuessInv
  <1>2. GuessInv /\ [Next]_vars => GuessInv'
    <2>1. ASSUME GuessInv, UNCHANGED logins, TypeOK' PROVE GuessInv'
      BY <2>1 DEF GuessInv, RowsBegin, logins
    <2>2. AccountNext => UNCHANGED logins
      BY DEF AccountNext, BeginSetup, FinishSetup, CreateUser, DeleteRefused, DeleteUser, BeginAdmin,
             ReadTarget, CreateAdmin, Grant, Revoke
    <2>3. UNCHANGED vars => UNCHANGED logins
      BY DEF vars, logins
    <2>4. TypeOK /\ UNCHANGED vars => TypeOK'
      BY DEF TypeOK, vars
    <2>5. QED
      BY <2>1, <2>2, <2>3, <2>4, AccountTypes, GuessStep DEF GuessInv, Next
  <1>3. GuessInv => GuessesBounded
    <2> SUFFICES ASSUME GuessInv PROVE GuessesBounded
      OBVIOUS
    <2>1. Total(Weights(login, throttle)) \in Nat /\ Threads * Most \in Nat /\ guesses \in Nat
      BY TotalType, Times, MostType DEF GuessInv, TypeOK
    <2>2. guesses <= Threads * Most
      BY <2>1 DEF GuessInv
    <2>3. QED
      BY <2>2 DEF GuessesBounded, Threads, Most
  <1>4. QED
    BY <1>1, <1>2, <1>3, PTL DEF Spec

-----------------------------------------------------------------------------
(* What BanEnds rests on.                                                  *)

\* The calls a login in flight has before it.
CallsLeft(l) == CASE login[l].at = "checked" -> 3
                  [] login[l].at = "wrong" -> 2
                  [] login[l].at \in {"right", "count"} -> 1
                  [] OTHER -> 0

\* While a client is banned it wears off: no login begins, those in flight, which
\* may begin another ban, come nearer to their ends, and when there are none
\* the ban gets shorter.  What it tries meanwhile cannot prolong it.
BansWearOff ==
  [][Banned /\ LoginNext =>
       \/ ~Banned'
       \/ /\ \A l \in Logins : CallsLeft(l)' <= CallsLeft(l)
          /\ \E l \in Logins : CallsLeft(l)' < CallsLeft(l)
       \/ UNCHANGED login /\ throttle'.ban < throttle.ban]_vars

\* A login that goes on has fewer calls before it, and gives nobody else more.
LEMMA LoginsDrain ==
  ASSUME TypeOK, NEW l \in Logins, LoginStep(l)
  PROVE  /\ CallsLeft(l)' < CallsLeft(l)
         /\ \A k \in Logins : CallsLeft(k)' <= CallsLeft(k)
  <1> USE DEF TypeOK
  <1>1. ASSUME \A k \in Logins : k # l => login'[k] = login[k],
               \/ login[l].at = "checked" /\ login'[l].at \in {"right", "wrong"}
               \/ login[l].at = "wrong" /\ login'[l].at = "count"
               \/ login[l].at \in {"right", "count"} /\ login'[l].at = "idle"
        PROVE  /\ CallsLeft(l)' < CallsLeft(l)
               /\ \A k \in Logins : CallsLeft(k)' <= CallsLeft(k)
    <2>1. CallsLeft(l)' < CallsLeft(l)
      BY <1>1 DEF CallsLeft
    <2>2. ASSUME NEW k \in Logins, k # l PROVE CallsLeft(k)' <= CallsLeft(k)
      BY <1>1, <2>2 DEF CallsLeft
    <2>3. CallsLeft(l)' <= CallsLeft(l)
      BY <2>1 DEF CallsLeft
    <2> QED
      BY <2>1, <2>2, <2>3
  <1>2. CASE Verify(l)
    <2>1. login[l].at = "checked" /\ \A k \in Logins : k # l => login'[k] = login[k]
      BY <1>2 DEF Verify, At
    <2>2. login'[l].at \in {"right", "wrong"}
      BY <1>2 DEF Verify, At
    <2> QED
      BY <1>1, <2>1, <2>2
  <1>3. CASE ReadRow(l)
    <2>1. login[l].at = "wrong" /\ \A k \in Logins : k # l => login'[k] = login[k]
      BY <1>3 DEF ReadRow
    <2>2. login'[l].at = "count"
      BY <1>3 DEF ReadRow
    <2> QED
      BY <1>1, <2>1, <2>2
  <1>4. CASE RecordSuccess(l) \/ RecordFailure(l)
    <2>1. login[l].at \in {"right", "count"} /\ login' = [login EXCEPT ![l] = NoLogin]
      BY <1>4 DEF RecordSuccess, RecordFailure, EndLogin
    <2> QED
      BY <1>1, <2>1 DEF NoLogin
  <1> QED
    BY <1>2, <1>3, <1>4 DEF LoginStep

\* login_throttle.check refuses a banned client before anything is counted, so a ban
\* ends after finitely many steps of the logins in flight and of the clock.
THEOREM BansAlwaysWearOff == Spec => BansWearOff
  <1>1. TypeOK /\ [Next]_vars =>
          [Banned /\ LoginNext =>
             \/ ~Banned'
             \/ /\ \A l \in Logins : CallsLeft(l)' <= CallsLeft(l)
                /\ \E l \in Logins : CallsLeft(l)' < CallsLeft(l)
             \/ UNCHANGED login /\ throttle'.ban < throttle.ban]_vars
    <2> SUFFICES ASSUME TypeOK, Banned, LoginNext
                 PROVE  \/ /\ \A l \in Logins : CallsLeft(l)' <= CallsLeft(l)
                           /\ \E l \in Logins : CallsLeft(l)' < CallsLeft(l)
                        \/ UNCHANGED login /\ throttle'.ban < throttle.ban
      OBVIOUS
    <2>1. \A l \in Logins : ~Check(l)
      BY DEF Check
    <2>2. Tick => UNCHANGED login /\ throttle'.ban < throttle.ban
      BY DEF Tick, TypeOK, ThrottleRows
    <2> QED
      BY <2>1, <2>2, LoginsDrain DEF LoginNext
  <1> QED
    BY <1>1, TypeCorrect, PTL DEF Spec, BansWearOff

===============================================================================
