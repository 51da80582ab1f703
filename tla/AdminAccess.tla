---------------------------- MODULE AdminAccess ----------------------------
(***************************************************************************)
(* How an administrator gets in: password, second factor, the account      *)
(* operations that need a step-up, logout and recovery.  One account: its  *)
(* row in table users is acct, and every SQL function on it is one atomic  *)
(* change.  An await of a handler before a read or a write of the account  *)
(* ends an action, so requests interleave there.                           *)
(*                                                                         *)
(* Abstractions.  The counter of failures may refuse any attempt, and the  *)
(* caches of sessions may answer for any session that was ever signed on   *)
(* paths that do not ask the database.  Passwords, secrets and codes are   *)
(* small numbers; a recovery sheet is the version of the account that      *)
(* issued it, and one code stands for its eight.  A token is signed, so it *)
(* is what it says: the sets of tokens hold all that were signed, and a    *)
(* request may present any of them (one that has expired is one that no    *)
(* request presents).                                                      *)
(***************************************************************************)
EXTENDS Integers, FiniteSets

CONSTANTS
    Request,        \* requests in flight at the same time
    Password,       \* passwords the account may have
    MaxVersion,     \* bound: session versions reached
    MaxSecret,      \* bound: TOTP secrets generated
    MaxStep,        \* bound: TOTP time steps
    None

ASSUME LimitsAssumption ==
    /\ MaxVersion \in Nat \ {0} /\ MaxSecret \in Nat /\ MaxStep \in Nat
    /\ Password # {} /\ None \notin Password

VARIABLES
    acct,       \* the row in users
    req,        \* the requests in flight
    sessions,   \* session tokens signed, with the factor they were signed for
    challenges, \* login challenges signed: version and the password that was right
    stepups,    \* step-up tokens signed, with their factor
    setups,     \* enrolment tokens signed: version and new secret
    rehash,     \* passwords whose new hash is still to be stored (waitUntil)
    step,       \* the TOTP step of the wall clock
    spent,      \* history: second factors accepted since the version changed
    twice,      \* history: some second factor was accepted twice
    undone      \* history: a late rehash undid the password of this version

tokens == <<sessions, challenges, stepups, setups>>
history == <<spent, twice, undone>>
vars == <<acct, req, tokens, rehash, step, history>>

Version == 1..MaxVersion
Secret == 1..MaxSecret
User == [ver : Version, pw : Password, secret : 0..MaxSecret,
         last : -1..MaxStep + 1, codes : SUBSET Version, legacy : BOOLEAN]
Token == [ver : Version, by : {"login", "rotation"}, secret : 0..MaxSecret,
          pass : Password \cup {None}]
Challenge == [ver : Version, pass : Password]

\* Operations that change the account and sign the session of its new version.
Rotations == {"enable", "codes", "disable", "username", "chpasswd"}
\* isMfaStepUpProtectedRequest
Protected == Rotations \cup {"setup"}

Idle == [op |-> "none"]
Inflight == [op : {"login", "mfa", "stepup"} \cup Protected, at : {"start", "read"},
             ver : 0..MaxVersion, secret : 0..MaxSecret, pass : Password \cup {None},
             pw : Password \cup {None}]

\* A code: of an authenticator (secret and step) or of a recovery sheet.
Totp(s, k) == <<"totp", s, k>>
Sheet(v) == <<"sheet", v, 0>>
Code == {Totp(s, k) : s \in Secret, k \in 0..MaxStep + 1} \cup {Sheet(v) : v \in Version}

TypeOK ==
    /\ acct \in User
    /\ \A r \in Request : req[r] = Idle \/ req[r] \in Inflight
    /\ sessions \subseteq Token /\ stepups \subseteq Token
    /\ challenges \subseteq Challenge /\ setups \subseteq Version \X Secret
    /\ rehash \subseteq Password /\ step \in 0..MaxStep
    /\ spent \subseteq Code /\ twice \in BOOLEAN /\ undone \in BOOLEAN

Init ==
    /\ \E p \in Password :
          acct = [ver |-> 1, pw |-> p, secret |-> 0, last |-> -1, codes |-> {}, legacy |-> TRUE]
    /\ req = [r \in Request |-> Idle]
    /\ sessions = {} /\ challenges = {} /\ stepups = {} /\ setups = {} /\ rehash = {}
    /\ step = 0 /\ spent = {} /\ twice = FALSE /\ undone = FALSE

-----------------------------------------------------------------------------
(***************************************************************************)
(* The account row                                                         *)
(***************************************************************************)
NextVersion == acct.ver + 1

\* Fault: enrolment leaves the sessions and challenges of before alive.
EnabledSameVersion(s, k) ==
    [acct EXCEPT !.secret = s, !.last = k, !.codes = {NextVersion}]

\* cfm_enable_user_totp
Enabled(s, k) ==
    [acct EXCEPT !.ver = NextVersion, !.secret = s, !.last = k, !.codes = {NextVersion}]

\* cfm_disable_user_totp
Disabled == [acct EXCEPT !.ver = NextVersion, !.secret = 0, !.last = -1, !.codes = {}]

\* cfm_recover_single_admin, for the account that exists.
Recovered(p) == [Disabled EXCEPT !.pw = p, !.legacy = FALSE]

\* Fault: the step of the last code may be used again.
ConsumableAgain(c) ==
    /\ acct.secret # 0
    /\ CASE c[1] = "totp" -> acct.last <= c[3]
         [] c[1] = "sheet" -> c[2] \in acct.codes

\* cfm_consume_totp_step and cfm_consume_recovery_code: a row is found.
Consumable(c) ==
    /\ acct.secret # 0
    /\ CASE c[1] = "totp" -> acct.last < c[3]
         [] c[1] = "sheet" -> c[2] \in acct.codes

Consumed(c) ==
    CASE c[1] = "totp" -> [acct EXCEPT !.last = c[3]]
      [] c[1] = "sheet" -> [acct EXCEPT !.codes = @ \ {c[2]}]

\* verifyTotpCode: the code of the step before, of this one or of the next, for
\* the secret that the request has read.  A recovery code is only looked up.
Verifies(secret, c) ==
    c[1] = "totp" => c[2] = secret /\ c[3] \in (step - 1)..(step + 1)

-----------------------------------------------------------------------------
In(r, op, at) == req[r] # Idle /\ req[r].op = op /\ req[r].at = at
End(r) == req' = [req EXCEPT ![r] = Idle]
Started(op, p) ==
    [op |-> op, at |-> "start", ver |-> 0, secret |-> 0, pass |-> None, pw |-> p]
\* A request that has read the account; p is the password it rests on.
Read(op, p) ==
    [op |-> op, at |-> "read", ver |-> acct.ver, secret |-> acct.secret, pass |-> p, pw |-> None]
Holding(r) == [ver |-> req[r].ver, by |-> "login", secret |-> req[r].secret, pass |-> req[r].pass]
HeldBy(ts) == {t.ver : t \in ts}

(***************************************************************************)
(* Login                                                                   *)
(***************************************************************************)
\* POST /login: the account is read and the password, if right, verified against
\* what was read.  A hash of the old kind is replaced in the background.
LoginUser(r) ==
    /\ req[r] = Idle
    /\ req' = [req EXCEPT ![r] = Read("login", acct.pw)]
    /\ rehash' = IF acct.legacy THEN rehash \cup {acct.pw} ELSE rehash
    /\ UNCHANGED <<acct, tokens, step, history>>

\* With a second factor the account gets a challenge, else completeAdminLogin
\* signs its session.
LoginPassed(r) ==
    /\ In(r, "login", "read")
    /\ IF req[r].secret # 0
       THEN /\ challenges' = challenges \cup {[ver |-> req[r].ver, pass |-> req[r].pass]}
            /\ UNCHANGED sessions
       ELSE sessions' = sessions \cup {Holding(r)} /\ UNCHANGED challenges
    /\ End(r)
    /\ UNCHANGED <<acct, stepups, setups, rehash, step, history>>

\* updateUserPassword of the background task: no check, and no new version.
Rehash(p) ==
    /\ p \in rehash
    /\ rehash' = rehash \ {p}
    /\ acct' = [acct EXCEPT !.pw = p, !.legacy = FALSE]
    /\ undone' = (undone \/ p # acct.pw)
    /\ UNCHANGED <<req, tokens, step, spent, twice>>

\* The challenge must be of the version that the account has.
ChallengeHeld(c) == c \in challenges /\ c.ver = acct.ver

\* POST /login/mfa
MfaUser(r, c) ==
    /\ req[r] = Idle
    /\ ChallengeHeld(c) /\ acct.secret # 0
    /\ req' = [req EXCEPT ![r] = Read("mfa", c.pass)]
    /\ UNCHANGED <<acct, tokens, rehash, step, history>>

\* A second factor is accepted: it verifies against the account as it was read
\* and is consumed in the account as it is.  A session or a step-up of the version
\* that was read is signed.
FactorAccepted(r, c) ==
    /\ In(r, "mfa", "read") \/ In(r, "stepup", "read")
    /\ Verifies(req[r].secret, c) /\ Consumable(c)
    /\ acct' = Consumed(c)
    /\ spent' = spent \cup {c}
    /\ twice' = (twice \/ c \in spent)
    /\ IF req[r].op = "mfa"
       THEN sessions' = sessions \cup {Holding(r)} /\ UNCHANGED stepups
       ELSE stepups' = stepups \cup {Holding(r)} /\ UNCHANGED sessions
    /\ End(r)
    /\ UNCHANGED <<challenges, setups, rehash, step, undone>>

(***************************************************************************)
(* Account operations                                                      *)
(***************************************************************************)
\* requireMfaStepUp: the database is asked even when a cache answered for the
\* session, and with a second factor a step-up of this very version is needed.
StepUpHeld(v) == v = acct.ver /\ (acct.secret # 0 => v \in HeldBy(stepups))

\* The middleware of /api/admin lets a protected operation through.
Authorize(r, op, p) ==
    /\ req[r] = Idle
    /\ \E v \in HeldBy(sessions) : StepUpHeld(v)
    /\ req' = [req EXCEPT ![r] = Started(op, p)]
    /\ UNCHANGED <<acct, tokens, rehash, step, history>>

\* /account/mfa/step-up is not protected: a cache may answer for a session that
\* has ended.  Its handler reads the account; the second factor must be on.
StepUpUser(r) ==
    /\ req[r] = Idle
    /\ sessions # {} /\ acct.secret # 0
    /\ req' = [req EXCEPT ![r] = Read("stepup", None)]
    /\ UNCHANGED <<acct, tokens, rehash, step, history>>

\* The handler of a protected operation reads the account.  codes and disable
\* need the second factor on, enable an enrolment token of this version.
HandlerUser(r, op) ==
    /\ In(r, op, "start")
    /\ op \in {"codes", "disable"} => acct.secret # 0
    /\ req' = [req EXCEPT ![r].ver = acct.ver, ![r].secret = acct.secret, ![r].at = "read"]
    /\ UNCHANGED <<acct, tokens, rehash, step, history>>

\* setup, the password being right: a new secret for the version that was read.
Setup(r) ==
    /\ In(r, "setup", "read")
    /\ Cardinality(setups) < MaxSecret
    /\ setups' = setups \cup {<<req[r].ver, Cardinality(setups) + 1>>}
    /\ End(r)
    /\ UNCHANGED <<acct, sessions, challenges, stepups, rehash, step, history>>

\* username: names are not told apart here, so only the version is new.
Renamed(r) == [acct EXCEPT !.ver = NextVersion]

\* Fault: the sessions signed for the old password go on.
PasswordChangedSameVersion(r) == [acct EXCEPT !.pw = req[r].pw, !.legacy = FALSE]

\* chpasswd, the old password being right.
PasswordChanged(r) == [acct EXCEPT !.ver = NextVersion, !.pw = req[r].pw, !.legacy = FALSE]

\* recovery-codes: nothing is written once the second factor is off.
CodesReplaced ==
    IF acct.secret = 0 THEN {}
    ELSE {[acct EXCEPT !.ver = NextVersion, !.codes = {NextVersion}]}

\* enable: an enrolment token of the version that was read, and a code of its
\* secret that verifies now.
Enrolled(r) ==
    {Enabled(t[2], k) : t \in {u \in setups : u[1] = req[r].ver},
                        k \in {j \in (step - 1)..(step + 1) : j >= 0}}

\* What is written for each operation.
Writes(r) ==
    CASE req[r].op = "enable" -> Enrolled(r)
      [] req[r].op = "codes" -> CodesReplaced
      [] req[r].op = "disable" -> {Disabled}
      [] req[r].op = "username" -> {Renamed(r)}
      [] req[r].op = "chpasswd" -> {PasswordChanged(r)}

\* The account is written whatever became of it since, and who asked gets the
\* session of the new version.
Rotate(r) ==
    /\ \E op \in Rotations : In(r, op, "read")
    /\ acct.ver < MaxVersion
    /\ acct' \in Writes(r)
    /\ sessions' = sessions \cup
          {[ver |-> acct'.ver, by |-> "rotation", secret |-> acct'.secret, pass |-> None]}
    /\ spent' = {} /\ undone' = FALSE
    /\ End(r)
    /\ UNCHANGED <<challenges, stepups, setups, rehash, step, twice>>

\* A wrong password or code, a lock, a failing call: the request ends.
Refuse(r) ==
    /\ req[r] # Idle
    /\ End(r)
    /\ UNCHANGED <<acct, tokens, rehash, step, history>>

\* POST /logout ends all sessions, also when a cache answered for an old one.
Logout ==
    /\ sessions # {} /\ acct.ver < MaxVersion
    /\ acct' = [acct EXCEPT !.ver = NextVersion]
    /\ spent' = {} /\ undone' = FALSE
    /\ UNCHANGED <<req, tokens, rehash, step, twice>>

\* POST /admin/recovery with the service key.
Recover(p) ==
    /\ acct.ver < MaxVersion
    /\ acct' = Recovered(p)
    /\ spent' = {} /\ undone' = FALSE
    /\ UNCHANGED <<req, tokens, rehash, step, twice>>

StepPasses ==
    /\ step < MaxStep
    /\ step' = step + 1
    /\ UNCHANGED <<acct, req, tokens, rehash, history>>

Next ==
    \/ \E p \in Password : Rehash(p) \/ Recover(p)
    \/ \E r \in Request :
          \/ LoginUser(r) \/ LoginPassed(r) \/ StepUpUser(r)
          \/ \E c \in challenges : MfaUser(r, c)
          \/ \E c \in Code : FactorAccepted(r, c)
          \/ \E op \in Protected \ {"chpasswd"} : Authorize(r, op, None)
          \/ \E p \in Password : Authorize(r, "chpasswd", p)
          \/ \E op \in Protected : HandlerUser(r, op)
          \/ Setup(r) \/ Rotate(r) \/ Refuse(r)
    \/ Logout \/ StepPasses

Spec == Init /\ [][Next]_vars

-----------------------------------------------------------------------------
\* A code is accepted at most once while the account has one version, whatever
\* logins and step-ups present it at the same time: the SQL functions compare and
\* consume in one statement, and only a write that changes the version moves the
\* last step back (public.ts /login/mfa, admin.ts verifyUserMfaFactor).
FactorUsedOnce == ~ twice

\* A login session or a step-up that is still good was signed for the second
\* factor that the account has now: none if there is none, this very secret if
\* there is one.  Handlers sign for the account they read, which enrolment, removal
\* or recovery may have changed by then; the version makes such tokens worthless.
LiveTokensOfThisFactor ==
    \A t \in sessions \cup stepups :
       t.ver = acct.ver /\ t.by = "login" => t.secret = acct.secret

\* A login session that is still good was opened with the password that the account
\* has now: neither a session signed late for the row as it was read nor a challenge
\* for the old password outlives a change of password or a recovery, however late it
\* is completed (public.ts /login and /login/mfa, mfa-token.ts).  Only the background
\* task that stores a new hash of a password it read earlier can undo the present
\* one under a version that stays, and until the next.
LiveSessionsOfThisPassword ==
    \A t \in sessions :
       t.ver = acct.ver /\ t.by = "login" => t.pass = acct.pw \/ undone
=============================================================================
