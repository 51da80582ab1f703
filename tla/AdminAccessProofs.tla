------------------------- MODULE AdminAccessProofs -------------------------
(***************************************************************************)
(* For every number of requests, passwords, versions, secrets and steps:   *)
(* AdminAccess is well typed, accepts a second factor once, and no session *)
(* or step-up outlives the password or the factor it rests on.             *)
(***************************************************************************)
EXTENDS AdminAccess, FiniteSetTheorems, TLAPS

\* The requests are a function, and an enrolment's secret is a new one.
Shape == req \in [Request -> Inflight \cup {Idle}] /\ IsFiniteSet(setups)

\* What was accepted in this version cannot be consumed again.
SpentGone ==
    /\ ~twice
    /\ \A c \in spent : /\ c[1] = "totp" => c[3] <= acct.last
                        /\ c[1] = "sheet" => c[2] \notin acct.codes

\* What rests on a password rests on the account's own while the version is the same,
\* unless a late rehash undid it.
RestsOnPassword(q) == q.ver = acct.ver => q.pass = acct.pw \/ undone

\* A request knows the account as of a version that the account has or had; while the
\* account has it, the factor is the one that was read, and the password of a login
\* is the one that was checked.
KnownVersion(q) ==
    /\ q.ver <= acct.ver
    /\ q.at = "read" => q.ver \in Version
    /\ q.at = "read" /\ q.ver = acct.ver => q.secret = acct.secret
    /\ q.op \in {"login", "mfa"} => q.pass \in Password /\ RestsOnPassword(q)
    /\ q.op = "chpasswd" => q.pw \in Password

\* The same of what was signed.
SignedVersion(t) ==
    /\ t.ver <= acct.ver
    /\ t.ver = acct.ver /\ t.by = "login" => t.secret = acct.secret

VersionsHold ==
    /\ \A r \in Request : req[r] # Idle => KnownVersion(req[r])
    /\ \A t \in sessions \cup stepups : SignedVersion(t)
    /\ \A t \in sessions : t.by = "login" => RestsOnPassword(t)
    /\ \A c \in challenges : c.ver <= acct.ver /\ RestsOnPassword(c)

AccessInv == TypeOK /\ Shape /\ SpentGone /\ VersionsHold
-----------------------------------------------------------------------------
LEMMA AccessInit == Init => AccessInv
<1> SUFFICES ASSUME Init PROVE AccessInv
  OBVIOUS
<1> USE LimitsAssumption
<1>1. PICK p \in Password : acct = [ver |-> 1, pw |-> p, secret |-> 0, last |-> -1,
                                  codes |-> {}, legacy |-> TRUE]
  BY DEF Init
<1>2. acct \in User
  <2>1. 1 \in Version /\ 0 \in 0..MaxSecret /\ -1 \in -1..MaxStep + 1 /\ {} \in SUBSET Version
    BY DEF Version
  <2> DEFINE m == -1
  <2>2. acct = [ver |-> 1, pw |-> p, secret |-> 0, last |-> m, codes |-> {}, legacy |-> TRUE]
    BY <1>1
  <2>3. m \in -1..MaxStep + 1
    BY <2>1
  <2> HIDE LimitsAssumption DEF m
  <2> QED BY <2>1, <2>2, <2>3 DEF User
<1>3. Shape
  BY FS_EmptySet DEF Init, Shape
<1>4. TypeOK
  <2>1. step \in 0..MaxStep /\ \A r \in Request : req[r] = Idle
    BY DEF Init
  <2>2. /\ sessions = {} /\ challenges = {} /\ stepups = {} /\ setups = {} /\ rehash = {}
        /\ spent = {} /\ twice = FALSE /\ undone = FALSE
    BY DEF Init
  <2> QED BY <1>2, <2>1, <2>2 DEF TypeOK
<1>5. SpentGone /\ VersionsHold
  BY DEF Init, SpentGone, VersionsHold
<1> QED BY <1>3, <1>4, <1>5 DEF AccessInv

\* One request gets a new record and the others keep theirs.
LEMMA OneRequest ==
    ASSUME Shape, NEW r \in Request, NEW q \in Inflight \cup {Idle},
           req' = [req EXCEPT ![r] = q], setups' = setups
    PROVE  /\ Shape' /\ req'[r] = q
           /\ \A s \in Request \ {r} : req'[s] = req[s]
           /\ \A s \in Request : req'[s] = Idle \/ req'[s] \in Inflight
BY DEF Shape

\* A record of the requests in flight is not the idle one.
LEMMA InflightNotIdle == Idle \notin Inflight
<1>1. Idle.op = "none"
  BY DEF Idle
<1>2. \A q \in Inflight : q.op \in {"login", "mfa", "stepup"} \cup Protected
  BY DEF Inflight
<1> QED BY <1>1, <1>2 DEF Protected, Rotations

\* A step either keeps the account's version, factor and password, the password up to
\* a late rehash, or makes a new version.
Moves == \/ /\ acct'.ver = acct.ver /\ acct'.secret = acct.secret
            /\ undone' \/ (acct'.pw = acct.pw /\ ~undone)
         \/ acct'.ver = acct.ver + 1

\* What is known of versions survives such a step, if it holds of what the step adds.
LEMMA VersionsCarry ==
    ASSUME AccessInv, TypeOK', Moves,
           \A r \in Request : \/ req'[r] = Idle
                              \/ req'[r] = req[r]
                              \/ KnownVersion(req[r])',
           \A t \in sessions' \cup stepups' : t \in sessions \cup stepups \/ SignedVersion(t)',
           \A t \in sessions' : t \in sessions \/ (t.by = "login" => RestsOnPassword(t)'),
           \A c \in challenges' :
              c \in challenges \/ (c.ver <= acct'.ver /\ RestsOnPassword(c)')
    PROVE  VersionsHold'
<1>1. acct.ver \in Nat
  BY LimitsAssumption DEF AccessInv, TypeOK, User, Version
<1>2. ASSUME NEW r \in Request, req'[r] # Idle PROVE KnownVersion(req[r])'
  <2>1. CASE req'[r] = req[r]
    <3>1. KnownVersion(req[r]) /\ req[r].ver \in Nat
      BY <1>2, <2>1, LimitsAssumption
      DEF AccessInv, TypeOK, VersionsHold, Inflight
    <3>2. RestsOnPassword(req[r]) => RestsOnPassword(req[r])'
      BY <1>1, <2>1, <3>1 DEF RestsOnPassword, KnownVersion, Moves
    <3> QED BY <1>1, <2>1, <3>1, <3>2 DEF KnownVersion, Moves
  <2> QED BY <1>2, <2>1
<1>3. ASSUME NEW t \in sessions' \cup stepups' PROVE SignedVersion(t)'
  <2>1. CASE t \in sessions \cup stepups
    <3>1. SignedVersion(t) /\ t.ver \in Nat
      BY <2>1, LimitsAssumption DEF AccessInv, TypeOK, VersionsHold, Token, Version
    <3> QED BY <1>1, <3>1 DEF SignedVersion, Moves
  <2> QED BY <1>3, <2>1
<1>4. ASSUME NEW t \in sessions', t.by = "login" PROVE RestsOnPassword(t)'
  <2>1. CASE t \in sessions
    <3>1. SignedVersion(t) /\ RestsOnPassword(t) /\ t.ver \in Nat
      BY <1>4, <2>1, LimitsAssumption DEF AccessInv, TypeOK, VersionsHold, Token, Version
    <3> QED BY <1>1, <3>1 DEF SignedVersion, RestsOnPassword, Moves
  <2> QED BY <1>4, <2>1
<1>5. ASSUME NEW c \in challenges' PROVE c.ver <= acct'.ver /\ RestsOnPassword(c)'
  <2>1. CASE c \in challenges
    <3>1. c.ver <= acct.ver /\ RestsOnPassword(c) /\ c.ver \in Nat
      BY <2>1, LimitsAssumption DEF AccessInv, TypeOK, VersionsHold, Challenge, Version
    <3> QED BY <1>1, <3>1 DEF RestsOnPassword, Moves
  <2> QED BY <1>5, <2>1
<1> QED BY <1>2, <1>3, <1>4, <1>5 DEF VersionsHold

\* A step of one request that writes no account and signs no session.
LEMMA RequestKeeps ==
    ASSUME AccessInv, NEW r \in Request, NEW q \in Inflight \cup {Idle},
           req' = [req EXCEPT ![r] = q], q = Idle \/ KnownVersion(q),
           challenges' \subseteq Challenge, rehash' \subseteq Password,
           \A c \in challenges' :
              c \in challenges \/ (c.ver <= acct.ver /\ RestsOnPassword(c)),
           UNCHANGED <<acct, sessions, stepups, setups, step, history>>
    PROVE  AccessInv'
<1>1. TypeOK /\ Shape /\ SpentGone
  BY DEF AccessInv
<1>2. /\ Shape' /\ req'[r] = q
      /\ \A s \in Request \ {r} : req'[s] = req[s]
      /\ \A s \in Request : req'[s] = Idle \/ req'[s] \in Inflight
  BY <1>1, OneRequest
<1>3. TypeOK'
  BY <1>1, <1>2 DEF TypeOK, history
<1>4. SpentGone'
  BY <1>1 DEF SpentGone, history
<1>5. Moves
  BY <1>1 DEF Moves, history, TypeOK
<1>6. \A s \in Request : req'[s] = Idle \/ req'[s] = req[s] \/ KnownVersion(req[s])'
  <2>1. KnownVersion(q) => KnownVersion(req[r])'
    BY <1>2 DEF KnownVersion, RestsOnPassword, history
  <2> QED BY <1>2, <2>1
<1>c. \A c \in challenges' : c \in challenges \/ (c.ver <= acct'.ver /\ RestsOnPassword(c)')
  BY DEF RestsOnPassword, history
<1>7. VersionsHold'
  BY <1>3, <1>5, <1>6, <1>c, VersionsCarry
<1> QED BY <1>2, <1>3, <1>4, <1>7 DEF AccessInv

\* A request that has just read the account.
LEMMA ReadKnown ==
    ASSUME AccessInv, NEW op \in {"login", "mfa", "stepup"}, NEW p \in Password \cup {None},
           op # "stepup" => p \in Password /\ (p = acct.pw \/ undone)
    PROVE  Read(op, p) \in Inflight /\ KnownVersion(Read(op, p))
<1>1. acct.ver \in Version /\ acct.ver \in 0..MaxVersion /\ acct.secret \in 0..MaxSecret
  BY LimitsAssumption DEF AccessInv, TypeOK, User, Version
<1>2. Read(op, p) \in Inflight
  BY <1>1 DEF Read, Inflight
<1>3. KnownVersion(Read(op, p))
  BY <1>1 DEF Read, KnownVersion, RestsOnPassword, Version
<1> QED BY <1>2, <1>3

LEMMA LoginUserKeeps ==
    ASSUME AccessInv, NEW r \in Request, LoginUser(r) PROVE AccessInv'
<1>1. acct.ver \in 0..MaxVersion /\ acct.pw \in Password /\ rehash \subseteq Password
      /\ challenges \subseteq Challenge
  BY LimitsAssumption DEF AccessInv, TypeOK, User, Version
<1>2. Read("login", acct.pw) \in Inflight /\ KnownVersion(Read("login", acct.pw))
  BY <1>1, ReadKnown
<1>3. /\ req' = [req EXCEPT ![r] = Read("login", acct.pw)] /\ rehash' \subseteq Password
      /\ challenges' \subseteq Challenge /\ challenges' = challenges
      /\ UNCHANGED <<acct, sessions, stepups, setups, step, history>>
  BY <1>1 DEF LoginUser, tokens
<1> QED BY <1>2, <1>3, RequestKeeps

LEMMA MfaUserKeeps ==
    ASSUME AccessInv, NEW r \in Request, NEW c \in challenges, MfaUser(r, c) PROVE AccessInv'
<1>1. /\ c.pass \in Password /\ (c.pass = acct.pw \/ undone)
      /\ rehash \subseteq Password /\ challenges \subseteq Challenge
  BY DEF AccessInv, TypeOK, VersionsHold, RestsOnPassword, Challenge, MfaUser, ChallengeHeld
<1>2. Read("mfa", c.pass) \in Inflight /\ KnownVersion(Read("mfa", c.pass))
  BY <1>1, ReadKnown
<1>3. /\ req' = [req EXCEPT ![r] = Read("mfa", c.pass)] /\ rehash' \subseteq Password
      /\ challenges' \subseteq Challenge /\ challenges' = challenges
      /\ UNCHANGED <<acct, sessions, stepups, setups, step, history>>
  BY <1>1 DEF MfaUser, tokens
<1> QED BY <1>2, <1>3, RequestKeeps

LEMMA StepUpUserKeeps ==
    ASSUME AccessInv, NEW r \in Request, StepUpUser(r) PROVE AccessInv'
<1>1. rehash \subseteq Password /\ challenges \subseteq Challenge
  BY LimitsAssumption DEF AccessInv, TypeOK
<1>2. Read("stepup", None) \in Inflight /\ KnownVersion(Read("stepup", None))
  BY <1>1, ReadKnown
<1>3. /\ req' = [req EXCEPT ![r] = Read("stepup", None)] /\ rehash' \subseteq Password
      /\ challenges' \subseteq Challenge /\ challenges' = challenges
      /\ UNCHANGED <<acct, sessions, stepups, setups, step, history>>
  BY <1>1 DEF StepUpUser, tokens
<1> QED BY <1>2, <1>3, RequestKeeps

LEMMA AuthorizeKeeps ==
    ASSUME AccessInv, NEW r \in Request, NEW op \in Protected, NEW p \in Password \cup {None},
           op = "chpasswd" => p \in Password, Authorize(r, op, p)
    PROVE  AccessInv'
<1>1. 0 \in 0..MaxVersion /\ 0 \in 0..MaxSecret /\ acct.ver \in Nat
      /\ rehash \subseteq Password /\ challenges \subseteq Challenge
  BY LimitsAssumption DEF AccessInv, TypeOK, User, Version
<1>2. Started(op, p) \in Inflight
  BY <1>1 DEF Started, Inflight
<1>3. KnownVersion(Started(op, p))
  BY <1>1 DEF Started, KnownVersion, Protected, Rotations
<1>4. /\ req' = [req EXCEPT ![r] = Started(op, p)] /\ rehash' \subseteq Password
      /\ challenges' \subseteq Challenge /\ challenges' = challenges
      /\ UNCHANGED <<acct, sessions, stepups, setups, step, history>>
  BY <1>1 DEF Authorize, tokens
<1> QED BY <1>2, <1>3, <1>4, RequestKeeps

LEMMA HandlerUserKeeps ==
    ASSUME AccessInv, NEW r \in Request, NEW op \in Protected, HandlerUser(r, op)
    PROVE  AccessInv'
<1> DEFINE q == [req[r] EXCEPT !.ver = acct.ver, !.secret = acct.secret, !.at = "read"]
<1>1. /\ acct.ver \in Version /\ acct.ver \in 0..MaxVersion /\ acct.secret \in 0..MaxSecret
      /\ rehash \subseteq Password /\ challenges \subseteq Challenge
  BY LimitsAssumption DEF AccessInv, TypeOK, User, Version
<1>2. req[r] \in Inflight /\ req[r].op = op /\ KnownVersion(req[r])
  BY DEF AccessInv, TypeOK, VersionsHold, HandlerUser, In
<1>3. /\ q \in Inflight /\ q.ver = acct.ver /\ q.secret = acct.secret /\ q.at = "read"
      /\ q.op = op /\ q.pw = req[r].pw
  BY <1>1, <1>2 DEF Inflight
<1>4. req' = [req EXCEPT ![r] = q]
  BY DEF HandlerUser, AccessInv, Shape
<1> HIDE DEF q
<1>5. KnownVersion(q)
  BY <1>1, <1>2, <1>3 DEF KnownVersion, Protected, Rotations, Version
<1>6. /\ rehash' \subseteq Password /\ challenges' \subseteq Challenge /\ challenges' = challenges
      /\ UNCHANGED <<acct, sessions, stepups, setups, step, history>>
  BY <1>1 DEF HandlerUser, tokens
<1> QED BY <1>3, <1>4, <1>5, <1>6, RequestKeeps

LEMMA RefuseKeeps ==
    ASSUME AccessInv, NEW r \in Request, Refuse(r) PROVE AccessInv'
<1>1. /\ req' = [req EXCEPT ![r] = Idle] /\ rehash' \subseteq Password
      /\ challenges' \subseteq Challenge /\ challenges' = challenges
      /\ UNCHANGED <<acct, sessions, stepups, setups, step, history>>
  BY DEF Refuse, End, tokens, AccessInv, TypeOK
<1> QED BY <1>1, RequestKeeps
-----------------------------------------------------------------------------
\* The token a request signs is of the version it has read.
LEMMA HoldingSigned ==
    ASSUME AccessInv, NEW r \in Request, req[r] # Idle, req[r].at = "read"
    PROVE  /\ Holding(r) \in Token /\ SignedVersion(Holding(r))
           /\ req[r].op \in {"login", "mfa"} => RestsOnPassword(Holding(r))
<1>1. req[r] \in Inflight /\ KnownVersion(req[r])
  BY DEF AccessInv, TypeOK, VersionsHold
<1>2. req[r].ver \in Version /\ req[r].secret \in 0..MaxSecret /\ req[r].pass \in Password \cup {None}
  BY <1>1 DEF Inflight, KnownVersion
<1>3. Holding(r) \in Token
  BY <1>2 DEF Holding, Token
<1> QED BY <1>1, <1>3 DEF Holding, SignedVersion, KnownVersion, RestsOnPassword

LEMMA LoginPassedKeeps ==
    ASSUME AccessInv, NEW r \in Request, LoginPassed(r) PROVE AccessInv'
<1>1. TypeOK /\ Shape /\ SpentGone /\ req[r] # Idle /\ req[r].at = "read" /\ req[r].op = "login"
  BY DEF AccessInv, LoginPassed, In
<1>2. req' = [req EXCEPT ![r] = Idle] /\ UNCHANGED <<acct, stepups, setups, rehash, step, history>>
  BY DEF LoginPassed, End
<1>3. CASE req[r].secret # 0
  <2> DEFINE ch == [ver |-> req[r].ver, pass |-> req[r].pass]
  <2>1. challenges' = challenges \cup {ch} /\ UNCHANGED sessions
    BY <1>3 DEF LoginPassed
  <2>2. /\ req[r].ver \in Version /\ req[r].ver <= acct.ver /\ req[r].pass \in Password
        /\ RestsOnPassword(req[r])
    BY <1>1 DEF AccessInv, VersionsHold, KnownVersion
  <2>3. ch \in Challenge /\ ch.ver <= acct.ver /\ RestsOnPassword(ch)
    BY <2>2 DEF Challenge, RestsOnPassword
  <2> HIDE DEF ch
  <2>4. challenges' \subseteq Challenge /\ rehash' \subseteq Password
    BY <1>1, <1>2, <2>1, <2>3 DEF TypeOK
  <2> QED BY <1>2, <2>1, <2>3, <2>4, RequestKeeps
<1>4. CASE req[r].secret = 0
  <2>1. sessions' = sessions \cup {Holding(r)} /\ UNCHANGED challenges
    BY <1>4 DEF LoginPassed
  <2>2. /\ Holding(r) \in Token /\ SignedVersion(Holding(r))
        /\ RestsOnPassword(Holding(r))
    BY <1>1, HoldingSigned
  <2>3. /\ Shape' /\ req'[r] = Idle
        /\ \A s \in Request \ {r} : req'[s] = req[s]
        /\ \A s \in Request : req'[s] = Idle \/ req'[s] \in Inflight
    BY <1>1, <1>2, OneRequest
  <2>4. TypeOK'
    BY <1>1, <1>2, <2>1, <2>2, <2>3 DEF TypeOK, history
  <2>5. SpentGone' /\ Moves
    BY <1>1, <1>2 DEF SpentGone, history, Moves, TypeOK
  <2>6. \A t : t = Holding(r) => SignedVersion(t)' /\ RestsOnPassword(t)'
    BY <1>2, <2>2 DEF SignedVersion, RestsOnPassword, history
  <2>7. \A t \in sessions' \cup stepups' : t \in sessions \cup stepups \/ SignedVersion(t)'
    BY <1>2, <2>1, <2>2, <2>6
  <2>8. \A t \in sessions' : t \in sessions \/ (t.by = "login" => RestsOnPassword(t)')
    BY <2>1, <2>6
  <2>9. \A s \in Request : req'[s] = Idle \/ req'[s] = req[s]
    BY <2>3
  <2>10. VersionsHold'
    BY <2>1, <2>4, <2>5, <2>7, <2>8, <2>9, VersionsCarry
  <2> QED BY <2>3, <2>4, <2>5, <2>10 DEF AccessInv
<1> QED BY <1>3, <1>4

LEMMA FactorAcceptedKeeps ==
    ASSUME AccessInv, NEW r \in Request, NEW c \in Code, FactorAccepted(r, c)
    PROVE  AccessInv'
<1>1. /\ TypeOK /\ Shape /\ SpentGone /\ req[r] # Idle /\ req[r].at = "read"
      /\ req[r].op \in {"mfa", "stepup"}
  BY DEF AccessInv, FactorAccepted, In
<1>2. /\ req' = [req EXCEPT ![r] = Idle] /\ UNCHANGED <<challenges, setups, rehash, step, undone>>
      /\ Consumable(c) /\ acct' = Consumed(c) /\ spent' = spent \cup {c}
      /\ twice' = (twice \/ c \in spent)
  BY DEF FactorAccepted, End
<1>3. /\ Shape' /\ req'[r] = Idle
      /\ \A s \in Request \ {r} : req'[s] = req[s]
      /\ \A s \in Request : req'[s] = Idle \/ req'[s] \in Inflight
  BY <1>1, <1>2, OneRequest
<1>4. \/ c[1] = "totp" /\ c[3] \in 0..MaxStep + 1
      \/ c[1] = "sheet" /\ c[2] \in Version
  BY DEF Code, Totp, Sheet
<1>5. /\ acct' \in User /\ acct'.ver = acct.ver /\ acct'.secret = acct.secret
      /\ acct'.pw = acct.pw
      /\ acct.last \in Int
      /\ c[1] = "totp" => acct.last < c[3] /\ acct'.last = c[3] /\ acct'.codes = acct.codes
      /\ c[1] = "sheet" => /\ c[2] \in acct.codes /\ acct'.codes = acct.codes \ {c[2]}
                          /\ acct'.last = acct.last
  <2>1. acct \in User /\ acct.last \in -1..MaxStep + 1 /\ acct.codes \subseteq Version
    BY <1>1 DEF TypeOK, User
  <2>2. CASE c[1] = "totp"
    <3>1. acct' = [acct EXCEPT !.last = c[3]] /\ acct.last < c[3]
      BY <1>2, <2>2 DEF Consumed, Consumable
    <3>2. c[3] \in -1..MaxStep + 1
      BY <1>4, <2>2, LimitsAssumption
    <3> QED BY <2>1, <2>2, <3>1, <3>2 DEF User
  <2>3. CASE c[1] = "sheet"
    <3>1. acct' = [acct EXCEPT !.codes = acct.codes \ {c[2]}] /\ c[2] \in acct.codes
      BY <1>2, <2>3 DEF Consumed, Consumable
    <3>2. acct.codes \ {c[2]} \in SUBSET Version
      BY <2>1
    <3> QED BY <2>1, <2>3, <3>1, <3>2 DEF User
  <2> QED BY <1>4, <2>2, <2>3
<1>6. c \notin spent
  BY <1>1, <1>4, <1>5 DEF SpentGone, Version
<1>7. SpentGone'
  <2>1. ~twice'
    BY <1>1, <1>2, <1>6 DEF SpentGone
  <2>2. ASSUME NEW d \in spent'
        PROVE  /\ d[1] = "totp" => d[3] <= acct'.last
               /\ d[1] = "sheet" => d[2] \notin acct'.codes
    <3>1. CASE d = c
      BY <1>4, <1>5, <3>1
    <3>2. CASE d \in spent
      <4>1. d[1] = "totp" => d[3] \in Int
        BY <1>1, <3>2 DEF TypeOK, Code, Totp, Sheet
      <4> QED BY <1>1, <1>4, <1>5, <3>2, <4>1 DEF SpentGone
    <3> QED BY <1>2, <2>2, <3>1, <3>2
  <2> QED BY <2>1, <2>2 DEF SpentGone
<1>8. /\ Holding(r) \in Token /\ SignedVersion(Holding(r))
      /\ req[r].op = "mfa" => RestsOnPassword(Holding(r))
  BY <1>1, HoldingSigned
<1>9. \/ sessions' = sessions \cup {Holding(r)} /\ stepups' = stepups /\ req[r].op = "mfa"
      \/ stepups' = stepups \cup {Holding(r)} /\ sessions' = sessions
  BY <1>1 DEF FactorAccepted
<1>10. TypeOK'
  <2>1. sessions' \subseteq Token /\ stepups' \subseteq Token
    BY <1>1, <1>8, <1>9 DEF TypeOK
  <2>2. spent' \subseteq Code /\ twice' \in BOOLEAN
    BY <1>1, <1>2 DEF TypeOK
  <2> QED BY <1>1, <1>2, <1>3, <1>5, <2>1, <2>2 DEF TypeOK
<1>11. ASSUME NEW t, t = Holding(r)
       PROVE  SignedVersion(t)' /\ (req[r].op = "mfa" => RestsOnPassword(t)')
  BY <1>2, <1>5, <1>8, <1>11 DEF SignedVersion, RestsOnPassword
<1>12. \A t \in sessions' \cup stepups' : t \in sessions \cup stepups \/ SignedVersion(t)'
  BY <1>9, <1>11
<1>13. \A t \in sessions' : t \in sessions \/ (t.by = "login" => RestsOnPassword(t)')
  BY <1>9, <1>11
<1>14. Moves /\ \A s \in Request : req'[s] = Idle \/ req'[s] = req[s]
  BY <1>1, <1>2, <1>3, <1>5 DEF Moves, TypeOK
<1>15. VersionsHold'
  BY <1>2, <1>10, <1>12, <1>13, <1>14, VersionsCarry
<1> QED BY <1>3, <1>7, <1>10, <1>15 DEF AccessInv

LEMMA SetupKeeps ==
    ASSUME AccessInv, NEW r \in Request, Setup(r) PROVE AccessInv'
<1> DEFINE n == Cardinality(setups) + 1
<1>1. TypeOK /\ Shape /\ SpentGone /\ VersionsHold /\ req[r] # Idle /\ req[r].at = "read"
  BY DEF AccessInv, Setup, In
<1>2. /\ req' = [req EXCEPT ![r] = Idle] /\ setups' = setups \cup {<<req[r].ver, n>>}
      /\ UNCHANGED <<acct, sessions, challenges, stepups, rehash, step, history>>
      /\ Cardinality(setups) < MaxSecret
  BY DEF Setup, End
<1>3. Cardinality(setups) \in Nat /\ IsFiniteSet(setups')
  BY <1>1, <1>2, FS_CardinalityType, FS_AddElement DEF Shape
<1>4. n \in Secret /\ req[r].ver \in Version
  BY <1>1, <1>2, <1>3, LimitsAssumption DEF Secret, VersionsHold, KnownVersion
<1> HIDE DEF n
<1>5. /\ req' \in [Request -> Inflight \cup {Idle}]
      /\ \A s \in Request : req'[s] = Idle \/ req'[s] = req[s]
  BY <1>1, <1>2 DEF Shape
<1>6. Shape'
  BY <1>3, <1>5 DEF Shape
<1>7. TypeOK'
  <2>1. setups' \subseteq Version \X Secret
    BY <1>1, <1>2, <1>4 DEF TypeOK
  <2>2. \A s \in Request : req'[s] = Idle \/ req'[s] \in Inflight
    BY <1>5
  <2> QED BY <1>1, <1>2, <2>1, <2>2 DEF TypeOK, history
<1>8. SpentGone' /\ Moves
  BY <1>1, <1>2 DEF SpentGone, history, Moves, TypeOK
<1>9. VersionsHold'
  BY <1>2, <1>5, <1>7, <1>8, VersionsCarry
<1> QED BY <1>6, <1>7, <1>8, <1>9 DEF AccessInv

\* A write that makes a new version: what was read or signed before is of an older
\* one, and nothing has been accepted yet in the new one.
LEMMA NewVersionKeeps ==
    ASSUME AccessInv, acct' \in User, acct'.ver = acct.ver + 1,
           req' \in [Request -> Inflight \cup {Idle}],
           \A r \in Request : req'[r] = Idle \/ req'[r] = req[r],
           sessions' \subseteq Token,
           \A t \in sessions' : t \in sessions \/ (t.by = "rotation" /\ t.ver = acct'.ver),
           spent' = {}, undone' = FALSE, UNCHANGED <<challenges, stepups, setups, rehash, step, twice>>
    PROVE  AccessInv'
<1>1. TypeOK /\ Shape /\ SpentGone /\ VersionsHold
  BY DEF AccessInv
<1>2. TypeOK'
  <2>1. \A r \in Request : req'[r] = Idle \/ req'[r] \in Inflight
    OBVIOUS
  <2> QED BY <1>1, <2>1 DEF TypeOK
<1>3. Shape' /\ SpentGone' /\ Moves
  BY <1>1 DEF Shape, SpentGone, Moves
<1>4. acct'.ver \in Nat
  BY LimitsAssumption DEF User, Version
<1>5. \A t \in sessions' \cup stepups' : t \in sessions \cup stepups \/ SignedVersion(t)'
  BY <1>4 DEF SignedVersion
<1>6. VersionsHold'
  BY <1>2, <1>3, <1>5, VersionsCarry
<1> QED BY <1>2, <1>3, <1>6 DEF AccessInv

\* Every write of Rotate makes a new version of a well-typed account.
LEMMA RotateKeeps ==
    ASSUME AccessInv, NEW r \in Request, Rotate(r) PROVE AccessInv'
<1>1. TypeOK /\ Shape /\ VersionsHold /\ acct \in User
  BY DEF AccessInv, TypeOK
<1>2. PICK op \in Rotations : In(r, op, "read")
  BY DEF Rotate
<1>3. req[r] \in Inflight /\ req[r].op = op /\ KnownVersion(req[r])
  BY <1>1, <1>2 DEF In, TypeOK, VersionsHold
<1>4. acct.ver + 1 \in Version /\ NextVersion = acct.ver + 1
  BY <1>1, LimitsAssumption DEF Rotate, User, Version, NextVersion
<1>5. acct' \in Writes(r)
  BY DEF Rotate
<1>6. acct' \in User /\ acct'.ver = acct.ver + 1
  <2>1. CASE op = "enable"
    <3>1. PICK u \in setups, k \in {j \in (step - 1)..(step + 1) : j >= 0} :
            acct' = Enabled(u[2], k)
      BY <1>3, <1>5, <2>1 DEF Writes, Enrolled
    <3>2. u[2] \in 0..MaxSecret
      BY <1>1, LimitsAssumption DEF TypeOK, Secret
    <3>3. k \in -1..MaxStep + 1
      BY <1>1, LimitsAssumption DEF TypeOK
    <3>4. acct' = [acct EXCEPT !.ver = acct.ver + 1, !.secret = u[2], !.last = k,
                               !.codes = {acct.ver + 1}]
      BY <1>4, <3>1 DEF Enabled
    <3>5. {acct.ver + 1} \in SUBSET Version
      BY <1>4
    <3> QED BY <1>1, <1>4, <3>2, <3>3, <3>4, <3>5 DEF User
  <2>2. CASE op = "codes"
    <3>1. acct' = [acct EXCEPT !.ver = acct.ver + 1, !.codes = {acct.ver + 1}]
      BY <1>3, <1>4, <1>5, <2>2 DEF Writes, CodesReplaced
    <3>2. {acct.ver + 1} \in SUBSET Version
      BY <1>4
    <3> QED BY <1>1, <1>4, <3>1, <3>2 DEF User
  <2>3. CASE op = "disable"
    <3>1. acct' = [acct EXCEPT !.ver = acct.ver + 1, !.secret = 0, !.last = -1, !.codes = {}]
      BY <1>3, <1>4, <1>5, <2>3 DEF Writes, Disabled
    <3>2. 0 \in 0..MaxSecret /\ -1 \in -1..MaxStep + 1 /\ {} \in SUBSET Version
      BY LimitsAssumption
    <3> QED BY <1>1, <1>4, <3>1, <3>2 DEF User
  <2>4. CASE op = "username"
    <3>1. acct' = [acct EXCEPT !.ver = acct.ver + 1]
      BY <1>3, <1>4, <1>5, <2>4 DEF Writes, Renamed
    <3> QED BY <1>1, <1>4, <3>1 DEF User
  <2>5. CASE op = "chpasswd"
    <3>1. acct' = [acct EXCEPT !.ver = acct.ver + 1, !.pw = req[r].pw, !.legacy = FALSE]
      BY <1>3, <1>4, <1>5, <2>5 DEF Writes, PasswordChanged
    <3>2. req[r].pw \in Password
      BY <1>3, <2>5 DEF KnownVersion
    <3> QED BY <1>1, <1>4, <3>1, <3>2 DEF User
  <2> QED BY <2>1, <2>2, <2>3, <2>4, <2>5 DEF Rotations
<1>7. /\ req' \in [Request -> Inflight \cup {Idle}]
      /\ \A s \in Request : req'[s] = Idle \/ req'[s] = req[s]
  BY <1>1 DEF Rotate, End, Shape
<1>8. [ver |-> acct'.ver, by |-> "rotation", secret |-> acct'.secret, pass |-> None] \in Token
  BY <1>6, LimitsAssumption DEF User, Token
<1>9. /\ sessions' \subseteq Token
      /\ \A t \in sessions' : t \in sessions \/ (t.by = "rotation" /\ t.ver = acct'.ver)
  BY <1>1, <1>8 DEF Rotate, TypeOK
<1>10. spent' = {} /\ undone' = FALSE /\ UNCHANGED <<challenges, stepups, setups, rehash, step, twice>>
  BY DEF Rotate
<1> QED BY <1>6, <1>7, <1>9, <1>10, NewVersionKeeps

LEMMA LogoutRecoverKeeps ==
    ASSUME AccessInv, NEW p \in Password, Logout \/ Recover(p) PROVE AccessInv'
<1>1. acct \in User /\ Shape /\ sessions \subseteq Token
  BY DEF AccessInv, TypeOK
<1>2. acct.ver + 1 \in Version /\ NextVersion = acct.ver + 1
  BY <1>1, LimitsAssumption DEF Logout, Recover, User, Version, NextVersion
<1>3. acct' \in User /\ acct'.ver = acct.ver + 1
  <2>1. CASE Logout
    <3>1. acct' = [acct EXCEPT !.ver = acct.ver + 1]
      BY <1>2, <2>1 DEF Logout
    <3> QED BY <1>1, <1>2, <3>1 DEF User
  <2>2. CASE Recover(p)
    <3>1. acct' = [acct EXCEPT !.ver = acct.ver + 1, !.secret = 0, !.last = -1, !.codes = {},
                               !.pw = p, !.legacy = FALSE]
      BY <1>1, <1>2, <2>2 DEF Recover, Recovered, Disabled, User
    <3>2. 0 \in 0..MaxSecret /\ -1 \in -1..MaxStep + 1 /\ {} \in SUBSET Version
      BY LimitsAssumption
    <3> QED BY <1>1, <1>2, <3>1, <3>2 DEF User
  <2> QED BY <2>1, <2>2
<1>4. /\ spent' = {} /\ undone' = FALSE
      /\ UNCHANGED <<req, sessions, challenges, stepups, setups, rehash, step, twice>>
  BY DEF Logout, Recover, tokens
<1>5. req' \in [Request -> Inflight \cup {Idle}] /\ \A s \in Request : req'[s] = req[s]
  BY <1>1, <1>4 DEF Shape
<1> QED BY <1>1, <1>3, <1>4, <1>5, NewVersionKeeps

\* A new hash, a new time step or nothing: the factor and the versions stay.
LEMMA SmallKeeps ==
    ASSUME AccessInv, NEW p \in Password, Rehash(p) \/ StepPasses \/ UNCHANGED vars
    PROVE  AccessInv'
<1>1. TypeOK /\ Shape /\ SpentGone /\ acct \in User
  BY DEF AccessInv, TypeOK
<1>2. /\ acct' \in User /\ acct'.ver = acct.ver /\ acct'.secret = acct.secret
      /\ acct'.last = acct.last /\ acct'.codes = acct.codes
  <2>1. acct' = [acct EXCEPT !.pw = p, !.legacy = FALSE] \/ acct' = acct
    BY DEF Rehash, StepPasses, vars
  <2> QED BY <1>1, <2>1 DEF User
<1>3. UNCHANGED <<req, sessions, challenges, stepups, setups, spent, twice>>
  BY DEF Rehash, StepPasses, vars, tokens, history
<1>m. undone' \in BOOLEAN /\ (undone' \/ (acct'.pw = acct.pw /\ ~undone))
  <2>1. CASE Rehash(p)
    BY <1>1, <2>1 DEF Rehash, User, TypeOK
  <2>2. CASE StepPasses \/ UNCHANGED vars
    BY <1>1, <2>2 DEF StepPasses, vars, history, TypeOK
  <2> QED BY <2>1, <2>2
<1>4. rehash' \subseteq Password /\ step' \in 0..MaxStep
  BY <1>1, LimitsAssumption DEF Rehash, StepPasses, vars, TypeOK
<1>5. TypeOK'
  BY <1>1, <1>2, <1>3, <1>4, <1>m DEF TypeOK
<1>6. Shape' /\ SpentGone' /\ Moves
  BY <1>1, <1>2, <1>3, <1>m DEF Shape, SpentGone, Moves
<1>7. VersionsHold'
  BY <1>3, <1>5, <1>6, VersionsCarry
<1> QED BY <1>5, <1>6, <1>7 DEF AccessInv

LEMMA AccessStep == AccessInv /\ [Next]_vars => AccessInv'
<1> SUFFICES ASSUME AccessInv, [Next]_vars PROVE AccessInv'
  OBVIOUS
<1>1. PICK p0 \in Password : TRUE
  BY LimitsAssumption
<1>2. CASE UNCHANGED vars \/ StepPasses
  BY <1>1, <1>2, SmallKeeps
<1>3. CASE Logout
  BY <1>1, <1>3, LogoutRecoverKeeps
<1>4. ASSUME NEW p \in Password, Rehash(p) \/ Recover(p) PROVE AccessInv'
  BY <1>4, SmallKeeps, LogoutRecoverKeeps
<1>5. ASSUME NEW r \in Request,
             LoginUser(r) \/ LoginPassed(r) \/ StepUpUser(r) \/ Setup(r) \/ Rotate(r) \/ Refuse(r)
      PROVE  AccessInv'
  BY <1>5, LoginUserKeeps, LoginPassedKeeps, StepUpUserKeeps, SetupKeeps, RotateKeeps, RefuseKeeps
<1>6. ASSUME NEW r \in Request, NEW c \in challenges, MfaUser(r, c) PROVE AccessInv'
  BY <1>6, MfaUserKeeps
<1>7. ASSUME NEW r \in Request, NEW c \in Code, FactorAccepted(r, c) PROVE AccessInv'
  BY <1>7, FactorAcceptedKeeps
<1>8. ASSUME NEW r \in Request, NEW op \in Protected \ {"chpasswd"}, Authorize(r, op, None)
      PROVE  AccessInv'
  BY <1>8, AuthorizeKeeps
<1>9. ASSUME NEW r \in Request, NEW p \in Password, Authorize(r, "chpasswd", p) PROVE AccessInv'
  <2>1. "chpasswd" \in Protected
    BY DEF Protected, Rotations
  <2> QED BY <1>9, <2>1, AuthorizeKeeps
<1>10. ASSUME NEW r \in Request, NEW op \in Protected, HandlerUser(r, op) PROVE AccessInv'
  BY <1>10, HandlerUserKeeps
<1> QED BY <1>2, <1>3, <1>4, <1>5, <1>6, <1>7, <1>8, <1>9, <1>10 DEF Next

LEMMA AccessAlways == Spec => []AccessInv
BY AccessInit, AccessStep, PTL DEF Spec
-----------------------------------------------------------------------------
\* The account, the requests and all signed tokens are always well typed.
THEOREM AccessTypes == Spec => []TypeOK
<1>1. AccessInv => TypeOK
  BY DEF AccessInv
<1> QED BY <1>1, AccessAlways, PTL

\* For any number of parallel requests, cfm_consume_totp_step and
\* cfm_consume_recovery_code accept a code once in one version of the account.
THEOREM FactorOnce == Spec => []FactorUsedOnce
<1>1. AccessInv => FactorUsedOnce
  BY DEF AccessInv, SpentGone, FactorUsedOnce
<1> QED BY <1>1, AccessAlways, PTL

\* A live login session or step-up was signed for the second factor in force, however
\* the handler that signed it interleaved with enrolment, removal and recovery.
THEOREM TokensOfThisFactor == Spec => []LiveTokensOfThisFactor
<1>1. AccessInv => LiveTokensOfThisFactor
  BY DEF AccessInv, VersionsHold, SignedVersion, LiveTokensOfThisFactor
<1> QED BY <1>1, AccessAlways, PTL

\* A live login session was opened with the password the account has, unless a late
\* rehash undid that password in this version, however logins, challenges, changes of
\* password and recoveries interleave.
THEOREM SessionsOfThisPassword == Spec => []LiveSessionsOfThisPassword
<1>1. AccessInv => LiveSessionsOfThisPassword
  BY DEF AccessInv, VersionsHold, RestsOnPassword, LiveSessionsOfThisPassword
<1> QED BY <1>1, AccessAlways, PTL
=============================================================================
