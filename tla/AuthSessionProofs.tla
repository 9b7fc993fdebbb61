-------------------------- MODULE AuthSessionProofs --------------------------
(* What AuthSession promises, for any browsers, requests, tiers and bounds. *)
EXTENDS AuthSession, TLAPS

\* What the step a request is at says of what it keeps.
Sound(q) == /\ q.at \notin {"idle", "hash"} => Exists
            /\ q.at \in {"own", "grant", "redeem", "rotate"} => q.token # 0
            /\ q.at \in {"redeem", "rotate", "reset", "clean"} => q.key # 0

LocalOK == \A r \in Request : Sound(req[r])

SecretsOK == row.otp <= issued /\ row.reset <= issued

\* Before the account exists, nothing is on its row.
EmptyOK == ~Exists => row = Fresh("NONE")

Inv == /\ TypeOK /\ LocalOK /\ SecretsOK /\ EmptyOK
       /\ LockFollowsFailures /\ SessionsAreEarned

Answers(r) == \/ RegisterAnswers(r) \/ LoginAnswers(r)
              \/ VerifyAnswers(r) \/ RefreshAnswers(r)

Request1(r) == \/ InsertUser(r) \/ StoreToken(r) \/ LoginFails(r) \/ StoreCode(r)
               \/ MailCode(r) \/ AnswerTemp(r) \/ LoginSucceeds(r) \/ StoreLogin(r)
               \/ StoreVerified(r) \/ Rotate(r) \/ Answers(r)
               \/ RequestPasswordReset(r) \/ MailLink(r) \/ ResetPassword(r)
               \/ CleanReset(r) \/ StorePassword(r) \/ Break(r)

-----------------------------------------------------------------------------
\* Request slots and browsers, named for the proofs.
Slot == [at : Place, from : Browser \cup {Nobody}, fails : Nat, password : Int,
         key : Nat, token : Nat]
Jar == [cookie : Nat, temp : BOOLEAN, device : BOOLEAN]

\* Replacing one request by a proper one keeps the requests proper.
LEMMA SlotStep ==
    ASSUME TypeOK, NEW r \in Request, NEW q \in Slot, req' = [req EXCEPT ![r] = q]
    PROVE  req' \in [Request -> Slot]
BY Zenon DEF TypeOK, Slot

LEMMA IdleSlot == Idle \in Slot
BY DEF Idle, Slot, Place

\* What a row and a request are made of.
LEMMA Fields ==
    ASSUME TypeOK
    PROVE  /\ row.role \in Role
           /\ row.password \in Nat
           /\ row.fails \in Nat
           /\ row.refresh \in Nat
           /\ row.under \in Int
           /\ row.otp \in Nat
           /\ row.reset \in Nat
           /\ row.lock \in Lock
           /\ \A r \in Request : /\ req[r] \in Slot
                                 /\ req[r].from \in Browser \cup {Nobody}
                                 /\ req[r].fails \in Nat
                                 /\ req[r].password \in Int
                                 /\ req[r].key \in Nat
                                 /\ req[r].token \in Nat
<1>1. row \in User BY DEF TypeOK
<1>2. req \in [Request -> Slot] BY DEF TypeOK, Slot
<1> QED BY <1>1, <1>2, Zenon DEF User, Slot

\* A request that goes on, ends, or begins is a proper one.
LEMMA GotoStep ==
    ASSUME TypeOK, NEW r \in Request, NEW place \in Place, NEW token \in Nat,
           Goto(r, place, token)
    PROVE  req' \in [Request -> Slot]
<1> DEFINE q == [Idle EXCEPT !.at = place, !.from = req[r].from, !.token = token]
<1>1. q \in Slot BY Fields, IdleSlot DEF Slot
<1> QED BY <1>1, SlotStep DEF Goto

LEMMA EndStep == ASSUME TypeOK, NEW r \in Request, End(r) PROVE req' \in [Request -> Slot]
BY IdleSlot, SlotStep DEF End

LEMMA InitInv == Init => Inv
<1> SUFFICES ASSUME Init PROVE Inv OBVIOUS
<1>1. row \in User /\ row.fails = 0 /\ row.refresh = 0 /\ row.otp = 0 /\ row.reset = 0
  <2>1. "none" \in Lock /\ "NONE" \in Role /\ "ADMIN" \in Role
        /\ 0 \in Nat /\ 0 \in Int
    BY DEF Lock, Role
  <2>2. \A role \in Role : Fresh(role) \in User
    BY <2>1, Zenon DEF User, Fresh
  <2>3. row \in User BY <2>1, <2>2 DEF Init
  <2> QED BY <2>3 DEF Init, Fresh
<1>2. req \in [Request -> Slot] /\ \A r \in Request : req[r].at = "idle"
  BY IdleSlot DEF Init, Idle
<1>3. TypeOK BY <1>1, <1>2 DEF Init, TypeOK, Slot
<1>4. LocalOK BY <1>2 DEF LocalOK, Sound
<1>5. SecretsOK BY <1>1 DEF SecretsOK, Init
<1>6. LockFollowsFailures BY <1>1, TierAssumption DEF LockFollowsFailures
<1>7. SessionsAreEarned BY <1>1 DEF SessionsAreEarned
<1>8. EmptyOK BY DEF Init, EmptyOK, Exists, Fresh
<1> QED BY <1>3, <1>4, <1>5, <1>6, <1>7, <1>8 DEF Inv


LEMMA EarnedType == ASSUME TypeOK, NEW r \in Request PROVE Earned(r) \in Int
BY Fields DEF Earned

\* The steps that write the row keep it a row.
LEMMA RowSteps ==
    ASSUME TypeOK, NEW r \in Request
    PROVE  /\ InsertUser(r) => row' \in User
           /\ StoreToken(r) => row' \in User
           /\ LoginFails(r) => row' \in User
           /\ StoreCode(r) => row' \in User
           /\ StoreLogin(r) => row' \in User
           /\ StoreVerified(r) => row' \in User
           /\ Rotate(r) => row' \in User
           /\ RequestPasswordReset(r) => row' \in User
           /\ CleanReset(r) => row' \in User
           /\ StorePassword(r) => row' \in User
<1>0. row \in User BY DEF TypeOK
<1>1. ASSUME InsertUser(r) PROVE row' \in User
  BY <1>1 DEF InsertUser, Fresh, User, Role, Lock
<1>2. ASSUME StoreToken(r) PROVE row' \in User
  BY <1>0, <1>2, Fields, EarnedType, Zenon DEF StoreToken, User
<1>3. ASSUME LoginFails(r) PROVE row' \in User
  <2>1. req[r].fails + 1 \in Nat BY Fields
  <2>2. \A l \in Lock : [row EXCEPT !.fails = req[r].fails + 1, !.lock = l] \in User
    BY <1>0, <2>1, Zenon DEF User
  <2>3. (IF req[r].fails + 1 >= Tier3 THEN "forever"
         ELSE IF req[r].fails + 1 >= Tier1 THEN "running" ELSE row.lock) \in Lock
    BY Fields DEF Lock
  <2> QED BY <1>3, <2>2, <2>3, Zenon DEF LoginFails
<1>4. ASSUME StoreCode(r) PROVE row' \in User
  <2>1. issued' \in Nat BY <1>4 DEF StoreCode, TypeOK
  <2> QED BY <1>0, <1>4, <2>1, Zenon DEF StoreCode, User
<1>5. Signed(r, row) \in User
  <2>1. "none" \in Lock BY DEF Lock
  <2> QED BY <1>0, <2>1, Fields, EarnedType, Zenon DEF Signed, User
<1>6. ASSUME StoreLogin(r) PROVE row' \in User
  BY <1>5, <1>6 DEF StoreLogin
<1>7. ASSUME StoreVerified(r) PROVE row' \in User
  <2>1. \A u \in User : [u EXCEPT !.otp = 0, !.otpLive = FALSE] \in User
    BY Zenon, 0 \in Nat DEF User
  <2> QED BY <1>5, <1>7, <2>1 DEF StoreVerified
<1>8. ASSUME Rotate(r) PROVE row' \in User
  BY <1>0, <1>8, Fields, EarnedType, Zenon DEF Rotate, User
<1>9. ASSUME RequestPasswordReset(r) PROVE row' \in User
  <2>1. issued' \in Nat BY <1>9 DEF RequestPasswordReset, TypeOK
  <2> QED BY <1>0, <1>9, <2>1, Zenon DEF RequestPasswordReset, User
<1>10. ASSUME CleanReset(r) PROVE row' \in User
  BY <1>0, <1>10, 0 \in Nat, Zenon DEF CleanReset, User
<1>11. ASSUME StorePassword(r) PROVE row' \in User
  <2>1. row.password + 1 \in Nat BY Fields
  <2> QED BY <1>0, <1>11, <2>1, 0 \in Nat, Zenon DEF StorePassword, User
<1> QED BY <1>1, <1>2, <1>3, <1>4, <1>6, <1>7, <1>8, <1>9, <1>10, <1>11

\* The steps that begin a request.
LEMMA BeginSteps ==
    ASSUME TypeOK, NEW r \in Request, NEW b \in Browser
    PROVE  /\ Register(r, b) \/ Login(r, b) \/ VerifyAdminOtp(r, b) \/ Refresh(r, b)
                => req' \in [Request -> Slot]
           /\ ResetPassword(r) => req' \in [Request -> Slot]
<1>1. ASSUME NEW q \in Slot, Begin(r, q) PROVE req' \in [Request -> Slot]
  BY <1>1, SlotStep DEF Begin
<1>2. ASSUME Register(r, b) PROVE req' \in [Request -> Slot]
  <2>1. [Idle EXCEPT !.at = "hash", !.from = b] \in Slot
    BY IdleSlot DEF Slot, Place
  <2> QED BY <1>1, <1>2, <2>1 DEF Register
<1>3. ASSUME Login(r, b) PROVE req' \in [Request -> Slot]
  <2>1. [Idle EXCEPT !.at = "denied", !.fails = row.fails] \in Slot
    BY IdleSlot, Fields DEF Slot, Place
  <2>2. [Idle EXCEPT !.at = "coded", !.from = b] \in Slot
    BY IdleSlot DEF Slot, Place
  <2>3. [Idle EXCEPT !.at = "compared", !.from = b,
                     !.fails = row.fails, !.password = row.password] \in Slot
    <3>1. row.fails \in Nat /\ row.password \in Int /\ "compared" \in Place
      BY Fields DEF Place
    <3> QED BY <3>1, IdleSlot, Zenon DEF Slot
  <2> QED BY <1>1, <1>3, <2>1, <2>2, <2>3 DEF Login
<1>4. ASSUME VerifyAdminOtp(r, b) PROVE req' \in [Request -> Slot]
  <2>1. [Idle EXCEPT !.at = "redeem", !.from = b, !.password = row.password,
                     !.key = row.otp, !.token = clock] \in Slot
    <3>1. clock \in Nat /\ row.password \in Int /\ row.under \in Int
          /\ row.otp \in Nat /\ row.refresh \in Nat
      BY Fields DEF TypeOK
    <3>2. "redeem" \in Place /\ "rotate" \in Place BY DEF Place
    <3> QED BY <3>1, <3>2, IdleSlot, Zenon DEF Slot
  <2> QED BY <1>1, <1>4, <2>1 DEF VerifyAdminOtp
<1>5. ASSUME Refresh(r, b) PROVE req' \in [Request -> Slot]
  <2>1. [Idle EXCEPT !.at = "rotate", !.from = b, !.password = row.under,
                     !.key = row.refresh, !.token = clock] \in Slot
    <3>1. clock \in Nat /\ row.password \in Int /\ row.under \in Int
          /\ row.otp \in Nat /\ row.refresh \in Nat
      BY Fields DEF TypeOK
    <3>2. "redeem" \in Place /\ "rotate" \in Place BY DEF Place
    <3> QED BY <3>1, <3>2, IdleSlot, Zenon DEF Slot
  <2> QED BY <1>1, <1>5, <2>1 DEF Refresh
<1>6. ASSUME ResetPassword(r) PROVE req' \in [Request -> Slot]
  <2>1. [Idle EXCEPT !.at = IF row.resetLive THEN "reset" ELSE "clean",
                     !.key = row.reset] \in Slot
    BY IdleSlot, Fields DEF Slot, Place
  <2> QED BY <1>1, <1>6, <2>1 DEF ResetPassword
<1> QED BY <1>2, <1>3, <1>4, <1>5, <1>6

\* The steps keep the types.
LEMMA TypeStep == TypeOK /\ [Next]_vars => TypeOK'
<1> SUFFICES ASSUME TypeOK, [Next]_vars PROVE TypeOK' OBVIOUS
<1>0. ASSUME row' \in User, req' \in [Request -> Slot],
             browser' \in [Browser -> Jar], clock' \in Nat \ {0}, issued' \in Nat,
             inbox' \in SUBSET Nat
      PROVE  TypeOK'
  BY <1>0 DEF TypeOK, Slot, Jar
<1>1. /\ row \in User /\ req \in [Request -> Slot] /\ browser \in [Browser -> Jar]
      /\ clock \in Nat \ {0} /\ clock \in Nat /\ issued \in Nat /\ inbox \in SUBSET Nat
  BY DEF TypeOK, Slot, Jar
<1>2. ASSUME NEW r \in Request, NEW b \in Browser,
             \/ Register(r, b) \/ Login(r, b) \/ VerifyAdminOtp(r, b) \/ Refresh(r, b)
      PROVE  TypeOK'
  <2>1. req' \in [Request -> Slot] BY <1>2, BeginSteps
  <2>2. UNCHANGED <<row, browser, clock, issued, inbox>>
    BY <1>2 DEF Register, Login, VerifyAdminOtp, Refresh, Begin
  <2> QED BY <1>0, <1>1, <2>1, <2>2
<1>3. ASSUME NEW r \in Request, Request1(r) PROVE TypeOK'
  <2>0. /\ req[r].token \in Nat
        /\ {"registered", "signedIn", "verified", "refreshed", "mailCode", "temp"} \subseteq Place
    BY Fields DEF Place
  <2>1. CASE InsertUser(r)
    <3>1. [req[r] EXCEPT !.at = "own", !.token = clock] \in Slot
      BY <1>1, Fields DEF Slot, Place
    <3> QED BY <1>0, <1>1, <2>1, <3>1, SlotStep, RowSteps DEF InsertUser
  <2>2. CASE StoreToken(r)
    BY <1>0, <1>1, <2>0, <2>2, RowSteps, GotoStep DEF StoreToken
  <2>3. CASE LoginFails(r)
    BY <1>0, <1>1, <2>3, RowSteps, EndStep DEF LoginFails
  <2>4. CASE StoreCode(r)
    <3>1. issued' \in Nat BY <1>1, <2>4 DEF StoreCode
    <3>2. req' \in [Request -> Slot] BY <2>0, <2>4, <3>1, GotoStep DEF StoreCode
    <3> QED BY <1>0, <1>1, <2>4, <3>1, <3>2, RowSteps DEF StoreCode
  <2>5. CASE MailCode(r)
    BY <1>0, <1>1, <2>0, <2>5, GotoStep DEF MailCode, SendResetEmail
  <2>6. CASE AnswerTemp(r)
    <3>1. browser' \in [Browser -> Jar]
      BY <1>1, <2>6, Zenon DEF AnswerTemp, Jar
    <3> QED BY <1>0, <1>1, <2>6, <3>1, EndStep DEF AnswerTemp
  <2>7. CASE LoginSucceeds(r)
    <3>1. [req[r] EXCEPT !.at = "grant", !.token = clock] \in Slot
      BY <1>1, Fields DEF Slot, Place
    <3>2. req' = [req EXCEPT ![r] = [req[r] EXCEPT !.at = "grant", !.token = clock]]
      BY <2>7 DEF LoginSucceeds
    <3> QED BY <1>0, <1>1, <2>7, <3>1, <3>2, SlotStep DEF LoginSucceeds
  <2>8. CASE StoreLogin(r)
    BY <1>0, <1>1, <2>0, <2>8, RowSteps, GotoStep DEF StoreLogin
  <2>9. CASE StoreVerified(r)
    BY <1>0, <1>1, <2>0, <2>9, RowSteps, GotoStep DEF StoreVerified
  <2>10. CASE Rotate(r)
    BY <1>0, <1>1, <2>0, <2>10, RowSteps, GotoStep DEF Rotate
  <2>11. CASE Answers(r)
    <3>1. \A x, y \in BOOLEAN : [cookie |-> req[r].token, temp |-> x, device |-> y] \in Jar
      BY <2>0 DEF Jar
    <3>2. \A c \in Browser : browser[c].temp \in BOOLEAN /\ browser[c].device \in BOOLEAN
      BY <1>1, Zenon DEF Jar
    <3>3. ASSUME NEW place, NEW device \in BOOLEAN, Answer(r, place, device) PROVE TypeOK'
      <4>1. \A c \in Browser : (browser[c].device \/ device) \in BOOLEAN OBVIOUS
      <4>2. browser' \in [Browser -> Jar]
        BY <1>1, <3>1, <3>2, <3>3, <4>1, Zenon DEF Answer
      <4> QED BY <1>0, <1>1, <3>3, <4>2, EndStep DEF Answer
    <3>4. (row.role = "ADMIN") \in BOOLEAN OBVIOUS
    <3> QED BY <2>11, <3>3, <3>4 DEF Answers, RegisterAnswers, LoginAnswers, VerifyAnswers,
         RefreshAnswers
  <2>12. CASE RequestPasswordReset(r)
    <3>1. issued' \in Nat BY <1>1, <2>12 DEF RequestPasswordReset
    <3>2. [Idle EXCEPT !.at = "mailLink", !.token = issued'] \in Slot
      BY <3>1, IdleSlot DEF Slot, Place
    <3> QED BY <1>0, <1>1, <2>12, <3>1, <3>2, SlotStep, RowSteps DEF RequestPasswordReset
  <2>13. CASE MailLink(r)
    BY <1>0, <1>1, <2>0, <2>13, EndStep DEF MailLink, SendResetEmail
  <2>14. CASE ResetPassword(r)
    <3>1. [Idle EXCEPT !.at = IF row.resetLive THEN "reset" ELSE "clean",
                       !.key = row.reset] \in Slot
      BY IdleSlot, Fields DEF Slot, Place
    <3> QED BY <1>0, <1>1, <2>14, <3>1, SlotStep DEF ResetPassword, Begin
  <2>15. CASE CleanReset(r)
    BY <1>0, <1>1, <2>15, RowSteps, EndStep DEF CleanReset
  <2>16. CASE StorePassword(r)
    BY <1>0, <1>1, <2>16, RowSteps, EndStep DEF StorePassword
  <2>17. CASE Break(r)
    BY <1>0, <1>1, <2>17, EndStep DEF Break
  <2> QED BY <1>3, <2>1, <2>2, <2>3, <2>4, <2>5, <2>6, <2>7, <2>8, <2>9, <2>10,
             <2>11, <2>12, <2>13, <2>14, <2>15, <2>16, <2>17 DEF Request1
<1>4. ASSUME NEW b \in Browser, Logout(b) \/ BrowserExpires(b) PROVE TypeOK'
  <2>1. \A c \in Browser : [browser[c] EXCEPT !.cookie = 0] \in Jar
    BY <1>1 DEF Jar
  <2>2. \A c \in Browser : /\ [browser[c] EXCEPT !.temp = FALSE] \in Jar
                           /\ [browser[c] EXCEPT !.device = FALSE] \in Jar
    BY <1>1, Zenon DEF Jar
  <2>3. browser' \in [Browser -> Jar]
    BY <1>1, <1>4, <2>1, <2>2 DEF Logout, BrowserExpires
  <2> QED BY <1>0, <1>1, <1>4, <2>3 DEF Logout, BrowserExpires
<1>5. CASE Tick BY <1>0, <1>1, <1>5 DEF Tick
<1>7. CASE RowExpires
  <2>1. row' \in User
    <3>1. "passed" \in Lock BY DEF Lock
    <3> QED BY <1>1, <1>7, <3>1, Zenon DEF RowExpires, User
  <2> QED BY <1>0, <1>1, <1>7, <2>1 DEF RowExpires
<1>8. CASE UNCHANGED vars BY <1>0, <1>1, <1>8 DEF vars
<1> QED BY <1>2, <1>3, <1>4, <1>5, <1>7, <1>8 DEF Next, Request1, Answers

-----------------------------------------------------------------------------
\* A step that changes one request at most and drops no account.
LEMMA SoundStep ==
    ASSUME LocalOK, NEW r \in Request, Exists => Exists',
           \A s \in Request \ {r} : req'[s] = req[s], Sound(req[r])'
    PROVE  LocalOK'
BY DEF LocalOK, Sound

\* An account is never dropped.
LEMMA ExistsStep == TypeOK /\ [Next]_vars /\ Exists => Exists'
<1> SUFFICES ASSUME TypeOK, [Next]_vars, Exists PROVE row'.role = row.role
  BY DEF Exists
<1>0. row \in User BY DEF TypeOK
<1>1. ASSUME row' = row PROVE row'.role = row.role BY <1>1
<1>2. ASSUME NEW r \in Request, Request1(r), row' # row PROVE row'.role = row.role
  BY <1>0, <1>2, Zenon DEF Request1, InsertUser, StoreToken, LoginFails, StoreCode,
     MailCode, AnswerTemp, LoginSucceeds, StoreLogin, StoreVerified, Signed, Rotate,
     Answers, RegisterAnswers, LoginAnswers, VerifyAnswers,
     RefreshAnswers, Answer, RequestPasswordReset, MailLink, ResetPassword, Begin, CleanReset,
     StorePassword, Break, User
<1>3. CASE RowExpires BY <1>0, <1>3, Zenon DEF RowExpires, User
<1> QED BY <1>1, <1>2, <1>3 DEF Next, Request1, Answers, vars, Register, Login,
       VerifyAdminOtp, Refresh, Begin, Logout, BrowserExpires, Tick

LEMMA LocalStep == TypeOK /\ LocalOK /\ [Next]_vars => LocalOK'
<1> SUFFICES ASSUME TypeOK, LocalOK, [Next]_vars PROVE LocalOK' OBVIOUS
<1>0. Exists => Exists' BY ExistsStep
<1>1. req \in [Request -> Slot] /\ clock \in Nat \ {0} BY DEF TypeOK, Slot
<1>2. ASSUME req' = req PROVE LocalOK'
  BY <1>0, <1>2 DEF LocalOK, Sound
<1>3. ASSUME NEW r \in Request, End(r) PROVE LocalOK'
  <2>1. req'[r] = Idle /\ \A s \in Request \ {r} : req'[s] = req[s]
    BY <1>1, <1>3 DEF End
  <2> QED BY <1>0, <2>1, SoundStep DEF Sound, Idle
<1>4. ASSUME NEW r \in Request, NEW place \in {"registered", "signedIn", "verified", "refreshed", "mailCode", "temp"},
             NEW token \in Nat, Goto(r, place, token), Exists
      PROVE  LocalOK'
  <2>1. req'[r].at = place /\ \A s \in Request \ {r} : req'[s] = req[s]
    BY <1>1, <1>4 DEF Goto, Idle
  <2> QED BY <1>0, <1>4, <2>1, SoundStep DEF Sound
<1>5. ASSUME NEW r \in Request, NEW b \in Browser,
             \/ Register(r, b) \/ Login(r, b) \/ VerifyAdminOtp(r, b) \/ Refresh(r, b)
      PROVE  LocalOK'
  <2>0. \A s \in Request \ {r} : req'[s] = req[s]
    BY <1>1, <1>5 DEF Register, Login, VerifyAdminOtp, Refresh, Begin
  <2>1. CASE Register(r, b)
    <3>1. req'[r].at = "hash" BY <1>1, <2>1 DEF Register, Begin, Idle
    <3> QED BY <1>0, <2>0, <3>1, SoundStep DEF Sound
  <2>2. CASE Login(r, b)
    <3>1. req'[r].at \in {"denied", "coded", "compared"}
      BY <1>1, <2>2 DEF Login, Begin, Idle
    <3> QED BY <1>0, <2>0, <2>2, <3>1, SoundStep DEF Sound, Login
  <2>3. CASE VerifyAdminOtp(r, b)
    <3>1. req'[r].key = row.otp /\ req'[r].token = clock
      BY <1>1, <2>3 DEF VerifyAdminOtp, Begin, Idle
    <3> QED BY <1>0, <1>1, <2>0, <2>3, <3>1, SoundStep DEF Sound, VerifyAdminOtp, Exists
  <2>4. CASE Refresh(r, b)
    <3>1. req'[r].key = row.refresh /\ req'[r].token = clock
      BY <1>1, <2>4 DEF Refresh, Begin, Idle
    <3> QED BY <1>0, <1>1, <2>0, <2>4, <3>1, SoundStep DEF Sound, Refresh
  <2> QED BY <1>5, <2>1, <2>2, <2>3, <2>4
<1>6. ASSUME NEW r \in Request, Request1(r) PROVE LocalOK'
  <2>0. req[r].token \in Nat BY Fields
  <2>9. Sound(req[r]) BY DEF LocalOK
  <2>1. CASE InsertUser(r)
    <3>1. req'[r].at = "own" /\ req'[r].token = clock
          /\ \A s \in Request \ {r} : req'[s] = req[s]
      BY <1>1, <2>1 DEF InsertUser, Slot
    <3>2. Exists' BY <2>1 DEF InsertUser, Fresh, Exists
    <3> QED BY <1>1, <3>1, <3>2, SoundStep DEF Sound
  <2>2. CASE \/ StoreToken(r) \/ StoreLogin(r) \/ StoreVerified(r) \/ Rotate(r)
             \/ MailCode(r)
    <3>1. Exists BY <2>2, <2>9 DEF Sound, StoreToken, StoreLogin, StoreVerified, Rotate, MailCode
    <3> QED BY <1>4, <2>0, <2>2, <3>1
        DEF StoreToken, StoreLogin, StoreVerified, Rotate, MailCode
  <2>3. CASE StoreCode(r)
    <3>1. issued' \in Nat BY <2>3 DEF StoreCode, TypeOK
    <3>2. Exists BY <2>3, <2>9 DEF Sound, StoreCode
    <3> QED BY <1>4, <2>3, <3>1, <3>2 DEF StoreCode
  <2>4. CASE \/ LoginFails(r) \/ AnswerTemp(r) \/ Answers(r) \/ MailLink(r)
             \/ CleanReset(r) \/ StorePassword(r) \/ Break(r)
    BY <1>3, <2>4 DEF LoginFails, AnswerTemp, Answers, RegisterAnswers, LoginAnswers, VerifyAnswers,
     RefreshAnswers, Answer, MailLink, CleanReset,
       StorePassword, Break
  <2>5. CASE LoginSucceeds(r)
    <3>1. req'[r].at = "grant" /\ req'[r].token = clock
          /\ \A s \in Request \ {r} : req'[s] = req[s]
      BY <1>1, <2>5 DEF LoginSucceeds, Slot
    <3> QED BY <1>0, <1>1, <2>5, <2>9, <3>1, SoundStep DEF Sound, LoginSucceeds
  <2>6. CASE RequestPasswordReset(r)
    <3>1. req'[r].at = "mailLink" /\ \A s \in Request \ {r} : req'[s] = req[s]
      BY <1>1, <2>6 DEF RequestPasswordReset, Idle
    <3> QED BY <1>0, <2>6, <3>1, SoundStep DEF Sound, RequestPasswordReset
  <2>7. CASE ResetPassword(r)
    <3>1. req'[r].at \in {"reset", "clean"} /\ req'[r].key = row.reset
          /\ \A s \in Request \ {r} : req'[s] = req[s]
      BY <1>1, <2>7 DEF ResetPassword, Begin, Idle
    <3> QED BY <1>0, <2>7, <3>1, SoundStep DEF Sound, ResetPassword
  <2> QED BY <1>6, <2>1, <2>2, <2>3, <2>4, <2>5, <2>6, <2>7 DEF Request1
<1> QED BY <1>2, <1>5, <1>6 DEF Next, Request1, Answers, vars, Logout, BrowserExpires,
       Tick, RowExpires

-----------------------------------------------------------------------------
\* What each write leaves in the columns the properties are about.
Rest(F) == \A f \in {"role", "password", "fails", "lock", "refresh", "under", "otp", "reset"} \ F :
             row'[f] = row[f]

LEMMA Effects ==
    ASSUME TypeOK, NEW r \in Request
    PROVE  /\ StoreToken(r) => /\ row'.refresh = req[r].token
                               /\ row'.under = Earned(r)
                               /\ Rest({"refresh", "under"})
           /\ LoginFails(r) => /\ row'.fails = req[r].fails + 1
                               /\ row'.lock = IF req[r].fails + 1 >= Tier3 THEN "forever"
                                              ELSE IF req[r].fails + 1 >= Tier1 THEN "running"
                                              ELSE row.lock
                               /\ Rest({"fails", "lock"})
           /\ StoreCode(r) => row'.otp = issued' /\ Rest({"otp"})
           /\ StoreLogin(r) => /\ row'.refresh = req[r].token
                               /\ row'.under = Earned(r)
                               /\ row'.fails = 0
                               /\ row'.lock = "none"
                               /\ Rest({"refresh", "under", "fails", "lock"})
           /\ StoreVerified(r) => /\ row'.refresh = req[r].token
                                  /\ row'.under = Earned(r)
                                  /\ row'.fails = 0
                                  /\ row'.lock = "none"
                                  /\ row'.otp = 0
                                  /\ Rest({"refresh", "under", "fails", "lock", "otp"})
           /\ Rotate(r) => /\ row'.refresh = req[r].token
                           /\ row'.under = Earned(r)
                           /\ Rest({"refresh", "under"})
           /\ RequestPasswordReset(r) => row'.reset = issued' /\ Rest({"reset"})
           /\ CleanReset(r) => row'.reset = 0 /\ Rest({"reset"})
           /\ StorePassword(r) => /\ row'.password = row.password + 1
                                  /\ row'.reset = 0
                                  /\ row'.refresh = 0
                                  /\ Rest({"password", "reset", "refresh"})
<1>0. row \in User BY DEF TypeOK
<1>1. StoreToken(r) => /\ row'.refresh = req[r].token
                       /\ row'.under = Earned(r)
                       /\ Rest({"refresh", "under"})
  BY <1>0 DEF StoreToken, User, Rest
<1>2. LoginFails(r) => /\ row'.fails = req[r].fails + 1
                       /\ row'.lock = IF req[r].fails + 1 >= Tier3 THEN "forever"
                                      ELSE IF req[r].fails + 1 >= Tier1 THEN "running"
                                      ELSE row.lock
                       /\ Rest({"fails", "lock"})
  BY <1>0 DEF LoginFails, User, Rest
<1>3. StoreCode(r) => row'.otp = issued' /\ Rest({"otp"})
  BY <1>0 DEF StoreCode, User, Rest
<1>4. StoreLogin(r) => /\ row'.refresh = req[r].token
                       /\ row'.under = Earned(r)
                       /\ row'.fails = 0
                       /\ row'.lock = "none"
                       /\ Rest({"refresh", "under", "fails", "lock"})
  BY <1>0 DEF StoreLogin, Signed, User, Rest
<1>5. StoreVerified(r) => /\ row'.refresh = req[r].token
                          /\ row'.under = Earned(r)
                          /\ row'.fails = 0
                          /\ row'.lock = "none"
                          /\ row'.otp = 0
                          /\ Rest({"refresh", "under", "fails", "lock", "otp"})
  BY <1>0 DEF StoreVerified, Signed, User, Rest
<1>6. Rotate(r) => /\ row'.refresh = req[r].token
                   /\ row'.under = Earned(r)
                   /\ Rest({"refresh", "under"})
  BY <1>0 DEF Rotate, User, Rest
<1>7. RequestPasswordReset(r) => row'.reset = issued' /\ Rest({"reset"})
  BY <1>0 DEF RequestPasswordReset, User, Rest
<1>8. CleanReset(r) => row'.reset = 0 /\ Rest({"reset"})
  BY <1>0 DEF CleanReset, User, Rest
<1>9. StorePassword(r) => /\ row'.password = row.password + 1
                          /\ row'.reset = 0
                          /\ row'.refresh = 0
                          /\ Rest({"password", "reset", "refresh"})
  BY <1>0 DEF StorePassword, User, Rest
<1> QED BY <1>1, <1>2, <1>3, <1>4, <1>5, <1>6, <1>7, <1>8, <1>9

\* Every step leaves the row alone, or is one of these.
LEMMA RowChanges ==
    ASSUME TypeOK, [Next]_vars
    PROVE  \/ row' = row
           \/ RowExpires
           \/ \E r \in Request : \/ InsertUser(r) \/ Write(r) \/ StoreCode(r)
                                 \/ RequestPasswordReset(r)
BY Zenon DEF Next, vars, Write, Register, Login, VerifyAdminOtp, Refresh, Begin, MailCode,
   AnswerTemp, LoginSucceeds, Answers, RegisterAnswers, LoginAnswers, VerifyAnswers,
     RefreshAnswers, Answer, MailLink, ResetPassword, Break, Logout,
   BrowserExpires, Tick

\* What time does to the row.
LEMMA ExpiryEffect ==
    ASSUME TypeOK, RowExpires
    PROVE  /\ \A f \in {"role", "password", "fails", "refresh", "under", "otp", "reset"} :
                row'[f] = row[f]
           /\ row'.lock = row.lock \/ (row.lock = "running" /\ row'.lock = "passed")
           /\ UNCHANGED issued
<1>0. row \in User BY DEF TypeOK
<1>1. CASE row' = [row EXCEPT !.lock = "passed"] /\ row.lock = "running"
  BY <1>0, <1>1 DEF RowExpires, User
<1>2. CASE row' = [row EXCEPT !.otpLive = FALSE]
  BY <1>0, <1>2 DEF RowExpires, User
<1>3. CASE row' = [row EXCEPT !.resetLive = FALSE]
  BY <1>0, <1>3 DEF RowExpires, User
<1> QED BY <1>1, <1>2, <1>3 DEF RowExpires

\* A code or link is made by the two steps that make one, and no other.
LEMMA WriteIssues == ASSUME NEW r \in Request, Write(r) PROVE UNCHANGED issued
BY DEF Write, StoreToken, LoginFails, StoreLogin, StoreVerified, Rotate,
   CleanReset, StorePassword

LEMMA StepIssues ==
    ASSUME [Next]_vars
    PROVE  UNCHANGED issued \/ \E r \in Request : StoreCode(r) \/ RequestPasswordReset(r)
BY Zenon DEF Next, vars, InsertUser, StoreToken, LoginFails, StoreLogin, StoreVerified,
   Rotate, CleanReset, StorePassword, Register, Login, VerifyAdminOtp, Refresh, Begin,
   MailCode, AnswerTemp, LoginSucceeds, Answers, RegisterAnswers, LoginAnswers, VerifyAnswers,
   RefreshAnswers, Answer, MailLink, ResetPassword, Break, Logout,
   BrowserExpires, Tick, RowExpires

\* A code or link on record is one that was made.
LEMMA SecretsStep == TypeOK /\ SecretsOK /\ [Next]_vars => SecretsOK'
<1> SUFFICES ASSUME TypeOK, SecretsOK, [Next]_vars PROVE SecretsOK' OBVIOUS
<1>0. issued \in Nat /\ row.otp \in Nat /\ row.reset \in Nat BY Fields DEF TypeOK
<1>1. CASE UNCHANGED <<row, issued>> BY <1>1 DEF SecretsOK
<1>2. CASE RowExpires BY <1>2, ExpiryEffect DEF SecretsOK
<1>3. ASSUME NEW r \in Request, InsertUser(r) PROVE SecretsOK'
  BY <1>0, <1>3 DEF InsertUser, Fresh, SecretsOK
<1>4. ASSUME NEW r \in Request, Write(r) PROVE SecretsOK'
  <2>1. UNCHANGED issued BY <1>4, WriteIssues
  <2>2. row'.otp \in {0, row.otp} /\ row'.reset \in {0, row.reset}
    BY <1>4, Effects DEF Write, Rest
  <2> QED BY <1>0, <2>1, <2>2 DEF SecretsOK
<1>5. ASSUME NEW r \in Request, StoreCode(r) \/ RequestPasswordReset(r) PROVE SecretsOK'
  <2>1. issued' = issued + 1 BY <1>5 DEF StoreCode, RequestPasswordReset
  <2>2. row'.otp \in {issued', row.otp} /\ row'.reset \in {issued', row.reset}
    BY <1>5, Effects DEF Rest
  <2> QED BY <1>0, <2>1, <2>2 DEF SecretsOK
<1>6. CASE row' = row BY <1>1, <1>5, <1>6, StepIssues
<1> QED BY <1>2, <1>3, <1>4, <1>5, <1>6, RowChanges

\* A count at a tier keeps the lock of that tier.
LEMMA LockStep == TypeOK /\ LockFollowsFailures /\ [Next]_vars => LockFollowsFailures'
<1> SUFFICES ASSUME TypeOK, LockFollowsFailures, [Next]_vars PROVE LockFollowsFailures'
  OBVIOUS
<1>0. row.fails \in Nat /\ Tier1 \in Nat \ {0} /\ Tier3 \in Nat \ {0} /\ Tier1 <= Tier3
  BY Fields, TierAssumption
<1>1. CASE row'.fails = row.fails /\ row'.lock = row.lock
  BY <1>1 DEF LockFollowsFailures
<1>2. CASE RowExpires BY <1>2, ExpiryEffect DEF LockFollowsFailures
<1>3. ASSUME NEW r \in Request, InsertUser(r) PROVE LockFollowsFailures'
  BY <1>0, <1>3 DEF InsertUser, Fresh, LockFollowsFailures
<1>4. ASSUME NEW r \in Request, LoginFails(r) PROVE LockFollowsFailures'
  <2>1. req[r].fails + 1 \in Nat BY Fields
  <2> QED BY <1>0, <1>4, <2>1, Effects DEF LockFollowsFailures
<1>5. ASSUME NEW r \in Request, StoreLogin(r) \/ StoreVerified(r) PROVE LockFollowsFailures'
  BY <1>0, <1>5, Effects DEF LockFollowsFailures
<1>6. ASSUME NEW r \in Request,
             \/ StoreToken(r) \/ Rotate(r) \/ CleanReset(r) \/ StorePassword(r)
             \/ StoreCode(r) \/ RequestPasswordReset(r)
      PROVE  row'.fails = row.fails /\ row'.lock = row.lock
  BY <1>6, Effects DEF Rest
<1> QED BY <1>1, <1>2, <1>3, <1>4, <1>5, <1>6, RowChanges DEF Write

\* A session on record stays one earned with the password on record.
LEMMA SessionStep ==
    TypeOK /\ LocalOK /\ SessionsAreEarned /\ [Next]_vars => SessionsAreEarned'
<1> SUFFICES ASSUME TypeOK, LocalOK, SessionsAreEarned, [Next]_vars
             PROVE  SessionsAreEarned'
  OBVIOUS
<1>1. CASE UNCHANGED <<row.refresh, row.under, row.password>>
  BY <1>1 DEF SessionsAreEarned
<1>2. CASE RowExpires BY <1>2, ExpiryEffect DEF SessionsAreEarned
<1>3. ASSUME NEW r \in Request, InsertUser(r) PROVE SessionsAreEarned'
  BY <1>3 DEF InsertUser, Fresh, SessionsAreEarned
<1>4. ASSUME NEW r \in Request, StoreToken(r) \/ StoreLogin(r) \/ StoreVerified(r)
      PROVE  SessionsAreEarned'
  <2>1. row'.under = Earned(r) /\ row'.password = row.password
    BY <1>4, Effects DEF Rest
  <2>2. ~Overtaken(r) => req[r].password = row.password
    BY <1>4 DEF Overtaken, StoreToken, StoreLogin, StoreVerified
  <2> QED BY <2>1, <2>2 DEF SessionsAreEarned, Earned
<1>5. ASSUME NEW r \in Request, Rotate(r) PROVE SessionsAreEarned'
  <2>1. row'.under = Earned(r) /\ row'.password = row.password
    BY <1>5, Effects DEF Rest
  <2>2. ~Overtaken(r) => row.refresh = req[r].key /\ row.under = req[r].password
    BY <1>5 DEF Overtaken, Rotate
  <2>3. req[r].key # 0 BY <1>5 DEF LocalOK, Sound, Rotate
  <2> QED BY <2>1, <2>2, <2>3 DEF SessionsAreEarned, Earned
<1>6. ASSUME NEW r \in Request, StorePassword(r) PROVE SessionsAreEarned'
  BY <1>6, Effects DEF SessionsAreEarned
<1>7. ASSUME NEW r \in Request,
             \/ LoginFails(r) \/ CleanReset(r) \/ StoreCode(r) \/ RequestPasswordReset(r)
      PROVE  UNCHANGED <<row.refresh, row.under, row.password>>
  BY <1>7, Effects DEF Rest
<1> QED BY <1>1, <1>2, <1>3, <1>4, <1>5, <1>6, <1>7, RowChanges DEF Write

LEMMA EmptyStep == TypeOK /\ LocalOK /\ EmptyOK /\ [Next]_vars => EmptyOK'
<1> SUFFICES ASSUME TypeOK, LocalOK, EmptyOK, [Next]_vars, ~Exists, ~Exists'
             PROVE  row' = row
  BY ExistsStep DEF EmptyOK, Exists
<1>1. \A r \in Request : Sound(req[r]) BY DEF LocalOK
<1>2. row = Fresh("NONE") BY DEF EmptyOK
<1>3. ~RowExpires BY <1>2 DEF RowExpires, Fresh
<1>4. \A r \in Request : ~InsertUser(r) BY DEF InsertUser, Fresh, Exists
<1>5. \A r \in Request : ~StoreCode(r) BY <1>1 DEF StoreCode, Sound
<1>6. \A r \in Request : ~RequestPasswordReset(r) BY DEF RequestPasswordReset
<1>7. \A r \in Request : ~Write(r)
  BY <1>1 DEF Write, Sound, StoreToken, LoginFails, StoreLogin, StoreVerified, Rotate,
     CleanReset, StorePassword
<1> QED BY <1>3, <1>4, <1>5, <1>6, <1>7, RowChanges

LEMMA InvStep == Inv /\ [Next]_vars => Inv'
BY TypeStep, LocalStep, SecretsStep, EmptyStep, LockStep, SessionStep DEF Inv

LEMMA Invariance == Spec => []Inv
BY InitInv, InvStep, PTL DEF Spec

(* The types of the module hold: authService.ts keeps the User row, and its *)
(* requests their locals, well formed.                                      *)
THEOREM TypeCorrect == Spec => []TypeOK
BY Invariance, PTL DEF Inv

(* login's check of a hard floor without a lock (authService.ts 131-136)    *)
(* never decides, however many logins run at once.                          *)
THEOREM LocksFollowFailures == Spec => []LockFollowsFailures
BY Invariance, PTL DEF Inv

(* No session outlives the password it was earned with, unless the request  *)
(* that wrote it had been overtaken (resetPassword, authService.ts 562).    *)
THEOREM SessionsEarned == Spec => []SessionsAreEarned
BY Invariance, PTL DEF Inv

-----------------------------------------------------------------------------
\* An update whose row has not changed is what the contract allows.
LEMMA WriteKeepsContract ==
    ASSUME Inv, NEW r \in Request, Write(r), ~Overtaken(r)
    PROVE  Contract!Next \/ UnlocksByCode \/ UNCHANGED Contract!account
<1> USE DEF Contract!Next, Contract!account
<1>0. /\ TypeOK /\ Sound(req[r])
      /\ row.lock \in Lock /\ row.fails \in Nat
      /\ UNCHANGED issued
  BY Fields, WriteIssues DEF Inv, LocalOK
<1>1. CASE StoreToken(r)
  <2>1. /\ row'.refresh = req[r].token /\ row'.under = Earned(r) /\ row'.role = row.role
        /\ row'.password = row.password /\ row'.fails = row.fails /\ row'.lock = row.lock
        /\ row'.otp = row.otp /\ row'.reset = row.reset
    BY <1>0, <1>1, Effects DEF Rest
  <2>2. req[r].token # 0 /\ Exists /\ Earned(r) = row.password
    BY <1>0, <1>1 DEF StoreToken, Sound, Earned, Overtaken
  <2> QED BY <1>0, <2>1, <2>2 DEF Contract!Begin, Exists
<1>2. CASE LoginFails(r)
  <2>1. /\ row'.refresh = row.refresh /\ row'.under = row.under /\ row'.role = row.role
        /\ row'.password = row.password /\ row'.otp = row.otp /\ row'.reset = row.reset
        /\ row'.fails = req[r].fails + 1
        /\ row'.lock = IF req[r].fails + 1 >= Tier3 THEN "forever"
                       ELSE IF req[r].fails + 1 >= Tier1 THEN "running" ELSE row.lock
    BY <1>0, <1>2, Effects DEF Rest
  <2>2. row.fails = req[r].fails /\ row.lock \in {"none", "passed"} /\ Exists
    BY <1>0, <1>2 DEF LoginFails, Sound, Overtaken, Admits, Lock
  <2> QED BY <1>0, <2>1, <2>2 DEF Contract!Fail, Exists
<1>3. CASE StoreLogin(r)
  <2>1. /\ row'.refresh = req[r].token /\ row'.under = Earned(r) /\ row'.role = row.role
        /\ row'.password = row.password /\ row'.fails = 0 /\ row'.lock = "none"
        /\ row'.otp = row.otp /\ row'.reset = row.reset
    BY <1>0, <1>3, Effects DEF Rest
  <2>2. /\ req[r].token # 0 /\ Exists /\ Earned(r) = row.password
        /\ row.lock \in {"none", "passed"}
    BY <1>0, <1>3 DEF StoreLogin, Sound, Earned, Overtaken, Admits, Lock
  <2> QED BY <1>0, <2>1, <2>2 DEF Contract!SignIn, Contract!SignedIn, Exists
<1>4. CASE StoreVerified(r)
  <2>1. /\ row'.refresh = req[r].token /\ row'.under = Earned(r) /\ row'.role = row.role
        /\ row'.password = row.password /\ row'.fails = 0 /\ row'.lock = "none"
        /\ row'.otp = 0 /\ row'.reset = row.reset
    BY <1>0, <1>4, Effects DEF Rest
  <2>2. req[r].token # 0 /\ row.otp # 0 /\ Earned(r) = row.password
    BY <1>0, <1>4 DEF StoreVerified, Sound, Earned, Overtaken
  <2>3. Contract!UseCode
    BY <1>0, <2>1, <2>2 DEF Contract!UseCode, Contract!SignedIn, Exists
  <2> QED BY <1>0, <2>3 DEF Contract!Redeem, UnlocksByCode, Lock
<1>5. CASE Rotate(r)
  <2>1. /\ row'.refresh = req[r].token /\ row'.under = Earned(r) /\ row'.role = row.role
        /\ row'.password = row.password /\ row'.fails = row.fails /\ row'.lock = row.lock
        /\ row'.otp = row.otp /\ row'.reset = row.reset
    BY <1>0, <1>5, Effects DEF Rest
  <2>2. req[r].token # 0 /\ row.refresh # 0 /\ Earned(r) = row.under
    BY <1>0, <1>5 DEF Rotate, Sound, Earned, Overtaken
  <2> QED BY <1>0, <2>1, <2>2 DEF Exists
<1>6. CASE CleanReset(r)
  <2>1. /\ row'.refresh = row.refresh /\ row'.under = row.under /\ row'.role = row.role
        /\ row'.password = row.password /\ row'.fails = row.fails /\ row'.lock = row.lock
        /\ row'.otp = row.otp /\ row'.reset = 0
    BY <1>0, <1>6, Effects DEF Rest
  <2>2. row.reset # 0 /\ Exists BY <1>0, <1>6 DEF CleanReset, Sound, Overtaken
  <2> QED BY <1>0, <2>1, <2>2 DEF Contract!DropLink, Exists
<1>7. CASE StorePassword(r)
  <2>1. /\ row'.refresh = 0 /\ row'.role = row.role
        /\ row'.password = row.password + 1 /\ row'.fails = row.fails
        /\ row'.lock = row.lock /\ row'.otp = row.otp /\ row'.reset = 0
    BY <1>0, <1>7, Effects DEF Rest
  <2>2. row.reset # 0 BY <1>0, <1>7 DEF StorePassword, Sound, Overtaken
  <2> QED BY <1>0, <2>1, <2>2 DEF Contract!Reset, Exists
<1> QED BY <1>1, <1>2, <1>3, <1>4, <1>5, <1>6, <1>7 DEF Write

\* So is every other step.
LEMMA ContractStep ==
    ASSUME Inv, [Next]_vars
    PROVE  [\/ Contract!Next
            \/ UnlocksByCode
            \/ \E r \in Request : Overtaken(r) /\ Write(r)]_(Contract!account)
<1>0. /\ TypeOK /\ SecretsOK
      /\ row.otp \in Nat /\ row.reset \in Nat /\ issued \in Nat
  BY Fields DEF Inv, TypeOK
<1>1. CASE row' = row
  <2>1. ASSUME NEW r \in Request, StoreCode(r) \/ RequestPasswordReset(r) PROVE FALSE
    <3>1. issued' = issued + 1 BY <2>1 DEF StoreCode, RequestPasswordReset
    <3>2. row'.otp = issued' \/ row'.reset = issued' BY <1>0, <2>1, Effects
    <3> QED BY <1>0, <1>1, <3>1, <3>2 DEF SecretsOK
  <2> QED BY <1>1, <2>1, StepIssues DEF Contract!account, Exists
<1>2. CASE RowExpires
  BY <1>0, <1>2, ExpiryEffect DEF Contract!Next, Contract!LockPasses, Contract!account, Exists
<1>3. ASSUME NEW r \in Request, InsertUser(r) PROVE Contract!Next \/ UNCHANGED Contract!account
  <2>1. row.role = "NONE" /\ row' = Fresh("CUSTOMER")
    BY <1>3 DEF InsertUser, Exists
  <2>2. row = Fresh("NONE") BY <2>1 DEF Inv, EmptyOK, Exists
  <2>3. UNCHANGED issued BY <1>3 DEF InsertUser
  <2> QED BY <2>1, <2>2, <2>3 DEF Contract!Next, Contract!Register, Fresh, Exists
<1>4. ASSUME NEW r \in Request, StoreCode(r) PROVE Contract!Next
  <2>1. /\ row'.refresh = row.refresh /\ row'.under = row.under /\ row'.role = row.role
        /\ row'.password = row.password /\ row'.fails = row.fails /\ row'.lock = row.lock
        /\ row'.otp = issued + 1 /\ row'.reset = row.reset /\ issued' = issued + 1
    BY <1>0, <1>4, Effects DEF Rest, StoreCode
  <2>2. Exists BY <1>4 DEF Inv, LocalOK, Sound, StoreCode
  <2> QED BY <1>0, <2>1, <2>2 DEF Contract!Next, Contract!SendCode, SecretsOK, Exists
<1>5. ASSUME NEW r \in Request, RequestPasswordReset(r) PROVE Contract!Next
  <2>1. /\ row'.refresh = row.refresh /\ row'.under = row.under /\ row'.role = row.role
        /\ row'.password = row.password /\ row'.fails = row.fails /\ row'.lock = row.lock
        /\ row'.otp = row.otp /\ row'.reset = issued + 1 /\ issued' = issued + 1
    BY <1>0, <1>5, Effects DEF Rest, RequestPasswordReset
  <2>2. Exists BY <1>5 DEF RequestPasswordReset
  <2> QED BY <1>0, <2>1, <2>2 DEF Contract!Next, Contract!SendLink, SecretsOK, Exists
<1>6. ASSUME NEW r \in Request, Write(r), ~Overtaken(r)
      PROVE  Contract!Next \/ UnlocksByCode \/ UNCHANGED Contract!account
  BY <1>6, WriteKeepsContract
<1> QED BY <1>0, <1>1, <1>2, <1>3, <1>4, <1>5, <1>6, RowChanges

(* Requests on an account do what they would do one at a time, but for the  *)
(* updates whose row had changed since it was read (all of authService.ts). *)
THEOREM ContractKept == Spec => KeepsContract
<1>1. Init => Contract!Empty BY DEF Init, Fresh, Contract!Empty
<1>2. Inv /\ [Next]_vars => [\/ Contract!Next
                             \/ UnlocksByCode
                             \/ \E r \in Request : Overtaken(r) /\ Write(r)]_(Contract!account)
  BY ContractStep
<1> QED BY <1>1, <1>2, Invariance, PTL DEF Spec, KeepsContract
=============================================================================
