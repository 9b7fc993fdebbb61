---------------------------- MODULE AuthSession ----------------------------
(***************************************************************************)
(* One account of packages/api/src/services/authService.ts: its User row,  *)
(* the browsers that sign in to it and the requests in flight.  Every      *)
(* operation reads the row, waits (bcrypt, the breached-password service,  *)
(* the mail provider) and then updates the row by id, whatever became of   *)
(* it meanwhile.  Tokens are named by the second they are signed in: two   *)
(* signed for one user in the same second are the same string.             *)
(***************************************************************************)
EXTENDS Integers

CONSTANTS Browser,      \* browsers, each with an address of its own
          Request,      \* slots for requests in flight
          Nobody,       \* no address on record
          Tier1, Tier3,  \* failures that lock for a time, and for good
          MaxClock,     \* seconds the model runs for
          MaxSecrets,   \* one-time codes and reset links sent
          MaxPassword   \* passwords set by a reset

ASSUME TierAssumption == /\ Tier1 \in Nat \ {0}
                         /\ Tier3 \in Nat
                         /\ Tier1 <= Tier3
ASSUME BoundAssumption == /\ MaxClock \in Nat \ {0}
                          /\ MaxSecrets \in Nat
                          /\ MaxPassword \in Nat
ASSUME NobodyAssumption == Nobody \notin Browser

VARIABLES row,      \* the User row
          browser,  \* cookies and tokens each browser holds
          req,      \* requests in flight
          clock,    \* the current second
          issued,   \* one-time codes and reset links made so far
          inbox     \* those of them that reached the user by mail

vars == <<row, browser, req, clock, issued, inbox>>

Role == {"NONE", "CUSTOMER", "ADMIN"}
Lock == {"none", "running", "passed", "forever"}

\* under is not a column: the password the current session was earned with,
\* or -1 when the request that wrote it had been overtaken.
User == [role : Role, password : Nat, fails : Nat, lock : Lock,
         refresh : Nat, under : Int, otp : Nat, otpLive : BOOLEAN,
         reset : Nat, resetLive : BOOLEAN, ip : Browser \cup {Nobody}]

Fresh(role) == [role |-> role, password |-> 0, fails |-> 0, lock |-> "none",
                refresh |-> 0, under |-> 0, otp |-> 0, otpLive |-> FALSE,
                reset |-> 0, resetLive |-> FALSE, ip |-> Nobody]

Place == {"idle", "hash", "own", "denied", "compared", "coded", "mailCode", "temp",
          "grant", "redeem", "rotate", "registered", "signedIn", "verified",
          "refreshed", "mailLink", "clean", "reset"}

Idle == [at |-> "idle", from |-> Nobody, fails |-> 0, password |-> 0,
         key |-> 0, token |-> 0]

TypeOK == /\ row \in User
          /\ browser \in [Browser -> [cookie : Nat, temp : BOOLEAN,
                                      device : BOOLEAN]]
          /\ req \in [Request -> [at : Place, from : Browser \cup {Nobody},
                                  fails : Nat, password : Int, key : Nat,
                                  token : Nat]]
          /\ clock \in Nat \ {0}
          /\ issued \in Nat
          /\ inbox \in SUBSET Nat

Init == /\ row \in {Fresh("NONE"), Fresh("ADMIN")}
        /\ browser = [b \in Browser |-> [cookie |-> 0, temp |-> FALSE,
                                         device |-> FALSE]]
        /\ req = [r \in Request |-> Idle]
        /\ clock = 1
        /\ issued = 0
        /\ inbox = {}

Exists == row.role # "NONE"

\* May u log in, if its password is right?
Admits(u) == /\ u.lock \notin {"running", "forever"}
             /\ ~(u.fails >= Tier3 /\ u.lock = "none")

\* A request starts by reading the row and keeps what it will go by: key is
\* the refresh token, code or link it came with.
Begin(r, q) == /\ req[r].at = "idle"
               /\ req' = [req EXCEPT ![r] = q]
               /\ UNCHANGED <<row, browser, clock, issued, inbox>>

\* A request that has written the row goes on with what it has to hand over.
Goto(r, place, token) ==
  req' = [req EXCEPT ![r] = [Idle EXCEPT !.at = place, !.from = req[r].from, !.token = token]]
End(r) == req' = [req EXCEPT ![r] = Idle]

\* Has the row changed in what the request goes by since it was read?
Overtaken(r) ==
  LET q == req[r]
  IN CASE q.at = "denied" -> row.fails # q.fails \/ ~Admits(row)
       [] q.at = "grant"  -> \/ row.fails # q.fails
                             \/ row.password # q.password
                             \/ ~Admits(row)
       [] q.at = "redeem" -> row.otp # q.key \/ row.password # q.password
       [] q.at = "rotate" -> row.refresh # q.key \/ row.under # q.password
       [] q.at \in {"reset", "clean"} -> row.reset # q.key
       [] OTHER -> row.password # q.password

\* The password of the session a request writes.
Earned(r) == IF Overtaken(r) THEN -1 ELSE req[r].password

-----------------------------------------------------------------------------
(* register *)
Register(r, b) == ~Exists /\ Begin(r, [Idle EXCEPT !.at = "hash", !.from = b])

\* The address is unique: the slower of two registrations fails here.
InsertUser(r) ==
  /\ req[r].at = "hash"
  /\ ~Exists
  /\ row' = Fresh("CUSTOMER")
  /\ req' = [req EXCEPT ![r] = [@ EXCEPT !.at = "own", !.token = clock]]
  /\ UNCHANGED <<browser, clock, issued, inbox>>

StoreToken(r) ==
  /\ req[r].at = "own"
  /\ row' = [row EXCEPT !.refresh = req[r].token,
                        !.under = Earned(r)]
  /\ Goto(r, "registered", req[r].token)
  /\ UNCHANGED <<browser, clock, issued, inbox>>

-----------------------------------------------------------------------------
(* login *)
\* An administrator at another address than the last, on an unknown device.
NeedsCode(b) == row.role = "ADMIN" /\ ~browser[b].device /\ row.ip # b

Login(r, b) ==
  /\ Exists
  /\ Admits(row)
  /\ \/ Begin(r, [Idle EXCEPT !.at = "denied", !.fails = row.fails])
     \/ NeedsCode(b) /\ Begin(r, [Idle EXCEPT !.at = "coded", !.from = b])
     \/ ~NeedsCode(b) /\ Begin(r, [Idle EXCEPT !.at = "compared", !.from = b,
                             !.fails = row.fails, !.password = row.password])

\* (mutants) The count of the other failures is lost, or no lock comes with it.
CountDown(r) ==
  /\ req[r].at = "denied"
  /\ row' = [row EXCEPT !.fails = req[r].fails - 1]
  /\ End(r)
  /\ UNCHANGED <<browser, clock, issued, inbox>>

CountOnly(r) ==
  /\ req[r].at = "denied"
  /\ row' = [row EXCEPT !.fails = req[r].fails + 1]
  /\ End(r)
  /\ UNCHANGED <<browser, clock, issued, inbox>>

\* The password was wrong: count on from the number read before bcrypt.
LoginFails(r) ==
  LET n == req[r].fails + 1
  IN /\ req[r].at = "denied"
     /\ row' = [row EXCEPT !.fails = n,
                           !.lock = IF n >= Tier3 THEN "forever"
                                    ELSE IF n >= Tier1 THEN "running" ELSE @]
     /\ End(r)
     /\ UNCHANGED <<browser, clock, issued, inbox>>

StoreCode(r) ==
  /\ req[r].at = "coded"
  /\ issued < MaxSecrets
  /\ issued' = issued + 1
  /\ row' = [row EXCEPT !.otp = issued', !.otpLive = TRUE]
  /\ Goto(r, "mailCode", issued')
  /\ UNCHANGED <<browser, clock, inbox>>

\* One of two mail providers takes the mail; when both fail the request breaks.
SendResetEmail(secret) == inbox' = inbox \cup {secret}

MailCode(r) ==
  /\ req[r].at = "mailCode"
  /\ SendResetEmail(req[r].token)
  /\ Goto(r, "temp", 0)
  /\ UNCHANGED <<row, browser, clock, issued>>

AnswerTemp(r) ==
  /\ req[r].at = "temp"
  /\ browser' = [browser EXCEPT ![req[r].from].temp = TRUE]
  /\ End(r)
  /\ UNCHANGED <<row, clock, issued, inbox>>

LoginSucceeds(r) ==
  /\ req[r].at = "compared"
  /\ req' = [req EXCEPT ![r].at = "grant", ![r].token = clock]
  /\ UNCHANGED <<row, browser, clock, issued, inbox>>

Signed(r, u) == [u EXCEPT !.refresh = req[r].token,
                          !.under = Earned(r),
                          !.fails = 0, !.lock = "none",
                          !.ip = req[r].from]

StoreLogin(r) ==
  /\ req[r].at = "grant"
  /\ row' = Signed(r, row)
  /\ Goto(r, "signedIn", req[r].token)
  /\ UNCHANGED <<browser, clock, issued, inbox>>

-----------------------------------------------------------------------------
(* verifyAdminOtp *)
VerifyAdminOtp(r, b) ==
  /\ browser[b].temp
  /\ row.role = "ADMIN"
  /\ row.otp # 0
  /\ row.otpLive
  /\ row.otp \in inbox
  /\ Begin(r, [Idle EXCEPT !.at = "redeem", !.from = b, !.password = row.password,
                           !.key = row.otp, !.token = clock])

\* (mutant) The code is good for another session.
StoreVerifiedOnly(r) ==
  /\ req[r].at = "redeem"
  /\ row' = Signed(r, row)
  /\ Goto(r, "verified", req[r].token)
  /\ UNCHANGED <<browser, clock, issued, inbox>>

StoreVerified(r) ==
  /\ req[r].at = "redeem"
  /\ row' = [Signed(r, row) EXCEPT !.otp = 0, !.otpLive = FALSE]
  /\ Goto(r, "verified", req[r].token)
  /\ UNCHANGED <<browser, clock, issued, inbox>>

-----------------------------------------------------------------------------
(* refresh *)
Refresh(r, b) ==
  /\ browser[b].cookie # 0
  /\ Exists
  /\ row.refresh = browser[b].cookie
  /\ Begin(r, [Idle EXCEPT !.at = "rotate", !.from = b, !.password = row.under,
                           !.key = row.refresh, !.token = clock])

Rotate(r) ==
  /\ req[r].at = "rotate"
  /\ row' = [row EXCEPT !.refresh = req[r].token,
                        !.under = Earned(r)]
  /\ Goto(r, "refreshed", req[r].token)
  /\ UNCHANGED <<browser, clock, issued, inbox>>

\* The answer leaves the session's cookie, and an administrator's login that
\* of the device too.
Answer(r, place, device) ==
  /\ req[r].at = place
  /\ browser' = [browser EXCEPT
       ![req[r].from] = [cookie |-> req[r].token, temp |-> @.temp,
                         device |-> @.device \/ device]]
  /\ End(r)
  /\ UNCHANGED <<row, clock, issued, inbox>>

RegisterAnswers(r) == Answer(r, "registered", FALSE)
LoginAnswers(r) == Answer(r, "signedIn", row.role = "ADMIN")
VerifyAnswers(r) == Answer(r, "verified", row.role = "ADMIN")
RefreshAnswers(r) == Answer(r, "refreshed", FALSE)

\* The gateway lets only a live access token through to logout, and the
\* cookie's path keeps the browser from sending it there: the service is
\* not called, and the row keeps its refresh token.
Logout(b) ==
  /\ browser[b].cookie # 0
  /\ browser' = [browser EXCEPT ![b].cookie = 0]
  /\ UNCHANGED <<row, req, clock, issued, inbox>>

-----------------------------------------------------------------------------
(* requestPasswordReset, resetPassword *)
RequestPasswordReset(r) ==
  /\ req[r].at = "idle"
  /\ Exists
  /\ issued < MaxSecrets
  /\ issued' = issued + 1
  /\ row' = [row EXCEPT !.reset = issued', !.resetLive = TRUE]
  /\ req' = [req EXCEPT ![r] = [Idle EXCEPT !.at = "mailLink", !.token = issued']]
  /\ UNCHANGED <<browser, clock, inbox>>

MailLink(r) ==
  /\ req[r].at = "mailLink"
  /\ SendResetEmail(req[r].token)
  /\ End(r)
  /\ UNCHANGED <<row, browser, clock, issued>>

ResetPassword(r) ==
  /\ Exists
  /\ row.reset # 0
  /\ row.reset \in inbox
  /\ Begin(r, [Idle EXCEPT !.at = IF row.resetLive THEN "reset" ELSE "clean",
                           !.key = row.reset])

CleanReset(r) ==
  /\ req[r].at = "clean"
  /\ row' = [row EXCEPT !.reset = 0, !.resetLive = FALSE]
  /\ End(r)
  /\ UNCHANGED <<browser, clock, issued, inbox>>

\* (mutant) The sessions of the old password stay.
StorePasswordOnly(r) ==
  /\ req[r].at = "reset"
  /\ row.password < MaxPassword
  /\ row' = [row EXCEPT !.password = @ + 1, !.reset = 0, !.resetLive = FALSE]
  /\ End(r)
  /\ UNCHANGED <<browser, clock, issued, inbox>>

StorePassword(r) ==
  /\ req[r].at = "reset"
  /\ row.password < MaxPassword
  /\ row' = [row EXCEPT !.password = @ + 1, !.reset = 0, !.resetLive = FALSE,
                        !.refresh = 0]
  /\ End(r)
  /\ UNCHANGED <<browser, clock, issued, inbox>>

-----------------------------------------------------------------------------
\* A refusal on the way (breached password, address taken, mail provider
\* down), a failed query, a crash, an answer that does not arrive.
Break(r) == /\ req[r].at # "idle"
            /\ End(r)
            /\ UNCHANGED <<row, browser, clock, issued, inbox>>

Tick == /\ clock < MaxClock
        /\ clock' = clock + 1
        /\ UNCHANGED <<row, browser, req, issued, inbox>>

\* Time limits on the row: lockedUntil, adminOtpExpires, resetPasswordExpires.
RowExpires ==
  /\ \/ row.lock = "running" /\ row' = [row EXCEPT !.lock = "passed"]
     \/ row.otpLive /\ row' = [row EXCEPT !.otpLive = FALSE]
     \/ row.resetLive /\ row' = [row EXCEPT !.resetLive = FALSE]
  /\ UNCHANGED <<browser, req, clock, issued, inbox>>

\* Time limits in a browser: 5 minutes, 5 minutes, 30 minutes, 30 days.
BrowserExpires(b) ==
  /\ \/ browser[b].temp /\ browser' = [browser EXCEPT ![b].temp = FALSE]
     \/ browser[b].cookie # 0 /\ browser' = [browser EXCEPT ![b].cookie = 0]
     \/ browser[b].device /\ browser' = [browser EXCEPT ![b].device = FALSE]
  /\ UNCHANGED <<row, req, clock, issued, inbox>>

Next ==
  \/ \E r \in Request, b \in Browser :
       \/ Register(r, b) \/ Login(r, b) \/ VerifyAdminOtp(r, b)
       \/ Refresh(r, b)
  \/ \E r \in Request :
       \/ InsertUser(r) \/ StoreToken(r)
       \/ LoginFails(r) \/ StoreCode(r) \/ MailCode(r) \/ AnswerTemp(r)
       \/ LoginSucceeds(r) \/ StoreLogin(r) \/ StoreVerified(r)
       \/ Rotate(r)
       \/ RegisterAnswers(r) \/ LoginAnswers(r) \/ VerifyAnswers(r) \/ RefreshAnswers(r)
       \/ RequestPasswordReset(r) \/ MailLink(r) \/ ResetPassword(r)
       \/ CleanReset(r) \/ StorePassword(r) \/ Break(r)
  \/ \E b \in Browser : Logout(b) \/ BrowserExpires(b)
  \/ Tick \/ RowExpires

Spec == Init /\ [][Next]_vars

-----------------------------------------------------------------------------
(* login, authService.ts 131-136: the check of a hard floor of 20 failures  *)
(* without a lock never decides, because whatever two logins write over     *)
(* each other, a count at a tier comes with the lock of that tier.          *)
LockFollowsFailures ==
  /\ row.fails >= Tier1 => row.lock # "none"
  /\ row.fails >= Tier3 => row.lock = "forever"

(* resetPassword, authService.ts 562-569, nulls the refresh token to end    *)
(* every session: a session on record was earned with the password now on   *)
(* record, through any number of refreshes, unless the request that wrote   *)
(* it (or the one it was refreshed from) had been overtaken.                *)
SessionsAreEarned ==
  row.refresh # 0 /\ row.under # -1 => row.under = row.password

\* The updates that go by what a request read earlier.
Write(r) == \/ StoreToken(r) \/ LoginFails(r) \/ StoreLogin(r) \/ StoreVerified(r)
            \/ Rotate(r) \/ CleanReset(r) \/ StorePassword(r)

NoSession == -2

Contract == INSTANCE AccountContract WITH
              known <- Exists, password <- row.password, fails <- row.fails,
              lock <- row.lock, code <- row.otp, link <- row.reset,
              session <- IF row.refresh = 0 THEN NoSession ELSE row.under,
              sent <- issued

\* verifyAdminOtp looks at no lock: a code mailed before the lock came lifts
\* it, the permanent one included.
UnlocksByCode == row.lock \in {"running", "forever"} /\ Contract!UseCode

(* The whole of authService.ts: however the requests on an account          *)
(* interleave, what they do to it is what they would do one at a time, but  *)
(* for the updates whose row had changed since it was read, and for a code  *)
(* that lifts a lock (UnlocksByCode).  So a code or a link works once, only *)
(* such a code passes by a lock, and a failure is not forgotten, unless two *)
(* requests overlap in just that way.                                       *)
KeepsContract ==
  /\ Contract!Empty
  /\ [][\/ Contract!Next
        \/ UnlocksByCode
        \/ \E r \in Request : Overtaken(r) /\ Write(r)]_(Contract!account)

(* login documents 20 failures as a "permanent lockout (admin unlock        *)
(* required)" (authService.ts 102): without an administrator the lock       *)
(* stays, but for overlapping requests.  It does not: a code mailed before  *)
(* the lock lifts it.                                                       *)
PermanentLockStays ==
  [][row.lock = "forever" /\ row'.lock # "forever"
       => \E r \in Request : Overtaken(r) /\ Write(r)]_vars

(* login tells the owner of a locked account to wait "or reset your         *)
(* password" (authService.ts 126): a reset opens a lock that is running.    *)
(* It does not: resetPassword leaves failures and lock as they are.         *)
ResetOpensAccount ==
  [][\A r \in Request : StorePassword(r) => row'.lock # "running"]_vars
=============================================================================
