-------------------------- MODULE AccountContract --------------------------
(***************************************************************************)
(* What one account promises its user when its operations take effect one  *)
(* at a time: the service of packages/api/src/services/authService.ts with *)
(* every request reading and writing in one go.  A session is known by the *)
(* password it was earned with, so a refreshed session is the same one.    *)
(***************************************************************************)
EXTENDS Integers

CONSTANTS Tier1, Tier3,  \* failures that lock for a time, and for good
          NoSession

VARIABLES known,     \* is there an account
          password,  \* how many times it was changed
          fails,     \* wrong passwords since the last success
          lock,
          session,   \* NoSession or the password it was earned with
          code,      \* the one-time code that is good, 0 when none is
          link,      \* the reset link that is good, 0 when none is
          sent       \* codes and links sent so far; each is named by its number

account == <<known, password, fails, lock, session, code, link, sent>>

Empty == /\ password = 0
         /\ fails = 0
         /\ lock = "none"
         /\ session = NoSession
         /\ code = 0
         /\ link = 0
         /\ sent = 0

SignedIn == /\ session' = password
            /\ fails' = 0
            /\ lock' = "none"
            /\ UNCHANGED <<known, password, link, sent>>

Register == /\ ~known
            /\ known'
            /\ UNCHANGED <<password, fails, lock, session, code, link, sent>>

\* The session a registration ends with.
Begin == /\ known
         /\ session' = password
         /\ UNCHANGED <<known, password, fails, lock, code, link, sent>>

\* A wrong password counts, and locks at the tiers, at the last one for good.
Fail == /\ known
        /\ lock \in {"none", "passed"}
        /\ fails' = fails + 1
        /\ lock' = IF fails' >= Tier3 THEN "forever"
                   ELSE IF fails' >= Tier1 THEN "running" ELSE lock
        /\ UNCHANGED <<known, password, session, code, link, sent>>

SignIn == /\ known
          /\ lock \in {"none", "passed"}
          /\ SignedIn
          /\ UNCHANGED code

\* A new code or link was never sent before: a used one is not good again.
SendCode == /\ known
            /\ sent' = sent + 1
            /\ code' = sent'
            /\ UNCHANGED <<known, password, fails, lock, session, link>>

\* A code is good for one session, of an account that is not locked.
UseCode == /\ code # 0
           /\ code' = 0
           /\ SignedIn
Redeem == lock \in {"none", "passed"} /\ UseCode

SendLink == /\ known
            /\ sent' = sent + 1
            /\ link' = sent'
            /\ UNCHANGED <<known, password, fails, lock, session, code>>

\* A link is good for one new password, which ends the session.
Reset == /\ link # 0
         /\ link' = 0
         /\ password' = password + 1
         /\ session' = NoSession
         /\ UNCHANGED <<known, fails, lock, code, sent>>

DropLink == /\ link # 0
            /\ link' = 0
            /\ UNCHANGED <<known, password, fails, lock, session, code, sent>>

LockPasses == /\ lock = "running"
              /\ lock' = "passed"
              /\ UNCHANGED <<known, password, fails, session, code, link, sent>>

Next == \/ Register \/ Begin \/ Fail \/ SignIn \/ SendCode \/ Redeem
        \/ SendLink \/ Reset \/ DropLink \/ LockPasses

Spec == Empty /\ [][Next]_account
=============================================================================
