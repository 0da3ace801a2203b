------------------------------ MODULE Accounts ------------------------------
(***************************************************************************)
(* One account and the calls that sign in to it or change it: reset links  *)
(* (lib/identity.ts, lib/passwordRecovery.ts), sign-in, password change    *)
(* and the second factor.  A call reads the account, verifies what it was  *)
(* given and writes in a later step.  Transactions are READ COMMITTED: an  *)
(* update sees the rows committed when its statement starts.               *)
(*                                                                         *)
(* A password is the number of the change that set it, a TOTP secret the   *)
(* number of the setup that made it; a code is the secret and the step it  *)
(* is for, a recovery code the number of the call that issued it and 0.    *)
(***************************************************************************)
EXTENDS Naturals

CONSTANTS Call,       \* requests in progress
          Link,       \* reset tokens
          MaxPassword, MaxSecret, MaxStep  \* bounds

VARIABLES
    password,  \* User.passwordHash
    disabled,  \* User.disabled
    signedIn,  \* the account has a session
    links,     \* PasswordReset rows
    secret,    \* User.totpSecret, 0 for none
    mfa,       \* User.mfaEnabledAt is set
    lastStep,  \* User.totpLastStep, 0 for none
    recovery,  \* User.recoveryHashes
    now,       \* the current TOTP step
    made,      \* secrets and recovery codes made so far
    at, read,  \* each call: point, and what it has read
    spent, replayed, \* history: one-time secrets accepted, and accepted again
    rearmed    \* history: secrets with an accepted step that was written over

user  == <<password, disabled, signedIn>>
totp  == <<secret, mfa, lastStep, recovery>>
past  == <<spent, replayed, rearmed>>
vars  == <<user, links, totp, now, made, at, read, past>>

Idle == [links |-> {}, password |-> 0, secret |-> 0, step |-> 0]

TypeOK ==
    /\ password \in 0..MaxPassword /\ {disabled, signedIn, mfa} \subseteq BOOLEAN
    /\ links \in [Link -> {"none", "live", "expired", "used"}]
    /\ {secret, made} \subseteq 0..MaxSecret /\ now \in 1..MaxStep
    /\ lastStep \in 0..MaxStep /\ recovery \cup rearmed \subseteq 0..MaxSecret
    /\ at \in [Call -> {"idle", "issue", "reset", "change", "code", "open", "setup", "enable"}]

Init ==
    /\ password = 1 /\ disabled = FALSE /\ signedIn = FALSE
    /\ links = [l \in Link |-> "none"]
    /\ secret = 0 /\ mfa = FALSE /\ lastStep = 0 /\ recovery = {}
    /\ now = 1 /\ made = 0
    /\ at = [c \in Call |-> "idle"] /\ read = [c \in Call |-> Idle]
    /\ spent = {} /\ replayed = {} /\ rearmed = {}

Starts(c, p, r) == at[c] = "idle" /\ at' = [at EXCEPT ![c] = p] /\ read' = [read EXCEPT ![c] = r]
Moves(c, p)     == at' = [at EXCEPT ![c] = p] /\ UNCHANGED read
Ends(c)         == at' = [at EXCEPT ![c] = "idle"] /\ read' = [read EXCEPT ![c] = Idle]

(* A one-time secret is accepted. *)
Spends(x) == /\ spent' = spent \cup {x}
             /\ replayed' = IF x \in spent THEN replayed \cup {x} ELSE replayed

-----------------------------------------------------------------------------
(* issueResetLink and createReset: the unused links are superseded, then the new
   one is added.  A request for a disabled account stops before this; an
   administrator's does not. *)
Unused(l) == links[l] \in {"live", "expired"}

Supersede(c) ==
    /\ Starts(c, "issue", [Idle EXCEPT !.links = {l \in Link : Unused(l)}])
    /\ UNCHANGED <<user, links, totp, now, made, past>>

Create(c, l) ==
    /\ at[c] = "issue" /\ links[l] = "none"
    /\ links' = [k \in Link |-> IF k = l THEN "live"
                                ELSE IF k \in read[c].links THEN "used" ELSE links[k]]
    /\ Ends(c)
    /\ UNCHANGED <<user, totp, now, made, past>>

LinkExpires(l) == /\ links[l] = "live" /\ links' = [links EXCEPT ![l] = "expired"]
                  /\ UNCHANGED <<user, totp, now, made, at, read, past>>

(* consumeReset: a good link is read, then claimed if it is still unused. *)
ResetRead(c, l) ==
    /\ links[l] = "live" /\ ~disabled
    /\ Starts(c, "reset", [Idle EXCEPT !.links = {l}])
    /\ UNCHANGED <<user, links, totp, now, made, past>>

Claims(l) == Unused(l)

ResetWrite(c) ==
    /\ at[c] = "reset"
    /\ \E l \in read[c].links :
          IF Claims(l) THEN /\ links' = [links EXCEPT ![l] = "used"]
                            /\ password < MaxPassword
                            /\ password' = password + 1 /\ signedIn' = FALSE
                            /\ Spends(l)
                       ELSE UNCHANGED <<links, password, signedIn, spent, replayed>>
    /\ Ends(c)
    /\ UNCHANGED <<disabled, totp, now, made, rearmed>>

(* Change password: the current one is verified, and must still be current. *)
ChangeRead(c) == /\ signedIn /\ ~disabled
                 /\ Starts(c, "change", [Idle EXCEPT !.password = password])
                 /\ UNCHANGED <<user, links, totp, now, made, past>>

ChangeWrite(c) ==
    /\ at[c] = "change"
    /\ IF read[c].password = password /\ ~disabled
         THEN password < MaxPassword /\ password' = password + 1 /\ signedIn' = FALSE
         ELSE UNCHANGED <<password, signedIn>>
    /\ Ends(c)
    /\ UNCHANGED <<disabled, links, totp, now, made, past>>

-----------------------------------------------------------------------------
(* Sign-in: the account is read with the password, the second factor verified
   if it was on, and a session opened, which replaces the others. *)
LoginRead(c) ==
    /\ ~disabled
    /\ IF mfa THEN Starts(c, "code", [Idle EXCEPT !.secret = secret, !.step = lastStep])
              ELSE Starts(c, "open", Idle)
    /\ UNCHANGED <<user, links, totp, now, made, past>>

(* verifyTotp: the code of the current step or of a neighbour, after the last. *)
Good(c, step) == /\ step \in {now - 1, now, now + 1} /\ step > read[c].step
                 /\ read[c].secret # 0

Later(step) == lastStep = 0 \/ lastStep < step

(* verifyMfaCode: a step is accepted once it could be moved forward, a recovery
   code once it could be removed. *)
TotpCode(c, step) ==
    /\ at[c] = "code" /\ Good(c, step)
    /\ IF Later(step) THEN /\ lastStep' = step /\ Moves(c, "open")
                           /\ Spends(<<read[c].secret, step>>)
                      ELSE Ends(c) /\ UNCHANGED <<lastStep, spent, replayed>>
    /\ UNCHANGED <<user, links, secret, mfa, recovery, now, made, rearmed>>

RecoveryCode(c) ==
    /\ at[c] = "code"
    /\ \E r \in recovery : recovery' = recovery \ {r} /\ Spends(<<r, 0>>)
    /\ Moves(c, "open")
    /\ UNCHANGED <<user, links, secret, mfa, lastStep, now, made, rearmed>>

WrongCode(c) == at[c] = "code" /\ Ends(c) /\ UNCHANGED <<user, links, totp, now, made, past>>

OpenSession(c) ==
    /\ at[c] = "open" /\ signedIn' = TRUE /\ Ends(c)
    /\ UNCHANGED <<password, disabled, links, totp, now, made, past>>

(* Sign-out, the end of a session, and an administrator. *)
SignOut == /\ signedIn /\ signedIn' = FALSE
           /\ UNCHANGED <<password, disabled, links, totp, now, made, at, read, past>>

SetDisabled == /\ disabled' = ~disabled /\ signedIn' = (signedIn /\ disabled)
               /\ UNCHANGED <<password, links, totp, now, made, at, read, past>>

-----------------------------------------------------------------------------
(* The last step is written whatever it was: the codes accepted from there on are good
   again. *)
Reopened(step) == {x \in spent \ Link : x[2] > 0 /\ x[2] >= step}

StepTo(step) == lastStep' = step /\ rearmed' = rearmed \cup {x[1] : x \in Reopened(step)}

(* setupMfa and enableMfa read that the factor is off, and write by id. *)
MfaRead(c, p) ==
    /\ signedIn /\ ~disabled /\ ~mfa /\ (p = "enable" => secret # 0)
    /\ Starts(c, p, [Idle EXCEPT !.secret = secret])
    /\ UNCHANGED <<user, links, totp, now, made, past>>

Setup(c) ==
    /\ at[c] = "setup" /\ made < MaxSecret
    /\ made' = made + 1 /\ secret' = made + 1 /\ StepTo(0)
    /\ Ends(c)
    /\ UNCHANGED <<user, links, mfa, recovery, now, spent, replayed>>

Enable(c, step) ==
    /\ at[c] = "enable" /\ made < MaxSecret /\ Good(c, step)
    /\ made' = made + 1 /\ recovery' = {made + 1}
    /\ mfa' = TRUE /\ StepTo(step)
    /\ Spends(<<read[c].secret, step>>)
    /\ Ends(c)
    /\ UNCHANGED <<user, links, secret, now>>

(* disableMfa, once a code was accepted (the same verifyMfaCode). *)
Disable(c) ==
    /\ at[c] = "open" /\ signedIn /\ read[c].secret # 0
    /\ mfa' = FALSE /\ secret' = 0 /\ StepTo(0) /\ recovery' = {}
    /\ Ends(c)
    /\ UNCHANGED <<user, links, now, made, spent, replayed>>

Tick == /\ now < MaxStep /\ now' = now + 1
        /\ UNCHANGED <<user, links, totp, made, at, read, past>>

Next ==
    \/ \E c \in Call :
          \/ Supersede(c) \/ ResetWrite(c) \/ ChangeRead(c) \/ ChangeWrite(c)
          \/ \E l \in Link : Create(c, l) \/ ResetRead(c, l)
          \/ LoginRead(c) \/ RecoveryCode(c) \/ WrongCode(c) \/ OpenSession(c)
          \/ \E step \in 1..MaxStep : TotpCode(c, step) \/ Enable(c, step)
          \/ \E p \in {"setup", "enable"} : MfaRead(c, p)
          \/ Setup(c) \/ Disable(c)
    \/ \E l \in Link : LinkExpires(l)
    \/ SignOut \/ SetDisabled \/ Tick

Spec == Init /\ [][Next]_vars

-----------------------------------------------------------------------------
(* identity.ts:118, "atomically so neither can be replayed": a reset link sets one
   password and a code opens one session or enables once, whatever calls overlap.
   The exception for steps is real: the calls that enable, set up or disable the
   factor write totpLastStep without a condition, and one that read the account
   before another call makes a code good again that was accepted. *)
OneTimeSecrets ==
    \A x \in replayed : x \notin Link /\ x[2] > 0 /\ x[1] \in rearmed

(* passwordRecovery.ts:70, "A fresh link supersedes the previous unused one, so at
   most one link is ever valid": not so for two links issued at once. *)
AtMostOneLiveReset ==
    \A k, l \in Link : links[k] = "live" /\ links[l] = "live" => k = l
=============================================================================
