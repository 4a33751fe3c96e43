-------------------------- MODULE AccountLifecycle --------------------------
(***************************************************************************)
(* What an account promises to its owner and to the administrators, with   *)
(* no entities, no bcrypt and no second request: every request takes       *)
(* effect at once, on the account as it is at that moment.  Only a save    *)
(* that overwrites what it has not read breaks the promise, and only for   *)
(* its own write: the requests that follow keep it again.                  *)
(* AuthSessions shows that the handlers implement this specification.      *)
(***************************************************************************)
EXTENDS Integers

CONSTANTS Passwords, Times, Codes, NoAccount

VARIABLES account,   \* status, password, the time from which sessions count,
                     \* and the code that each purpose accepts (0: none)
          spent,     \* the codes that were used
          decision,  \* the latest of an administrator
          torn       \* a save has overwritten what it had not read

vars == <<account, spent, decision, torn>>

Init ==
  /\ account = NoAccount
  /\ spent = {}
  /\ decision = "none"
  /\ torn = FALSE

Registered == account # NoAccount

\* A code is used once; a torn save may have put a used one back.
Spends(code) ==
  /\ code \in Codes
  /\ code \in spent => torn
  /\ spent' = spent \cup {code}

\* Sessions that were cut are never let in again.
Cuts(since) == since \in Times /\ since >= account.validAfter

Register(password, since, code) ==
  /\ ~Registered
  /\ account' = [status |-> "pending_verification", password |-> password,
                 validAfter |-> since, verifyCode |-> code, resetCode |-> 0]
  /\ UNCHANGED <<spent, decision, torn>>

Verify ==
  /\ Registered /\ account.status = "pending_verification"
  /\ Spends(account.verifyCode)
  /\ account' = [account EXCEPT !.status = "active", !.verifyCode = 0]
  /\ UNCHANGED <<decision, torn>>

\* The code of a mail is one that nobody has used, and never the one that the
\* other purpose accepts.
MailVerification(code) ==
  /\ Registered /\ account.status = "pending_verification"
  /\ code # account.resetCode /\ (code \notin spent \/ torn)
  /\ account' = [account EXCEPT !.verifyCode = code]
  /\ UNCHANGED <<spent, decision, torn>>

MailReset(code) ==
  /\ Registered /\ account.status \in {"pending_verification", "active"}
  /\ code # account.verifyCode /\ (code \notin spent \/ torn)
  /\ account' = [account EXCEPT !.resetCode = code]
  /\ UNCHANGED <<spent, decision, torn>>

ResetPassword(password, since) ==
  /\ Registered /\ account.status \in {"pending_verification", "active"}
  /\ Spends(account.resetCode) /\ Cuts(since)
  /\ account' = [account EXCEPT !.password = password, !.validAfter = since,
                                !.resetCode = 0]
  /\ UNCHANGED <<decision, torn>>

ChangePassword(password, since) ==
  /\ Registered /\ Cuts(since)
  /\ account' = [account EXCEPT !.password = password, !.validAfter = since]
  /\ UNCHANGED <<spent, decision, torn>>

Suspend(since) ==
  /\ Registered /\ account.status = "active" /\ Cuts(since)
  /\ account' = [account EXCEPT !.status = "suspended", !.validAfter = since]
  /\ decision' = "suspended"
  /\ UNCHANGED <<spent, torn>>

Reactivate ==
  /\ Registered /\ account.status = "suspended"
  /\ account' = [account EXCEPT !.status = "active"]
  /\ decision' = "active"
  /\ UNCHANGED <<spent, torn>>

Delete(since) ==
  /\ Registered /\ Cuts(since)
  /\ account' = [account EXCEPT !.status = "deleted", !.validAfter = since]
  /\ UNCHANGED <<spent, decision, torn>>

\* A save of what is out of date: the account is still there, and no more is
\* promised of it.
Tear ==
  /\ Registered /\ account' # NoAccount
  /\ spent \subseteq spent' /\ torn' = TRUE
  /\ UNCHANGED decision

Next ==
  \/ Verify \/ Reactivate \/ Tear
  \/ \E code \in Codes : MailVerification(code) \/ MailReset(code)
  \/ \E since \in Times : Suspend(since) \/ Delete(since)
  \/ \E password \in Passwords, since \in Times :
       \/ ResetPassword(password, since) \/ ChangePassword(password, since)
       \/ \E code \in Codes : Register(password, since, code)

Spec == Init /\ [][Next]_vars

-----------------------------------------------------------------------------

\* While no save was torn: what is accepted was never used, and nothing but
\* his own later decision or the owner's deletion undoes what the
\* administrator has decided.
LifecycleRule ==
  Registered /\ ~torn =>
    /\ spent \cap {account.verifyCode, account.resetCode} = {}
    /\ decision # "none" => account.status \in {decision, "deleted"}

=============================================================================
