---------------------------- MODULE AuthSessions ----------------------------
(***************************************************************************)
(* One account of module auth-security: its users row, the one-time codes  *)
(* mailed to its owner, the access tokens signed for it, the list of       *)
(* revoked tokens, and the requests that read and write them side by side. *)
(* Accounts share nothing, so one e-mail address stands for every one.     *)
(*                                                                         *)
(* A request is cut where the code awaits: between the read of the users   *)
(* row and its use lies a bcrypt call, and TypeORM's save() of an entity   *)
(* first reads the row again, then updates the columns that differ from    *)
(* the entity.  An administrator suspends and reactivates the account with *)
(* a conditional UPDATE of his own.                                        *)
(*                                                                         *)
(* A wrong password, a wrong code and an expired code end a request with   *)
(* an error and change nothing: they are the calls that are not made here. *)
(***************************************************************************)
EXTENDS Integers, Sequences, FiniteSets

CONSTANTS
    Requests,        \* requests the servers handle side by side
    Passwords,       \* passwords people choose
    MaxClock,        \* bound: last tick of the clock
    TicksPerSecond,  \* the clock is finer than the second of a token's iat
    TokenLife,       \* seconds an access token is valid (ttlSeconds)
    MaxCodes,        \* bound: one-time codes mailed
    MaxTokens,       \* bound: access tokens signed
    MaxSessions,     \* bound: access tokens valid at one time
    ClockStops,      \* bound: no time passes after a lost update
    NoAccount,       \* nobody has registered the address
    NoPassword       \* in the copy of a request that has read nothing

ASSUME BoundsAssumption ==
    /\ {MaxClock, MaxCodes, MaxTokens, MaxSessions} \subseteq Nat
    /\ {TicksPerSecond, TokenLife} \subseteq Nat \ {0}
    /\ NoPassword \notin Passwords

VARIABLES
    account,   \* the users row, or NoAccount
    mailed,    \* one-time codes in the order they were mailed
    tokens,    \* access tokens in the order they were signed
    revoked,   \* rows of revoked_tokens
    calls,     \* what each request has read and where it stands
    clock,
    decision,  \* history: the newest entry of audit_logs for the account
    spent,     \* history: codes whose use has been saved
    closed,    \* history: tokens whose revocation a logout has written
    cutAt,     \* history: newest time from which older sessions were cut; not
               \* kept once a save has been lost
    lost       \* history: a save has written over a row changed meanwhile

history == <<decision, spent, closed, cutAt, lost>>
vars == <<account, mailed, tokens, revoked, calls, clock, history>>

-----------------------------------------------------------------------------
(* The users row and the requests *)

Statuses == {"pending_verification", "active", "suspended", "deleted"}

\* The columns these modules write.  is_verified, deleted_at and
\* suspension_reason are always written together with status.
Columns == {"status", "password", "validAfter", "verifyCode", "resetCode"}

Row == [status : Statuses, password : Passwords \cup {NoPassword},
        validAfter : 0..MaxClock, verifyCode : 0..MaxCodes,
        resetCode : 0..MaxCodes]

ASSUME AccountAssumption == NoAccount \notin Row

\* Copy of a request that holds none.
NoCopy == [status |-> "deleted", password |-> NoPassword, validAfter |-> 0,
           verifyCode |-> 0, resetCode |-> 0]

\* What a one-time code is mailed for.
Purposes == {"email_verification", "password_reset"}

\* Of a token's payload only the second it was signed in is looked at.
Token == [iat : 0..MaxClock]

\* What a request is for, as far as its next steps tell it apart.
Kinds == {"none", "register", "login", "verify", "resend", "forgot", "reset",
          "change", "suspend", "reactivate"}

Steps == {"idle", "insert", "compare", "identified", "authorised", "purge",
          "hash", "save", "write", "decide"}

Idle == [kind |-> "none", step |-> "idle", copy |-> NoCopy, dirty |-> {},
         code |-> 0, token |-> 0, at |-> 0, stale |-> FALSE]

Call == [kind : Kinds, step : Steps, copy : Row, dirty : SUBSET Columns,
         code : 0..MaxCodes, token : 0..MaxTokens, at : 0..MaxClock,
         stale : BOOLEAN]

Second(tick) == tick \div TicksPerSecond

Registered == account # NoAccount

Begin(q, call) ==
    /\ calls[q] = Idle
    /\ calls' = [calls EXCEPT ![q] = call]

\* A commit on the users row.  Requests that are going to save hold a copy of
\* something that has changed.
Commit(q, row) ==
    /\ account' = row
    /\ calls' = [r \in Requests |->
                    IF r = q THEN Idle
                    ELSE IF /\ row # account
                            /\ calls[r].step \in {"hash", "save", "write"}
                         THEN [calls[r] EXCEPT !.stale = TRUE]
                         ELSE calls[r]]

Finish(q) == calls' = [calls EXCEPT ![q] = Idle]

-----------------------------------------------------------------------------
(* One-time codes: one-time-code.service.ts *)

\* A new code replaces the earlier one of its purpose: the column takes it.
Issue(purpose) ==
    /\ Len(mailed) < MaxCodes
    /\ mailed' = Append(mailed, purpose)

NewCode == Len(mailed) + 1

\* The code in the column is not null.  That it may have expired is left to
\* the calls that are not made: a code that lives longer only adds behaviours.
Usable(code) == code # 0

\* Faulty variant: the code is checked and left in place.
ConsumeKeeps(row, column) == row

\* The code is used up in the entity; the caller saves it.
Consume(row, column) == [row EXCEPT ![column] = 0]

-----------------------------------------------------------------------------
(* Access tokens: session.service.ts and access-token.checks.ts *)

Expiry(t) == (tokens[t].iat + TokenLife) * TicksPerSecond

SignatureCheck(t) == clock < Expiry(t)

RevocationCheck(t) == t \notin revoked

TokensValidAfterCheck(t) == tokens[t].iat >= Second(account.validAfter)

ActiveAccountCheck == account.status = "active"

\* The chain of SessionService, until it reads revoked_tokens ...
Identifies(t) == SignatureCheck(t) /\ RevocationCheck(t)

\* ... and from where it reads the row of the user.
Admits(t) == Registered /\ TokensValidAfterCheck(t) /\ ActiveAccountCheck

\* Faulty variant: a row goes when its token is about to expire.
PurgedEarly(rows) == {t \in rows : ~(Expiry(t) < clock + TicksPerSecond)}

\* Rows of revoked_tokens that purgeExpired leaves.
Purged(rows) == {t \in rows : ~(Expiry(t) < clock)}

-----------------------------------------------------------------------------
(* register: auth.service.ts 45-64 *)

\* existsByEmail answers no; bcrypt follows.
RegisterCheck(q) ==
    /\ ~Registered
    /\ Begin(q, [Idle EXCEPT !.kind = "register", !.step = "insert"])
    /\ UNCHANGED <<account, mailed, tokens, revoked, clock, history>>

\* Faulty variant: the second registration replaces the first one's row.
RegisterUpserts(q) ==
    /\ calls[q].step = "insert"
    /\ Issue("email_verification")
    /\ \E p \in Passwords :
          Commit(q, [status |-> "pending_verification", password |-> p,
                     validAfter |-> clock, verifyCode |-> NewCode,
                     resetCode |-> 0])
    /\ UNCHANGED <<tokens, revoked, clock, history>>

\* createWithProfile, with the code just issued.
RegisterInsert(q) ==
    /\ calls[q].step = "insert"
    /\ ~Registered
    /\ Issue("email_verification")
    /\ \E p \in Passwords :
          Commit(q, [status |-> "pending_verification", password |-> p,
                     validAfter |-> clock, verifyCode |-> NewCode,
                     resetCode |-> 0])
    /\ UNCHANGED <<tokens, revoked, clock, history>>

\* The UNIQUE index refuses the second of two simultaneous registrations.
RegisterConflict(q) ==
    /\ calls[q].step = "insert"
    /\ Registered
    /\ Finish(q)
    /\ UNCHANGED <<account, mailed, tokens, revoked, clock, history>>

-----------------------------------------------------------------------------
(* login: auth.service.ts 66-83 *)

\* findByEmail; bcrypt compares with the hash of the row that was read.
LoginRead(q) ==
    /\ Registered
    /\ Begin(q, [Idle EXCEPT !.kind = "login", !.step = "compare",
                             !.copy.status = account.status])
    /\ UNCHANGED <<account, mailed, tokens, revoked, clock, history>>

\* Faulty variant: an account that is not verified yet may log in.
LoginUnverified(status) == status \in {"active", "pending_verification"}

\* enforceLoginPolicy(user.status): only an active account may log in.
LoginAllowed(status) == status = "active"

LoginSign(q) ==
    /\ calls[q].step = "compare"
    /\ LoginAllowed(calls[q].copy.status)
    /\ Len(tokens) < MaxTokens
    /\ Cardinality({t \in DOMAIN tokens : SignatureCheck(t)}) < MaxSessions
    /\ tokens' = Append(tokens, [iat |-> Second(clock)])
    /\ Finish(q)
    /\ UNCHANGED <<account, mailed, revoked, clock, history>>

\* Wrong password, or a status that may not log in.
LoginRefuse(q) ==
    /\ calls[q].step = "compare"
    /\ Finish(q)
    /\ UNCHANGED <<account, mailed, tokens, revoked, clock, history>>

-----------------------------------------------------------------------------
(* account-verification.service.ts and password-recovery.service.ts.  Each *)
(* reads the row, changes the entity and calls save().                      *)

\* A read of the row: the entity as the handler has changed it.
Read(q, kind, step, entity, code) ==
    Begin(q, [Idle EXCEPT !.kind = kind, !.step = step, !.copy = entity,
                          !.code = code])

VerifyRead(q) ==
    /\ Registered
    /\ account.status = "pending_verification"
    /\ Usable(account.verifyCode)
    /\ Read(q, "verify", "save",
            [Consume(account, "verifyCode") EXCEPT !.status = "active"],
            account.verifyCode)
    /\ UNCHANGED <<account, mailed, tokens, revoked, clock, history>>

ResendRead(q) ==
    /\ Registered
    /\ account.status = "pending_verification"
    /\ Issue("email_verification")
    /\ Read(q, "resend", "save", [account EXCEPT !.verifyCode = NewCode], 0)
    /\ UNCHANGED <<account, tokens, revoked, clock, history>>

Recoverable(status) == status \in {"active", "pending_verification"}

ForgotRead(q) ==
    /\ Registered
    /\ Recoverable(account.status)
    /\ Issue("password_reset")
    /\ Read(q, "forgot", "save", [account EXCEPT !.resetCode = NewCode], 0)
    /\ UNCHANGED <<account, tokens, revoked, clock, history>>

ResetRead(q) ==
    /\ Registered
    /\ Recoverable(account.status)
    /\ Usable(account.resetCode)
    /\ Read(q, "reset", "hash", Consume(account, "resetCode"),
            account.resetCode)
    /\ UNCHANGED <<account, mailed, tokens, revoked, clock, history>>

\* changePassword behind the guard; the current password has matched.
ChangeRead(q) ==
    /\ calls[q].step = "authorised"
    /\ calls' = [calls EXCEPT ![q] = [Idle EXCEPT !.kind = "change", !.step = "hash",
                                                  !.copy = account]]
    /\ UNCHANGED <<account, mailed, tokens, revoked, clock, history>>

\* Faulty variant: the sessions of the old password stay open.
RenewedQuietly(row, p) == [row EXCEPT !.password = p]

\* Faulty variant: sessions of the next second are cut as well.
RenewedLate(row, p) ==
    [row EXCEPT !.password = p, !.validAfter = clock + TicksPerSecond]

\* Faulty variant: a new password lifts a suspension.
RenewedReactivates(row, p) ==
    [row EXCEPT !.password = p, !.validAfter = clock,
                !.status = IF @ = "suspended" THEN "active" ELSE @]

\* bcrypt has hashed the new password; older sessions are to be cut.
Renewed(row, p) == [row EXCEPT !.password = p, !.validAfter = clock]

\* save() after its SELECT: it holds the columns that differ from the row.
Selected(call) ==
    LET dirty == {c \in Columns : call.copy[c] # account[c]}
    IN  [call EXCEPT !.step = "write", !.dirty = dirty,
                     !.copy = [c \in Columns |-> IF c \in dirty
                                                THEN @[c] ELSE NoCopy[c]]]

\* The last assignments to the entity, before save() is called.
Hashed(q) ==
    /\ calls[q].step = "hash"
    /\ \E p \in Passwords :
          calls' = [calls EXCEPT ![q].step = "save", ![q].at = clock,
                                 ![q].copy = Renewed(@, p)]
    /\ UNCHANGED <<account, mailed, tokens, revoked, clock, history>>

\* The SELECT of save().
SaveSelect(q) ==
    /\ calls[q].step = "save"
    /\ calls' = [calls EXCEPT ![q] = Selected(@)]
    /\ UNCHANGED <<account, mailed, tokens, revoked, clock, history>>

\* Older sessions are cut from this time on.
Cut(time) == cutAt' = IF lost' THEN 0 ELSE IF time > cutAt THEN time ELSE cutAt

\* The UPDATE of save().
SaveUpdate(q) ==
    /\ calls[q].step = "write"
    /\ LET call == calls[q]
       IN  /\ Commit(q, [c \in Columns |-> IF c \in call.dirty
                                           THEN call.copy[c] ELSE account[c]])
           /\ lost' = (lost \/ call.stale)
           /\ spent' = spent \cup ({call.code} \ {0})
           /\ Cut(IF call.kind \in {"reset", "change"} THEN call.at ELSE 0)
    /\ UNCHANGED <<mailed, tokens, revoked, clock, decision, closed>>

-----------------------------------------------------------------------------
(* Requests behind JwtAuthGuard.  The guard is the same for every route: a  *)
(* request it lets in changes the password, deletes the account or logs out. *)

\* The signature is checked and revoked_tokens read.
Identify(q, t) ==
    /\ t \in DOMAIN tokens
    /\ Identifies(t)
    /\ Begin(q, [Idle EXCEPT !.step = "identified", !.token = t])
    /\ UNCHANGED <<account, mailed, tokens, revoked, clock, history>>

\* The row of the user is read.
Authenticate(q) ==
    /\ calls[q].step = "identified"
    /\ Admits(calls[q].token)
    /\ calls' = [calls EXCEPT ![q].step = "authorised"]
    /\ UNCHANGED <<account, mailed, tokens, revoked, clock, history>>

\* The sessions were cut or the account barred meanwhile: 401.
Unauthorised(q) ==
    /\ calls[q].step = "identified"
    /\ ~Admits(calls[q].token)
    /\ Finish(q)
    /\ UNCHANGED <<account, mailed, tokens, revoked, clock, history>>

\* deleteAccount: a blind UPDATE of three columns.
DeleteUpdate(q) ==
    /\ calls[q].step = "authorised"
    /\ Commit(q, [account EXCEPT !.status = "deleted", !.validAfter = clock])
    /\ lost' = lost
    /\ Cut(clock)
    /\ UNCHANGED <<mailed, tokens, revoked, clock, decision, spent, closed>>

\* logout: SessionService.revoke upserts the row of the token ...
LogoutRevoke(q) ==
    /\ calls[q].step = "authorised"
    /\ SignatureCheck(calls[q].token)
    /\ revoked' = revoked \cup {calls[q].token}
    /\ closed' = closed \cup {calls[q].token}
    /\ calls' = [calls EXCEPT ![q] = [Idle EXCEPT !.step = "purge"]]
    /\ UNCHANGED <<account, mailed, tokens, clock, decision, spent, cutAt,
                   lost>>

\* ... and purges the rows of expired tokens, its own one too if it took long.
LogoutPurge(q) ==
    /\ calls[q].step = "purge"
    /\ revoked' = Purged(revoked)
    /\ Finish(q)
    /\ UNCHANGED <<account, mailed, tokens, clock, history>>

\* The token has expired since the guard let the request in.
LogoutTooLate(q) ==
    /\ calls[q].step = "authorised"
    /\ ~SignatureCheck(calls[q].token)
    /\ Finish(q)
    /\ UNCHANGED <<account, mailed, tokens, revoked, clock, history>>

-----------------------------------------------------------------------------
(* An administrator: admin.service.ts changeUserStatus *)

Target(kind) == IF kind = "suspend" THEN "suspended" ELSE "active"

\* findUserById and the checks of the service.
AdminRead(q, kind) ==
    /\ Registered
    /\ account.status \in {"active", "suspended"}
    /\ account.status # Target(kind)
    /\ Begin(q, [Idle EXCEPT !.kind = kind, !.step = "decide"])
    /\ UNCHANGED <<account, mailed, tokens, revoked, clock, history>>

\* Faulty variant: only the check that was made before the transaction.
AdminTrustsRead(status, target) == status # target

\* The condition of the UPDATE.
AdminMayChange(status, target) ==
    /\ status # target
    /\ status \in {"active", "suspended"}

\* UPDATE users and INSERT audit_logs in one transaction.
AdminUpdate(q) ==
    /\ calls[q].step = "decide"
    /\ LET kind == calls[q].kind
           target == Target(kind)
       IN  /\ AdminMayChange(account.status, target)
           /\ Commit(q, [account EXCEPT
                            !.status = target,
                            !.validAfter = IF kind = "suspend" THEN clock ELSE @])
           /\ decision' = target
           /\ lost' = lost
           /\ Cut(IF kind = "suspend" THEN clock ELSE 0)
    /\ UNCHANGED <<mailed, tokens, revoked, clock, spent, closed>>

\* No row matched: the request ends with a conflict.
AdminConflict(q) ==
    /\ calls[q].step = "decide"
    /\ ~AdminMayChange(account.status, Target(calls[q].kind))
    /\ Finish(q)
    /\ UNCHANGED <<account, mailed, tokens, revoked, clock, history>>

-----------------------------------------------------------------------------

\* Bound: the clock starts at the first login, as there are no sessions before,
\* and may stop at a lost update, as what is said of times is said of
\* histories without one.
Tick ==
    /\ tokens # <<>>
    /\ ClockStops => ~lost
    /\ clock < MaxClock
    /\ clock' = clock + 1
    /\ UNCHANGED <<account, mailed, tokens, revoked, calls, history>>

Init ==
    /\ account = NoAccount
    /\ mailed = <<>>
    /\ tokens = <<>>
    /\ revoked = {}
    /\ calls = [q \in Requests |-> Idle]
    /\ clock = 0
    /\ decision = "none"
    /\ spent = {}
    /\ closed = {}
    /\ cutAt = 0
    /\ lost = FALSE

Next ==
    \/ Tick
    \/ \E q \in Requests :
          \/ RegisterCheck(q) \/ RegisterInsert(q) \/ RegisterConflict(q)
          \/ LoginRead(q) \/ LoginSign(q) \/ LoginRefuse(q)
          \/ VerifyRead(q) \/ ResendRead(q) \/ ForgotRead(q) \/ ResetRead(q)
          \/ ChangeRead(q) \/ Hashed(q) \/ SaveSelect(q) \/ SaveUpdate(q)
          \/ DeleteUpdate(q) \/ Authenticate(q) \/ Unauthorised(q)
          \/ LogoutRevoke(q) \/ LogoutPurge(q) \/ LogoutTooLate(q)
          \/ AdminUpdate(q) \/ AdminConflict(q)
          \/ \E t \in DOMAIN tokens : Identify(q, t)
          \/ \E kind \in {"suspend", "reactivate"} : AdminRead(q, kind)

Spec == Init /\ [][Next]_vars

-----------------------------------------------------------------------------
(* Properties *)

\* The type of every column, token, code and request.
Typed ==
    /\ account \in Row \cup {NoAccount}
    /\ mailed \in Seq(Purposes)
    /\ Len(mailed) <= MaxCodes
    /\ tokens \in Seq(Token)
    /\ Len(tokens) <= MaxTokens
    /\ revoked \subseteq DOMAIN tokens
    /\ calls \in [Requests -> Call]
    /\ clock \in 0..MaxClock
    /\ decision \in {"none", "active", "suspended"}
    /\ spent \subseteq DOMAIN mailed
    /\ closed \subseteq DOMAIN tokens
    /\ cutAt \in 0..MaxClock
    /\ lost \in BOOLEAN

\* Codes that were mailed for this purpose.
MailedFor(purpose) == {c \in DOMAIN mailed : mailed[c] = purpose}

\* The codes of a row were mailed, each for the purpose of its column, and its
\* time has passed.
Sound(row) ==
    /\ row.verifyCode \in MailedFor("email_verification") \cup {0}
    /\ row.resetCode \in MailedFor("password_reset") \cup {0}
    /\ row.validAfter <= clock

\* Everything keeps its type, and no write, stale or torn, leaves a code that
\* was never mailed for its purpose or a time that is still to come, in the row
\* or in what a request is going to write.
TypeOK ==
    /\ Typed
    /\ Registered => Sound(account)
    /\ \A q \in Requests : Sound(calls[q].copy)

\* The account is used only after its owner has answered a code mailed to the
\* address: no reset, no stale save and no administrator makes an account
\* active, or signs a token for it, before a verification was saved
\* ("Reactivar una cuenta no verificada saltaría la verificación por correo",
\* admin.service.ts 283; login-status.policy.ts 17).
ActiveMeansVerified ==
    \/ ~Registered
    \/ account.status = "pending_verification" /\ tokens = <<>>
    \/ \E code \in spent : mailed[code] = "email_verification"

\* "Cualquier uso posterior del mismo token será rechazado con 401"
\* (auth.controller.ts 159): the row of a revoked token is purged only when
\* the token would be refused anyway.
ClosedSessionsRejected == \A t \in closed : ~Identifies(t)

\* While no save has written over a newer row, a session of a second before
\* the latest reset, password change, suspension or deletion is refused, also
\* after the account is active again ("Invalida todas las sesiones abiertas
\* con la contraseña anterior", password-recovery.service.ts 52; "rechaza de
\* inmediato cualquier JWT emitido antes", admin.repository.ts 312).
SessionsCut ==
    ~lost => \A t \in DOMAIN tokens :
                tokens[t].iat < Second(cutAt) => ~Admits(t)

\* While no save has written over a newer row, the account is what the newest
\* entry of the audit log says, or deleted: nothing but another decision of an
\* administrator undoes a suspension.
DecisionsHold ==
    ~lost /\ decision # "none" => account.status \in {decision, "deleted"}

\* A save by a request whose row has changed since it was read.
StaleSave ==
    \E q \in Requests : /\ calls[q].step = "write"
                        /\ calls[q].stale
                        /\ calls'[q] = Idle

Barred(row) == row # NoAccount /\ row.status \in {"suspended", "deleted"}

\* The administrator's UPDATE reactivates a suspended account.
Reactivation ==
    /\ account.status = "suspended"
    /\ \E q \in Requests : /\ calls[q].kind = "reactivate"
                           /\ calls[q].step = "decide"
                           /\ calls'[q] = Idle

\* Only a reactivation, or a save that had read the row before it was
\* suspended or deleted, gives a barred account back: no verification, reset
\* or change that begins afterwards does, and no decision of an administrator
\* that was under way when the owner deleted the account ("Las cuentas
\* suspendidas o borradas no recuperan acceso cambiando la contraseña",
\* password-recovery.service.ts 13; "Una cuenta suspendida o borrada no puede
\* reactivarse con un código", account-verification.service.ts 28).
OnlyStaleSavesRestore ==
    [][Barred(account) /\ ~Barred(account') => Reactivation \/ StaleSave]_vars

\* "un solo uso" (one-time-code.service.ts 48): a code whose use was saved is
\* accepted again only if a save has written over a newer row.
CodesSpentOnce ==
    [][\A q \in Requests :
          calls[q].step = "write" /\ calls'[q] = Idle /\ calls[q].code \in spent
             => lost']_vars

\* The password of a registered address is replaced by the owner of a reset
\* code or of the current password, or by a save that is stale; never by a
\* registration that was under way ("Carrera entre dos registros simultáneos
\* con el mismo correo", users.repository.ts 60).
PasswordsAreAuthorised ==
    [][Registered /\ account'.password # account.password =>
          \/ StaleSave
          \/ \E q \in Requests : /\ calls[q].step = "write"
                                 /\ calls[q].kind \in {"reset", "change"}
                                 /\ calls'[q] = Idle]_vars

\* The handlers implement the account of which every request is one step, as
\* long as no save is stale, and again after one that was.
Promise == INSTANCE AccountLifecycle WITH
             Times <- 0..MaxClock, Codes <- 1..MaxCodes, torn <- lost
ImplementsAccountLifecycle == Promise!Spec
=============================================================================
