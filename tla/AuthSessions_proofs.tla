------------------------ MODULE AuthSessions_proofs ------------------------
(***************************************************************************)
(* MailedFor, sessions and the status of an account, for any number of         *)
(* requests, codes, tokens and any clock.                                  *)
(***************************************************************************)
EXTENDS AuthSessions, SequenceTheorems, TLAPS

Saving == {"hash", "save", "write"}

Verified == \E code \in spent : mailed[code] = "email_verification"

\* The row that the UPDATE of q leaves, and the entity q is working on.
Result(q) == [c \in Columns |-> IF c \in calls[q].dirty
                                THEN calls[q].copy[c] ELSE account[c]]

Entity(q) == IF calls[q].step = "write" THEN Result(q) ELSE calls[q].copy

\* What the handler of each kind has found in the row, and the codes it leaves.
Intended(e, kind) ==
    /\ kind = "resend" => /\ account.status = "pending_verification"
                          /\ e.verifyCode # 0
    /\ kind \in {"forgot", "reset"} => Recoverable(account.status)
    /\ kind = "forgot" => e.resetCode # 0
    /\ kind \notin {"verify", "resend"} => e.verifyCode = account.verifyCode
    /\ kind \notin {"forgot", "reset"} => e.resetCode = account.resetCode

\* An entity whose row has not changed since it was read differs from it as
\* its handler has made it differ.
Fresh(q) ==
    LET e == Entity(q)
        kind == calls[q].kind
        hashed == calls[q].step # "hash" /\ kind \in {"reset", "change"}
    IN  /\ Registered
        /\ e.status = IF kind = "verify" THEN "active" ELSE account.status
        /\ kind = "verify" => /\ account.status = "pending_verification"
                              /\ account.verifyCode = calls[q].code
                              /\ e.verifyCode = 0
        /\ kind = "reset" => /\ account.resetCode = calls[q].code
                             /\ e.resetCode = 0
        /\ ~hashed => /\ e.password = account.password
                      /\ e.validAfter = account.validAfter
        /\ hashed => /\ e.validAfter = calls[q].at /\ e.password \in Passwords
                     /\ e.validAfter >= account.validAfter
        /\ Intended(e, kind)

NoSpentCode(row) == row.verifyCode \notin spent /\ row.resetCode \notin spent

\* What a request holds fits the statement it has reached.
HoldsOK(q) ==
    LET call == calls[q]
    IN  /\ Sound(call.copy)
        /\ ~Registered => call.step \in {"idle", "insert"}
        /\ call.step \in {"identified", "authorised"} => call.token \in DOMAIN tokens
        /\ call.step = "hash" => call.kind \in {"reset", "change"}
        /\ call.step \in {"save", "write"} =>
              call.kind \in {"verify", "resend", "forgot", "reset", "change"}
        /\ call.step = "decide" => call.kind \in {"suspend", "reactivate"}
        /\ call.code \in IF call.kind = "verify" THEN MailedFor("email_verification")
                         ELSE IF call.kind = "reset" THEN MailedFor("password_reset")
                         ELSE {0}

FreshOK(q) ==
    calls[q].step \in Saving /\ ~calls[q].stale =>
        Fresh(q) /\ (~lost => NoSpentCode(Entity(q)))

\* Before a verification is saved nobody is let in, and only a verification is
\* going to write another status.
UnverifiedOK(q) ==
    LET call == calls[q]
    IN  ~Verified =>
           /\ call.step \notin {"identified", "authorised", "purge", "decide"}
           /\ call.step = "compare" => call.copy.status = "pending_verification"
           /\ call.step \in {"hash", "save"} /\ call.kind # "verify" =>
                 call.copy.status = "pending_verification"
           /\ call.step = "write" /\ call.kind # "verify" => "status" \notin call.dirty

CallOK(q) == HoldsOK(q) /\ FreshOK(q) /\ UnverifiedOK(q)

AccountOK ==
    /\ Registered => Sound(account)
    /\ ~Registered => /\ mailed = <<>> /\ tokens = <<>> /\ spent = {}
                      /\ decision = "none" /\ cutAt = 0 /\ clock = 0
    /\ Registered /\ ~Verified =>
          account.status = "pending_verification" /\ tokens = <<>>
    /\ Registered /\ ~lost =>
          /\ cutAt <= account.validAfter
          /\ NoSpentCode(account)
          /\ decision # "none" => account.status \in {decision, "deleted"}

ClosedOK == \A t \in closed : t \in revoked \/ Expiry(t) <= clock

IInv == Typed /\ AccountOK /\ ClosedOK /\ \A q \in Requests : CallOK(q)

USE BoundsAssumption, AccountAssumption

-----------------------------------------------------------------------------
(* Data *)

LEMMA SecondType ==
  ASSUME NEW a \in 0..MaxClock
  PROVE  Second(a) \in 0..MaxClock
BY DEF Second

LEMMA SecondMonotone ==
  ASSUME NEW a \in 0..MaxClock, NEW b \in 0..MaxClock, a <= b
  PROVE  Second(a) <= Second(b)
BY DEF Second

LEMMA IdleIsCall ==
  /\ Idle \in Call /\ NoCopy \in Row
  /\ Idle.step = "idle" /\ Idle.copy = NoCopy
  /\ Idle.kind = "none" /\ Idle.code = 0
BY DEF Idle, NoCopy, Call, Row, Statuses, Columns, Kinds, Steps

LEMMA NoCopySound == Typed => Sound(NoCopy)
BY DEF Typed, Sound, NoCopy

LEMMA IdleOK ==
  ASSUME Typed, NEW q \in Requests, calls[q] = Idle
  PROVE  CallOK(q)
BY NoCopySound, IdleIsCall DEF CallOK, HoldsOK, FreshOK, UnverifiedOK, Saving

LEMMA MailedType ==
  ASSUME Typed
  PROVE  /\ Len(mailed) \in 0..MaxCodes
         /\ DOMAIN mailed = 1..Len(mailed)
         /\ spent \subseteq DOMAIN mailed /\ 0 \notin spent
         /\ DOMAIN tokens = 1..Len(tokens) /\ Len(tokens) \in 0..MaxTokens
         /\ \A t \in DOMAIN tokens : tokens[t].iat \in 0..MaxClock
<1>1. mailed \in Seq(Purposes) /\ tokens \in Seq(Token)
  BY DEF Typed
<1>2. /\ DOMAIN mailed = 1..Len(mailed) /\ Len(mailed) \in Nat
      /\ DOMAIN tokens = 1..Len(tokens) /\ Len(tokens) \in Nat
      /\ \A t \in DOMAIN tokens : tokens[t] \in Token
  BY <1>1, LenProperties
<1>3. Len(mailed) <= MaxCodes /\ Len(tokens) <= MaxTokens /\ spent \subseteq DOMAIN mailed
  BY DEF Typed
<1> QED
  BY <1>2, <1>3 DEF Token

LEMMA IssueOK ==
  ASSUME Typed, NEW purpose \in Purposes, Issue(purpose)
  PROVE  /\ mailed' \in Seq(Purposes) /\ Len(mailed') <= MaxCodes
         /\ NewCode \in MailedFor(purpose)' /\ NewCode \in 1..MaxCodes
         /\ NewCode \notin spent
         /\ \A c \in DOMAIN mailed : c \in DOMAIN mailed' /\ mailed'[c] = mailed[c]
<1>1. /\ mailed' \in Seq(Purposes) /\ Len(mailed') = Len(mailed) + 1
      /\ mailed'[Len(mailed) + 1] = purpose
      /\ \A c \in 1..Len(mailed) : mailed'[c] = mailed[c]
  BY AppendProperties DEF Issue, Typed
<1>2. DOMAIN mailed' = 1..Len(mailed')
  BY <1>1, LenProperties
<1> QED
  BY <1>1, <1>2, MailedType DEF Issue, NewCode, MailedFor

LEMMA InitOK == Init => IInv
<1> SUFFICES ASSUME Init PROVE IInv
  OBVIOUS
<1>1. Typed
  <2>1. mailed \in Seq(Purposes) /\ tokens \in Seq(Token) /\ Len(mailed) = 0 /\ Len(tokens) = 0
    BY EmptySeq DEF Init
  <2>2. calls \in [Requests -> Call]
    BY IdleIsCall DEF Init
  <2>3. /\ account \in Row \cup {NoAccount}
        /\ clock \in 0..MaxClock /\ cutAt \in 0..MaxClock
        /\ decision \in {"none", "active", "suspended"} /\ lost \in BOOLEAN
        /\ revoked \subseteq DOMAIN tokens /\ closed \subseteq DOMAIN tokens
        /\ spent \subseteq DOMAIN mailed
    <3>1. 0 \in 0..MaxClock
      OBVIOUS
    <3> QED
      BY <3>1, Zenon DEF Init
  <2> QED
    BY <2>1, <2>2, <2>3 DEF Typed
<1>2. \A q \in Requests : CallOK(q)
  BY <1>1, IdleOK DEF Init
<1>3. AccountOK /\ ClosedOK
  BY DEF Init, AccountOK, ClosedOK, Registered
<1> QED
  BY <1>1, <1>2, <1>3 DEF IInv

-----------------------------------------------------------------------------
(* What steps leave as it is *)

\* The mails, tokens and histories only grow.
Grows ==
    /\ \A c \in DOMAIN mailed : c \in DOMAIN mailed' /\ mailed'[c] = mailed[c]
    /\ DOMAIN tokens \subseteq DOMAIN tokens'
    /\ spent \subseteq spent' /\ (lost => lost')
    /\ clock <= clock'
    /\ Registered => Registered'

LEMMA GrownCodes ==
  ASSUME Typed, Typed', Grows
  PROVE  /\ MailedFor("email_verification") \subseteq MailedFor("email_verification")'
         /\ MailedFor("password_reset") \subseteq MailedFor("password_reset")'
         /\ Verified => Verified'
<1>1. MailedFor("email_verification") \subseteq MailedFor("email_verification")'
  BY DEF Grows, MailedFor
<1>2. MailedFor("password_reset") \subseteq MailedFor("password_reset")'
  BY DEF Grows, MailedFor
<1>3. Verified => Verified'
  BY MailedType DEF Grows, Verified
<1> QED
  BY <1>1, <1>2, <1>3

\* A request that does not move while its row stays or it becomes stale.
Stays(q) ==
    LET call == calls[q]
        new == calls'[q]
    IN  /\ new.kind = call.kind /\ new.step = call.step /\ new.copy = call.copy
        /\ new.dirty = call.dirty /\ new.code = call.code
        /\ new.token = call.token /\ new.at = call.at
        /\ call.stale => new.stale
        /\ call.step \in Saving /\ ~new.stale =>
              account' = account /\ (~lost' => spent' = spent)

LEMMA StaysOK ==
  ASSUME Typed, Typed', Grows, NEW q \in Requests, CallOK(q), Stays(q),
         ~Registered => calls[q].step \in {"idle", "insert"}
  PROVE  CallOK(q)'
<1>0. calls[q] \in Call /\ calls[q].copy \in Row
  BY DEF Typed, Call
<1>1. HoldsOK(q)'
  <2>1. Sound(calls[q].copy)'
    <3>1. Sound(calls[q].copy) /\ calls'[q].copy = calls[q].copy
      BY DEF CallOK, HoldsOK, Stays
    <3>2. calls[q].copy.validAfter \in 0..MaxClock /\ {clock, clock'} \subseteq 0..MaxClock
      BY <1>0 DEF Row, Typed
    <3> QED
      BY <3>1, <3>2, GrownCodes DEF Sound, Grows
  <2> QED
    BY <2>1, GrownCodes DEF CallOK, HoldsOK, Stays, Grows
<1>2. FreshOK(q)'
  <2>1. SUFFICES ASSUME calls'[q].step \in Saving, ~calls'[q].stale
                 PROVE  Fresh(q)' /\ (~lost' => NoSpentCode(Entity(q))')
    BY DEF FreshOK
  <2>2. /\ calls[q].step \in Saving /\ ~calls[q].stale
        /\ account' = account /\ (~lost' => spent' = spent)
    BY <2>1 DEF Stays
  <2>3. Fresh(q) /\ (~lost => NoSpentCode(Entity(q)))
    BY <2>2 DEF CallOK, FreshOK
  <2>4. Entity(q)' = Entity(q)
    BY <2>2 DEF Entity, Result, Stays
  <2>5. Fresh(q)'
    BY <2>2, <2>3, <2>4 DEF Fresh, Intended, Stays, Registered
  <2>6. ~lost' => NoSpentCode(Entity(q))'
    BY <2>2, <2>3, <2>4 DEF NoSpentCode, Grows
  <2> QED
    BY <2>5, <2>6
<1>3. UnverifiedOK(q)'
  BY GrownCodes DEF CallOK, UnverifiedOK, Stays
<1> QED
  BY <1>1, <1>2, <1>3 DEF CallOK

-----------------------------------------------------------------------------
(* Steps in which one request moves and the account stays *)

\* At most a code is mailed.
Moves(q) ==
    /\ calls' \in [Requests -> Call]
    /\ \A p \in Requests \ {q} : calls'[p] = calls[p]
    /\ UNCHANGED <<account, tokens, revoked, clock, history>>
    /\ \/ mailed' = mailed
       \/ Registered /\ \E purpose \in Purposes : Issue(purpose)

LEMMA MovesGrow ==
  ASSUME Typed, NEW q \in Requests, Moves(q)
  PROVE  Typed' /\ Grows
<1>1. /\ mailed' \in Seq(Purposes) /\ Len(mailed') <= MaxCodes
      /\ \A c \in DOMAIN mailed : c \in DOMAIN mailed' /\ mailed'[c] = mailed[c]
  BY IssueOK DEF Moves, Typed
<1>2. UNCHANGED <<account, tokens, revoked, clock, decision, spent, closed, cutAt, lost>>
  BY DEF Moves, history
<1>3. calls' \in [Requests -> Call] /\ spent \subseteq DOMAIN mailed'
  BY <1>1 DEF Moves, Typed
<1>4. Typed'
  BY <1>1, <1>2, <1>3 DEF Typed
<1>5. Grows
  BY <1>1, <1>2 DEF Grows, Registered, Typed
<1> QED
  BY <1>4, <1>5

LEMMA MoveOK ==
  ASSUME IInv, NEW q \in Requests, Moves(q), CallOK(q)'
  PROVE  IInv'
<1>1. Typed /\ Typed' /\ Grows /\ AccountOK
  BY MovesGrow DEF IInv
<1>2. UNCHANGED <<account, tokens, revoked, clock, decision, spent, closed, cutAt, lost>>
  BY DEF Moves, history
<1>3. AccountOK'
  <2>1. Registered => Sound(account)'
    BY <1>1, <1>2, GrownCodes DEF AccountOK, Sound
  <2>2. ~Registered => mailed' = mailed
    BY DEF Moves
  <2>3. Verified => Verified'
    BY <1>1, GrownCodes
  <2> QED
    BY <1>1, <1>2, <2>1, <2>2, <2>3 DEF AccountOK, Registered, NoSpentCode
<1>4. ClosedOK'
  BY <1>2 DEF IInv, ClosedOK, Expiry
<1>5. ASSUME NEW p \in Requests \ {q} PROVE CallOK(p)'
  <2>1. calls'[p] = calls[p] /\ CallOK(p)
    BY DEF Moves, IInv
  <2>2. Stays(p)
    BY <1>2, <2>1 DEF Stays
  <2>3. ~Registered => calls[p].step \in {"idle", "insert"}
    BY <2>1 DEF CallOK, HoldsOK
  <2> QED
    BY <1>1, <2>1, <2>2, <2>3, StaysOK
<1> QED
  BY <1>1, <1>3, <1>4, <1>5 DEF IInv

LEMMA FinishMoves ==
  ASSUME IInv, NEW q \in Requests, Finish(q),
         UNCHANGED <<account, mailed, tokens, revoked, clock, history>>
  PROVE  IInv'
<1>1. /\ calls' \in [Requests -> Call] /\ calls'[q] = Idle
      /\ \A p \in Requests \ {q} : calls'[p] = calls[p]
  BY IdleIsCall DEF Finish, IInv, Typed
<1>2. Moves(q)
  <2>1. UNCHANGED <<account, tokens, revoked, clock, history>> /\ mailed' = mailed
    OBVIOUS
  <2> QED
    BY <1>1, <2>1 DEF Moves
<1>3. Typed'
  BY <1>2, MovesGrow DEF IInv
<1>4. CallOK(q)'
  <2>1. Sound(NoCopy)'
    BY <1>3 DEF Typed, Sound, NoCopy
  <2> QED
    BY <1>1, <2>1, IdleIsCall DEF CallOK, HoldsOK, FreshOK, UnverifiedOK, Saving
<1> QED
  BY <1>2, <1>4, MoveOK

LEMMA BeginMoves ==
  ASSUME IInv, NEW q \in Requests, NEW c \in Call, Begin(q, c),
         UNCHANGED <<account, tokens, revoked, clock, history>>,
         \/ mailed' = mailed
         \/ Registered /\ \E purpose \in Purposes : Issue(purpose)
  PROVE  Moves(q) /\ calls'[q] = c /\ Typed' /\ Grows
<1>1. Moves(q) /\ calls'[q] = c
  BY DEF Begin, IInv, Typed, Moves
<1> QED
  BY <1>1, MovesGrow DEF IInv

\* Nobody holds a token of an account that is not registered and verified.
LEMMA SomeToken ==
  ASSUME AccountOK, NEW t \in DOMAIN tokens
  PROVE  Registered /\ Verified
<1>1. tokens # <<>>
  OBVIOUS
<1> QED
  BY <1>1 DEF AccountOK

\* Requests that begin without a copy of the row, or with its status only.
LEMMA PlainBegins ==
  ASSUME IInv, NEW q \in Requests,
         \/ RegisterCheck(q) \/ LoginRead(q)
         \/ \E t \in DOMAIN tokens : Identify(q, t)
         \/ \E kind \in {"suspend", "reactivate"} : AdminRead(q, kind)
  PROVE  IInv'
<1>0. Typed /\ AccountOK
  BY DEF IInv
<1>1. ASSUME NEW c \in Call, Begin(q, c),
             UNCHANGED <<account, mailed, tokens, revoked, clock, history>>,
             \E status \in Statuses : c.copy = [NoCopy EXCEPT !.status = status],
             c.step \notin Saving, c.code = 0, c.kind \notin {"verify", "reset"},
             c.step # "insert" => Registered, c.step # "purge",
             c.step \in {"identified", "authorised"} => c.token \in DOMAIN tokens,
             c.step = "decide" => c.kind \in {"suspend", "reactivate"},
             c.step \in {"identified", "authorised", "decide"} => Verified,
             c.step = "compare" => c.copy.status = account.status
      PROVE  IInv'
  <2>1. Moves(q) /\ calls'[q] = c /\ Typed' /\ Grows
    <3>1. /\ UNCHANGED <<account, tokens, revoked, clock, history>>
          /\ mailed' = mailed
      BY <1>1
    <3> QED
      BY <1>1, <3>1, BeginMoves
  <2>2. Sound(c.copy)'
    BY <1>1, <2>1 DEF Typed, Sound, NoCopy
  <2>3. Registered' = Registered /\ Verified' = Verified /\ tokens' = tokens
    BY <1>1 DEF Registered, Verified, history
  <2>4. CallOK(q)'
    <3>1. HoldsOK(q)'
      BY <1>1, <2>1, <2>2, <2>3 DEF HoldsOK, Saving
    <3>2. FreshOK(q)'
      BY <1>1, <2>1 DEF FreshOK
    <3>3. UnverifiedOK(q)'
      BY <1>0, <1>1, <2>1, <2>3 DEF UnverifiedOK, Saving, AccountOK
    <3> QED
      BY <3>1, <3>2, <3>3 DEF CallOK
  <2> QED
    BY <2>1, <2>4, MoveOK
<1>2. NoCopy = [NoCopy EXCEPT !.status = "deleted"] /\ "deleted" \in Statuses
  BY DEF NoCopy, Statuses
<1>3. CASE RegisterCheck(q)
  <2> DEFINE c == [Idle EXCEPT !.kind = "register", !.step = "insert"]
  <2>1. c \in Call /\ c.step = "insert" /\ c.copy = NoCopy
      /\ c.code = 0 /\ c.kind = "register"
    BY IdleIsCall DEF Call, Kinds, Steps, Idle
  <2> QED
    BY <1>1, <1>2, <1>3, <2>1 DEF RegisterCheck, Saving
<1>4. CASE LoginRead(q)
  <2> DEFINE c == [Idle EXCEPT !.kind = "login", !.step = "compare",
                               !.copy.status = account.status]
  <2>0. account \in Row /\ account.status \in Statuses
    BY <1>0, <1>4 DEF LoginRead, Registered, Typed, Row
  <2>1. /\ c.step = "compare" /\ c.copy = [NoCopy EXCEPT !.status = account.status]
        /\ c.copy.status = account.status /\ c.code = 0 /\ c.kind = "login"
    BY DEF Idle, NoCopy
  <2>2. c \in Call
    <3>1. c = [Idle EXCEPT !.kind = "login", !.step = "compare",
                           !.copy = [NoCopy EXCEPT !.status = account.status]]
      BY DEF Idle
    <3>2. [NoCopy EXCEPT !.status = account.status] \in Row
      BY <2>0, IdleIsCall DEF Row
    <3> QED
      BY <3>1, <3>2, IdleIsCall DEF Call, Kinds, Steps
  <2> QED
    BY <1>1, <1>4, <2>0, <2>1, <2>2 DEF LoginRead, Saving
<1>5. ASSUME NEW t \in DOMAIN tokens, Identify(q, t) PROVE IInv'
  <2> DEFINE c == [Idle EXCEPT !.step = "identified", !.token = t]
  <2>1. c.step = "identified" /\ c.copy = NoCopy /\ c.token = t
      /\ c.code = 0 /\ c.kind = "none"
    BY DEF Idle
  <2>2. c \in Call
    <3>1. t \in 0..MaxTokens
      BY <1>0, MailedType
    <3> QED
      BY <3>1, IdleIsCall DEF Call, Kinds, Steps
  <2>3. Registered /\ Verified
    BY <1>0, <1>5, SomeToken
  <2> QED
    BY <1>1, <1>2, <1>5, <2>1, <2>2, <2>3 DEF Identify, Saving
<1>6. ASSUME NEW kind \in {"suspend", "reactivate"}, AdminRead(q, kind) PROVE IInv'
  <2> DEFINE c == [Idle EXCEPT !.kind = kind, !.step = "decide"]
  <2>1. c.step = "decide" /\ c.copy = NoCopy /\ c.kind = kind /\ c.code = 0
    BY DEF Idle
  <2>2. c \in Call
    BY IdleIsCall DEF Call, Kinds, Steps
  <2>3. Registered /\ Verified
    BY <1>0, <1>6 DEF AdminRead, AccountOK
  <2> QED
    BY <1>1, <1>2, <1>6, <2>1, <2>2, <2>3 DEF AdminRead, Saving
<1> QED
  BY <1>3, <1>4, <1>5, <1>6

-----------------------------------------------------------------------------
(* Requests that read the row, and the SELECT of save() *)

LEMMA ReadOK ==
  ASSUME IInv, NEW q \in Requests, NEW kind, NEW step, NEW e \in Row, NEW code,
         Moves(q), Typed', Grows, Registered,
         calls'[q].step = step, calls'[q].kind = kind, calls'[q].copy = e,
         calls'[q].code = code,
         \/ step = "hash" /\ kind \in {"reset", "change"}
         \/ step = "save" /\ kind \in {"verify", "resend", "forgot"},
         Sound(e)',
         e.password = account.password, e.validAfter = account.validAfter,
         e.status = IF kind = "verify" THEN "active" ELSE account.status,
         kind = "verify" => /\ account.status = "pending_verification"
                            /\ account.verifyCode = code /\ e.verifyCode = 0
                            /\ code # 0,
         kind = "reset" => /\ account.resetCode = code /\ e.resetCode = 0
                           /\ code # 0,
         kind \notin {"verify", "reset"} => code = 0,
         Intended(e, kind),
         ~lost => NoSpentCode(e)
  PROVE  IInv'
<1>0. /\ Typed /\ AccountOK
      /\ account' = account /\ tokens' = tokens /\ spent' = spent /\ lost' = lost
  BY DEF IInv, Moves, history
<1>1. Registered'
  BY <1>0 DEF Registered
<1>2. HoldsOK(q)'
  <2>1. /\ kind = "verify" => code \in MailedFor("email_verification")
        /\ kind = "reset" => code \in MailedFor("password_reset")
    BY <1>0 DEF AccountOK, Sound
  <2>2. /\ kind = "verify" => code \in MailedFor("email_verification")'
        /\ kind = "reset" => code \in MailedFor("password_reset")'
    BY <1>0, <2>1, GrownCodes
  <2> QED
    BY <1>1, <2>2 DEF HoldsOK
<1>3. FreshOK(q)'
  <2>1. calls'[q].step # "write"
    OBVIOUS
  <2>2. Entity(q)' = e
    BY <2>1 DEF Entity
  <2>3. Fresh(q)'
    BY <1>0, <1>1, <2>1, <2>2 DEF Fresh, Intended
  <2> QED
    BY <1>0, <2>2, <2>3 DEF FreshOK, NoSpentCode
<1>4. UnverifiedOK(q)'
  BY <1>0, GrownCodes DEF UnverifiedOK, AccountOK
<1> QED
  BY <1>2, <1>3, <1>4, MoveOK DEF CallOK

LEMMA EntityReads ==
  ASSUME IInv, NEW q \in Requests,
         VerifyRead(q) \/ ResendRead(q) \/ ForgotRead(q) \/ ResetRead(q)
  PROVE  IInv'
<1>0. /\ Typed /\ AccountOK /\ Registered /\ account \in Row
  BY DEF IInv, Typed, Registered, VerifyRead, ResendRead, ForgotRead, ResetRead
<1>1. ASSUME NEW kind \in Kinds, NEW step \in Steps, NEW e \in Row,
             NEW code \in 0..MaxCodes, Read(q, kind, step, e, code),
             UNCHANGED <<account, tokens, revoked, clock, history>>,
             mailed' = mailed \/ \E purpose \in Purposes : Issue(purpose)
      PROVE  /\ Moves(q) /\ Typed' /\ Grows
             /\ calls'[q].step = step /\ calls'[q].kind = kind
             /\ calls'[q].copy = e /\ calls'[q].code = code
  <2> DEFINE c == [Idle EXCEPT !.kind = kind, !.step = step, !.copy = e,
                               !.code = code]
  <2>1. /\ c \in Call /\ c.step = step /\ c.kind = kind /\ c.copy = e
        /\ c.code = code
    BY IdleIsCall DEF Call, Idle
  <2>2. Begin(q, c)
    BY <1>1 DEF Read
  <2> HIDE DEF c
  <2>3. Moves(q) /\ calls'[q] = c /\ Typed' /\ Grows
    BY <1>0, <1>1, <2>1, <2>2, BeginMoves
  <2> QED
    BY <2>1, <2>3
<1>2. /\ Sound(account) /\ account.verifyCode \in 0..MaxCodes
      /\ account.resetCode \in 0..MaxCodes
      /\ ~lost => NoSpentCode(account)
      /\ 0 \notin spent
  BY <1>0, MailedType DEF AccountOK, Row
<1>3. {"verify", "resend", "forgot", "reset"} \subseteq Kinds
      /\ {"hash", "save"} \subseteq Steps
  BY DEF Kinds, Steps
<1>4. CASE VerifyRead(q)
  <2> DEFINE ent == [Consume(account, "verifyCode") EXCEPT !.status = "active"]
             code == account.verifyCode
  <2>6. /\ Consume(account, "verifyCode") \in Row
        /\ Consume(account, "verifyCode").verifyCode = 0
        /\ Consume(account, "verifyCode").resetCode = account.resetCode
        /\ Consume(account, "verifyCode").password = account.password
        /\ Consume(account, "verifyCode").validAfter = account.validAfter
    BY <1>0 DEF Consume, Row
  <2>7. /\ ent \in Row /\ ent.verifyCode = 0 /\ ent.resetCode = account.resetCode
        /\ ent.status = "active" /\ ent.password = account.password
        /\ ent.validAfter = account.validAfter
    BY <2>6 DEF Row, Statuses
  <2>8. PICK e \in Row : e = ent
    BY <2>7
  <2>9. code \in 0..MaxCodes
    BY <1>2
  <2>1. /\ e \in Row /\ e.verifyCode = 0 /\ e.resetCode = account.resetCode
        /\ e.status = "active" /\ e.password = account.password
        /\ e.validAfter = account.validAfter
    BY <2>7, <2>8
  <2>2. /\ Read(q, "verify", "save", e, code) /\ mailed' = mailed /\ clock' = clock
        /\ UNCHANGED <<account, tokens, revoked, clock, history>>
        /\ account.status = "pending_verification" /\ code # 0
    BY <1>4, <2>8 DEF VerifyRead, Usable
  <2>3. Sound(e)'
    BY <1>2, <2>1, <2>2 DEF Sound, MailedFor
  <2>4. ~lost => NoSpentCode(e)
    BY <1>2, <2>1 DEF NoSpentCode
  <2> HIDE DEF ent
  <2>5. /\ Moves(q) /\ Typed' /\ Grows
        /\ calls'[q].step = "save" /\ calls'[q].kind = "verify"
        /\ calls'[q].copy = e /\ calls'[q].code = code
    BY <1>1, <1>3, <2>1, <2>2, <2>9
  <2>10. Intended(e, "verify")
    BY <2>1 DEF Intended
  <2> QED
    BY <1>0, <2>1, <2>2, <2>3, <2>4, <2>5, <2>10, ReadOK
<1>5. CASE ResetRead(q)
  <2> DEFINE ent == Consume(account, "resetCode")
             code == account.resetCode
  <2>7. /\ ent \in Row /\ ent.resetCode = 0 /\ ent.verifyCode = account.verifyCode
        /\ ent.status = account.status /\ ent.password = account.password
        /\ ent.validAfter = account.validAfter
    BY <1>0 DEF Consume, Row
  <2>8. PICK e \in Row : e = ent
    BY <2>7
  <2>9. code \in 0..MaxCodes
    BY <1>2
  <2>1. /\ e \in Row /\ e.resetCode = 0 /\ e.verifyCode = account.verifyCode
        /\ e.status = account.status /\ e.password = account.password
        /\ e.validAfter = account.validAfter
    BY <2>7, <2>8
  <2>2. /\ Read(q, "reset", "hash", e, code) /\ mailed' = mailed /\ clock' = clock
        /\ UNCHANGED <<account, tokens, revoked, clock, history>>
        /\ code # 0
    BY <1>5, <2>8 DEF ResetRead, Usable
  <2>3. Sound(e)'
    BY <1>2, <2>1, <2>2 DEF Sound, MailedFor
  <2>4. ~lost => NoSpentCode(e)
    BY <1>2, <2>1 DEF NoSpentCode
  <2> HIDE DEF ent
  <2>5. /\ Moves(q) /\ Typed' /\ Grows
        /\ calls'[q].step = "hash" /\ calls'[q].kind = "reset"
        /\ calls'[q].copy = e /\ calls'[q].code = code
    BY <1>1, <1>3, <2>1, <2>2, <2>9
  <2>10. Intended(e, "reset")
    BY <1>5, <2>1 DEF Intended, ResetRead
  <2> QED
    BY <1>0, <2>1, <2>2, <2>3, <2>4, <2>5, <2>10, ReadOK
<1>6. CASE ResendRead(q)
  <2>6. PICK code : code = NewCode
    OBVIOUS
  <2> DEFINE ent == [account EXCEPT !.verifyCode = code]
  <2>0. /\ Issue("email_verification") /\ "email_verification" \in Purposes
        /\ Read(q, "resend", "save", ent, 0) /\ clock' = clock
        /\ UNCHANGED <<account, tokens, revoked, clock, history>>
    BY <1>6, <2>6 DEF ResendRead, Purposes
  <2>1. /\ code \in MailedFor("email_verification")' /\ code \in 1..MaxCodes
        /\ code \notin spent
    BY <1>0, <2>0, <2>6, IssueOK
  <2>7. /\ ent \in Row /\ ent.verifyCode = code /\ ent.resetCode = account.resetCode
        /\ ent.status = account.status /\ ent.password = account.password
        /\ ent.validAfter = account.validAfter
    BY <1>0, <2>1 DEF Row
  <2>8. PICK e \in Row : e = ent
    BY <2>7
  <2>2. /\ e \in Row /\ e.verifyCode = code /\ e.resetCode = account.resetCode
        /\ e.status = account.status /\ e.password = account.password
        /\ e.validAfter = account.validAfter
    BY <2>7, <2>8
  <2> HIDE DEF ent
  <2>3. /\ Moves(q) /\ Typed' /\ Grows
        /\ calls'[q].step = "save" /\ calls'[q].kind = "resend"
        /\ calls'[q].copy = e /\ calls'[q].code = 0
    BY <1>1, <1>3, <2>0, <2>2, <2>8
  <2>4. Sound(e)'
    BY <1>0, <1>2, <2>0, <2>1, <2>2, <2>3, GrownCodes DEF Sound
  <2>5. ~lost => NoSpentCode(e)
    BY <1>2, <2>1, <2>2 DEF NoSpentCode
  <2>10. Intended(e, "resend")
    BY <1>6, <2>1, <2>2 DEF Intended, ResendRead
  <2> QED
    BY <1>0, <2>2, <2>3, <2>4, <2>5, <2>10, ReadOK
<1>7. CASE ForgotRead(q)
  <2>6. PICK code : code = NewCode
    OBVIOUS
  <2> DEFINE ent == [account EXCEPT !.resetCode = code]
  <2>0. /\ Issue("password_reset") /\ "password_reset" \in Purposes
        /\ Read(q, "forgot", "save", ent, 0) /\ clock' = clock
        /\ UNCHANGED <<account, tokens, revoked, clock, history>>
    BY <1>7, <2>6 DEF ForgotRead, Purposes
  <2>1. /\ code \in MailedFor("password_reset")' /\ code \in 1..MaxCodes
        /\ code \notin spent
    BY <1>0, <2>0, <2>6, IssueOK
  <2>7. /\ ent \in Row /\ ent.resetCode = code /\ ent.verifyCode = account.verifyCode
        /\ ent.status = account.status /\ ent.password = account.password
        /\ ent.validAfter = account.validAfter
    BY <1>0, <2>1 DEF Row
  <2>8. PICK e \in Row : e = ent
    BY <2>7
  <2>2. /\ e \in Row /\ e.resetCode = code /\ e.verifyCode = account.verifyCode
        /\ e.status = account.status /\ e.password = account.password
        /\ e.validAfter = account.validAfter
    BY <2>7, <2>8
  <2> HIDE DEF ent
  <2>3. /\ Moves(q) /\ Typed' /\ Grows
        /\ calls'[q].step = "save" /\ calls'[q].kind = "forgot"
        /\ calls'[q].copy = e /\ calls'[q].code = 0
    BY <1>1, <1>3, <2>0, <2>2, <2>8
  <2>4. Sound(e)'
    BY <1>0, <1>2, <2>0, <2>1, <2>2, <2>3, GrownCodes DEF Sound
  <2>5. ~lost => NoSpentCode(e)
    BY <1>2, <2>1, <2>2 DEF NoSpentCode
  <2>10. Intended(e, "forgot")
    BY <1>7, <2>1, <2>2 DEF Intended, ForgotRead
  <2> QED
    BY <1>0, <2>2, <2>3, <2>4, <2>5, <2>10, ReadOK
<1> QED
  BY <1>4, <1>5, <1>6, <1>7

\* The guard lets the request go on.
LEMMA Authenticates ==
  ASSUME IInv, NEW q \in Requests, Authenticate(q)
  PROVE  IInv'
<1>0. /\ Typed /\ HoldsOK(q) /\ UnverifiedOK(q) /\ calls[q] \in Call
      /\ calls[q].step = "identified"
  BY DEF IInv, CallOK, Typed, Authenticate
<1>1. PICK c \in Call : /\ c = [calls[q] EXCEPT !.step = "authorised"]
                        /\ c.step = "authorised" /\ c.kind = calls[q].kind
                        /\ c.copy = calls[q].copy /\ c.code = calls[q].code
                        /\ c.token = calls[q].token
  <2> DEFINE new == [calls[q] EXCEPT !.step = "authorised"]
  <2>1. /\ new \in Call /\ new.step = "authorised" /\ new.kind = calls[q].kind
        /\ new.copy = calls[q].copy /\ new.code = calls[q].code
        /\ new.token = calls[q].token
    BY <1>0 DEF Call, Steps
  <2> QED
    BY <2>1
<1>2. /\ calls' = [calls EXCEPT ![q] = c]
      /\ UNCHANGED <<account, tokens, revoked, clock, history>> /\ mailed' = mailed
  BY <1>1 DEF Authenticate
<1>3. Moves(q) /\ calls'[q] = c
  BY <1>0, <1>2 DEF Moves, Typed
<1>4. Typed' /\ Grows
  BY <1>0, <1>3, MovesGrow
<1>5. UNCHANGED <<account, mailed, tokens, spent, clock>>
  BY <1>2 DEF history
<1>6. HoldsOK(q)'
  BY <1>0, <1>1, <1>3, <1>5 DEF HoldsOK, Sound, MailedFor, Registered
<1>7. FreshOK(q)' /\ UnverifiedOK(q)'
  BY <1>0, <1>1, <1>3, <1>5 DEF FreshOK, UnverifiedOK, Verified, Saving
<1> QED
  BY <1>3, <1>6, <1>7, MoveOK DEF CallOK

LEMMA ChangeReads ==
  ASSUME IInv, NEW q \in Requests, ChangeRead(q)
  PROVE  IInv'
<1>0. /\ Typed /\ AccountOK /\ HoldsOK(q) /\ calls[q] \in Call
  BY DEF IInv, CallOK, Typed
<1>1. Registered /\ account \in Row
  BY <1>0 DEF ChangeRead, HoldsOK, Registered, Typed
<1>2. PICK e \in Row : e = account
  BY <1>1
<1>3. PICK c \in Call : /\ c = [Idle EXCEPT !.kind = "change", !.step = "hash",
                                            !.copy = e]
                        /\ c.step = "hash" /\ c.kind = "change"
                        /\ c.copy = e /\ c.code = 0
  <2> DEFINE new == [Idle EXCEPT !.kind = "change", !.step = "hash", !.copy = e]
  <2>1. new \in Call
    BY IdleIsCall DEF Call, Kinds, Steps
  <2>2. /\ new.step = "hash" /\ new.kind = "change" /\ new.copy = e
        /\ new.code = 0
    BY DEF Idle
  <2> QED
    BY <2>1, <2>2
<1>4. calls' = [calls EXCEPT ![q] = c]
  BY <1>2, <1>3 DEF ChangeRead
<1>5. /\ calls'[q].step = "hash" /\ calls'[q].kind = "change"
      /\ calls'[q].copy = e /\ calls'[q].code = 0
  BY <1>0, <1>3, <1>4 DEF Typed
<1>6. /\ UNCHANGED <<account, tokens, revoked, clock, history>>
      /\ mailed' = mailed
  BY DEF ChangeRead
<1>7. Moves(q)
  BY <1>0, <1>4, <1>6 DEF Moves, Typed
<1>8. Typed' /\ Grows
  BY <1>0, <1>7, MovesGrow
<1>9. Sound(e)'
  BY <1>0, <1>1, <1>2, <1>6 DEF AccountOK, Sound, MailedFor
<1>10. ~lost => NoSpentCode(e)
  BY <1>0, <1>1, <1>2 DEF AccountOK
<1>11. Intended(e, "change")
  BY <1>2 DEF Intended
<1> QED
  BY <1>1, <1>2, <1>5, <1>7, <1>8, <1>9, <1>10, <1>11, ReadOK

\* bcrypt has hashed: the entity has its last two columns.
LEMMA Hashes ==
  ASSUME IInv, NEW q \in Requests, Hashed(q)
  PROVE  IInv'
<1>0. /\ Typed /\ AccountOK /\ HoldsOK(q) /\ FreshOK(q) /\ UnverifiedOK(q)
      /\ calls[q] \in Call /\ calls[q].copy \in Row /\ clock \in 0..MaxClock
      /\ calls[q].step = "hash"
  BY DEF IInv, CallOK, Typed, Call, Hashed
<1>1. Registered /\ account \in Row /\ calls[q].kind \in {"reset", "change"}
  BY <1>0 DEF HoldsOK, Registered, Typed
<1>2. PICK p \in Passwords :
         calls' = [calls EXCEPT ![q].step = "save", ![q].at = clock,
                                ![q].copy = Renewed(@, p)]
  BY DEF Hashed
<1>3. PICK e \in Row : /\ e = Renewed(calls[q].copy, p)
                       /\ e.status = calls[q].copy.status
                       /\ e.verifyCode = calls[q].copy.verifyCode
                       /\ e.resetCode = calls[q].copy.resetCode
                       /\ e.validAfter = clock /\ e.password \in Passwords
  <2> DEFINE new == Renewed(calls[q].copy, p)
  <2>1. /\ new \in Row /\ new.status = calls[q].copy.status
        /\ new.verifyCode = calls[q].copy.verifyCode
        /\ new.resetCode = calls[q].copy.resetCode
        /\ new.validAfter = clock /\ new.password \in Passwords
    BY <1>0 DEF Renewed, Row
  <2> QED
    BY <2>1
<1>4. PICK c \in Call : /\ c = [calls[q] EXCEPT !.step = "save", !.at = clock, !.copy = e]
                        /\ c.step = "save" /\ c.kind = calls[q].kind /\ c.copy = e
                        /\ c.code = calls[q].code /\ c.stale = calls[q].stale
                        /\ c.at = clock
  <2> DEFINE new == [calls[q] EXCEPT !.step = "save", !.at = clock, !.copy = e]
  <2>1. /\ new \in Call /\ new.step = "save" /\ new.kind = calls[q].kind
        /\ new.copy = e /\ new.code = calls[q].code
        /\ new.stale = calls[q].stale /\ new.at = clock
    BY <1>0 DEF Call, Steps
  <2> QED
    BY <2>1
<1>5. /\ calls'[q] = c /\ calls' \in [Requests -> Call]
      /\ \A r \in Requests \ {q} : calls'[r] = calls[r]
  <2>1. calls'[q] = [calls[q] EXCEPT !.step = "save", !.at = clock, !.copy = e]
    BY <1>0, <1>2, <1>3 DEF Typed, Call
  <2>2. \A r \in Requests \ {q} : calls'[r] = calls[r]
    BY <1>0, <1>2 DEF Typed
  <2>3. DOMAIN calls' = Requests
    BY <1>0, <1>2 DEF Typed
  <2>4. calls' = [r \in Requests |-> calls'[r]]
    BY <1>0, <1>2 DEF Typed
  <2> QED
    BY <1>0, <1>4, <2>1, <2>2, <2>3, <2>4 DEF Typed
<1>6. /\ UNCHANGED <<account, tokens, revoked, clock, history>> /\ mailed' = mailed
      /\ UNCHANGED <<account, mailed, tokens, spent, clock, lost>>
  BY DEF Hashed, history
<1>7. Moves(q)
  BY <1>5, <1>6 DEF Moves
<1>8. HoldsOK(q)'
  BY <1>0, <1>1, <1>3, <1>4, <1>5, <1>6 DEF HoldsOK, Sound, MailedFor, Registered
<1>9. FreshOK(q)'
  <2>1. SUFFICES ASSUME ~calls'[q].stale
                 PROVE  Fresh(q)' /\ (~lost' => NoSpentCode(Entity(q))')
    BY DEF FreshOK
  <2>2. Entity(q) = calls[q].copy /\ Entity(q)' = e
    BY <1>0, <1>4, <1>5 DEF Entity
  <2>3. Fresh(q) /\ (~lost => NoSpentCode(calls[q].copy))
    BY <1>0, <1>4, <1>5, <2>1, <2>2 DEF FreshOK, Saving
  <2>4. clock >= account.validAfter
    BY <1>0, <1>1 DEF AccountOK, Sound, Row
  <2>5. Fresh(q)'
    BY <1>0, <1>1, <1>3, <1>4, <1>5, <1>6, <2>2, <2>3, <2>4
       DEF Fresh, Intended, Registered
  <2>6. ~lost' => NoSpentCode(Entity(q))'
    BY <1>3, <1>6, <2>2, <2>3 DEF NoSpentCode
  <2> QED
    BY <2>5, <2>6
<1>10. UnverifiedOK(q)'
  <2>1. Verified' = Verified
    BY <1>6 DEF Verified
  <2> QED
    BY <1>0, <1>1, <1>3, <1>4, <1>5, <2>1 DEF UnverifiedOK
<1> QED
  BY <1>7, <1>8, <1>9, <1>10, MoveOK DEF CallOK

\* What save() holds after its SELECT is, with the row, the entity again.
LEMMA SelectedIs ==
  ASSUME Typed, Registered, NEW call \in Call
  PROVE  LET s == Selected(call)
         IN  /\ s \in Call /\ s.step = "write"
             /\ s.kind = call.kind /\ s.code = call.code /\ s.stale = call.stale
             /\ s.at = call.at /\ s.dirty \subseteq Columns /\ s.copy \in Row
             /\ \A c \in Columns :
                   /\ c \in s.dirty <=> call.copy[c] # account[c]
                   /\ s.copy[c] = IF c \in s.dirty THEN call.copy[c] ELSE NoCopy[c]
<1> DEFINE dirty == {c \in Columns : call.copy[c] # account[c]}
           copy == [c \in Columns |-> IF c \in dirty THEN call.copy[c] ELSE NoCopy[c]]
<1>1. copy \in Row
  <2>1. call.copy \in Row
    BY DEF Call
  <2> QED
    BY <2>1, IdleIsCall DEF Row, Columns
<1>2. dirty \in SUBSET Columns
  OBVIOUS
<1>3. Selected(call) = [call EXCEPT !.step = "write", !.dirty = dirty, !.copy = copy]
  BY DEF Selected, Call
<1>4. \A c \in Columns :
         /\ c \in dirty <=> call.copy[c] # account[c]
         /\ copy[c] = IF c \in dirty THEN call.copy[c] ELSE NoCopy[c]
  OBVIOUS
<1> HIDE DEF dirty, copy
<1>5. /\ [call EXCEPT !.step = "write", !.dirty = dirty, !.copy = copy] \in Call
      /\ LET s == [call EXCEPT !.step = "write", !.dirty = dirty, !.copy = copy]
         IN  /\ s.step = "write" /\ s.dirty = dirty /\ s.copy = copy
             /\ s.kind = call.kind /\ s.code = call.code /\ s.stale = call.stale
             /\ s.at = call.at
  BY <1>1, <1>2 DEF Call, Steps
<1> QED
  BY <1>1, <1>2, <1>3, <1>4, <1>5

LEMMA Selects ==
  ASSUME IInv, NEW q \in Requests, SaveSelect(q)
  PROVE  IInv'
<1>0. /\ Typed /\ AccountOK /\ HoldsOK(q) /\ FreshOK(q) /\ UnverifiedOK(q)
      /\ calls[q] \in Call /\ calls[q].step = "save"
  BY DEF IInv, CallOK, Typed, SaveSelect
<1>1. Registered /\ account \in Row
  BY <1>0 DEF HoldsOK, Registered, Typed
<1>2. PICK e \in Row : e = calls[q].copy
  BY <1>0 DEF Call
<1>3. PICK s \in Call : /\ s = Selected(calls[q]) /\ s.step = "write"
             /\ s.kind = calls[q].kind /\ s.code = calls[q].code
             /\ s.stale = calls[q].stale /\ s.at = calls[q].at
             /\ s.dirty \subseteq Columns /\ s.copy \in Row
             /\ \A c \in Columns : /\ c \in s.dirty <=> e[c] # account[c]
                                   /\ s.copy[c] = IF c \in s.dirty THEN e[c] ELSE NoCopy[c]
  BY <1>0, <1>1, <1>2, SelectedIs
<1>4. /\ calls'[q] = s /\ calls' \in [Requests -> Call]
      /\ \A p \in Requests \ {q} : calls'[p] = calls[p]
  BY <1>0, <1>3 DEF SaveSelect, Typed
<1>5. /\ UNCHANGED <<account, tokens, revoked, clock, history>>
      /\ mailed' = mailed /\ tokens' = tokens /\ clock' = clock
      /\ account' = account /\ spent' = spent /\ lost' = lost
  BY DEF SaveSelect, history
<1>6. Moves(q)
  BY <1>4, <1>5 DEF Moves
<1>7. Columns = {"status", "password", "validAfter", "verifyCode", "resetCode"}
  BY DEF Columns
<1>8. HoldsOK(q)'
  <2>1. Sound(s.copy)'
    BY <1>0, <1>2, <1>3, <1>5, <1>7, NoCopySound DEF HoldsOK, Sound, MailedFor
  <2> QED
    BY <1>0, <1>1, <1>3, <1>4, <1>5, <2>1 DEF HoldsOK, Registered, MailedFor
<1>9. \A c \in Columns : Result(q)'[c] = e[c]
  BY <1>3, <1>4, <1>5 DEF Result
<1>10. FreshOK(q)'
  <2>1. SUFFICES ASSUME ~calls'[q].stale
                 PROVE  Fresh(q)' /\ (~lost' => NoSpentCode(Entity(q))')
    BY DEF FreshOK
  <2>2. Fresh(q) /\ Entity(q) = e /\ (~lost => NoSpentCode(e))
    BY <1>0, <1>2, <1>3, <1>4, <2>1 DEF FreshOK, Saving, Entity
  <2>3. Entity(q)' = Result(q)'
    BY <1>3, <1>4 DEF Entity
  <2>4. /\ Result(q)'.status = e.status /\ Result(q)'.password = e.password
        /\ Result(q)'.validAfter = e.validAfter
        /\ Result(q)'.verifyCode = e.verifyCode
        /\ Result(q)'.resetCode = e.resetCode
    BY <1>7, <1>9
  <2>5. Fresh(q)'
    BY <1>0, <1>1, <1>3, <1>4, <1>5, <2>2, <2>3, <2>4 DEF Fresh, Intended, Registered
  <2>6. ~lost' => NoSpentCode(Entity(q))'
    BY <1>5, <2>2, <2>3, <2>4 DEF NoSpentCode
  <2> QED
    BY <2>5, <2>6
<1>11. UnverifiedOK(q)'
  <2>1. Verified' = Verified
    BY <1>5 DEF Verified
  <2>2. ~Verified /\ calls[q].kind # "verify" => e.status = account.status
    BY <1>0, <1>1, <1>2 DEF UnverifiedOK, AccountOK
  <2> QED
    BY <1>3, <1>4, <1>7, <2>1, <2>2 DEF UnverifiedOK
<1> QED
  BY <1>6, <1>8, <1>10, <1>11, MoveOK DEF CallOK

-----------------------------------------------------------------------------
(* Commits on the users row *)

\* A commit ends its request; of the others it leaves everything but, where
\* the row is another one now, the mark that their copy is stale.
LEMMA Commits ==
  ASSUME Typed, NEW q \in Requests, NEW row \in Row, Commit(q, row)
  PROVE  /\ account' = row /\ Registered'
         /\ calls' \in [Requests -> Call] /\ calls'[q] = Idle
         /\ \A p \in Requests \ {q} :
               \/ calls'[p] = calls[p] /\ (calls[p].step \in Saving => row = account)
               \/ calls'[p] = [calls[p] EXCEPT !.stale = TRUE]
<1>1. account' = row /\ Registered'
  BY DEF Commit, Registered
<1>2. \A p \in Requests : calls[p] \in Call
  BY DEF Typed
<1>3. \A c \in Call : [c EXCEPT !.stale = TRUE] \in Call
  BY DEF Call
<1>4. calls' \in [Requests -> Call] /\ calls'[q] = Idle
  BY <1>2, <1>3, IdleIsCall DEF Commit
<1>5. \A p \in Requests \ {q} :
         \/ calls'[p] = calls[p] /\ (calls[p].step \in Saving => row = account)
         \/ calls'[p] = [calls[p] EXCEPT !.stale = TRUE]
  BY DEF Commit, Saving
<1> QED
  BY <1>1, <1>4, <1>5

LEMMA MarkedStale ==
  ASSUME NEW c \in Call
  PROVE  LET s == [c EXCEPT !.stale = TRUE]
         IN  /\ s.kind = c.kind /\ s.step = c.step /\ s.copy = c.copy
             /\ s.dirty = c.dirty /\ s.code = c.code
             /\ s.token = c.token /\ s.at = c.at /\ s.stale
BY DEF Call

LEMMA CommitOK ==
  ASSUME IInv, NEW q \in Requests, NEW row \in Row, Commit(q, row),
         Typed', Grows, AccountOK', ClosedOK',
         ~lost' => spent' = spent \/ row # account
  PROVE  IInv'
<1>1. Typed /\ \A p \in Requests : calls[p] \in Call /\ CallOK(p)
  BY DEF IInv, Typed
<1>2. CallOK(q)'
  <2>1. calls'[q] = Idle
    BY <1>1, Commits
  <2>2. Sound(NoCopy)'
    BY DEF Typed, Sound, NoCopy
  <2> QED
    BY <2>1, <2>2, IdleIsCall DEF CallOK, HoldsOK, FreshOK, UnverifiedOK, Saving
<1>3. ASSUME NEW p \in Requests \ {q} PROVE CallOK(p)'
  <2>1. /\ account' = row
        /\ \/ calls'[p] = calls[p] /\ (calls[p].step \in Saving => row = account)
           \/ calls'[p] = [calls[p] EXCEPT !.stale = TRUE]
    BY <1>1, Commits
  <2>2. Stays(p)
    <3>1. CASE calls'[p] = [calls[p] EXCEPT !.stale = TRUE]
      BY <1>1, <3>1, MarkedStale DEF Stays
    <3>2. CASE calls'[p] = calls[p] /\ (calls[p].step \in Saving => row = account)
      BY <2>1, <3>2 DEF Stays
    <3> QED
      BY <2>1, <3>1, <3>2
  <2>3. ~Registered => calls[p].step \in {"idle", "insert"}
    BY <1>1 DEF CallOK, HoldsOK
  <2> QED
    BY <1>1, <2>2, <2>3, StaysOK
<1> QED
  BY <1>2, <1>3 DEF IInv

LEMMA SessionsStay ==
  ASSUME ClosedOK, UNCHANGED <<tokens, revoked, clock, closed>>
  PROVE  ClosedOK'
BY DEF ClosedOK, Expiry

LEMMA Registers ==
  ASSUME IInv, NEW q \in Requests, RegisterInsert(q)
  PROVE  IInv'
<1>0. Typed /\ AccountOK /\ ClosedOK /\ clock \in 0..MaxClock
  BY DEF IInv, Typed
<1>1. PICK code : code = NewCode
  OBVIOUS
<1>2. PICK p \in Passwords :
         Commit(q, [status |-> "pending_verification", password |-> p,
                    validAfter |-> clock, verifyCode |-> code, resetCode |-> 0])
  BY <1>1 DEF RegisterInsert
<1>3. /\ ~Registered /\ Issue("email_verification")
      /\ UNCHANGED <<tokens, revoked, clock, decision, spent, closed, cutAt, lost>>
  BY DEF RegisterInsert, history
<1>4. /\ mailed' \in Seq(Purposes) /\ Len(mailed') <= MaxCodes
      /\ code \in MailedFor("email_verification")' /\ code \in 0..MaxCodes
      /\ \A c \in DOMAIN mailed : c \in DOMAIN mailed' /\ mailed'[c] = mailed[c]
  BY <1>0, <1>1, <1>3, IssueOK DEF Purposes
<1> DEFINE new == [status |-> "pending_verification", password |-> p,
                   validAfter |-> clock, verifyCode |-> code, resetCode |-> 0]
<1>5. /\ new \in Row /\ new.status = "pending_verification"
      /\ new.validAfter = clock /\ new.verifyCode = code /\ new.resetCode = 0
  BY <1>0, <1>4 DEF Row, Statuses
<1>6. PICK row \in Row : row = new
  BY <1>5
<1> HIDE DEF new
<1>7. /\ Commit(q, row) /\ row.status = "pending_verification"
      /\ row.validAfter = clock /\ row.verifyCode = code /\ row.resetCode = 0
  BY <1>2, <1>5, <1>6 DEF new
<1>8. account' = row /\ Registered' /\ calls' \in [Requests -> Call]
  BY <1>0, <1>7, Commits
<1>9. Typed'
  BY <1>0, <1>3, <1>4, <1>8 DEF Typed
<1>10. Grows
  BY <1>0, <1>3, <1>4, <1>8 DEF Grows
<1>11. tokens = <<>> /\ spent = {} /\ decision = "none" /\ cutAt = 0
  BY <1>0, <1>3 DEF AccountOK
<1>12. AccountOK'
  BY <1>0, <1>3, <1>4, <1>7, <1>8, <1>11 DEF AccountOK, Sound, NoSpentCode
<1>13. ClosedOK'
  BY <1>0, <1>3, SessionsStay
<1> QED
  BY <1>3, <1>7, <1>9, <1>10, <1>12, <1>13, CommitOK

\* The three conditional or blind UPDATEs: another status, and the sessions
\* are cut or not.
LEMMA StatusUpdates ==
  ASSUME IInv, NEW q \in Requests, Registered, Verified,
         NEW status \in Statuses, NEW at \in 0..MaxClock,
         Commit(q, [account EXCEPT !.status = status, !.validAfter = at]),
         UNCHANGED <<mailed, tokens, revoked, clock, spent, closed, lost>>,
         NEW time \in 0..MaxClock, Cut(time), time <= at, account.validAfter <= at,
         at <= clock,
         decision' \in {"none", "active", "suspended"},
         ~lost /\ decision' # "none" => status \in {decision', "deleted"}
  PROVE  IInv'
<1>0. /\ Typed /\ AccountOK /\ ClosedOK /\ account \in Row
      /\ clock \in 0..MaxClock /\ cutAt \in 0..MaxClock
  BY DEF IInv, Typed, Registered
<1> DEFINE new == [account EXCEPT !.status = status, !.validAfter = at]
<1>1. /\ new \in Row /\ new.status = status /\ new.validAfter = at
      /\ new.verifyCode = account.verifyCode /\ new.resetCode = account.resetCode
  BY <1>0 DEF Row
<1>2. PICK row \in Row : row = new
  BY <1>1
<1>3. /\ row.status = status /\ row.validAfter = at /\ Commit(q, row)
      /\ row.verifyCode = account.verifyCode /\ row.resetCode = account.resetCode
  BY <1>1, <1>2
<1> HIDE DEF new
<1>4. account' = row /\ Registered' /\ calls' \in [Requests -> Call]
  BY <1>0, <1>3, Commits
<1>5. /\ cutAt' \in 0..MaxClock
      /\ ~lost => cutAt' \in {cutAt, time}
  BY <1>0 DEF Cut
<1>6. Typed'
  BY <1>0, <1>4, <1>5 DEF Typed
<1>7. Grows
  BY <1>0, <1>4 DEF Grows
<1>8. AccountOK'
  <2>1. Sound(account) /\ (~lost => cutAt <= account.validAfter /\ NoSpentCode(account))
    BY <1>0 DEF AccountOK
  <2>2. Sound(row)'
    BY <1>0, <1>3, <2>1 DEF Sound, MailedFor
  <2>3. Verified'
    BY <1>6, <1>0, <1>7, GrownCodes
  <2>4. ~lost' => cutAt' <= row.validAfter /\ NoSpentCode(row)'
    BY <1>0, <1>3, <1>5, <2>1 DEF NoSpentCode, Row
  <2> QED
    BY <1>3, <1>4, <2>2, <2>3, <2>4 DEF AccountOK
<1>9. ClosedOK'
  BY <1>0, SessionsStay
<1> QED
  BY <1>3, <1>6, <1>7, <1>8, <1>9, CommitOK

LEMMA Deletes ==
  ASSUME IInv, NEW q \in Requests, DeleteUpdate(q)
  PROVE  IInv'
<1>0. /\ Typed /\ AccountOK /\ HoldsOK(q) /\ UnverifiedOK(q)
      /\ clock \in 0..MaxClock /\ calls[q].step = "authorised"
  BY DEF IInv, CallOK, Typed, DeleteUpdate
<1>1. Registered /\ Verified
  BY <1>0 DEF HoldsOK, UnverifiedOK
<1>2. /\ Commit(q, [account EXCEPT !.status = "deleted", !.validAfter = clock])
      /\ Cut(clock) /\ decision' = decision
      /\ UNCHANGED <<mailed, tokens, revoked, clock, spent, closed, lost>>
  BY DEF DeleteUpdate
<1>3. "deleted" \in Statuses /\ decision' \in {"none", "active", "suspended"}
  BY <1>0, <1>2 DEF Statuses, Typed
<1>4. account.validAfter <= clock /\ clock <= clock
  BY <1>0, <1>1 DEF AccountOK, Sound
<1> QED
  BY <1>0, <1>1, <1>2, <1>3, <1>4, StatusUpdates

LEMMA Decides ==
  ASSUME IInv, NEW q \in Requests, AdminUpdate(q)
  PROVE  IInv'
<1>0. /\ Typed /\ AccountOK /\ HoldsOK(q) /\ UnverifiedOK(q)
      /\ clock \in 0..MaxClock /\ calls[q].step = "decide"
  BY DEF IInv, CallOK, Typed, AdminUpdate
<1>1. Registered /\ Verified /\ account \in Row
  BY <1>0 DEF HoldsOK, UnverifiedOK, Typed, Registered
<1> DEFINE kind == calls[q].kind
           at == IF kind = "suspend" THEN clock ELSE account.validAfter
           time == IF kind = "suspend" THEN clock ELSE 0
<1>2. /\ Commit(q, [account EXCEPT !.status = Target(kind), !.validAfter = at])
      /\ decision' = Target(kind)
      /\ Cut(time)
      /\ UNCHANGED <<mailed, tokens, revoked, clock, spent, closed, lost>>
  BY DEF AdminUpdate
<1>3. Target(kind) \in Statuses /\ Target(kind) \in {"active", "suspended"}
  BY DEF Target, Statuses
<1>4. at \in 0..MaxClock /\ time \in 0..MaxClock
  BY <1>0, <1>1 DEF Row
<1>5. time <= at /\ account.validAfter <= at /\ at <= clock
  BY <1>0, <1>1 DEF AccountOK, Sound, Row
<1> HIDE DEF kind, at, time
<1> QED
  BY <1>1, <1>2, <1>3, <1>4, <1>5, StatusUpdates

\* The row that save() leaves, whether its copy was stale or not.
LEMMA ResultSound ==
  ASSUME IInv, NEW q \in Requests, calls[q].step = "write"
  PROVE  /\ Registered /\ account \in Row /\ Result(q) \in Row /\ Sound(Result(q))
         /\ calls[q].code \in DOMAIN mailed \cup {0}
         /\ calls[q].at \in 0..MaxClock /\ calls[q].stale \in BOOLEAN
<1>0. /\ Typed /\ AccountOK /\ HoldsOK(q) /\ calls[q] \in Call
  BY DEF IInv, CallOK, Typed
<1>1. Registered /\ account \in Row /\ calls[q].copy \in Row
  BY <1>0 DEF HoldsOK, Registered, Typed, Call
<1>2. \A c \in Columns : Result(q)[c] = IF c \in calls[q].dirty
                                        THEN calls[q].copy[c] ELSE account[c]
  BY DEF Result
<1>3. Columns = {"status", "password", "validAfter", "verifyCode", "resetCode"}
  BY DEF Columns
<1>4. Result(q) \in Row
  BY <1>1, <1>3 DEF Result, Row
<1>5. Sound(Result(q))
  BY <1>0, <1>1, <1>2, <1>3 DEF Sound, HoldsOK, AccountOK
<1>6. calls[q].code \in DOMAIN mailed \cup {0}
  BY <1>0 DEF HoldsOK, MailedFor
<1> QED
  BY <1>0, <1>1, <1>4, <1>5, <1>6 DEF Call

\* A save that is not stale, of a row over which no save has written.
LEMMA FreshSave ==
  ASSUME IInv, NEW q \in Requests, calls[q].step = "write", ~calls[q].stale, ~lost
  PROVE  /\ Fresh(q) /\ Entity(q) = Result(q)
         /\ NoSpentCode(Result(q)) /\ NoSpentCode(account)
         /\ calls[q].code \notin spent
         /\ calls[q].code # 0 => Result(q) # account
         /\ calls[q].code # 0 => /\ Result(q).verifyCode # calls[q].code
                                 /\ Result(q).resetCode # calls[q].code
<1>0. /\ Typed /\ AccountOK /\ HoldsOK(q) /\ FreshOK(q)
  BY DEF IInv, CallOK
<1>1. Registered /\ account \in Row /\ Sound(Result(q))
  BY ResultSound
<1>2. Entity(q) = Result(q)
  BY DEF Entity
<1>3. Fresh(q) /\ NoSpentCode(Result(q))
  BY <1>0, <1>2 DEF FreshOK, Saving
<1>4. NoSpentCode(account) /\ 0 \notin spent
  BY <1>0, <1>1, MailedType DEF AccountOK
<1>5. calls[q].code # 0 =>
         \/ calls[q].kind = "verify" /\ calls[q].code \in MailedFor("email_verification")
         \/ calls[q].kind = "reset" /\ calls[q].code \in MailedFor("password_reset")
  BY <1>0 DEF HoldsOK
<1>6. MailedFor("email_verification") \cap MailedFor("password_reset") = {}
  BY DEF MailedFor
<1>7. /\ calls[q].kind = "verify" => /\ account.verifyCode = calls[q].code
                                     /\ Result(q).verifyCode = 0
      /\ calls[q].kind = "reset" => /\ account.resetCode = calls[q].code
                                    /\ Result(q).resetCode = 0
  BY <1>2, <1>3 DEF Fresh
<1>8. calls[q].code \notin spent
  BY <1>4, <1>5, <1>7 DEF NoSpentCode
<1>9. calls[q].code # 0 => Result(q) # account
  BY <1>5, <1>7
<1>10. calls[q].code # 0 => /\ Result(q).verifyCode # calls[q].code
                            /\ Result(q).resetCode # calls[q].code
  BY <1>1, <1>5, <1>6, <1>7 DEF Sound
<1> QED
  BY <1>2, <1>3, <1>4, <1>8, <1>9, <1>10

LEMMA Saves ==
  ASSUME IInv, NEW q \in Requests, SaveUpdate(q)
  PROVE  IInv'
<1>0. /\ Typed /\ AccountOK /\ ClosedOK /\ HoldsOK(q) /\ UnverifiedOK(q)
      /\ calls[q].step = "write"
  BY DEF IInv, CallOK, SaveUpdate
<1>1. PICK row \in Row : row = Result(q)
  BY <1>0, ResultSound
<1>2. PICK code \in DOMAIN mailed \cup {0} : code = calls[q].code
  BY <1>0, ResultSound
<1>3. PICK at \in 0..MaxClock : at = calls[q].at
  BY <1>0, ResultSound
<1>4. PICK stale \in BOOLEAN : stale = calls[q].stale
  BY <1>0, ResultSound
<1>5. PICK kind : kind = calls[q].kind
  OBVIOUS
<1>6. /\ Commit(q, row) /\ lost' = (lost \/ stale)
      /\ spent' = spent \cup ({code} \ {0})
      /\ Cut(IF kind \in {"reset", "change"} THEN at ELSE 0)
      /\ UNCHANGED <<mailed, tokens, revoked, clock, decision, closed>>
  BY <1>1, <1>2, <1>3, <1>4, <1>5 DEF SaveUpdate, Result
<1>7. /\ account' = row /\ Registered' /\ calls' \in [Requests -> Call]
  BY <1>0, <1>6, Commits
<1>8. /\ Registered /\ account \in Row /\ Sound(row) /\ cutAt \in 0..MaxClock
      /\ decision \in {"none", "active", "suspended"} /\ lost \in BOOLEAN
  BY <1>0, <1>1, ResultSound DEF Typed
<1>9. spent' \subseteq DOMAIN mailed /\ cutAt' \in 0..MaxClock /\ lost' \in BOOLEAN
  BY <1>0, <1>6, <1>8 DEF Cut, Typed
<1>10. Typed'
  BY <1>0, <1>6, <1>7, <1>9 DEF Typed
<1>11. Grows
  <2>1. clock \in 0..MaxClock
    BY <1>0 DEF Typed
  <2>2. spent \subseteq spent' /\ (lost => lost')
    BY <1>6, <1>8
  <2> QED
    BY <1>6, <1>7, <2>1, <2>2 DEF Grows
<1>12. ASSUME ~lost'
       PROVE  /\ cutAt' <= row.validAfter /\ NoSpentCode(row)'
              /\ decision # "none" => row.status \in {decision, "deleted"}
              /\ spent' = spent \/ row # account
  <2>1. ~lost /\ ~stale
    BY <1>4, <1>6, <1>8, <1>12
  <2>2. /\ Fresh(q) /\ Entity(q) = row /\ NoSpentCode(row)
        /\ code # 0 => row # account
        /\ code # 0 => row.verifyCode # code /\ row.resetCode # code
    BY <1>0, <1>1, <1>2, <1>4, <2>1, FreshSave
  <2>3. /\ cutAt <= account.validAfter /\ account.validAfter \in 0..MaxClock
        /\ decision # "none" => account.status \in {decision, "deleted"}
    BY <1>0, <1>8, <2>1 DEF AccountOK, Row
  <2>4. cutAt' <= row.validAfter
    <3>1. CASE kind \in {"reset", "change"}
      <4>1. row.validAfter = at /\ at >= account.validAfter
        BY <1>0, <1>3, <1>5, <2>2, <3>1 DEF Fresh
      <4> QED
        BY <1>6, <1>8, <1>12, <2>3, <3>1, <4>1 DEF Cut
    <3>2. CASE kind \notin {"reset", "change"}
      <4>1. row.validAfter = account.validAfter
        BY <1>5, <2>2, <3>2 DEF Fresh
      <4> QED
        BY <1>6, <1>8, <1>12, <2>3, <3>2, <4>1 DEF Cut
    <3> QED
      BY <3>1, <3>2
  <2>5. NoSpentCode(row)'
    BY <1>6, <2>2 DEF NoSpentCode
  <2>6. decision # "none" => row.status \in {decision, "deleted"}
    <3>1. \/ row.status = account.status
          \/ kind = "verify" /\ account.status = "pending_verification"
      BY <1>5, <2>2 DEF Fresh
    <3> QED
      BY <1>8, <2>3, <3>1
  <2> QED
    BY <1>6, <2>2, <2>4, <2>5, <2>6
<1>13. AccountOK'
  <2>1. Sound(row)'
    BY <1>6, <1>8 DEF Sound, MailedFor
  <2>2. ~Verified' => row.status = "pending_verification" /\ tokens' = <<>>
    <3>1. SUFFICES ASSUME ~Verified' PROVE row.status = "pending_verification" /\ tokens' = <<>>
      OBVIOUS
    <3>2. ~Verified
      BY <1>0, <1>10, <1>11, <3>1, GrownCodes
    <3>3. kind # "verify"
      <4>1. kind = "verify" => code \in spent' /\ mailed'[code] = "email_verification"
        <5>1. kind = "verify" => code \in MailedFor("email_verification")
          BY <1>0, <1>2, <1>5 DEF HoldsOK
        <5>2. 0 \notin DOMAIN mailed
          BY <1>0, MailedType
        <5> QED
          BY <1>6, <5>1, <5>2 DEF MailedFor
      <4> QED
        BY <3>1, <4>1 DEF Verified
    <3>4. "status" \notin calls[q].dirty
      BY <1>0, <1>5, <3>2, <3>3 DEF UnverifiedOK
    <3>5. row.status = account.status
      BY <1>1, <3>4 DEF Result, Columns
    <3> QED
      BY <1>0, <1>6, <1>8, <3>2, <3>5 DEF AccountOK
  <2> QED
    BY <1>6, <1>7, <1>12, <2>1, <2>2 DEF AccountOK
<1>14. ClosedOK'
  BY <1>0, <1>6, SessionsStay
<1> QED
  BY <1>6, <1>10, <1>11, <1>12, <1>13, <1>14, CommitOK

-----------------------------------------------------------------------------
(* Sessions and the clock *)

LEMMA ExpiryType ==
  ASSUME Typed, NEW t \in DOMAIN tokens
  PROVE  Expiry(t) \in Int
<1>1. tokens[t].iat \in 0..MaxClock
  BY MailedType
<1>2. \A i \in Int : i * TicksPerSecond \in Int
  OBVIOUS
<1>3. tokens[t].iat + TokenLife \in Int
  BY <1>1
<1> QED
  BY <1>2, <1>3 DEF Expiry

\* A logout that has revoked its token.
Purging == [Idle EXCEPT !.step = "purge"]

LEMMA PurgingIsCall ==
  /\ Purging \in Call /\ Purging.step = "purge" /\ Purging.copy = NoCopy
  /\ Purging.kind = "none" /\ Purging.code = 0
BY IdleIsCall DEF Purging, Idle, Call, Steps

\* Steps that leave the users row as it is, sign a token, revoke one, purge or
\* let time pass.
LEMMA SessionOK ==
  ASSUME IInv, Registered, Typed', ClosedOK',
         UNCHANGED <<account, mailed, decision, spent, cutAt, lost>>,
         \A p \in Requests : calls'[p] \in {calls[p], Idle, Purging},
         \A p \in Requests : calls'[p] \in {calls[p], Idle} \/ Verified,
         DOMAIN tokens \subseteq DOMAIN tokens', clock <= clock',
         tokens' = tokens \/ Verified
  PROVE  IInv'
<1>0. Typed /\ AccountOK
  BY DEF IInv
<1>1. Grows
  BY DEF Grows, Registered
<1>2. AccountOK'
  <2>1. account \in Row /\ Sound(account) /\ clock \in 0..MaxClock /\ clock' \in 0..MaxClock
    BY <1>0 DEF AccountOK, Typed, Registered
  <2>2. Sound(account)'
    BY <2>1 DEF Sound, MailedFor, Row
  <2>3. Registered' /\ Verified' = Verified
    BY DEF Registered, Verified
  <2> QED
    BY <1>0, <2>2, <2>3 DEF AccountOK, NoSpentCode
<1>3. ASSUME NEW p \in Requests PROVE CallOK(p)'
  <2>1. CASE calls'[p] = calls[p]
    BY <1>0, <1>1, <2>1, StaysOK DEF Stays, IInv
  <2>2. Sound(NoCopy)'
    BY DEF Typed, Sound, NoCopy
  <2>3. CASE calls'[p] = Idle
    BY <2>2, <2>3, IdleIsCall DEF CallOK, HoldsOK, FreshOK, UnverifiedOK, Saving
  <2>4. CASE calls'[p] = Purging /\ Verified
    <3>1. Registered' /\ Verified'
      BY <2>4 DEF Registered, Verified
    <3> QED
      BY <2>2, <2>4, <3>1, PurgingIsCall
         DEF CallOK, HoldsOK, FreshOK, UnverifiedOK, Saving
  <2> QED
    BY <2>1, <2>3, <2>4
<1> QED
  BY <1>2, <1>3 DEF IInv

LEMMA Signs ==
  ASSUME IInv, NEW q \in Requests, LoginSign(q)
  PROVE  IInv'
<1>0. Typed /\ AccountOK /\ ClosedOK /\ HoldsOK(q) /\ UnverifiedOK(q)
  BY DEF IInv, CallOK
<1>1. Registered /\ Verified
  BY <1>0 DEF LoginSign, LoginAllowed, HoldsOK, UnverifiedOK
<1>2. [iat |-> Second(clock)] \in Token
  BY <1>0, SecondType DEF Typed, Token
<1>3. PICK token \in Token : tokens' = Append(tokens, token)
  BY <1>2 DEF LoginSign
<1>4. /\ tokens' \in Seq(Token) /\ Len(tokens') = Len(tokens) + 1
      /\ \A t \in 1..Len(tokens) : tokens'[t] = tokens[t]
  BY <1>0, <1>3, AppendProperties DEF Typed
<1>5. /\ DOMAIN tokens = 1..Len(tokens) /\ DOMAIN tokens' = 1..Len(tokens')
      /\ Len(tokens) \in Nat
  BY <1>0, <1>4, LenProperties DEF Typed
<1>6. DOMAIN tokens \subseteq DOMAIN tokens' /\ Len(tokens') <= MaxTokens
  BY <1>4, <1>5 DEF LoginSign
<1>7. /\ UNCHANGED <<account, mailed, revoked, clock, decision, spent, closed, cutAt, lost>>
      /\ calls' = [calls EXCEPT ![q] = Idle]
  BY DEF LoginSign, Finish, history
<1>8. calls' \in [Requests -> Call] /\ \A p \in Requests : calls'[p] \in {calls[p], Idle}
  BY <1>0, <1>7, IdleIsCall DEF Typed
<1>9. Typed'
  BY <1>0, <1>4, <1>6, <1>7, <1>8 DEF Typed
<1>10. ClosedOK'
  <2>1. \A t \in closed : tokens'[t] = tokens[t]
    BY <1>0, <1>4, <1>5 DEF Typed
  <2> QED
    BY <1>0, <1>7, <2>1 DEF ClosedOK, Expiry
<1>11. clock <= clock'
  BY <1>0, <1>7 DEF Typed
<1> QED
  BY <1>1, <1>6, <1>7, <1>8, <1>9, <1>10, <1>11, SessionOK

LEMMA Revokes ==
  ASSUME IInv, NEW q \in Requests, LogoutRevoke(q)
  PROVE  IInv'
<1>0. /\ Typed /\ ClosedOK /\ HoldsOK(q) /\ UnverifiedOK(q)
      /\ calls[q].step = "authorised"
  BY DEF IInv, CallOK, LogoutRevoke
<1>1. PICK t \in DOMAIN tokens : t = calls[q].token
  BY <1>0 DEF HoldsOK
<1>2. PICK c \in Call : c = Purging
  BY PurgingIsCall
<1>3. /\ Registered /\ Verified /\ revoked' = revoked \cup {t}
      /\ closed' = closed \cup {t}
      /\ calls' = [calls EXCEPT ![q] = c]
      /\ UNCHANGED <<account, mailed, tokens, clock, decision, spent, cutAt, lost>>
  BY <1>0, <1>1, <1>2 DEF LogoutRevoke, HoldsOK, UnverifiedOK, Purging
<1>4. calls' \in [Requests -> Call]
  BY <1>0, <1>3 DEF Typed
<1>5. \A p \in Requests : calls'[p] \in {calls[p], Idle, Purging}
  BY <1>0, <1>2, <1>3 DEF Typed
<1>6. Typed'
  BY <1>0, <1>1, <1>3, <1>4 DEF Typed
<1>7. ClosedOK'
  BY <1>0, <1>3 DEF ClosedOK, Expiry
<1>8. clock <= clock'
  BY <1>0, <1>3 DEF Typed
<1> QED
  BY <1>3, <1>5, <1>6, <1>7, <1>8, SessionOK

LEMMA Purges ==
  ASSUME IInv, NEW q \in Requests, LogoutPurge(q)
  PROVE  IInv'
<1>0. Typed /\ ClosedOK /\ HoldsOK(q) /\ calls[q].step = "purge"
  BY DEF IInv, CallOK, LogoutPurge
<1>1. /\ Registered /\ revoked' = Purged(revoked)
      /\ calls' = [calls EXCEPT ![q] = Idle]
      /\ UNCHANGED <<account, mailed, tokens, clock, decision, spent, closed,
                     cutAt, lost>>
  BY <1>0 DEF LogoutPurge, HoldsOK, Finish, history
<1>2. calls' \in [Requests -> Call]
      /\ \A p \in Requests : calls'[p] \in {calls[p], Idle, Purging}
  BY <1>0, <1>1, IdleIsCall DEF Typed
<1>3. revoked' \subseteq DOMAIN tokens /\ clock \in Int
  BY <1>0, <1>1 DEF Purged, Typed
<1>4. Typed'
  BY <1>0, <1>1, <1>2, <1>3 DEF Typed
<1>5. ASSUME NEW t \in closed PROVE t \in revoked' \/ Expiry(t) <= clock
  <2>1. Expiry(t) \in Int
    BY <1>0, ExpiryType DEF Typed
  <2>2. t \in revoked \/ Expiry(t) <= clock
    BY <1>0 DEF ClosedOK
  <2> QED
    BY <1>1, <1>3, <2>1, <2>2 DEF Purged
<1>6. ClosedOK'
  BY <1>1, <1>5 DEF ClosedOK, Expiry
<1>7. clock <= clock'
  BY <1>0, <1>1 DEF Typed
<1> QED
  BY <1>1, <1>2, <1>4, <1>6, <1>7, SessionOK

LEMMA Ticks ==
  ASSUME IInv, Tick
  PROVE  IInv'
<1>0. Typed /\ AccountOK /\ ClosedOK
  BY DEF IInv
<1>1. Registered
  BY <1>0 DEF Tick, AccountOK
<1>2. /\ clock \in 0..MaxClock /\ clock' = clock + 1 /\ clock' \in 0..MaxClock
      /\ UNCHANGED <<account, mailed, tokens, revoked, calls, decision, spent,
                     closed, cutAt, lost>>
  BY <1>0 DEF Tick, Typed, history
<1>3. Typed'
  BY <1>0, <1>2 DEF Typed
<1>4. ASSUME NEW t \in closed PROVE t \in revoked \/ Expiry(t) <= clock'
  <2>1. Expiry(t) \in Int
    BY <1>0, ExpiryType DEF Typed
  <2> QED
    BY <1>0, <1>2, <2>1 DEF ClosedOK
<1>5. ClosedOK'
  BY <1>2, <1>4 DEF ClosedOK, Expiry
<1> QED
  BY <1>1, <1>2, <1>3, <1>5, SessionOK

-----------------------------------------------------------------------------
(* The invariant *)

LEMMA StepKeepsIInv == IInv /\ [Next]_vars => IInv'
<1> SUFFICES ASSUME IInv, [Next]_vars PROVE IInv'
  OBVIOUS
<1>1. CASE Tick
  BY <1>1, Ticks
<1>2. ASSUME NEW q \in Requests, RegisterCheck(q) PROVE IInv'
  BY <1>2, PlainBegins
<1>3. ASSUME NEW q \in Requests, RegisterInsert(q) PROVE IInv'
  BY <1>3, Registers
<1>4. ASSUME NEW q \in Requests, RegisterConflict(q) PROVE IInv'
  BY <1>4, FinishMoves DEF RegisterConflict
<1>5. ASSUME NEW q \in Requests, LoginRead(q) PROVE IInv'
  BY <1>5, PlainBegins
<1>6. ASSUME NEW q \in Requests, LoginSign(q) PROVE IInv'
  BY <1>6, Signs
<1>7. ASSUME NEW q \in Requests, LoginRefuse(q) PROVE IInv'
  BY <1>7, FinishMoves DEF LoginRefuse
<1>8. ASSUME NEW q \in Requests,
             VerifyRead(q) \/ ResendRead(q) \/ ForgotRead(q) \/ ResetRead(q)
      PROVE  IInv'
  BY <1>8, EntityReads
<1>9. ASSUME NEW q \in Requests, ChangeRead(q) PROVE IInv'
  BY <1>9, ChangeReads
<1>10. ASSUME NEW q \in Requests, Hashed(q) \/ SaveSelect(q) PROVE IInv'
  BY <1>10, Hashes, Selects
<1>11. ASSUME NEW q \in Requests, SaveUpdate(q) PROVE IInv'
  BY <1>11, Saves
<1>12. ASSUME NEW q \in Requests, DeleteUpdate(q) PROVE IInv'
  BY <1>12, Deletes
<1>13. ASSUME NEW q \in Requests, LogoutRevoke(q) PROVE IInv'
  BY <1>13, Revokes
<1>14. ASSUME NEW q \in Requests, LogoutTooLate(q) \/ Unauthorised(q) PROVE IInv'
  BY <1>14, FinishMoves DEF LogoutTooLate, Unauthorised
<1>15. ASSUME NEW q \in Requests, AdminUpdate(q) PROVE IInv'
  BY <1>15, Decides
<1>16. ASSUME NEW q \in Requests, AdminConflict(q) PROVE IInv'
  BY <1>16, FinishMoves DEF AdminConflict
<1>17. ASSUME NEW q \in Requests, NEW t \in DOMAIN tokens, Identify(q, t)
       PROVE  IInv'
  BY <1>17, PlainBegins
<1>18. ASSUME NEW q \in Requests, NEW kind \in {"suspend", "reactivate"},
              AdminRead(q, kind)
       PROVE  IInv'
  BY <1>18, PlainBegins
<1>20. ASSUME NEW q \in Requests, Authenticate(q) PROVE IInv'
  BY <1>20, Authenticates
<1>21. ASSUME NEW q \in Requests, LogoutPurge(q) PROVE IInv'
  BY <1>21, Purges
<1>19. CASE UNCHANGED vars
  <2>1. Typed' /\ AccountOK' /\ ClosedOK'
    BY <1>19 DEF IInv, vars, history, Typed, AccountOK, ClosedOK, Registered,
                 Sound, MailedFor, Verified, NoSpentCode, Expiry
  <2>2. ASSUME NEW q \in Requests PROVE CallOK(q)'
    <3>1. Grows
      BY <1>19 DEF Grows, vars, history, IInv, Typed, Registered
    <3>2. Stays(q)
      BY <1>19 DEF Stays, vars, history
    <3>3. CallOK(q) /\ (~Registered => calls[q].step \in {"idle", "insert"})
      BY DEF IInv, CallOK, HoldsOK
    <3> QED
      BY <2>1, <3>1, <3>2, <3>3, StaysOK DEF IInv
  <2> QED
    BY <2>1, <2>2 DEF IInv
<1> QED
  BY <1>1, <1>2, <1>3, <1>4, <1>5, <1>6, <1>7, <1>8, <1>9, <1>10, <1>11, <1>12,
     <1>13, <1>14, <1>15, <1>16, <1>17, <1>18, <1>19, <1>20, <1>21 DEF Next

\* The conjunction that every step keeps, with its statements about the copies
\* that requests hold.
THEOREM Invariance == Spec => []IInv
BY InitOK, StepKeepsIInv, PTL DEF Spec

-----------------------------------------------------------------------------
(* What holds in every state *)

\* Everything keeps its type, and no write of the handlers in module
\* auth-security, stale or torn, leaves a time that is still to come or a code
\* that was never mailed for the purpose of its column.
THEOREM TypeCorrectness == Spec => []TypeOK
<1>1. IInv => TypeOK
  BY DEF IInv, TypeOK, AccountOK, CallOK, HoldsOK
<1> QED
  BY <1>1, Invariance, PTL

\* Nobody is let in, and no token signed, before a verification code mailed to
\* the address has been used: the handlers that save a whole row cannot write
\* a status of their own before that.
THEOREM VerifiedFirst == Spec => []ActiveMeansVerified
<1>1. IInv => ActiveMeansVerified
  BY DEF IInv, AccountOK, ActiveMeansVerified, Verified
<1> QED
  BY <1>1, Invariance, PTL

\* A token given to logout is refused for ever, although purgeExpired throws
\* its row away.
THEOREM LogoutHolds == Spec => []ClosedSessionsRejected
<1>1. ASSUME IInv PROVE ClosedSessionsRejected
  <2>1. ASSUME NEW t \in closed PROVE ~Identifies(t)
    <3>1. t \in DOMAIN tokens /\ clock \in Int /\ Expiry(t) \in Int
      BY <1>1, ExpiryType DEF IInv, Typed
    <3> QED
      BY <1>1, <3>1 DEF IInv, ClosedOK, Identifies, RevocationCheck, SignatureCheck
  <2> QED
    BY <2>1 DEF ClosedSessionsRejected
<1> QED
  BY <1>1, Invariance, PTL

\* Without a lost update tokens_valid_after never falls behind the latest
\* reset, change, suspension or deletion, so older sessions stay cut.
THEOREM OlderSessionsCut == Spec => []SessionsCut
<1>1. ASSUME IInv PROVE SessionsCut
  <2>1. SUFFICES ASSUME ~lost, NEW t \in DOMAIN tokens,
                        tokens[t].iat < Second(cutAt), Admits(t)
                 PROVE  FALSE
    BY DEF SessionsCut
  <2>2. Registered /\ tokens[t].iat >= Second(account.validAfter)
    BY <2>1 DEF Admits, TokensValidAfterCheck
  <2>3. /\ cutAt \in 0..MaxClock /\ account.validAfter \in 0..MaxClock
        /\ cutAt <= account.validAfter /\ tokens[t].iat \in 0..MaxClock
    BY <1>1, <2>1, <2>2, MailedType DEF IInv, AccountOK, Typed, Registered, Row
  <2>4. Second(cutAt) \in Int /\ Second(account.validAfter) \in Int
    BY <2>3, SecondType
  <2> QED
    BY <2>1, <2>2, <2>3, <2>4, SecondMonotone
<1> QED
  BY <1>1, Invariance, PTL

\* Without a lost update the status is the administrator's latest decision, or
\* the owner has deleted the account.
THEOREM LatestDecision == Spec => []DecisionsHold
<1>1. IInv => DecisionsHold
  BY DEF IInv, AccountOK, DecisionsHold
<1> QED
  BY <1>1, Invariance, PTL

-----------------------------------------------------------------------------
(* What a step may do *)

\* The only steps that write the users row.
LEMMA AccountSteps ==
  ASSUME [Next]_vars, account' # account
  PROVE  \E q \in Requests : \/ RegisterInsert(q) \/ SaveUpdate(q)
                             \/ DeleteUpdate(q) \/ AdminUpdate(q)
BY DEF Next, vars, Tick, RegisterCheck, RegisterConflict, LoginRead, LoginSign,
       LoginRefuse, VerifyRead, ResendRead, ForgotRead, ResetRead, ChangeRead,
       Hashed, SaveSelect, LogoutRevoke, LogoutPurge, LogoutTooLate,
       AdminConflict, Identify, Authenticate, Unauthorised, AdminRead

\* A save that takes a status or a password from its copy although nothing has
\* changed since the copy was read.
LEMMA SaveWrites ==
  ASSUME IInv, NEW q \in Requests, SaveUpdate(q)
  PROVE  /\ account' = Result(q) /\ calls'[q] = Idle /\ calls[q].step = "write"
         /\ ~calls[q].stale =>
              /\ \/ account'.status = account.status
                 \/ account.status = "pending_verification"
              /\ \/ account'.password = account.password
                 \/ calls[q].kind \in {"reset", "change"}
<1>0. calls[q].step = "write" /\ Typed /\ FreshOK(q)
  BY DEF SaveUpdate, IInv, CallOK
<1>1. PICK row \in Row : row = Result(q)
  BY <1>0, ResultSound
<1>2. Commit(q, row)
  BY <1>1 DEF SaveUpdate, Result
<1>3. account' = row /\ calls'[q] = Idle
  BY <1>0, <1>2, Commits
<1>4. ~calls[q].stale => Fresh(q) /\ Entity(q) = row
  BY <1>0, <1>1 DEF FreshOK, Saving, Entity
<1> QED
  BY <1>0, <1>1, <1>3, <1>4 DEF Fresh

\* A suspended or deleted account is given back by an administrator, or by a
\* save whose copy is older than the suspension or the deletion; by nothing
\* else that auth-security or administration does.
THEOREM Restorations == Spec => OnlyStaleSavesRestore
<1>1. ASSUME IInv, [Next]_vars, Barred(account), ~Barred(account')
      PROVE  Reactivation \/ StaleSave
  <2>1. account' # account /\ Registered
    BY <1>1 DEF Barred, Registered
  <2>2. PICK q \in Requests : \/ RegisterInsert(q) \/ SaveUpdate(q)
                              \/ DeleteUpdate(q) \/ AdminUpdate(q)
    BY <1>1, <2>1, AccountSteps
  <2>3. ~RegisterInsert(q)
    BY <2>1 DEF RegisterInsert
  <2>4. CASE SaveUpdate(q)
    <3>1. IInv' /\ account' \in Row
      <4>1. IInv'
        BY <1>1, <2>4, Saves
      <4>2. account' = Result(q) /\ Result(q) \in Row
        BY <1>1, <2>4, SaveWrites, ResultSound
      <4> QED
        BY <4>1, <4>2
    <3>2. calls[q].stale \/ Barred(account')
      BY <1>1, <2>4, <3>1, SaveWrites DEF Barred
    <3> QED
      BY <1>1, <2>4, <3>2, SaveWrites DEF StaleSave
  <2>5. CASE DeleteUpdate(q)
    <3>1. account \in Row
      BY <1>1, <2>1 DEF IInv, Typed, Registered
    <3>2. account'.status = "deleted" /\ account' \in Row
      <4>1. account' = [account EXCEPT !.status = "deleted", !.validAfter = clock]
        BY <2>5 DEF DeleteUpdate, Commit
      <4>2. clock \in 0..MaxClock /\ "deleted" \in Statuses
        BY <1>1 DEF IInv, Typed, Statuses
      <4> QED
        BY <3>1, <4>1, <4>2 DEF Row
    <3> QED
      BY <1>1, <3>2 DEF Barred
  <2>6. CASE AdminUpdate(q)
    <3>1. /\ AdminMayChange(account.status, Target(calls[q].kind))
          /\ calls[q].step = "decide"
      BY <2>6 DEF AdminUpdate
    <3>2. account.status = "suspended" /\ Target(calls[q].kind) = "active"
      BY <1>1, <3>1 DEF AdminMayChange, Barred, Target
    <3>3. calls[q].kind = "reactivate"
      BY <1>1, <3>1, <3>2 DEF Target, IInv, CallOK, HoldsOK
    <3>4. calls'[q] = Idle
      BY <2>6 DEF AdminUpdate, Commit
    <3> QED
      BY <3>1, <3>2, <3>3, <3>4 DEF Reactivation
  <2> QED
    BY <2>2, <2>3, <2>4, <2>5, <2>6
<1> QED
  BY <1>1, Invariance, PTL DEF Spec, OnlyStaleSavesRestore

\* The password of a registered address changes with a reset code, with the
\* current password, or by a stale save; a second registration never writes.
THEOREM AuthorisedPasswords == Spec => PasswordsAreAuthorised
<1>1. ASSUME IInv, [Next]_vars, Registered, account'.password # account.password
      PROVE  \/ StaleSave
             \/ \E q \in Requests : /\ calls[q].step = "write"
                                    /\ calls[q].kind \in {"reset", "change"}
                                    /\ calls'[q] = Idle
  <2>1. account' # account /\ account \in Row
    BY <1>1 DEF IInv, Typed, Registered
  <2>2. PICK q \in Requests : \/ RegisterInsert(q) \/ SaveUpdate(q)
                              \/ DeleteUpdate(q) \/ AdminUpdate(q)
    BY <1>1, <2>1, AccountSteps
  <2>3. ~RegisterInsert(q)
    BY <1>1 DEF RegisterInsert
  <2>4. ~DeleteUpdate(q) /\ ~AdminUpdate(q)
    <3>1. \A s, v : [account EXCEPT !.status = s, !.validAfter = v].password
                      = account.password
      BY <2>1 DEF Row
    <3>2. DeleteUpdate(q) => account'.password = account.password
      BY <3>1 DEF DeleteUpdate, Commit
    <3>3. AdminUpdate(q) => account'.password = account.password
      BY <3>1 DEF AdminUpdate, Commit
    <3> QED
      BY <1>1, <3>2, <3>3
  <2>5. SaveUpdate(q)
    BY <2>2, <2>3, <2>4
  <2> QED
    BY <1>1, <2>5, SaveWrites DEF StaleSave
<1> QED
  BY <1>1, Invariance, PTL DEF Spec, PasswordsAreAuthorised

\* Only its own UPDATE ends a request that has come to save().
LEMMA WriteEnds ==
  ASSUME IInv, [Next]_vars, NEW q \in Requests, calls[q].step = "write",
         calls'[q] = Idle
  PROVE  SaveUpdate(q)
<1>1. \A p \in Requests : calls[p] \in Call
  BY DEF IInv, Typed
<1>2. calls'[q] # calls[q] /\ calls'[q].step # "write"
  BY IdleIsCall
<1>3. ASSUME NEW p \in Requests, NEW c, calls' = [calls EXCEPT ![p] = c] PROVE p = q
  BY <1>2, <1>3 DEF IInv, Typed
<1>4. ASSUME NEW p \in Requests, NEW row, Commit(p, row) PROVE p = q
  <2>1. p # q => \/ calls'[q] = calls[q]
                 \/ calls'[q] = [calls[q] EXCEPT !.stale = TRUE]
    BY <1>4 DEF Commit
  <2>2. [calls[q] EXCEPT !.stale = TRUE].step = "write"
    BY <1>1, MarkedStale
  <2> QED
    BY <1>2, <2>1, <2>2
<1>5. ~Tick /\ ~UNCHANGED vars
  BY <1>2 DEF Tick, vars
<1>6. \A p \in Requests :
         ~(\/ RegisterCheck(p) \/ LoginRead(p) \/ VerifyRead(p) \/ ResendRead(p)
           \/ ForgotRead(p) \/ ResetRead(p)
           \/ \E t \in DOMAIN tokens : Identify(p, t)
           \/ \E kind \in {"suspend", "reactivate"} : AdminRead(p, kind))
  <2>1. ASSUME NEW p \in Requests, NEW c, Begin(p, c) PROVE FALSE
    <3>1. p = q
      BY <1>3, <2>1 DEF Begin
    <3> QED
      BY <2>1, <3>1, IdleIsCall DEF Begin
  <2> QED
    BY <2>1 DEF RegisterCheck, LoginRead, VerifyRead, ResendRead, ForgotRead,
                ResetRead, Read, Identify, AdminRead
<1>7. \A p \in Requests :
         ~(\/ RegisterConflict(p) \/ LoginSign(p) \/ LoginRefuse(p)
           \/ LogoutPurge(p) \/ LogoutTooLate(p) \/ AdminConflict(p)
           \/ Unauthorised(p))
  <2>1. \A p \in Requests : Finish(p) => p = q
    BY <1>3 DEF Finish
  <2> QED
    BY <2>1 DEF RegisterConflict, LoginSign, LoginRefuse, LogoutPurge,
                LogoutTooLate, AdminConflict, Unauthorised
<1>8. \A p \in Requests : ~(\/ ChangeRead(p) \/ Hashed(p) \/ SaveSelect(p)
                            \/ Authenticate(p) \/ LogoutRevoke(p))
  <2>1. ASSUME NEW p \in Requests, ChangeRead(p) PROVE FALSE
    BY <1>3, <2>1 DEF ChangeRead
  <2>2. ASSUME NEW p \in Requests, Hashed(p) PROVE FALSE
    <3>1. p # q => calls'[q] = calls[q]
      BY <2>2 DEF Hashed, IInv, Typed
    <3> QED
      BY <1>2, <2>2, <3>1 DEF Hashed
  <2>3. ASSUME NEW p \in Requests, SaveSelect(p) PROVE FALSE
    BY <1>3, <2>3 DEF SaveSelect
  <2>4. ASSUME NEW p \in Requests, Authenticate(p) PROVE FALSE
    BY <1>3, <2>4 DEF Authenticate
  <2>5. ASSUME NEW p \in Requests, LogoutRevoke(p) PROVE FALSE
    BY <1>3, <2>5 DEF LogoutRevoke
  <2> QED
    BY <2>1, <2>2, <2>3, <2>4, <2>5
<1>9. \A p \in Requests : ~(RegisterInsert(p) \/ DeleteUpdate(p) \/ AdminUpdate(p))
  BY <1>4 DEF RegisterInsert, DeleteUpdate, AdminUpdate
<1>10. \E p \in Requests : SaveUpdate(p)
  BY <1>5, <1>6, <1>7, <1>8, <1>9 DEF Next
<1> QED
  BY <1>4, <1>10 DEF SaveUpdate

\* A code whose use was saved is not accepted again unless a save writes over
\* a newer row.
THEOREM SingleUse == Spec => CodesSpentOnce
<1>1. ASSUME IInv, [Next]_vars, NEW q \in Requests, calls[q].step = "write",
             calls'[q] = Idle, calls[q].code \in spent
      PROVE  lost'
  <2>1. SaveUpdate(q)
    BY <1>1, WriteEnds
  <2>2. lost' = (lost \/ calls[q].stale)
    BY <2>1 DEF SaveUpdate
  <2> QED
    BY <1>1, <2>2, FreshSave
<1>2. IInv /\ [Next]_vars =>
         \A q \in Requests :
            calls[q].step = "write" /\ calls'[q] = Idle /\ calls[q].code \in spent
               => lost'
  BY <1>1
<1> QED
  BY <1>2, Invariance, PTL DEF Spec, CodesSpentOnce

-----------------------------------------------------------------------------
(* The account of which every request is one step *)

LEMMA SameRow ==
  ASSUME NEW a \in Row, NEW b \in Row, a.status = b.status,
         a.password = b.password, a.validAfter = b.validAfter,
         a.verifyCode = b.verifyCode, a.resetCode = b.resetCode
  PROVE  a = b
BY DEF Row

LEMMA InitMaps == Init => Promise!Init
BY DEF Init, Promise!Init

LEMMA RegistrationMaps ==
  ASSUME IInv, NEW q \in Requests, RegisterInsert(q)
  PROVE  Promise!Next
<1>1. Typed /\ clock \in 0..MaxClock
  BY DEF IInv, Typed
<1>2. PICK code : code = NewCode
  OBVIOUS
<1>3. code \in 1..MaxCodes
  BY <1>1, <1>2, IssueOK DEF RegisterInsert, Purposes
<1>4. PICK p \in Passwords :
         Commit(q, [status |-> "pending_verification", password |-> p,
                    validAfter |-> clock, verifyCode |-> code, resetCode |-> 0])
  BY <1>2 DEF RegisterInsert
<1>5. Promise!Register(p, clock, code)
  BY <1>4 DEF Promise!Register, Promise!Registered, RegisterInsert, Registered,
              Commit, history
<1> QED
  BY <1>1, <1>3, <1>5 DEF Promise!Next

\* What a save writes that is not stale: the row as its handler meant it.
LEMMA SaveIs ==
  ASSUME IInv, NEW q \in Requests, SaveUpdate(q), ~calls[q].stale
  PROVE  /\ account \in Row /\ account' \in Row /\ Registered
         /\ UNCHANGED <<decision, lost>>
         /\ spent' = spent \cup ({calls[q].code} \ {0})
         /\ calls[q].kind \in {"verify", "resend", "forgot", "reset", "change"}
         /\ calls[q].kind \in {"verify", "reset"} => calls[q].code \in 1..MaxCodes
         /\ calls[q].kind \notin {"verify", "reset"} => calls[q].code = 0
         /\ account'.verifyCode \in 0..MaxCodes /\ account'.resetCode \in 0..MaxCodes
         /\ calls[q].at \in 0..MaxClock
         /\ ~lost => NoSpentCode(account) /\ NoSpentCode(account')
         /\ account'.status = IF calls[q].kind = "verify" THEN "active"
                              ELSE account.status
         /\ calls[q].kind = "verify" =>
               /\ account.status = "pending_verification"
               /\ account.verifyCode = calls[q].code /\ account'.verifyCode = 0
         /\ calls[q].kind = "reset" =>
               account.resetCode = calls[q].code /\ account'.resetCode = 0
         /\ calls[q].kind \notin {"reset", "change"} =>
               /\ account'.password = account.password
               /\ account'.validAfter = account.validAfter
         /\ calls[q].kind \in {"reset", "change"} =>
               /\ account'.validAfter = calls[q].at
               /\ account'.password \in Passwords
               /\ account'.validAfter >= account.validAfter
         /\ account'.verifyCode # 0 => account'.verifyCode # account'.resetCode
         /\ Intended(account', calls[q].kind)
<1>0. /\ Typed /\ AccountOK /\ HoldsOK(q) /\ FreshOK(q) /\ calls[q].step = "write"
  BY DEF IInv, CallOK, SaveUpdate
<1>1. PICK row \in Row : row = Result(q)
  BY <1>0, ResultSound
<1>2. /\ Registered /\ account \in Row /\ calls[q].at \in 0..MaxClock
      /\ lost \in BOOLEAN
  BY <1>0, ResultSound DEF Typed
<1>3. account' = row
  BY <1>1, SaveWrites
<1>4. /\ UNCHANGED <<decision, lost>>
      /\ spent' = spent \cup ({calls[q].code} \ {0})
  BY <1>2 DEF SaveUpdate
<1>5. Fresh(q) /\ Entity(q) = row /\ (~lost => NoSpentCode(row))
  BY <1>0, <1>1 DEF FreshOK, Saving, Entity
<1>6. /\ calls[q].kind \in {"verify", "resend", "forgot", "reset", "change"}
      /\ calls[q].kind \in {"verify", "reset"} => calls[q].code \in 1..MaxCodes
      /\ calls[q].kind \notin {"verify", "reset"} => calls[q].code = 0
  BY <1>0, MailedType DEF HoldsOK, MailedFor
<1>7. ~lost => NoSpentCode(account)
  BY <1>0, <1>2 DEF AccountOK
<1>8. row.verifyCode \in 0..MaxCodes /\ row.resetCode \in 0..MaxCodes
  BY DEF Row
<1>9. Intended(row, calls[q].kind)
  BY <1>5 DEF Fresh
<1>10. row.verifyCode # 0 => row.verifyCode # row.resetCode
  BY <1>0, <1>1, ResultSound DEF Sound, MailedFor
<1> QED
  BY <1>0, <1>2, <1>3, <1>4, <1>5, <1>6, <1>7, <1>8, <1>9, <1>10 DEF Fresh, NoSpentCode

LEMMA SaveMaps ==
  ASSUME IInv, NEW q \in Requests, SaveUpdate(q)
  PROVE  Promise!Next
<1>1. CASE calls[q].stale
  <2>1. calls[q].step = "write" /\ Registered
    BY ResultSound DEF SaveUpdate
  <2>2. account' \in Row
    BY <2>1, SaveWrites, ResultSound
  <2>3. Promise!Tear
    BY <1>1, <2>1, <2>2 DEF Promise!Tear, Promise!Registered, Registered, SaveUpdate
  <2> QED
    BY <2>3 DEF Promise!Next
<1>2. CASE ~calls[q].stale
  <2>1. PICK row \in Row : row = account'
    BY <1>2, SaveIs
  <2>2. PICK code \in 0..MaxCodes : code = calls[q].code
    BY <1>2, SaveIs
  <2>3. PICK at \in 0..MaxClock : at = calls[q].at
    BY <1>2, SaveIs
  <2>4. PICK kind \in {"verify", "resend", "forgot", "reset", "change"} :
           kind = calls[q].kind
    BY <1>2, SaveIs
  <2>5. account \in Row /\ Registered /\ Promise!Registered
    BY <1>2, SaveIs DEF Registered, Promise!Registered
  <2>6. CASE kind = "verify"
    <3>1. /\ account.status = "pending_verification" /\ account.verifyCode = code
          /\ row = [account EXCEPT !.status = "active", !.verifyCode = 0]
      <4>1. /\ account.status = "pending_verification" /\ account.verifyCode = code
            /\ row.status = "active" /\ row.password = account.password
            /\ row.validAfter = account.validAfter /\ row.verifyCode = 0
            /\ row.resetCode = account.resetCode
        BY <1>2, <2>1, <2>2, <2>4, <2>6, SaveIs DEF Intended
      <4> QED
        BY <2>5, <4>1 DEF Row
    <3>2. /\ code \in 1..MaxCodes /\ (code \in spent => lost)
          /\ spent' = spent \cup {code} /\ UNCHANGED <<decision, lost>>
      <4>1. code \in 1..MaxCodes /\ spent' = spent \cup ({code} \ {0})
        BY <1>2, <2>2, <2>4, <2>6, SaveIs
      <4>2. {code} \ {0} = {code}
        BY <4>1
      <4>3. (~lost => code \notin spent) /\ UNCHANGED <<decision, lost>>
        BY <1>2, <3>1, SaveIs DEF NoSpentCode
      <4> QED
        BY <4>1, <4>2, <4>3
    <3>3. Promise!Verify
      BY <2>1, <2>5, <3>1, <3>2 DEF Promise!Verify, Promise!Spends
    <3> QED
      BY <3>3 DEF Promise!Next
  <2>7. CASE kind = "resend"
    <3>1. PICK new \in 1..MaxCodes : new = row.verifyCode
      <4>1. row.verifyCode \in 0..MaxCodes
        BY DEF Row
      <4>2. row.verifyCode # 0
        BY <1>2, <2>1, <2>4, <2>7, SaveIs DEF Intended
      <4> QED
        BY <4>1, <4>2
    <3>2. /\ account.status = "pending_verification"
          /\ row = [account EXCEPT !.verifyCode = new]
      <4>1. /\ account.status = "pending_verification"
            /\ row.status = account.status /\ row.password = account.password
            /\ row.validAfter = account.validAfter
            /\ row.resetCode = account.resetCode
        BY <1>2, <2>1, <2>4, <2>7, SaveIs DEF Intended
      <4> QED
        BY <2>5, <3>1, <4>1 DEF Row
    <3>3. /\ new # account.resetCode /\ (new \notin spent \/ lost)
          /\ UNCHANGED <<spent, decision, lost>>
      BY <1>2, <2>1, <2>4, <2>7, <3>1, SaveIs DEF NoSpentCode, Intended
    <3>4. Promise!MailVerification(new)
      BY <2>1, <2>5, <3>2, <3>3 DEF Promise!MailVerification
    <3> QED
      BY <3>4 DEF Promise!Next
  <2>8. CASE kind = "forgot"
    <3>1. PICK new \in 1..MaxCodes : new = row.resetCode
      <4>1. row.resetCode \in 0..MaxCodes
        BY DEF Row
      <4>2. row.resetCode # 0
        BY <1>2, <2>1, <2>4, <2>8, SaveIs DEF Intended
      <4> QED
        BY <4>1, <4>2
    <3>2. /\ account.status \in {"pending_verification", "active"}
          /\ row = [account EXCEPT !.resetCode = new]
      <4>1. /\ account.status \in {"pending_verification", "active"}
            /\ row.status = account.status /\ row.password = account.password
            /\ row.validAfter = account.validAfter
            /\ row.verifyCode = account.verifyCode
        BY <1>2, <2>1, <2>4, <2>8, SaveIs DEF Intended, Recoverable
      <4> QED
        BY <2>5, <3>1, <4>1 DEF Row
    <3>3. /\ new # account.verifyCode /\ (new \notin spent \/ lost)
          /\ UNCHANGED <<spent, decision, lost>>
      BY <1>2, <2>1, <2>4, <2>8, <3>1, SaveIs DEF NoSpentCode, Intended
    <3>4. Promise!MailReset(new)
      BY <2>1, <2>5, <3>2, <3>3 DEF Promise!MailReset
    <3> QED
      BY <3>4 DEF Promise!Next
  <2>9. ASSUME kind \in {"reset", "change"}
        PROVE  /\ row.validAfter = at /\ at >= account.validAfter
               /\ row.password \in Passwords /\ row.status = account.status
               /\ row.verifyCode = account.verifyCode
    BY <1>2, <2>1, <2>3, <2>4, <2>9, SaveIs DEF Intended
  <2>10. CASE kind = "reset"
    <3>1. PICK p \in Passwords : p = row.password
      BY <2>9, <2>10
    <3>2. /\ account.status \in {"pending_verification", "active"}
          /\ account.resetCode = code
          /\ row = [account EXCEPT !.password = p, !.validAfter = at,
                                   !.resetCode = 0]
      <4>1. /\ account.status \in {"pending_verification", "active"}
            /\ account.resetCode = code /\ row.resetCode = 0
        BY <1>2, <2>1, <2>2, <2>4, <2>10, SaveIs DEF Intended, Recoverable
      <4> QED
        BY <2>5, <2>9, <2>10, <3>1, <4>1 DEF Row
    <3>3. /\ code \in 1..MaxCodes /\ (code \in spent => lost)
          /\ spent' = spent \cup {code} /\ UNCHANGED <<decision, lost>>
      <4>1. code \in 1..MaxCodes /\ spent' = spent \cup ({code} \ {0})
        BY <1>2, <2>2, <2>4, <2>10, SaveIs
      <4>2. {code} \ {0} = {code}
        BY <4>1
      <4>3. (~lost => code \notin spent) /\ UNCHANGED <<decision, lost>>
        BY <1>2, <3>2, SaveIs DEF NoSpentCode
      <4> QED
        BY <4>1, <4>2, <4>3
    <3>4. Promise!ResetPassword(p, at)
      BY <2>1, <2>5, <2>9, <2>10, <3>2, <3>3
         DEF Promise!ResetPassword, Promise!Spends, Promise!Cuts
    <3> QED
      BY <3>4 DEF Promise!Next
  <2>11. CASE kind = "change"
    <3>1. PICK p \in Passwords : p = row.password
      BY <2>9, <2>11
    <3>2. row = [account EXCEPT !.password = p, !.validAfter = at]
      <4>1. row.resetCode = account.resetCode
        BY <1>2, <2>1, <2>4, <2>11, SaveIs DEF Intended
      <4> QED
        BY <2>5, <2>9, <2>11, <3>1, <4>1 DEF Row
    <3>3. UNCHANGED <<spent, decision, lost>>
      BY <1>2, <2>4, <2>11, SaveIs
    <3>4. Promise!ChangePassword(p, at)
      BY <2>1, <2>5, <2>9, <2>11, <3>2, <3>3
         DEF Promise!ChangePassword, Promise!Cuts
    <3> QED
      BY <3>4 DEF Promise!Next
  <2> QED
    BY <2>6, <2>7, <2>8, <2>10, <2>11
<1> QED
  BY <1>1, <1>2

LEMMA DeletionMaps ==
  ASSUME IInv, NEW q \in Requests, DeleteUpdate(q)
  PROVE  Promise!Next
<1>1. Registered /\ Sound(account) /\ clock \in 0..MaxClock
  BY DEF IInv, CallOK, HoldsOK, DeleteUpdate, AccountOK, Typed
<1>2. account \in Row
  BY <1>1 DEF IInv, Typed, Registered
<1>3. Promise!Cuts(clock)
  BY <1>1, <1>2 DEF Promise!Cuts, Sound, Row
<1>4. Promise!Delete(clock)
  BY <1>1, <1>3 DEF Promise!Delete, Promise!Registered, Registered,
                    DeleteUpdate, Commit
<1> QED
  BY <1>1, <1>4 DEF Promise!Next

LEMMA DecisionMaps ==
  ASSUME IInv, NEW q \in Requests, AdminUpdate(q)
  PROVE  Promise!Next
<1>1. /\ Registered /\ Sound(account) /\ clock \in 0..MaxClock
      /\ calls[q].kind \in {"suspend", "reactivate"}
  BY DEF IInv, CallOK, HoldsOK, AdminUpdate, AccountOK, Typed
<1>2. account \in Row
  BY <1>1 DEF IInv, Typed, Registered
<1>3. Promise!Cuts(clock)
  BY <1>1, <1>2 DEF Promise!Cuts, Sound, Row
<1>4. /\ AdminMayChange(account.status, Target(calls[q].kind))
      /\ UNCHANGED <<spent, lost>> /\ decision' = Target(calls[q].kind)
      /\ account' = [account EXCEPT
                       !.status = Target(calls[q].kind),
                       !.validAfter = IF calls[q].kind = "suspend" THEN clock ELSE @]
  BY DEF AdminUpdate, Commit
<1>5. CASE calls[q].kind = "suspend"
  <2>1. Promise!Suspend(clock)
    BY <1>1, <1>3, <1>4, <1>5 DEF Promise!Suspend, Promise!Registered, Registered,
                                  AdminMayChange, Target
  <2> QED
    BY <1>1, <2>1 DEF Promise!Next
<1>6. CASE calls[q].kind = "reactivate"
  <2>1. account' = [account EXCEPT !.status = "active"]
    BY <1>2, <1>4, <1>6 DEF Target, Row
  <2>2. Promise!Reactivate
    BY <1>1, <1>4, <1>6, <2>1 DEF Promise!Reactivate, Promise!Registered,
                                  Registered, AdminMayChange, Target
  <2> QED
    BY <2>2 DEF Promise!Next
<1> QED
  BY <1>1, <1>5, <1>6

\* The steps that the owner and the administrator do not see.
LEMMA OthersStutter ==
  ASSUME [Next]_vars, \A q \in Requests :
            ~(RegisterInsert(q) \/ SaveUpdate(q) \/ DeleteUpdate(q) \/ AdminUpdate(q))
  PROVE  UNCHANGED <<account, spent, decision, lost>>
BY DEF Next, vars, history, Tick, RegisterCheck, RegisterConflict, LoginRead,
       LoginSign, LoginRefuse, VerifyRead, ResendRead, ForgotRead, ResetRead,
       ChangeRead, Hashed, SaveSelect, LogoutRevoke, LogoutPurge, LogoutTooLate,
       AdminConflict, Identify, Authenticate, Unauthorised, AdminRead

\* Two requests that are cut where the code awaits, with entities read before
\* a bcrypt call and written after it, act on the account one after the other;
\* a save that is stale breaks this for what it writes itself and for no more.
THEOREM Refinement == Spec => ImplementsAccountLifecycle
<1>1. IInv /\ [Next]_vars => [Promise!Next]_Promise!vars
  <2> SUFFICES ASSUME IInv, [Next]_vars PROVE [Promise!Next]_Promise!vars
    OBVIOUS
  <2>1. CASE \E q \in Requests : \/ RegisterInsert(q) \/ SaveUpdate(q)
                                 \/ DeleteUpdate(q) \/ AdminUpdate(q)
    BY <2>1, RegistrationMaps, SaveMaps, DeletionMaps, DecisionMaps
  <2>2. CASE \A q \in Requests : ~(\/ RegisterInsert(q) \/ SaveUpdate(q)
                                   \/ DeleteUpdate(q) \/ AdminUpdate(q))
    BY <2>2, OthersStutter DEF Promise!vars
  <2> QED
    BY <2>1, <2>2
<1> QED
  BY <1>1, InitMaps, Invariance, PTL DEF Spec, ImplementsAccountLifecycle, Promise!Spec

\* What the abstract account keeps besides its rule.
Kept ==
  /\ 0 \notin spent /\ decision \in {"none", "active", "suspended"}
  /\ ~Registered => spent = {} /\ decision = "none"
  /\ Registered => /\ account \in Row
                   /\ account.verifyCode # 0 => account.verifyCode # account.resetCode

LEMMA KeptAlways == IInv => Kept
<1> SUFFICES ASSUME IInv PROVE Kept
  OBVIOUS
<1>1. Typed /\ AccountOK
  BY DEF IInv
<1>2. 0 \notin spent
  BY <1>1, MailedType
<1>3. Registered =>
        (account.verifyCode # 0 => account.verifyCode # account.resetCode)
  BY <1>1 DEF AccountOK, Sound, MailedFor
<1> QED
  BY <1>1, <1>2, <1>3 DEF Kept, AccountOK, Typed, Registered

LEMMA RuleStep ==
  ASSUME Kept, Kept', Promise!LifecycleRule, [Promise!Next]_Promise!vars
  PROVE  Promise!LifecycleRule'
<1> USE DEF Promise!LifecycleRule, Promise!Registered, Kept, Registered
<1>1. CASE Promise!Verify
  BY <1>1 DEF Promise!Verify, Promise!Spends, Row
<1>2. CASE Promise!Reactivate
  BY <1>2 DEF Promise!Reactivate, Row
<1>3. CASE Promise!Tear
  BY <1>3 DEF Promise!Tear
<1>4. ASSUME NEW code \in 1..MaxCodes,
             Promise!MailVerification(code) \/ Promise!MailReset(code)
      PROVE  Promise!LifecycleRule'
  BY <1>4 DEF Promise!MailVerification, Promise!MailReset, Row
<1>5. ASSUME NEW since \in 0..MaxClock, Promise!Suspend(since) \/ Promise!Delete(since)
      PROVE  Promise!LifecycleRule'
  BY <1>5 DEF Promise!Suspend, Promise!Delete, Row
<1>6. ASSUME NEW p \in Passwords, NEW since \in 0..MaxClock,
             Promise!ResetPassword(p, since)
      PROVE  Promise!LifecycleRule'
  BY <1>6 DEF Promise!ResetPassword, Promise!Spends, Row
<1>7. ASSUME NEW p \in Passwords, NEW since \in 0..MaxClock,
             Promise!ChangePassword(p, since)
      PROVE  Promise!LifecycleRule'
  BY <1>7 DEF Promise!ChangePassword, Row
<1>8. ASSUME NEW p \in Passwords, NEW since \in 0..MaxClock, NEW code \in 1..MaxCodes,
             Promise!Register(p, since, code)
      PROVE  Promise!LifecycleRule'
  BY <1>8 DEF Promise!Register
<1>9. CASE UNCHANGED Promise!vars
  BY <1>9 DEF Promise!vars
<1> QED
  BY <1>1, <1>2, <1>3, <1>4, <1>5, <1>6, <1>7, <1>8, <1>9 DEF Promise!Next

\* As long as no save was stale, no code that was used is accepted and the
\* administrator's latest decision stands until the owner deletes the account:
\* what the account promises, and so what the handlers keep.
THEOREM LifecycleKept == Spec => []Promise!LifecycleRule
<1>1. Promise!Init => Promise!LifecycleRule
  BY DEF Promise!Init, Promise!LifecycleRule, Promise!Registered
<1>2. Spec => []Kept
  BY KeptAlways, Invariance, PTL
<1>3. Spec => Promise!Init /\ [][Promise!Next]_Promise!vars
  BY Refinement DEF ImplementsAccountLifecycle, Promise!Spec
<1> QED
  BY <1>1, <1>2, <1>3, RuleStep, PTL
=============================================================================
