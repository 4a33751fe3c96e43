# LuminaUL backend: TLA+ specification

LuminaUL is a NestJS backend for university study groups: accounts and
sessions, publications that announce a group, the membership of the groups,
their chat over Socket.IO, reviews between students, automatic moderation of
what they write, and an administration panel. One Node.js process per server
runs everything; all of them share one PostgreSQL database (TypeORM, READ
COMMITTED). Events between modules go through `EventEmitter2`, in memory.

This directory models the parts of it whose correctness depends on who runs
between two steps of whom. Paths below are relative to `src/` of the
repository's backend (`src/modules/...` is `src/src/modules/...` in the tree).

## 1. Inventory

| Component | State it keeps | Operations | Modelled by |
|---|---|---|---|
| Study groups (`group-messaging/repositories/groups.repository.ts`, service, REST controllers) | rows of `groups`, `group_members`, `join_requests` | create, request to join, decide (REST and legacy route), leave, kick, transfer | `StudyGroup`, `GroupMembership` |
| Chat gateway and presence (`gateways/chat.gateway.ts`, `room-presence.ts`) | in memory: Socket.IO rooms, `RoomPresence`, `socketGroups`, typing timers | join/leave room, send, typing, reactions, read markers, four internal events, the 10 s sweep | `ChatRooms` |
| Chat messages (`messages.repository.ts`) | `group_messages`, reactions, read markers | insert with `clientMessageId`, react, mark as read, hide | partly: `ChatRooms` (insert), `ModerationTasks` (event, hiding) |
| Moderation (`moderation/`) | `moderation_tasks`, `moderation_logs`, status of the contents; retry timers in memory | enqueue, claim, judge (word list, then OpenAI), store verdict, reschedule, bootstrap | `ContentScreening`, `ModerationTasks` |
| Publications (`posts/`), reviews (`reviews/`) | `publications`, `reviews` | create, edit, delete | partly: `ModerationTasks` (how they meet moderation), `ContentReview` (edit and delete against reports and appeals) |
| Accounts and sessions (`auth-security/`) | `users`: status, password, one-time codes, `tokens_valid_after`; `revoked_tokens` | register, verify, resend, login, forgot, reset, change, logout, delete; the guard of every request | `AccountLifecycle`, `AuthSessions` |
| Administration, reports, appeals (`administration/`, `moderation.service.ts`) | `reports`, `appeals`, `audit_logs`, `notifications` | report, appeal, resolve both, suspend, reactivate, notify | `ContentReview`; suspensions in `AuthSessions` |
| Profile and availability (`user-profile/`) | `profiles`, `profile_skills`, `profile_interests`, `users.name`, `availabilities` | update the profile; create, edit, delete time slots | `StudentProfile` |
| Courses, health, configuration | read-only catalogue; none | queries | not modelled: no state changes |

How they interact: a publication creates its group; the group service emits
`group.member_removed` and `group.changed` to the gateway; contents emit
`content.created` to moderation; moderation and administration emit
`chat:message_hidden`, `content.visibility_changed` and notifications; every
HTTP call and every socket action asks `SessionService.validate`, which reads
the account.

What is hard: several transactions on one group (the row lock is the only
guard); state read before an `await` and used after it, in the gateway, the
worker and every read-modify-`save`; crashes that lose the event bus and the
timers but not the rows; leases, retries and late answers; Socket.IO closing a
tab in the middle of a handler. `PROJECT.json` lists each of these as a hazard,
at its line, with the properties that cover it.

What makes each component correct:

- groups: never more active members than seats; one leader, who is a member;
  nobody seated without an approval; decisions final; every call answered;
- chat: the three records of who is in a room agree; the screens show what the
  registry holds, and a closed tab stays in it in one way only; nobody who lost access
  is sent a message; a message is stored and announced at most once; whoever should not
  be there leaves in the end;
- moderation: task, verdict and content agree; a verdict never changes;
  approval without OpenAI only after every attempt failed; every content is
  queued in the end in spite of crashes; a worker leaves a claim behind only by an
  exception;
- accounts: nobody is let in before the address is verified; a barred account is
  given back by an administrator only; older sessions end with a reset, a change,
  a suspension; a code is used once; what a stale save can break is stated as such;
- reports and appeals: decided once, audited once, told truthfully; what was taken
  down stays down;
- profile: the four tables change together; slots overlap only by a race.

## 2. The modules

### StudyGroup

The abstract specification of a group: seats, a leader who holds one of them,
a waiting list. No transactions, no locks, no accounts.

### GroupMembership

The SQL transactions of `groups.repository.ts`. `step[t]` is the next statement
of transaction `t`, `call[t]` its arguments, `seen[t]` what `lock()` returned.

| Code | Actions |
|---|---|
| `create` | `Begin`, `Create` |
| `lock` (SELECT ... FOR UPDATE) | `Lock`, `LockNotFound` |
| `requestJoin` | `ReadMembership`, `ReadPending`, `CountMembers`, `InsertRequest` |
| `decide` | `ReadRequest`, `ReadApplicant`, `ReadMembership`, `CountMembers`, `Approve`, `Reject` |
| `requestGroup` (legacy route, outside the transaction) | `RequestGroup` |
| `removeMember` | `ReadActor`, `ReadTarget`, `RemoveMember` |
| `transfer` | `ReadActor`, `ReadTarget`, `Transfer` |
| an exception, a lost connection | `Rollback`, `Crash` |
| administrator, account owner | `Suspend`, `Reactivate`, `DeleteAccount` |

Every reading statement is a step of its own. The writes of a transaction and
its COMMIT are one step: under READ COMMITTED nobody sees them before. Reads of
rows the lock does not protect (`users.status`, `group_members` read by the
legacy route) see whatever is committed at that moment.

### ContentScreening

The abstract specification of moderation: what readers see of a content
(`display`), how far its moderation has come (`review`), the appeals that were won
and what an author who is editing has seen. A verdict and its effect are one step;
a content is judged at most once; no processes, queue, leases, retries or crashes
(but for `LoseEdits`, the edits a crash interrupts). `VerdictsRule` is what it
promises of messages, which nobody edits. What the code does and an author would
not expect is here too: saving an edit shows what was there when it was opened, and
brings a publication back that was removed meanwhile.

### ModerationTasks

Every server process has its event bus, its retry timers and one worker, whose
`pc` is the statement it is about to execute: claim a batch (`Claim`), take a
task (`NextTask`), read the content (`ReadContent`), the word list (`Lexical`),
OpenAI (`Semantic`), compare the lock token (`Verify`), store (`Commit`) or
reschedule (`Catch`, `Reschedule`). `Boot` and `Sweep` are
`onApplicationBootstrap`; `Crash` loses the memory and keeps the rows;
`LeaseExpires` and `RetryDue` are the clock. A text is clean, banned (the word
list finds it) or abusive (only OpenAI does): that is all the layers tell apart.
Authors publish, edit (`BeginEdit` reads, `WriteEdit` writes, `FinishEdit` also emits the
event) and remove; administrators remove and restore. A message or a review that cannot
be read again after its INSERT or UPDATE is stored without its event
(`PublishSilently`, `FinishEditSilently`). `ImplementsContentScreening` is the refinement: a
content is shown as its row says (`Display`), a log is a verdict, a finished task
without a log is dismissed, an unfinished one is queued (`Review`).

### ChatRooms

The room of one group. `chat` is the memory of the process (Socket.IO room,
presence registry, `socketGroups`, typing sets, timers) and what each client was
last told; `task[t]` a handler in progress, waiting for one answer of the
database.

| Code | Definitions |
|---|---|
| `execute`, `requireRoom` | `Receive`, `Refused`, `Hangup` |
| `joinRoom`, `typing`, reactions, read markers | `Authorise`, `ResumeOperation`, `Finish` (`Enter`, `Type`) |
| `sendMessage`, `MessagesRepository.insert` | `Send`, `ResumeOperation`, `Finish` |
| `leaveRoom`, `leave`, `RoomPresence.leave` | `LeaveRoom`, `Leave`, `Unregister`, `Out` |
| `pruneRoom` | `StartPrune`, `Prune`, `ResumePrune` |
| `handleDisconnect` | `Disconnect`, `Close` |
| `removeUser`; `hidden`, `visibilityChanged`, `changed` | `HandleRemoved`; `HandleEvent` |
| `sweepSessions` | `StartSweep`, `SweepNext`, `ResumeSweep`, `PruneListed` |
| the 4.5 s timer | `TypingExpires` |

A query is read when it is issued and answered later: a change in between could
as well have come before the query, so the reads keep all their outcomes with
half the steps. `await`s of memory only (`socket.join`, DTO validation) let no
other handler in. After a closed socket, `socket.join` does nothing (Socket.IO
4). Groups do not share any of this state, so one group is enough.

### AccountLifecycle

The abstract specification of an account: registration, verification, recovery,
change, suspension, reactivation and deletion, each in one step on the account as it
is at that moment. A torn save (`Tear`) may write anything, once; afterwards every
action is as before, except that a used code may have come back. `LifecycleRule` is
what it promises as long as nothing was torn.

### AuthSessions

One account: its row of `users`, the codes mailed, the tokens signed, the list of
revoked tokens, and requests cut at every `await`, the two of `SessionService.validate`
(is the token revoked? what does the row say now?) and those of `logout` included. `save()` of an entity is TypeORM's:
a SELECT of the row, then an UPDATE of the columns that differ from the entity
(`Selected`, `SaveUpdate`), so a request may put back what another one has changed.
`stale` marks a request whose row has changed since it was read, and `lost` that such
a request has saved.

| Code | Actions |
|---|---|
| `register`, `createWithProfile` | `RegisterCheck`, `RegisterInsert`, `RegisterConflict` |
| `login`, `enforceLoginPolicy`, `issueAccessToken` | `LoginRead`, `LoginSign`, `LoginRefuse` |
| `verifyEmail`, `resendCode`, `forgotPassword` | `VerifyRead`, `ResendRead`, `ForgotRead`, then `SaveSelect`, `SaveUpdate` |
| `resetPassword`, `changePassword` | `ResetRead`, `ChangeRead`, then `Hashed`, `SaveSelect`, `SaveUpdate` |
| `JwtAuthGuard`, `SessionService.validate` | `Identify` (`Identifies`: signature and revocation), then `Authenticate` or `Unauthorised` (`Admits`: what the row says) |
| `logout`, `revoke`, `purgeExpired` | `LogoutRevoke`, `LogoutTooLate`, then `LogoutPurge` (`Purged`) |
| `deleteAccount` | `DeleteUpdate` |
| `changeUserStatus` | `AdminRead`, `AdminUpdate`, `AdminConflict` |

The clock has several ticks in a second because a token's `iat` is a whole second and
`tokens_valid_after` is not: the check truncates it (`Second`).
`ImplementsAccountLifecycle` is the refinement: the same row, and `torn` is `lost`. A
request takes effect with its UPDATE, and not with what it has read before.

### ContentReview

One content after moderation has looked at it, of one of three types.

| Code | Actions |
|---|---|
| `completeTaskSuccess` (the verdict) | `Verdict` |
| `createReport`, `uq_reporter_target` | `ReportCheck`, `ReportInsert`, `ReportRefused` |
| `createAppeal`, `uq_appeals_one_per_log` | `AppealCheck`, `AppealInsert`, `AppealRefused` |
| `resolveReport`, `resolveAppeal` | `ReportRead`, `AppealRead`, `Decide`, `DecideConflict`, then `Announce` |
| `softDeleteContent`, `restoreContent` | `SoftDeleted`, `Restored` |
| the `notification.send` listener | `NoticeSaved`, `NoticeLost` |
| edit and delete of a publication | `PostEdit`, `PostDelete`, `PostSelect`, `PostUpdate` |
| update and removal of a review | `ReviewRead`, `ReviewRewrite`, `ReviewRemove` |

A transaction of an administrator is one step: its first statement is the conditional
UPDATE of the case, which locks it, and nothing reads what it has not committed. The
notice is another (`Announce`): the event is emitted after the transaction has been
awaited, and other requests run in between. `revived` remembers that a stale save has
brought back a publication that was removed. That there is one open report of a student is
what the partial unique index says (`IndexAllows`), so it is not stated as a property.

### StudentProfile

The page of one student. The transaction of `updateProfile` writes `profiles` first and
so holds that row to its end (`ProfileFree`); its DELETEs see what is committed when
they run. Slots are checked by a query and written by a later statement.

| Code | Actions |
|---|---|
| `updateProfile` | `UpdateProfile`, `LockProfile`, `RenameAccount`, `ReplaceLists`, `CommitProfile`, `RollBack` |
| `save()` of the account in `auth-security` | `AccountRead`, `AccountSelect`, `AccountSave` |
| `createAvailability`, `assertSlotAvailable` | `CreateCheck`, `CreateInsert` |
| `updateAvailability` | `EditRead`, `EditCheck`, `EditFind`, `EditWrite`, `EditInsert` |
| `deleteAvailability` | `DeleteRead`, `SlotDelete` |

`EditFind` is the SELECT of `save()`: a slot deleted before it is inserted again. The
hours of a slot are always written (`HH:mm` never equals the `HH:mm:ss` of the column),
the day only when it differs.

`MC*.tla` add the symmetry sets for TLC. Definitions marked "Faulty variant" are
used by no specification: each is a plausible bug of the definition below it,
kept to show that a property notices it.

## 3. The runs

| Run | Bounds | What it shows |
|---|---|---|
| `MCGroupMembership` | 3 users, 1 group of 2 seats, 2 request ids, 2 transactions, 1 account unavailable | `TypeOK`, `CapacityRespected`, `OneSeatedLeader`, `PendingAreOutsiders` |
| `MCGroupSteps` | 2 users, 2 groups, 1 request id, 2 transactions, fairness | `SeatNeedsApproval`, `DecisionsAreFinal`, `RemovalIsAuthorised`, `EveryCallEnds`, and `ImplementsStudyGroup` (refinement) |
| `MCModerationWorkers` | 1 message of each of 3 texts, 3 processes, 3 attempts, 1 crash, one failing statement | `VerdictsMatchTasks`, `MessagesScreened`, `DegradedAfterRetries`, `VerdictIsFinal` under expired leases, take-overs and a failure |
| `MCModerationFaults` | 1 review, 1 publication, 1 process, batch of 1, one failing statement, one crash, one edit | `ImplementsContentScreening` (refinement) with partial failures |
| `MCModerationLiveness` | 1 message, 1 review, 1 process, batch of 2, 1 crash, one failing statement, every outcome of OpenAI, fairness | `EveryContentQueued`, `ClaimsAreReleased` |
| `MCChatRooms` | 2 users, 2 tabs, 1 handler and the sweep at once, 1 failing query or lost session or membership | `RecordsAgree`, `ScreensAreCurrent`, `AnnouncedOnce`, `OutsidersHearNothing` |
| `MCChatSweep` | 1 user, 2 tabs, joins, leaves and the sweep, 1 trouble, fairness | `OutsidersLeave`, `OnlyLateJoinsLinger` |
| `MCAuthSessions` | 2 requests, 2 passwords, 4 ticks of half a second, tokens of 1 s, 2 codes, 2 tokens | `ActiveMeansVerified`, `ClosedSessionsRejected`, `SessionsCut`, `ImplementsAccountLifecycle` (refinement), `OnlyStaleSavesRestore`, `CodesSpentOnce`, `PasswordsAreAuthorised` |
| `MCContentReview` | each type of content, 2 calls, 2 reporters, 2 reports | `OneDecisionPerCase`, `NoticesAreTrue`, `RemovalsAreReal`, `OnlyStaleWritesRepublish` |
| `MCStudentProfile` | 2 calls, 2 names, lists of one entry out of two, 2 days, 2 hours, 3 slots | `ProfileChangesTogether`, `OnlyRacesOverlap` |

Why these bounds are enough for what they ask. Groups: a race for the last seat
needs two applicants and a leader, two seats, and two transactions; the second
group is needed only for a call that names a request of another group. What the
bounds leave out is covered by the proofs of section 5. Moderation: a take-over
needs two processes, and a take-over of a take-over three; three attempts are
the value of the schema; "recoverable" failures are for the run with workers,
"noKey" and "permanent" for the one with liveness. In all three the statement that fails
(`MaxFaults`) may be any: the loading of the word list, the reading of the content, the
storing of a verdict, the insert of a task, the rereading of a message. So
`DegradedAfterRetries` counts a verdict that could not be stored as a failed attempt,
which the code does (`moderation-task-worker.service.ts:153`); `MessagesScreened` lets a
banned word through after a failure only; and `EveryContentQueued` promises nothing after
one (the next start would find the content, and nobody has promised a start). A batch of
two makes a worker hold a task while another one throws: `ClaimsAreReleased` admits that
such an exception in `processBatch` leaves the claims of the rest behind, and nothing else
does. Chat: with two tabs a user can have one or two of them, and there can be somebody else to be told; the sweep and one request already
interleave inside each other's pruning. `MCChatSweep` has no symmetry, as TLC wants it for liveness. With two requests at once and no sweep
or trouble (`Calls = {c1, c2}`, `MaxTroubles = 0`) the same properties hold too;
such a run is not kept: it asks nothing that `MCChatRooms` does not.

Accounts: a stale save needs the request that saves and one that writes meanwhile;
two codes are one of each purpose, or a code and the one that replaces it. A token of 1 s
signed at tick 0 has expired at tick 2, and a second session, signed at tick 2, can log out
at tick 3 and purge the row of the first (`ClosedSessionsRejected`); a token of tick 0 or 1
whose request passed `Identify` before it expired meets a cut at tick 2 or 3
(`SessionsCut`, which speaks of what the row admits and not of the signature). Two open sessions at
once are more than the run can enumerate (`MaxSessions`: a token is signed when fewer are within
their life). The clock runs only once a code has been used (before that nobody is let in);
with `ClockStops`, as in the run, it stops when a save writes over a newer row (what is said
of times is said of histories without one). The theorems hold for every number of sessions and
for both values of `ClockStops`. Reports: two administrators on one case, or one and the
author; two reports, so that one can be closed and another opened. Profile: lists of
one entry make a mixture of two lists visible; two hours of two days make slots that
are contiguous, equal or apart. A second INSERT of one deleted slot needs a third call:
three calls and two slots satisfy the same properties, in a run that is not kept.

Runs of moderation have `CHECK_DEADLOCK FALSE`: the number of contents, crashes
and edits is bounded and the server is idle once all are spent; so has `MCContentReview`,
where the content may be deleted and every case closed. The other models
never stop: a student can always make one more call, the sweep always comes back.

### Disagreements with the repository's own statements

Each of these runs ends in a counterexample.

| Run | Property, and the text it is taken from | The trace |
|---|---|---|
| `MCModerationWakeup` | `EveryTaskJudged`, `content-moderation.service.ts:18` | a wake-up that arrives while a batch runs returns at once (`moderation-task-worker.service.ts:38`); the batch has already claimed, and the new task waits for the next publication or restart |
| `MCModerationNewText` | `NewTextIsReviewed`, `ReviewsServiceImpl.ts:88` | the event of an edited review finds the finished task of version 1 (`ON CONFLICT DO NOTHING`) |

Seen while modelling, without a run of their own. The first group is behaviour that
the properties above admit by name, because the code has it:

- `password-recovery.service.ts:54` and `:64` save an entity read before two calls of
  bcrypt. A suspension or a deletion committed in between is overwritten: the account is
  active again, against the comments at `password-recovery.service.ts:13` and
  `account-verification.service.ts:28`. `OnlyStaleSavesRestore` says that nothing else
  does it.
- Two requests that load the account before either saves both accept its one-time code,
  which `one-time-code.service.ts:48` calls "un solo uso"; `CodesSpentOnce` covers every
  other order.
- A login with the old password that reads the row before a reset is saved, or is signed
  in the same second as the reset, stays open after it: `tokens_valid_after` is truncated
  to the second (`access-token.checks.ts:75`). In the same way a token of the second of a
  suspension is good again after the reactivation. `SessionsCut` is about earlier seconds.
- With three requests at once a stale save can leave a new password with an old
  `tokens_valid_after`.
- `posts.repository.ts:187`: the `save()` of an edit puts `deleted_at` and `status` back
  to what it had read, so a publication that an administrator has deleted reappears
  (`admin.repository.ts:359` says it does not revive). `ReviewsRepositoryImpl.ts:51` writes
  back the status of a review although line 47 speaks of editable fields only.
- `user-profile.service.ts:91` and `:113` check for overlaps and write later, with no
  constraint behind: two calls at once store overlapping slots, and an edit inserts again
  a slot that was deleted meanwhile. A stale `save()` of the account also brings its
  former name back, so that `users.name` and `profiles.name` differ
  (`user-profile.repository.ts:84`: "cambian juntos").

The second group:

- A tab that closes while `joinRoom` waits is registered afterwards
  (`chat.gateway.ts:324`, after the `disconnect` of line 182), and nothing removes it: the
  user looks online until the process restarts. `OnlyLateJoinsLinger` says that this is the only
  way for a closed tab to stay; `ScreensAreCurrent` says no more than that the screens show
  what the registry and the timers hold, ghosts included. A tab whose `joinRoom` had passed the
  membership check enters after the removal was handled (`chat.gateway.ts:430`), against
  `group-messaging/README.md:122`; `OutsidersLeave` shows that the sweep ends it.
- The notice of a removal goes out after the transaction (`admin.service.ts:177`), and by then,
  or later, the stale save of `posts.repository.ts:187` may have brought the publication back:
  `RemovalsAreReal` admits that and nothing else.
- An exception in `processBatch` (`moderation-task-worker.service.ts:53`) ends the batch, and the
  tasks it had claimed stay in 'processing' although the process goes on
  (`ClaimsAreReleased`).
- An appeal that is approved when the content is deleted restores no row, and the author
  is still told that it "vuelve a estar visible" (`administration.constants.ts:45`).
- The version of a content is always 1, so it has one moderation log and one appeal in
  its life.
- `group_members` has UNIQUE(group_id, user_id): who comes back overwrites `joined_at` and
  `left_at`, and the history that `GroupMembershipClientImpl` calls "tabla histórica" is lost.
- `reconcileStaleTasks` runs once per start and frees only leases that have run out, so a
  restart within 30 s leaves the claims of the crashed process in 'processing' until
  another restart.
- The lock token is compared by a plain SELECT that the writes do not repeat
  (`moderation.repository.ts:171`), so a worker that has just lost its claim may store its
  verdict, after which the other one meets `uq_moderation_logs_task` (`VerdictIsFinal`
  holds thanks to that index).
- `transfer` reads the account of the new leader without a lock.

## 4. Fairness

- Groups: `WF` of every statement, `SF` of `Lock`. A statement whose turn has come
  is executed; PostgreSQL queues the waiters of a row lock, so a waiter is not
  overtaken for ever although the lock is taken and freed again and again.
- Moderation: `WF` of the worker, the event handlers, the timers, the clock and
  `Boot`: the event loop runs what is queued, time passes, an operator restarts a
  crashed server.
- Chat: `WF` of every handler's continuation, of the typing timers, of the removal
  event and of the sweep: PostgreSQL answers or fails, the event loop goes on.

Students, authors, administrators, clients and crashes owe nothing anywhere.

## 5. What is proved

TLAPS checks these theorems for every value of the constants: any number of
requests, transactions, students, codes, tokens, slots. The assumptions are those the
modules name: `Users` is finite, the `No...` values are outside their sets, capacities
are positive (`GroupMembership`); bounds are naturals, `None`, `NoPassword` and
`NoAccount` are outside their sets (`BoundsAssumption`, `AccountAssumption`); the three
kinds of content are disjoint, and their set is finite, limits are positive,
`NoProcess`, `NoContent`, `NoLog` and `NoEdit` are outside their sets (`ModerationTasks`); the
sweep is no client's call, `NoUser`, `NoSocket`, `NoMessage` are outside their sets, the
bound is a natural (`ChatRooms`).

| Module | Theorems, and the property each one states |
|---|---|
| `GroupMembership_proofs` | `TypeCorrectness`, `CapacitySafety`, `LeadershipSafety`, `PendingSafety`: the four invariants of `MCGroupMembership`; `DeadlockFreedom` (`NoDeadlock`, defined there) |
| `GroupRefinement_proofs` | `DecisionFinality`, `SeatAuthority`, `RemovalAuthority` (action properties of `MCGroupSteps`), `Refinement` (`ImplementsStudyGroup`) |
| `ModerationTasks_proofs` | `TypeCorrectness`, `VerdictsMatch` (`VerdictsMatchTasks`), `VerdictFinality` (`VerdictIsFinal`), `DegradedNeedsRetries` (`DegradedAfterRetries`, when OpenAI answers or is only unreachable), `ClaimRelease` (`ClaimsAreReleased`), `Screening` (`MessagesScreened`) |
| `ModerationRefinement_proofs` | `Refinement` (`ImplementsContentScreening`), `VerdictsTakeEffect` (`VerdictsRule` of `ContentScreening`), `ContentsAreReached` (`NothingForgotten`, defined there) |
| `ChatRooms_proofs` | `TypeCorrectness`, `RecordsStayTogether` (`RecordsAgree`), `CurrentScreens` (`ScreensAreCurrent`), `LateJoinsOnly` (`OnlyLateJoinsLinger`), `NoGhostsNoRepeats` (`AnnouncedOnce`), `NoOutsiderHears` (`OutsidersHearNothing`) |
| `AuthSessions_proofs` | `TypeCorrectness`, `VerifiedFirst` (`ActiveMeansVerified`), `LogoutHolds` (`ClosedSessionsRejected`), `OlderSessionsCut` (`SessionsCut`), `LatestDecision` (`DecisionsHold`, which no run checks), `Restorations` (`OnlyStaleSavesRestore`), `AuthorisedPasswords` (`PasswordsAreAuthorised`), `SingleUse` (`CodesSpentOnce`), `Refinement` (`ImplementsAccountLifecycle`), `LifecycleKept` (`LifecycleRule` of `AccountLifecycle`) |
| `ContentReview_proofs` | `TypeCorrectness`, `DecidedOnce` (`OneDecisionPerCase`), `NoticeTruth` (`NoticesAreTrue`), `RemovalTruth` (`RemovalsAreReal`), `Republication` (`OnlyStaleWritesRepublish`) |
| `StudentProfile_proofs` | `TypeCorrectness`, `ProfileUnity` (`ProfileChangesTogether`), `OverlapsNeedRaces` (`OnlyRacesOverlap`) |

Groups. "No more members than seats" is not inductive: the step that seats
somebody does not look at the seats, it relies on a count made statements earlier.
`IInv` says what each transaction may rely on, by the statement it has reached
(`Known`), and why it still holds: whoever is past `lock()` owns the row lock of
its group (`LockOK`), so two transactions past it work on different groups
(`LockExcludes`) and nobody else writes the rows it has read. `CallOK` ties
statements to calls; `NewGroupsEmpty` and `RowOwners` are the facts about unused
rows that the counting needs. Steps are proved once per shape, and then per action: a
step that only reads (`QuietStep`), one that ends the transaction with a change of
its own group (`CommitStep`), a rollback. Capacity at a commit is a statement
about cardinalities (`FiniteSetTheorems`): adding one outsider to fewer than
`capacity` members. The refinement maps `seated` to the active members and
`waiting` to the owners of pending requests; every commit is one step of
`StudyGroup`, whose guards are exactly what `Known` remembers, and every other
step is a stutter (`OnlyCommitsWrite`). `DeadlockFreedom` is the safety half of
`EveryCallEnds`: a lock belongs to a call of its group that is past `lock()`
(`LocksHeld`), so whoever is waited for waits for nobody, and the rest takes fairness.

Moderation. A task may be claimed again while the worker that lost it goes on, so the
row of a task says nothing about who works on it. `IInv` splits what is true into the
tables (`TasksOK`: a token or a lease only on a claimed task, a verdict only on a
finished one), what a process that is down has lost (`DownOK`) and what a worker may
still believe (`HandOK`): the attempts it remembers are at most those of the row, and
the same while its token stands (`Remembers`). A step of one worker preserves the
beliefs of the others because it never gives them a token and never takes attempts back
(`Leaves`). `Settled`, that a step leaves finished tasks and stored verdicts alone, gives
`VerdictIsFinal`. On top of `IInv`, `Exhausted` (a degraded approval was decided at the last
attempt) carries `DegradedAfterRetries`, which is about an OpenAI that answers or is only
unreachable: without the key or on a permanent failure a text is approved at once. `JudgedOK`
with `UnjudgedOK` (what the layers have found of the text in hand; nobody but the worker and
deletions touches a message) carry `MessagesScreened`; the clause on banned words, which a word
list that cannot be loaded lets through, holds until the first statement fails, and the others
in every behaviour. `ClaimsAreReleased` follows from `IInv` action by action: a worker that
turns away has finished its task, put it off or lost it, unless it has thrown.

For the refinement a worker's belief must reach further: the task it works on exists
(`Remembers`) and, by `RowsShown`, what is there is published or hidden and so is what an editor
has seen. Every step of the queue is then a stutter or one step of `ContentScreening`: an
insert of tasks is `Queue`, the discarding UPDATE `Dismiss`, the transaction that stores the
log `Judge`, also when its worker has lost the claim in between, because the log it inserts
is the first. `VerdictsRule` is proved of the abstract steps and carried over. `NothingForgotten`
is the safety half of `EveryContentQueued`: a visible content without a task is announced on
some bus, or a crash has happened and some process is down or about to sweep. It needs that no
statement has failed (a handler whose insert fails drops its event until the next start) and
that a start after a crash finds no more orphans of a kind than its limit, the 20 of
`findUnmoderatedContentIds` (`SweepsSuffice`: an orphan is a visible content without a task at
the moment of the sweep, and there may be any number of contents; with more orphans, the rest
waits for another start). That
tasks stay (`TasksStay`) it takes from the refinement.

Chat. `MemoryOK` describes a value of `chat` for given connected sockets; it is more
than `RecordsAgree` and `ScreensAreCurrent`: whoever is out of the room has heard nothing,
whoever types is registered and has a timer, every socket in memory belongs to somebody.
The operations of the registry keep it (`LeaveOK`, `EnterOK`, `TypeOnOK`, `TypeOffOK`,
`ExpiryOK`, `CloseOK`), whichever handler calls them. What handlers carry over an `await` is
`HandlerOK`. `MessagesOK` adds to `AnnouncedOnce` that a handler on its way to an
announcement (`Announcing`) is the only one with that message, which is stored and not yet
announced. `OutsidersOK` says why pruning is enough although the room changes under it:
whoever was astray when the message was stored and still is in the room is among the
sockets the pruning has still to look at, or the answer under way is against him
(`Catches`). A pruning that ends with nobody left to look at (`PruneFinishes`) therefore
leaves no such outsider. For `OnlyLateJoinsLinger` each operation of the registry is shown to
register no socket but the one of its own join (`EnterRegisters`, `PruneRegisters`), and
`Close` to take its sockets out (`CloseRegisters`).

Accounts. The row says little by itself, because a save may write anything its
request has held since before. `IInv` therefore describes the requests: what all of them
hold, stale or not, is made of codes mailed for the right purpose and of times that have passed
(`Sound`, which is also what `TypeOK` says of the row); a request whose row has not changed since it was read holds an entity that
differs from the row exactly as its handler has made it differ (`Fresh`, with `Result`
for the row an UPDATE is going to leave); and before the first verification nobody
holds another status (`UnverifiedOK`). From there the row is described only for
histories without a lost update (`AccountOK`). Steps are proved by shape: one request
moves and the row stays (`MoveOK`), a commit (`CommitOK`, where every other request
either keeps its facts or becomes stale), a session or the clock (`SessionOK`). For the
refinement `Fresh` also says what each handler has found in the row and leaves of its codes
(`Intended`), so that the row an UPDATE of a fresh request leaves is exactly what the
abstract action makes of the row as it is then (`SaveIs`, `SaveMaps`): the time
between the read and the UPDATE does not show. Every other step is a stutter
(`OthersStutter`). `LifecycleKept` carries the rule of the abstract account over
(`RuleStep`).

Reports and appeals. `OneDecisionPerCase` and `NoticesAreTrue` are inductive together
with `CallsOK`: a call decides an existing case with an outcome of its kind, and one that is
about to announce has a committed decision and, if it removes, a row that is deleted or was
brought back (`revived`). `FreshCopies` says what a copy that is not
stale has in common with the row. `RemovalsAreReal` rests on `StaysRemoved`: no step but a
stale save of a publication gives a deleted row back, whatever runs between the commit and the
notice or after it.

Profile. `Alone` is what the row lock gives: at most one transaction past its first
UPDATE; `DeletesAll`, that its DELETE has met every row of the list. For the slots,
`ChecksHold` says that a call that nobody has overtaken may still rely on its check.

Only model-checked: liveness and fairness (`EveryCallEnds`, `EveryContentQueued`,
`OutsidersLeave`), which are beyond the prover; of the first two, what has
to hold in every state for them to be possible is proved.

## 6. Not modelled

- Who may review whom and the unique pair of a review; filters, paging, metrics and
  listings; marking a notice as read and the notice of a reactivation.
- Wrong passwords, wrong codes, expired codes and bcrypt itself: such a request ends with
  an error and changes nothing, so it is a call that is not made.
- Reactions and read markers as rows; history and listing queries. The
  gateway's handlers for them are there (`"act"`) and end like a message.
- The status of a message when it is announced: a message that moderation hides
  while `sendMessage` prunes the room may be announced after its hiding.
- Text normalisation of the word filter, DTO validation, rate limits (a refused
  request changes nothing and is `Refused`), e-mail, formatting, logging.
- A restart of the process in `ChatRooms` (everything there is in memory and the
  clients reconnect) and several servers sharing a room: the code has no
  Socket.IO adapter between servers.
- Courses, health, configuration: no state changes.

## 7. Plan

Order of the work, the most important behaviour first.

1. Done: `StudyGroup`, `GroupMembership`, `AccountLifecycle`, `AuthSessions`,
   `ContentReview`, `StudentProfile`, `ContentScreening`, `ModerationTasks`, `ChatRooms` and
   their proofs.
2. `Messages`: reactions and read markers as rows; composition of `ChatRooms` with the
   status of the messages, for the order of announcements and hidings.
3. `PeerReviews`: eligibility from the history of memberships and the unique pair of a
   review.
