--------------------------- MODULE ModerationTasks ---------------------------
(***************************************************************************)
(* Automatic moderation: the contents that students publish, the           *)
(* moderation_tasks queue, and in every server process the in-memory event *)
(* bus, the retry timers and the worker, whose processBatch claims tasks,  *)
(* reads each content, judges its text and stores the verdict, with an     *)
(* await (a point where everything else may run) between two steps.        *)
(*                                                                         *)
(* Time is abstract: a retry becomes due and a 30 s lease runs out at any  *)
(* moment. A lock token (a fresh UUID) is represented by the process that  *)
(* claimed with it: a process forgets its earlier claims before it makes   *)
(* new ones, so its name is as good as the UUID.                           *)
(***************************************************************************)
EXTENDS Naturals, FiniteSets

CONSTANTS Messages, Reviews, Publications, \* ids of the three kinds of content
          Processes,    \* server processes sharing the database
          Texts,        \* what the layers can find in a text
          Answers,      \* how OpenAI may respond, a subset of OpenAiAnswers
          MaxAttempts,  \* moderation_tasks.max_attempts
          BatchSize,    \* tasks claimed by one processBatch
          SweepLimit,   \* orphans of one kind enqueued by one start
          MaxCrashes, MaxFaults, MaxEdits, \* bounds on what the environment does
          NoProcess, NoContent, NoLog, NoEdit

Editable == Reviews \cup Publications
Contents == Messages \cup Editable

\* A banned word, harassment or hatred that only OpenAI recognises, or nothing.
Findings == {"clean", "banned", "abusive"}

\* "answer": a verdict; "noKey": OPENAI_API_KEY is not set; "recoverable":
\* 429, 5xx, network error or 5 s timeout; "permanent": any other failure.
OpenAiAnswers == {"answer", "noKey", "recoverable", "permanent"}

ASSUME KindsAssumption ==
  /\ Messages \cap Editable = {} /\ Reviews \cap Publications = {}
  /\ NoContent \notin Contents /\ IsFiniteSet(Contents)
ASSUME TextsAssumption == "clean" \in Texts /\ Texts \subseteq Findings
ASSUME AnswersAssumption == Answers \subseteq OpenAiAnswers
ASSUME ProcessesAssumption == NoProcess \notin Processes
ASSUME LimitsAssumption ==
  /\ {MaxAttempts, BatchSize, SweepLimit} \subseteq Nat \ {0}
  /\ {MaxCrashes, MaxFaults, MaxEdits} \subseteq Nat

VARIABLES row,     \* publications, group_messages, reviews: one row per content
          edit,    \* an edit between its read and its write
          task,    \* moderation_tasks: one row per content (version is always 1)
          log,     \* moderation_logs, unique per task
          restored, \* contents whose author won an appeal against the log
          bus,     \* 'content.created' handlers of each process, by stage
          timers,  \* pending retry timers of each process
          up,      \* is the process down, booting or serving requests?
          pc,      \* the next step of its worker
          batch,   \* claimed tasks the worker has not looked at yet
          work,    \* the task it is processing
          spent    \* crashes, faults and edits so far

database == <<row, task, log, restored>>
worker == <<pc, batch, work>>
vars == <<database, edit, bus, timers, up, worker, spent>>

NoRow == [status |-> "none", deleted |-> FALSE, text |-> "clean"]
NoTask == [status |-> "none", attempts |-> 0, due |-> TRUE, leased |-> FALSE,
           token |-> NoProcess]
NoWork == [task |-> NoContent, attempts |-> 0, text |-> "clean",
           decision |-> "none", semantic |-> "none", caught |-> FALSE]

Init ==
  /\ row = [c \in Contents |-> NoRow]
  /\ edit = [c \in Contents |-> NoEdit]
  /\ task = [c \in Contents |-> NoTask]
  /\ log = [c \in Contents |-> NoLog]
  /\ restored = {}
  /\ bus = [p \in Processes |-> {}]
  /\ timers = [p \in Processes |-> {}]
  /\ up = [p \in Processes |-> "down"]
  /\ pc = [p \in Processes |-> "idle"]
  /\ batch = [p \in Processes |-> {}]
  /\ work = [p \in Processes |-> NoWork]
  /\ spent = [crashes |-> 0, faults |-> 0, edits |-> 0]

Visible(c) == row[c].status # "none" /\ ~row[c].deleted
Serving(p) == up[p] = "serving"

\* Bound: one more failing statement of the database.
Fault == /\ spent.faults < MaxFaults
         /\ spent' = [spent EXCEPT !.faults = @ + 1]

-----------------------------------------------------------------------------
(* Authors and administrators. *)

\* An INSERT with status 'published', then 'content.created' on the bus.
Publish(c, p, v) ==
  /\ Serving(p) /\ row[c].status = "none"
  /\ row' = [row EXCEPT ![c] = [status |-> "published", deleted |-> FALSE, text |-> v]]
  /\ bus' = [bus EXCEPT ![p] = @ \cup {[stage |-> "created", content |-> c]}]
  /\ UNCHANGED <<edit, task, log, restored, timers, up, worker, spent>>

\* A chat message or a review is read again after its INSERT; if that read
\* fails the event is never emitted, and a retry finds the row already there.
PublishSilently(c, p, v) ==
  /\ Serving(p) /\ row[c].status = "none" /\ c \in Messages \cup Reviews
  /\ Fault
  /\ row' = [row EXCEPT ![c] = [status |-> "published", deleted |-> FALSE, text |-> v]]
  /\ UNCHANGED <<edit, task, log, restored, bus, timers, up, worker>>

\* findOwnReview, or the read of PostsRepository.edit.
BeginEdit(c, p) ==
  /\ Serving(p) /\ Visible(c) /\ c \in Editable
  /\ edit[c] = NoEdit /\ spent.edits < MaxEdits
  /\ edit' = [edit EXCEPT ![c] = [by |-> p, status |-> row[c].status]]
  /\ spent' = [spent EXCEPT !.edits = @ + 1]
  /\ UNCHANGED <<database, bus, timers, up, worker>>

\* Faulty variant: an edit publishes what was hidden.
FinishEditPublishes(c, v) ==
  /\ edit[c] # NoEdit
  /\ row' = [row EXCEPT ![c] = [status |-> "published",
                                deleted |-> @.deleted /\ c \in Reviews,
                                text |-> v]]
  /\ bus' = [bus EXCEPT ![edit[c].by] =
               IF row'[c].deleted THEN @
               ELSE @ \cup {[stage |-> "created", content |-> c]}]
  /\ edit' = [edit EXCEPT ![c] = NoEdit]
  /\ UNCHANGED <<task, log, restored, timers, up, worker, spent>>

\* The write takes the status that was read back to the row; save() of a
\* publication takes deleted_at back too (save reloads the row and writes
\* what differs from the entity; both at once here).
WriteEdit(c, v) ==
  /\ edit[c] # NoEdit
  /\ row' = [row EXCEPT ![c] = [status |-> edit[c].status,
                                deleted |-> @.deleted /\ c \in Reviews,
                                text |-> v]]
  /\ edit' = [edit EXCEPT ![c] = NoEdit]
  /\ UNCHANGED <<task, log, restored, timers, up, worker>>

FinishEdit(c, v) ==
  /\ WriteEdit(c, v)
  /\ bus' = [bus EXCEPT ![edit[c].by] =
               IF row'[c].deleted THEN @
               ELSE @ \cup {[stage |-> "created", content |-> c]}]
  /\ UNCHANGED spent

\* A review is read again after its UPDATE too.
FinishEditSilently(c, v) ==
  /\ WriteEdit(c, v)
  /\ c \in Reviews
  /\ Fault
  /\ UNCHANGED bus

\* Logical deletion by the author ('hidden' for a publication, 'deleted' for
\* a review) or by an administrator ('inactive', 'deleted').
Remove(c, status) ==
  /\ Visible(c)
  /\ status \in (IF c \in Publications THEN {"hidden", "inactive"} ELSE {"deleted"})
  /\ row' = [row EXCEPT ![c].deleted = TRUE, ![c].status = status]
  /\ UNCHANGED <<edit, task, log, restored, bus, timers, up, worker, spent>>

\* An administrator approves the author's appeal: what is hidden and not
\* deleted is published again. A verdict is appealed once.
Restore(c) ==
  /\ log[c] # NoLog /\ c \notin restored
  /\ restored' = restored \cup {c}
  /\ row' = IF Visible(c) /\ row[c].status = "hidden"
            THEN [row EXCEPT ![c].status = "published"] ELSE row
  /\ UNCHANGED <<edit, task, log, bus, timers, up, worker, spent>>

-----------------------------------------------------------------------------
(* Waking the worker up. *)

\* INSERT ... ON CONFLICT DO NOTHING.
Enqueued(cs) ==
  [c \in Contents |-> IF c \in cs /\ task[c].status = "none"
                      THEN [task[c] EXCEPT !.status = "pending"] ELSE task[c]]

\* processBatch returns at once while another batch is running. Its callers
\* are the handler of 'content.created', the timers and the bootstrap; nothing
\* emits 'moderation.wakeup'.
ProcessBatch(p) ==
  IF pc[p] = "idle" THEN pc' = [pc EXCEPT ![p] = "claim"] ELSE UNCHANGED pc

HandleCreated(p, c) ==
  LET created == [stage |-> "created", content |-> c]
  IN  /\ created \in bus[p]
      /\ task' = Enqueued({c})
      /\ bus' = [bus EXCEPT ![p] = (@ \ {created}) \cup {[stage |-> "wake", content |-> c]}]
      /\ UNCHANGED <<row, log, restored, edit, timers, up, worker, spent>>

\* The handler logs the error of enqueueTask; the event is gone.
HandleCreatedFails(p, c) ==
  LET created == [stage |-> "created", content |-> c]
  IN  /\ created \in bus[p]
      /\ Fault
      /\ bus' = [bus EXCEPT ![p] = @ \ {created}]
      /\ UNCHANGED <<database, edit, timers, up, worker>>

HandleWake(p, c) ==
  LET wake == [stage |-> "wake", content |-> c]
  IN  /\ wake \in bus[p]
      /\ bus' = [bus EXCEPT ![p] = @ \ {wake}]
      /\ ProcessBatch(p)
      /\ UNCHANGED <<database, edit, timers, up, batch, work, spent>>

\* The timer is 100 ms longer than the delay of the retry.
TimerFires(p, c) ==
  /\ c \in timers[p]
  /\ task[c].status = "retry" => task[c].due
  /\ timers' = [timers EXCEPT ![p] = @ \ {c}]
  /\ ProcessBatch(p)
  /\ UNCHANGED <<database, edit, bus, up, batch, work, spent>>

-----------------------------------------------------------------------------
(* The worker. *)

\* The finally of processBatch; the first batch belongs to the bootstrap.
BatchOver(p) == /\ pc' = [pc EXCEPT ![p] = "idle"]
                /\ up' = [up EXCEPT ![p] = "serving"]

NextTask(p) ==
  /\ work' = [work EXCEPT ![p] = NoWork]
  /\ IF batch[p] = {} THEN BatchOver(p)
     ELSE pc' = [pc EXCEPT ![p] = "next"] /\ UNCHANGED up

Claimable == {c \in Contents : task[c].status \in {"pending", "retry"} /\ task[c].due}

\* One short transaction with FOR UPDATE SKIP LOCKED. Which tasks come first
\* (created_at) is left open.
Claim(p) ==
  /\ pc[p] = "claim"
  /\ \E cs \in SUBSET Claimable :
       /\ cs # Claimable => Cardinality(cs) = BatchSize
       /\ Cardinality(cs) <= BatchSize
       /\ task' = [c \in Contents |->
                     IF c \in cs THEN [task[c] EXCEPT !.status = "processing",
                                                      !.leased = TRUE, !.token = p]
                     ELSE task[c]]
       /\ batch' = [batch EXCEPT ![p] =
                      {[task |-> c, attempts |-> task[c].attempts] : c \in cs}]
       /\ IF cs = {} THEN BatchOver(p)
          ELSE pc' = [pc EXCEPT ![p] = "next"] /\ UNCHANGED up
  /\ UNCHANGED <<row, log, restored, edit, bus, timers, work, spent>>

Processed(c) == [task[c] EXCEPT !.status = "processed", !.leased = FALSE,
                                !.token = NoProcess]

\* Faulty variant: the task of a content that is gone is left as it is.
ReadContentForgets(p) ==
  /\ pc[p] = "next"
  /\ \E b \in batch[p] :
       /\ batch' = [batch EXCEPT ![p] = @ \ {b}]
       /\ IF Visible(b.task)
          THEN /\ work' = [work EXCEPT ![p] =
                             [NoWork EXCEPT !.task = b.task, !.attempts = b.attempts,
                                            !.text = row[b.task].text]]
               /\ pc' = [pc EXCEPT ![p] = "lexical"]
               /\ UNCHANGED up
          ELSE /\ IF batch'[p] = {} THEN BatchOver(p) ELSE UNCHANGED <<pc, up>>
               /\ UNCHANGED work
  /\ UNCHANGED <<database, edit, bus, timers, spent>>

\* findContent; a content that is gone ends its task without a verdict.
ReadContent(p) ==
  /\ pc[p] = "next"
  /\ \E b \in batch[p] :
       /\ batch' = [batch EXCEPT ![p] = @ \ {b}]
       /\ IF Visible(b.task)
          THEN /\ work' = [work EXCEPT ![p] =
                             [NoWork EXCEPT !.task = b.task, !.attempts = b.attempts,
                                            !.text = row[b.task].text]]
               /\ pc' = [pc EXCEPT ![p] = "lexical"]
               /\ UNCHANGED <<task, up>>
          ELSE /\ task' = IF task[b.task].token = p
                          THEN [task EXCEPT ![b.task] = Processed(b.task)] ELSE task
               /\ IF batch'[p] = {} THEN BatchOver(p) ELSE UNCHANGED <<pc, up>>
               /\ UNCHANGED work
  /\ UNCHANGED <<row, log, restored, edit, bus, timers, spent>>

\* The verdict to store, and whether an exception thrown while storing it
\* lands in the catch that retries.
Decide(p, decision, semantic, caught) ==
  /\ work' = [work EXCEPT ![p].decision = decision, ![p].semantic = semantic,
                          ![p].caught = caught]
  /\ pc' = [pc EXCEPT ![p] = "verify"]

\* Faulty variant: the word list only warns.
LexicalWarns(p) ==
  /\ pc[p] = "lexical"
  /\ pc' = [pc EXCEPT ![p] = "semantic"]
  /\ UNCHANGED <<database, edit, bus, timers, up, batch, work, spent>>

\* Layer 1.
Lexical(p) ==
  /\ pc[p] = "lexical"
  /\ IF work[p].text = "banned"
     THEN Decide(p, "hidden", "not_evaluated", FALSE)
     ELSE pc' = [pc EXCEPT ![p] = "semantic"] /\ UNCHANGED work
  /\ UNCHANGED <<database, edit, bus, timers, up, batch, spent>>

\* banned_words cannot be loaded and nothing is cached: the list is empty.
LexicalWithoutList(p) ==
  /\ pc[p] = "lexical"
  /\ Fault
  /\ pc' = [pc EXCEPT ![p] = "semantic"]
  /\ UNCHANGED <<database, edit, bus, timers, up, batch, work>>

\* Faulty variants: one attempt too many; no retry at all.
CatchOneMore(p, recoverable) ==
  IF recoverable /\ work[p].attempts < MaxAttempts
  THEN pc' = [pc EXCEPT ![p] = "reschedule"] /\ UNCHANGED work
  ELSE Decide(p, "approved", "degraded", FALSE)

CatchAtOnce(p, recoverable) == Decide(p, "approved", "degraded", FALSE)

\* The catch around layer 2: retry while attempts are left, or approve.
Catch(p, recoverable) ==
  IF recoverable /\ work[p].attempts + 1 < MaxAttempts
  THEN pc' = [pc EXCEPT ![p] = "reschedule"] /\ UNCHANGED work
  ELSE Decide(p, "approved", "degraded", FALSE)

\* Layer 2.
Semantic(p) ==
  /\ pc[p] = "semantic"
  /\ \/ /\ "answer" \in Answers
        /\ IF work[p].text = "abusive"
           THEN Decide(p, "hidden", "flagged", TRUE)
           ELSE Decide(p, "approved", "clean", TRUE)
     \/ "noKey" \in Answers /\ Decide(p, "approved", "degraded", TRUE)
     \/ "recoverable" \in Answers /\ Catch(p, TRUE)
     \/ "permanent" \in Answers /\ Catch(p, FALSE)
  /\ UNCHANGED <<database, edit, bus, timers, up, batch, spent>>

\* completeTaskSuccess: the SELECT by id and lock_token.
Verify(p) ==
  /\ pc[p] = "verify"
  /\ IF task[work[p].task].token = p
     THEN pc' = [pc EXCEPT ![p] = "commit"] /\ UNCHANGED <<work, up>>
     ELSE NextTask(p)
  /\ UNCHANGED <<database, edit, bus, timers, batch, spent>>

\* The rest of its transaction: content, log and task together; the task by
\* its id alone. An approval only changes a status that nothing writes
\* ('pending_moderation'). What it emits afterwards leaves this module.
Commit(p) ==
  LET w == work[p]
  IN  /\ pc[p] = "commit"
      /\ log[w.task] = NoLog
      /\ row' = IF w.decision = "hidden" /\ Visible(w.task)
                THEN [row EXCEPT ![w.task].status = "hidden"] ELSE row
      /\ log' = [log EXCEPT ![w.task] = [decision |-> w.decision,
                                         semantic |-> w.semantic, text |-> w.text]]
      /\ task' = [task EXCEPT ![w.task] = Processed(w.task)]
      /\ NextTask(p)
      /\ UNCHANGED <<restored, edit, bus, timers, batch, spent>>

\* processBatch catches what its loop throws: the rest of the batch keeps
\* its claims and nobody works on it.
Abort(p) ==
  /\ BatchOver(p)
  /\ batch' = [batch EXCEPT ![p] = {}]
  /\ work' = [work EXCEPT ![p] = NoWork]

Throw(p) ==
  IF work[p].caught THEN Catch(p, TRUE) /\ UNCHANGED <<batch, up>> ELSE Abort(p)

\* uq_moderation_logs_task: somebody stored a verdict since Verify.
CommitConflict(p) ==
  /\ pc[p] = "commit"
  /\ log[work[p].task] # NoLog
  /\ Throw(p)
  /\ UNCHANGED <<database, edit, bus, timers, spent>>

\* Faulty variant: the retry is written without looking at the lock token.
RescheduleWithoutToken(p) ==
  LET w == work[p]
  IN  /\ pc[p] = "reschedule"
      /\ task' = [task EXCEPT ![w.task] =
                    [status |-> "retry", attempts |-> w.attempts + 1,
                     due |-> FALSE, leased |-> FALSE, token |-> NoProcess]]
      /\ timers' = [timers EXCEPT ![p] = @ \cup {w.task}]
      /\ NextTask(p)
      /\ UNCHANGED <<row, log, restored, edit, bus, batch, spent>>

\* rescheduleTaskRetry, and the timer, which starts in any case.
Reschedule(p) ==
  LET w == work[p]
  IN  /\ pc[p] = "reschedule"
      /\ task' = IF task[w.task].token = p
                 THEN [task EXCEPT ![w.task] =
                         [status |-> "retry", attempts |-> w.attempts + 1,
                          due |-> FALSE, leased |-> FALSE, token |-> NoProcess]]
                 ELSE task
      /\ timers' = [timers EXCEPT ![p] = @ \cup {w.task}]
      /\ NextTask(p)
      /\ UNCHANGED <<row, log, restored, edit, bus, batch, spent>>

\* A statement of the worker fails.
StatementFails(p) ==
  /\ Fault
  /\ \/ pc[p] \in {"claim", "next", "reschedule"} /\ Abort(p)
     \/ pc[p] \in {"verify", "commit"} /\ Throw(p)
  /\ UNCHANGED <<database, edit, bus, timers>>

-----------------------------------------------------------------------------
(* Start, crash and time. *)

\* Faulty variant: finished tasks are freed as well.
BootFreesAll(p) ==
  /\ up[p] = "down"
  /\ task' = [c \in Contents |->
                IF task[c].status # "none" /\ ~task[c].leased
                THEN [task[c] EXCEPT !.status = "pending", !.token = NoProcess]
                ELSE task[c]]
  /\ up' = [up EXCEPT ![p] = "booting"]
  /\ pc' = [pc EXCEPT ![p] = "sweep"]
  /\ UNCHANGED <<row, log, restored, edit, bus, timers, batch, work, spent>>

\* reconcileStaleTasks frees the claims whose lease has run out.
Boot(p) ==
  /\ up[p] = "down"
  /\ task' = [c \in Contents |->
                IF task[c].status = "processing" /\ ~task[c].leased
                THEN [task[c] EXCEPT !.status = "pending", !.token = NoProcess]
                ELSE task[c]]
  /\ up' = [up EXCEPT ![p] = "booting"]
  /\ pc' = [pc EXCEPT ![p] = "sweep"]
  /\ UNCHANGED <<row, log, restored, edit, bus, timers, batch, work, spent>>

Orphans(kind) ==
  {c \in kind : Visible(c) /\ task[c].status = "none" /\ log[c] = NoLog}

\* Faulty variant: a start does not look for orphans.
SweepSkipped(p) ==
  /\ pc[p] = "sweep"
  /\ pc' = [pc EXCEPT ![p] = "claim"]
  /\ UNCHANGED <<database, edit, bus, timers, up, batch, work, spent>>

\* Up to SweepLimit orphans of each kind get a task; then the first batch.
Sweep(p) ==
  /\ pc[p] = "sweep"
  /\ \E cs \in SUBSET Contents :
       /\ \A kind \in {Messages, Reviews, Publications} :
            /\ cs \cap kind \subseteq Orphans(kind)
            /\ Cardinality(cs \cap kind) <= SweepLimit
            /\ Orphans(kind) \subseteq cs \/ Cardinality(cs \cap kind) = SweepLimit
       /\ task' = Enqueued(cs)
  /\ pc' = [pc EXCEPT ![p] = "claim"]
  /\ UNCHANGED <<row, log, restored, edit, bus, timers, up, batch, work, spent>>

\* An error of the bootstrap is logged and the server starts all the same.
BootFails(p) ==
  /\ up[p] = "down" \/ pc[p] = "sweep"
  /\ Fault
  /\ BatchOver(p)
  /\ UNCHANGED <<database, edit, bus, timers, batch, work>>

Crash(p) ==
  /\ up[p] # "down" /\ spent.crashes < MaxCrashes
  /\ spent' = [spent EXCEPT !.crashes = @ + 1]
  /\ up' = [up EXCEPT ![p] = "down"]
  /\ pc' = [pc EXCEPT ![p] = "idle"]
  /\ bus' = [bus EXCEPT ![p] = {}]
  /\ timers' = [timers EXCEPT ![p] = {}]
  /\ batch' = [batch EXCEPT ![p] = {}]
  /\ work' = [work EXCEPT ![p] = NoWork]
  /\ edit' = [c \in Contents |-> IF edit[c] # NoEdit /\ edit[c].by = p
                                 THEN NoEdit ELSE edit[c]]
  /\ UNCHANGED database

LeaseExpires(c) ==
  /\ task[c].leased
  /\ task' = [task EXCEPT ![c].leased = FALSE]
  /\ UNCHANGED <<row, log, restored, edit, bus, timers, up, worker, spent>>

RetryDue(c) ==
  /\ task[c].status = "retry" /\ ~task[c].due
  /\ task' = [task EXCEPT ![c].due = TRUE]
  /\ UNCHANGED <<row, log, restored, edit, bus, timers, up, worker, spent>>

-----------------------------------------------------------------------------

Worker(p) ==
  \/ Claim(p) \/ ReadContent(p) \/ Lexical(p) \/ Semantic(p) \/ Verify(p)
  \/ Commit(p) \/ CommitConflict(p) \/ Reschedule(p) \/ Sweep(p)

Handlers(p) ==
  \E c \in Contents : HandleCreated(p, c) \/ HandleWake(p, c) \/ TimerFires(p, c)

Author ==
  \E c \in Contents :
    \/ \E p \in Processes, v \in Texts : Publish(c, p, v) \/ PublishSilently(c, p, v)
    \/ \E p \in Processes : BeginEdit(c, p)
    \/ \E v \in Texts : FinishEdit(c, v) \/ FinishEditSilently(c, v)
    \/ \E status \in {"hidden", "inactive", "deleted"} : Remove(c, status)
    \/ Restore(c)

Failure ==
  \E p \in Processes :
    \/ LexicalWithoutList(p) \/ StatementFails(p) \/ BootFails(p) \/ Crash(p)
    \/ \E c \in Contents : HandleCreatedFails(p, c)

Time == \E c \in Contents : LeaseExpires(c) \/ RetryDue(c)

Next ==
  \/ \E p \in Processes : Worker(p) \/ Handlers(p) \/ Boot(p)
  \/ Author \/ Failure \/ Time

Spec == Init /\ [][Next]_vars

\* The event loop runs every handler, timer and continuation in the end,
\* time passes, and a crashed process is restarted. Authors owe nothing.
FairSpec ==
  /\ Spec
  /\ \A p \in Processes : WF_vars(Worker(p)) /\ WF_vars(Boot(p))
  /\ \A p \in Processes, c \in Contents :
       /\ WF_vars(HandleCreated(p, c))
       /\ WF_vars(HandleWake(p, c))
       /\ WF_vars(TimerFires(p, c))
  /\ \A c \in Contents : WF_vars(LeaseExpires(c)) /\ WF_vars(RetryDue(c))

-----------------------------------------------------------------------------
(* Properties. *)

TaskType == [status : {"none", "pending", "processing", "retry", "processed"},
             attempts : 0 .. MaxAttempts - 1, due : BOOLEAN, leased : BOOLEAN,
             token : Processes \cup {NoProcess}]
LogType == [decision : {"hidden", "approved"},
            semantic : {"not_evaluated", "flagged", "clean", "degraded"}, text : Texts]

\* A missing log is not mistaken for a verdict.
ASSUME LogAssumption == NoLog \notin LogType

\* Nor is the absence of an edit for an edit.
Edit == [by : Processes, status : {"published", "hidden", "inactive", "deleted"}]
ASSUME EditAssumption == NoEdit \notin Edit

WorkType == [task : Contents \cup {NoContent}, attempts : 0 .. MaxAttempts - 1,
             text : Texts, decision : {"none", "hidden", "approved"},
             semantic : {"none", "not_evaluated", "flagged", "clean", "degraded"},
             caught : BOOLEAN]

\* The types of the rows and of the processes' memory; attempts never reaches
\* max_attempts.
TypeOK ==
  /\ row \in [Contents -> [status : {"none", "published", "hidden", "inactive", "deleted"},
                           deleted : BOOLEAN, text : Texts]]
  /\ \A c \in Contents : edit[c] \in {NoEdit} \cup Edit
  /\ task \in [Contents -> TaskType]
  /\ \A c \in Contents : log[c] \in {NoLog} \cup LogType
  /\ restored \subseteq Contents
  /\ bus \in [Processes -> SUBSET [stage : {"created", "wake"}, content : Contents]]
  /\ timers \in [Processes -> SUBSET Contents]
  /\ up \in [Processes -> {"down", "booting", "serving"}]
  /\ pc \in [Processes -> {"idle", "sweep", "claim", "next", "lexical", "semantic",
                           "verify", "commit", "reschedule"}]
  /\ batch \in [Processes -> SUBSET [task : Contents, attempts : 0 .. MaxAttempts - 1]]
  /\ work \in [Processes -> WorkType]

\* What is deleted stays deleted, so for these kinds the row, the task and
\* the log agree whatever crashes, expired leases and second workers do: a
\* finished task has a verdict, unless the content is gone, and a verdict
\* belongs to a finished task.
VerdictsMatchTasks ==
  \A c \in Messages \cup Reviews :
    /\ task[c].status = "processed" => log[c] # NoLog \/ row[c].deleted
    /\ log[c] # NoLog => task[c].status = "processed"

\* The layers decide, whatever fails: until an appeal wins, a judged message
\* that is still there is hidden exactly when its verdict says so, hatred is
\* let through only in degraded mode, and a banned word always hides the
\* message unless a statement failed (the list of words may be what failed).
MessagesScreened ==
  \A c \in Messages \ restored : log[c] # NoLog /\ Visible(c) =>
    /\ row[c].status = "hidden" <=> log[c].decision = "hidden"
    /\ row[c].text = "banned" /\ spent.faults = 0 => row[c].status = "hidden"
    /\ row[c].text = "abusive" /\ row[c].status # "hidden" => log[c].semantic = "degraded"

\* "Fail-closed con 2 reintentos + fallback a local": when OpenAI is only
\* unreachable, approving without it takes max_attempts attempts that failed,
\* for want of an answer or because what it answered could not be stored.
\* Crashes, expired leases and second workers do not use the attempts up.
DegradedAfterRetries ==
  \A c \in Contents :
    log[c] # NoLog /\ log[c].semantic = "degraded" => task[c].attempts = MaxAttempts - 1

\* A finished task is never taken up again and its verdict never changes,
\* even if a worker whose lease ran out is still busy with it.
VerdictIsFinal ==
  [][\A c \in Contents :
       /\ task[c].status = "processed" => task'[c] = task[c]
       /\ log[c] # NoLog => log'[c] = log[c]]_vars

\* Whatever crashes in between, a published content gets its task in the
\* end, from the event bus or from the sweep of the next start, unless a
\* statement fails: what it loses waits for a start nobody has promised.
EveryContentQueued ==
  \A c \in Contents :
    Visible(c) ~> task[c].status # "none" \/ row[c].deleted \/ spent.faults > 0

InHand(c, p) ==
  task[c].token = p /\ (work[p].task = c \/ \E b \in batch[p] : b.task = c)

\* An exception reaches processBatch: a statement failed, or storing a
\* verdict that the word list decided met another one.
BatchThrows(p) ==
  \/ spent'.faults # spent.faults
  \/ pc[p] = "commit" /\ log[work[p].task] # NoLog /\ ~work[p].caught

\* A process that stays up turns away from a task it holds only when the
\* task is finished, put off or taken over; nothing but an exception makes
\* it leave the claim behind, with nobody at work on it until a start that
\* follows the end of the lease.
ClaimsAreReleased ==
  [][\A c \in Contents, p \in Processes :
       InHand(c, p) /\ ~InHand(c, p)' =>
         task'[c].token # p \/ up'[p] = "down" \/ BatchThrows(p)]_vars

\* "Encola la tarea [...] y despierta al worker": a queued task is judged.
EveryTaskJudged ==
  \A c \in Contents :
    task[c].status # "none" ~> task[c].status = "processed" \/ row[c].deleted

\* "Texto nuevo: moderacion lo vuelve a revisar": once the handlers, the
\* workers and the timers have nothing left to do, the verdict is about the
\* text that is shown.
NewTextIsReviewed ==
  (\A p \in Processes : /\ up[p] = "serving" /\ pc[p] = "idle"
                        /\ bus[p] = {} /\ timers[p] = {}) =>
    \A c \in Reviews :
      Visible(c) /\ log[c] # NoLog /\ edit[c] = NoEdit => log[c].text = row[c].text

\* What readers see of a content, and how far its moderation has come.
Display(c) == IF row[c].deleted THEN "gone"
              ELSE IF row[c].status = "none" THEN "absent" ELSE row[c].status
Review(c) == IF log[c] # NoLog THEN log[c].decision
             ELSE IF task[c].status = "processed" THEN "dismissed"
             ELSE IF task[c].status = "none" THEN "none" ELSE "queued"

\* The queue and its workers implement the abstract moderation, whatever
\* crashes, fails, runs out of its lease or is done twice.
Promise == INSTANCE ContentScreening WITH
             appealed <- restored,
             display <- [c \in Contents |-> Display(c)],
             review <- [c \in Contents |-> Review(c)],
             draft <- [c \in Contents |->
                         IF edit[c] = NoEdit THEN "none" ELSE edit[c].status]
ImplementsContentScreening == Promise!Spec

=============================================================================
