---------------------------- MODULE ContentReview ----------------------------
(***************************************************************************)
(* What people do with one piece of content after the moderation worker    *)
(* has judged it: students report it, its author appeals the verdict,      *)
(* edits and deletes it, administrators resolve reports and appeals, and   *)
(* the author is notified.  Contents share none of this state, so the      *)
(* module follows one; "type" says whether it is a publication, a message  *)
(* or a review, whose rows are written by different code.                  *)
(*                                                                         *)
(* A call is cut where the code awaits: services read and check first, and *)
(* the statement or transaction that writes comes later.  The worker that  *)
(* writes the verdict is module ModerationTasks.                           *)
(***************************************************************************)
EXTENDS Integers, Sequences, FiniteSets

CONSTANTS
    Types,       \* types of content an instance looks at
    Calls,       \* HTTP calls served side by side
    Reporters,   \* students who report the content
    MaxReports   \* bound: rows of reports about the content

ASSUME BoundsAssumption ==
    /\ MaxReports \in Nat
    /\ Types \subseteq {"publication", "message", "review"}

VARIABLES
    type,      \* constant: the type of the content
    row,       \* its status and whether deleted_at is set
    verdict,   \* its row of moderation_logs
    appeal,    \* the row of appeals for that log
    reports,   \* rows of reports in the order they were inserted
    calls,     \* what each call has read and where it stands
    outbox,    \* 'notification.send' events that are being handled
    inbox,     \* rows of notifications
    audit,     \* history: entries of audit_logs per case
    revived    \* history: a stale save has brought a deleted row back

vars == <<type, row, verdict, appeal, reports, calls, outbox, inbox, audit,
          revived>>

\* All but the call that moves.
data == <<type, row, verdict, appeal, reports, outbox, inbox, audit, revived>>

-----------------------------------------------------------------------------
(* Rows and calls *)

\* The statuses that the table of the type knows.
Statuses == {"published", "hidden",
             IF type = "publication" THEN "inactive" ELSE "deleted"}

Row == [status : Statuses, deleted : BOOLEAN]

Columns == {"status", "deleted"}

Visible(r) == r.status = "published" /\ ~r.deleted

\* A case an administrator closes: report number i, or the appeal.
Appeal == 0
Cases == 0..MaxReports

Outcome(case) == IF case = Appeal THEN appeal ELSE reports[case].status

Open(case) == Outcome(case) = "pending"

NoCopy == [status |-> "published", deleted |-> FALSE]

Idle == [step |-> "idle", case |-> 0, outcome |-> "pending", removes |-> FALSE,
         by |-> "nobody", copy |-> NoCopy, dirty |-> {}, stale |-> FALSE]

Steps == {"idle", "report", "appeal", "decide", "announce", "save", "update",
          "rewrite", "remove"}

Call == [step : Steps, case : Cases, removes : BOOLEAN,
         outcome : {"pending", "resolved", "dismissed", "approved", "rejected"},
         by : Reporters \cup {"nobody"}, copy : Row, dirty : SUBSET Columns,
         stale : BOOLEAN]

Verdicts == {"none", "blocked", "approved"}

AppealStatuses == {"none", "pending", "approved", "rejected"}

Report == [by : Reporters, status : {"pending", "resolved", "dismissed"}]

Texts == {"removed", "approved", "rejected"}

Notice == [case : Cases, text : Texts]

Begin(q, call) ==
    /\ calls[q] = Idle
    /\ calls' = [calls EXCEPT ![q] = call]

Finish(q) == calls' = [calls EXCEPT ![q] = Idle]

\* A write of the content's row; calls that are going to write back what they
\* have read of it now hold a stale copy.
Seen(cs, r) ==
    [p \in Calls |->
        IF r # row /\ cs[p].step \in {"save", "update", "rewrite"}
        THEN [cs[p] EXCEPT !.stale = TRUE] ELSE cs[p]]

WriteRow(cs, r) == row' = r /\ calls' = Seen(cs, r)

-----------------------------------------------------------------------------
(* The moderation worker: moderation.repository.ts completeTaskSuccess *)

Verdict(decision) ==
    /\ verdict = "none"
    /\ verdict' = decision
    /\ WriteRow(calls, IF decision = "blocked" /\ ~row.deleted
                       THEN [row EXCEPT !.status = "hidden"] ELSE row)
    /\ UNCHANGED <<type, appeal, reports, outbox, inbox, audit, revived>>

-----------------------------------------------------------------------------
(* Students: moderation.service.ts *)

\* Reports of u that no administrator has closed.
OpenReportsOf(u) ==
    {i \in DOMAIN reports : reports[i].by = u /\ reports[i].status = "pending"}

\* createReport: the content exists and u has no open report about it.
\* (Reporters of a message are members of its group or administrators.)
ReportCheck(q, u) ==
    /\ ~row.deleted
    /\ OpenReportsOf(u) = {}
    /\ Begin(q, [Idle EXCEPT !.step = "report", !.by = u])
    /\ UNCHANGED data

\* uq_reporter_target: one open report per reporter and content.
IndexAllows(u) == OpenReportsOf(u) = {}

ReportInsert(q) ==
    /\ calls[q].step = "report"
    /\ IndexAllows(calls[q].by)
    /\ Len(reports) < MaxReports
    /\ reports' = Append(reports, [by |-> calls[q].by, status |-> "pending"])
    /\ Finish(q)
    /\ UNCHANGED <<type, row, verdict, appeal, outbox, inbox, audit, revived>>

\* Two clicks: the index refuses the second one, which answers 409.  (Also
\* the end of a report beyond the bound.)
ReportRefused(q) ==
    /\ calls[q].step = "report"
    /\ ~IndexAllows(calls[q].by) \/ Len(reports) = MaxReports
    /\ Finish(q)
    /\ UNCHANGED data

\* createAppeal: any log of one's own, whatever its result, that has no appeal.
AppealCheck(q) ==
    /\ verdict # "none"
    /\ appeal = "none"
    /\ Begin(q, [Idle EXCEPT !.step = "appeal"])
    /\ UNCHANGED data

\* uq_appeals_one_per_log.
AppealInsert(q) ==
    /\ calls[q].step = "appeal"
    /\ appeal = "none"
    /\ appeal' = "pending"
    /\ Finish(q)
    /\ UNCHANGED <<type, row, verdict, reports, outbox, inbox, audit, revived>>

AppealRefused(q) ==
    /\ calls[q].step = "appeal"
    /\ appeal # "none"
    /\ Finish(q)
    /\ UNCHANGED data

-----------------------------------------------------------------------------
(* Administrators: admin.service.ts and admin.repository.ts *)

\* resolveReport until its transaction: the report is open, only a resolution
\* may delete, and what is to be deleted was not deleted before.
ReportRead(q, i, outcome, removes) ==
    /\ Open(i)
    /\ removes => outcome = "resolved" /\ ~row.deleted
    /\ Begin(q, [Idle EXCEPT !.step = "decide", !.case = i,
                             !.outcome = outcome, !.removes = removes])
    /\ UNCHANGED data

\* resolveAppeal until its transaction.
AppealRead(q, outcome) ==
    /\ appeal = "pending"
    /\ Begin(q, [Idle EXCEPT !.step = "decide", !.case = Appeal,
                             !.outcome = outcome])
    /\ UNCHANGED data

\* Faulty variant: the case that was read open is closed whatever it is now.
ClosesAnyway(case) == TRUE

\* "WHERE id = $1 AND status = 'pending'" of both transactions.
Closes(case) == Open(case)

\* Faulty variant: one status for the three tables.
DeletedStatusCommon == "deleted"

\* content-targets.ts: the status a deleted row is left with.
DeletedStatus == IF type = "publication" THEN "inactive" ELSE "deleted"

\* Faulty variant: content the bot has hidden is left as it is.
SoftDeletedVisible(r) ==
    IF Visible(r) THEN [status |-> DeletedStatus, deleted |-> TRUE] ELSE r

\* softDeleteContent
SoftDeleted(r) ==
    IF r.deleted THEN r ELSE [status |-> DeletedStatus, deleted |-> TRUE]

\* Faulty variant: restoring also takes deleted_at back.
RestoredAlways(r) == [status |-> "published", deleted |-> FALSE]

\* restoreContent
Restored(r) ==
    IF r.status = "hidden" /\ ~r.deleted
    THEN [r EXCEPT !.status = "published"] ELSE r

\* The author hears of a removal and of the answer to an appeal.
Announces(call) == call.removes \/ call.case = Appeal

\* The transaction of resolveReport or resolveAppeal.
Decide(q) ==
    /\ calls[q].step = "decide"
    /\ LET call == calls[q]
           case == call.case
       IN  /\ Closes(case)
           /\ IF case = Appeal
              THEN /\ appeal' = call.outcome
                   /\ UNCHANGED reports
              ELSE /\ reports' = [reports EXCEPT ![case].status = call.outcome]
                   /\ UNCHANGED appeal
           /\ WriteRow([calls EXCEPT
                          ![q] = IF Announces(call)
                                 THEN [call EXCEPT !.step = "announce"] ELSE Idle],
                       IF call.removes THEN SoftDeleted(row)
                       ELSE IF call.outcome = "approved" THEN Restored(row)
                       ELSE row)
           /\ audit' = [audit EXCEPT ![case] = @ + 1]
    /\ UNCHANGED <<type, verdict, outbox, inbox, revived>>

\* The event for the author, once the transaction has been awaited.
Announce(q) ==
    /\ calls[q].step = "announce"
    /\ outbox' = outbox \cup
          {[case |-> calls[q].case,
            text |-> IF calls[q].removes THEN "removed" ELSE calls[q].outcome]}
    /\ Finish(q)
    /\ UNCHANGED <<type, row, verdict, appeal, reports, inbox, audit, revived>>

\* No row matched: another administrator was faster, 409.
DecideConflict(q) ==
    /\ calls[q].step = "decide"
    /\ ~Closes(calls[q].case)
    /\ Finish(q)
    /\ UNCHANGED data

-----------------------------------------------------------------------------
(* NotificationsListener and NotificationsService *)

NoticeSaved(n) ==
    /\ n \in outbox
    /\ outbox' = outbox \ {n}
    /\ inbox' = inbox \cup {n}
    /\ UNCHANGED <<type, row, verdict, appeal, reports, calls, audit, revived>>

\* The insert fails and is only logged, or the process stops before it.
NoticeLost(n) ==
    /\ n \in outbox
    /\ outbox' = outbox \ {n}
    /\ UNCHANGED <<type, row, verdict, appeal, reports, calls, inbox, audit,
                   revived>>

-----------------------------------------------------------------------------
(* The author of a publication: posts.repository.ts edit and delete.  Both *)
(* read the row, change the entity and save() it.                           *)

PostRead(q, entity) ==
    /\ type = "publication"
    /\ ~row.deleted
    /\ Begin(q, [Idle EXCEPT !.step = "save", !.copy = entity])
    /\ UNCHANGED data

\* Faulty variant: an edit publishes the post again.
EditedPublished(r) == [r EXCEPT !.status = "published"]

\* The columns an edit assigns are not the ones that are looked at here.
Edited(r) == r

PostEdit(q) == PostRead(q, Edited(row))

PostDelete(q) == PostRead(q, [status |-> "hidden", deleted |-> TRUE])

\* The SELECT of save(): which columns differ from the entity.  The time of a
\* deletion always does.
PostSelect(q) ==
    /\ calls[q].step = "save"
    /\ calls' = [calls EXCEPT
                    ![q].step = "update",
                    ![q].dirty = {c \in Columns :
                                     \/ calls[q].copy[c] # row[c]
                                     \/ c = "deleted" /\ calls[q].copy.deleted}]
    /\ UNCHANGED data

\* The UPDATE of save().
PostUpdate(q) ==
    /\ calls[q].step = "update"
    /\ WriteRow([calls EXCEPT ![q] = Idle],
                [c \in Columns |-> IF c \in calls[q].dirty
                                   THEN calls[q].copy[c] ELSE row[c]])
    /\ revived' = (revived \/ (calls[q].stale /\ row.deleted /\ ~row'.deleted))
    /\ UNCHANGED <<type, verdict, appeal, reports, outbox, inbox, audit>>

-----------------------------------------------------------------------------
(* The author of a review: ReviewsServiceImpl and ReviewsRepositoryImpl *)

\* findOwnReview, before an update or a removal.
ReviewRead(q, step) ==
    /\ type = "review"
    /\ ~row.deleted
    /\ Begin(q, [Idle EXCEPT !.step = step,
                             !.copy = IF step = "rewrite" THEN row ELSE @])
    /\ UNCHANGED data

\* UPDATE rating, comment, status: the status is the one that was read.
ReviewRewrite(q) ==
    /\ calls[q].step = "rewrite"
    /\ WriteRow([calls EXCEPT ![q] = Idle],
                [row EXCEPT !.status = calls[q].copy.status])
    /\ UNCHANGED <<type, verdict, appeal, reports, outbox, inbox, audit, revived>>

\* UPDATE ... WHERE deleted_at IS NULL; no row matches: 404.
ReviewRemove(q) ==
    /\ calls[q].step = "remove"
    /\ WriteRow([calls EXCEPT ![q] = Idle],
                IF row.deleted THEN row
                ELSE [status |-> "deleted", deleted |-> TRUE])
    /\ UNCHANGED <<type, verdict, appeal, reports, outbox, inbox, audit, revived>>

-----------------------------------------------------------------------------

Init ==
    /\ type \in Types
    /\ row = [status |-> "published", deleted |-> FALSE]
    /\ verdict = "none"
    /\ appeal = "none"
    /\ reports = <<>>
    /\ calls = [q \in Calls |-> Idle]
    /\ outbox = {}
    /\ inbox = {}
    /\ audit = [case \in Cases |-> 0]
    /\ revived = FALSE

Next ==
    \/ \E decision \in {"blocked", "approved"} : Verdict(decision)
    \/ \E n \in outbox : NoticeSaved(n) \/ NoticeLost(n)
    \/ \E q \in Calls :
          \/ \E u \in Reporters : ReportCheck(q, u)
          \/ ReportInsert(q) \/ ReportRefused(q)
          \/ AppealCheck(q) \/ AppealInsert(q) \/ AppealRefused(q)
          \/ \E i \in DOMAIN reports, outcome \in {"resolved", "dismissed"},
                removes \in BOOLEAN : ReportRead(q, i, outcome, removes)
          \/ \E outcome \in {"approved", "rejected"} : AppealRead(q, outcome)
          \/ Decide(q) \/ Announce(q) \/ DecideConflict(q)
          \/ PostEdit(q) \/ PostDelete(q) \/ PostSelect(q) \/ PostUpdate(q)
          \/ \E step \in {"rewrite", "remove"} : ReviewRead(q, step)
          \/ ReviewRewrite(q) \/ ReviewRemove(q)

Spec == Init /\ [][Next]_vars

-----------------------------------------------------------------------------
(* Properties *)

\* Rows, calls and events keep their types: a row, and the copy of it that a
\* call is going to write back, has a status that the table of its type knows.
\* Nobody writes a message from a copy: its deleted_at is set exactly when its
\* status says so.
TypeOK ==
    /\ type \in Types
    /\ row \in Row
    /\ type = "message" => (row.deleted <=> row.status = "deleted")
    /\ verdict \in Verdicts
    /\ appeal \in AppealStatuses
    /\ reports \in Seq(Report)
    /\ Len(reports) <= MaxReports
    /\ calls \in [Calls -> Call]
    /\ outbox \subseteq Notice
    /\ inbox \subseteq Notice
    /\ audit \in [Cases -> Nat]
    /\ revived \in BOOLEAN

\* Two administrators on one report or appeal: it is decided once, and audited
\* exactly when it is decided ("Devuelve false si otro administrador resolvió
\* la denuncia en paralelo", "borrar el contenido, cerrar la denuncia y auditar
\* ocurren juntos o nada", admin.repository.ts 200).
OneDecisionPerCase ==
    \A case \in Cases :
        audit[case] =
            IF case = Appeal
            THEN (IF appeal \in {"none", "pending"} THEN 0 ELSE 1)
            ELSE IF case \in DOMAIN reports /\ ~Open(case) THEN 1 ELSE 0

\* What the author is told is what was decided, also when two administrators
\* decide the same case the other way round, and nobody is told before the
\* decision has been committed.
NoticesAreTrue ==
    \A n \in outbox \cup inbox :
        IF n.case = Appeal THEN appeal = n.text
        ELSE /\ n.case \in DOMAIN reports
             /\ reports[n.case].status = "resolved"

\* The write of an author whose row has changed since it was read.
StaleWrite ==
    \E q \in Calls : /\ calls[q].step \in {"update", "rewrite"}
                     /\ calls[q].stale
                     /\ calls'[q] = Idle

\* "Solo se restaura lo que el bot ocultó; un contenido borrado por el
\* administrador no revive" (admin.repository.ts 359), "Actualiza solo los
\* campos editables" (ReviewsRepositoryImpl.ts 47): what is not visible becomes
\* visible only by an approved appeal, while it is hidden and not deleted, or
\* by the edit of an author who had read the row before it was hidden or
\* deleted.
OnlyStaleWritesRepublish ==
    [][~Visible(row) /\ Visible(row') =>
          \/ StaleWrite
          \/ /\ appeal = "pending" /\ appeal' = "approved"
             /\ row.status = "hidden" /\ ~row.deleted]_vars

\* "Post eliminado con éxito" (content-targets.ts 27): a removal that an author
\* has been told of holds.  Between the commit and the notice, and after it,
\* verdicts, appeals, edits and deletions run; only the save() of an author
\* who had read the publication before the removal brings it back.
RemovalsAreReal ==
    \A n \in outbox \cup inbox :
        n.text = "removed" => row.deleted \/ revived
=============================================================================
