------------------------ MODULE ContentReview_proofs ------------------------
(***************************************************************************)
(* What administrators decide and authors rewrite, for any number of       *)
(* calls, reporters and reports.                                           *)
(***************************************************************************)
EXTENDS ContentReview, SequenceTheorems, TLAPS

\* What a call holds fits the statement it has reached; what it is about to
\* announce has been committed.
CallOK(c) ==
    /\ c.step = "report" => c.by \in Reporters
    /\ c.step \in {"save", "update"} => type = "publication"
    /\ c.step \in {"rewrite", "remove"} => type = "review"
    /\ c.step = "decide" =>
          IF c.case = Appeal
          THEN c.outcome \in {"approved", "rejected"} /\ ~c.removes
          ELSE /\ c.case \in DOMAIN reports
               /\ c.outcome \in {"resolved", "dismissed"}
               /\ c.removes => c.outcome = "resolved"
    /\ c.step = "announce" =>
          IF c.case = Appeal
          THEN c.outcome \in {"approved", "rejected"} /\ ~c.removes /\ appeal = c.outcome
          ELSE /\ c.case \in DOMAIN reports
               /\ reports[c.case].status = "resolved"
               /\ c.removes /\ (row.deleted \/ revived)

CallsOK == \A q \in Calls : CallOK(calls[q])

\* The row of a publication as its author's deletion saves it.
Removed == [status |-> "hidden", deleted |-> TRUE]

\* A copy whose row has not changed since: writing it changes nothing, or
\* deletes the publication.
Fresh(q) ==
    /\ calls[q].copy \in {row, Removed}
    /\ calls[q].step = "rewrite" => calls[q].copy = row
    /\ calls[q].step = "update" =>
          calls[q].dirty = {c \in Columns : \/ calls[q].copy[c] # row[c]
                                            \/ c = "deleted" /\ calls[q].copy.deleted}

FreshCopies ==
    \A q \in Calls :
        calls[q].step \in {"save", "update", "rewrite"} /\ ~calls[q].stale
           => Fresh(q)

IInv == /\ TypeOK /\ CallsOK
        /\ OneDecisionPerCase /\ NoticesAreTrue /\ RemovalsAreReal
        /\ FreshCopies

\* The rows a decision is about.
cases == <<appeal, reports, audit, outbox, inbox>>

\* A removal, or the sign that it was undone, is not lost.
StaysRemoved == row.deleted \/ revived => (row.deleted \/ revived)'

\* What TypeOK says of a message.
OneMark(r) == type = "message" => (r.deleted <=> r.status = "deleted")

USE BoundsAssumption

-----------------------------------------------------------------------------
(* Records and sequences *)

LEMMA IdleIsCall == Idle \in Call
BY DEF Idle, NoCopy, Call, Steps, Cases, Row, Statuses, Columns

\* The type of the content never changes, and so do the statuses it knows.
LEMMA SameTables ==
  ASSUME type' = type
  PROVE  Statuses' = Statuses /\ Row' = Row /\ Call' = Call
<1>1. Statuses' = Statuses
  BY DEF Statuses
<1>2. Row' = Row
  BY <1>1 DEF Row
<1> QED
  BY <1>1, <1>2 DEF Call

LEMMA InitOK == Init => IInv
<1> SUFFICES ASSUME Init PROVE IInv
  OBVIOUS
<1>1. reports \in Seq(Report) /\ Len(reports) = 0 /\ DOMAIN reports = {}
  BY DEF Init
<1>2. TypeOK
  <2>1. row \in Row /\ (type = "message" => (row.deleted <=> row.status = "deleted"))
    BY DEF Init, Row, Statuses
  <2>2. calls \in [Calls -> Call] /\ audit \in [Cases -> Nat]
    BY IdleIsCall DEF Init
  <2>3. /\ type \in Types /\ verdict \in Verdicts /\ appeal \in AppealStatuses
        /\ outbox = {} /\ inbox = {} /\ revived \in BOOLEAN
    BY DEF Init, Verdicts, AppealStatuses
  <2>4. outbox \subseteq Notice /\ inbox \subseteq Notice /\ Len(reports) <= MaxReports
    BY <1>1, <2>3
  <2> QED
    BY <1>1, <2>1, <2>2, <2>3, <2>4 DEF TypeOK
<1>3. CallsOK /\ FreshCopies
  BY DEF Init, CallsOK, CallOK, FreshCopies, Idle
<1>4. OneDecisionPerCase /\ NoticesAreTrue /\ RemovalsAreReal
  BY <1>1 DEF Init, OneDecisionPerCase, NoticesAreTrue, RemovalsAreReal, Cases, Appeal
<1> QED
  BY <1>2, <1>3, <1>4 DEF IInv

LEMMA ReportNumbers ==
  ASSUME TypeOK
  PROVE  /\ reports \in Seq(Report)
         /\ DOMAIN reports = 1..Len(reports) /\ Len(reports) \in 0..MaxReports
         /\ DOMAIN reports \subseteq Cases /\ Appeal \notin DOMAIN reports
         /\ \A i \in DOMAIN reports : reports[i] \in Report
BY LenProperties DEF TypeOK, Cases, Appeal

LEMMA BeginOK ==
  ASSUME TypeOK, NEW q \in Calls, NEW c \in Call, Begin(q, c)
  PROVE  /\ calls' \in [Calls -> Call]
         /\ calls'[q] = c
         /\ \A p \in Calls \ {q} : calls'[p] = calls[p]
BY DEF Begin, TypeOK

LEMMA FinishOK ==
  ASSUME TypeOK, NEW q \in Calls, Finish(q)
  PROVE  /\ calls' \in [Calls -> Call]
         /\ calls'[q] = Idle
         /\ \A p \in Calls \ {q} : calls'[p] = calls[p]
BY IdleIsCall DEF Finish, TypeOK

\* A step that only moves call q.
Moves(q) ==
    /\ calls' \in [Calls -> Call]
    /\ \A p \in Calls \ {q} : calls'[p] = calls[p]
    /\ UNCHANGED data

LEMMA MoveOK ==
  ASSUME IInv, NEW q \in Calls, Moves(q), CallOK(calls'[q]),
         calls'[q].step \in {"save", "update", "rewrite"} /\ ~calls'[q].stale
            => Fresh(q)'
  PROVE  IInv'
<1>0. UNCHANGED <<type, row, verdict, appeal, reports, outbox, inbox, audit, revived>>
  BY DEF Moves, data
<1>1. TypeOK'
  BY <1>0, SameTables DEF IInv, Moves, TypeOK
<1>2. CallsOK'
  BY <1>0 DEF IInv, Moves, CallsOK, CallOK
<1>3. OneDecisionPerCase' /\ NoticesAreTrue' /\ RemovalsAreReal'
  BY <1>0 DEF IInv, OneDecisionPerCase, NoticesAreTrue, RemovalsAreReal, Open, Outcome
<1>4. FreshCopies'
  <2>1. ASSUME NEW p \in Calls \ {q}, calls'[p].step \in {"save", "update", "rewrite"},
               ~calls'[p].stale
        PROVE  Fresh(p)'
    <3>1. calls'[p] = calls[p] /\ row' = row
      BY <1>0 DEF Moves
    <3>2. Fresh(p)
      BY <2>1, <3>1 DEF IInv, FreshCopies
    <3> QED
      BY <3>1, <3>2 DEF Fresh
  <2> QED
    BY <2>1 DEF FreshCopies
<1> QED
  BY <1>1, <1>2, <1>3, <1>4 DEF IInv

LEMMA FinishKeeps ==
  ASSUME IInv, NEW q \in Calls, Finish(q),
         UNCHANGED data
  PROVE  IInv'
<1>1. Moves(q) /\ calls'[q].step = "idle"
  BY FinishOK DEF IInv, Moves, Idle
<1> QED
  BY <1>1, MoveOK DEF CallOK

\* What a call that goes on from a write of the row takes with it.
Kept(c) == <<c.step, c.by, c.case, c.outcome, c.removes>>

\* A write of the row by a step that moves call q, if any: every copy that is
\* still fresh was of a row that has not changed.
LEMMA WriteOK ==
  ASSUME IInv, NEW cs \in [Calls -> Call], NEW r \in Row, WriteRow(cs, r),
         \A p \in Calls : \/ cs[p] = calls[p]
                          \/ cs[p].step \in {"idle", "announce"}
  PROVE  /\ row' = r /\ calls' \in [Calls -> Call]
         /\ FreshCopies'
         /\ \A p \in Calls : Kept(calls'[p]) = Kept(cs[p])
<1>1. ASSUME NEW c \in Call
      PROVE  LET d == [c EXCEPT !.stale = TRUE]
             IN  d \in Call /\ d.stale /\ Kept(d) = Kept(c)
  BY DEF Call, Kept
<1>2. row' = r /\ calls' = Seen(cs, r)
  BY DEF WriteRow
<1>3. calls' \in [Calls -> Call]
  BY <1>1, <1>2 DEF Seen
<1>4. ASSUME NEW p \in Calls, calls'[p].step \in {"save", "update", "rewrite"},
             ~calls'[p].stale
      PROVE  Fresh(p)'
  <2>0. cs[p] \in Call
    OBVIOUS
  <2>1. r = row /\ calls'[p] = cs[p]
    <3>1. calls'[p] = IF r # row /\ cs[p].step \in {"save", "update", "rewrite"}
                      THEN [cs[p] EXCEPT !.stale = TRUE] ELSE cs[p]
      BY <1>2 DEF Seen
    <3>2. calls'[p] = cs[p]
      BY <1>1, <1>4, <2>0, <3>1
    <3> QED
      BY <1>1, <1>4, <2>0, <3>1, <3>2
  <2>2. cs[p] = calls[p]
    BY <1>4, <2>1
  <2>3. Fresh(p)
    BY <1>4, <2>1, <2>2 DEF IInv, FreshCopies
  <2> QED
    BY <1>2, <2>1, <2>2, <2>3 DEF Fresh
<1>5. \A p \in Calls : Kept(calls'[p]) = Kept(cs[p])
  BY <1>1, <1>2 DEF Seen
<1> QED
  BY <1>2, <1>3, <1>4, <1>5 DEF FreshCopies

\* A write of the row that decides no case.
LEMMA AuthorWriteOK ==
  ASSUME IInv, NEW cs \in [Calls -> Call], NEW r \in Row, WriteRow(cs, r),
         \A p \in Calls : cs[p] \in {Idle, calls[p]}, OneMark(r),
         type' = type, verdict' \in Verdicts, UNCHANGED cases,
         revived' \in BOOLEAN, StaysRemoved
  PROVE  IInv'
<1>0. \A p \in Calls : cs[p] = calls[p] \/ cs[p].step \in {"idle", "announce"}
  BY DEF Idle
<1>1. /\ row' = r /\ calls' \in [Calls -> Call] /\ FreshCopies'
      /\ \A p \in Calls : Kept(calls'[p]) = Kept(cs[p])
  BY <1>0, WriteOK
<1>2. TypeOK'
  BY <1>1, SameTables DEF IInv, TypeOK, OneMark, cases
<1>3. CallsOK'
  <2>1. ASSUME NEW p \in Calls PROVE CallOK(calls[p])'
    <3>1. CASE cs[p].step = "idle"
      BY <1>1, <3>1 DEF Kept, CallOK
    <3>2. CASE cs[p].step # "idle"
      <4>1. CallOK(calls[p]) /\ Kept(calls'[p]) = Kept(calls[p])
        BY <1>1, <3>2 DEF IInv, CallsOK, Idle
      <4> QED
        BY <4>1 DEF CallOK, Kept, cases, StaysRemoved
    <3> QED
      BY <3>1, <3>2
  <2> QED
    BY <2>1 DEF CallsOK
<1>4. OneDecisionPerCase' /\ NoticesAreTrue'
  BY DEF IInv, cases, OneDecisionPerCase, NoticesAreTrue, Open, Outcome
<1>5. RemovalsAreReal'
  BY DEF IInv, cases, RemovalsAreReal, StaysRemoved
<1> QED
  BY <1>1, <1>2, <1>3, <1>4, <1>5 DEF IInv

-----------------------------------------------------------------------------
(* Steps that read *)

LEMMA BeginMoves ==
  ASSUME IInv, NEW q \in Calls, NEW c \in Call, Begin(q, c),
         UNCHANGED data
  PROVE  Moves(q) /\ calls'[q] = c
BY BeginOK DEF IInv, Moves

LEMMA CasesRead ==
  ASSUME IInv, NEW q \in Calls,
         \/ \E u \in Reporters : ReportCheck(q, u)
         \/ AppealCheck(q)
         \/ \E i \in DOMAIN reports, outcome \in {"resolved", "dismissed"},
               removes \in BOOLEAN : ReportRead(q, i, outcome, removes)
         \/ \E outcome \in {"approved", "rejected"} : AppealRead(q, outcome)
  PROVE  IInv'
<1>0. TypeOK
  BY DEF IInv
<1>1. ASSUME NEW u \in Reporters, ReportCheck(q, u) PROVE IInv'
  <2> DEFINE c == [Idle EXCEPT !.step = "report", !.by = u]
  <2>1. c \in Call /\ c.step = "report" /\ c.by = u
    BY IdleIsCall DEF Call, Steps, Idle
  <2>2. Moves(q) /\ calls'[q] = c
    BY <1>1, <2>1, BeginMoves DEF ReportCheck
  <2> QED
    BY <2>1, <2>2, MoveOK DEF CallOK
<1>2. CASE AppealCheck(q)
  <2> DEFINE c == [Idle EXCEPT !.step = "appeal"]
  <2>1. c \in Call /\ c.step = "appeal"
    BY IdleIsCall DEF Call, Steps, Idle
  <2>2. Moves(q) /\ calls'[q] = c
    BY <1>2, <2>1, BeginMoves DEF AppealCheck
  <2> QED
    BY <2>1, <2>2, MoveOK DEF CallOK
<1>3. ASSUME NEW i \in DOMAIN reports, NEW outcome \in {"resolved", "dismissed"},
             NEW removes \in BOOLEAN, ReportRead(q, i, outcome, removes)
      PROVE  IInv'
  <2> DEFINE c == [Idle EXCEPT !.step = "decide", !.case = i,
                               !.outcome = outcome, !.removes = removes]
  <2>1. /\ c.step = "decide" /\ c.case = i /\ c.outcome = outcome
        /\ c.removes = removes
    BY DEF Idle
  <2>2. c \in Call
    BY <1>0, ReportNumbers, IdleIsCall DEF Call, Steps
  <2>3. Moves(q) /\ calls'[q] = c
    BY <1>3, <2>2, BeginMoves DEF ReportRead
  <2>4. removes => outcome = "resolved"
    BY <1>3 DEF ReportRead
  <2>5. i # Appeal
    BY <1>0, ReportNumbers
  <2> QED
    BY <2>1, <2>3, <2>4, <2>5, MoveOK DEF CallOK
<1>4. ASSUME NEW outcome \in {"approved", "rejected"}, AppealRead(q, outcome)
      PROVE  IInv'
  <2> DEFINE c == [Idle EXCEPT !.step = "decide", !.case = Appeal,
                               !.outcome = outcome]
  <2>1. /\ c.step = "decide" /\ c.case = Appeal /\ c.outcome = outcome
        /\ ~c.removes
    BY DEF Idle
  <2>2. c \in Call
    <3>1. Appeal \in Cases
      BY DEF Cases, Appeal
    <3> QED
      BY <3>1, IdleIsCall DEF Call, Steps
  <2>3. Moves(q) /\ calls'[q] = c
    BY <1>4, <2>2, BeginMoves DEF AppealRead
  <2> QED
    BY <2>1, <2>3, MoveOK DEF CallOK
<1> QED
  BY <1>1, <1>2, <1>3, <1>4

LEMMA RowRead ==
  ASSUME IInv, NEW q \in Calls,
         \/ PostEdit(q) \/ PostDelete(q) \/ PostSelect(q)
         \/ \E step \in {"rewrite", "remove"} : ReviewRead(q, step)
  PROVE  IInv'
<1>0. /\ TypeOK /\ row \in Row /\ Removed \in Row /\ calls[q] \in Call
      /\ calls \in [Calls -> Call] /\ CallOK(calls[q])
  BY DEF IInv, TypeOK, CallsOK, Row, Statuses, Removed
<1>1. ASSUME NEW entity \in {row, Removed}, PostRead(q, entity) PROVE IInv'
  <2> DEFINE c == [Idle EXCEPT !.step = "save", !.copy = entity]
  <2>1. c.step = "save" /\ c.copy = entity /\ type = "publication"
    BY <1>1 DEF Idle, PostRead
  <2>2. c \in Call
    BY <1>0, IdleIsCall DEF Call, Steps
  <2>3. Moves(q) /\ calls'[q] = c
    BY <1>1, <2>2, BeginMoves DEF PostRead
  <2>4. Fresh(q)'
    BY <2>1, <2>3 DEF Fresh, Moves, data
  <2> QED
    BY <2>1, <2>3, <2>4, MoveOK DEF CallOK
<1>2. CASE PostEdit(q) \/ PostDelete(q)
  BY <1>1, <1>2 DEF PostEdit, PostDelete, Edited, Removed
<1>3. CASE PostSelect(q)
  <2> DEFINE dirty == {c \in Columns : \/ calls[q].copy[c] # row[c]
                                       \/ c = "deleted" /\ calls[q].copy.deleted}
  <2>1. /\ [calls[q] EXCEPT !.step = "update", !.dirty = dirty] \in Call
        /\ calls' = [calls EXCEPT ![q] = [calls[q] EXCEPT !.step = "update",
                                                          !.dirty = dirty]]
    BY <1>0, <1>3 DEF PostSelect, Call, Steps
  <2> HIDE DEF dirty
  <2>2. /\ calls'[q].step = "update" /\ calls'[q].dirty = dirty
        /\ calls'[q].copy = calls[q].copy /\ calls'[q].stale = calls[q].stale
    BY <1>0, <2>1 DEF Call
  <2>6. type = "publication"
    BY <1>0, <1>3 DEF CallOK, PostSelect
  <2>3. Moves(q)
    BY <1>0, <1>3, <2>1 DEF Moves, PostSelect
  <2>4. ~calls[q].stale => calls[q].copy \in {row, Removed}
    BY <1>3 DEF PostSelect, IInv, FreshCopies, Fresh
  <2>5. ~calls'[q].stale => Fresh(q)'
    BY <2>2, <2>3, <2>4 DEF Fresh, Moves, data, dirty
  <2> QED
    BY <2>2, <2>3, <2>5, <2>6, MoveOK DEF CallOK
<1>4. ASSUME NEW step \in {"rewrite", "remove"}, ReviewRead(q, step) PROVE IInv'
  <2> DEFINE c == [Idle EXCEPT !.step = step,
                               !.copy = IF step = "rewrite" THEN row ELSE @]
  <2>1. c.step = step /\ (step = "rewrite" => c.copy = row) /\ type = "review"
    BY <1>4 DEF Idle, ReviewRead
  <2>2. c \in Call
    BY <1>0, IdleIsCall DEF Call, Steps
  <2>3. Moves(q) /\ calls'[q] = c
    BY <1>4, <2>2, BeginMoves DEF ReviewRead
  <2>4. step = "rewrite" => Fresh(q)'
    BY <2>1, <2>3 DEF Fresh, Moves, data
  <2> QED
    BY <2>1, <2>3, <2>4, MoveOK DEF CallOK
<1> QED
  BY <1>2, <1>3, <1>4

-----------------------------------------------------------------------------
(* Steps that write the row, a report, the appeal or a notice *)

\* A save() of what has not changed since it was read writes the row as it is,
\* or deletes the publication.
LEMMA FreshSave ==
  ASSUME IInv, NEW q \in Calls, PostUpdate(q), ~calls[q].stale
  PROVE  row' = row \/ row'.deleted
<1>1. /\ row \in Row /\ calls[q] \in Call /\ calls[q].step = "update"
      /\ row' = [c \in Columns |-> IF c \in calls[q].dirty
                                   THEN calls[q].copy[c] ELSE row[c]]
  BY DEF IInv, TypeOK, PostUpdate, WriteRow
<1>2. Fresh(q)
  BY <1>1 DEF IInv, FreshCopies
<1>3. calls[q].dirty = {c \in Columns : \/ calls[q].copy[c] # row[c]
                                        \/ c = "deleted" /\ calls[q].copy.deleted}
  BY <1>1, <1>2 DEF Fresh
<1>5. CASE calls[q].copy = Removed
  <2>1. "deleted" \in calls[q].dirty /\ calls[q].copy.deleted
    BY <1>3, <1>5 DEF Removed, Columns
  <2>2. row'.deleted = calls[q].copy.deleted
    BY <1>1, <2>1 DEF Columns
  <2> QED
    BY <2>1, <2>2
<1>6. CASE calls[q].copy = row
  <2>1. row' = [c \in Columns |-> row[c]]
    BY <1>1, <1>6
  <2>2. row = [c \in Columns |-> row[c]]
    BY <1>1 DEF Row, Columns
  <2> QED
    BY <2>1, <2>2
<1> QED
  BY <1>2, <1>5, <1>6 DEF Fresh

LEMMA RowsWritten ==
  ASSUME IInv, NEW q \in Calls, PostUpdate(q) \/ ReviewRewrite(q) \/ ReviewRemove(q)
  PROVE  IInv'
<1> DEFINE cs == [calls EXCEPT ![q] = Idle]
<1>0. /\ TypeOK /\ row \in Row /\ calls[q].copy \in Row /\ verdict \in Verdicts
      /\ cs \in [Calls -> Call] /\ \A p \in Calls : cs[p] \in {Idle, calls[p]}
      /\ CallOK(calls[q]) /\ revived \in BOOLEAN
  BY IdleIsCall DEF IInv, TypeOK, Call, CallsOK
<1>1. CASE PostUpdate(q)
  <2> DEFINE r == [c \in Columns |-> IF c \in calls[q].dirty
                                     THEN calls[q].copy[c] ELSE row[c]]
  <2>1. r \in Row
    BY <1>0 DEF Row, Columns
  <2>2. OneMark(r)
    BY <1>0, <1>1 DEF OneMark, CallOK, PostUpdate
  <2>3. row' = r /\ row' \in Row
    BY <1>1, <2>1 DEF PostUpdate, WriteRow
  <2>4. row'.deleted \in BOOLEAN /\ row.deleted \in BOOLEAN
    BY <1>0, <2>3 DEF Row
  <2>5. StaysRemoved /\ revived' \in BOOLEAN
    <3>1. revived' = (revived \/ (calls[q].stale /\ row.deleted /\ ~row'.deleted))
      BY <1>1 DEF PostUpdate
    <3>2. CASE calls[q].stale
      BY <3>1, <3>2 DEF StaysRemoved
    <3>3. CASE ~calls[q].stale
      BY <1>0, <1>1, <3>1, <3>3, FreshSave DEF StaysRemoved
    <3> QED
      BY <3>1, <3>2, <3>3
  <2>6. /\ WriteRow(cs, r) /\ type' = type /\ verdict' = verdict /\ UNCHANGED cases
    BY <1>1 DEF PostUpdate, cases
  <2> HIDE DEF cs, r
  <2> QED
    BY <1>0, <2>1, <2>2, <2>5, <2>6, AuthorWriteOK
<1>2. CASE ReviewRewrite(q)
  <2> DEFINE r == [row EXCEPT !.status = calls[q].copy.status]
  <2>1. r \in Row /\ r.deleted = row.deleted
    BY <1>0 DEF Row
  <2>2. OneMark(r)
    BY <1>0, <1>2 DEF OneMark, CallOK, ReviewRewrite
  <2>3. /\ WriteRow(cs, r) /\ type' = type /\ verdict' = verdict /\ UNCHANGED cases
        /\ revived' = revived
    BY <1>2 DEF ReviewRewrite, cases
  <2>4. StaysRemoved
    BY <2>1, <2>3 DEF StaysRemoved, WriteRow
  <2> HIDE DEF cs, r
  <2> QED
    BY <1>0, <2>1, <2>2, <2>3, <2>4, AuthorWriteOK
<1>3. CASE ReviewRemove(q)
  <2> DEFINE r == IF row.deleted THEN row
                  ELSE [status |-> "deleted", deleted |-> TRUE]
  <2>0. type = "review"
    BY <1>0, <1>3 DEF CallOK, ReviewRemove
  <2>1. r \in Row /\ r.deleted
    BY <1>0, <2>0 DEF Row, Statuses
  <2>2. OneMark(r)
    BY <2>0 DEF OneMark
  <2>3. /\ WriteRow(cs, r) /\ type' = type /\ verdict' = verdict /\ UNCHANGED cases
        /\ revived' = revived
    BY <1>3 DEF ReviewRemove, cases
  <2>4. StaysRemoved
    BY <2>1, <2>3 DEF StaysRemoved, WriteRow
  <2> HIDE DEF cs, r
  <2> QED
    BY <1>0, <2>1, <2>2, <2>3, <2>4, AuthorWriteOK
<1> QED
  BY <1>1, <1>2, <1>3

LEMMA VerdictWritten ==
  ASSUME IInv, NEW decision \in {"blocked", "approved"}, Verdict(decision)
  PROVE  IInv'
<1> DEFINE r == IF decision = "blocked" /\ ~row.deleted
                THEN [row EXCEPT !.status = "hidden"] ELSE row
<1>1. /\ row \in Row /\ calls \in [Calls -> Call] /\ decision \in Verdicts
      /\ revived \in BOOLEAN /\ OneMark(row)
  BY DEF IInv, TypeOK, Verdicts, OneMark
<1>2. r \in Row /\ r.deleted = row.deleted /\ OneMark(r)
  BY <1>1 DEF Row, Statuses, OneMark
<1>3. /\ WriteRow(calls, r) /\ type' = type /\ verdict' = decision
      /\ UNCHANGED cases /\ revived' = revived
  BY DEF Verdict, cases
<1>4. StaysRemoved
  BY <1>2, <1>3 DEF StaysRemoved, WriteRow
<1> HIDE DEF r
<1> QED
  BY <1>1, <1>2, <1>3, <1>4, AuthorWriteOK

LEMMA ReportWritten ==
  ASSUME IInv, NEW q \in Calls, ReportInsert(q)
  PROVE  IInv'
<1>0. /\ TypeOK /\ CallsOK /\ OneDecisionPerCase /\ NoticesAreTrue /\ RemovalsAreReal
      /\ FreshCopies
  BY DEF IInv
<1>1. PICK u \in Reporters : u = calls[q].by
  BY <1>0 DEF ReportInsert, CallsOK, CallOK
<1>2. PICK n : n = Len(reports) + 1
  OBVIOUS
<1> DEFINE new == [by |-> u, status |-> "pending"]
<1>3. new \in Report
  BY DEF Report
<1>4. /\ reports' \in Seq(Report) /\ Len(reports') = n
      /\ \A i \in DOMAIN reports : reports'[i] = reports[i]
      /\ reports'[n] = new
  BY <1>0, <1>1, <1>2, <1>3, ReportNumbers, AppendProperties DEF ReportInsert
<1>5. /\ DOMAIN reports' = DOMAIN reports \cup {n}
      /\ n \notin DOMAIN reports /\ n # Appeal /\ n <= MaxReports
  BY <1>0, <1>2, <1>4, ReportNumbers, LenProperties DEF ReportInsert, Appeal
<1>6. /\ calls' \in [Calls -> Call] /\ calls'[q] = Idle
      /\ \A p \in Calls \ {q} : calls'[p] = calls[p]
      /\ UNCHANGED <<type, row, verdict, appeal, outbox, inbox, audit, revived>>
  BY <1>0, FinishOK DEF ReportInsert
<1>7. TypeOK'
  BY <1>0, <1>4, <1>5, <1>6, SameTables DEF TypeOK
<1>8. CallsOK'
  <2>1. ASSUME NEW p \in Calls PROVE CallOK(calls[p])'
    <3>1. CASE p = q
      BY <1>6, <3>1 DEF CallOK, Idle
    <3>2. CASE p # q
      <4>1. CallOK(calls[p]) /\ calls'[p] = calls[p]
        BY <1>0, <1>6, <3>2 DEF CallsOK
      <4> QED
        BY <1>4, <1>5, <1>6, <4>1 DEF CallOK
    <3> QED
      BY <3>1, <3>2
  <2> QED
    BY <2>1 DEF CallsOK
<1>9. OneDecisionPerCase'
  BY <1>0, <1>4, <1>5, <1>6 DEF OneDecisionPerCase, Open, Outcome
<1>10. NoticesAreTrue'
  BY <1>0, <1>4, <1>5, <1>6 DEF NoticesAreTrue
<1>11. RemovalsAreReal'
  BY <1>0, <1>6 DEF RemovalsAreReal
<1>12. FreshCopies'
  BY <1>0, <1>6 DEF FreshCopies, Fresh, Idle
<1> QED
  BY <1>7, <1>8, <1>9, <1>10, <1>11, <1>12 DEF IInv

LEMMA AppealWritten ==
  ASSUME IInv, NEW q \in Calls, AppealInsert(q)
  PROVE  IInv'
<1>0. /\ TypeOK /\ CallsOK /\ OneDecisionPerCase /\ NoticesAreTrue /\ RemovalsAreReal
      /\ FreshCopies
  BY DEF IInv
<1>1. /\ calls' \in [Calls -> Call] /\ calls'[q] = Idle
      /\ \A p \in Calls \ {q} : calls'[p] = calls[p]
      /\ appeal = "none" /\ appeal' = "pending"
      /\ UNCHANGED <<type, row, verdict, reports, outbox, inbox, audit, revived>>
  BY <1>0, FinishOK DEF AppealInsert
<1>2. TypeOK'
  BY <1>0, <1>1, SameTables DEF TypeOK, AppealStatuses
<1>3. CallsOK' /\ FreshCopies'
  <2>1. FreshCopies'
    BY <1>0, <1>1 DEF FreshCopies, Fresh, Idle
  <2>2. CallsOK'
    BY <1>0, <1>1 DEF CallsOK, CallOK, Idle
  <2> QED
    BY <2>1, <2>2
<1>4. OneDecisionPerCase' /\ RemovalsAreReal'
  BY <1>0, <1>1, ReportNumbers
     DEF OneDecisionPerCase, RemovalsAreReal, Open, Outcome
<1>5. NoticesAreTrue'
  <2>1. \A n \in outbox \cup inbox : n.case # Appeal
    BY <1>0, <1>1 DEF NoticesAreTrue, TypeOK, Notice, Texts
  <2> QED
    BY <1>0, <1>1, <2>1 DEF NoticesAreTrue
<1> QED
  BY <1>2, <1>3, <1>4, <1>5 DEF IInv

LEMMA NoticeHandled ==
  ASSUME IInv, NEW n \in outbox, NoticeSaved(n) \/ NoticeLost(n)
  PROVE  IInv'
<1>0. /\ TypeOK /\ CallsOK /\ OneDecisionPerCase /\ NoticesAreTrue /\ RemovalsAreReal
      /\ FreshCopies
  BY DEF IInv
<1>1. /\ (outbox \cup inbox)' \subseteq outbox \cup inbox
      /\ UNCHANGED <<type, row, verdict, appeal, reports, calls, audit, revived>>
  BY DEF NoticeSaved, NoticeLost
<1>2. TypeOK'
  BY <1>0, <1>1, SameTables DEF TypeOK
<1>3. CallsOK' /\ FreshCopies' /\ OneDecisionPerCase'
  BY <1>0, <1>1 DEF CallsOK, CallOK, FreshCopies, Fresh, OneDecisionPerCase, Open,
                    Outcome
<1>4. NoticesAreTrue' /\ RemovalsAreReal'
  BY <1>0, <1>1 DEF NoticesAreTrue, RemovalsAreReal
<1> QED
  BY <1>2, <1>3, <1>4 DEF IInv

\* The event tells what the call has committed.
LEMMA Announced ==
  ASSUME IInv, NEW q \in Calls, Announce(q)
  PROVE  IInv'
<1>0. /\ TypeOK /\ CallsOK /\ OneDecisionPerCase /\ NoticesAreTrue /\ RemovalsAreReal
      /\ FreshCopies /\ calls[q] \in Call /\ CallOK(calls[q])
  BY DEF IInv, TypeOK, CallsOK
<1>1. /\ calls' \in [Calls -> Call] /\ calls'[q] = Idle
      /\ \A p \in Calls \ {q} : calls'[p] = calls[p]
      /\ calls[q].step = "announce"
      /\ UNCHANGED <<type, row, verdict, appeal, reports, inbox, audit, revived>>
  BY <1>0, FinishOK DEF Announce
<1>2. PICK n : /\ n = [case |-> calls[q].case,
                       text |-> IF calls[q].removes THEN "removed"
                                ELSE calls[q].outcome]
               /\ outbox' = outbox \cup {n}
  BY DEF Announce
<1>3. /\ n \in Notice
      /\ IF n.case = Appeal THEN appeal = n.text
         ELSE n.case \in DOMAIN reports /\ reports[n.case].status = "resolved"
      /\ n.text = "removed" => row.deleted \/ revived
  BY <1>0, <1>1, <1>2 DEF CallOK, Call, Notice, Texts
<1>4. TypeOK'
  BY <1>0, <1>1, <1>2, <1>3, SameTables DEF TypeOK
<1>5. CallsOK'
  BY <1>0, <1>1 DEF CallsOK, CallOK, Idle
<1>6. FreshCopies'
  BY <1>0, <1>1 DEF FreshCopies, Fresh, Idle
<1>7. OneDecisionPerCase'
  BY <1>0, <1>1 DEF OneDecisionPerCase, Open, Outcome
<1>8. NoticesAreTrue' /\ RemovalsAreReal'
  BY <1>0, <1>1, <1>2, <1>3 DEF NoticesAreTrue, RemovalsAreReal
<1> QED
  BY <1>4, <1>5, <1>6, <1>7, <1>8 DEF IInv

\* The transaction of an administrator closes one case, which was open.
LEMMA DecideIs ==
  ASSUME IInv, NEW q \in Calls, Decide(q)
  PROVE  LET call == calls[q]
             case == call.case
         IN  /\ case \in Cases /\ Open(case)
             /\ audit' = [audit EXCEPT ![case] = @ + 1]
             /\ UNCHANGED <<type, verdict, outbox, inbox, revived>>
             /\ \/ /\ case = Appeal
                   /\ appeal' = call.outcome /\ reports' = reports
                   /\ call.outcome \in {"approved", "rejected"} /\ ~call.removes
                \/ /\ case \in DOMAIN reports /\ case # Appeal
                   /\ appeal' = appeal
                   /\ reports' = [reports EXCEPT ![case].status = call.outcome]
                   /\ call.outcome \in {"resolved", "dismissed"}
                   /\ call.removes => call.outcome = "resolved"
<1>1. /\ TypeOK /\ calls[q] \in Call /\ calls[q].step = "decide" /\ CallOK(calls[q])
  BY DEF Decide, IInv, TypeOK, CallsOK
<1>2. calls[q].case \in Cases /\ Open(calls[q].case)
  BY <1>1 DEF Decide, Closes, Call
<1>3. CASE calls[q].case = Appeal
  BY <1>1, <1>2, <1>3 DEF Decide, CallOK
<1>4. CASE calls[q].case # Appeal
  BY <1>1, <1>2, <1>4 DEF Decide, CallOK
<1> QED
  BY <1>3, <1>4

\* It moves the row as decided, and the call ends or goes on to announce it.
LEMMA DecideRows ==
  ASSUME IInv, NEW q \in Calls, Decide(q)
  PROVE  /\ FreshCopies'
         /\ row' \in Row /\ calls' \in [Calls -> Call]
         /\ OneMark(row') /\ StaysRemoved
         /\ calls[q].removes => row'.deleted
         /\ \A p \in Calls \ {q} : Kept(calls'[p]) = Kept(calls[p])
         /\ calls'[q].step # "idle" =>
               /\ Kept(calls'[q]) = Kept([calls[q] EXCEPT !.step = "announce"])
               /\ Announces(calls[q])
<1> DEFINE mine == IF Announces(calls[q])
                   THEN [calls[q] EXCEPT !.step = "announce"] ELSE Idle
           cs == [calls EXCEPT ![q] = mine]
           r == IF calls[q].removes THEN SoftDeleted(row)
                ELSE IF calls[q].outcome = "approved" THEN Restored(row)
                ELSE row
<1>1. /\ row \in Row /\ calls \in [Calls -> Call] /\ calls[q] \in Call /\ OneMark(row)
  BY DEF IInv, TypeOK, OneMark
<1>2. mine \in Call /\ mine.step \in {"idle", "announce"}
  BY <1>1, IdleIsCall DEF Call, Steps, Idle
<1>3. /\ SoftDeleted(row) \in Row /\ SoftDeleted(row).deleted /\ OneMark(SoftDeleted(row))
  BY <1>1 DEF SoftDeleted, DeletedStatus, Row, Statuses, OneMark
<1>4. /\ Restored(row) \in Row /\ Restored(row).deleted = row.deleted
      /\ OneMark(Restored(row))
  BY <1>1 DEF Restored, Row, Statuses, OneMark
<1>5. r \in Row /\ OneMark(r) /\ (row.deleted => r.deleted)
  BY <1>1, <1>3, <1>4
<1>6. WriteRow(cs, r) /\ revived' = revived
  BY DEF Decide
<1>7. row' = r
  BY <1>6 DEF WriteRow
<1>8. calls[q].removes => row'.deleted
  BY <1>3, <1>7
<1> HIDE DEF mine
<1>9. /\ cs \in [Calls -> Call] /\ cs[q] = mine
      /\ \A p \in Calls \ {q} : cs[p] = calls[p]
  BY <1>1, <1>2
<1> HIDE DEF cs, r
<1>10. /\ FreshCopies' /\ calls' \in [Calls -> Call]
       /\ \A p \in Calls : Kept(calls'[p]) = Kept(cs[p])
  BY <1>2, <1>5, <1>6, <1>9, WriteOK
<1>11. StaysRemoved
  BY <1>5, <1>6, <1>7 DEF StaysRemoved
<1>12. calls'[q].step # "idle" =>
          /\ Kept(calls'[q]) = Kept([calls[q] EXCEPT !.step = "announce"])
          /\ Announces(calls[q])
  <2>1. Kept(calls'[q]) = Kept(mine)
    BY <1>9, <1>10
  <2>2. calls'[q].step = mine.step
    BY <2>1 DEF Kept
  <2> QED
    BY <2>1, <2>2 DEF mine, Idle
<1> QED
  BY <1>5, <1>7, <1>8, <1>9, <1>10, <1>11, <1>12

LEMMA CaseDecided ==
  ASSUME IInv, NEW q \in Calls, Decide(q)
  PROVE  IInv'
<1> DEFINE case0 == calls[q].case
           given0 == calls[q].outcome
<1>1. PICK case, given : case = case0 /\ given = given0
  OBVIOUS
<1>0. /\ TypeOK /\ CallsOK /\ OneDecisionPerCase /\ NoticesAreTrue /\ RemovalsAreReal
  BY DEF IInv
<1>2. /\ case \in Cases /\ Open(case)
      /\ audit' = [audit EXCEPT ![case] = @ + 1]
      /\ UNCHANGED <<type, verdict, outbox, inbox, revived>>
  BY <1>1, DecideIs
<1>3. \/ /\ case = Appeal /\ appeal' = given /\ reports' = reports
         /\ given \in {"approved", "rejected"} /\ ~calls[q].removes
      \/ /\ case \in DOMAIN reports /\ case # Appeal /\ appeal' = appeal
         /\ reports' = [reports EXCEPT ![case].status = given]
         /\ given \in {"resolved", "dismissed"}
         /\ calls[q].removes => given = "resolved"
  BY <1>1, DecideIs
<1> HIDE DEF case0, given0
<1>4. /\ reports' \in Seq(Report) /\ Len(reports') = Len(reports)
      /\ DOMAIN reports' = DOMAIN reports
      /\ \A i \in DOMAIN reports \ {case} : reports'[i] = reports[i]
      /\ case # Appeal => /\ reports'[case].by = reports[case].by
                          /\ reports'[case].status = given
                          /\ appeal' = appeal
      /\ case = Appeal => reports' = reports
  <2>1. CASE case = Appeal
    BY <1>0, <1>3, <2>1, ReportNumbers
  <2>2. CASE case # Appeal
    <3> DEFINE new == [reports[case] EXCEPT !.status = given]
    <3>1. /\ case \in 1..Len(reports) /\ given \in {"resolved", "dismissed"}
          /\ reports' = [reports EXCEPT ![case] = new] /\ appeal' = appeal
      BY <1>0, <1>3, <2>2, ReportNumbers
    <3>2. /\ new \in Report /\ new.by = reports[case].by /\ new.status = given
      BY <1>0, <3>1, ReportNumbers DEF Report
    <3> HIDE DEF new
    <3>3. /\ reports' \in Seq(Report) /\ Len(reports') = Len(reports)
          /\ \A i \in 1..Len(reports) : reports'[i] = IF i = case THEN new ELSE reports[i]
      BY <1>0, <3>1, <3>2, ReportNumbers, ExceptSeq
    <3>4. DOMAIN reports' = 1..Len(reports') /\ DOMAIN reports = 1..Len(reports)
      BY <1>0, <3>3, ReportNumbers, LenProperties
    <3> QED
      BY <2>2, <3>1, <3>2, <3>3, <3>4
  <2> QED
    BY <2>1, <2>2
<1>6. TypeOK'
  <2>1. appeal' \in AppealStatuses
    BY <1>0, <1>3 DEF TypeOK, AppealStatuses
  <2>2. audit' \in [Cases -> Nat]
    BY <1>0, <1>2 DEF TypeOK
  <2> QED
    BY <1>0, <1>2, <1>4, <2>1, <2>2, DecideRows, SameTables DEF TypeOK, OneMark
<1>7. CallsOK'
  <2>1. ASSUME NEW p \in Calls \ {q} PROVE CallOK(calls[p])'
    <3>1. CallOK(calls[p]) /\ Kept(calls'[p]) = Kept(calls[p]) /\ StaysRemoved
      BY <1>0, DecideRows DEF CallsOK
    <3>2. /\ calls'[p].step = calls[p].step /\ calls'[p].by = calls[p].by
          /\ calls'[p].case = calls[p].case /\ calls'[p].outcome = calls[p].outcome
          /\ calls'[p].removes = calls[p].removes
      BY <3>1 DEF Kept
    <3>3. calls[p].step = "announce" => calls[p].case # case
      BY <1>2, <1>3, <3>1 DEF CallOK, Open, Outcome
    <3> QED
      BY <1>2, <1>3, <1>4, <3>1, <3>2, <3>3 DEF CallOK, StaysRemoved
  <2>2. CallOK(calls[q])'
    <3>1. CASE calls'[q].step = "idle"
      BY <3>1 DEF CallOK
    <3>2. CASE calls'[q].step # "idle"
      <4>1. /\ Kept(calls'[q]) = Kept([calls[q] EXCEPT !.step = "announce"])
            /\ Announces(calls[q]) /\ calls[q] \in Call
            /\ calls[q].removes => row'.deleted
        BY <1>0, <3>2, DecideRows DEF TypeOK
      <4>2. /\ calls'[q].step = "announce" /\ calls'[q].case = case
            /\ calls'[q].outcome = given /\ calls'[q].removes = calls[q].removes
        BY <1>1, <4>1 DEF Kept, Call, case0, given0
      <4>3. case # Appeal => calls[q].removes
        BY <1>1, <4>1 DEF Announces, case0
      <4> QED
        BY <1>3, <1>4, <4>1, <4>2, <4>3 DEF CallOK
    <3> QED
      BY <3>1, <3>2
  <2> QED
    BY <2>1, <2>2 DEF CallsOK
<1>8. OneDecisionPerCase'
  <2>1. audit \in [Cases -> Nat]
    BY <1>0 DEF TypeOK
  <2>2. audit[case] = 0
    BY <1>0, <1>2, <1>3 DEF OneDecisionPerCase, Open, Outcome
  <2>3. audit'[case] = 1 /\ \A k \in Cases \ {case} : audit'[k] = audit[k]
    BY <1>2, <2>1, <2>2
  <2>4. CASE case = Appeal
    BY <1>0, <1>3, <1>4, <2>3, <2>4 DEF OneDecisionPerCase, Open, Outcome
  <2>5. CASE case # Appeal
    BY <1>0, <1>3, <1>4, <2>3, <2>5 DEF OneDecisionPerCase, Open, Outcome
  <2> QED
    BY <2>4, <2>5
<1>9. NoticesAreTrue'
  <2>1. ASSUME NEW n \in outbox \cup inbox
        PROVE  IF n.case = Appeal THEN appeal' = n.text
               ELSE n.case \in DOMAIN reports' /\ reports'[n.case].status = "resolved"
    <3>1. n \in Notice
      BY <1>0 DEF TypeOK
    <3>2. CASE n.case = Appeal
      BY <1>0, <1>2, <1>3, <1>4, <3>1, <3>2
         DEF NoticesAreTrue, Open, Outcome, Notice, Texts
    <3>3. CASE n.case # Appeal
      <4>1. /\ n.case \in DOMAIN reports /\ reports[n.case].status = "resolved"
        BY <1>0, <3>3 DEF NoticesAreTrue
      <4>2. n.case # case
        BY <1>2, <3>3, <4>1 DEF Open, Outcome
      <4> QED
        BY <1>4, <3>3, <4>1, <4>2
    <3> QED
      BY <3>2, <3>3
  <2> QED
    BY <1>2, <2>1 DEF NoticesAreTrue
<1>10. RemovalsAreReal'
  BY <1>0, <1>2, DecideRows DEF RemovalsAreReal, StaysRemoved
<1> QED
  BY <1>6, <1>7, <1>8, <1>9, <1>10, DecideRows DEF IInv

-----------------------------------------------------------------------------
(* The theorems *)

LEMMA StepKeepsIInv == IInv /\ [Next]_vars => IInv'
<1> SUFFICES ASSUME IInv, [Next]_vars PROVE IInv'
  OBVIOUS
<1>1. ASSUME NEW q \in Calls,
             ReportRefused(q) \/ AppealRefused(q) \/ DecideConflict(q)
      PROVE  IInv'
  BY <1>1, FinishKeeps DEF ReportRefused, AppealRefused, DecideConflict
<1>2. ASSUME NEW q \in Calls,
             \/ \E u \in Reporters : ReportCheck(q, u)
             \/ AppealCheck(q)
             \/ \E i \in DOMAIN reports, outcome \in {"resolved", "dismissed"},
                   removes \in BOOLEAN : ReportRead(q, i, outcome, removes)
             \/ \E outcome \in {"approved", "rejected"} : AppealRead(q, outcome)
      PROVE  IInv'
  BY <1>2, CasesRead
<1>3. ASSUME NEW q \in Calls,
             \/ PostEdit(q) \/ PostDelete(q) \/ PostSelect(q)
             \/ \E step \in {"rewrite", "remove"} : ReviewRead(q, step)
      PROVE  IInv'
  BY <1>3, RowRead
<1>4. ASSUME NEW q \in Calls, PostUpdate(q) \/ ReviewRewrite(q) \/ ReviewRemove(q)
      PROVE  IInv'
  BY <1>4, RowsWritten
<1>5. ASSUME NEW q \in Calls, ReportInsert(q) \/ AppealInsert(q) \/ Decide(q)
                              \/ Announce(q)
      PROVE  IInv'
  BY <1>5, ReportWritten, AppealWritten, CaseDecided, Announced
<1>6. ASSUME NEW n \in outbox, NoticeSaved(n) \/ NoticeLost(n) PROVE IInv'
  BY <1>6, NoticeHandled
<1>7. ASSUME NEW decision \in {"blocked", "approved"}, Verdict(decision) PROVE IInv'
  BY <1>7, VerdictWritten
<1>8. CASE UNCHANGED vars
  <2>1. Row' = Row /\ Call' = Call
    BY <1>8, SameTables DEF vars
  <2> QED
    BY <1>8, <2>1 DEF vars, IInv, TypeOK, CallsOK, CallOK, OneDecisionPerCase,
                      NoticesAreTrue, RemovalsAreReal, Open, Outcome, FreshCopies, Fresh
<1> QED
  BY <1>1, <1>2, <1>3, <1>4, <1>5, <1>6, <1>7, <1>8 DEF Next

LEMMA Invariance == Spec => []IInv
BY InitOK, StepKeepsIInv, PTL DEF Spec

\* Rows, calls and events keep their types.
THEOREM TypeCorrectness == Spec => []TypeOK
<1>1. IInv => TypeOK
  BY DEF IInv
<1> QED
  BY Invariance, <1>1, PTL

\* A report or an appeal is decided once, however many administrators work on
\* it, and audited exactly when it is decided.
THEOREM DecidedOnce == Spec => []OneDecisionPerCase
<1>1. IInv => OneDecisionPerCase
  BY DEF IInv
<1> QED
  BY Invariance, <1>1, PTL

\* What the author is told is what was decided.
THEOREM NoticeTruth == Spec => []NoticesAreTrue
<1>1. IInv => NoticesAreTrue
  BY DEF IInv
<1> QED
  BY Invariance, <1>1, PTL

\* A removal that an author has been told of holds, whatever other calls wrote
\* between its commit and the notice or after it; only a save() of a copy read
\* before brings the row back.
THEOREM RemovalTruth == Spec => []RemovalsAreReal
<1>1. IInv => RemovalsAreReal
  BY DEF IInv
<1> QED
  BY Invariance, <1>1, PTL

\* What is not visible becomes visible only by an approved appeal, while it is
\* hidden and not deleted, or by an author who had read the row before.
THEOREM Republication == Spec => OnlyStaleWritesRepublish
<1> DEFINE Shown == ~Visible(row) /\ Visible(row') =>
                      \/ StaleWrite
                      \/ /\ appeal = "pending" /\ appeal' = "approved"
                         /\ row.status = "hidden" /\ ~row.deleted
<1>1. ASSUME IInv, NEW q \in Calls, PostUpdate(q) \/ ReviewRewrite(q)
      PROVE  Shown
  <2>1. /\ row \in Row /\ calls \in [Calls -> Call] /\ calls[q] \in Call
        /\ calls[q].step \in {"update", "rewrite"}
    BY <1>1 DEF IInv, TypeOK, PostUpdate, ReviewRewrite
  <2>2. calls'[q] = Idle
    <3>1. [calls EXCEPT ![q] = Idle][q] = Idle /\ Idle.step = "idle"
      BY <2>1 DEF Idle
    <3>2. PICK r : calls' = Seen([calls EXCEPT ![q] = Idle], r)
      BY <1>1 DEF PostUpdate, ReviewRewrite, WriteRow
    <3> QED
      BY <3>1, <3>2 DEF Seen
  <2>3. CASE calls[q].stale
    BY <2>1, <2>2, <2>3 DEF StaleWrite
  <2>4. CASE ~calls[q].stale
    <3>1. Fresh(q)
      BY <1>1, <2>1, <2>4 DEF IInv, FreshCopies
    <3>2. CASE ReviewRewrite(q)
      <4>1. row' = [row EXCEPT !.status = row.status]
        BY <3>1, <3>2 DEF ReviewRewrite, WriteRow, Fresh
      <4> QED
        BY <2>1, <4>1 DEF Row
    <3>3. CASE PostUpdate(q)
      BY <1>1, <2>4, <3>3, FreshSave DEF Visible
    <3> QED
      BY <1>1, <3>2, <3>3
  <2> QED
    BY <2>3, <2>4
<1>2. ASSUME IInv, NEW q \in Calls, Decide(q) PROVE Shown
  <2>1. row \in Row
    BY <1>2 DEF IInv, TypeOK
  <2>2. row' = IF calls[q].removes THEN SoftDeleted(row)
               ELSE IF calls[q].outcome = "approved" THEN Restored(row) ELSE row
    BY <1>2 DEF Decide, WriteRow
  <2>3. CASE calls[q].removes
    BY <1>2, <2>3, DecideRows DEF Visible
  <2>4. CASE ~calls[q].removes /\ calls[q].outcome = "approved"
    <3>1. calls[q].case = Appeal /\ Open(Appeal) /\ appeal' = "approved"
      BY <1>2, <2>4, DecideIs
    <3> QED
      BY <2>2, <2>4, <3>1 DEF Restored, Open, Outcome
  <2> QED
    BY <2>2, <2>3, <2>4
<1>3. ASSUME IInv, NEW q \in Calls, ReviewRemove(q) PROVE Shown
  BY <1>3 DEF ReviewRemove, WriteRow, Visible
<1>4. ASSUME IInv, NEW decision \in {"blocked", "approved"}, Verdict(decision)
      PROVE  Shown
  <2>1. row \in Row
    BY <1>4 DEF IInv, TypeOK
  <2> QED
    BY <1>4, <2>1 DEF Verdict, WriteRow, Visible, Row
<1>5. ASSUME IInv, [Next]_vars,
             ~ \E decision \in {"blocked", "approved"} : Verdict(decision),
             ~ \E q \in Calls : \/ Decide(q) \/ PostUpdate(q)
                               \/ ReviewRewrite(q) \/ ReviewRemove(q)
      PROVE  UNCHANGED row
  BY <1>5 DEF Next, vars, data, NoticeSaved, NoticeLost, Announce, ReportCheck,
              ReportInsert, ReportRefused, AppealCheck, AppealInsert, AppealRefused,
              ReportRead, AppealRead, DecideConflict, PostEdit, PostDelete, PostRead,
              PostSelect, ReviewRead
<1>6. IInv /\ [Next]_vars => [Shown]_vars
  BY <1>1, <1>2, <1>3, <1>4, <1>5
<1> QED
  BY InitOK, StepKeepsIInv, <1>6, PTL DEF Spec, OnlyStaleWritesRepublish

=============================================================================
