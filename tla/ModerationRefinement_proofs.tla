--------------------- MODULE ModerationRefinement_proofs ---------------------
(***************************************************************************)
(* The task queue and its workers implement ContentScreening, for any      *)
(* number of contents, server processes, attempts, crashes, failing        *)
(* statements and edits.                                                   *)
(***************************************************************************)
EXTENDS ModerationTasks_proofs

Shown == {"published", "hidden"}

\* What is there is published or hidden, and so was what an editor has seen.
RowsShown ==
  \A c \in Contents :
    /\ row[c].status = "none" => ~row[c].deleted
    /\ Visible(c) => row[c].status \in Shown
    /\ edit[c] # NoEdit => edit[c].status \in Shown

\* The abstract state.
Displays == [c \in Contents |-> Display(c)]
Progress == [c \in Contents |-> Review(c)]
DraftOf(c) == IF edit[c] = NoEdit THEN "none" ELSE edit[c].status
Drafts == [c \in Contents |-> DraftOf(c)]

-----------------------------------------------------------------------------
(* Where the rows, the edits and the verdicts change *)

RowsQuiet == UNCHANGED <<row, edit>>

LEMMA OnlyAuthorsWriteRows ==
  ASSUME [Next]_vars
  PROVE  \/ RowsQuiet
         \/ \E c \in Contents, p \in Processes :
              \/ \E v \in Texts : Publish(c, p, v) \/ PublishSilently(c, p, v)
              \/ BeginEdit(c, p)
         \/ \E c \in Contents :
              \/ \E v \in Texts : FinishEdit(c, v) \/ FinishEditSilently(c, v)
              \/ \E status \in {"hidden", "inactive", "deleted"} : Remove(c, status)
              \/ Restore(c)
         \/ \E p \in Processes : Commit(p) \/ Crash(p)
<1>1. ASSUME NEW p \in Processes, Worker(p), ~Commit(p) PROVE RowsQuiet
  BY <1>1 DEF Worker, Claim, ReadContent, Lexical, Semantic, Verify, CommitConflict,
              Reschedule, Sweep, database, RowsQuiet
<1>2. ASSUME NEW p \in Processes, Handlers(p) \/ Boot(p) PROVE RowsQuiet
  BY <1>2 DEF Handlers, HandleCreated, HandleWake, TimerFires, Boot, database, RowsQuiet
<1>3. CASE Failure /\ ~\E p \in Processes : Crash(p)
  BY <1>3 DEF Failure, LexicalWithoutList, StatementFails, BootFails,
              HandleCreatedFails, database, RowsQuiet
<1>4. CASE Time \/ UNCHANGED vars
  BY <1>4 DEF Time, LeaseExpires, RetryDue, database, vars, RowsQuiet
<1>5. CASE Author
  BY <1>5 DEF Author
<1> QED
  BY <1>1, <1>2, <1>3, <1>4, <1>5 DEF Next

\* A row, and what an editor has seen of it, in the forms RowsShown allows.
RowShown(r) == /\ r.status = "none" => ~r.deleted
               /\ r.status # "none" /\ ~r.deleted => r.status \in Shown

LEMMA ShownRows ==
  RowsShown <=> \A c \in Contents : /\ RowShown(row[c])
                                    /\ edit[c] # NoEdit => edit[c].status \in Shown
BY DEF RowsShown, RowShown, Visible

LEMMA ShownRowsNext ==
  ASSUME \A c \in Contents : /\ RowShown(row'[c])
                             /\ edit'[c] # NoEdit => edit'[c].status \in Shown
  PROVE  RowsShown'
BY DEF RowsShown, RowShown, Visible

\* One row is written.
LEMMA RowWritten ==
  ASSUME TypeOK, RowsShown, NEW c \in Contents, NEW new \in RowType, RowShown(new),
         row' = [row EXCEPT ![c] = new],
         \A d \in Contents : edit'[d] = edit[d] \/ edit'[d] = NoEdit
  PROVE  RowsShown'
<1>1. row'[c] = new /\ \A d \in Contents \ {c} : row'[d] = row[d]
  BY Types
<1>2. \A d \in Contents : RowShown(row'[d])
  BY <1>1, ShownRows
<1>3. \A d \in Contents : edit'[d] # NoEdit => edit'[d].status \in Shown
  BY ShownRows
<1> QED
  BY <1>2, <1>3, ShownRowsNext

\* The new row of each operation that writes one.
LEMMA PublishedRow ==
  ASSUME NEW c \in Contents, NEW p \in Processes, NEW v \in Texts,
         Publish(c, p, v) \/ PublishSilently(c, p, v)
  PROVE  \E new \in RowType :
           /\ row' = [row EXCEPT ![c] = new] /\ row[c].status = "none"
           /\ new.status = "published" /\ ~new.deleted
           /\ UNCHANGED <<edit, task, log, restored>>
<1> DEFINE new == [status |-> "published", deleted |-> FALSE, text |-> v]
<1>1. new \in RowType /\ new.status = "published" /\ ~new.deleted
  BY DEF RowType, RowStatuses
<1>2. /\ row' = [row EXCEPT ![c] = new] /\ row[c].status = "none"
      /\ UNCHANGED <<edit, task, log, restored>>
  BY DEF Publish, PublishSilently
<1> HIDE DEF new
<1> QED
  BY <1>1, <1>2

LEMMA EditedRow ==
  ASSUME IInv, NEW c \in Contents, NEW v \in Texts,
         FinishEdit(c, v) \/ FinishEditSilently(c, v)
  PROVE  \E new \in RowType :
           /\ row' = [row EXCEPT ![c] = new]
           /\ new.status = edit[c].status /\ edit[c] # NoEdit
           /\ new.deleted <=> row[c].deleted /\ c \in Reviews
           /\ edit' = [edit EXCEPT ![c] = NoEdit]
           /\ UNCHANGED <<task, log, restored>>
<1> DEFINE new == [status |-> edit[c].status,
                   deleted |-> row[c].deleted /\ c \in Reviews, text |-> v]
<1>1. edit[c] # NoEdit /\ edit[c] \in Edit /\ row \in [Contents -> RowType]
  BY Types DEF FinishEdit, FinishEditSilently, WriteEdit, IInv, MapsOK
<1>2. /\ new \in RowType /\ new.status = edit[c].status
      /\ new.deleted <=> row[c].deleted /\ c \in Reviews
  BY <1>1 DEF RowType, RowStatuses, Edit
<1>3. /\ row' = [row EXCEPT ![c] = new]
      /\ edit' = [edit EXCEPT ![c] = NoEdit]
      /\ UNCHANGED <<task, log, restored>>
  BY <1>1 DEF FinishEdit, FinishEditSilently, WriteEdit
<1> HIDE DEF new
<1> QED
  BY <1>1, <1>2, <1>3

LEMMA RemovedRow ==
  ASSUME IInv, NEW c \in Contents, NEW status \in {"hidden", "inactive", "deleted"},
         Remove(c, status)
  PROVE  \E new \in RowType :
           /\ row' = [row EXCEPT ![c] = new] /\ Visible(c)
           /\ new.status # "none" /\ new.deleted
           /\ UNCHANGED <<edit, task, log, restored>>
<1> DEFINE first == [row[c] EXCEPT !.deleted = TRUE]
           new == [first EXCEPT !.status = status]
<1>1. row \in [Contents -> RowType] /\ row[c] \in RowType
  BY Types DEF IInv
<1>2. first \in RowType /\ first.deleted
  BY <1>1 DEF RowType
<1>3. /\ row' = [row EXCEPT ![c] = new] /\ Visible(c)
      /\ UNCHANGED <<edit, task, log, restored>>
  BY <1>1 DEF Remove
<1> HIDE DEF first
<1>4. new \in RowType /\ new.deleted /\ new.status # "none"
  BY <1>2 DEF RowType, RowStatuses
<1> HIDE DEF new
<1> QED
  BY <1>3, <1>4

LEMMA RestoredRow ==
  ASSUME IInv, NEW c \in Contents, Restore(c)
  PROVE  \E new \in RowType :
           /\ row' = [row EXCEPT ![c] = new]
           /\ new.deleted <=> row[c].deleted
           /\ new.status = (IF Visible(c) /\ row[c].status = "hidden" THEN "published"
                            ELSE row[c].status)
           /\ log[c] # NoLog /\ c \notin restored /\ restored' = restored \cup {c}
           /\ UNCHANGED <<edit, task, log>>
<1> DEFINE new == IF Visible(c) /\ row[c].status = "hidden"
                  THEN [row[c] EXCEPT !.status = "published"] ELSE row[c]
<1>1. row \in [Contents -> RowType] /\ row[c] \in RowType
  BY Types DEF IInv
<1>2. /\ new \in RowType /\ (new.deleted <=> row[c].deleted)
      /\ new.status = (IF Visible(c) /\ row[c].status = "hidden" THEN "published"
                       ELSE row[c].status)
  BY <1>1 DEF RowType, RowStatuses
<1>3. row' = [row EXCEPT ![c] = new]
  BY <1>1 DEF Restore
<1>4. /\ log[c] # NoLog /\ c \notin restored /\ restored' = restored \cup {c}
      /\ UNCHANGED <<edit, task, log>>
  BY DEF Restore
<1> HIDE DEF new
<1> QED
  BY <1>2, <1>3, <1>4

LEMMA JudgedRow ==
  ASSUME IInv, NEW p \in Processes, Commit(p)
  PROVE  \E c \in Contents, new \in RowType :
           /\ c = work[p].task /\ row[c].status # "none" /\ task[c].status # "none"
           /\ row' = [row EXCEPT ![c] = new]
           /\ new.deleted <=> row[c].deleted
           /\ new.status = (IF work[p].decision = "hidden" /\ Visible(c) THEN "hidden"
                            ELSE row[c].status)
           /\ UNCHANGED <<edit, restored>>
<1>1. PICK c \in Contents : /\ c = work[p].task /\ row[c].status # "none"
                            /\ task[c].status # "none"
  BY DEF IInv, Commit, HandOK, Busy, RowsOK, Remembers
<1> DEFINE new == IF work[p].decision = "hidden" /\ Visible(c)
                  THEN [row[c] EXCEPT !.status = "hidden"] ELSE row[c]
<1>2. row \in [Contents -> RowType] /\ row[c] \in RowType
  BY Types DEF IInv
<1>3. /\ new \in RowType /\ (new.deleted <=> row[c].deleted)
      /\ new.status = (IF work[p].decision = "hidden" /\ Visible(c) THEN "hidden"
                       ELSE row[c].status)
  BY <1>2 DEF RowType, RowStatuses
<1>4. row' = [row EXCEPT ![c] = new] /\ UNCHANGED <<edit, restored>>
  BY <1>1, <1>2 DEF Commit
<1> HIDE DEF new
<1> QED
  BY <1>1, <1>3, <1>4

LEMMA StepKeepsShown ==
  ASSUME IInv, RowsShown, [Next]_vars
  PROVE  RowsShown'
<1>0. TypeOK /\ \A c \in Contents : RowShown(row[c])
  BY ShownRows DEF IInv
<1>1. CASE RowsQuiet
  BY <1>1, ShownRows, ShownRowsNext DEF RowsQuiet
<1>2. ASSUME NEW c \in Contents, NEW p \in Processes, NEW v \in Texts,
             Publish(c, p, v) \/ PublishSilently(c, p, v)
      PROVE  RowsShown'
  <2>1. PICK new \in RowType :
           /\ row' = [row EXCEPT ![c] = new] /\ row[c].status = "none"
           /\ new.status = "published" /\ ~new.deleted
           /\ UNCHANGED <<edit, task, log, restored>>
    BY <1>2, PublishedRow
  <2>2. RowShown(new)
    BY <2>1 DEF RowShown, Shown
  <2> QED
    BY <1>0, <2>1, <2>2, RowWritten
<1>3. ASSUME NEW c \in Contents, NEW p \in Processes, BeginEdit(c, p)
      PROVE  RowsShown'
  <2>1. /\ UNCHANGED row /\ row[c].status \in Shown
        /\ edit' = [edit EXCEPT ![c] = [by |-> p, status |-> row[c].status]]
    BY <1>3 DEF BeginEdit, database, RowsShown
  <2>2. \A d \in Contents : edit'[d] # NoEdit => edit'[d].status \in Shown
    BY <2>1, ShownRows DEF IInv, MapsOK
  <2> QED
    BY <1>0, <2>1, <2>2, ShownRowsNext
<1>4. ASSUME NEW c \in Contents, NEW v \in Texts,
             FinishEdit(c, v) \/ FinishEditSilently(c, v)
      PROVE  RowsShown'
  <2>1. PICK new \in RowType :
           /\ row' = [row EXCEPT ![c] = new]
           /\ new.status = edit[c].status /\ edit[c] # NoEdit
           /\ new.deleted <=> row[c].deleted /\ c \in Reviews
           /\ edit' = [edit EXCEPT ![c] = NoEdit]
           /\ UNCHANGED <<task, log, restored>>
    BY <1>4, EditedRow
  <2>2. RowShown(new) /\ \A d \in Contents : edit'[d] = edit[d] \/ edit'[d] = NoEdit
    BY <2>1, ShownRows DEF RowShown, Shown, IInv, MapsOK
  <2> QED
    BY <1>0, <2>1, <2>2, RowWritten
<1>5. ASSUME NEW c \in Contents, NEW status \in {"hidden", "inactive", "deleted"},
             Remove(c, status)
      PROVE  RowsShown'
  <2>1. PICK new \in RowType :
           /\ row' = [row EXCEPT ![c] = new] /\ Visible(c)
           /\ new.status # "none" /\ new.deleted
           /\ UNCHANGED <<edit, task, log, restored>>
    BY <1>5, RemovedRow
  <2>2. RowShown(new)
    BY <2>1 DEF RowShown
  <2> QED
    BY <1>0, <2>1, <2>2, RowWritten
<1>6. ASSUME NEW c \in Contents, Restore(c) PROVE RowsShown'
  <2>1. PICK new \in RowType :
           /\ row' = [row EXCEPT ![c] = new]
           /\ new.deleted <=> row[c].deleted
           /\ new.status = (IF Visible(c) /\ row[c].status = "hidden" THEN "published"
                            ELSE row[c].status)
           /\ log[c] # NoLog /\ c \notin restored /\ restored' = restored \cup {c}
           /\ UNCHANGED <<edit, task, log>>
    BY <1>6, RestoredRow
  <2>2. RowShown(new)
    BY <1>0, <2>1 DEF RowShown, Shown, Visible
  <2> QED
    BY <1>0, <2>1, <2>2, RowWritten
<1>7. ASSUME NEW p \in Processes, Commit(p) PROVE RowsShown'
  <2>1. PICK c \in Contents, new \in RowType :
           /\ c = work[p].task /\ row[c].status # "none" /\ task[c].status # "none"
           /\ row' = [row EXCEPT ![c] = new]
           /\ new.deleted <=> row[c].deleted
           /\ new.status = (IF work[p].decision = "hidden" /\ Visible(c) THEN "hidden"
                            ELSE row[c].status)
           /\ UNCHANGED <<edit, restored>>
    BY <1>7, JudgedRow
  <2>2. RowShown(new)
    BY <1>0, <2>1 DEF RowShown, Shown, Visible
  <2> QED
    BY <1>0, <2>1, <2>2, RowWritten
<1>8. ASSUME NEW p \in Processes, Crash(p) PROVE RowsShown'
  <2>1. UNCHANGED row /\ \A d \in Contents : edit'[d] = edit[d] \/ edit'[d] = NoEdit
    BY <1>8 DEF Crash, database
  <2> QED
    BY <1>0, <2>1, ShownRows, ShownRowsNext
<1> QED
  BY <1>1, <1>2, <1>3, <1>4, <1>5, <1>6, <1>7, <1>8, OnlyAuthorsWriteRows

-----------------------------------------------------------------------------
(* Each step of the detailed specification, as a step of the abstract one *)

LEMMA AbstractSets ==
  /\ Promise!Contents = Contents /\ Promise!Editable = Editable
BY DEF Promise!Contents, Promise!Editable, Contents, Editable

\* Display, Review and DraftOf are functions of the row, of the verdict and
\* the task, and of the edit.
LEMMA SameDisplay ==
  ASSUME NEW c \in Contents, row'[c] = row[c]
  PROVE  Display(c)' = Display(c)
BY DEF Display

LEMMA SameReview ==
  ASSUME NEW c \in Contents, log'[c] = log[c],
         task'[c].status = "processed" <=> task[c].status = "processed",
         task'[c].status = "none" <=> task[c].status = "none"
  PROVE  Review(c)' = Review(c)
BY DEF Review

LEMMA SameDraft ==
  ASSUME NEW c \in Contents, edit'[c] = edit[c]
  PROVE  DraftOf(c)' = DraftOf(c)
BY DEF DraftOf

LEMMA DisplaysSame ==
  ASSUME UNCHANGED row
  PROVE  Displays' = Displays
BY SameDisplay DEF Displays

LEMMA ProgressSame ==
  ASSUME UNCHANGED <<task, log>>
  PROVE  Progress' = Progress
BY SameReview DEF Progress

LEMMA DraftsSame ==
  ASSUME UNCHANGED edit
  PROVE  Drafts' = Drafts
BY SameDraft DEF Drafts

\* A step that a reader cannot see.
LEMMA QuietRefines ==
  ASSUME UNCHANGED <<row, edit, log, restored>>,
         \A c \in Contents :
           /\ task'[c].status = "processed" <=> task[c].status = "processed"
           /\ task'[c].status = "none" <=> task[c].status = "none"
  PROVE  UNCHANGED Promise!vars
<1>1. Displays' = Displays /\ Drafts' = Drafts
  BY DisplaysSame, DraftsSame
<1>2. Progress' = Progress
  BY SameReview DEF Progress
<1> QED
  BY <1>1, <1>2 DEF Promise!vars, Displays, Progress, Drafts, DraftOf

\* How a written row changes what is displayed.
LEMMA Redisplayed ==
  ASSUME TypeOK, NEW c \in Contents, NEW new \in RowType, row' = [row EXCEPT ![c] = new],
         NEW shown,
         shown = (IF new.deleted THEN "gone"
                  ELSE IF new.status = "none" THEN "absent" ELSE new.status)
  PROVE  Displays' = [Displays EXCEPT ![c] = shown]
<1>1. row'[c] = new /\ \A d \in Contents \ {c} : row'[d] = row[d]
  BY Types
<1>2. Display(c)' = shown
  BY <1>1 DEF Display
<1>3. \A d \in Contents \ {c} : Display(d)' = Display(d)
  BY <1>1, SameDisplay
<1> QED
  BY <1>2, <1>3 DEF Displays

LEMMA Redrafted ==
  ASSUME NEW c \in Contents, \A d \in Contents \ {c} : edit'[d] = edit[d]
  PROVE  Drafts' = [Drafts EXCEPT ![c] = DraftOf(c)']
<1>1. \A d \in Contents \ {c} : DraftOf(d)' = DraftOf(d)
  BY SameDraft
<1> QED
  BY <1>1 DEF Drafts

LEMMA PublishRefines ==
  ASSUME IInv, RowsShown, NEW c \in Contents, NEW p \in Processes, NEW v \in Texts,
         Publish(c, p, v) \/ PublishSilently(c, p, v)
  PROVE  Promise!Publish(c)
<1>1. PICK new \in RowType :
        /\ row' = [row EXCEPT ![c] = new] /\ row[c].status = "none"
        /\ new.status = "published" /\ ~new.deleted
        /\ UNCHANGED <<edit, task, log, restored>>
  BY PublishedRow
<1>2. Displays' = [Displays EXCEPT ![c] = "published"]
  BY <1>1, Redisplayed DEF IInv
<1>3. Displays[c] = "absent"
  BY <1>1 DEF Displays, Display, RowsShown
<1>4. Progress' = Progress /\ Drafts' = Drafts
  BY <1>1, ProgressSame, DraftsSame
<1> QED
  BY <1>1, <1>2, <1>3, <1>4 DEF Promise!Publish, Displays, Progress, Drafts, DraftOf

LEMMA PresentIs ==
  ASSUME RowsShown, NEW c \in Contents
  PROVE  Promise!Present(c) <=> Visible(c)
<1>1. Visible(c) => Displays[c] \in {"published", "hidden"}
  BY DEF Displays, Display, RowsShown, Visible, Shown
<1>2. ~Visible(c) => Displays[c] \in {"gone", "absent"}
  BY DEF Displays, Display, Visible
<1> QED
  BY <1>1, <1>2 DEF Promise!Present, Displays

LEMMA RemoveRefines ==
  ASSUME IInv, RowsShown, NEW c \in Contents,
         NEW status \in {"hidden", "inactive", "deleted"}, Remove(c, status)
  PROVE  Promise!Remove(c)
<1>1. PICK new \in RowType :
        /\ row' = [row EXCEPT ![c] = new] /\ Visible(c)
        /\ new.status # "none" /\ new.deleted
        /\ UNCHANGED <<edit, task, log, restored>>
  BY RemovedRow
<1>2. Displays' = [Displays EXCEPT ![c] = "gone"]
  BY <1>1, Redisplayed DEF IInv
<1>3. Promise!Present(c)
  BY <1>1, PresentIs
<1>4. Progress' = Progress /\ Drafts' = Drafts
  BY <1>1, ProgressSame, DraftsSame
<1> QED
  BY <1>1, <1>2, <1>3, <1>4 DEF Promise!Remove, Displays, Progress, Drafts, DraftOf

LEMMA BeginEditRefines ==
  ASSUME IInv, RowsShown, NEW c \in Contents, NEW p \in Processes, BeginEdit(c, p)
  PROVE  Promise!OpenEdit(c)
<1> DEFINE new == [by |-> p, status |-> row[c].status]
<1>1. /\ Visible(c) /\ c \in Editable /\ edit[c] = NoEdit
      /\ edit' = [edit EXCEPT ![c] = new]
      /\ UNCHANGED <<row, task, log, restored>>
  BY DEF BeginEdit, database
<1>2. new.status = row[c].status /\ new # NoEdit
  <2>1. new \in Edit
    BY <1>1, Types DEF IInv, Edit, Visible, RowType, RowStatuses
  <2> QED
    BY <2>1, EditAssumption DEF Edit
<1> HIDE DEF new
<1>3. /\ edit'[c] = new /\ \A d \in Contents \ {c} : edit'[d] = edit[d]
  BY <1>1 DEF IInv, MapsOK
<1>4. DraftOf(c)' = row[c].status
  BY <1>2, <1>3 DEF DraftOf
<1>5. Display(c) = row[c].status
  BY <1>1 DEF Display, Visible
<1>6. Drafts' = [Drafts EXCEPT ![c] = Displays[c]]
  BY <1>3, <1>4, <1>5, Redrafted DEF Displays
<1>7. Drafts[c] = "none"
  BY <1>1 DEF Drafts, DraftOf
<1>8. Displays' = Displays /\ Progress' = Progress
  BY <1>1, DisplaysSame, ProgressSame
<1>9. Promise!Present(c) /\ c \in Promise!Editable
  BY <1>1, PresentIs, AbstractSets
<1> QED
  BY <1>1, <1>6, <1>7, <1>8, <1>9
     DEF Promise!OpenEdit, Displays, Progress, Drafts, DraftOf

LEMMA FinishEditRefines ==
  ASSUME IInv, RowsShown, NEW c \in Contents, NEW v \in Texts,
         FinishEdit(c, v) \/ FinishEditSilently(c, v)
  PROVE  Promise!SaveEdit(c)
<1>1. PICK new \in RowType :
        /\ row' = [row EXCEPT ![c] = new]
        /\ new.status = edit[c].status /\ edit[c] # NoEdit
        /\ new.deleted <=> row[c].deleted /\ c \in Reviews
        /\ edit' = [edit EXCEPT ![c] = NoEdit]
        /\ UNCHANGED <<task, log, restored>>
  BY EditedRow
<1>2. edit[c].status \in Shown
  BY <1>1 DEF RowsShown
<1>3. Drafts[c] = edit[c].status /\ Drafts[c] # "none"
  BY <1>1, <1>2 DEF Drafts, DraftOf, Shown
<1>4. Drafts' = [Drafts EXCEPT ![c] = "none"]
  <2>1. edit'[c] = NoEdit /\ \A d \in Contents \ {c} : edit'[d] = edit[d]
    BY <1>1 DEF IInv, MapsOK
  <2>2. DraftOf(c)' = "none"
    BY <2>1 DEF DraftOf
  <2> QED
    BY <2>1, <2>2, Redrafted
<1>5. Displays[c] = "gone" <=> row[c].deleted
  BY DEF Displays, Display, RowsShown, Visible, Shown
<1>6. Displays' = IF Displays[c] = "gone" /\ c \in Reviews THEN Displays
                  ELSE [Displays EXCEPT ![c] = Drafts[c]]
  <2>1. CASE row[c].deleted /\ c \in Reviews
    <3>1. Displays' = [Displays EXCEPT ![c] = "gone"]
      BY <1>1, <2>1, Redisplayed DEF IInv
    <3>2. Displays = [Displays EXCEPT ![c] = "gone"]
      BY <1>5, <2>1 DEF Displays
    <3> QED
      BY <1>5, <2>1, <3>1, <3>2
  <2>2. CASE ~(row[c].deleted /\ c \in Reviews)
    <3>1. edit[c].status # "none"
      BY <1>2 DEF Shown
    <3>2. Displays' = [Displays EXCEPT ![c] = edit[c].status]
      BY <1>1, <2>2, <3>1, Redisplayed DEF IInv
    <3> QED
      BY <1>3, <1>5, <2>2, <3>2
  <2> QED
    BY <2>1, <2>2
<1>7. Progress' = Progress
  BY <1>1, ProgressSame
<1> QED
  BY <1>1, <1>3, <1>4, <1>6, <1>7
     DEF Promise!SaveEdit, Displays, Progress, Drafts, DraftOf

LEMMA CrashRefines ==
  ASSUME IInv, NEW p \in Processes, Crash(p)
  PROVE  \E cs \in SUBSET Contents : Promise!LoseEdits(cs)
<1>0. PICK cs \in SUBSET Contents :
        cs = {c \in Contents : edit[c] # NoEdit /\ edit[c].by = p}
  OBVIOUS
<1>1. /\ UNCHANGED <<row, task, log, restored>>
      /\ edit' = [c \in Contents |-> IF edit[c] # NoEdit /\ edit[c].by = p
                                     THEN NoEdit ELSE edit[c]]
  BY DEF Crash, database
<1>2. \A c \in Contents : DraftOf(c)' = IF c \in cs THEN "none" ELSE Drafts[c]
  BY <1>0, <1>1 DEF DraftOf, Drafts
<1>3. Drafts' = [c \in Promise!Contents |-> IF c \in cs THEN "none" ELSE Drafts[c]]
  BY <1>2, AbstractSets DEF Drafts
<1>4. Displays' = Displays /\ Progress' = Progress
  BY <1>1, DisplaysSame, ProgressSame
<1>5. Promise!LoseEdits(cs)
  BY <1>1, <1>3, <1>4 DEF Promise!LoseEdits, Displays, Progress, Drafts, DraftOf
<1> QED
  BY <1>5

LEMMA RestoreRefines ==
  ASSUME IInv, RowsShown, NEW c \in Contents, Restore(c)
  PROVE  Promise!Restore(c)
<1>1. PICK new \in RowType :
        /\ row' = [row EXCEPT ![c] = new]
        /\ new.deleted <=> row[c].deleted
        /\ new.status = (IF Visible(c) /\ row[c].status = "hidden" THEN "published"
                         ELSE row[c].status)
        /\ log[c] # NoLog /\ c \notin restored /\ restored' = restored \cup {c}
        /\ UNCHANGED <<edit, task, log>>
  BY RestoredRow
<1>2. Displays[c] = "hidden" <=> Visible(c) /\ row[c].status = "hidden"
  BY DEF Displays, Display, Visible
<1>3. Displays' = IF Displays[c] = "hidden" THEN [Displays EXCEPT ![c] = "published"]
                  ELSE Displays
  <2>1. CASE Visible(c) /\ row[c].status = "hidden"
    <3>1. new.status = "published" /\ ~new.deleted
      BY <1>1, <2>1 DEF Visible
    <3>2. Displays' = [Displays EXCEPT ![c] = "published"]
      BY <1>1, <3>1, Redisplayed DEF IInv
    <3> QED
      BY <1>2, <2>1, <3>2
  <2>2. CASE ~(Visible(c) /\ row[c].status = "hidden")
    <3>1. new.status = row[c].status
      BY <1>1, <2>2
    <3>2. PICK shown : shown = Display(c)
      OBVIOUS
    <3>3. shown = (IF new.deleted THEN "gone"
                   ELSE IF new.status = "none" THEN "absent" ELSE new.status)
      BY <1>1, <3>1, <3>2 DEF Display
    <3>4. Displays' = [Displays EXCEPT ![c] = shown]
      BY <1>1, <3>3, Redisplayed DEF IInv
    <3>5. Displays = [Displays EXCEPT ![c] = shown]
      BY <3>2 DEF Displays
    <3> QED
      BY <1>2, <2>2, <3>4, <3>5
  <2> QED
    BY <2>1, <2>2
<1>4. Progress[c] \in Promise!Verdicts
  BY <1>1 DEF Progress, Review, IInv, MapsOK, LogType, Promise!Verdicts
<1>5. Progress' = Progress /\ Drafts' = Drafts
  BY <1>1, ProgressSame, DraftsSame
<1> QED
  BY <1>1, <1>3, <1>4, <1>5 DEF Promise!Restore, Displays, Progress, Drafts, DraftOf

LEMMA CommitRefines ==
  ASSUME IInv, RowsShown, NEW p \in Processes, Commit(p)
  PROVE  \E c \in Contents, verdict \in Promise!Verdicts : Promise!Judge(c, verdict)
<1>1. PICK c \in Contents, new \in RowType :
        /\ c = work[p].task /\ row[c].status # "none" /\ task[c].status # "none"
        /\ row' = [row EXCEPT ![c] = new]
        /\ new.deleted <=> row[c].deleted
        /\ new.status = (IF work[p].decision = "hidden" /\ Visible(c) THEN "hidden"
                         ELSE row[c].status)
        /\ UNCHANGED <<edit, restored>>
  BY JudgedRow
<1>2. PICK verdict \in Promise!Verdicts : verdict = work[p].decision
  BY DEF Commit, IInv, HandOK, Promise!Verdicts
<1> DEFINE stored == [decision |-> work[p].decision, semantic |-> work[p].semantic,
                      text |-> work[p].text]
<1>3. stored # NoLog /\ stored.decision = verdict
  BY <1>2, CommitLogs, LogAssumption DEF Commit
<1>4. /\ log[c] = NoLog /\ log' = [log EXCEPT ![c] = stored]
      /\ task' = [task EXCEPT ![c] = Processed(c)]
  BY <1>1 DEF Commit
<1> HIDE DEF stored
<1>5. /\ log'[c] = stored /\ \A d \in Contents \ {c} : log'[d] = log[d]
      /\ \A d \in Contents \ {c} : task'[d] = task[d]
  BY <1>4, Types DEF IInv, MapsOK
<1>6. Progress' = [Progress EXCEPT ![c] = verdict]
  <2>1. Review(c)' = verdict
    BY <1>3, <1>5 DEF Review
  <2>2. \A d \in Contents \ {c} : Review(d)' = Review(d)
    BY <1>5, SameReview
  <2> QED
    BY <2>1, <2>2 DEF Progress
<1>7. Progress[c] \in {"queued", "dismissed"}
  BY <1>1, <1>4 DEF Progress, Review
<1>8. Promise!Present(c) <=> Visible(c)
  BY PresentIs
<1>9. Displays' = IF verdict = "hidden" /\ Promise!Present(c)
                  THEN [Displays EXCEPT ![c] = "hidden"] ELSE Displays
  <2>1. CASE verdict = "hidden" /\ Visible(c)
    <3>1. new.status = "hidden" /\ ~new.deleted
      BY <1>1, <1>2, <2>1 DEF Visible
    <3>2. PICK shown : shown = "hidden"
      OBVIOUS
    <3>3. shown = (IF new.deleted THEN "gone"
                   ELSE IF new.status = "none" THEN "absent" ELSE new.status)
      BY <3>1, <3>2
    <3>4. Displays' = [Displays EXCEPT ![c] = shown]
      BY <1>1, <3>3, Redisplayed DEF IInv
    <3> QED
      BY <1>8, <2>1, <3>2, <3>4
  <2>2. CASE ~(verdict = "hidden" /\ Visible(c))
    <3>1. new.status = row[c].status
      BY <1>1, <1>2, <2>2
    <3>2. PICK shown : shown = Display(c)
      OBVIOUS
    <3>3. shown = (IF new.deleted THEN "gone"
                   ELSE IF new.status = "none" THEN "absent" ELSE new.status)
      BY <1>1, <3>1, <3>2 DEF Display
    <3>4. Displays' = [Displays EXCEPT ![c] = shown]
      BY <1>1, <3>3, Redisplayed DEF IInv
    <3>5. Displays = [Displays EXCEPT ![c] = shown]
      BY <3>2 DEF Displays
    <3> QED
      BY <1>8, <2>2, <3>4, <3>5
  <2> QED
    BY <2>1, <2>2
<1>10. Drafts' = Drafts
  BY <1>1, DraftsSame
<1>11. Promise!Judge(c, verdict)
  BY <1>1, <1>6, <1>7, <1>9, <1>10
     DEF Promise!Judge, Displays, Progress, Drafts, DraftOf
<1> QED
  BY <1>11

\* INSERT ... ON CONFLICT DO NOTHING, whatever it inserts.
LEMMA EnqueueRefines ==
  ASSUME IInv, RowsShown, NEW cs \in SUBSET Contents,
         \A c \in cs : row[c].status # "none",
         task' = Enqueued(cs), UNCHANGED <<row, edit, log, restored>>
  PROVE  \E new \in SUBSET Contents : Promise!Queue(new)
<1>1. PICK new \in SUBSET Contents : new = {c \in cs : task[c].status = "none"}
  OBVIOUS
<1>2. /\ \A c \in new : task'[c].status = "pending"
      /\ \A c \in Contents \ new : task'[c] = task[c]
  BY <1>1, Types DEF Enqueued, TaskType, IInv
<1>3. \A c \in new : /\ log[c] = NoLog /\ Progress[c] = "none"
                     /\ Displays[c] # "absent"
  <2>1. ASSUME NEW c \in new PROVE Displays[c] # "absent"
    BY <1>1, <2>1 DEF Displays, Display, RowsShown, Visible, Shown
  <2>2. ASSUME NEW c \in new PROVE log[c] = NoLog /\ Progress[c] = "none"
    BY <1>1 DEF Progress, Review, IInv, TasksOK
  <2> QED
    BY <2>1, <2>2
<1>4. ASSUME NEW c \in Contents
      PROVE  Review(c)' = IF c \in new THEN "queued" ELSE Progress[c]
  <2>1. CASE c \in new
    BY <1>2, <1>3, <2>1 DEF Review
  <2>2. CASE c \notin new
    BY <1>2, <2>2, SameReview DEF Progress
  <2> QED
    BY <2>1, <2>2
<1>5. Progress' = [c \in Promise!Contents |-> IF c \in new THEN "queued" ELSE Progress[c]]
  BY <1>4, AbstractSets DEF Progress
<1>6. Displays' = Displays /\ Drafts' = Drafts
  BY DisplaysSame, DraftsSame
<1>7. Promise!Queue(new)
  BY <1>3, <1>5, <1>6 DEF Promise!Queue, Displays, Progress, Drafts, DraftOf
<1> QED
  BY <1>7

LEMMA SweepRefines ==
  ASSUME IInv, RowsShown, NEW p \in Processes, Sweep(p)
  PROVE  \E cs \in SUBSET Contents : Promise!Queue(cs)
<1>1. PICK cs \in SUBSET Contents :
        /\ \A kind \in {Messages, Reviews, Publications} :
             cs \cap kind \subseteq Orphans(kind)
        /\ task' = Enqueued(cs)
  BY DEF Sweep
<1>2. \A c \in cs : row[c].status # "none"
  BY <1>1 DEF Contents, Editable, Orphans, Visible
<1> QED
  BY <1>1, <1>2, EnqueueRefines DEF Sweep

LEMMA HandleCreatedRefines ==
  ASSUME IInv, RowsShown, NEW p \in Processes, NEW c \in Contents, HandleCreated(p, c)
  PROVE  \E cs \in SUBSET Contents : Promise!Queue(cs)
<1>1. \A d \in {c} : row[d].status # "none"
  BY DEF HandleCreated, IInv, RowsOK
<1> QED
  BY <1>1, EnqueueRefines DEF HandleCreated

LEMMA ReadContentRefines ==
  ASSUME IInv, RowsShown, NEW p \in Processes, ReadContent(p)
  PROVE  UNCHANGED Promise!vars \/ \E c \in Contents : Promise!Dismiss(c)
<1>0. /\ UNCHANGED <<row, edit, log, restored>>
      /\ task \in [Contents -> TaskType]
      /\ batch[p] \subseteq Claimed
  BY Types DEF ReadContent, IInv
<1>1. PICK b \in batch[p] :
        \/ task' = task
        \/ /\ ~Visible(b.task) /\ task[b.task].token = p
           /\ task' = [task EXCEPT ![b.task] = Processed(b.task)]
  BY DEF ReadContent
<1>2. PICK c \in Contents : c = b.task
  BY <1>0 DEF Claimed
<1>3. CASE task' = task
  BY <1>0, <1>3, QuietRefines
<1>4. CASE /\ ~Visible(c) /\ task[c].token = p
           /\ task' = [task EXCEPT ![c] = Processed(c)]
  <2>1. /\ task[c].status = "processing" /\ log[c] = NoLog
        /\ row[c].status # "none"
    BY <1>4, ProcessesAssumption DEF IInv, TasksOK, RowsOK
  <2>2. Processed(c).status = "processed"
    BY <1>0, FinishedTask DEF Processed, Finished
  <2>3. /\ task'[c].status = "processed" /\ log'[c] = NoLog
        /\ \A d \in Contents \ {c} : task'[d] = task[d]
    BY <1>0, <1>4, <2>1, <2>2
  <2>4. Progress[c] = "queued"
    BY <2>1 DEF Progress, Review
  <2>5. Displays[c] = "gone"
    BY <1>4, <2>1 DEF Displays, Display, Visible
  <2>6. Review(c)' = "dismissed"
    BY <2>3 DEF Review
  <2>7. \A d \in Contents \ {c} : Review(d)' = Review(d)
    BY <1>0, <2>3, SameReview
  <2>8. Progress' = [Progress EXCEPT ![c] = "dismissed"]
    BY <2>6, <2>7 DEF Progress
  <2>9. Displays' = Displays /\ Drafts' = Drafts
    BY <1>0, DisplaysSame, DraftsSame
  <2>10. Promise!Dismiss(c)
    BY <1>0, <2>4, <2>5, <2>8, <2>9
       DEF Promise!Dismiss, Displays, Progress, Drafts, DraftOf
  <2> QED
    BY <2>10
<1> QED
  BY <1>1, <1>2, <1>3, <1>4

LEMMA ClaimRefines ==
  ASSUME IInv, NEW p \in Processes, Claim(p)
  PROVE  UNCHANGED Promise!vars
<1>1. PICK cs \in SUBSET Claimable :
        task' = [c \in Contents |->
                   IF c \in cs THEN [task[c] EXCEPT !.status = "processing",
                                                    !.leased = TRUE, !.token = p]
                   ELSE task[c]]
  BY DEF Claim
<1>2. UNCHANGED <<row, edit, log, restored>> /\ task \in [Contents -> TaskType]
  BY Types DEF Claim, IInv
<1>3. ASSUME NEW c \in Contents
      PROVE  /\ task'[c].status = "processed" <=> task[c].status = "processed"
             /\ task'[c].status = "none" <=> task[c].status = "none"
  <2>1. CASE c \in cs
    <3>1. task'[c] = Taken(task[c], p)
      BY <1>1, <2>1 DEF Taken
    <3>2. task'[c].status = "processing"
      BY <1>2, <3>1, TakenTask
    <3> QED
      BY <1>1, <2>1, <3>2 DEF Claimable
  <2>2. CASE c \notin cs
    BY <1>1, <2>2
  <2> QED
    BY <2>1, <2>2
<1> QED
  BY <1>2, <1>3, QuietRefines

LEMMA RescheduleRefines ==
  ASSUME IInv, NEW p \in Processes, Reschedule(p)
  PROVE  UNCHANGED Promise!vars
<1>0. UNCHANGED <<row, edit, log, restored>> /\ task \in [Contents -> TaskType]
  BY Types DEF Reschedule, IInv
<1>1. PICK c \in Contents : c = work[p].task
  BY DEF Reschedule, IInv, HandOK, Busy
<1> DEFINE new == [status |-> "retry", attempts |-> work[p].attempts + 1,
                   due |-> FALSE, leased |-> FALSE, token |-> NoProcess]
<1>2. new.status = "retry"
  OBVIOUS
<1>3. \/ task' = task
      \/ task[c].token = p /\ task' = [task EXCEPT ![c] = new]
  BY <1>1 DEF Reschedule
<1> HIDE DEF new
<1>4. task[c].token = p => task[c].status = "processing"
  BY ProcessesAssumption DEF IInv, TasksOK
<1>5. \A d \in Contents :
        /\ task'[d].status = "processed" <=> task[d].status = "processed"
        /\ task'[d].status = "none" <=> task[d].status = "none"
  BY <1>0, <1>2, <1>3, <1>4
<1> QED
  BY <1>0, <1>5, QuietRefines

LEMMA BootRefines ==
  ASSUME IInv, NEW p \in Processes, Boot(p)
  PROVE  UNCHANGED Promise!vars
<1>0. UNCHANGED <<row, edit, log, restored>> /\ task \in [Contents -> TaskType]
  BY Types DEF Boot, IInv
<1>1. \A c \in Contents :
        \/ task'[c] = task[c]
        \/ task[c].status = "processing" /\ task'[c] = Freed(task[c])
  BY <1>0 DEF Boot, Freed
<1>2. \A c \in Contents :
        \/ task'[c] = task[c]
        \/ task[c].status = "processing" /\ task'[c].status = "pending"
  BY <1>0, <1>1, FreedTask
<1> QED
  BY <1>0, <1>2, QuietRefines

LEMMA TimeRefines ==
  ASSUME IInv, Time
  PROVE  UNCHANGED Promise!vars
<1>0. UNCHANGED <<row, edit, log, restored>> /\ task \in [Contents -> TaskType]
  BY Types DEF Time, LeaseExpires, RetryDue, IInv
<1>1. ASSUME NEW c \in Contents, NEW new \in TaskType, new.status = task[c].status,
             task' = [task EXCEPT ![c] = new]
      PROVE  \A d \in Contents : task'[d].status = task[d].status
  BY <1>0, <1>1
<1>2. ASSUME NEW c \in Contents, LeaseExpires(c)
      PROVE  \A d \in Contents : task'[d].status = task[d].status
  <2> DEFINE new == [task[c] EXCEPT !.leased = FALSE]
  <2>1. new \in TaskType /\ new.status = task[c].status
    BY <1>0 DEF TaskType
  <2>2. task' = [task EXCEPT ![c] = new]
    BY <1>0, <1>2 DEF LeaseExpires
  <2> HIDE DEF new
  <2> QED
    BY <1>1, <2>1, <2>2
<1>3. ASSUME NEW c \in Contents, RetryDue(c)
      PROVE  \A d \in Contents : task'[d].status = task[d].status
  <2> DEFINE new == [task[c] EXCEPT !.due = TRUE]
  <2>1. new \in TaskType /\ new.status = task[c].status
    BY <1>0 DEF TaskType
  <2>2. task' = [task EXCEPT ![c] = new]
    BY <1>0, <1>3 DEF RetryDue
  <2> HIDE DEF new
  <2> QED
    BY <1>1, <2>1, <2>2
<1> QED
  BY <1>0, <1>2, <1>3, QuietRefines DEF Time

LEMMA StepRefines ==
  ASSUME IInv, RowsShown, [Next]_vars
  PROVE  [Promise!Next]_(Promise!vars)
<1>1. CASE UNCHANGED <<row, task, log, restored, edit>>
  BY <1>1, QuietRefines
<1>2. ASSUME NEW p \in Processes, Commit(p) PROVE Promise!Next
  BY <1>2, CommitRefines, AbstractSets DEF Promise!Next
<1>3. ASSUME NEW p \in Processes, Worker(p) PROVE [Promise!Next]_(Promise!vars)
  <2>1. CASE Lexical(p) \/ Semantic(p) \/ Verify(p) \/ CommitConflict(p)
    BY <1>1, <2>1 DEF Lexical, Semantic, Verify, CommitConflict, database
  <2>2. CASE ReadContent(p)
    BY <2>2, ReadContentRefines, AbstractSets DEF Promise!Next
  <2>3. CASE Sweep(p)
    BY <2>3, SweepRefines, AbstractSets DEF Promise!Next
  <2> QED
    BY <1>2, <1>3, <2>1, <2>2, <2>3, ClaimRefines, RescheduleRefines DEF Worker
<1>4. ASSUME NEW p \in Processes, Handlers(p) PROVE [Promise!Next]_(Promise!vars)
  <2>1. ASSUME NEW c \in Contents, HandleCreated(p, c) PROVE Promise!Next
    BY <2>1, HandleCreatedRefines, AbstractSets DEF Promise!Next
  <2>2. ASSUME NEW c \in Contents, HandleWake(p, c) \/ TimerFires(p, c)
        PROVE  [Promise!Next]_(Promise!vars)
    BY <1>1, <2>2 DEF HandleWake, TimerFires, database
  <2> QED
    BY <1>4, <2>1, <2>2 DEF Handlers
<1>5. CASE Author
  <2>1. ASSUME NEW c \in Contents, NEW p \in Processes, NEW v \in Texts,
               Publish(c, p, v) \/ PublishSilently(c, p, v)
        PROVE  Promise!Next
    BY <2>1, PublishRefines, AbstractSets DEF Promise!Next
  <2>2. ASSUME NEW c \in Contents, NEW p \in Processes, BeginEdit(c, p)
        PROVE  Promise!Next
    BY <2>2, BeginEditRefines, AbstractSets DEF Promise!Next
  <2>3. ASSUME NEW c \in Contents, NEW v \in Texts,
               FinishEdit(c, v) \/ FinishEditSilently(c, v)
        PROVE  Promise!Next
    BY <2>3, FinishEditRefines, AbstractSets DEF Promise!Next
  <2>4. ASSUME NEW c \in Contents, NEW status \in {"hidden", "inactive", "deleted"},
               Remove(c, status)
        PROVE  Promise!Next
    BY <2>4, RemoveRefines, AbstractSets DEF Promise!Next
  <2>5. ASSUME NEW c \in Contents, Restore(c) PROVE Promise!Next
    BY <2>5, RestoreRefines, AbstractSets DEF Promise!Next
  <2> QED
    BY <1>5, <2>1, <2>2, <2>3, <2>4, <2>5 DEF Author
<1>6. CASE Failure
  <2>1. ASSUME NEW p \in Processes, Crash(p) PROVE Promise!Next
    BY <2>1, CrashRefines, AbstractSets DEF Promise!Next
  <2>2. ASSUME NEW p \in Processes,
               \/ LexicalWithoutList(p) \/ StatementFails(p) \/ BootFails(p)
               \/ \E c \in Contents : HandleCreatedFails(p, c)
        PROVE  UNCHANGED <<row, task, log, restored, edit>>
    BY <2>2 DEF LexicalWithoutList, StatementFails, BootFails, HandleCreatedFails,
                database
  <2> QED
    BY <1>1, <1>6, <2>1, <2>2 DEF Failure
<1>7. CASE UNCHANGED vars
  BY <1>1, <1>7 DEF vars, database
<1> QED
  BY <1>3, <1>4, <1>5, <1>6, <1>7, BootRefines, TimeRefines DEF Next

LEMMA InitRefines == Init => RowsShown /\ Promise!Init
<1> SUFFICES ASSUME Init PROVE RowsShown /\ Promise!Init
  OBVIOUS
<1>1. \A c \in Contents : /\ row[c] = NoRow /\ edit[c] = NoEdit
                          /\ task[c] = NoTask /\ log[c] = NoLog
  BY DEF Init
<1>2. NoRow.status = "none" /\ ~NoRow.deleted /\ NoTask.status = "none"
  BY DEF NoRow, NoTask
<1>3. RowsShown
  BY <1>1, <1>2 DEF RowsShown, Visible
<1>4. \A c \in Contents : /\ Display(c) = "absent" /\ Review(c) = "none"
                          /\ DraftOf(c) = "none"
  BY <1>1, <1>2 DEF Display, Review, DraftOf
<1>5. /\ Displays = [c \in Promise!Contents |-> "absent"]
      /\ Progress = [c \in Promise!Contents |-> "none"]
      /\ Drafts = [c \in Promise!Contents |-> "none"]
  BY <1>4, AbstractSets DEF Displays, Progress, Drafts
<1> QED
  BY <1>3, <1>5 DEF Init, Promise!Init, Displays, Progress, Drafts, DraftOf

\* Every behaviour of the queue, its workers, their crashes, retries and
\* leases is one of the abstract moderation: each content is judged at most
\* once, and its verdict takes effect together with it.
THEOREM Refinement == Spec => ImplementsContentScreening
<1>1. IInv /\ RowsShown /\ [Next]_vars => RowsShown' /\ [Promise!Next]_(Promise!vars)
  BY StepKeepsShown, StepRefines
<1> QED
  BY <1>1, InitOK, StepKeepsIInv, InitRefines, PTL
     DEF Spec, ImplementsContentScreening, Promise!Spec

-----------------------------------------------------------------------------
(* What the abstract moderation guarantees *)

\* A message nobody edits: until it is judged it is shown as it was
\* published, and what was dismissed is gone for good.
MessageRule(c) ==
  /\ Drafts[c] = "none"
  /\ Progress[c] \in {"none", "queued", "dismissed"} \cup Promise!Verdicts
  /\ Displays[c] = "absent" => Progress[c] = "none"
  /\ Progress[c] = "dismissed" => Displays[c] = "gone"
  /\ Progress[c] \in {"none", "queued"} => Displays[c] # "hidden"
  /\ Progress[c] \in Promise!Verdicts /\ Displays[c] \in Shown /\ c \notin restored =>
       (Displays[c] = "hidden" <=> Progress[c] = "hidden")

MessageRules == \A c \in Messages : MessageRule(c)

LEMMA AbstractStepKeepsRules ==
  ASSUME MessageRules, Promise!Next
  PROVE  MessageRules'
<1>0. /\ \A c \in Messages : c \in Contents /\ c \notin Editable
      /\ DOMAIN Displays = Contents /\ DOMAIN Progress = Contents /\ DOMAIN Drafts = Contents
  BY KindsAssumption DEF Contents, Displays, Progress, Drafts
<1>1. ASSUME NEW c \in Contents, Promise!Publish(c) PROVE MessageRules'
  <2>1. /\ Displays[c] = "absent" /\ Displays' = [Displays EXCEPT ![c] = "published"]
        /\ Progress' = Progress /\ restored' = restored /\ Drafts' = Drafts
    BY <1>1 DEF Promise!Publish, Displays, Progress, Drafts, DraftOf
  <2> QED
    BY <1>0, <2>1 DEF MessageRules, MessageRule, Promise!Verdicts, Shown
<1>2. ASSUME NEW c \in Contents, Promise!Remove(c) PROVE MessageRules'
  <2>1. /\ Displays[c] \in Shown /\ Displays' = [Displays EXCEPT ![c] = "gone"]
        /\ Progress' = Progress /\ restored' = restored /\ Drafts' = Drafts
    BY <1>2 DEF Promise!Remove, Promise!Present, Shown, Displays, Progress, Drafts, DraftOf
  <2> QED
    BY <1>0, <2>1 DEF MessageRules, MessageRule, Promise!Verdicts, Shown
<1>3. ASSUME NEW c \in Contents, Promise!OpenEdit(c) PROVE MessageRules'
  <2>1. /\ Displays' = Displays /\ c \in Editable /\ Drafts' = [Drafts EXCEPT ![c] = Displays[c]]
        /\ Progress' = Progress /\ restored' = restored
    BY <1>3, AbstractSets DEF Promise!OpenEdit, Displays, Progress, Drafts, DraftOf
  <2> QED
    BY <1>0, <2>1 DEF MessageRules, MessageRule
<1>4. ASSUME NEW c \in Contents, Promise!SaveEdit(c) PROVE MessageRules'
  <2>1. /\ Drafts[c] # "none" /\ Drafts' = [Drafts EXCEPT ![c] = "none"]
        /\ \/ Displays' = Displays
           \/ Displays' = [Displays EXCEPT ![c] = Drafts[c]]
        /\ Progress' = Progress /\ restored' = restored
    BY <1>4 DEF Promise!SaveEdit, Displays, Progress, Drafts, DraftOf
  <2> QED
    BY <1>0, <2>1 DEF MessageRules, MessageRule
<1>5. ASSUME NEW c \in Contents, Promise!Dismiss(c) PROVE MessageRules'
  <2>1. /\ Progress[c] = "queued" /\ Displays[c] = "gone"
        /\ Progress' = [Progress EXCEPT ![c] = "dismissed"]
        /\ Displays' = Displays /\ restored' = restored /\ Drafts' = Drafts
    BY <1>5 DEF Promise!Dismiss, Displays, Progress, Drafts, DraftOf
  <2> QED
    BY <1>0, <2>1 DEF MessageRules, MessageRule, Promise!Verdicts, Shown
<1>6. ASSUME NEW c \in Contents, Promise!Restore(c) PROVE MessageRules'
  <2>1. /\ Progress[c] \in Promise!Verdicts /\ restored' = restored \cup {c}
        /\ Displays' = IF Displays[c] = "hidden"
                       THEN [Displays EXCEPT ![c] = "published"] ELSE Displays
        /\ Progress' = Progress /\ Drafts' = Drafts
    BY <1>6 DEF Promise!Restore, Displays, Progress, Drafts, DraftOf
  <2> QED
    BY <1>0, <2>1 DEF MessageRules, MessageRule, Promise!Verdicts
<1>7. ASSUME NEW c \in Contents, NEW verdict \in Promise!Verdicts, Promise!Judge(c, verdict)
      PROVE  MessageRules'
  <2>1. /\ Progress[c] \in {"queued", "dismissed"}
        /\ Progress' = [Progress EXCEPT ![c] = verdict]
        /\ Displays' = IF verdict = "hidden" /\ Displays[c] \in Shown
                       THEN [Displays EXCEPT ![c] = "hidden"] ELSE Displays
        /\ restored' = restored /\ Drafts' = Drafts
    BY <1>7 DEF Promise!Judge, Promise!Present, Shown, Displays, Progress, Drafts, DraftOf
  <2> QED
    BY <1>0, <2>1 DEF MessageRules, MessageRule, Promise!Verdicts, Shown
<1>8. ASSUME NEW cs \in SUBSET Contents, Promise!LoseEdits(cs) PROVE MessageRules'
  <2>1. /\ Drafts' = [c \in Contents |-> IF c \in cs THEN "none" ELSE Drafts[c]]
        /\ Displays' = Displays /\ Progress' = Progress /\ restored' = restored
    BY <1>8, AbstractSets DEF Promise!LoseEdits, Displays, Progress, Drafts, DraftOf
  <2> QED
    BY <1>0, <2>1 DEF MessageRules, MessageRule
<1>9. ASSUME NEW cs \in SUBSET Contents, Promise!Queue(cs) PROVE MessageRules'
  <2>1. /\ \A c \in cs : Progress[c] = "none" /\ Displays[c] # "absent"
        /\ Progress' = [c \in Contents |-> IF c \in cs THEN "queued" ELSE Progress[c]]
        /\ Displays' = Displays /\ restored' = restored /\ Drafts' = Drafts
    BY <1>9, AbstractSets DEF Promise!Queue, Displays, Progress, Drafts, DraftOf
  <2> QED
    BY <1>0, <2>1 DEF MessageRules, MessageRule, Promise!Verdicts
<1> QED
  BY <1>1, <1>2, <1>3, <1>4, <1>5, <1>6, <1>7, <1>8, <1>9, AbstractSets
     DEF Promise!Next

\* Of a message that is still there readers see what its verdict says, until
\* an appeal wins: whatever crashes, statements that fail, lost leases or
\* second workers do in between.
THEOREM VerdictsTakeEffect == Spec => []Promise!VerdictsRule
<1>1. Promise!Init => MessageRules
  <2> SUFFICES ASSUME Promise!Init PROVE MessageRules
    OBVIOUS
  <2>1. \A c \in Messages : c \in Contents
    BY DEF Contents
  <2>2. \A c \in Contents : /\ Displays[c] = "absent" /\ Progress[c] = "none"
                            /\ Drafts[c] = "none"
    BY AbstractSets DEF Promise!Init, Displays, Progress, Drafts, DraftOf
  <2> QED
    BY <2>1, <2>2 DEF MessageRules, MessageRule, Promise!Verdicts, Shown
<1>2. MessageRules /\ [Promise!Next]_(Promise!vars) => MessageRules'
  <2>1. ASSUME MessageRules, UNCHANGED Promise!vars PROVE MessageRules'
    <3>1. /\ Displays' = Displays /\ Progress' = Progress /\ Drafts' = Drafts
          /\ restored' = restored
      BY <2>1 DEF Promise!vars, Displays, Progress, Drafts, DraftOf
    <3> QED
      BY <2>1, <3>1 DEF MessageRules, MessageRule
  <2> QED
    BY <2>1, AbstractStepKeepsRules
<1>3. MessageRules => Promise!VerdictsRule
  <2> SUFFICES ASSUME MessageRules, NEW c \in Messages, c \notin restored,
                      Displays[c] \in Shown
               PROVE  /\ Progress[c] # "dismissed"
                      /\ Displays[c] = "hidden" <=> Progress[c] = "hidden"
    BY DEF Promise!VerdictsRule, Promise!Present, Shown, Displays, Progress
  <2> QED
    BY DEF MessageRules, MessageRule, Promise!Verdicts, Shown
<1> QED
  BY <1>1, <1>2, <1>3, Refinement, PTL DEF ImplementsContentScreening, Promise!Spec

-----------------------------------------------------------------------------
(* Nothing that is published is forgotten *)

Announced(c) == \E p \in Processes : [stage |-> "created", content |-> c] \in bus[p]

Restarting == \E p \in Processes : up[p] = "down" \/ pc[p] = "sweep"

\* A start that has to make up for a crash finds no more orphans of a kind
\* than it takes.
SweepsSuffice ==
  spent.crashes > 0 =>
    \A p \in Processes : pc[p] = "sweep" =>
      \A kind \in {Messages, Reviews, Publications} :
        Cardinality(Orphans(kind)) <= SweepLimit

Reached(c) == Announced(c) \/ (spent.crashes > 0 /\ Restarting)

\* What readers see and no task covers is about to get one: from an event that
\* is still on a bus or, after a crash, from the sweep of a start to come.
NothingForgotten ==
  spent.faults = 0 =>
    \A c \in Contents : Visible(c) /\ task[c].status = "none" => Reached(c)

Unqueued(c) == Visible(c) /\ task[c].status = "none"

\* A task, once there, is never removed: the abstract moderation never takes
\* a content back out of its queue.
LEMMA TasksStay ==
  ASSUME IInv, RowsShown, [Next]_vars, NEW c \in Contents, task'[c].status = "none"
  PROVE  task[c].status = "none"
<1>1. IInv'
  BY StepKeepsIInv
<1>2. /\ Progress[c] = "none" <=> task[c].status = "none"
      /\ Progress'[c] = "none" <=> task'[c].status = "none"
  BY <1>1, LogAssumption DEF IInv, TasksOK, MapsOK, LogType, Progress, Review
<1>3. [Promise!Next]_(Promise!vars)
  BY StepRefines
<1>4. CASE UNCHANGED Promise!vars
  BY <1>2, <1>4 DEF Promise!vars, Progress
<1>5. CASE \E d \in Contents : \/ Promise!Publish(d) \/ Promise!Remove(d)
                               \/ Promise!OpenEdit(d) \/ Promise!SaveEdit(d)
                               \/ Promise!Restore(d)
  <2>1. Progress' = Progress
    BY <1>5 DEF Promise!Publish, Promise!Remove, Promise!OpenEdit, Promise!SaveEdit,
                Promise!Restore, Progress
  <2> QED
    BY <1>2, <2>1
<1>6. CASE \E d \in Contents : Promise!Dismiss(d)
  <2>1. PICK d \in Contents : Progress' = [Progress EXCEPT ![d] = "dismissed"]
    BY <1>6 DEF Promise!Dismiss, Progress
  <2> QED
    BY <1>2, <2>1 DEF Progress
<1>7. CASE \E d \in Contents, verdict \in Promise!Verdicts : Promise!Judge(d, verdict)
  <2>1. PICK d \in Contents, verdict \in Promise!Verdicts :
          Progress' = [Progress EXCEPT ![d] = verdict]
    BY <1>7 DEF Promise!Judge, Progress
  <2> QED
    BY <1>2, <2>1 DEF Progress, Promise!Verdicts
<1>8. CASE \E cs \in SUBSET Contents : Promise!Queue(cs)
  <2>1. PICK cs \in SUBSET Contents :
          Progress' = [d \in Contents |-> IF d \in cs THEN "queued" ELSE Progress[d]]
    BY <1>8, AbstractSets DEF Promise!Queue, Progress
  <2> QED
    BY <1>2, <2>1
<1>9. CASE \E cs \in SUBSET Contents : Promise!LoseEdits(cs)
  <2>1. Progress' = Progress
    BY <1>9 DEF Promise!LoseEdits, Progress
  <2> QED
    BY <1>2, <2>1
<1> QED
  BY <1>3, <1>4, <1>5, <1>6, <1>7, <1>8, <1>9, AbstractSets DEF Promise!Next

\* A task that is enqueued is there.
LEMMA EnqueuedIsThere ==
  ASSUME task \in [Contents -> TaskType], NEW cs \in SUBSET Contents, NEW c \in cs,
         task' = Enqueued(cs)
  PROVE  task'[c].status # "none"
<1>1. task'[c] = IF task[c].status = "none" THEN [task[c] EXCEPT !.status = "pending"]
                 ELSE task[c]
  BY DEF Enqueued
<1>2. [task[c] EXCEPT !.status = "pending"].status = "pending"
  BY DEF TaskType
<1> QED
  BY <1>1, <1>2

\* A sweep that meets no more orphans than its limit leaves none behind.
LEMMA SweepTakesAll ==
  ASSUME IInv, NEW p \in Processes, Sweep(p), SweepsSuffice, spent.crashes > 0,
         NEW c \in Contents, Unqueued(c)
  PROVE  task'[c].status # "none"
<1>1. PICK cs \in SUBSET Contents :
        /\ \A kind \in {Messages, Reviews, Publications} :
             /\ cs \cap kind \subseteq Orphans(kind)
             /\ Orphans(kind) \subseteq cs \/ Cardinality(cs \cap kind) = SweepLimit
        /\ task' = Enqueued(cs)
  BY DEF Sweep
<1>2. PICK kind \in {Messages, Reviews, Publications} : c \in kind
  BY DEF Contents, Editable
<1>3. IsFiniteSet(Orphans(kind))
  <2>1. Orphans(kind) \subseteq Contents
    BY DEF Orphans, Contents, Editable
  <2> QED
    BY <2>1, KindsAssumption, FS_Subset
<1>4. c \in Orphans(kind)
  BY <1>2 DEF Orphans, Unqueued, IInv, TasksOK
<1>5. c \in cs
  <2>1. CASE Cardinality(cs \cap kind) = SweepLimit
    <3>1. PICK found \in SUBSET Orphans(kind) : found = cs \cap kind
      BY <1>1
    <3>2. Cardinality(found) <= Cardinality(Orphans(kind)) /\ Cardinality(Orphans(kind)) \in Nat
      BY <1>3, FS_Subset, FS_CardinalityType
    <3>3. Cardinality(Orphans(kind)) <= SweepLimit /\ SweepLimit \in Nat
      BY LimitsAssumption DEF SweepsSuffice, Sweep
    <3>4. Cardinality(found) = Cardinality(Orphans(kind))
      BY <2>1, <3>1, <3>2, <3>3
    <3>5. found = Orphans(kind)
      BY <1>3, <3>4, FS_Subset
    <3> QED
      BY <1>4, <3>1, <3>5
  <2> QED
    BY <1>1, <1>4, <2>1
<1> QED
  BY <1>1, <1>5, EnqueuedIsThere, Types DEF IInv

\* Why a content that was reached, or not even there, still is.
LEMMA ReachedStays ==
  ASSUME NEW c \in Contents, Reached(c), Announced(c) => Announced(c)',
         Restarting => Restarting', spent.crashes > 0 => spent'.crashes > 0
  PROVE  Reached(c)'
BY DEF Reached

LEMMA CrashCounts ==
  ASSUME IInv, NEW p \in Processes, Crash(p)
  PROVE  spent'.crashes > 0
<1>1. /\ spent \in [crashes : Nat, faults : Nat, edits : Nat]
      /\ spent' = [spent EXCEPT !.crashes = @ + 1]
  BY DEF IInv, MapsOK, Crash
<1>2. spent'.crashes = spent.crashes + 1 /\ spent.crashes \in Nat
  BY <1>1
<1> QED
  BY <1>2

LEMMA EditsCount ==
  ASSUME IInv, NEW c \in Contents, NEW p \in Processes, BeginEdit(c, p)
  PROVE  spent'.crashes = spent.crashes
<1>1. /\ spent \in [crashes : Nat, faults : Nat, edits : Nat]
      /\ spent' = [spent EXCEPT !.edits = @ + 1]
  BY DEF IInv, MapsOK, BeginEdit
<1> QED
  BY <1>1

\* Only an author makes a content visible, and then announces it.
LEMMA AuthorAnnounces ==
  ASSUME IInv, ~Fault, Author, NEW c \in Contents, Visible(c)', Visible(c) => Reached(c)
  PROVE  Reached(c)'
<1>0. /\ row \in [Contents -> RowType] /\ bus \in [Processes -> SUBSET Event]
      /\ \A d \in Contents : edit[d] # NoEdit => edit[d].by \in Processes
  BY Types DEF IInv, MapsOK, Edit
<1>1. ASSUME NEW d \in Contents, NEW p \in Processes,
             bus' = [bus EXCEPT ![p] = @ \cup {[stage |-> "created", content |-> d]}],
             \A b \in Contents \ {d} : row'[b] = row[b],
             UNCHANGED <<up, pc, spent>>
      PROVE  Reached(c)'
  <2>1. Announced(c) => Announced(c)'
    BY <1>0, <1>1 DEF Announced
  <2>2. CASE c = d
    <3>1. [stage |-> "created", content |-> c] \in bus'[p]
      BY <1>0, <1>1, <2>2
    <3>2. Announced(c)'
      BY <3>1 DEF Announced
    <3> QED
      BY <3>2 DEF Reached
  <2>3. CASE c # d
    BY <1>1, <2>1, <2>3, ReachedStays DEF Restarting, Visible
  <2> QED
    BY <2>2, <2>3
<1>2. ASSUME NEW d \in Contents, NEW new \in RowType, row' = [row EXCEPT ![d] = new],
             new.status = "none" \/ new.deleted \/ (d = c => Visible(c)),
             UNCHANGED <<bus, up, pc>>, spent'.crashes = spent.crashes
      PROVE  Reached(c)'
  <2>1. Visible(c)
    BY <1>0, <1>2 DEF Visible
  <2> QED
    BY <1>2, <2>1, ReachedStays DEF Announced, Restarting
<1>3. ASSUME NEW d \in Contents, NEW p \in Processes, NEW v \in Texts, Publish(d, p, v)
      PROVE  Reached(c)'
  <2>1. /\ bus' = [bus EXCEPT ![p] = @ \cup {[stage |-> "created", content |-> d]}]
        /\ \A b \in Contents \ {d} : row'[b] = row[b]
        /\ UNCHANGED <<up, pc, spent>>
    BY <1>0, <1>3 DEF Publish, worker
  <2> QED
    BY <1>1, <2>1
<1>4. ASSUME NEW d \in Contents, NEW v \in Texts, FinishEdit(d, v)
      PROVE  Reached(c)'
  <2>1. PICK new \in RowType :
          /\ row' = [row EXCEPT ![d] = new] /\ edit[d] # NoEdit
    BY <1>4, EditedRow
  <2>2. PICK p \in Processes : p = edit[d].by
    BY <1>0, <2>1
  <2>3. row'[d] = new /\ \A b \in Contents \ {d} : row'[b] = row[b]
    BY <1>0, <2>1
  <2>4. /\ bus' = [bus EXCEPT ![p] = IF new.deleted THEN @
                     ELSE @ \cup {[stage |-> "created", content |-> d]}]
        /\ UNCHANGED <<up, pc, spent>>
    BY <1>4, <2>2, <2>3 DEF FinishEdit, WriteEdit, worker
  <2>5. CASE new.deleted
    <3>1. bus' = bus
      BY <1>0, <2>4, <2>5
    <3> QED
      BY <1>2, <2>1, <2>4, <2>5, <3>1
  <2>6. CASE ~new.deleted
    BY <1>1, <2>3, <2>4, <2>6
  <2> QED
    BY <2>5, <2>6
<1>5. ASSUME NEW d \in Contents, NEW p \in Processes, BeginEdit(d, p)
      PROVE  Reached(c)'
  <2>1. UNCHANGED <<row, bus, up, pc>> /\ spent'.crashes = spent.crashes
    BY <1>5, EditsCount DEF BeginEdit, database, worker
  <2> QED
    BY <2>1, ReachedStays DEF Announced, Restarting, Visible
<1>6. ASSUME NEW d \in Contents, NEW status \in {"hidden", "inactive", "deleted"},
             Remove(d, status)
      PROVE  Reached(c)'
  <2>1. PICK new \in RowType : row' = [row EXCEPT ![d] = new] /\ new.deleted
    BY <1>6, RemovedRow
  <2>2. UNCHANGED <<bus, up, pc, spent>>
    BY <1>6 DEF Remove, worker
  <2> QED
    BY <1>2, <2>1, <2>2
<1>7. ASSUME NEW d \in Contents, Restore(d)
      PROVE  Reached(c)'
  <2>1. PICK new \in RowType :
          /\ row' = [row EXCEPT ![d] = new]
          /\ new.deleted <=> row[d].deleted
          /\ new.status = (IF Visible(d) /\ row[d].status = "hidden" THEN "published"
                           ELSE row[d].status)
    BY <1>7, RestoredRow
  <2>2. new.status = "none" \/ new.deleted \/ Visible(d)
    BY <2>1 DEF Visible
  <2>3. UNCHANGED <<bus, up, pc, spent>>
    BY <1>7 DEF Restore, worker
  <2> QED
    BY <1>2, <2>1, <2>2, <2>3
<1> QED
  BY <1>3, <1>4, <1>5, <1>6, <1>7 DEF Author, PublishSilently, FinishEditSilently

\* A step of a worker or a handler: what is announced stays so, or its task
\* is there; a restart goes on until its sweep.
LEMMA WorkerReaches ==
  ASSUME IInv, RowsShown, SweepsSuffice, NEW p \in Processes, Worker(p),
         NEW c \in Contents, Unqueued(c), Unqueued(c)', Reached(c)
  PROVE  Reached(c)'
<1>0. /\ up \in [Processes -> {"down", "booting", "serving"}]
      /\ pc \in [Processes -> Steps]
      /\ up[p] = "down" => pc[p] = "idle"
  BY Types DEF IInv, DownOK
<1>1. CASE Sweep(p)
  <2>1. ~(spent.crashes > 0)
    BY <1>1, SweepTakesAll DEF Unqueued
  <2> QED
    BY <1>1, <2>1 DEF Sweep, Reached, Announced
<1>2. CASE ~Sweep(p)
  <2>1. /\ pc[p] # "sweep" /\ pc[p] # "idle" /\ UNCHANGED <<bus, spent>>
        /\ \A q \in Processes \ {p} : pc'[q] = pc[q] /\ up'[q] = up[q]
    BY <1>0, <1>2 DEF Worker, Claim, ReadContent, Lexical, Semantic, Verify, Commit,
         CommitConflict, Reschedule, Decide, Catch, NextTask, BatchOver, Throw, Abort
  <2>2. Restarting => Restarting'
    BY <1>0, <2>1 DEF Restarting
  <2> QED
    BY <2>1, <2>2, ReachedStays DEF Announced
<1> QED
  BY <1>1, <1>2

LEMMA HandlerReaches ==
  ASSUME IInv, NEW p \in Processes, Handlers(p),
         NEW c \in Contents, Unqueued(c)', Reached(c)
  PROVE  Reached(c)'
<1>0. /\ task \in [Contents -> TaskType] /\ bus \in [Processes -> SUBSET Event]
      /\ pc \in [Processes -> Steps]
  BY Types DEF IInv
<1>1. ASSUME NEW d \in Contents, HandleCreated(p, d) PROVE Reached(c)'
  <2>1. c # d
    <3>1. \A b \in {d} : task'[b].status # "none"
      BY <1>0, <1>1, EnqueuedIsThere DEF HandleCreated
    <3> QED
      BY <3>1 DEF Unqueued
  <2>2. \A q \in Processes : [stage |-> "created", content |-> c] \in bus[q] =>
                             [stage |-> "created", content |-> c] \in bus'[q]
    BY <1>0, <1>1, <2>1 DEF HandleCreated
  <2> QED
    BY <1>1, <2>2, ReachedStays DEF HandleCreated, worker, Announced, Restarting
<1>2. ASSUME NEW d \in Contents, HandleWake(p, d) \/ TimerFires(p, d) PROVE Reached(c)'
  <2>1. /\ \A q \in Processes : [stage |-> "created", content |-> c] \in bus[q] =>
                                [stage |-> "created", content |-> c] \in bus'[q]
        /\ UNCHANGED <<up, spent>>
    BY <1>0, <1>2 DEF HandleWake, TimerFires
  <2>2. \A q \in Processes : pc[q] = "sweep" => pc'[q] = "sweep"
    BY <1>0, <1>2 DEF HandleWake, TimerFires, ProcessBatch
  <2> QED
    BY <2>1, <2>2, ReachedStays DEF Announced, Restarting
<1> QED
  BY <1>1, <1>2 DEF Handlers

LEMMA BootReaches ==
  ASSUME IInv, NEW p \in Processes, Boot(p) \/ Crash(p), NEW c \in Contents, Reached(c)
  PROVE  Reached(c)'
<1>0. /\ up \in [Processes -> {"down", "booting", "serving"}]
      /\ pc \in [Processes -> Steps]
  BY Types DEF IInv
<1>1. CASE Boot(p)
  <2>1. pc'[p] = "sweep" /\ UNCHANGED <<bus, spent>>
    BY <1>0, <1>1 DEF Boot
  <2> QED
    BY <2>1, ReachedStays DEF Announced, Restarting
<1>2. CASE Crash(p)
  <2>1. up'[p] = "down"
    BY <1>0, <1>2 DEF Crash
  <2> QED
    BY <1>2, <2>1, CrashCounts DEF Reached, Restarting
<1> QED
  BY <1>1, <1>2

LEMMA StepForgetsNothing ==
  ASSUME IInv, RowsShown, SweepsSuffice, [Next]_vars, NothingForgotten
  PROVE  NothingForgotten'
<1> SUFFICES ASSUME spent'.faults = 0, NEW c \in Contents, Unqueued(c)'
             PROVE  Reached(c)'
  BY DEF NothingForgotten, Unqueued
<1>0. ~Fault /\ spent.faults = 0
  BY FaultCounts, FaultsStay
<1>1. Visible(c) => Unqueued(c) /\ Reached(c)
  BY <1>0, TasksStay DEF Unqueued, NothingForgotten
<1>2. CASE Author
  BY <1>0, <1>1, <1>2, AuthorAnnounces DEF Unqueued
<1>3. CASE ~Author
  <2>1. Visible(c)
    <3>1. ASSUME NEW d \in Contents, NEW p \in Processes,
                 \/ \E v \in Texts : Publish(d, p, v) \/ PublishSilently(d, p, v)
                 \/ BeginEdit(d, p)
          PROVE  Author
      BY <3>1 DEF Author
    <3>2. ASSUME NEW d \in Contents,
                 \/ \E v \in Texts : FinishEdit(d, v) \/ FinishEditSilently(d, v)
                 \/ \E status \in {"hidden", "inactive", "deleted"} : Remove(d, status)
                 \/ Restore(d)
          PROVE  Author
      BY <3>2 DEF Author
    <3>3. UNCHANGED row \/ \E p \in Processes : Commit(p)
      BY <1>3, <3>1, <3>2, OnlyAuthorsWriteRows DEF RowsQuiet, Crash, database
    <3>4. ASSUME NEW p \in Processes, Commit(p) PROVE Visible(c)
      <4>1. PICK d \in Contents, new \in RowType :
              /\ row[d].status # "none" /\ row' = [row EXCEPT ![d] = new]
              /\ new.deleted <=> row[d].deleted
        BY <3>4, JudgedRow
      <4> QED
        BY <4>1, Types DEF Unqueued, Visible, IInv
    <3> QED
      BY <3>3, <3>4 DEF Unqueued, Visible
  <2>2. Unqueued(c) /\ Reached(c)
    BY <1>1, <2>1
  <2>3. CASE Time \/ UNCHANGED vars
    <3>1. UNCHANGED <<bus, up, pc, spent>>
      BY <2>3 DEF Time, LeaseExpires, RetryDue, vars, worker
    <3> QED
      BY <2>2, <3>1, ReachedStays DEF Announced, Restarting
  <2>4. CASE Failure
    <3>1. PICK p \in Processes : Crash(p)
      BY <1>0, <2>4 DEF Failure, LexicalWithoutList, StatementFails, BootFails,
                        HandleCreatedFails
    <3> QED
      BY <2>2, <3>1, BootReaches
  <2> QED
    BY <1>0, <1>3, <2>2, <2>3, <2>4, WorkerReaches, HandlerReaches, BootReaches DEF Next
<1> QED
  BY <1>2, <1>3

\* As long as no statement has failed, whatever crashes and restarts, and in
\* whichever process: a content that readers see and that has no task is still
\* announced on a bus, or a start is under way whose sweep will find it. The
\* one thing this needs is that a start after a crash never finds more orphans
\* of a kind than its limit; how many contents there are does not matter.
THEOREM ContentsAreReached == Spec /\ []SweepsSuffice => []NothingForgotten
<1>1. Init => NothingForgotten
  BY DEF Init, NoRow, NothingForgotten, Visible
<1>2. IInv /\ RowsShown /\ SweepsSuffice /\ NothingForgotten /\ [Next]_vars =>
        NothingForgotten' /\ RowsShown'
  BY StepForgetsNothing, StepKeepsShown
<1> QED
  BY <1>1, <1>2, InitOK, InitRefines, StepKeepsIInv, PTL DEF Spec

=============================================================================
