----------------------- MODULE ModerationTasks_proofs -----------------------
(***************************************************************************)
(* Tasks, verdicts and contents agree, for any number of contents, server  *)
(* processes, attempts, crashes, failing statements and edits.             *)
(***************************************************************************)
EXTENDS ModerationTasks, FiniteSetTheorems, TLAPS

\* What the types of TypeOK leave open: the domains of two maps and the count
\* of faults.
MapsOK ==
  /\ edit \in [Contents -> {NoEdit} \cup Edit]
  /\ log \in [Contents -> {NoLog} \cup LogType]
  /\ spent \in [crashes : Nat, faults : Nat, edits : Nat]
  /\ spent.faults <= MaxFaults

\* Tasks, their events and the work in hand are about rows that exist;
\* messages are not edited.
RowsOK ==
  \A c \in Contents :
    /\ task[c].status # "none" => row[c].status # "none"
    /\ \A p \in Processes : work[p].task = c => row[c].status # "none"
    /\ edit[c] # NoEdit => c \in Editable
    /\ \A p \in Processes :
         [stage |-> "created", content |-> c] \in bus[p] => row[c].status # "none"

\* Only a claimed task has a token and a lease; a verdict ends its task, and
\* a finished task of what is never revived has one or is gone.
TasksOK ==
  \A c \in Contents :
    /\ task[c].token # NoProcess \/ task[c].leased => task[c].status = "processing"
    /\ log[c] # NoLog => task[c].status = "processed"
    /\ c \notin Publications /\ task[c].status = "processed" =>
         log[c] # NoLog \/ row[c].deleted

\* A process that is down has nothing in memory.
DownOK ==
  /\ \A p \in Processes : up[p] = "down" =>
       pc[p] = "idle" /\ bus[p] = {} /\ timers[p] = {}
  /\ \A c \in Contents : edit[c] # NoEdit => up[edit[c].by] # "down"

\* The attempts a worker remembers of a task, which exists: never more than the
\* row has, and the same as long as its claim stands.
Remembers(p, c, attempts) ==
  /\ task[c].status # "none"
  /\ attempts <= task[c].attempts
  /\ task[c].token = p => attempts = task[c].attempts

Busy == {"lexical", "semantic", "verify", "commit", "reschedule"}

\* What a worker holds fits the statement it has reached.
HandOK(p) ==
  LET w == work[p]
  IN  /\ pc[p] \notin Busy => w = NoWork
      /\ pc[p] \in Busy => /\ w.task \in Contents
                           /\ Remembers(p, w.task, w.attempts)
                           /\ \A b \in batch[p] : b.task # w.task
      /\ pc[p] \in {"idle", "sweep", "claim"} => batch[p] = {}
      /\ \A b \in batch[p] : Remembers(p, b.task, b.attempts)
      /\ \A a, b \in batch[p] : a.task = b.task => a = b
      /\ pc[p] = "reschedule" => w.attempts + 1 < MaxAttempts
      /\ pc[p] \in {"verify", "commit"} =>
           /\ w.decision \in {"hidden", "approved"}
           /\ w.semantic \in {"not_evaluated", "flagged", "clean", "degraded"}

IInv == /\ TypeOK /\ MapsOK /\ RowsOK /\ TasksOK /\ DownOK
        /\ \A p \in Processes : HandOK(p)

\* What the layers have found of a message whose task is in hand. A banned
\* word gets past the first one only if the list could not be read.
JudgedOK(p) ==
  LET w == work[p]
  IN  pc[p] \in Busy /\ w.task \in Messages =>
        /\ row[w.task].status # "none" /\ w.text = row[w.task].text
        /\ (pc[p] \in {"semantic", "reschedule"} \/ w.caught) /\ spent.faults = 0 =>
             w.text # "banned"
        /\ pc[p] \in {"verify", "commit"} =>
             /\ w.text = "banned" /\ spent.faults = 0 => w.decision = "hidden"
             /\ w.text = "abusive" /\ w.decision # "hidden" => w.semantic = "degraded"

UnjudgedOK ==
  \A c \in Messages : log[c] = NoLog /\ Visible(c) => row[c].status = "published"

Screened == UnjudgedOK /\ MessagesScreened /\ \A p \in Processes : JudgedOK(p)

\* Approving without OpenAI is decided at the last attempt.
Exhausted(p) ==
  pc[p] \in {"verify", "commit"} /\ work[p].semantic = "degraded" =>
    work[p].attempts = MaxAttempts - 1

Retried == DegradedAfterRetries /\ \A p \in Processes : Exhausted(p)

USE KindsAssumption, TextsAssumption, ProcessesAssumption, LimitsAssumption,
    LogAssumption

-----------------------------------------------------------------------------
(* Records and frames *)

RowStatuses == {"none", "published", "hidden", "inactive", "deleted"}

RowType == [status : RowStatuses, deleted : BOOLEAN, text : Texts]

Event == [stage : {"created", "wake"}, content : Contents]

Steps == {"idle", "sweep", "claim", "next", "lexical", "semantic", "verify",
          "commit", "reschedule"}

Claimed == [task : Contents, attempts : 0 .. MaxAttempts - 1]

LEMMA Types ==
  ASSUME TypeOK
  PROVE  /\ row \in [Contents -> RowType] /\ task \in [Contents -> TaskType]
         /\ bus \in [Processes -> SUBSET Event]
         /\ timers \in [Processes -> SUBSET Contents]
         /\ up \in [Processes -> {"down", "booting", "serving"}]
         /\ pc \in [Processes -> Steps] /\ batch \in [Processes -> SUBSET Claimed]
         /\ work \in [Processes -> WorkType]
         /\ restored \subseteq Contents
BY DEF TypeOK, RowType, RowStatuses, Event, Steps, Claimed

LEMMA Typed ==
  ASSUME row \in [Contents -> RowType], task \in [Contents -> TaskType],
         bus \in [Processes -> SUBSET Event],
         timers \in [Processes -> SUBSET Contents],
         up \in [Processes -> {"down", "booting", "serving"}],
         pc \in [Processes -> Steps], batch \in [Processes -> SUBSET Claimed],
         work \in [Processes -> WorkType], restored \subseteq Contents, MapsOK
  PROVE  TypeOK
BY DEF TypeOK, RowType, RowStatuses, Event, Steps, Claimed, MapsOK, Edit

LEMMA TypedNext ==
  ASSUME row' \in [Contents -> RowType], task' \in [Contents -> TaskType],
         bus' \in [Processes -> SUBSET Event],
         timers' \in [Processes -> SUBSET Contents],
         up' \in [Processes -> {"down", "booting", "serving"}],
         pc' \in [Processes -> Steps], batch' \in [Processes -> SUBSET Claimed],
         work' \in [Processes -> WorkType], restored' \subseteq Contents, MapsOK'
  PROVE  TypeOK'
BY DEF TypeOK, RowType, RowStatuses, Event, Steps, Claimed, MapsOK, Edit

LEMMA NoneTyped ==
  /\ NoRow \in RowType /\ NoTask \in TaskType /\ NoWork \in WorkType
  /\ NoRow.status = "none" /\ NoTask.status = "none"
  /\ NoTask.token = NoProcess /\ ~NoTask.leased
  /\ NoWork.task = NoContent /\ NoWork.attempts = 0 /\ ~NoWork.caught
BY DEF NoRow, NoTask, NoWork, RowType, RowStatuses, TaskType, WorkType

LEMMA InitOK == Init => IInv
<1> SUFFICES ASSUME Init PROVE IInv
  OBVIOUS
<1>1. MapsOK
  BY DEF Init, MapsOK
<1>2. TypeOK
  <2>1. /\ row \in [Contents -> RowType] /\ task \in [Contents -> TaskType]
        /\ work \in [Processes -> WorkType] /\ pc \in [Processes -> Steps]
        /\ up \in [Processes -> {"down", "booting", "serving"}]
    BY NoneTyped DEF Init, Steps
  <2>2. /\ bus \in [Processes -> SUBSET Event]
        /\ timers \in [Processes -> SUBSET Contents]
        /\ batch \in [Processes -> SUBSET Claimed] /\ restored \subseteq Contents
    BY DEF Init
  <2> QED
    BY <1>1, <2>1, <2>2, Typed
<1>3. RowsOK /\ TasksOK /\ DownOK
  BY NoneTyped DEF Init, RowsOK, TasksOK, DownOK
<1>4. \A p \in Processes : HandOK(p)
  BY DEF Init, HandOK, Busy
<1> QED
  BY <1>1, <1>2, <1>3, <1>4 DEF IInv

\* What a change of the table of tasks leaves of a claim of p.
Leaves(p) ==
  \A c \in Contents :
    /\ task[c].status # "none" => task'[c].status # "none"
    /\ task[c].attempts <= task'[c].attempts
    /\ task'[c].token = p => /\ task[c].token = p
                             /\ task'[c].attempts = task[c].attempts

LEMMA HandStays ==
  ASSUME TypeOK, TypeOK', NEW p \in Processes, HandOK(p), Leaves(p),
         pc'[p] = pc[p], work'[p] = work[p], batch'[p] = batch[p]
  PROVE  HandOK(p)'
<1>1. /\ \A c \in Contents : task[c].attempts \in Nat /\ task'[c].attempts \in Nat
      /\ work[p].attempts \in Nat
      /\ \A b \in batch[p] : b.task \in Contents /\ b.attempts \in Nat
  BY Types DEF TypeOK, TaskType, WorkType, Claimed
<1>2. ASSUME NEW c \in Contents, NEW a \in Nat, Remembers(p, c, a)
      PROVE  Remembers(p, c, a)'
  BY <1>1, <1>2 DEF Remembers, Leaves
<1>3. \A b \in batch'[p] : Remembers(p, b.task, b.attempts)'
  BY <1>1, <1>2 DEF HandOK
<1>4. pc'[p] \in Busy => Remembers(p, work[p].task, work[p].attempts)'
  BY <1>1, <1>2 DEF HandOK
<1> QED
  BY <1>3, <1>4 DEF HandOK

LEMMA SameTasksLeave ==
  ASSUME TypeOK, UNCHANGED task, NEW p \in Processes
  PROVE  Leaves(p)
BY DEF Leaves, TypeOK, TaskType

-----------------------------------------------------------------------------
(* Authors and administrators *)

LEMMA Publishes ==
  ASSUME IInv, NEW c \in Contents, NEW p \in Processes, NEW v \in Texts,
         Publish(c, p, v) \/ PublishSilently(c, p, v)
  PROVE  IInv'
<1>0. /\ TypeOK /\ MapsOK /\ RowsOK /\ TasksOK /\ DownOK
      /\ row[c].status = "none" /\ up[p] # "down"
      /\ UNCHANGED <<edit, task, log, restored, timers, up, pc, batch, work>>
  BY DEF IInv, Publish, PublishSilently, Serving, worker
<1> DEFINE new == [status |-> "published", deleted |-> FALSE, text |-> v]
           event == [stage |-> "created", content |-> c]
<1>1. row' = [row EXCEPT ![c] = new] /\ new \in RowType /\ new.status # "none"
  BY DEF Publish, PublishSilently, RowType, RowStatuses
<1>2. event \in Event /\ event.content = c
  BY DEF Event
<1>3. \/ bus' = [bus EXCEPT ![p] = @ \cup {event}] /\ spent' = spent
      \/ bus' = bus /\ Fault
  BY DEF Publish, PublishSilently
<1>4. MapsOK'
  BY <1>0, <1>3 DEF MapsOK, Fault
<1> HIDE DEF new, event
<1>5. TypeOK'
  BY <1>0, <1>1, <1>2, <1>3, <1>4, Types, TypedNext
<1>6. RowsOK'
  <2>1. \A d \in Contents, q \in Processes :
           [stage |-> "created", content |-> d] \in bus'[q] =>
             \/ [stage |-> "created", content |-> d] \in bus[q]
             \/ d = c
    BY <1>0, <1>3, Types DEF event
  <2>2. \A d \in Contents : row[d].status # "none" => row'[d].status # "none"
    BY <1>0, <1>1, Types
  <2>3. row'[c].status # "none"
    BY <1>0, <1>1, Types
  <2> QED
    BY <1>0, <2>1, <2>2, <2>3 DEF RowsOK
<1>7. TasksOK'
  <2>1. task[c].status = "none"
    BY <1>0 DEF RowsOK
  <2>2. \A d \in Contents \ {c} : row'[d] = row[d]
    BY <1>0, <1>1, Types
  <2> QED
    BY <1>0, <2>1, <2>2 DEF TasksOK
<1>8. DownOK'
  BY <1>0, <1>3, Types DEF DownOK
<1>9. \A q \in Processes : HandOK(q)'
  BY <1>0, <1>5, HandStays, SameTasksLeave DEF IInv
<1> QED
  BY <1>4, <1>5, <1>6, <1>7, <1>8, <1>9 DEF IInv

LEMMA EditBegins ==
  ASSUME IInv, NEW c \in Contents, NEW p \in Processes, BeginEdit(c, p)
  PROVE  IInv'
<1>0. /\ TypeOK /\ MapsOK /\ RowsOK /\ TasksOK /\ DownOK
      /\ c \in Editable /\ Visible(c) /\ up[p] # "down"
      /\ UNCHANGED <<row, task, log, restored, bus, timers, up, pc, batch, work>>
  BY DEF IInv, BeginEdit, Serving, worker, database
<1> DEFINE new == [by |-> p, status |-> row[c].status]
<1>1. new \in Edit /\ new.by = p
  BY <1>0, Types DEF Edit, Visible, RowType, RowStatuses
<1>2. /\ edit' = [edit EXCEPT ![c] = new]
      /\ spent' = [spent EXCEPT !.edits = @ + 1]
  BY DEF BeginEdit
<1> HIDE DEF new
<1>3. MapsOK'
  BY <1>0, <1>1, <1>2 DEF MapsOK
<1>4. TypeOK'
  BY <1>0, <1>3, Types, TypedNext
<1>5. RowsOK' /\ TasksOK' /\ DownOK'
  BY <1>0, <1>1, <1>2 DEF RowsOK, TasksOK, DownOK, MapsOK
<1>6. \A q \in Processes : HandOK(q)'
  BY <1>0, <1>4, HandStays, SameTasksLeave DEF IInv
<1> QED
  BY <1>3, <1>4, <1>5, <1>6 DEF IInv

LEMMA EditEnds ==
  ASSUME IInv, NEW c \in Contents, NEW v \in Texts,
         FinishEdit(c, v) \/ FinishEditSilently(c, v)
  PROVE  IInv'
<1>0. /\ TypeOK /\ MapsOK /\ RowsOK /\ TasksOK /\ DownOK
      /\ edit[c] \in Edit /\ edit[c].by \in Processes /\ c \in Editable
      /\ up[edit[c].by] # "down" /\ WriteEdit(c, v)
      /\ UNCHANGED <<task, log, restored, timers, up, pc, batch, work>>
      /\ UNCHANGED spent \/ Fault
  BY DEF IInv, FinishEdit, FinishEditSilently, WriteEdit, worker, MapsOK, RowsOK,
         DownOK, Edit
<1>1. PICK p \in Processes : p = edit[c].by
  BY <1>0
<1> DEFINE new == [status |-> edit[c].status,
                   deleted |-> row[c].deleted /\ c \in Reviews, text |-> v]
           event == [stage |-> "created", content |-> c]
<1>2. /\ new \in RowType /\ new.status # "none"
      /\ c \in Reviews => new.deleted = row[c].deleted
  BY <1>0, Types DEF Edit, RowType, RowStatuses
<1>3. event \in Event /\ event.content = c
  BY DEF Event
<1>4. /\ row' = [row EXCEPT ![c] = new]
      /\ edit' = [edit EXCEPT ![c] = NoEdit]
      /\ bus' = [bus EXCEPT ![p] = @ \cup {event}] \/ bus' = bus
  <2>1. \/ bus' = [bus EXCEPT ![edit[c].by] =
                      IF row'[c].deleted THEN @ ELSE @ \cup {event}]
        \/ bus' = bus
    BY DEF FinishEdit, FinishEditSilently
  <2>2. bus' = [bus EXCEPT ![p] = @ \cup {event}] \/ bus' = bus
    BY <1>0, <1>1, <2>1, Types
  <2> QED
    BY <1>0, <2>2, Types DEF WriteEdit
<1> HIDE DEF new, event
<1>5. MapsOK'
  BY <1>0, <1>4 DEF MapsOK, Fault
<1>6. TypeOK'
  BY <1>0, <1>2, <1>3, <1>4, <1>5, Types, TypedNext
<1>7. /\ row'[c].status # "none"
      /\ \A d \in Contents \ {c} : row'[d] = row[d] /\ edit'[d] = edit[d]
      /\ edit'[c] = NoEdit
  BY <1>0, <1>2, <1>4, Types DEF MapsOK
<1>8. RowsOK'
  <2>1. \A d \in Contents, q \in Processes :
           [stage |-> "created", content |-> d] \in bus'[q] =>
             \/ [stage |-> "created", content |-> d] \in bus[q]
             \/ d = c
    BY <1>0, <1>4, Types DEF event
  <2> QED
    BY <1>0, <1>7, <2>1 DEF RowsOK
<1>9. TasksOK'
  <2>1. c \notin Publications => row'[c].deleted = row[c].deleted
    BY <1>0, <1>2, <1>4, Types DEF Editable
  <2> QED
    BY <1>0, <1>7, <2>1 DEF TasksOK
<1>10. DownOK'
  BY <1>0, <1>1, <1>4, <1>7, Types DEF DownOK
<1>11. \A q \in Processes : HandOK(q)'
  BY <1>0, <1>6, HandStays, SameTasksLeave DEF IInv
<1> QED
  BY <1>5, <1>6, <1>8, <1>9, <1>10, <1>11 DEF IInv

\* Steps that change the status of a row that exists.
LEMMA StatusChanges ==
  ASSUME IInv, NEW c \in Contents, NEW new \in RowType, row[c].status # "none",
         new.status # "none", row[c].deleted => new.deleted,
         row' = [row EXCEPT ![c] = new], restored' \subseteq Contents,
         UNCHANGED <<edit, task, log, bus, timers, up, worker, spent>>
  PROVE  IInv'
<1>0. /\ TypeOK /\ MapsOK /\ RowsOK /\ TasksOK /\ DownOK
      /\ UNCHANGED <<edit, task, log, bus, timers, up, pc, batch, work, spent>>
  BY DEF IInv, worker
<1>1. MapsOK'
  BY <1>0 DEF MapsOK
<1>2. TypeOK'
  BY <1>0, <1>1, Types, TypedNext
<1>3. row'[c] = new /\ \A d \in Contents \ {c} : row'[d] = row[d]
  BY <1>0, Types
<1>4. RowsOK' /\ TasksOK' /\ DownOK'
  BY <1>0, <1>3 DEF RowsOK, TasksOK, DownOK
<1>5. \A q \in Processes : HandOK(q)'
  BY <1>0, <1>2, HandStays, SameTasksLeave DEF IInv
<1> QED
  BY <1>1, <1>2, <1>4, <1>5 DEF IInv

LEMMA Administers ==
  ASSUME IInv, NEW c \in Contents,
         \/ \E status \in {"hidden", "inactive", "deleted"} : Remove(c, status)
         \/ Restore(c)
  PROVE  IInv'
<1>0. TypeOK /\ row[c] \in RowType /\ row \in [Contents -> RowType]
  BY Types DEF IInv
<1>1. ASSUME NEW status \in {"hidden", "inactive", "deleted"}, Remove(c, status)
      PROVE  IInv'
  <2> DEFINE new == [row[c] EXCEPT !.deleted = TRUE, !.status = status]
  <2>1. new \in RowType /\ new.status # "none" /\ new.deleted
    BY <1>0 DEF RowType, RowStatuses
  <2>2. row' = [row EXCEPT ![c] = new]
    BY <1>0, <1>1 DEF Remove
  <2>3. /\ row[c].status # "none" /\ restored' \subseteq Contents
        /\ UNCHANGED <<edit, task, log, bus, timers, up, worker, spent>>
    BY <1>0, <1>1 DEF Remove, Visible, TypeOK
  <2> HIDE DEF new
  <2> QED
    BY <2>1, <2>2, <2>3, StatusChanges
<1>2. CASE Restore(c)
  <2>1. row[c].status # "none"
    BY <1>2 DEF Restore, IInv, TasksOK, RowsOK
  <2> DEFINE new == IF Visible(c) /\ row[c].status = "hidden"
                    THEN [row[c] EXCEPT !.status = "published"] ELSE row[c]
  <2>2. new \in RowType /\ new.status # "none" /\ (row[c].deleted => new.deleted)
    BY <1>0, <2>1 DEF RowType, RowStatuses
  <2>3. row' = [row EXCEPT ![c] = new]
    BY <1>0, <1>2 DEF Restore
  <2>4. /\ restored' \subseteq Contents
        /\ UNCHANGED <<edit, task, log, bus, timers, up, worker, spent>>
    BY <1>0, <1>2 DEF Restore, TypeOK
  <2> HIDE DEF new
  <2> QED
    BY <2>1, <2>2, <2>3, <2>4, StatusChanges
<1> QED
  BY <1>1, <1>2

-----------------------------------------------------------------------------
(* The table of tasks *)

\* One task is written: what the others say stays true.
LEMMA TaskWritten ==
  ASSUME TypeOK, RowsOK, TasksOK, NEW c \in Contents, NEW new \in TaskType,
         task' = [task EXCEPT ![c] = new], row[c].status # "none",
         new.token # NoProcess \/ new.leased => new.status = "processing",
         log'[c] # NoLog => new.status = "processed",
         c \notin Publications /\ new.status = "processed" =>
           log'[c] # NoLog \/ row'[c].deleted,
         \A d \in Contents \ {c} : log'[d] = log[d] /\ row'[d] = row[d]
  PROVE  /\ task' \in [Contents -> TaskType] /\ TasksOK'
         /\ \A d \in Contents : task'[d].status # "none" => row[d].status # "none"
<1>1. task' \in [Contents -> TaskType]
  BY Types
<1>2. task'[c] = new /\ \A d \in Contents \ {c} : task'[d] = task[d]
  BY Types
<1>3. TasksOK'
  BY <1>2 DEF TasksOK
<1>4. \A d \in Contents : task'[d].status # "none" => row[d].status # "none"
  BY <1>2 DEF RowsOK
<1> QED
  BY <1>1, <1>3, <1>4

LEMMA EnqueueOK ==
  ASSUME TypeOK, RowsOK, TasksOK, NEW cs \in SUBSET Contents,
         \A c \in cs : row[c].status # "none",
         task' = Enqueued(cs), UNCHANGED <<row, log>>
  PROVE  /\ task' \in [Contents -> TaskType] /\ TasksOK'
         /\ \A c \in Contents : task'[c].status # "none" => row[c].status # "none"
         /\ \A p \in Processes : Leaves(p)
<1>1. \A c \in Contents :
        /\ task[c] \in TaskType
        /\ task'[c] = IF c \in cs /\ task[c].status = "none"
                      THEN [task[c] EXCEPT !.status = "pending"] ELSE task[c]
  BY Types DEF Enqueued
<1>2. \A r \in TaskType : /\ [r EXCEPT !.status = "pending"] \in TaskType
                          /\ [r EXCEPT !.status = "pending"].status = "pending"
                          /\ [r EXCEPT !.status = "pending"].token = r.token
                          /\ [r EXCEPT !.status = "pending"].leased = r.leased
                          /\ [r EXCEPT !.status = "pending"].attempts = r.attempts
  BY DEF TaskType
<1>3. task' \in [Contents -> TaskType]
  BY <1>1, <1>2 DEF Enqueued
<1>4. \A c \in Contents :
        /\ task'[c].token = task[c].token /\ task'[c].leased = task[c].leased
        /\ task'[c].attempts = task[c].attempts
        /\ \/ task'[c].status = task[c].status
           \/ task[c].status = "none" /\ task'[c].status = "pending" /\ c \in cs
  BY <1>1, <1>2
<1>5. TasksOK'
  BY <1>4 DEF TasksOK
<1>6. \A p \in Processes : Leaves(p)
  <2>1. \A c \in Contents : task[c].attempts \in Nat
    BY Types DEF TaskType
  <2> QED
    BY <1>4, <2>1 DEF Leaves
<1> QED
  BY <1>3, <1>4, <1>5, <1>6 DEF RowsOK

-----------------------------------------------------------------------------
(* Events, timers and time *)

\* processBatch begins a batch, or returns at once.
LEMMA Wakes ==
  ASSUME IInv, NEW p \in Processes, up[p] # "down", ProcessBatch(p),
         bus' \in [Processes -> SUBSET Event],
         timers' \in [Processes -> SUBSET Contents],
         \A q \in Processes : bus'[q] \subseteq bus[q] /\ timers'[q] \subseteq timers[q],
         UNCHANGED <<database, edit, up, batch, work, spent>>
  PROVE  IInv'
<1>0. /\ TypeOK /\ MapsOK /\ RowsOK /\ TasksOK /\ DownOK /\ HandOK(p)
      /\ UNCHANGED <<row, task, log, restored, edit, up, batch, work, spent>>
  BY DEF IInv, database
<1>1. /\ pc' \in [Processes -> Steps]
      /\ \A q \in Processes \ {p} : pc'[q] = pc[q]
      /\ \/ pc'[p] = pc[p]
         \/ pc[p] = "idle" /\ pc'[p] = "claim"
  BY <1>0, Types DEF ProcessBatch, Steps
<1>2. MapsOK'
  BY <1>0 DEF MapsOK
<1>3. TypeOK'
  BY <1>0, <1>1, <1>2, Types, TypedNext
<1>4. RowsOK' /\ TasksOK'
  BY <1>0 DEF RowsOK, TasksOK
<1>5. DownOK'
  BY <1>0, <1>1, Types DEF DownOK
<1>6. ASSUME NEW q \in Processes PROVE HandOK(q)'
  <2>1. CASE pc'[q] = pc[q]
    BY <1>0, <1>3, <2>1, HandStays, SameTasksLeave DEF IInv
  <2>2. CASE pc'[q] # pc[q]
    BY <1>0, <1>1, <2>2 DEF HandOK, Busy
  <2> QED
    BY <2>1, <2>2
<1> QED
  BY <1>2, <1>3, <1>4, <1>5, <1>6 DEF IInv

LEMMA Handles ==
  ASSUME IInv, NEW p \in Processes, Handlers(p)
  PROVE  IInv'
<1>0. /\ TypeOK /\ MapsOK /\ RowsOK /\ TasksOK /\ DownOK
  BY DEF IInv
<1>1. ASSUME NEW c \in Contents, HandleCreated(p, c) PROVE IInv'
  <2> DEFINE created == [stage |-> "created", content |-> c]
             wake == [stage |-> "wake", content |-> c]
  <2>1. /\ created \in bus[p] /\ task' = Enqueued({c}) /\ row[c].status # "none"
        /\ bus' = [bus EXCEPT ![p] = (@ \ {created}) \cup {wake}]
        /\ UNCHANGED <<row, log, restored, edit, timers, up, pc, batch, work, spent>>
    BY <1>0, <1>1 DEF HandleCreated, RowsOK, worker
  <2>2. wake \in Event /\ wake.stage = "wake"
    BY DEF Event
  <2> HIDE DEF created, wake
  <2>3. /\ task' \in [Contents -> TaskType] /\ TasksOK'
        /\ \A d \in Contents : task'[d].status # "none" => row[d].status # "none"
        /\ \A q \in Processes : Leaves(q)
    <3>1. {c} \in SUBSET Contents /\ \A d \in {c} : row[d].status # "none"
      BY <2>1
    <3> QED
      BY <1>0, <2>1, <3>1, EnqueueOK
  <2>4. bus' \in [Processes -> SUBSET Event]
    BY <1>0, <2>1, <2>2, Types
  <2>5. MapsOK'
    BY <1>0, <2>1 DEF MapsOK
  <2>6. TypeOK'
    BY <1>0, <2>1, <2>3, <2>4, <2>5, Types, TypedNext
  <2>7. RowsOK'
    <3>1. \A d \in Contents, q \in Processes :
             [stage |-> "created", content |-> d] \in bus'[q] =>
               [stage |-> "created", content |-> d] \in bus[q]
      BY <1>0, <2>1, <2>2, Types
    <3> QED
      BY <1>0, <2>1, <2>3, <3>1 DEF RowsOK
  <2>8. DownOK'
    BY <1>0, <2>1, Types DEF DownOK
  <2>9. \A q \in Processes : HandOK(q)'
    BY <1>0, <2>1, <2>3, <2>6, HandStays DEF IInv
  <2> QED
    BY <2>3, <2>5, <2>6, <2>7, <2>8, <2>9 DEF IInv
<1>2. ASSUME NEW c \in Contents, HandleWake(p, c) PROVE IInv'
  <2> DEFINE wake == [stage |-> "wake", content |-> c]
  <2>1. /\ wake \in bus[p] /\ bus' = [bus EXCEPT ![p] = @ \ {wake}]
        /\ ProcessBatch(p)
        /\ UNCHANGED <<database, edit, timers, up, batch, work, spent>>
    BY <1>2 DEF HandleWake
  <2> HIDE DEF wake
  <2>2. up[p] # "down"
    BY <1>0, <2>1 DEF DownOK
  <2>3. /\ bus' \in [Processes -> SUBSET Event]
        /\ timers' \in [Processes -> SUBSET Contents]
        /\ \A q \in Processes : bus'[q] \subseteq bus[q] /\ timers'[q] \subseteq timers[q]
    BY <1>0, <2>1, Types
  <2> QED
    BY <2>1, <2>2, <2>3, Wakes
<1>3. ASSUME NEW c \in Contents, TimerFires(p, c) PROVE IInv'
  <2>1. /\ c \in timers[p] /\ timers' = [timers EXCEPT ![p] = @ \ {c}]
        /\ ProcessBatch(p)
        /\ UNCHANGED <<database, edit, bus, up, batch, work, spent>>
    BY <1>3 DEF TimerFires
  <2>2. up[p] # "down"
    BY <1>0, <2>1 DEF DownOK
  <2>3. /\ bus' \in [Processes -> SUBSET Event]
        /\ timers' \in [Processes -> SUBSET Contents]
        /\ \A q \in Processes : bus'[q] \subseteq bus[q] /\ timers'[q] \subseteq timers[q]
    BY <1>0, <2>1, Types
  <2> QED
    BY <2>1, <2>2, <2>3, Wakes
<1> QED
  BY <1>1, <1>2, <1>3 DEF Handlers

LEMMA EventLost ==
  ASSUME IInv, NEW p \in Processes, NEW c \in Contents, HandleCreatedFails(p, c)
  PROVE  IInv'
<1>0. /\ TypeOK /\ MapsOK /\ RowsOK /\ TasksOK /\ DownOK
      /\ bus' = [bus EXCEPT ![p] = @ \ {[stage |-> "created", content |-> c]}]
      /\ UNCHANGED <<row, task, log, restored, edit, timers, up, pc, batch, work>>
      /\ Fault
  BY DEF IInv, HandleCreatedFails, database, worker
<1>1. bus' \in [Processes -> SUBSET Event] /\ \A q \in Processes : bus'[q] \subseteq bus[q]
  BY <1>0, Types
<1>2. MapsOK'
  BY <1>0 DEF MapsOK, Fault
<1>3. TypeOK'
  BY <1>0, <1>1, <1>2, Types, TypedNext
<1>4. RowsOK' /\ TasksOK' /\ DownOK'
  BY <1>0, <1>1 DEF RowsOK, TasksOK, DownOK
<1>5. \A q \in Processes : HandOK(q)'
  BY <1>0, <1>3, HandStays, SameTasksLeave DEF IInv
<1> QED
  BY <1>2, <1>3, <1>4, <1>5 DEF IInv

\* A step that writes tasks only.
LEMMA OnlyTasks ==
  ASSUME IInv, task' \in [Contents -> TaskType], TasksOK',
         \A c \in Contents : task'[c].status # "none" => row[c].status # "none",
         \A p \in Processes : Leaves(p),
         UNCHANGED <<row, log, restored, edit, bus, timers, up, worker, spent>>
  PROVE  IInv'
<1>0. /\ TypeOK /\ MapsOK /\ RowsOK /\ DownOK
      /\ UNCHANGED <<row, log, restored, edit, bus, timers, up, pc, batch, work, spent>>
  BY DEF IInv, worker
<1>1. MapsOK'
  BY <1>0 DEF MapsOK
<1>2. TypeOK'
  BY <1>0, <1>1, Types, TypedNext
<1>3. RowsOK' /\ DownOK'
  BY <1>0 DEF RowsOK, DownOK
<1>4. \A q \in Processes : HandOK(q)'
  BY <1>0, <1>2, HandStays DEF IInv
<1> QED
  BY <1>1, <1>2, <1>3, <1>4 DEF IInv

LEMMA TimePasses ==
  ASSUME IInv, Time
  PROVE  IInv'
<1>0. TypeOK /\ RowsOK /\ TasksOK /\ task \in [Contents -> TaskType]
  BY Types DEF IInv
<1>1. ASSUME NEW c \in Contents, NEW new \in TaskType, task' = [task EXCEPT ![c] = new],
             task[c].status # "none", new.status = task[c].status,
             new.token = task[c].token, new.attempts = task[c].attempts,
             new.leased => task[c].leased,
             UNCHANGED <<row, log, restored, edit, bus, timers, up, worker, spent>>
      PROVE  IInv'
  <2>1. /\ task' \in [Contents -> TaskType] /\ TasksOK'
        /\ \A d \in Contents : task'[d].status # "none" => row[d].status # "none"
    <3>1. /\ row[c].status # "none"
          /\ new.token # NoProcess \/ new.leased => new.status = "processing"
          /\ log'[c] # NoLog => new.status = "processed"
          /\ c \notin Publications /\ new.status = "processed" =>
               log'[c] # NoLog \/ row'[c].deleted
          /\ \A d \in Contents \ {c} : log'[d] = log[d] /\ row'[d] = row[d]
      BY <1>0, <1>1 DEF RowsOK, TasksOK
    <3> QED
      BY <1>0, <1>1, <3>1, TaskWritten
  <2>2. \A p \in Processes : Leaves(p)
    BY <1>0, <1>1 DEF Leaves, TaskType
  <2> QED
    BY <1>1, <2>1, <2>2, OnlyTasks
<1>2. ASSUME NEW c \in Contents, LeaseExpires(c) PROVE IInv'
  <2> DEFINE new == [task[c] EXCEPT !.leased = FALSE]
  <2>1. /\ new \in TaskType /\ new.status = task[c].status /\ ~new.leased
        /\ new.token = task[c].token /\ new.attempts = task[c].attempts
    BY <1>0 DEF TaskType
  <2>2. task' = [task EXCEPT ![c] = new] /\ task[c].status # "none"
    BY <1>0, <1>2 DEF LeaseExpires, TasksOK
  <2>3. UNCHANGED <<row, log, restored, edit, bus, timers, up, worker, spent>>
    BY <1>2 DEF LeaseExpires
  <2> HIDE DEF new
  <2> QED
    BY <1>1, <2>1, <2>2, <2>3
<1>3. ASSUME NEW c \in Contents, RetryDue(c) PROVE IInv'
  <2> DEFINE new == [task[c] EXCEPT !.due = TRUE]
  <2>1. /\ new \in TaskType /\ new.status = task[c].status
        /\ new.leased = task[c].leased
        /\ new.token = task[c].token /\ new.attempts = task[c].attempts
    BY <1>0 DEF TaskType
  <2>2. task' = [task EXCEPT ![c] = new] /\ task[c].status # "none"
    BY <1>0, <1>3 DEF RetryDue
  <2>3. UNCHANGED <<row, log, restored, edit, bus, timers, up, worker, spent>>
    BY <1>3 DEF RetryDue
  <2> HIDE DEF new
  <2> QED
    BY <1>1, <2>1, <2>2, <2>3
<1> QED
  BY <1>2, <1>3 DEF Time


-----------------------------------------------------------------------------
(* The worker *)

\* A step of the worker of p changes the memory of p only.
OwnStep(p) ==
  /\ up' \in [Processes -> {"down", "booting", "serving"}]
  /\ pc' \in [Processes -> Steps]
  /\ batch' \in [Processes -> SUBSET Claimed]
  /\ work' \in [Processes -> WorkType]
  /\ up'[p] # "down"
  /\ \A c \in Contents : work'[p].task = c => row[c].status # "none"
  /\ \A q \in Processes \ {p} : /\ up'[q] = up[q] /\ pc'[q] = pc[q]
                                /\ batch'[q] = batch[q] /\ work'[q] = work[q]

LEMMA WorkerStep ==
  ASSUME IInv, NEW p \in Processes, OwnStep(p), HandOK(p)', MapsOK',
         row' \in [Contents -> RowType],
         \A c \in Contents : row[c].status # "none" => row'[c].status # "none",
         task' \in [Contents -> TaskType], TasksOK',
         \A c \in Contents : task'[c].status # "none" => row[c].status # "none",
         \A q \in Processes \ {p} : Leaves(q),
         timers' \in [Processes -> SUBSET Contents],
         \A q \in Processes \ {p} : timers'[q] = timers[q],
         UNCHANGED <<restored, edit, bus>>
  PROVE  IInv'
<1>0. TypeOK /\ RowsOK /\ DownOK
  BY DEF IInv
<1>1. TypeOK'
  BY <1>0, Types, TypedNext DEF OwnStep
<1>2. RowsOK'
  <2>1. \A c \in Contents, q \in Processes : work'[q].task = c => row[c].status # "none"
    BY <1>0 DEF OwnStep, RowsOK
  <2> QED
    BY <1>0, <2>1 DEF RowsOK
<1>3. DownOK'
  <2>1. \A c \in Contents : edit[c] # NoEdit => edit[c].by \in Processes
    BY DEF IInv, MapsOK, Edit
  <2>2. \A c \in Contents : edit[c] # NoEdit => up'[edit[c].by] # "down"
    BY <1>0, <2>1 DEF DownOK, OwnStep
  <2>3. \A q \in Processes : up'[q] = "down" =>
          pc'[q] = "idle" /\ bus[q] = {} /\ timers'[q] = {}
    BY <1>0 DEF DownOK, OwnStep
  <2> QED
    BY <2>2, <2>3 DEF DownOK
<1>4. \A q \in Processes \ {p} : HandOK(q)'
  BY <1>0, <1>1, HandStays DEF IInv, OwnStep
<1> QED
  BY <1>1, <1>2, <1>3, <1>4 DEF IInv

\* Steps that only move the worker of p and may count a fault.
LEMMA QuietStep ==
  ASSUME IInv, NEW p \in Processes, OwnStep(p), HandOK(p)',
         Fault \/ UNCHANGED spent,
         UNCHANGED <<database, edit, bus, timers>>
  PROVE  IInv'
<1>0. /\ TypeOK /\ MapsOK /\ TasksOK /\ RowsOK
      /\ UNCHANGED <<row, task, log, restored, edit, bus, timers>>
  BY DEF IInv, database
<1>1. MapsOK'
  BY <1>0 DEF MapsOK, Fault
<1>2. TasksOK'
  BY <1>0 DEF TasksOK
<1>3. \A c \in Contents : task'[c].status # "none" => row[c].status # "none"
  BY <1>0 DEF RowsOK
<1>4. \A q \in Processes : Leaves(q)
  BY <1>0, SameTasksLeave
<1> QED
  BY <1>0, <1>1, <1>2, <1>3, <1>4, Types, WorkerStep

LEMMA Remembered ==
  ASSUME TypeOK, task' \in [Contents -> TaskType], NEW p \in Processes, Leaves(p),
         NEW c \in Contents, NEW a \in Nat, Remembers(p, c, a)
  PROVE  Remembers(p, c, a)'
<1>1. task[c].attempts \in Nat /\ task'[c].attempts \in Nat
  BY Types DEF TaskType
<1> QED
  BY <1>1 DEF Remembers, Leaves

\* The worker puts everything down.
LEMMA Rests ==
  ASSUME NEW p \in Processes, pc'[p] \in {"idle", "sweep", "claim"},
         work'[p] = NoWork, batch'[p] = {}
  PROVE  HandOK(p)'
BY DEF HandOK, Busy

\* It turns to the rest of its batch.
LEMMA TurnsToBatch ==
  ASSUME TypeOK, NEW p \in Processes, HandOK(p), Leaves(p),
         task' \in [Contents -> TaskType], pc'[p] = "next", work'[p] = NoWork,
         batch'[p] \subseteq batch[p]
  PROVE  HandOK(p)'
<1>1. \A b \in batch[p] : b.task \in Contents /\ b.attempts \in Nat
  BY Types DEF Claimed
<1>2. \A b \in batch'[p] : Remembers(p, b.task, b.attempts)'
  BY <1>1, Remembered DEF HandOK
<1>3. \A a, b \in batch'[p] : a.task = b.task => a = b
  BY DEF HandOK
<1> QED
  BY <1>2, <1>3 DEF HandOK, Busy

\* It goes on with its task.
LEMMA GoesOn ==
  ASSUME TypeOK, NEW p \in Processes, HandOK(p), UNCHANGED <<task, batch>>,
         pc[p] \in Busy, pc'[p] \in Busy,
         work'[p].task = work[p].task, work'[p].attempts = work[p].attempts,
         pc'[p] = "reschedule" => work[p].attempts + 1 < MaxAttempts,
         pc'[p] \in {"verify", "commit"} =>
           /\ work'[p].decision \in {"hidden", "approved"}
           /\ work'[p].semantic \in {"not_evaluated", "flagged", "clean", "degraded"}
  PROVE  HandOK(p)'
<1>1. /\ \A b \in batch'[p] : Remembers(p, b.task, b.attempts)'
      /\ Remembers(p, work[p].task, work[p].attempts)'
  BY DEF HandOK, Remembers
<1>2. /\ pc'[p] \notin {"idle", "sweep", "claim"}
      /\ \A a, b \in batch'[p] : a.task = b.task => a = b
      /\ work'[p].task \in Contents /\ \A b \in batch'[p] : b.task # work'[p].task
  BY DEF HandOK, Busy
<1> QED
  BY <1>1, <1>2 DEF HandOK

\* NextTask and Abort, as seen from the memory of p.
LEMMA Lets ==
  ASSUME IInv, NEW p \in Processes, up[p] # "down",
         task' \in [Contents -> TaskType], Leaves(p),
         \/ NextTask(p) /\ UNCHANGED batch
         \/ Abort(p)
  PROVE  OwnStep(p) /\ HandOK(p)'
<1>0. TypeOK /\ HandOK(p) /\ NoWork \in WorkType /\ NoWork.task = NoContent
  BY NoneTyped DEF IInv
<1>1. /\ work' = [work EXCEPT ![p] = NoWork]
      /\ \/ /\ batch' = batch /\ batch[p] = {} /\ BatchOver(p)
         \/ /\ batch' = batch /\ batch[p] # {} /\ up' = up
            /\ pc' = [pc EXCEPT ![p] = "next"]
         \/ batch' = [batch EXCEPT ![p] = {}] /\ BatchOver(p)
  BY DEF NextTask, Abort
<1>2. OwnStep(p)
  BY <1>0, <1>1, Types DEF OwnStep, BatchOver, Steps
<1>3. HandOK(p)'
  <2>1. work'[p] = NoWork
    BY <1>0, <1>1, Types
  <2>2. CASE pc' = [pc EXCEPT ![p] = "next"] /\ batch' = batch
    <3>1. pc'[p] = "next" /\ batch'[p] \subseteq batch[p]
      BY <1>0, <2>2, Types
    <3> QED
      BY <1>0, <2>1, <3>1, TurnsToBatch
  <2>3. CASE BatchOver(p) /\ batch'[p] = {}
    <3>1. pc'[p] = "idle"
      BY <1>0, <2>3, Types DEF BatchOver
    <3> QED
      BY <2>1, <2>3, <3>1, Rests
  <2> QED
    BY <1>0, <1>1, <2>2, <2>3, Types
<1> QED
  BY <1>2, <1>3

\* Decide and Catch, and the steps from one layer to the next.
LEMMA Decides ==
  ASSUME IInv, NEW p \in Processes, pc[p] \in Busy,
         UNCHANGED <<task, batch, up>>,
         \/ /\ \E step \in {"semantic", "reschedule", "commit"} :
                 /\ pc' = [pc EXCEPT ![p] = step]
                 /\ step = "reschedule" => work[p].attempts + 1 < MaxAttempts
                 /\ step = "commit" => pc[p] = "verify"
            /\ UNCHANGED work
         \/ \E decision \in {"hidden", "approved"}, caught \in BOOLEAN,
               semantic \in {"not_evaluated", "flagged", "clean", "degraded"} :
              Decide(p, decision, semantic, caught)
  PROVE  OwnStep(p) /\ HandOK(p)'
<1>0. /\ TypeOK /\ HandOK(p) /\ up[p] # "down"
      /\ work[p].task \in Contents => row[work[p].task].status # "none"
  BY DEF IInv, DownOK, Busy, RowsOK
<1>1. CASE /\ \E step \in {"semantic", "reschedule", "commit"} :
                /\ pc' = [pc EXCEPT ![p] = step]
                /\ step = "reschedule" => work[p].attempts + 1 < MaxAttempts
                /\ step = "commit" => pc[p] = "verify"
           /\ UNCHANGED work
  <2>1. /\ pc' \in [Processes -> Steps] /\ pc'[p] \in {"semantic", "reschedule", "commit"}
        /\ \A q \in Processes \ {p} : pc'[q] = pc[q]
        /\ pc'[p] = "reschedule" => work[p].attempts + 1 < MaxAttempts
        /\ pc'[p] = "commit" => pc[p] = "verify"
    BY <1>0, <1>1, Types DEF Steps
  <2>2. OwnStep(p)
    BY <1>0, <1>1, <2>1, Types DEF OwnStep
  <2>3. pc'[p] = "commit" =>
           /\ work'[p].decision \in {"hidden", "approved"}
           /\ work'[p].semantic \in {"not_evaluated", "flagged", "clean", "degraded"}
    BY <1>0, <1>1, <2>1 DEF HandOK
  <2>4. HandOK(p)'
    BY <1>0, <1>1, <2>1, <2>3, GoesOn DEF Busy
  <2> QED
    BY <2>2, <2>4
<1>2. ASSUME NEW decision \in {"hidden", "approved"}, NEW caught \in BOOLEAN,
             NEW semantic \in {"not_evaluated", "flagged", "clean", "degraded"},
             Decide(p, decision, semantic, caught)
      PROVE  OwnStep(p) /\ HandOK(p)'
  <2>1. /\ pc' \in [Processes -> Steps] /\ pc'[p] = "verify"
        /\ \A q \in Processes \ {p} : pc'[q] = pc[q]
    BY <1>0, <1>2, Types DEF Decide, Steps
  <2> DEFINE new == [work[p] EXCEPT !.decision = decision, !.semantic = semantic,
                                    !.caught = caught]
  <2>2. work[p] \in WorkType
    BY <1>0, Types
  <2>3. /\ new \in WorkType /\ new.task = work[p].task
        /\ new.attempts = work[p].attempts
        /\ new.decision = decision /\ new.semantic = semantic
    BY <2>2 DEF WorkType
  <2>4. work' = [work EXCEPT ![p] = new]
    BY <1>0, <1>2, <2>2, Types DEF Decide, WorkType
  <2> HIDE DEF new
  <2>5. /\ work' \in [Processes -> WorkType] /\ work'[p] = new
        /\ \A q \in Processes \ {p} : work'[q] = work[q]
    BY <1>0, <2>3, <2>4, Types
  <2>6. OwnStep(p)
    BY <1>0, <1>2, <2>1, <2>3, <2>5, Types DEF OwnStep
  <2>7. HandOK(p)'
    BY <1>0, <1>2, <2>1, <2>3, <2>5, GoesOn DEF Busy
  <2> QED
    BY <2>6, <2>7
<1> QED
  BY <1>1, <1>2

LEMMA Catches ==
  ASSUME NEW p \in Processes, NEW recoverable \in BOOLEAN, Catch(p, recoverable)
  PROVE  \/ /\ pc' = [pc EXCEPT ![p] = "reschedule"] /\ UNCHANGED work
            /\ work[p].attempts + 1 < MaxAttempts
         \/ Decide(p, "approved", "degraded", FALSE)
BY DEF Catch

LEMMA Throws ==
  ASSUME IInv, NEW p \in Processes, pc[p] \in {"verify", "commit"}, Throw(p),
         UNCHANGED task
  PROVE  OwnStep(p) /\ HandOK(p)'
<1>1. CASE Catch(p, TRUE) /\ UNCHANGED <<batch, up>>
  BY <1>1, Catches, Decides DEF Busy
<1>2. CASE Abort(p)
  <2>1. up[p] # "down" /\ task' \in [Contents -> TaskType] /\ Leaves(p)
    BY Types, SameTasksLeave DEF IInv, DownOK
  <2> QED
    BY <1>2, <2>1, Lets
<1> QED
  BY <1>1, <1>2 DEF Throw

LEMMA TaskFields ==
  ASSUME NEW r \in TaskType
  PROVE  r.attempts \in 0 .. MaxAttempts - 1 /\ r.attempts \in Nat
BY DEF TaskType

\* A task that is taken, freed or finished.
Freed(r) == [r EXCEPT !.status = "pending", !.token = NoProcess]
Taken(r, p) == [r EXCEPT !.status = "processing", !.leased = TRUE, !.token = p]
Finished(r) == [r EXCEPT !.status = "processed", !.leased = FALSE, !.token = NoProcess]

LEMMA FreedTask ==
  ASSUME NEW r \in TaskType
  PROVE  /\ Freed(r) \in TaskType /\ Freed(r).status = "pending"
         /\ Freed(r).token = NoProcess /\ Freed(r).leased = r.leased
         /\ Freed(r).attempts = r.attempts
<1> DEFINE first == [r EXCEPT !.status = "pending"]
<1>1. /\ first \in TaskType /\ first.status = "pending"
      /\ first.leased = r.leased /\ first.attempts = r.attempts
  BY DEF TaskType
<1>2. Freed(r) = [first EXCEPT !.token = NoProcess]
  BY DEF Freed
<1> HIDE DEF first
<1> QED
  BY <1>1, <1>2 DEF TaskType

LEMMA TakenTask ==
  ASSUME NEW r \in TaskType, NEW p \in Processes
  PROVE  /\ Taken(r, p) \in TaskType /\ Taken(r, p).status = "processing"
         /\ Taken(r, p).token = p /\ Taken(r, p).leased
         /\ Taken(r, p).attempts = r.attempts
<1> DEFINE first == [r EXCEPT !.status = "processing"]
           second == [first EXCEPT !.leased = TRUE]
<1>1. first \in TaskType /\ first.status = "processing" /\ first.attempts = r.attempts
  BY DEF TaskType
<1>2. Taken(r, p) = [second EXCEPT !.token = p]
  BY DEF Taken
<1> HIDE DEF first
<1>3. /\ second \in TaskType /\ second.status = "processing"
      /\ second.leased /\ second.attempts = r.attempts
  BY <1>1 DEF TaskType
<1> HIDE DEF second
<1> QED
  BY <1>2, <1>3 DEF TaskType

LEMMA FinishedTask ==
  ASSUME NEW r \in TaskType
  PROVE  /\ Finished(r) \in TaskType /\ Finished(r).status = "processed"
         /\ Finished(r).token = NoProcess /\ ~Finished(r).leased
         /\ Finished(r).attempts = r.attempts
<1> DEFINE first == [r EXCEPT !.status = "processed"]
           second == [first EXCEPT !.leased = FALSE]
<1>1. first \in TaskType /\ first.status = "processed" /\ first.attempts = r.attempts
  BY DEF TaskType
<1>2. Finished(r) = [second EXCEPT !.token = NoProcess]
  BY DEF Finished
<1> HIDE DEF first
<1>3. /\ second \in TaskType /\ second.status = "processed"
      /\ ~second.leased /\ second.attempts = r.attempts
  BY <1>1 DEF TaskType
<1> HIDE DEF second
<1> QED
  BY <1>2, <1>3 DEF TaskType

LEMMA Claims ==
  ASSUME IInv, NEW p \in Processes, Claim(p)
  PROVE  IInv'
<1>0. /\ TypeOK /\ MapsOK /\ RowsOK /\ TasksOK /\ HandOK(p)
      /\ pc[p] = "claim" /\ up[p] # "down" /\ work[p] = NoWork
      /\ UNCHANGED <<row, log, restored, edit, bus, timers, work, spent>>
  BY DEF IInv, Claim, DownOK, HandOK, Busy
<1>1. PICK cs \in SUBSET Claimable :
        /\ task' = [c \in Contents |->
                      IF c \in cs THEN [task[c] EXCEPT !.status = "processing",
                                                       !.leased = TRUE, !.token = p]
                      ELSE task[c]]
        /\ batch' = [batch EXCEPT ![p] =
                       {[task |-> c, attempts |-> task[c].attempts] : c \in cs}]
        /\ IF cs = {} THEN BatchOver(p)
           ELSE pc' = [pc EXCEPT ![p] = "next"] /\ UNCHANGED up
  BY DEF Claim
<1>2. \A c \in Contents :
        /\ task[c] \in TaskType /\ task[c].attempts \in 0 .. MaxAttempts - 1
        /\ task[c].attempts \in Nat
        /\ c \in cs => /\ task'[c] \in TaskType /\ task'[c].status = "processing"
                       /\ task'[c].token = p
        /\ task'[c].attempts = task[c].attempts
        /\ c \notin cs => task'[c] = task[c]
  <2>1. \A c \in Contents : /\ task[c] \in TaskType
                            /\ task[c].attempts \in 0 .. MaxAttempts - 1
                            /\ task[c].attempts \in Nat
    BY <1>0, Types, TaskFields
  <2>2. ASSUME NEW c \in Contents, c \in cs
        PROVE  /\ task'[c] \in TaskType /\ task'[c].status = "processing"
               /\ task'[c].token = p /\ task'[c].attempts = task[c].attempts
    <3>1. task'[c] = Taken(task[c], p)
      BY <1>1, <2>2 DEF Taken
    <3> QED
      BY <2>1, <3>1, TakenTask
  <2> QED
    BY <1>1, <2>1, <2>2
<1>3. /\ cs \subseteq Contents
      /\ \A c \in cs : task[c].status \in {"pending", "retry"}
  BY <1>1 DEF Claimable
<1>4. task' \in [Contents -> TaskType]
  BY <1>1, <1>2
<1>5. TasksOK'
  BY <1>0, <1>2, <1>3 DEF TasksOK
<1>6. \A c \in Contents : task'[c].status # "none" => row[c].status # "none"
  BY <1>0, <1>2, <1>3 DEF RowsOK
<1>7. \A q \in Processes \ {p} : Leaves(q)
  BY <1>2 DEF Leaves
<1> DEFINE claims == {[task |-> c, attempts |-> task[c].attempts] : c \in cs}
<1>8. \A b \in claims : /\ b \in Claimed /\ b.task \in cs
                        /\ b.attempts = task[b.task].attempts
  BY <1>2, <1>3 DEF Claimed
<1>9. \A a, b \in claims : a.task = b.task => a = b
  OBVIOUS
<1>10. cs = {} => claims = {}
  OBVIOUS
<1>11. batch' = [batch EXCEPT ![p] = claims]
  BY <1>1
<1> HIDE DEF claims
<1>12. batch'[p] = claims /\ batch' \in [Processes -> SUBSET Claimed]
  BY <1>0, <1>8, <1>11, Types
<1>13. OwnStep(p)
  <2>1. /\ up' \in [Processes -> {"down", "booting", "serving"}] /\ up'[p] # "down"
        /\ pc' \in [Processes -> Steps]
        /\ \A q \in Processes \ {p} : up'[q] = up[q] /\ pc'[q] = pc[q]
    BY <1>0, <1>1, Types DEF BatchOver, Steps
  <2>2. \A q \in Processes \ {p} : batch'[q] = batch[q] /\ work'[q] = work[q]
    BY <1>0, <1>11, Types
  <2>3. /\ work' \in [Processes -> WorkType]
        /\ \A c \in Contents : work'[p].task = c => row[c].status # "none"
    BY <1>0, Types, NoneTyped
  <2> QED
    BY <1>12, <2>1, <2>2, <2>3 DEF OwnStep
<1>14. HandOK(p)'
  <2>1. CASE cs = {}
    BY <1>0, <1>1, <1>10, <1>12, <2>1, Rests, Types DEF BatchOver
  <2>2. CASE cs # {}
    <3>1. pc'[p] = "next"
      BY <1>0, <1>1, <2>2, Types
    <3>2. \A b \in batch'[p] : Remembers(p, b.task, b.attempts)'
      BY <1>2, <1>3, <1>8, <1>12 DEF Remembers
    <3> QED
      BY <1>0, <1>9, <1>12, <3>1, <3>2 DEF HandOK, Busy
  <2> QED
    BY <2>1, <2>2
<1>15. MapsOK' /\ row' \in [Contents -> RowType]
  BY <1>0, Types DEF MapsOK
<1> QED
  BY <1>0, <1>4, <1>5, <1>6, <1>7, <1>13, <1>14, <1>15, Types, WorkerStep

LEMMA Sweeps ==
  ASSUME IInv, NEW p \in Processes, Sweep(p)
  PROVE  IInv'
<1>0. /\ TypeOK /\ MapsOK /\ RowsOK /\ TasksOK
      /\ up[p] # "down" /\ work[p] = NoWork /\ batch[p] = {}
      /\ pc' = [pc EXCEPT ![p] = "claim"]
      /\ UNCHANGED <<row, log, restored, edit, bus, timers, up, batch, work, spent>>
  BY DEF IInv, Sweep, DownOK, HandOK, Busy
<1>1. PICK cs \in SUBSET Contents :
        /\ \A kind \in {Messages, Reviews, Publications} : cs \cap kind \subseteq Orphans(kind)
        /\ task' = Enqueued(cs)
  BY DEF Sweep
<1>2. \A c \in cs : row[c].status # "none"
  BY <1>1 DEF Orphans, Visible, Contents, Editable
<1>3. /\ task' \in [Contents -> TaskType] /\ TasksOK'
      /\ \A c \in Contents : task'[c].status # "none" => row[c].status # "none"
      /\ \A q \in Processes : Leaves(q)
  BY <1>0, <1>1, <1>2, EnqueueOK
<1>4. OwnStep(p) /\ HandOK(p)'
  <2>1. pc'[p] = "claim"
    BY <1>0, Types
  <2> QED
    BY <1>0, <2>1, Rests, Types, NoneTyped DEF OwnStep, Steps
<1>5. MapsOK' /\ row' \in [Contents -> RowType]
  BY <1>0, Types DEF MapsOK
<1> QED
  BY <1>0, <1>3, <1>4, <1>5, Types, WorkerStep

LEMMA Boots ==
  ASSUME IInv, NEW p \in Processes, Boot(p)
  PROVE  IInv'
<1>0. /\ TypeOK /\ MapsOK /\ RowsOK /\ TasksOK
      /\ work[p] = NoWork /\ batch[p] = {}
      /\ up' = [up EXCEPT ![p] = "booting"] /\ pc' = [pc EXCEPT ![p] = "sweep"]
      /\ UNCHANGED <<row, log, restored, edit, bus, timers, batch, work, spent>>
  BY DEF IInv, Boot, DownOK, HandOK, Busy
<1>1. \A c \in Contents :
        /\ task[c] \in TaskType
        /\ \/ task'[c] = task[c]
           \/ /\ task[c].status = "processing" /\ ~task[c].leased
              /\ task'[c] = Freed(task[c])
  BY <1>0, Types DEF Boot, Freed
<1>2. \A c \in Contents :
        /\ task'[c] \in TaskType
        /\ task[c].attempts \in Nat /\ task'[c].attempts = task[c].attempts
        /\ \/ task'[c] = task[c]
           \/ /\ task[c].status = "processing" /\ ~task[c].leased
              /\ task'[c].status = "pending" /\ task'[c].token = NoProcess
              /\ ~task'[c].leased
  BY <1>1, TaskFields, FreedTask
<1>3. task' \in [Contents -> TaskType]
  BY <1>1, <1>2 DEF Boot
<1>4. TasksOK'
  BY <1>0, <1>2 DEF TasksOK
<1>5. \A c \in Contents : task'[c].status # "none" => row[c].status # "none"
  BY <1>0, <1>1 DEF RowsOK
<1>6. \A q \in Processes : Leaves(q)
  BY <1>2 DEF Leaves
<1>7. OwnStep(p) /\ HandOK(p)'
  <2>1. pc'[p] = "sweep"
    BY <1>0, Types
  <2> QED
    BY <1>0, <2>1, Rests, Types, NoneTyped DEF OwnStep, Steps
<1>8. MapsOK' /\ row' \in [Contents -> RowType]
  BY <1>0, Types DEF MapsOK
<1> QED
  BY <1>0, <1>3, <1>4, <1>5, <1>6, <1>7, <1>8, Types, WorkerStep

\* The task of c is finished; a verdict or the loss of c justifies it.
LEMMA TaskFinished ==
  ASSUME IInv, NEW c \in Contents, task' = [task EXCEPT ![c] = Processed(c)],
         row[c].status # "none",
         c \notin Publications => log'[c] # NoLog \/ row'[c].deleted,
         \A d \in Contents \ {c} : log'[d] = log[d] /\ row'[d] = row[d]
  PROVE  /\ task' \in [Contents -> TaskType] /\ TasksOK'
         /\ \A d \in Contents : task'[d].status # "none" => row[d].status # "none"
         /\ \A q \in Processes : Leaves(q)
<1>0. /\ TypeOK /\ RowsOK /\ TasksOK /\ task[c] \in TaskType
  BY Types DEF IInv
<1>1. PICK new \in TaskType : /\ task' = [task EXCEPT ![c] = new]
                              /\ new.status = "processed" /\ new.token = NoProcess
                              /\ ~new.leased /\ new.attempts = task[c].attempts
  BY <1>0, FinishedTask DEF Processed, Finished
<1>2. /\ task' \in [Contents -> TaskType] /\ TasksOK'
      /\ \A d \in Contents : task'[d].status # "none" => row[d].status # "none"
  BY <1>0, <1>1, TaskWritten
<1>3. \A d \in Contents : /\ task[d].attempts \in Nat
                          /\ task'[d].attempts = task[d].attempts
                          /\ task'[d].token \in {task[d].token, NoProcess}
                          /\ task[d].status # "none" => task'[d].status # "none"
  BY <1>0, <1>1, Types, TaskFields
<1>4. \A q \in Processes : Leaves(q)
  BY <1>3 DEF Leaves
<1> QED
  BY <1>2, <1>4

LEMMA Reads ==
  ASSUME IInv, NEW p \in Processes, ReadContent(p)
  PROVE  IInv'
<1>0. /\ TypeOK /\ MapsOK /\ RowsOK /\ TasksOK /\ HandOK(p)
      /\ pc[p] = "next" /\ up[p] # "down" /\ work[p] = NoWork
      /\ UNCHANGED <<row, log, restored, edit, bus, timers, spent>>
  BY DEF IInv, ReadContent, DownOK, HandOK, Busy
<1>1. PICK b \in batch[p] :
        /\ batch' = [batch EXCEPT ![p] = @ \ {b}]
        /\ IF Visible(b.task)
           THEN /\ work' = [work EXCEPT ![p] =
                              [NoWork EXCEPT !.task = b.task, !.attempts = b.attempts,
                                             !.text = row[b.task].text]]
                /\ pc' = [pc EXCEPT ![p] = "lexical"]
                /\ UNCHANGED <<task, up>>
           ELSE /\ task' = IF task[b.task].token = p
                           THEN [task EXCEPT ![b.task] = Processed(b.task)] ELSE task
                /\ IF batch'[p] = {} THEN BatchOver(p) ELSE UNCHANGED <<pc, up>>
                /\ UNCHANGED work
  BY DEF ReadContent
<1>2. b \in Claimed /\ b.task \in Contents /\ b.attempts \in 0 .. MaxAttempts - 1
  BY <1>0, Types DEF Claimed
<1>3. /\ batch'[p] = batch[p] \ {b} /\ batch' \in [Processes -> SUBSET Claimed]
      /\ \A q \in Processes \ {p} : batch'[q] = batch[q]
  BY <1>0, <1>1, Types
<1>4. MapsOK' /\ row' \in [Contents -> RowType]
  BY <1>0, Types DEF MapsOK
<1>5. CASE Visible(b.task)
  <2> DEFINE new == [NoWork EXCEPT !.task = b.task, !.attempts = b.attempts,
                                   !.text = row[b.task].text]
  <2>1. row[b.task].text \in Texts
    BY <1>0, <1>2, Types DEF RowType
  <2> DEFINE first == [NoWork EXCEPT !.task = b.task]
             second == [first EXCEPT !.attempts = b.attempts]
  <2>3. new \in WorkType /\ new.task = b.task /\ new.attempts = b.attempts
    <3>1. first \in WorkType /\ first.task = b.task
      BY <1>2, NoneTyped DEF WorkType
    <3>2. new = [second EXCEPT !.text = row[b.task].text]
      OBVIOUS
    <3> HIDE DEF new, first
    <3>3. second \in WorkType /\ second.task = b.task /\ second.attempts = b.attempts
      BY <1>2, <3>1 DEF WorkType
    <3> HIDE DEF second
    <3> QED
      BY <2>1, <3>2, <3>3 DEF WorkType
  <2>4. work' = [work EXCEPT ![p] = new] /\ pc' = [pc EXCEPT ![p] = "lexical"]
        /\ UNCHANGED <<task, up>>
    BY <1>1, <1>5
  <2> HIDE DEF new
  <2>5. OwnStep(p)
    <3>1. row[b.task].status # "none"
      BY <1>5 DEF Visible
    <3>2. /\ pc' \in [Processes -> Steps] /\ work' \in [Processes -> WorkType]
          /\ work'[p] = new /\ up' \in [Processes -> {"down", "booting", "serving"}]
          /\ up'[p] # "down"
          /\ \A q \in Processes \ {p} : /\ up'[q] = up[q] /\ pc'[q] = pc[q]
                                        /\ work'[q] = work[q]
      BY <1>0, <2>3, <2>4, Types DEF Steps
    <3> QED
      BY <1>3, <2>3, <3>1, <3>2 DEF OwnStep
  <2>6. HandOK(p)'
    <3>1. pc'[p] = "lexical" /\ work'[p] = new
      BY <1>0, <2>4, Types
    <3>2. \A a \in batch[p] : Remembers(p, a.task, a.attempts)'
      BY <1>0, <2>4 DEF HandOK, Remembers
    <3>3. Remembers(p, work[p].task, work[p].attempts)'
      BY <2>3, <3>1, <3>2 DEF Remembers
    <3>4. /\ \A a \in batch'[p] : a.task # work'[p].task
          /\ \A a, d \in batch'[p] : a.task = d.task => a = d
      BY <1>0, <1>3, <2>3, <3>1 DEF HandOK
    <3> QED
      BY <1>2, <1>3, <2>3, <3>1, <3>2, <3>3, <3>4 DEF HandOK, Busy
  <2>7. /\ task' \in [Contents -> TaskType] /\ TasksOK'
        /\ \A c \in Contents : task'[c].status # "none" => row[c].status # "none"
        /\ \A q \in Processes : Leaves(q)
    BY <1>0, <2>4, Types, SameTasksLeave DEF TasksOK, RowsOK
  <2> QED
    BY <1>0, <1>4, <2>5, <2>6, <2>7, Types, WorkerStep
<1>6. CASE ~Visible(b.task)
  <2>1. /\ task' \in [Contents -> TaskType] /\ TasksOK'
        /\ \A c \in Contents : task'[c].status # "none" => row[c].status # "none"
        /\ \A q \in Processes : Leaves(q)
    <3>1. CASE task[b.task].token = p
      <4>1. row[b.task].status # "none"
        BY <1>0, <1>2, <3>1 DEF TasksOK, RowsOK
      <4>2. row'[b.task].deleted
        BY <1>0, <1>6, <4>1 DEF Visible
      <4>3. task' = [task EXCEPT ![b.task] = Processed(b.task)]
        BY <1>1, <1>6, <3>1
      <4> QED
        BY <1>0, <1>2, <4>1, <4>2, <4>3, TaskFinished
    <3>2. CASE task[b.task].token # p
      <4>1. UNCHANGED <<row, task, log>>
        BY <1>0, <1>1, <1>6, <3>2
      <4> QED
        BY <1>0, <4>1, Types, SameTasksLeave DEF TasksOK, RowsOK
    <3> QED
      BY <3>1, <3>2
  <2>2. OwnStep(p) /\ HandOK(p)'
    <3>1. /\ work' = work /\ work'[p] = NoWork
          /\ IF batch'[p] = {} THEN BatchOver(p) ELSE UNCHANGED <<pc, up>>
      BY <1>0, <1>1, <1>6
    <3>2. CASE batch'[p] = {} /\ BatchOver(p)
      <4>1. /\ pc'[p] = "idle" /\ pc' \in [Processes -> Steps]
            /\ up' \in [Processes -> {"down", "booting", "serving"}] /\ up'[p] # "down"
            /\ \A q \in Processes \ {p} : up'[q] = up[q] /\ pc'[q] = pc[q]
        BY <1>0, <3>2, Types DEF BatchOver, Steps
      <4> QED
        BY <1>0, <1>3, <3>1, <3>2, <4>1, Rests, Types, NoneTyped DEF OwnStep
    <3>3. CASE UNCHANGED <<pc, up>>
      <4>1. HandOK(p)'
        BY <1>0, <1>3, <2>1, <3>1, <3>3, TurnsToBatch
      <4> QED
        BY <1>0, <1>3, <3>1, <3>3, <4>1, Types, NoneTyped DEF OwnStep
    <3> QED
      BY <3>1, <3>2, <3>3
  <2> QED
    BY <1>0, <1>4, <2>1, <2>2, Types, WorkerStep
<1> QED
  BY <1>5, <1>6

LEMMA Layers ==
  ASSUME IInv, NEW p \in Processes, Lexical(p) \/ LexicalWithoutList(p) \/ Semantic(p)
  PROVE  IInv'
<1>0. /\ UNCHANGED <<database, edit, bus, timers, up, batch, task>>
      /\ pc[p] \in Busy /\ (Fault \/ UNCHANGED spent)
  BY DEF Lexical, LexicalWithoutList, Semantic, Busy, database
<1>1. CASE Lexical(p) \/ LexicalWithoutList(p)
  BY <1>0, <1>1, Decides, QuietStep DEF Lexical, LexicalWithoutList
<1>2. CASE Semantic(p)
  <2>1. \/ \E decision \in {"hidden", "approved"}, caught \in BOOLEAN,
              semantic \in {"not_evaluated", "flagged", "clean", "degraded"} :
             Decide(p, decision, semantic, caught)
        \/ /\ pc' = [pc EXCEPT ![p] = "reschedule"] /\ UNCHANGED work
           /\ work[p].attempts + 1 < MaxAttempts
    BY <1>2, Catches DEF Semantic
  <2> QED
    BY <1>0, <2>1, Decides, QuietStep
<1> QED
  BY <1>1, <1>2

LEMMA Verifies ==
  ASSUME IInv, NEW p \in Processes, Verify(p)
  PROVE  IInv'
<1>0. /\ UNCHANGED <<database, edit, bus, timers, batch, spent, task>>
      /\ pc[p] = "verify" /\ up[p] # "down" /\ TypeOK
  BY DEF IInv, DownOK, Verify, database
<1>1. CASE pc' = [pc EXCEPT ![p] = "commit"] /\ UNCHANGED <<work, up>>
  BY <1>0, <1>1, Decides, QuietStep DEF Busy
<1>2. CASE NextTask(p)
  BY <1>0, <1>2, Lets, QuietStep, SameTasksLeave, Types
<1> QED
  BY <1>1, <1>2 DEF Verify

LEMMA Fails ==
  ASSUME IInv, NEW p \in Processes,
         CommitConflict(p) \/ StatementFails(p) \/ BootFails(p)
  PROVE  IInv'
<1>0. /\ UNCHANGED <<database, edit, bus, timers, task>> /\ TypeOK /\ HandOK(p)
      /\ Fault \/ UNCHANGED spent
  BY DEF IInv, CommitConflict, StatementFails, BootFails, database
<1>1. CASE pc[p] \in {"verify", "commit"} /\ Throw(p)
  BY <1>0, <1>1, Throws, QuietStep
<1>2. CASE pc[p] \in {"claim", "next", "reschedule"} /\ Abort(p)
  BY <1>0, <1>2, Lets, QuietStep, SameTasksLeave, Types DEF IInv, DownOK
<1>3. CASE BootFails(p)
  <2>1. /\ work[p] = NoWork /\ batch[p] = {} /\ UNCHANGED <<work, batch>>
        /\ BatchOver(p)
    BY <1>0, <1>3 DEF BootFails, HandOK, Busy, IInv, DownOK
  <2>2. OwnStep(p) /\ pc'[p] = "idle"
    BY <1>0, <2>1, Types, NoneTyped DEF OwnStep, BatchOver, Steps
  <2>3. HandOK(p)'
    BY <2>1, <2>2, Rests
  <2> QED
    BY <1>0, <2>2, <2>3, QuietStep
<1> QED
  BY <1>1, <1>2, <1>3 DEF CommitConflict, StatementFails

LEMMA Commits ==
  ASSUME IInv, NEW p \in Processes, Commit(p)
  PROVE  IInv'
<1>0. /\ TypeOK /\ MapsOK /\ RowsOK /\ HandOK(p) /\ pc[p] = "commit" /\ up[p] # "down"
      /\ NextTask(p) /\ UNCHANGED <<restored, edit, bus, timers, batch, spent>>
  BY DEF IInv, Commit, DownOK
<1>1. PICK c \in Contents : c = work[p].task
  BY <1>0 DEF HandOK, Busy
<1>2. PICK verdict \in LogType : log' = [log EXCEPT ![c] = verdict]
  <2>1. work[p].text \in Texts
    BY <1>0, Types DEF WorkType
  <2>2. [decision |-> work[p].decision, semantic |-> work[p].semantic,
         text |-> work[p].text] \in LogType
    BY <1>0, <2>1 DEF HandOK, LogType
  <2> QED
    BY <1>1, <2>2 DEF Commit
<1>3. /\ row' = [row EXCEPT ![c].status = "hidden"] \/ row' = row
      /\ task' = [task EXCEPT ![c] = Processed(c)]
  BY <1>1 DEF Commit
<1>4. /\ row' \in [Contents -> RowType]
      /\ \A d \in Contents : row[d].status # "none" => row'[d].status # "none"
      /\ \A d \in Contents \ {c} : row'[d] = row[d]
  <2> DEFINE new == [row[c] EXCEPT !.status = "hidden"]
  <2>1. row[c] \in RowType
    BY <1>0, Types
  <2>2. new \in RowType /\ new.status # "none"
    BY <2>1 DEF RowType, RowStatuses
  <2>3. row' = [row EXCEPT ![c] = new] \/ row' = row
    BY <1>0, <1>3, Types
  <2> HIDE DEF new
  <2> QED
    BY <1>0, <2>2, <2>3, Types
<1>5. /\ log' \in [Contents -> {NoLog} \cup LogType] /\ log'[c] # NoLog
      /\ \A d \in Contents \ {c} : log'[d] = log[d]
  BY <1>0, <1>2 DEF MapsOK
<1>6. MapsOK'
  BY <1>0, <1>5 DEF MapsOK
<1>7. /\ task' \in [Contents -> TaskType] /\ TasksOK'
      /\ \A d \in Contents : task'[d].status # "none" => row[d].status # "none"
      /\ \A q \in Processes : Leaves(q)
  <2>1. row[c].status # "none"
    BY <1>0, <1>1 DEF RowsOK
  <2> QED
    BY <1>3, <1>4, <1>5, <2>1, TaskFinished
<1>8. OwnStep(p) /\ HandOK(p)'
  BY <1>0, <1>7, Lets
<1> QED
  BY <1>0, <1>4, <1>6, <1>7, <1>8, Types, WorkerStep

LEMMA Reschedules ==
  ASSUME IInv, NEW p \in Processes, Reschedule(p)
  PROVE  IInv'
<1>0. /\ TypeOK /\ MapsOK /\ RowsOK /\ TasksOK /\ HandOK(p)
      /\ pc[p] = "reschedule" /\ up[p] # "down" /\ NextTask(p)
      /\ timers' = [timers EXCEPT ![p] = @ \cup {work[p].task}]
      /\ UNCHANGED <<row, log, restored, edit, bus, batch, spent>>
  BY DEF IInv, Reschedule, DownOK
<1>1. PICK c \in Contents : c = work[p].task /\ row[c].status # "none"
  BY <1>0 DEF HandOK, Busy, RowsOK
<1> DEFINE new == [status |-> "retry", attempts |-> work[p].attempts + 1,
                   due |-> FALSE, leased |-> FALSE, token |-> NoProcess]
<1>2. /\ new \in TaskType /\ new.status = "retry" /\ new.token = NoProcess
      /\ ~new.leased /\ new.attempts = work[p].attempts + 1
      /\ work[p].attempts \in Nat
  <2>1. work[p].attempts \in 0 .. MaxAttempts - 1 /\ work[p].attempts + 1 < MaxAttempts
        /\ MaxAttempts \in Nat
    BY <1>0, Types DEF HandOK, WorkType
  <2>2. work[p].attempts + 1 \in 0 .. MaxAttempts - 1 /\ work[p].attempts \in Nat
    BY <2>1
  <2> QED
    BY <2>2 DEF TaskType
<1>3. task' = IF task[c].token = p THEN [task EXCEPT ![c] = new] ELSE task
  BY <1>1 DEF Reschedule
<1> HIDE DEF new
<1>4. /\ task' \in [Contents -> TaskType] /\ TasksOK'
      /\ \A d \in Contents : task'[d].status # "none" => row[d].status # "none"
      /\ \A q \in Processes : Leaves(q)
  <2>1. CASE task[c].token = p
    <3>1. task[c].status = "processing" /\ task[c].attempts = work[p].attempts
      BY <1>0, <1>1, <2>1 DEF TasksOK, HandOK, Busy, Remembers
    <3>2. /\ log'[c] = NoLog
          /\ \A d \in Contents \ {c} : log'[d] = log[d] /\ row'[d] = row[d]
      BY <1>0, <3>1 DEF TasksOK
    <3>3. /\ task' \in [Contents -> TaskType] /\ TasksOK'
          /\ \A d \in Contents : task'[d].status # "none" => row[d].status # "none"
      BY <1>0, <1>1, <1>2, <1>3, <2>1, <3>2, TaskWritten
    <3>4. \A d \in Contents : /\ task[d].attempts \in Nat
                              /\ task[d].attempts <= task'[d].attempts
                              /\ \/ task'[d] = task[d]
                                 \/ task'[d].token = NoProcess
                              /\ task[d].status # "none" => task'[d].status # "none"
      BY <1>0, <1>2, <1>3, <2>1, <3>1, Types, TaskFields
    <3>5. \A q \in Processes : Leaves(q)
      BY <3>4 DEF Leaves
    <3> QED
      BY <3>3, <3>5
  <2>2. CASE task[c].token # p
    <3>1. UNCHANGED <<task, log, row>>
      BY <1>0, <1>3, <2>2
    <3> QED
      BY <1>0, <3>1, Types, SameTasksLeave DEF TasksOK, RowsOK
  <2> QED
    BY <2>1, <2>2
<1>5. /\ timers' \in [Processes -> SUBSET Contents]
      /\ \A q \in Processes \ {p} : timers'[q] = timers[q]
  BY <1>0, <1>1, Types
<1>6. MapsOK' /\ row' \in [Contents -> RowType]
  BY <1>0, Types DEF MapsOK
<1>7. OwnStep(p) /\ HandOK(p)'
  BY <1>0, <1>4, Lets
<1> QED
  BY <1>0, <1>4, <1>5, <1>6, <1>7, WorkerStep

LEMMA Crashes ==
  ASSUME IInv, NEW p \in Processes, Crash(p)
  PROVE  IInv'
<1>0. /\ TypeOK /\ MapsOK /\ RowsOK /\ TasksOK /\ DownOK
      /\ UNCHANGED <<row, task, log, restored>>
      /\ up' = [up EXCEPT ![p] = "down"] /\ pc' = [pc EXCEPT ![p] = "idle"]
      /\ bus' = [bus EXCEPT ![p] = {}] /\ timers' = [timers EXCEPT ![p] = {}]
      /\ batch' = [batch EXCEPT ![p] = {}] /\ work' = [work EXCEPT ![p] = NoWork]
      /\ spent' = [spent EXCEPT !.crashes = @ + 1]
  BY DEF IInv, Crash, database
<1>1. /\ edit' \in [Contents -> {NoEdit} \cup Edit]
      /\ \A c \in Contents : edit'[c] # NoEdit => edit'[c] = edit[c] /\ edit[c].by # p
  BY <1>0 DEF Crash, MapsOK
<1>2. MapsOK'
  BY <1>0, <1>1 DEF MapsOK
<1>3. /\ up' \in [Processes -> {"down", "booting", "serving"}]
      /\ pc' \in [Processes -> Steps] /\ pc'[p] = "idle"
      /\ \A q \in Processes \ {p} : up'[q] = up[q] /\ pc'[q] = pc[q]
  BY <1>0, Types DEF Steps
<1>4. /\ bus' \in [Processes -> SUBSET Event] /\ bus'[p] = {}
      /\ timers' \in [Processes -> SUBSET Contents] /\ timers'[p] = {}
      /\ \A q \in Processes \ {p} : bus'[q] = bus[q] /\ timers'[q] = timers[q]
  BY <1>0, Types
<1>5. /\ batch' \in [Processes -> SUBSET Claimed] /\ batch'[p] = {}
      /\ work' \in [Processes -> WorkType] /\ work'[p] = NoWork
      /\ \A q \in Processes \ {p} : batch'[q] = batch[q] /\ work'[q] = work[q]
  BY <1>0, Types, NoneTyped
<1>6. TypeOK'
  BY <1>0, <1>2, <1>3, <1>4, <1>5, Types, TypedNext
<1>7. RowsOK'
  <2>1. \A c \in Contents, q \in Processes : work'[q].task = c => row[c].status # "none"
    BY <1>0, <1>5, NoneTyped DEF RowsOK
  <2>2. \A q \in Processes : bus'[q] \subseteq bus[q]
    BY <1>4
  <2> QED
    BY <1>0, <1>1, <2>1, <2>2 DEF RowsOK
<1>8. TasksOK'
  BY <1>0 DEF TasksOK
<1>9. DownOK'
  <2>1. \A c \in Contents : edit'[c] # NoEdit => edit[c].by \in Processes \ {p}
    BY <1>0, <1>1 DEF MapsOK, Edit
  <2> QED
    BY <1>0, <1>1, <1>3, <1>4, <2>1 DEF DownOK
<1>10. ASSUME NEW q \in Processes PROVE HandOK(q)'
  <2>1. CASE q = p
    BY <1>3, <1>5, <2>1, Rests
  <2>2. CASE q # p
    BY <1>0, <1>3, <1>5, <1>6, <2>2, HandStays, SameTasksLeave DEF IInv
  <2> QED
    BY <2>1, <2>2
<1> QED
  BY <1>2, <1>6, <1>7, <1>8, <1>9, <1>10 DEF IInv

-----------------------------------------------------------------------------
(* Every step *)

LEMMA Stutters == ASSUME IInv, UNCHANGED vars PROVE IInv'
<1>0. /\ TypeOK /\ MapsOK /\ RowsOK /\ TasksOK /\ DownOK
      /\ UNCHANGED <<row, task, log, restored, edit, bus, timers, up, pc, batch,
                     work, spent>>
  BY DEF IInv, vars, database, worker
<1>1. MapsOK' /\ RowsOK' /\ TasksOK' /\ DownOK'
  BY <1>0 DEF MapsOK, RowsOK, TasksOK, DownOK
<1>2. TypeOK'
  BY <1>0, <1>1, Types, TypedNext
<1>3. \A q \in Processes : HandOK(q)'
  BY <1>0, <1>2, HandStays, SameTasksLeave DEF IInv
<1> QED
  BY <1>1, <1>2, <1>3 DEF IInv

LEMMA StepKeepsIInv == IInv /\ [Next]_vars => IInv'
<1> SUFFICES ASSUME IInv, [Next]_vars PROVE IInv'
  OBVIOUS
<1>1. ASSUME NEW p \in Processes, Worker(p) PROVE IInv'
  BY <1>1, Claims, Reads, Layers, Verifies, Commits, Fails, Reschedules, Sweeps
     DEF Worker
<1>2. ASSUME NEW p \in Processes, Handlers(p) \/ Boot(p) PROVE IInv'
  BY <1>2, Handles, Boots
<1>3. CASE Author
  BY <1>3, Publishes, EditBegins, EditEnds, Administers DEF Author
<1>4. CASE Failure
  BY <1>4, Layers, Fails, Crashes, EventLost DEF Failure
<1>5. CASE Time
  BY <1>5, TimePasses
<1>6. CASE UNCHANGED vars
  BY <1>6, Stutters
<1> QED
  BY <1>1, <1>2, <1>3, <1>4, <1>5, <1>6 DEF Next

\* The rows and the memory of every process keep their types, and no task
\* ever counts max_attempts failed attempts.
THEOREM TypeCorrectness == Spec => []TypeOK
<1>1. IInv => TypeOK
  BY DEF IInv
<1> QED
  BY <1>1, InitOK, StepKeepsIInv, PTL DEF Spec

\* Whatever crashes, expired leases, second workers and failing statements do
\* in between: a finished task of a message or a review has a verdict unless
\* its content is gone, and a verdict belongs to a finished task.
THEOREM VerdictsMatch == Spec => []VerdictsMatchTasks
<1>1. IInv => VerdictsMatchTasks
  BY DEF IInv, TasksOK, VerdictsMatchTasks, Contents, Editable
<1> QED
  BY <1>1, InitOK, StepKeepsIInv, PTL DEF Spec

-----------------------------------------------------------------------------
(* Verdicts are final *)

Settled(c) == /\ task[c].status = "processed" => task'[c] = task[c]
              /\ log[c] # NoLog => log'[c] = log[c]

LEMMA FinishedAgain ==
  ASSUME IInv, NEW c \in Contents, task[c].status = "processed"
  PROVE  Processed(c) = task[c]
<1>1. task[c] \in TaskType /\ task[c].token = NoProcess /\ ~task[c].leased
  BY Types DEF IInv, TasksOK
<1> DEFINE first == [task[c] EXCEPT !.status = "processed"]
           second == [first EXCEPT !.leased = FALSE]
<1>2. first = task[c]
  BY <1>1 DEF TaskType
<1>3. Processed(c) = [second EXCEPT !.token = NoProcess]
  BY DEF Processed
<1> HIDE DEF first
<1>4. second = first
  BY <1>1, <1>2 DEF TaskType
<1> HIDE DEF second
<1> QED
  BY <1>1, <1>2, <1>3, <1>4 DEF TaskType

LEMMA StepsSettle ==
  ASSUME IInv, [Next]_vars, NEW c \in Contents
  PROVE  Settled(c)
<1>0. /\ TypeOK /\ TasksOK /\ task \in [Contents -> TaskType]
      /\ log \in [Contents -> {NoLog} \cup LogType]
      /\ \A p \in Processes : HandOK(p)
      /\ \A p \in Processes : batch[p] \subseteq Claimed
  BY Types DEF IInv, MapsOK
<1>1. CASE UNCHANGED <<task, log>>
  BY <1>1 DEF Settled
<1>2. ASSUME NEW cs \in SUBSET Contents, task' = Enqueued(cs), UNCHANGED log
      PROVE  Settled(c)
  BY <1>0, <1>2 DEF Settled, Enqueued
<1>3. ASSUME NEW p \in Processes, Claim(p) PROVE Settled(c)
  BY <1>0, <1>3 DEF Claim, Claimable, Settled
<1>4. ASSUME NEW p \in Processes, ReadContent(p) PROVE Settled(c)
  <2>1. PICK b \in batch[p] :
          \/ task' = task
          \/ task' = [task EXCEPT ![b.task] = Processed(b.task)]
    BY <1>4 DEF ReadContent
  <2>2. task[c].status = "processed" => task'[c] = task[c]
    BY <1>0, <2>1, FinishedAgain
  <2> QED
    BY <1>4, <2>2 DEF ReadContent, Settled
<1>5. ASSUME NEW p \in Processes, Commit(p) PROVE Settled(c)
  <2>1. /\ task' = [task EXCEPT ![work[p].task] = Processed(work[p].task)]
        /\ log[work[p].task] = NoLog
        /\ \A d \in Contents \ {work[p].task} : log'[d] = log[d]
    BY <1>0, <1>5 DEF Commit
  <2>2. task[c].status = "processed" => task'[c] = task[c]
    BY <1>0, <2>1, FinishedAgain
  <2> QED
    BY <2>1, <2>2 DEF Settled
<1>6. ASSUME NEW p \in Processes, Reschedule(p) PROVE Settled(c)
  <2>1. UNCHANGED log
    BY <1>6 DEF Reschedule
  <2>2. work[p].task \in Contents
    BY <1>0, <1>6 DEF Reschedule, HandOK, Busy
  <2>3. task[work[p].task].token = p => task[work[p].task].status = "processing"
    BY <1>0, <2>2 DEF TasksOK
  <2>4. \A d \in Contents \ {work[p].task} : task'[d] = task[d]
    BY <1>0, <1>6 DEF Reschedule
  <2>5. task[work[p].task].token # p => task' = task
    BY <1>6 DEF Reschedule
  <2> QED
    BY <2>1, <2>3, <2>4, <2>5 DEF Settled
<1>7. ASSUME NEW p \in Processes, Boot(p) PROVE Settled(c)
  BY <1>0, <1>7 DEF Boot, Settled
<1>8. CASE Time
  <2>1. ASSUME NEW d \in Contents, LeaseExpires(d) PROVE Settled(c)
    BY <1>0, <2>1 DEF LeaseExpires, TasksOK, Settled
  <2>2. ASSUME NEW d \in Contents, RetryDue(d) PROVE Settled(c)
    BY <1>0, <2>2 DEF RetryDue, Settled
  <2> QED
    BY <1>8, <2>1, <2>2 DEF Time
<1>9. ASSUME NEW p \in Processes, Worker(p) PROVE Settled(c)
  <2>1. CASE Lexical(p) \/ Semantic(p) \/ Verify(p) \/ CommitConflict(p)
    BY <1>1, <2>1 DEF Lexical, Semantic, Verify, CommitConflict, database
  <2>2. CASE Sweep(p)
    BY <1>2, <2>2 DEF Sweep
  <2> QED
    BY <1>3, <1>4, <1>5, <1>6, <1>9, <2>1, <2>2 DEF Worker
<1>10. ASSUME NEW p \in Processes, Handlers(p) PROVE Settled(c)
  <2>1. ASSUME NEW d \in Contents, HandleCreated(p, d) PROVE Settled(c)
    BY <1>2, <2>1 DEF HandleCreated
  <2>2. ASSUME NEW d \in Contents, HandleWake(p, d) \/ TimerFires(p, d)
        PROVE  Settled(c)
    BY <1>1, <2>2 DEF HandleWake, TimerFires, database
  <2> QED
    BY <1>10, <2>1, <2>2 DEF Handlers
<1>11. CASE Author \/ Failure \/ UNCHANGED vars
  <2>1. UNCHANGED <<task, log>>
    BY <1>11 DEF Author, Publish, PublishSilently, BeginEdit, FinishEdit,
                 FinishEditSilently, WriteEdit, Remove, Restore, Failure,
                 LexicalWithoutList, StatementFails, BootFails,
                 Crash, HandleCreatedFails, database, vars
  <2> QED
    BY <1>1, <2>1
<1> QED
  BY <1>7, <1>8, <1>9, <1>10, <1>11 DEF Next

\* A finished task is never taken up again and a stored verdict never
\* changes, whichever worker is still busy with it.
THEOREM VerdictFinality == Spec => VerdictIsFinal
<1>1. IInv /\ [Next]_vars =>
        [\A c \in Contents :
           /\ task[c].status = "processed" => task'[c] = task[c]
           /\ log[c] # NoLog => log'[c] = log[c]]_vars
  BY StepsSettle DEF Settled
<1> QED
  BY <1>1, InitOK, StepKeepsIInv, PTL DEF Spec, VerdictIsFinal

-----------------------------------------------------------------------------
(* What the worker of one process holds, from step to step *)

\* What a step of the system may do to the memory of q.
HandStep(q) ==
  \/ pc'[q] = pc[q] /\ work'[q] = work[q]
  \/ pc'[q] \notin Busy
  \/ /\ pc'[q] = "lexical" /\ ~work'[q].caught
     /\ \E c \in Contents : /\ work'[q].task = c /\ row[c].status # "none"
                            /\ work'[q].text = row[c].text
  \/ Lexical(q) \/ LexicalWithoutList(q) \/ Semantic(q)
  \/ pc[q] = "verify" /\ pc'[q] = "commit" /\ work'[q] = work[q]
  \/ /\ pc[q] \in {"verify", "commit"} /\ work[q].caught
     /\ Catch(q, TRUE)

LEMMA HandSteps ==
  ASSUME IInv, [Next]_vars, NEW q \in Processes
  PROVE  HandStep(q)
<1>0. /\ pc \in [Processes -> Steps] /\ work \in [Processes -> WorkType]
      /\ batch \in [Processes -> SUBSET Claimed]
      /\ NoWork \in WorkType /\ ~NoWork.caught
  BY Types, NoneTyped DEF IInv
<1>1. ASSUME UNCHANGED <<pc, work>> PROVE HandStep(q)
  BY <1>1 DEF HandStep
<1>2. ASSUME NEW p \in Processes, NEW step \in {"idle", "sweep", "claim", "next"},
             pc' = [pc EXCEPT ![p] = step],
             \/ work' = work
             \/ work' = [work EXCEPT ![p] = NoWork]
      PROVE  HandStep(q)
  BY <1>0, <1>2 DEF HandStep, Busy
<1>3. ASSUME NEW p \in Processes, BatchOver(p),
             \/ work' = work
             \/ work' = [work EXCEPT ![p] = NoWork]
      PROVE  HandStep(q)
  BY <1>2, <1>3 DEF BatchOver
<1>4. ASSUME NEW p \in Processes, NextTask(p) \/ Abort(p) PROVE HandStep(q)
  BY <1>2, <1>3, <1>4 DEF NextTask, Abort
<1>5. ASSUME NEW p \in Processes,
             Claim(p) \/ Sweep(p) \/ Boot(p) \/ BootFails(p) \/ Crash(p)
      PROVE  HandStep(q)
  BY <1>2, <1>3, <1>5 DEF Claim, Sweep, Boot, BootFails, Crash
<1>6. ASSUME NEW p \in Processes, ReadContent(p) PROVE HandStep(q)
  <2>1. PICK b \in batch[p] :
          \/ /\ Visible(b.task)
             /\ work' = [work EXCEPT ![p] =
                           [NoWork EXCEPT !.task = b.task, !.attempts = b.attempts,
                                          !.text = row[b.task].text]]
             /\ pc' = [pc EXCEPT ![p] = "lexical"]
          \/ UNCHANGED work /\ (BatchOver(p) \/ UNCHANGED pc)
    BY <1>6 DEF ReadContent
  <2>2. b.task \in Contents
    BY <1>0 DEF Claimed
  <2> DEFINE first == [NoWork EXCEPT !.task = b.task]
             second == [first EXCEPT !.attempts = b.attempts]
             new == [second EXCEPT !.text = row[b.task].text]
  <2>3. new.task = b.task /\ new.text = row[b.task].text /\ ~new.caught
    <3>1. /\ DOMAIN NoWork = {"task", "attempts", "text", "decision", "semantic", "caught"}
          /\ ~NoWork.caught
      BY <1>0 DEF WorkType
    <3>2. /\ DOMAIN first = DOMAIN NoWork /\ first.task = b.task /\ ~first.caught
      BY <3>1
    <3> HIDE DEF first
    <3>3. /\ DOMAIN second = DOMAIN NoWork /\ second.task = b.task /\ ~second.caught
      BY <3>1, <3>2
    <3> HIDE DEF second
    <3> QED
      BY <3>1, <3>3
  <2>4. CASE /\ Visible(b.task)
             /\ work' = [work EXCEPT ![p] = new]
             /\ pc' = [pc EXCEPT ![p] = "lexical"]
    <3> HIDE DEF new
    <3>1. row[b.task].status # "none"
      BY <2>4 DEF Visible
    <3> QED
      BY <1>0, <2>2, <2>3, <2>4, <3>1 DEF HandStep
  <2>5. CASE UNCHANGED work /\ (BatchOver(p) \/ UNCHANGED pc)
    BY <1>1, <1>3, <2>5
  <2> QED
    BY <2>1, <2>4, <2>5
<1>7. ASSUME NEW p \in Processes, NEW step \in Steps,
             pc' = [pc EXCEPT ![p] = step], work' = work, p # q
      PROVE  HandStep(q)
  BY <1>0, <1>7 DEF HandStep
<1>8. ASSUME NEW p \in Processes, p # q, NEW decision, NEW semantic, NEW caught,
             Decide(p, decision, semantic, caught)
      PROVE  HandStep(q)
  BY <1>0, <1>8 DEF Decide, HandStep
<1>9. ASSUME NEW p \in Processes, p # q, NEW recoverable \in BOOLEAN,
             Catch(p, recoverable)
      PROVE  HandStep(q)
  BY <1>7, <1>8, <1>9, Catches DEF Steps
<1>10. ASSUME NEW p \in Processes, Lexical(p) \/ LexicalWithoutList(p) \/ Semantic(p)
       PROVE  HandStep(q)
  <2>1. CASE p = q
    BY <1>10, <2>1 DEF HandStep
  <2>2. CASE p # q
    BY <1>7, <1>8, <1>9, <1>10, <2>2 DEF Lexical, LexicalWithoutList, Semantic, Steps
  <2> QED
    BY <2>1, <2>2
<1>11. ASSUME NEW p \in Processes, Verify(p) PROVE HandStep(q)
  <2>1. CASE NextTask(p)
    BY <1>4, <2>1
  <2>2. CASE pc' = [pc EXCEPT ![p] = "commit"] /\ UNCHANGED <<work, up>>
    BY <1>0, <1>11, <2>2 DEF Verify, HandStep
  <2> QED
    BY <1>11, <2>1, <2>2 DEF Verify
<1>12. ASSUME NEW p \in Processes, pc[p] \in {"verify", "commit"}, Throw(p) PROVE HandStep(q)
  <2>1. CASE Abort(p)
    BY <1>4, <2>1
  <2>2. CASE work[p].caught /\ Catch(p, TRUE) /\ p # q
    BY <1>9, <2>2
  <2>3. CASE work[p].caught /\ Catch(p, TRUE) /\ p = q
    BY <1>12, <2>3 DEF HandStep
  <2> QED
    BY <1>12, <2>1, <2>2, <2>3 DEF Throw
<1>13. ASSUME NEW p \in Processes, Commit(p) \/ Reschedule(p) PROVE HandStep(q)
  BY <1>4, <1>13 DEF Commit, Reschedule
<1>14. ASSUME NEW p \in Processes, CommitConflict(p) \/ StatementFails(p) PROVE HandStep(q)
  BY <1>4, <1>12, <1>14 DEF CommitConflict, StatementFails
<1>15. ASSUME NEW p \in Processes, ProcessBatch(p), UNCHANGED work PROVE HandStep(q)
  BY <1>1, <1>2, <1>15 DEF ProcessBatch
<1>16. ASSUME NEW p \in Processes, Handlers(p) PROVE HandStep(q)
  BY <1>1, <1>15, <1>16 DEF Handlers, HandleCreated, HandleWake, TimerFires, worker
<1>17. CASE Author \/ Time \/ UNCHANGED vars
  BY <1>1, <1>17 DEF Author, Publish, PublishSilently, BeginEdit, FinishEdit,
                     FinishEditSilently, WriteEdit, Remove, Restore, Time, LeaseExpires, RetryDue, worker, vars
<1>18. CASE Failure
  BY <1>1, <1>5, <1>10, <1>14, <1>18 DEF Failure, HandleCreatedFails, worker
<1>19. ASSUME NEW p \in Processes, Worker(p) PROVE HandStep(q)
  BY <1>5, <1>6, <1>10, <1>11, <1>13, <1>14, <1>19 DEF Worker
<1> QED
  BY <1>5, <1>16, <1>17, <1>18, <1>19 DEF Next

LEMMA LogSteps ==
  ASSUME IInv, [Next]_vars, NEW c \in Contents
  PROVE  \/ log'[c] = log[c]
         \/ \E p \in Processes : Commit(p) /\ work[p].task = c
<1>0. log \in [Contents -> {NoLog} \cup LogType]
  BY DEF IInv, MapsOK
<1>1. ASSUME NEW p \in Processes, Commit(p), work[p].task # c PROVE log'[c] = log[c]
  BY <1>0, <1>1 DEF Commit
<1>2. CASE UNCHANGED log
  BY <1>2
<1>3. ASSUME NEW p \in Processes, Worker(p), ~Commit(p) PROVE UNCHANGED log
  BY <1>3 DEF Worker, Claim, ReadContent, Lexical, Semantic, Verify, CommitConflict,
              Reschedule, Sweep, database
<1>4. ASSUME NEW p \in Processes, Handlers(p) \/ Boot(p) PROVE UNCHANGED log
  BY <1>4 DEF Handlers, HandleCreated, HandleWake, TimerFires, Boot, database
<1>5. CASE Author \/ Failure \/ Time \/ UNCHANGED vars
  BY <1>5 DEF Author, Publish, PublishSilently, BeginEdit, FinishEdit,
              FinishEditSilently, WriteEdit, Remove, Restore, Failure,
              LexicalWithoutList, StatementFails, BootFails, Crash,
              HandleCreatedFails, Time, LeaseExpires, RetryDue, database, vars
<1> QED
  BY <1>1, <1>2, <1>3, <1>4, <1>5 DEF Next

-----------------------------------------------------------------------------
(* Approving without OpenAI *)

LEMMA StepKeepsExhausted ==
  ASSUME Answers \subseteq {"answer", "recoverable"}, IInv, [Next]_vars,
         NEW q \in Processes, Exhausted(q)
  PROVE  Exhausted(q)'
<1>0. /\ work \in [Processes -> WorkType] /\ work[q] \in WorkType
      /\ pc \in [Processes -> Steps] /\ MaxAttempts \in Nat
      /\ work[q].attempts \in 0 .. MaxAttempts - 1
  BY Types DEF IInv, WorkType
<1>1. ASSUME NEW decision, NEW semantic, NEW caught,
             Decide(q, decision, semantic, caught),
             semantic = "degraded" => work[q].attempts = MaxAttempts - 1
      PROVE  Exhausted(q)'
  <2>1. /\ work'[q].semantic = semantic /\ work'[q].attempts = work[q].attempts
    BY <1>0, <1>1 DEF Decide, WorkType
  <2> QED
    BY <1>1, <2>1 DEF Exhausted
<1>2. ASSUME pc' = [pc EXCEPT ![q] = "semantic"] \/ pc' = [pc EXCEPT ![q] = "reschedule"]
      PROVE  Exhausted(q)'
  BY <1>0, <1>2 DEF Exhausted
<1>3. CASE Catch(q, TRUE)
  <2>1. CASE work[q].attempts + 1 < MaxAttempts
    BY <1>2, <1>3, <2>1 DEF Catch
  <2>2. CASE ~(work[q].attempts + 1 < MaxAttempts)
    <3>1. work[q].attempts = MaxAttempts - 1
      BY <1>0, <2>2
    <3> QED
      BY <1>1, <1>3, <2>2, <3>1 DEF Catch
  <2> QED
    BY <2>1, <2>2
<1>4. CASE Lexical(q) \/ LexicalWithoutList(q)
  BY <1>1, <1>2, <1>4 DEF Lexical, LexicalWithoutList
<1>5. CASE Semantic(q)
  BY <1>1, <1>3, <1>5 DEF Semantic
<1>6. CASE pc'[q] = pc[q] /\ work'[q] = work[q]
  BY <1>6 DEF Exhausted
<1>7. CASE pc'[q] \notin Busy \/ pc'[q] = "lexical"
  BY <1>7 DEF Exhausted, Busy
<1>8. CASE pc[q] = "verify" /\ pc'[q] = "commit" /\ work'[q] = work[q]
  BY <1>8 DEF Exhausted
<1> QED
  BY <1>3, <1>4, <1>5, <1>6, <1>7, <1>8, HandSteps DEF HandStep

LEMMA StepKeepsRetried ==
  ASSUME Answers \subseteq {"answer", "recoverable"}
  PROVE  IInv /\ Retried /\ [Next]_vars => Retried'
<1> SUFFICES ASSUME IInv, Retried, [Next]_vars PROVE Retried'
  OBVIOUS
<1>1. \A q \in Processes : Exhausted(q)'
  BY StepKeepsExhausted DEF Retried
<1>2. ASSUME NEW c \in Contents, log'[c] # NoLog, log'[c].semantic = "degraded"
      PROVE  task'[c].attempts = MaxAttempts - 1
  <2>1. CASE log[c] # NoLog
    <3>1. log'[c] = log[c] /\ task'[c] = task[c]
      BY <2>1, StepsSettle DEF Settled, IInv, TasksOK
    <3> QED
      BY <1>2, <2>1, <3>1 DEF Retried, DegradedAfterRetries
  <2>2. CASE log[c] = NoLog
    <3>1. PICK p \in Processes : Commit(p) /\ work[p].task = c
      BY <1>2, <2>2, LogSteps
    <3>2. log'[c] = [decision |-> work[p].decision, semantic |-> work[p].semantic,
                     text |-> work[p].text]
      BY <3>1 DEF Commit, IInv, MapsOK
    <3>3. work[p].attempts = MaxAttempts - 1
      BY <1>2, <3>1, <3>2 DEF Retried, Exhausted, Commit
    <3>4. /\ task[c] \in TaskType /\ work[p].attempts <= task[c].attempts
          /\ task[c].attempts \in 0 .. MaxAttempts - 1 /\ MaxAttempts \in Nat
      BY <3>1, Types DEF IInv, HandOK, Remembers, Busy, Commit, TaskType
    <3>5. task[c].attempts = MaxAttempts - 1
      BY <3>3, <3>4
    <3>6. task' = [task EXCEPT ![c] = Finished(task[c])]
      BY <3>1 DEF Commit, Processed, Finished
    <3> QED
      BY <3>4, <3>5, <3>6, FinishedTask, Types DEF IInv
  <2> QED
    BY <2>1, <2>2
<1> QED
  BY <1>1, <1>2 DEF Retried, DegradedAfterRetries

\* When OpenAI answers or is only unreachable, a text is approved without it
\* only after max_attempts attempts of its task that had no answer, or whose
\* answer could not be stored: no crash, expired lease or second worker uses
\* an attempt up.
THEOREM DegradedNeedsRetries ==
  ASSUME Answers \subseteq {"answer", "recoverable"}
  PROVE  Spec => []DegradedAfterRetries
<1>1. Init => Retried
  BY DEF Init, Retried, DegradedAfterRetries, Exhausted
<1>2. IInv /\ Retried /\ [Next]_vars => Retried'
  BY StepKeepsRetried
<1>3. Retried => DegradedAfterRetries
  BY DEF Retried
<1> QED
  BY <1>1, <1>2, <1>3, InitOK, StepKeepsIInv, PTL DEF Spec

-----------------------------------------------------------------------------
(* Claims are released *)

Released(c, p) ==
  InHand(c, p) /\ ~InHand(c, p)' =>
    task'[c].token # p \/ up'[p] = "down" \/ BatchThrows(p)

LEMMA FaultThrows ==
  ASSUME IInv, Fault, NEW p \in Processes
  PROVE  BatchThrows(p)
<1>1. /\ spent \in [crashes : Nat, faults : Nat, edits : Nat]
      /\ spent' = [spent EXCEPT !.faults = @ + 1]
  BY DEF IInv, MapsOK, Fault
<1>2. spent'.faults = spent.faults + 1 /\ spent.faults \in Nat
  BY <1>1
<1> QED
  BY <1>2 DEF BatchThrows

\* What the worker of p itself does with the tasks in its hands.
LEMMA OwnStepsRelease ==
  ASSUME IInv, NEW p \in Processes, Worker(p), NEW c \in Contents
  PROVE  Released(c, p)
<1>0. /\ work \in [Processes -> WorkType] /\ work[p] \in WorkType
      /\ batch \in [Processes -> SUBSET Claimed] /\ task \in [Contents -> TaskType]
      /\ HandOK(p) /\ NoContent \notin Contents
  BY Types DEF IInv
<1>1. ASSUME work'[p].task = work[p].task, batch'[p] = batch[p]
      PROVE  Released(c, p)
  BY <1>1 DEF Released, InHand
<1>2. ASSUME NEW decision, NEW semantic, NEW caught,
             Decide(p, decision, semantic, caught), UNCHANGED batch
      PROVE  Released(c, p)
  <2>1. work'[p].task = work[p].task
    BY <1>0, <1>2 DEF Decide, WorkType
  <2> QED
    BY <1>1, <1>2, <2>1
<1>3. ASSUME NEW recoverable \in BOOLEAN, Catch(p, recoverable), UNCHANGED batch
      PROVE  Released(c, p)
  BY <1>1, <1>2, <1>3, Catches
<1>4. ASSUME task'[work[p].task].token # p, UNCHANGED batch
      PROVE  Released(c, p)
  BY <1>4 DEF Released, InHand
<1>5. CASE Claim(p)
  <2>1. work[p].task = NoContent /\ batch[p] = {}
    BY <1>0, <1>5, NoneTyped DEF Claim, HandOK, Busy
  <2> QED
    BY <1>0, <2>1 DEF Released, InHand
<1>6. CASE ReadContent(p)
  <2>1. PICK b \in batch[p] :
          /\ batch' = [batch EXCEPT ![p] = @ \ {b}]
          /\ \/ work' = [work EXCEPT ![p] =
                            [NoWork EXCEPT !.task = b.task, !.attempts = b.attempts,
                                           !.text = row[b.task].text]]
             \/ task' = [task EXCEPT ![b.task] = Processed(b.task)]
             \/ task[b.task].token # p /\ UNCHANGED task
    BY <1>6 DEF ReadContent
  <2>2. b.task \in Contents /\ work[p].task = NoContent
    BY <1>0, <1>6, NoneTyped DEF ReadContent, HandOK, Busy, Claimed
  <2>3. CASE b.task # c
    BY <1>0, <2>1, <2>2, <2>3 DEF Released, InHand
  <2>4. CASE b.task = c /\ task' = [task EXCEPT ![c] = Processed(c)]
    <3>1. task'[c].token = NoProcess
      BY <1>0, <2>4 DEF Processed, TaskType
    <3> QED
      BY <3>1 DEF Released
  <2>5. CASE b.task = c /\ work' = [work EXCEPT ![p] =
                            [NoWork EXCEPT !.task = b.task, !.attempts = b.attempts,
                                           !.text = row[b.task].text]]
    <3>1. work'[p].task = c
      BY <1>0, <2>5, NoneTyped DEF WorkType
    <3> QED
      BY <3>1 DEF Released, InHand
  <2>6. CASE b.task = c /\ task[b.task].token # p /\ UNCHANGED task
    BY <2>6 DEF Released
  <2> QED
    BY <2>1, <2>3, <2>4, <2>5, <2>6
<1>7. CASE Lexical(p)
  BY <1>1, <1>2, <1>7 DEF Lexical
<1>8. CASE Semantic(p)
  BY <1>2, <1>3, <1>8 DEF Semantic
<1>9. CASE Verify(p)
  <2>1. CASE UNCHANGED work
    BY <1>1, <1>9, <2>1 DEF Verify
  <2>2. CASE task[work[p].task].token # p
    BY <1>4, <1>9, <2>2 DEF Verify, database
  <2> QED
    BY <1>9, <2>1, <2>2 DEF Verify
<1>10. CASE Commit(p)
  <2>1. /\ work[p].task \in Contents /\ UNCHANGED batch
        /\ task' = [task EXCEPT ![work[p].task] = Processed(work[p].task)]
    BY <1>0, <1>10 DEF Commit, HandOK, Busy
  <2>2. task'[work[p].task].token = NoProcess
    BY <1>0, <2>1 DEF Processed, TaskType
  <2> QED
    BY <1>4, <2>1, <2>2
<1>11. CASE CommitConflict(p)
  <2>1. CASE work[p].caught
    BY <1>3, <1>11, <2>1 DEF CommitConflict, Throw
  <2>2. CASE ~work[p].caught
    BY <1>11, <2>2 DEF CommitConflict, BatchThrows, Released
  <2> QED
    BY <2>1, <2>2
<1>12. CASE Reschedule(p)
  <2>1. /\ work[p].task \in Contents /\ UNCHANGED batch
    BY <1>0, <1>12 DEF Reschedule, HandOK, Busy
  <2>2. task'[work[p].task].token # p
    BY <1>0, <1>12, <2>1 DEF Reschedule
  <2> QED
    BY <1>4, <2>1, <2>2
<1>13. CASE Sweep(p)
  BY <1>1, <1>13 DEF Sweep
<1> QED
  BY <1>5, <1>6, <1>7, <1>8, <1>9, <1>10, <1>11, <1>12, <1>13 DEF Worker

\* What the others do.
LEMMA OthersRelease ==
  ASSUME IInv, NEW p \in Processes, NEW q \in Processes \ {p}, Worker(q)
  PROVE  work'[p] = work[p] /\ batch'[p] = batch[p]
<1>0. work \in [Processes -> WorkType] /\ batch \in [Processes -> SUBSET Claimed]
  BY Types DEF IInv
<1>1. ASSUME NextTask(q) \/ Abort(q) PROVE work'[p] = work[p]
  BY <1>0, <1>1 DEF NextTask, Abort
<1>2. ASSUME NEW decision, NEW semantic, NEW caught, Decide(q, decision, semantic, caught)
      PROVE  work'[p] = work[p]
  BY <1>0, <1>2 DEF Decide
<1>3. ASSUME NEW recoverable \in BOOLEAN, Catch(q, recoverable) PROVE work'[p] = work[p]
  BY <1>2, <1>3, Catches
<1>4. CASE Claim(q) \/ ReadContent(q) \/ Sweep(q)
  BY <1>0, <1>4 DEF Claim, ReadContent, Sweep
<1>5. CASE Lexical(q) \/ Semantic(q)
  BY <1>2, <1>3, <1>5 DEF Lexical, Semantic
<1>6. CASE Verify(q) \/ Commit(q) \/ Reschedule(q)
  BY <1>1, <1>6 DEF Verify, Commit, Reschedule
<1>7. CASE CommitConflict(q)
  <2>1. batch'[p] = batch[p]
    BY <1>0, <1>7 DEF CommitConflict, Throw, Abort
  <2> QED
    BY <1>1, <1>3, <1>7, <2>1 DEF CommitConflict, Throw
<1> QED
  BY <1>4, <1>5, <1>6, <1>7 DEF Worker

LEMMA StepsRelease ==
  ASSUME IInv, [Next]_vars, NEW c \in Contents, NEW p \in Processes
  PROVE  Released(c, p)
<1>0. work \in [Processes -> WorkType] /\ batch \in [Processes -> SUBSET Claimed]
      /\ up \in [Processes -> {"down", "booting", "serving"}]
  BY Types DEF IInv
<1>1. ASSUME work'[p] = work[p], batch'[p] = batch[p] PROVE Released(c, p)
  BY <1>1 DEF Released, InHand
<1>2. ASSUME NEW q \in Processes, Worker(q) PROVE Released(c, p)
  BY <1>1, <1>2, OwnStepsRelease, OthersRelease
<1>3. ASSUME NEW q \in Processes, Handlers(q) \/ Boot(q) PROVE Released(c, p)
  BY <1>1, <1>3 DEF Handlers, HandleCreated, HandleWake, TimerFires, Boot, worker
<1>4. CASE Author \/ Time \/ UNCHANGED vars
  BY <1>1, <1>4 DEF Author, Publish, PublishSilently, BeginEdit, FinishEdit,
                    FinishEditSilently, WriteEdit, Remove, Restore, Time,
                    LeaseExpires, RetryDue, worker, vars
<1>5. CASE Failure
  <2>1. CASE Fault
    BY <2>1, FaultThrows DEF Released
  <2>2. ASSUME NEW q \in Processes, Crash(q) PROVE Released(c, p)
    BY <1>0, <1>1, <2>2 DEF Crash, Released
  <2> QED
    BY <1>5, <2>1, <2>2 DEF Failure, LexicalWithoutList, StatementFails, BootFails,
                            HandleCreatedFails
<1> QED
  BY <1>2, <1>3, <1>4, <1>5 DEF Next

\* A process that stays up turns away from a task it holds only when the task
\* is finished, put off or taken over, or when an exception reaches
\* processBatch: with any number of processes, tasks and failures.
THEOREM ClaimRelease == Spec => ClaimsAreReleased
<1>1. IInv /\ [Next]_vars =>
        [\A c \in Contents, p \in Processes :
           InHand(c, p) /\ ~InHand(c, p)' =>
             task'[c].token # p \/ up'[p] = "down" \/ BatchThrows(p)]_vars
  BY StepsRelease DEF Released
<1> QED
  BY <1>1, InitOK, StepKeepsIInv, PTL DEF Spec, ClaimsAreReleased

-----------------------------------------------------------------------------
(* Screening *)

\* What a step may do to the row of a message.
MessageStep(c) ==
  \/ row'[c] = row[c]
  \/ row[c].status = "none" /\ log[c] = NoLog /\ row'[c].status = "published"
  \/ /\ row[c].status # "none" /\ row'[c].status # "none"
     /\ row'[c].text = row[c].text /\ UNCHANGED log
     /\ \/ row'[c].deleted
        \/ log[c] # NoLog /\ c \in restored'
  \/ \E p \in Processes : Commit(p) /\ work[p].task = c

LEMMA MessageSteps ==
  ASSUME IInv, [Next]_vars, NEW c \in Messages
  PROVE  MessageStep(c)
<1>0. /\ row \in [Contents -> RowType] /\ c \in Contents /\ c \notin Editable
      /\ row[c].status = "none" => log[c] = NoLog
      /\ \A d \in Contents : edit[d] # NoEdit => d \in Editable
      /\ \A d \in Contents : log[d] # NoLog => row[d].status # "none"
      /\ \A p \in Processes : pc[p] = "commit" => work[p].task \in Contents
  BY Types DEF IInv, RowsOK, TasksOK, Contents, HandOK, Busy
<1>1. CASE UNCHANGED row
  BY <1>1 DEF MessageStep
<1>2. ASSUME NEW d \in Contents, NEW p \in Processes, NEW v \in Texts,
             Publish(d, p, v) \/ PublishSilently(d, p, v)
      PROVE  MessageStep(c)
  <2> DEFINE new == [status |-> "published", deleted |-> FALSE, text |-> v]
  <2>1. row' = [row EXCEPT ![d] = new] /\ new.status = "published"
        /\ row[d].status = "none"
    BY <1>2 DEF Publish, PublishSilently
  <2> HIDE DEF new
  <2> QED
    BY <1>0, <2>1 DEF MessageStep
<1>3. ASSUME NEW d \in Contents, NEW v \in Texts,
             FinishEdit(d, v) \/ FinishEditSilently(d, v)
      PROVE  MessageStep(c)
  <2>1. d # c /\ \A e \in Contents \ {d} : row'[e] = row[e]
    BY <1>0, <1>3 DEF FinishEdit, FinishEditSilently, WriteEdit
  <2> QED
    BY <1>0, <2>1 DEF MessageStep
<1>4. ASSUME NEW d \in Contents, NEW status \in {"hidden", "inactive", "deleted"},
             Remove(d, status)
      PROVE  MessageStep(c)
  <2> DEFINE new == [row[d] EXCEPT !.deleted = TRUE, !.status = status]
  <2>1. row[d] \in RowType
    BY <1>0
  <2>2. /\ new.deleted /\ new.status = status /\ new.text = row[d].text
    BY <2>1 DEF RowType
  <2>3. /\ row' = [row EXCEPT ![d] = new] /\ UNCHANGED log
        /\ row[d].status # "none" /\ status # "none"
    BY <1>0, <1>4 DEF Remove, Visible
  <2> HIDE DEF new
  <2>4. CASE d = c
    <3>1. row'[c] = new
      BY <1>0, <2>3, <2>4
    <3>2. /\ row'[c].deleted /\ row'[c].text = row[c].text
          /\ row'[c].status # "none" /\ row[c].status # "none" /\ UNCHANGED log
      BY <2>2, <2>3, <2>4, <3>1
    <3> QED
      BY <3>2 DEF MessageStep
  <2>5. CASE d # c
    BY <1>0, <2>3, <2>5 DEF MessageStep
  <2> QED
    BY <2>4, <2>5
<1>5. ASSUME NEW d \in Contents, Restore(d) PROVE MessageStep(c)
  <2> DEFINE new == [row[d] EXCEPT !.status = "published"]
  <2>1. row[d] \in RowType
    BY <1>0
  <2>2. new.status = "published" /\ new.text = row[d].text
    BY <2>1 DEF RowType
  <2>3. /\ row' = [row EXCEPT ![d] = new] \/ row' = row
        /\ UNCHANGED log /\ log[d] # NoLog /\ d \in restored'
        /\ row[d].status # "none"
    BY <1>0, <1>5 DEF Restore
  <2> HIDE DEF new
  <2> QED
    BY <1>0, <2>2, <2>3 DEF MessageStep
<1>6. ASSUME NEW p \in Processes, Commit(p) PROVE MessageStep(c)
  <2>1. CASE work[p].task = c
    BY <1>6, <2>1 DEF MessageStep
  <2>2. CASE work[p].task # c
    BY <1>0, <1>6, <2>2 DEF Commit, MessageStep
  <2> QED
    BY <2>1, <2>2
<1>7. ASSUME NEW p \in Processes, Worker(p), ~Commit(p) PROVE UNCHANGED row
  BY <1>7 DEF Worker, Claim, ReadContent, Lexical, Semantic, Verify, CommitConflict,
              Reschedule, Sweep, database
<1>8. ASSUME NEW p \in Processes, Handlers(p) \/ Boot(p) PROVE UNCHANGED row
  BY <1>8 DEF Handlers, HandleCreated, HandleWake, TimerFires, Boot, database
<1>9. CASE Failure \/ Time \/ UNCHANGED vars
  BY <1>1, <1>9 DEF Failure, LexicalWithoutList, StatementFails, BootFails, Crash,
              HandleCreatedFails, Time, LeaseExpires, RetryDue, database, vars
<1>10. CASE Author
  <2>1. ASSUME NEW d \in Contents, NEW p \in Processes, BeginEdit(d, p)
        PROVE  UNCHANGED row
    BY <2>1 DEF BeginEdit, database
  <2> QED
    BY <1>1, <1>2, <1>3, <1>4, <1>5, <1>10, <2>1 DEF Author
<1> QED
  BY <1>1, <1>6, <1>7, <1>8, <1>9, <1>10 DEF Next

\* The verdict about a message is about its text, as long as there is one.
LEMMA CommittedRow ==
  ASSUME IInv, NEW p \in Processes, Commit(p), NEW c \in Contents, work[p].task = c
  PROVE  /\ row'[c].text = row[c].text /\ row'[c].deleted = row[c].deleted
         /\ row[c].status # "none" /\ row'[c].status # "none"
         /\ work[p].decision = "hidden" /\ Visible(c) => row'[c].status = "hidden"
         /\ work[p].decision # "hidden" => row'[c] = row[c]
<1>1. /\ row \in [Contents -> RowType] /\ row[c] \in RowType /\ row[c].status # "none"
  BY Types DEF IInv, RowsOK
<1> DEFINE new == [row[c] EXCEPT !.status = "hidden"]
<1>2. new.status = "hidden" /\ new.text = row[c].text /\ new.deleted = row[c].deleted
  BY <1>1 DEF RowType
<1>3. row' = IF work[p].decision = "hidden" /\ Visible(c)
             THEN [row EXCEPT ![c] = new] ELSE row
  BY <1>1 DEF Commit
<1> HIDE DEF new
<1> QED
  BY <1>1, <1>2, <1>3

LEMMA TextStays ==
  ASSUME IInv, [Next]_vars, NEW c \in Messages, row[c].status # "none"
  PROVE  row'[c].status # "none" /\ row'[c].text = row[c].text
BY MessageSteps, CommittedRow DEF MessageStep, Contents

\* Faults are counted and not forgotten.
LEMMA FaultCounts ==
  ASSUME IInv, Fault
  PROVE  spent'.faults # 0
<1>1. /\ spent \in [crashes : Nat, faults : Nat, edits : Nat]
      /\ spent' = [spent EXCEPT !.faults = @ + 1]
  BY DEF IInv, MapsOK, Fault
<1>2. spent'.faults = spent.faults + 1 /\ spent.faults \in Nat
  BY <1>1
<1> QED
  BY <1>2

LEMMA FaultsStay ==
  ASSUME IInv, [Next]_vars, spent'.faults = 0
  PROVE  spent.faults = 0
<1>0. spent \in [crashes : Nat, faults : Nat, edits : Nat] /\ ~Fault
  BY FaultCounts DEF IInv, MapsOK
<1>1. ASSUME NEW p \in Processes, Worker(p) \/ Handlers(p) \/ Boot(p)
      PROVE  UNCHANGED spent
  BY <1>1 DEF Worker, Claim, ReadContent, Lexical, Semantic, Verify, Commit,
              CommitConflict, Reschedule, Sweep, Handlers, HandleCreated, HandleWake,
              TimerFires, Boot
<1>2. CASE Time \/ UNCHANGED vars
  BY <1>2 DEF Time, LeaseExpires, RetryDue, vars
<1>3. CASE Failure
  <2>1. PICK p \in Processes : Crash(p)
    BY <1>0, <1>3 DEF Failure, LexicalWithoutList, StatementFails, BootFails,
                      HandleCreatedFails
  <2>2. spent' = [spent EXCEPT !.crashes = @ + 1]
    BY <2>1 DEF Crash
  <2> QED
    BY <1>0, <2>2
<1>4. CASE Author
  <2>1. ASSUME NEW c \in Contents, NEW p \in Processes, BeginEdit(c, p)
        PROVE  spent'.faults = spent.faults
    BY <1>0, <2>1 DEF BeginEdit
  <2>2. ASSUME NEW c \in Contents,
               \/ \E p \in Processes, v \in Texts : Publish(c, p, v)
               \/ \E v \in Texts : FinishEdit(c, v)
               \/ \E status \in {"hidden", "inactive", "deleted"} : Remove(c, status)
               \/ Restore(c)
        PROVE  UNCHANGED spent
    BY <2>2 DEF Publish, FinishEdit, Remove, Restore
  <2> QED
    BY <1>0, <1>4, <2>1, <2>2 DEF Author, PublishSilently, FinishEditSilently
<1> QED
  BY <1>1, <1>2, <1>3, <1>4 DEF Next

LEMMA StepKeepsJudged ==
  ASSUME IInv, [Next]_vars, NEW q \in Processes, JudgedOK(q)
  PROVE  JudgedOK(q)'
<1>0. /\ work \in [Processes -> WorkType] /\ work[q] \in WorkType
      /\ pc \in [Processes -> Steps]
      /\ spent'.faults = 0 => spent.faults = 0 /\ ~Fault
      /\ work[q].task \in Messages => row[work[q].task].status # "none"
  <2>1. spent'.faults = 0 => spent.faults = 0 /\ ~Fault
    BY FaultCounts, FaultsStay
  <2>2. work[q].task \in Messages => row[work[q].task].status # "none"
    BY DEF IInv, RowsOK, Contents
  <2> QED
    BY <2>1, <2>2, Types DEF IInv
<1>1. ASSUME work'[q].task = work[q].task, work'[q].text = work[q].text,
             pc[q] \in Busy,
             work[q].task \in Messages /\ pc'[q] \in Busy =>
               /\ pc'[q] \in {"semantic", "reschedule"} \/ work'[q].caught =>
                    (spent'.faults = 0 => work[q].text # "banned")
               /\ pc'[q] \in {"verify", "commit"} =>
                    /\ work[q].text = "banned" /\ spent'.faults = 0 =>
                         work'[q].decision = "hidden"
                    /\ work[q].text = "abusive" /\ work'[q].decision # "hidden" =>
                         work'[q].semantic = "degraded"
      PROVE  JudgedOK(q)'
  <2>1. \A c \in Messages : work[q].task = c =>
          row'[c].status # "none" /\ row'[c].text = row[c].text
    BY <1>0, TextStays
  <2> QED
    BY <1>1, <2>1 DEF JudgedOK
<1>2. ASSUME NEW decision, NEW semantic, NEW caught,
             Decide(q, decision, semantic, caught), pc[q] \in Busy,
             work[q].task \in Messages =>
               /\ caught /\ spent'.faults = 0 => work[q].text # "banned"
               /\ work[q].text = "banned" /\ spent'.faults = 0 => decision = "hidden"
               /\ work[q].text = "abusive" /\ decision # "hidden" => semantic = "degraded"
      PROVE  JudgedOK(q)'
  <2>1. /\ pc'[q] = "verify"
        /\ work'[q].task = work[q].task /\ work'[q].text = work[q].text
        /\ work'[q].decision = decision /\ work'[q].semantic = semantic
        /\ work'[q].caught = caught
    BY <1>0, <1>2 DEF Decide, WorkType
  <2> QED
    BY <1>1, <1>2, <2>1
<1>3. ASSUME pc[q] \in Busy, work'[q] = work[q], pc'[q] \in {"semantic", "reschedule"},
             work[q].task \in Messages /\ spent'.faults = 0 => work[q].text # "banned"
      PROVE  JudgedOK(q)'
  BY <1>1, <1>3
<1>4. ASSUME pc[q] \in Busy, NEW recoverable \in BOOLEAN, Catch(q, recoverable),
             work[q].task \in Messages /\ spent'.faults = 0 => work[q].text # "banned"
      PROVE  JudgedOK(q)'
  <2>1. CASE pc' = [pc EXCEPT ![q] = "reschedule"] /\ UNCHANGED work
    BY <1>0, <1>3, <1>4, <2>1
  <2>2. CASE Decide(q, "approved", "degraded", FALSE)
    BY <1>2, <1>4, <2>2
  <2> QED
    BY <1>4, <2>1, <2>2, Catches
<1>5. CASE Lexical(q)
  <2>1. CASE work[q].text = "banned" /\ Decide(q, "hidden", "not_evaluated", FALSE)
    BY <1>2, <1>5, <2>1 DEF Lexical, Busy
  <2>2. CASE work[q].text # "banned" /\ pc' = [pc EXCEPT ![q] = "semantic"] /\ UNCHANGED work
    BY <1>0, <1>3, <1>5, <2>2 DEF Lexical, Busy
  <2> QED
    BY <1>5, <2>1, <2>2 DEF Lexical
<1>6. CASE Semantic(q)
  <2>1. /\ pc[q] \in Busy
        /\ work[q].task \in Messages /\ spent'.faults = 0 => work[q].text # "banned"
    BY <1>0, <1>6 DEF Semantic, JudgedOK, Busy
  <2>2. CASE work[q].text = "abusive" /\ Decide(q, "hidden", "flagged", TRUE)
    BY <1>2, <2>1, <2>2
  <2>3. CASE work[q].text # "abusive" /\ Decide(q, "approved", "clean", TRUE)
    BY <1>2, <2>1, <2>3
  <2>4. CASE Decide(q, "approved", "degraded", TRUE)
    BY <1>2, <2>1, <2>4
  <2> QED
    BY <1>4, <1>6, <2>1, <2>2, <2>3, <2>4 DEF Semantic
<1>7. CASE pc'[q] = pc[q] /\ work'[q] = work[q]
  <2>1. CASE pc[q] \in Busy
    BY <1>0, <1>1, <1>7, <2>1 DEF JudgedOK
  <2>2. CASE pc[q] \notin Busy
    BY <1>7, <2>2 DEF JudgedOK
  <2> QED
    BY <2>1, <2>2
<1>8. CASE pc'[q] \notin Busy
  BY <1>8 DEF JudgedOK
<1>9. CASE /\ pc'[q] = "lexical" /\ ~work'[q].caught
           /\ \E c \in Contents : /\ work'[q].task = c /\ row[c].status # "none"
                                  /\ work'[q].text = row[c].text
  <2>1. PICK c \in Contents : /\ work'[q].task = c /\ row[c].status # "none"
                              /\ work'[q].text = row[c].text
    BY <1>9
  <2>2. c \in Messages => row'[c].status # "none" /\ row'[c].text = row[c].text
    BY <2>1, TextStays
  <2> QED
    BY <1>9, <2>1, <2>2 DEF JudgedOK, Busy
<1>10. CASE pc[q] = "verify" /\ pc'[q] = "commit" /\ work'[q] = work[q]
  BY <1>0, <1>1, <1>10 DEF JudgedOK, Busy
<1>11. CASE pc[q] \in {"verify", "commit"} /\ work[q].caught /\ Catch(q, TRUE)
  BY <1>0, <1>4, <1>11 DEF JudgedOK, Busy
<1>12. CASE LexicalWithoutList(q)
  BY <1>0, <1>3, <1>12 DEF LexicalWithoutList, Busy
<1> QED
  BY <1>5, <1>6, <1>7, <1>8, <1>9, <1>10, <1>11, <1>12, HandSteps DEF HandStep

LEMMA RestoredGrows ==
  ASSUME [Next]_vars
  PROVE  restored \subseteq restored'
<1>1. ASSUME NEW p \in Processes, Worker(p) \/ Handlers(p) \/ Boot(p)
      PROVE  UNCHANGED restored
  BY <1>1 DEF Worker, Claim, ReadContent, Lexical, Semantic, Verify, Commit,
              CommitConflict, Reschedule, Sweep, Handlers, HandleCreated, HandleWake,
              TimerFires, Boot, database
<1>2. CASE Failure \/ Time \/ UNCHANGED vars
  BY <1>2 DEF Failure, LexicalWithoutList, StatementFails, BootFails, Crash,
              HandleCreatedFails, Time, LeaseExpires, RetryDue, database, vars
<1>3. CASE Author
  BY <1>3 DEF Author, Publish, PublishSilently, BeginEdit, FinishEdit,
              FinishEditSilently, WriteEdit, Remove, Restore, database
<1> QED
  BY <1>1, <1>2, <1>3 DEF Next

\* What the commit of p stores is a verdict.
LEMMA CommitLogs ==
  ASSUME IInv, NEW p \in Processes, pc[p] = "commit"
  PROVE  [decision |-> work[p].decision, semantic |-> work[p].semantic,
          text |-> work[p].text] \in LogType
<1>1. work[p].text \in Texts
  BY Types DEF IInv, WorkType
<1> QED
  BY <1>1 DEF IInv, HandOK, LogType

LEMMA StepKeepsScreened ==
  ASSUME IInv, Screened, [Next]_vars
  PROVE  Screened'
<1>1. \A q \in Processes : JudgedOK(q)'
  BY StepKeepsJudged DEF Screened
<1> DEFINE Judged(c) ==
             log[c] # NoLog /\ Visible(c) =>
               /\ row[c].status = "hidden" <=> log[c].decision = "hidden"
               /\ row[c].text = "banned" /\ spent.faults = 0 => row[c].status = "hidden"
               /\ row[c].text = "abusive" /\ row[c].status # "hidden" =>
                    log[c].semantic = "degraded"
           Unjudged(c) == log[c] = NoLog /\ Visible(c) => row[c].status = "published"
<1>2. ASSUME NEW c \in Messages
      PROVE  Unjudged(c)' /\ (c \notin restored' => Judged(c)')
  <2>0. /\ c \in Contents /\ Unjudged(c)
        /\ c \notin restored => Judged(c)
    BY DEF Screened, UnjudgedOK, MessagesScreened, Contents
  <2>10. spent'.faults = 0 => spent.faults = 0
    BY FaultsStay
  <2>1. c \notin restored' => c \notin restored
    BY RestoredGrows
  <2>2. CASE row'[c] = row[c] /\ log'[c] = log[c]
    BY <2>0, <2>1, <2>10, <2>2 DEF Visible
  <2>3. ASSUME NEW p \in Processes, Commit(p), work[p].task = c
        PROVE  Unjudged(c)' /\ (c \notin restored' => Judged(c)')
    <3>1. /\ log'[c] = [decision |-> work[p].decision, semantic |-> work[p].semantic,
                        text |-> work[p].text]
          /\ log[c] = NoLog /\ pc[p] = "commit"
      BY <2>0, <2>3 DEF Commit, IInv, MapsOK
    <3>2. /\ log'[c] # NoLog /\ log'[c].decision = work[p].decision
          /\ log'[c].semantic = work[p].semantic
          /\ work[p].decision \in {"hidden", "approved"}
      <4>1. log'[c] \in LogType
        BY <2>0, <2>3, <3>1, CommitLogs
      <4> QED
        BY <3>1, <4>1 DEF IInv, HandOK
    <3>3. /\ work[p].text = row[c].text
          /\ work[p].text = "banned" /\ spent.faults = 0 => work[p].decision = "hidden"
          /\ work[p].text = "abusive" /\ work[p].decision # "hidden" =>
               work[p].semantic = "degraded"
      BY <2>3, <3>1 DEF Screened, JudgedOK, Busy
    <3>4. /\ row'[c].text = row[c].text
          /\ Visible(c)' => Visible(c) /\ row[c].status = "published"
          /\ work[p].decision = "hidden" /\ Visible(c) => row'[c].status = "hidden"
          /\ work[p].decision # "hidden" => row'[c] = row[c]
      BY <2>0, <2>3, <3>1, CommittedRow DEF Visible
    <3> QED
      BY <2>10, <3>2, <3>3, <3>4
  <2>4. CASE /\ row[c].status = "none" /\ log[c] = NoLog
             /\ row'[c].status = "published" /\ log'[c] = log[c]
    BY <2>4
  <2>5. CASE UNCHANGED log /\ row'[c].deleted
    BY <2>5 DEF Visible
  <2>6. CASE UNCHANGED log /\ log[c] # NoLog /\ c \in restored'
    BY <2>6
  <2> QED
    BY <2>0, <2>2, <2>3, <2>4, <2>5, <2>6, MessageSteps, LogSteps DEF MessageStep
<1> QED
  BY <1>1, <1>2 DEF Screened, UnjudgedOK, MessagesScreened

\* Until an appeal wins, and whatever fails: a judged message that is still
\* there is hidden exactly when its verdict says so, hatred is let through
\* only in degraded mode, and a banned word hides the message as long as no
\* statement has failed.
THEOREM Screening == Spec => []MessagesScreened
<1>1. Init => Screened
  <2> SUFFICES ASSUME Init PROVE Screened
    OBVIOUS
  <2>1. \A c \in Messages : ~Visible(c)
    BY NoneTyped DEF Init, Visible, Contents
  <2>2. \A p \in Processes : pc[p] = "idle"
    BY DEF Init
  <2> QED
    BY <2>1, <2>2 DEF Screened, UnjudgedOK, MessagesScreened, JudgedOK, Busy
<1>2. IInv /\ Screened /\ [Next]_vars => Screened'
  BY StepKeepsScreened
<1>3. Screened => MessagesScreened
  BY DEF Screened
<1> QED
  BY <1>1, <1>2, <1>3, InitOK, StepKeepsIInv, PTL DEF Spec

=============================================================================
