----------------------- MODULE GroupMembership_proofs -----------------------
(***************************************************************************)
(* Theorems about GroupMembership, for every set of users, groups, request *)
(* ids and concurrent transactions.                                        *)
(*                                                                         *)
(* The properties of the rows are not inductive: a commit keeps them only  *)
(* because what the transaction read some statements earlier still holds.  *)
(* IInv adds that memory (Known) and the reason it stays true: whoever is  *)
(* past lock() still owns the row lock of its group (LockOK), so nobody    *)
(* else writes that group's rows.                                          *)
(***************************************************************************)
EXTENDS GroupMembership, FiniteSetTheorems, TLAPS

\* A transaction past lock() owns its group's lock and has seen its leader.
LockOK(t) ==
  step[t] \in LockedSteps =>
    /\ call[t].group \in Groups
    /\ lock[call[t].group] = t
    /\ Open(call[t].group)
    /\ seen[t] = leader[call[t].group]

\* Which calls reach which statements, with which arguments.
CallOK(t) ==
  /\ step[t] # "idle" =>
       call[t].kind \in Kinds /\ call[t].actor \in Users /\ call[t].target \in Users
  /\ call[t].kind \in Decisions => call[t].request \in Requests
  /\ call[t].kind = "join" => call[t].target = call[t].actor
  /\ step[t] = "create" <=> call[t].kind = "create"
  /\ step[t] = "resolve" => call[t].kind \in Decisions
  /\ step[t] = "lock" => call[t].group \in Groups
  /\ step[t] = "request" => call[t].kind \in Decisions
  /\ step[t] = "account" => call[t].kind = "approved"
  /\ step[t] \in {"membership", "capacity"} => call[t].kind \in {"join", "approved"}
  /\ step[t] = "pending" => call[t].kind = "join"
  /\ step[t] \in {"actor", "target"} => call[t].kind \in Removals \cup {"transfer"}

\* What the statements already executed have established.
Known(t) ==
  /\ step[t] \in {"account", "membership", "capacity", "write"} /\ call[t].kind \in Decisions =>
       /\ seen[t] = call[t].actor
       /\ request[call[t].request] = [status |-> "pending", group |-> call[t].group,
                                      user |-> call[t].target]
  /\ step[t] \in {"pending", "capacity", "write"} /\ call[t].kind \in {"join", "approved"} =>
       member[call[t].group][call[t].target] # "active"
  /\ step[t] \in {"capacity", "write"} /\ call[t].kind = "join" =>
       ~Pending(call[t].group, call[t].actor)
  /\ step[t] = "write" /\ call[t].kind \in {"join", "approved"} =>
       RequireCapacity(call[t].group)
  /\ step[t] \in {"target", "write"} /\ call[t].kind \in Removals \cup {"transfer"} =>
       MayAct(call[t], seen[t])
  /\ step[t] = "write" /\ call[t].kind \in Removals \cup {"transfer"} =>
       member[call[t].group][call[t].target] = "active"

\* A group that does not exist yet has no membership rows.
NewGroupsEmpty ==
  \A g \in Groups : ~Open(g) => \A u \in Users : member[g][u] = "none"

\* A request row in use belongs to a user and to an existing group.
RowOwners ==
  \A r \in Requests :
    /\ request[r].status = "unused" => request[r] = UnusedRow
    /\ request[r].status # "unused" =>
         /\ request[r].group \in Groups /\ Open(request[r].group)
         /\ request[r].user \in Users

RowsOK ==
  /\ CapacityRespected
  /\ OneSeatedLeader
  /\ PendingAreOutsiders
  /\ NewGroupsEmpty
  /\ RowOwners

TxnsOK == \A t \in Txns : LockOK(t) /\ CallOK(t) /\ Known(t)

IInv == TypeOK /\ RowsOK /\ TxnsOK

-----------------------------------------------------------------------------
(* Typing. *)

LEMMA InitType == Init => TypeOK
  BY UsersAssumption, CapacitiesAssumption
  DEF Init, TypeOK, Steps, LockedSteps, CallType, RowType, NoCall, UnusedRow

LEMMA CallsTyped ==
  ASSUME NEW u \in Users, NEW c \in CallsOf(u)
  PROVE  c \in CallType /\ FirstStep(c) \in Steps
  BY DEF CallsOf, CallType, Kinds, Decisions, FirstStep, Steps

LEMMA EndTypes ==
  ASSUME TypeOK, NEW t \in Txns, End(t)
  PROVE  /\ step' \in [Txns -> Steps]
         /\ call' \in [Txns -> CallType]
         /\ seen' \in [Txns -> Users \cup {NoUser}]
         /\ lock' \in [Groups -> Txns \cup {NoTxn}]
  BY DEF TypeOK, End, Steps, CallType, NoCall

LEMMA RollbackType ==
  ASSUME TypeOK, NEW t \in Txns, Rollback(t)
  PROVE  TypeOK'
  BY EndTypes DEF Rollback, TypeOK, rows

LEMMA CheckType ==
  ASSUME TypeOK, NEW t \in Txns, NEW here, NEW passes, NEW next \in Steps,
         Check(t, here, passes, next)
  PROVE  TypeOK'
<1>1. CASE passes
  BY <1>1 DEF Check, TypeOK, rows
<1>2. CASE ~passes
  BY <1>2, RollbackType DEF Check
<1> QED
  BY <1>1, <1>2

LEMMA CallUpdates ==
  ASSUME TypeOK, NEW t \in Txns
  PROVE  /\ \A g \in Groups : [call EXCEPT ![t].group = g] \in [Txns -> CallType]
         /\ \A u \in Users : [call EXCEPT ![t].target = u] \in [Txns -> CallType]
<1>1. call \in [Txns -> CallType]
  BY DEF TypeOK
<1>2. ASSUME NEW g \in Groups
      PROVE  [call EXCEPT ![t].group = g] \in [Txns -> CallType]
  BY <1>1 DEF CallType
<1>3. ASSUME NEW u \in Users
      PROVE  [call EXCEPT ![t].target = u] \in [Txns -> CallType]
  BY <1>1 DEF CallType
<1> QED
  BY <1>2, <1>3

LEMMA StatementType ==
  ASSUME TypeOK, NEW t \in Txns, CallOK(t), LockOK(t), Known(t), RowOwners, Statement(t)
  PROVE  TypeOK'
<1>1. CASE Create(t)
  <2>1. call[t].actor \in Users
    BY <1>1 DEF Create, CallOK
  <2> QED
    BY <1>1, <2>1, EndTypes DEF Create, TypeOK
<1>2. CASE RequestGroup(t)
  <2>1. CASE /\ request[call[t].request].status # "unused"
             /\ leader[request[call[t].request].group] = call[t].actor
    <3>1. call[t].request \in Requests
      BY <1>2 DEF RequestGroup, CallOK
    <3>2. request[call[t].request].group \in Groups
      BY <3>1, <2>1 DEF RowOwners
    <3>3. [call EXCEPT ![t].group = request[call[t].request].group] \in [Txns -> CallType]
      BY <3>2, CallUpdates
    <3> QED
      BY <1>2, <2>1, <3>3 DEF RequestGroup, TypeOK, Steps, rows
  <2> QED
    BY <1>2, <2>1, RollbackType DEF RequestGroup
<1>3. CASE LockNotFound(t)
  BY <1>3, RollbackType DEF LockNotFound
<1>4. CASE ReadRequest(t)
  <2>1. CASE /\ seen[t] = call[t].actor
             /\ request[call[t].request].group = call[t].group
             /\ request[call[t].request].status = "pending"
    <3>1. request[call[t].request].user \in Users
      BY <1>4, <2>1 DEF ReadRequest, CallOK, RowOwners
    <3>2. [call EXCEPT ![t].target = request[call[t].request].user] \in [Txns -> CallType]
      BY <3>1, CallUpdates
    <3> QED
      BY <1>4, <2>1, <3>2 DEF ReadRequest, TypeOK, Steps, LockedSteps, rows
  <2> QED
    BY <1>4, <2>1, RollbackType DEF ReadRequest
<1>5. CASE ReadApplicant(t)
  BY <1>5, CheckType DEF ReadApplicant, Steps, LockedSteps
<1>6. CASE ReadMembership(t)
  BY <1>6, CheckType DEF ReadMembership, Steps, LockedSteps
<1>7. CASE ReadPending(t)
  BY <1>7, CheckType DEF ReadPending, Steps, LockedSteps
<1>8. CASE CountMembers(t)
  BY <1>8, CheckType DEF CountMembers, Steps, LockedSteps
<1>9. CASE InsertRequest(t)
  <2>1. call[t].group \in Groups /\ call[t].actor \in Users
    BY <1>9 DEF InsertRequest, CallOK, LockOK, LockedSteps
  <2> QED
    BY <1>9, <2>1, EndTypes DEF InsertRequest, TypeOK, RowType
<1>10. CASE Approve(t)
  <2>1. call[t].request \in Requests
    BY <1>10 DEF Approve, CallOK, Decisions
  <2> QED
    BY <1>10, <2>1, EndTypes DEF Approve, TypeOK, RowType
<1>11. CASE Reject(t)
  <2>1. call[t].request \in Requests
    BY <1>11 DEF Reject, CallOK, Decisions
  <2> QED
    BY <1>11, <2>1, EndTypes DEF Reject, TypeOK, RowType
<1>12. CASE ReadActor(t)
  BY <1>12, CheckType DEF ReadActor, Steps, LockedSteps
<1>2a. CASE ReadTarget(t)
  BY <1>2a, CheckType DEF ReadTarget, Steps, LockedSteps
<1>14. CASE RemoveMember(t)
  BY <1>14, EndTypes DEF RemoveMember, TypeOK, Removals
<1>15. CASE Transfer(t)
  <2>1. call[t].target \in Users
    BY <1>15 DEF Transfer, CallOK
  <2> QED
    BY <1>15, <2>1, EndTypes DEF Transfer, TypeOK
<1> QED
  BY <1>1, <1>2, <1>3, <1>4, <1>5, <1>6, <1>7, <1>8, <1>9, <1>10, <1>11,
     <1>12, <1>2a, <1>14, <1>15 DEF Statement

LEMMA NextType ==
  ASSUME TypeOK, RowOwners, TxnsOK, [Next]_vars
  PROVE  TypeOK'
<1>1. ASSUME NEW t \in Txns, NEW u \in Users, NEW c \in CallsOf(u), Begin(t, u, c)
      PROVE  TypeOK'
  BY <1>1, CallsTyped DEF Begin, TypeOK, rows
<1>2. ASSUME NEW t \in Txns, Lock(t)
      PROVE  TypeOK'
  <2>1. call[t].group \in Groups
    BY <1>2 DEF TxnsOK, CallOK, Lock
  <2> QED
    BY <1>2, <2>1 DEF Lock, TypeOK, rows, AfterLock, Steps, LockedSteps
<1>3. ASSUME NEW t \in Txns, Statement(t)
      PROVE  TypeOK'
  BY <1>3, StatementType DEF TxnsOK
<1>4. ASSUME NEW t \in Txns, Crash(t)
      PROVE  TypeOK'
  BY <1>4, RollbackType DEF Crash
<1>5. ASSUME NEW u \in Users, Suspend(u) \/ DeleteAccount(u) \/ Reactivate(u)
      PROVE  TypeOK'
  BY <1>5 DEF Suspend, DeleteAccount, Reactivate, Withdraw, TypeOK, rows
<1>6. CASE UNCHANGED vars
  BY <1>6 DEF vars, rows, TypeOK
<1> QED
  BY <1>1, <1>2, <1>3, <1>4, <1>5, <1>6 DEF Next

-----------------------------------------------------------------------------
(* What one step leaves alone. *)

TxnOK(t) == LockOK(t) /\ CallOK(t) /\ Known(t)

LEMMA EndFrame ==
  ASSUME TypeOK, NEW t \in Txns, End(t)
  PROVE  /\ step'[t] = "idle" /\ call'[t] = NoCall
         /\ \A s \in Txns \ {t} :
              /\ step'[s] = step[s] /\ call'[s] = call[s] /\ seen'[s] = seen[s]
              /\ \A g \in Groups : lock[g] = s => lock'[g] = s
  BY TxnsAssumption DEF End, TypeOK

\* A transaction that is over satisfies its part of the invariant.
LEMMA IdleTxn ==
  ASSUME NEW t \in Txns, step'[t] = "idle", call'[t] = NoCall
  PROVE  TxnOK(t)'
<1>1. LockOK(t)'
  BY DEF LockOK, LockedSteps
<1>2. CallOK(t)'
  BY DEF CallOK, NoCall, Decisions, Removals
<1>3. Known(t)'
  BY DEF Known
<1> QED
  BY <1>1, <1>2, <1>3 DEF TxnOK

\* A transaction keeps its part of the invariant while nobody touches its own
\* state nor, once it is past lock(), the rows of its group.
LEMMA SameTxn ==
  ASSUME NEW s \in Txns, TxnOK(s),
         step'[s] = step[s], call'[s] = call[s], seen'[s] = seen[s],
         step[s] \in LockedSteps =>
           /\ lock'[call[s].group] = s
           /\ leader'[call[s].group] = leader[call[s].group]
           /\ capacity'[call[s].group] = capacity[call[s].group]
           /\ member'[call[s].group] = member[call[s].group]
           /\ \A r \in Requests :
                request[r].group = call[s].group \/ request'[r].group = call[s].group
                  => request'[r] = request[r]
  PROVE  TxnOK(s)'
<1>1. LockOK(s)'
  BY DEF TxnOK, LockOK, Open
<1>2. CallOK(s)'
  BY DEF TxnOK, CallOK
<1>3. Known(s)'
  <2>1. CASE step[s] \notin LockedSteps
    BY <2>1 DEF Known, LockedSteps
  <2>2. CASE step[s] \in LockedSteps
    <3> DEFINE g == call[s].group
    <3>1. \A u : Pending(g, u)' <=> Pending(g, u)
      BY <2>2 DEF Pending
    <3>2. RequireCapacity(g)' <=> RequireCapacity(g)
      BY <2>2 DEF RequireCapacity, Active
    <3>3. CASE call[s].kind \in Decisions
      <4>1. call[s].request \in Requests
        BY <3>3 DEF TxnOK, CallOK
      <4>2. step[s] \in {"account", "membership", "capacity", "write"} =>
              request'[call[s].request] = request[call[s].request]
        BY <2>2, <3>3, <4>1 DEF TxnOK, Known
      <4> QED
        BY <2>2, <3>2, <3>3, <4>2 DEF TxnOK, Known, Decisions, Removals
    <3>4. CASE call[s].kind \notin Decisions
      BY <2>2, <3>1, <3>2, <3>4 DEF TxnOK, Known, MayAct, Decisions
    <3> QED
      BY <3>3, <3>4
  <2> QED
    BY <2>1, <2>2
<1> QED
  BY <1>1, <1>2, <1>3 DEF TxnOK

\* No other transaction is past lock() on a group whose lock t owns.
LEMMA LockExcludes ==
  ASSUME NEW t \in Txns, NEW s \in Txns \ {t}, TxnOK(s), TxnOK(t),
         step[t] \in LockedSteps, step[s] \in LockedSteps
  PROVE  call[s].group # call[t].group
  BY DEF TxnOK, LockOK

\* A step that writes no row of the five tables and moves only transaction t.
LEMMA QuietStep ==
  ASSUME IInv, NEW t \in Txns, UNCHANGED rows,
         \A s \in Txns \ {t} :
           /\ step'[s] = step[s] /\ call'[s] = call[s] /\ seen'[s] = seen[s]
           /\ \A g \in Groups : lock[g] = s => lock'[g] = s,
         TxnOK(t)'
  PROVE  RowsOK' /\ TxnsOK'
<1>1. RowsOK'
  BY DEF IInv, RowsOK, rows, CapacityRespected, Active, OneSeatedLeader, Open,
         PendingAreOutsiders, NewGroupsEmpty, RowOwners
<1>2. ASSUME NEW s \in Txns \ {t}
      PROVE  TxnOK(s)'
  <2>1. TxnOK(s)
    BY DEF IInv, TxnsOK, TxnOK
  <2>2. step[s] \in LockedSteps => lock'[call[s].group] = s
    BY <2>1 DEF TxnOK, LockOK
  <2> QED
    BY <2>1, <2>2, SameTxn DEF rows
<1> QED
  BY <1>1, <1>2 DEF TxnsOK, TxnOK

\* A commit of t that touches only the rows of t's group.
LEMMA CommitStep ==
  ASSUME IInv, NEW t \in Txns, step[t] \in LockedSteps, End(t),
         \A g \in Groups \ {call[t].group} :
           /\ leader'[g] = leader[g] /\ capacity'[g] = capacity[g]
           /\ member'[g] = member[g],
         \A r \in Requests :
           request'[r] # request[r] =>
             /\ request'[r].group = call[t].group
             /\ request[r].group \in {call[t].group, NoGroup}
  PROVE  TxnsOK'
<1>1. TxnOK(t)'
  BY EndFrame, IdleTxn DEF IInv
<1>2. ASSUME NEW s \in Txns \ {t}
      PROVE  TxnOK(s)'
  <2>1. TxnOK(s) /\ TxnOK(t)
    BY DEF IInv, TxnsOK, TxnOK
  <2>2. step'[s] = step[s] /\ call'[s] = call[s] /\ seen'[s] = seen[s]
    BY EndFrame DEF IInv
  <2>3. CASE step[s] \in LockedSteps
    <3>1. call[s].group \in Groups \ {call[t].group} /\ lock'[call[s].group] = s
      BY <2>1, <2>3, LockExcludes, EndFrame DEF IInv, TxnOK, LockOK
    <3>2. ASSUME NEW r \in Requests,
                 request[r].group = call[s].group \/ request'[r].group = call[s].group
          PROVE  request'[r] = request[r]
      BY <3>1, <3>2, GroupsAssumption
    <3> QED
      BY <2>1, <2>2, <3>1, <3>2, SameTxn
  <2>4. CASE step[s] \notin LockedSteps
    BY <2>1, <2>2, <2>4, SameTxn
  <2> QED
    BY <2>3, <2>4
<1> QED
  BY <1>1, <1>2 DEF TxnsOK, TxnOK

-----------------------------------------------------------------------------
(* Steps that write no row. *)

LEMMA RollbackStep ==
  ASSUME IInv, NEW t \in Txns, Rollback(t)
  PROVE  RowsOK' /\ TxnsOK'
<1>1. End(t) /\ UNCHANGED rows
  BY DEF Rollback
<1> QED
  BY <1>1, EndFrame, IdleTxn, QuietStep DEF IInv

LEMMA BeginStep ==
  ASSUME IInv, NEW t \in Txns, NEW u \in Users, NEW c \in CallsOf(u), Begin(t, u, c)
  PROVE  RowsOK' /\ TxnsOK'
<1>1. step'[t] = FirstStep(c) /\ call'[t] = c
  BY DEF Begin, IInv, TypeOK
<1>2. LockOK(t)' /\ Known(t)'
  BY <1>1 DEF LockOK, Known, FirstStep, LockedSteps
<1>3. CallOK(t)'
  BY <1>1, GroupsAssumption
  DEF CallOK, CallsOf, FirstStep, Kinds, Decisions, Removals
<1> QED
  BY <1>2, <1>3, QuietStep DEF Begin, TxnOK, IInv, TypeOK

LEMMA RequestGroupStep ==
  ASSUME IInv, NEW t \in Txns, RequestGroup(t)
  PROVE  RowsOK' /\ TxnsOK'
<1>1. CASE Rollback(t)
  BY <1>1, RollbackStep
<1>2. CASE ~Rollback(t)
  <2>1. CallOK(t)
    BY DEF IInv, TxnsOK
  <2>2. call[t].request \in Requests
    BY <2>1 DEF RequestGroup, CallOK
  <2> DEFINE g == request[call[t].request].group
  <2>3. g \in Groups
    BY <1>2, <2>2 DEF RequestGroup, IInv, RowsOK, RowOwners
  <2>4. /\ step'[t] = "lock" /\ call'[t] = [call[t] EXCEPT !.group = g]
        /\ call[t] \in CallType
    BY <1>2 DEF RequestGroup, IInv, TypeOK
  <2>5. /\ call'[t].group = g /\ call'[t].kind = call[t].kind
        /\ call'[t].actor = call[t].actor /\ call'[t].target = call[t].target
        /\ call'[t].request = call[t].request
    BY <2>4 DEF CallType
  <2>6. TxnOK(t)'
    BY <2>1, <2>3, <2>4, <2>5
    DEF RequestGroup, TxnOK, LockOK, LockedSteps, Known, CallOK, Decisions
  <2> QED
    BY <1>2, <2>6, QuietStep DEF RequestGroup, IInv, TypeOK
<1> QED
  BY <1>1, <1>2

LEMMA LockStep ==
  ASSUME IInv, NEW t \in Txns, Lock(t)
  PROVE  RowsOK' /\ TxnsOK'
<1>1. CallOK(t) /\ call[t].group \in Groups
  BY DEF IInv, TxnsOK, CallOK, Lock
<1>2. /\ step'[t] = AfterLock(call[t].kind) /\ call'[t] = call[t]
      /\ seen'[t] = leader[call[t].group] /\ leader' = leader
      /\ lock'[call[t].group] = t
  BY <1>1 DEF Lock, IInv, TypeOK, rows
<1>3. LockOK(t)'
  BY <1>1, <1>2 DEF Lock, LockOK, Open
<1>4. CallOK(t)'
  BY <1>1, <1>2 DEF Lock, CallOK, AfterLock, Kinds, Decisions, Removals
<1>5. Known(t)'
  BY <1>1, <1>2 DEF Known, AfterLock, CallOK, Decisions, Removals, Lock
<1> QED
  BY <1>3, <1>4, <1>5, QuietStep, TxnsAssumption DEF Lock, TxnOK, IInv, TypeOK

\* A check that passes: t goes to its next statement with one more fact.
LEMMA CheckStep ==
  ASSUME IInv, NEW t \in Txns, NEW here \in LockedSteps, NEW next \in LockedSteps,
         NEW passes, Check(t, here, passes, next),
         step[t] = here /\ passes /\ step'[t] = next /\ call'[t] = call[t] /\ UNCHANGED rows
           /\ seen'[t] = seen[t] => CallOK(t)' /\ Known(t)'
  PROVE  RowsOK' /\ TxnsOK'
<1>1. CASE Rollback(t)
  BY <1>1, RollbackStep
<1>2. CASE ~Rollback(t)
  <2>1. /\ step[t] = here /\ passes /\ step'[t] = next
        /\ UNCHANGED <<account, rows, call, seen, lock>>
        /\ \A s \in Txns \ {t} : step'[s] = step[s]
    BY <1>2 DEF Check, IInv, TypeOK
  <2>2. LockOK(t)'
    BY <2>1 DEF IInv, TxnsOK, LockOK, Open, rows
  <2>3. TxnOK(t)'
    BY <2>1, <2>2 DEF TxnOK
  <2> QED
    BY <2>1, <2>3, QuietStep
<1> QED
  BY <1>1, <1>2

LEMMA ReadApplicantStep ==
  ASSUME IInv, NEW t \in Txns, ReadApplicant(t)
  PROVE  RowsOK' /\ TxnsOK'
<1> DEFINE passes == Available(call[t].target)
<1>1. CallOK(t) /\ Known(t)
  BY DEF IInv, TxnsOK
<1>2. step[t] = "account" /\ step'[t] = "membership" /\ call'[t] = call[t]
        /\ UNCHANGED rows /\ seen'[t] = seen[t] => CallOK(t)' /\ Known(t)'
  BY <1>1 DEF CallOK, Known, rows, Decisions, Removals
<1> HIDE DEF passes
<1> QED
  BY <1>2, CheckStep DEF ReadApplicant, LockedSteps, passes

LEMMA ReadMembershipStep ==
  ASSUME IInv, NEW t \in Txns, ReadMembership(t)
  PROVE  RowsOK' /\ TxnsOK'
<1> DEFINE passes == member[call[t].group][call[t].target] # "active"
           next == IF call[t].kind = "join" THEN "pending" ELSE "capacity"
<1>1. CallOK(t) /\ Known(t)
  BY DEF IInv, TxnsOK
<1>2. step[t] = "membership" /\ passes /\ step'[t] = next /\ call'[t] = call[t]
        /\ UNCHANGED rows /\ seen'[t] = seen[t] => CallOK(t)' /\ Known(t)'
  BY <1>1 DEF CallOK, Known, rows, Decisions, Removals
<1>3. next \in LockedSteps /\ "membership" \in LockedSteps
  BY DEF LockedSteps
<1>4. Check(t, "membership", passes, next)
  BY DEF ReadMembership
<1> HIDE DEF passes, next
<1> QED
  BY <1>2, <1>3, <1>4, CheckStep

LEMMA ReadPendingStep ==
  ASSUME IInv, NEW t \in Txns, ReadPending(t)
  PROVE  RowsOK' /\ TxnsOK'
<1> DEFINE passes == ~Pending(call[t].group, call[t].actor)
<1>1. CallOK(t) /\ Known(t)
  BY DEF IInv, TxnsOK
<1>2. step[t] = "pending" /\ passes /\ step'[t] = "capacity" /\ call'[t] = call[t]
        /\ UNCHANGED rows /\ seen'[t] = seen[t] => CallOK(t)' /\ Known(t)'
  BY <1>1 DEF CallOK, Known, rows, Decisions, Removals, Pending
<1>3. Check(t, "pending", passes, "capacity") /\ {"pending", "capacity"} \subseteq LockedSteps
  BY DEF ReadPending, LockedSteps
<1> HIDE DEF passes
<1> QED
  BY <1>2, <1>3, CheckStep

LEMMA CountMembersStep ==
  ASSUME IInv, NEW t \in Txns, CountMembers(t)
  PROVE  RowsOK' /\ TxnsOK'
<1> DEFINE passes == RequireCapacity(call[t].group)
<1>1. CallOK(t) /\ Known(t)
  BY DEF IInv, TxnsOK
<1>2. step[t] = "capacity" /\ passes /\ step'[t] = "write" /\ call'[t] = call[t]
        /\ UNCHANGED rows /\ seen'[t] = seen[t] => CallOK(t)' /\ Known(t)'
  BY <1>1 DEF CallOK, Known, rows, Decisions, Removals, Pending, RequireCapacity, Active
<1>3. Check(t, "capacity", passes, "write") /\ {"capacity", "write"} \subseteq LockedSteps
  BY DEF CountMembers, LockedSteps
<1> HIDE DEF passes
<1> QED
  BY <1>2, <1>3, CheckStep

LEMMA ReadActorStep ==
  ASSUME IInv, NEW t \in Txns, ReadActor(t)
  PROVE  RowsOK' /\ TxnsOK'
<1> DEFINE passes == RequireMember(call[t].group, call[t].actor) /\ MayAct(call[t], seen[t])
<1>1. CallOK(t) /\ Known(t)
  BY DEF IInv, TxnsOK
<1>2. step[t] = "actor" /\ passes /\ step'[t] = "target" /\ call'[t] = call[t]
        /\ UNCHANGED rows /\ seen'[t] = seen[t] => CallOK(t)' /\ Known(t)'
  BY <1>1 DEF CallOK, Known, rows, Decisions, Removals, MayAct
<1>3. Check(t, "actor", passes, "target") /\ {"actor", "target"} \subseteq LockedSteps
  BY DEF ReadActor, LockedSteps
<1> HIDE DEF passes
<1> QED
  BY <1>2, <1>3, CheckStep

LEMMA ReadTargetStep ==
  ASSUME IInv, NEW t \in Txns, ReadTarget(t)
  PROVE  RowsOK' /\ TxnsOK'
<1> DEFINE passes == RequireMember(call[t].group, call[t].target)
<1>1. CallOK(t) /\ Known(t)
  BY DEF IInv, TxnsOK
<1>2. step[t] = "target" /\ passes /\ step'[t] = "write" /\ call'[t] = call[t]
        /\ UNCHANGED rows /\ seen'[t] = seen[t] => CallOK(t)' /\ Known(t)'
  BY <1>1 DEF CallOK, Known, rows, Decisions, Removals, MayAct, RequireMember
<1>3. Check(t, "target", passes, "write") /\ {"target", "write"} \subseteq LockedSteps
  BY DEF ReadTarget, LockedSteps
<1> HIDE DEF passes
<1> QED
  BY <1>2, <1>3, CheckStep

LEMMA ReadRequestStep ==
  ASSUME IInv, NEW t \in Txns, ReadRequest(t)
  PROVE  RowsOK' /\ TxnsOK'
<1>1. CASE Rollback(t)
  BY <1>1, RollbackStep
<1>2. CASE ~Rollback(t)
  <2>1. TxnOK(t) /\ call[t].request \in Requests
    BY DEF IInv, TxnsOK, TxnOK, ReadRequest, CallOK
  <2> DEFINE row == request[call[t].request]
  <2>2. /\ row.status = "pending" /\ row.group = call[t].group /\ seen[t] = call[t].actor
        /\ UNCHANGED <<account, rows, seen, lock>>
        /\ step'[t] = IF call[t].kind = "approved" THEN "account" ELSE "write"
        /\ call'[t] = [call[t] EXCEPT !.target = row.user]
        /\ call[t] \in CallType /\ row \in RowType
    BY <1>2, <2>1 DEF ReadRequest, IInv, TypeOK
  <2>3. /\ call'[t].group = call[t].group /\ call'[t].kind = call[t].kind
        /\ call'[t].actor = call[t].actor /\ call'[t].target = row.user
        /\ call'[t].request = call[t].request
    BY <2>2 DEF CallType
  <2>4. row.user \in Users
    BY <2>1, <2>2 DEF IInv, RowsOK, RowOwners
  <2>5. LockOK(t)' /\ CallOK(t)'
    BY <2>1, <2>2, <2>3, <2>4
    DEF ReadRequest, TxnOK, LockOK, Open, LockedSteps, CallOK, Decisions, Removals, rows
  <2>6. row = [status |-> "pending", group |-> call[t].group, user |-> row.user]
    BY <2>2 DEF RowType
  <2>7. Known(t)'
    BY <2>1, <2>2, <2>3, <2>6
    DEF ReadRequest, TxnOK, CallOK, Known, Decisions, Removals, rows
  <2> QED
    BY <1>2, <2>5, <2>7, QuietStep DEF ReadRequest, TxnOK, IInv, TypeOK
<1> QED
  BY <1>1, <1>2

-----------------------------------------------------------------------------
(* Commits. *)

\* What t knows when it commits.
LEMMA AtWrite ==
  ASSUME IInv, NEW t \in Txns, step[t] = "write"
  PROVE  /\ call[t].group \in Groups /\ Open(call[t].group)
         /\ seen[t] = leader[call[t].group]
         /\ call[t].actor \in Users /\ call[t].target \in Users
         /\ call[t].kind \in Decisions =>
              /\ call[t].request \in Requests
              /\ seen[t] = call[t].actor
              /\ request[call[t].request] = [status |-> "pending", group |-> call[t].group,
                                             user |-> call[t].target]
         /\ call[t].kind \in {"join", "approved"} =>
              /\ member[call[t].group][call[t].target] # "active"
              /\ RequireCapacity(call[t].group)
         /\ call[t].kind = "join" =>
              /\ call[t].target = call[t].actor
              /\ ~Pending(call[t].group, call[t].actor)
         /\ call[t].kind \in Removals \cup {"transfer"} =>
              /\ MayAct(call[t], seen[t])
              /\ member[call[t].group][call[t].target] = "active"
<1>1. LockOK(t) /\ CallOK(t) /\ Known(t)
  BY DEF IInv, TxnsOK
<1>2. /\ call[t].group \in Groups /\ Open(call[t].group)
      /\ seen[t] = leader[call[t].group]
  BY <1>1 DEF LockOK, LockedSteps
<1>3. /\ call[t].actor \in Users /\ call[t].target \in Users
      /\ call[t].kind \in Decisions => call[t].request \in Requests
      /\ call[t].kind = "join" => call[t].target = call[t].actor
  BY <1>1 DEF CallOK
<1> QED
  BY <1>1, <1>2, <1>3 DEF Known

LEMMA ActiveFinite ==
  ASSUME NEW g \in Groups
  PROVE  IsFiniteSet(Active(g)) /\ Cardinality(Active(g)) \in Nat
<1>1. Active(g) \subseteq Users
  BY DEF Active
<1> QED
  BY <1>1, UsersAssumption, FS_Subset, FS_CardinalityType

LEMMA CapacityNat ==
  ASSUME TypeOK, NEW g \in Groups
  PROVE  capacity[g] \in Nat
<1>1. capacity \in [Groups -> Capacities \cup {0}]
  BY DEF TypeOK
<1>2. capacity[g] \in Capacities \cup {0}
  BY <1>1
<1>3. CASE capacity[g] \in Capacities
  BY <1>3, CapacitiesAssumption
<1>4. CASE capacity[g] = 0
  BY <1>4
<1> QED
  BY <1>2, <1>3, <1>4

LEMMA CreateStep ==
  ASSUME IInv, NEW t \in Txns, Create(t)
  PROVE  RowsOK' /\ TxnsOK'
<1> DEFINE u == call[t].actor
<1>1. PICK g \in Groups, c \in Capacities :
        /\ ~Open(g)
        /\ capacity' = [capacity EXCEPT ![g] = c]
        /\ leader' = [leader EXCEPT ![g] = u]
        /\ member' = [member EXCEPT ![g][u] = "active"]
        /\ role' = [role EXCEPT ![g][u] = "leader"]
  BY DEF Create
<1>2. TypeOK /\ RowsOK /\ CallOK(t) /\ step[t] = "create" /\ End(t) /\ request' = request
  BY DEF Create, IInv, TxnsOK
<1>3. u \in Users /\ u # NoUser
  BY <1>2, UsersAssumption DEF CallOK
<1>4. \A h \in Groups \ {g} : /\ leader'[h] = leader[h] /\ capacity'[h] = capacity[h]
                              /\ member'[h] = member[h] /\ role'[h] = role[h]
  BY <1>1, <1>2 DEF TypeOK
<1>5. /\ leader'[g] = u /\ capacity'[g] = c
      /\ \A v \in Users : member'[g][v] = IF v = u THEN "active" ELSE member[g][v]
      /\ \A v \in Users : role'[g][v] = IF v = u THEN "leader" ELSE role[g][v]
  BY <1>1, <1>2, <1>3 DEF TypeOK
<1>6. \A v \in Users : member[g][v] = "none" /\ role[g][v] # "leader"
  BY <1>1, <1>2, UsersAssumption DEF RowsOK, NewGroupsEmpty, OneSeatedLeader, Open
<1>7. CapacityRespected'
  <2>1. Active(g)' = {u}
    BY <1>3, <1>5, <1>6 DEF Active
  <2>2. Cardinality({u}) = 1
    BY FS_Singleton
  <2>3. Cardinality(Active(g)') <= capacity'[g]
    BY <1>5, <2>1, <2>2, CapacitiesAssumption
  <2>4. \A h \in Groups \ {g} : Active(h)' = Active(h)
    BY <1>4 DEF Active
  <2> QED
    BY <1>2, <1>4, <2>3, <2>4 DEF RowsOK, CapacityRespected
<1>8. OneSeatedLeader'
  BY <1>2, <1>3, <1>4, <1>5, <1>6 DEF RowsOK, OneSeatedLeader, Open
<1>9. PendingAreOutsiders' /\ RowOwners'
  <2>1. \A r \in Requests : request[r].status # "unused" => request[r].group # g
    BY <1>1, <1>2 DEF RowsOK, RowOwners
  <2> QED
    BY <1>2, <1>4, <2>1 DEF RowsOK, PendingAreOutsiders, RowOwners, Open
<1>10. NewGroupsEmpty'
  BY <1>2, <1>3, <1>4, <1>5 DEF RowsOK, NewGroupsEmpty, Open
<1>11. TxnsOK'
  <2>1. TxnOK(t)'
    BY <1>2, EndFrame, IdleTxn
  <2>2. ASSUME NEW s \in Txns \ {t}
        PROVE  TxnOK(s)'
    <3>1. TxnOK(s)
      BY DEF IInv, TxnsOK, TxnOK
    <3>2. step[s] \in LockedSteps => call[s].group \in Groups \ {g}
      BY <1>1, <3>1 DEF TxnOK, LockOK
    <3>3. step[s] \in LockedSteps => lock'[call[s].group] = s
      BY <1>2, <3>1, EndFrame DEF TxnOK, LockOK
    <3> QED
      BY <1>2, <1>4, <3>1, <3>2, <3>3, EndFrame, SameTxn
  <2> QED
    BY <2>1, <2>2 DEF TxnsOK, TxnOK
<1> QED
  BY <1>7, <1>8, <1>9, <1>10, <1>11 DEF RowsOK

LEMMA InsertRequestStep ==
  ASSUME IInv, NEW t \in Txns, InsertRequest(t)
  PROVE  RowsOK' /\ TxnsOK'
<1> DEFINE g == call[t].group
           u == call[t].actor
           row == [status |-> "pending", group |-> g, user |-> u]
<1>1. PICK r \in Requests : request[r].status = "unused" /\ request' = [request EXCEPT ![r] = row]
  BY DEF InsertRequest
<1>2. /\ TypeOK /\ RowsOK /\ End(t) /\ step[t] = "write"
      /\ UNCHANGED <<capacity, leader, member, role>>
  BY DEF InsertRequest, IInv
<1>3. /\ g \in Groups /\ Open(g) /\ u \in Users
      /\ member[g][u] # "active" /\ ~Pending(g, u)
  BY AtWrite DEF InsertRequest
<1>4. request'[r] = row /\ \A q \in Requests \ {r} : request'[q] = request[q]
  BY <1>1, <1>2 DEF TypeOK
<1>5. CapacityRespected' /\ OneSeatedLeader' /\ NewGroupsEmpty'
  BY <1>2 DEF RowsOK, CapacityRespected, Active, OneSeatedLeader, Open, NewGroupsEmpty
<1>6. PendingAreOutsiders'
  <2>1. \A q \in Requests \ {r} : request[q] # row
    BY <1>3 DEF Pending
  <2> QED
    BY <1>2, <1>3, <1>4, <2>1 DEF RowsOK, PendingAreOutsiders
<1>7. RowOwners'
  BY <1>2, <1>3, <1>4 DEF RowsOK, RowOwners, Open
<1>8. request[r].group = NoGroup
  BY <1>1, <1>2 DEF RowsOK, RowOwners, UnusedRow
<1>9. TxnsOK'
  BY <1>2, <1>4, <1>8, CommitStep DEF LockedSteps
<1> QED
  BY <1>5, <1>6, <1>7, <1>9 DEF RowsOK

LEMMA ApproveStep ==
  ASSUME IInv, NEW t \in Txns, Approve(t)
  PROVE  RowsOK' /\ TxnsOK'
<1>1. /\ TypeOK /\ RowsOK /\ End(t) /\ step[t] = "write"
      /\ UNCHANGED <<capacity, leader>>
  BY DEF Approve, IInv
<1>2. PICK g \in Groups, u \in Users, r \in Requests :
        /\ g = call[t].group /\ u = call[t].target /\ r = call[t].request
        /\ Open(g)
        /\ request[r] = [status |-> "pending", group |-> g, user |-> u]
        /\ member[g][u] # "active" /\ RequireCapacity(g)
  BY AtWrite DEF Approve, Decisions
<1>2a. /\ member' = [member EXCEPT ![g][u] = "active"]
      /\ role' = [role EXCEPT ![g][u] = "member"]
      /\ request' = [request EXCEPT ![r].status = "approved"]
  BY <1>2 DEF Approve
<1>3. /\ \A h \in Groups \ {g} : member'[h] = member[h] /\ role'[h] = role[h]
      /\ \A v \in Users : member'[g][v] = IF v = u THEN "active" ELSE member[g][v]
      /\ \A v \in Users : role'[g][v] = IF v = u THEN "member" ELSE role[g][v]
  BY <1>1, <1>2a DEF TypeOK
<1>4. /\ request'[r] = [status |-> "approved", group |-> g, user |-> u]
      /\ \A q \in Requests \ {r} : request'[q] = request[q]
  BY <1>1, <1>2, <1>2a DEF TypeOK, RowType
<1>5. CapacityRespected'
  <2>1. Active(g)' = Active(g) \cup {u} /\ u \notin Active(g)
    BY <1>2, <1>3 DEF Active
  <2>2. Cardinality(Active(g)') = Cardinality(Active(g)) + 1
    <3> DEFINE A == Active(g)
    <3>1. IsFiniteSet(A) /\ Cardinality(A) \in Nat
      BY <1>2, ActiveFinite
    <3>2. u \notin A
      BY <2>1
    <3> HIDE DEF A
    <3>3. Cardinality(A \cup {u}) = Cardinality(A) + 1
      BY <3>1, <3>2, FS_AddElement
    <3> QED
      BY <2>1, <3>3 DEF A
  <2>3. Cardinality(Active(g)') <= capacity'[g]
    <3>1. capacity[g] \in Nat /\ capacity'[g] = capacity[g]
      BY <1>1, CapacityNat
    <3> QED
      BY <1>2, <2>2, <3>1, ActiveFinite DEF RequireCapacity
  <2>4. \A h \in Groups \ {g} : Active(h)' = Active(h)
    BY <1>3 DEF Active
  <2> QED
    BY <1>1, <2>3, <2>4 DEF RowsOK, CapacityRespected
<1>6. u # leader[g]
  BY <1>1, <1>2 DEF RowsOK, OneSeatedLeader
<1>7. OneSeatedLeader'
  <2>1. \A h \in Groups : Open(h) => leader[h] \in Users
    BY <1>1 DEF Open, TypeOK
  <2>2. \A h \in Groups : Open(h) => member'[h][leader[h]] = "active"
    BY <1>1, <1>3, <2>1 DEF RowsOK, OneSeatedLeader
  <2>3. \A h \in Groups, v \in Users : role'[h][v] = "leader" <=> v = leader[h]
    BY <1>1, <1>3, <1>6 DEF RowsOK, OneSeatedLeader
  <2> QED
    BY <1>1, <2>2, <2>3 DEF OneSeatedLeader, Open
<1>8. PendingAreOutsiders'
  <2>1. \A q \in Requests \ {r} :
          request[q].status = "pending" => ~(request[q].group = g /\ request[q].user = u)
    <3>1. ASSUME NEW q \in Requests \ {r}, request[q].status = "pending",
                 request[q].group = g, request[q].user = u
          PROVE  request[q] = request[r]
      BY <1>1, <1>2, <3>1 DEF TypeOK, RowType
    <3> QED
      BY <1>1, <1>2, <3>1 DEF RowsOK, PendingAreOutsiders
  <2>2. \A q \in Requests \ {r} : request[q].status = "pending" =>
          request[q].group \in Groups /\ request[q].user \in Users
    BY <1>1 DEF RowsOK, RowOwners
  <2>3. \A q \in Requests \ {r} : request[q].status = "pending" =>
          member'[request[q].group][request[q].user] # "active"
    BY <1>1, <1>3, <2>1, <2>2 DEF RowsOK, PendingAreOutsiders
  <2> QED
    BY <1>1, <1>4, <2>3 DEF RowsOK, PendingAreOutsiders
<1>9. NewGroupsEmpty'
  BY <1>1, <1>2, <1>3 DEF RowsOK, NewGroupsEmpty, Open
<1>10. RowOwners'
  BY <1>1, <1>2, <1>4 DEF RowsOK, RowOwners, Open
<1>11. TxnsOK'
  BY <1>1, <1>2, <1>3, <1>4, CommitStep DEF LockedSteps
<1> QED
  BY <1>5, <1>7, <1>8, <1>9, <1>10, <1>11 DEF RowsOK

LEMMA RejectStep ==
  ASSUME IInv, NEW t \in Txns, Reject(t)
  PROVE  RowsOK' /\ TxnsOK'
<1> DEFINE r == call[t].request
<1>1. /\ TypeOK /\ RowsOK /\ End(t) /\ step[t] = "write"
      /\ UNCHANGED <<capacity, leader, member, role>>
  BY DEF Reject, IInv
<1>2. /\ call[t].group \in Groups /\ Open(call[t].group) /\ r \in Requests
      /\ request[r] = [status |-> "pending", group |-> call[t].group, user |-> call[t].target]
      /\ call[t].target \in Users
  BY AtWrite DEF Reject, Decisions
<1>3. /\ request'[r] = [status |-> "rejected", group |-> call[t].group,
                        user |-> call[t].target]
      /\ \A q \in Requests \ {r} : request'[q] = request[q]
  BY <1>1, <1>2 DEF Reject, TypeOK, RowType
<1>4. CapacityRespected' /\ OneSeatedLeader' /\ NewGroupsEmpty'
  BY <1>1 DEF RowsOK, CapacityRespected, Active, OneSeatedLeader, Open, NewGroupsEmpty
<1>5. PendingAreOutsiders' /\ RowOwners'
  BY <1>1, <1>2, <1>3 DEF RowsOK, PendingAreOutsiders, RowOwners, Open
<1>6. TxnsOK'
  BY <1>1, <1>2, <1>3, CommitStep DEF LockedSteps
<1> QED
  BY <1>4, <1>5, <1>6 DEF RowsOK

LEMMA RemoveMemberStep ==
  ASSUME IInv, NEW t \in Txns, RemoveMember(t)
  PROVE  RowsOK' /\ TxnsOK'
<1>1. /\ TypeOK /\ RowsOK /\ End(t) /\ step[t] = "write"
      /\ UNCHANGED <<capacity, leader, role, request>>
  BY DEF RemoveMember, IInv
<1>2. PICK g \in Groups, u \in Users :
        /\ g = call[t].group /\ u = call[t].target
        /\ Open(g) /\ u # leader[g] /\ member[g][u] = "active"
  BY AtWrite DEF RemoveMember, Removals, MayAct
<1>3. /\ \A h \in Groups \ {g} : member'[h] = member[h]
      /\ \A v \in Users \ {u} : member'[g][v] = member[g][v]
      /\ member'[g][u] \in Removals
  BY <1>1, <1>2 DEF RemoveMember, TypeOK
<1>4. CapacityRespected'
  <2>1. Active(g)' = Active(g) \ {u}
    BY <1>2, <1>3 DEF Active, Removals
  <2>2. Cardinality(Active(g)') <= Cardinality(Active(g)) /\ Cardinality(Active(g)') \in Nat
    <3>1. u \in Active(g)
      BY <1>2 DEF Active
    <3>2. Cardinality(Active(g)') = Cardinality(Active(g)) - 1
      BY <2>1, <3>1, ActiveFinite, FS_RemoveElement
    <3>3. IsFiniteSet(Active(g)')
      BY <2>1, ActiveFinite, FS_Subset
    <3> QED
      BY <3>2, <3>3, ActiveFinite, FS_CardinalityType
  <2>3. Cardinality(Active(g)') <= capacity'[g]
    <3>1. capacity[g] \in Nat /\ capacity'[g] = capacity[g]
      BY <1>1, CapacityNat
    <3>2. Cardinality(Active(g)) <= capacity[g]
      BY <1>1 DEF RowsOK, CapacityRespected
    <3> QED
      BY <2>2, <3>1, <3>2, ActiveFinite
  <2>4. \A h \in Groups \ {g} : Active(h)' = Active(h)
    BY <1>3 DEF Active
  <2> QED
    BY <1>1, <2>3, <2>4 DEF RowsOK, CapacityRespected
<1>5. OneSeatedLeader'
  <2>1. \A h \in Groups : Open(h) => leader[h] \in Users
    BY <1>1 DEF Open, TypeOK
  <2> QED
    BY <1>1, <1>2, <1>3, <2>1 DEF RowsOK, OneSeatedLeader, Open
<1>6. PendingAreOutsiders'
  <2>1. \A q \in Requests : request[q].status = "pending" =>
          request[q].group \in Groups /\ request[q].user \in Users
    BY <1>1 DEF RowsOK, RowOwners
  <2>2. member'[g][u] # "active"
    BY <1>3 DEF Removals
  <2>3. \A q \in Requests : request[q].status = "pending" =>
          member'[request[q].group][request[q].user] # "active"
    BY <1>1, <1>3, <2>1, <2>2 DEF RowsOK, PendingAreOutsiders
  <2> QED
    BY <1>1, <2>3 DEF RowsOK, PendingAreOutsiders
<1>7. NewGroupsEmpty' /\ RowOwners'
  BY <1>1, <1>2, <1>3 DEF RowsOK, NewGroupsEmpty, RowOwners, Open
<1>8. TxnsOK'
  BY <1>1, <1>2, <1>3, CommitStep DEF LockedSteps
<1> QED
  BY <1>4, <1>5, <1>6, <1>7, <1>8 DEF RowsOK

LEMMA TransferStep ==
  ASSUME IInv, NEW t \in Txns, Transfer(t)
  PROVE  RowsOK' /\ TxnsOK'
<1> DEFINE g == call[t].group
           u == call[t].target
<1>1. /\ TypeOK /\ RowsOK /\ End(t) /\ step[t] = "write"
      /\ UNCHANGED <<capacity, member, request>>
  BY DEF Transfer, IInv
<1>2. g \in Groups /\ Open(g) /\ u \in Users /\ member[g][u] = "active"
  BY AtWrite DEF Transfer
<1>3. /\ \A h \in Groups \ {g} : leader'[h] = leader[h] /\ role'[h] = role[h]
      /\ leader'[g] = u
      /\ \A v \in Users : role'[g][v] =
            IF member[g][v] # "active" THEN role[g][v]
            ELSE IF v = u THEN "leader" ELSE "member"
  BY <1>1, <1>2 DEF Transfer, TypeOK
<1>4. u # NoUser
  BY <1>2, UsersAssumption
<1>5. CapacityRespected'
  BY <1>1 DEF RowsOK, CapacityRespected, Active
<1>6. OneSeatedLeader'
  <2>1. \A v \in Users : member[g][v] # "active" => role[g][v] # "leader"
    BY <1>1, <1>2 DEF RowsOK, OneSeatedLeader
  <2> QED
    BY <1>1, <1>2, <1>3, <1>4, <2>1 DEF RowsOK, OneSeatedLeader, Open
<1>7. PendingAreOutsiders' /\ NewGroupsEmpty' /\ RowOwners'
  BY <1>1, <1>2, <1>3, <1>4 DEF RowsOK, PendingAreOutsiders, NewGroupsEmpty, RowOwners, Open
<1>8. TxnsOK'
  BY <1>1, <1>2, <1>3, CommitStep DEF LockedSteps
<1> QED
  BY <1>5, <1>6, <1>7, <1>8 DEF RowsOK

-----------------------------------------------------------------------------
(* The invariant. *)

LEMMA InitInv == Init => IInv
<1> SUFFICES ASSUME Init PROVE IInv
  OBVIOUS
<1>1. CapacityRespected
  <2>1. \A g \in Groups : Active(g) = {}
    BY DEF Init, Active
  <2> QED
    BY <2>1, FS_EmptySet, 0 <= 0 DEF Init, CapacityRespected
<1>2. OneSeatedLeader /\ NewGroupsEmpty
  BY UsersAssumption DEF Init, OneSeatedLeader, Open, NewGroupsEmpty
<1>3. PendingAreOutsiders /\ RowOwners
  BY DEF Init, PendingAreOutsiders, RowOwners, UnusedRow
<1>4. TxnsOK
  BY DEF Init, TxnsOK, LockOK, CallOK, Known, NoCall, LockedSteps, Decisions, Removals
<1> QED
  BY <1>1, <1>2, <1>3, <1>4, InitType DEF IInv, RowsOK

LEMMA StatementStep ==
  ASSUME IInv, NEW t \in Txns, Statement(t)
  PROVE  RowsOK' /\ TxnsOK'
<1>1. CASE LockNotFound(t)
  BY <1>1, RollbackStep DEF LockNotFound
<1> QED
  BY <1>1, CreateStep, RequestGroupStep, ReadRequestStep, ReadApplicantStep,
     ReadMembershipStep, ReadPendingStep, CountMembersStep, InsertRequestStep,
     ApproveStep, RejectStep, ReadActorStep, ReadTargetStep, RemoveMemberStep,
     TransferStep DEF Statement

LEMMA NextInv ==
  ASSUME IInv, [Next]_vars
  PROVE  IInv'
<1>1. TypeOK'
  BY NextType DEF IInv, RowsOK
<1>2. RowsOK' /\ TxnsOK'
  <2>1. ASSUME NEW t \in Txns, NEW u \in Users, NEW c \in CallsOf(u), Begin(t, u, c)
        PROVE  RowsOK' /\ TxnsOK'
    BY <2>1, BeginStep
  <2>2. ASSUME NEW t \in Txns, Lock(t) \/ Statement(t) \/ Crash(t)
        PROVE  RowsOK' /\ TxnsOK'
    BY <2>2, LockStep, StatementStep, RollbackStep DEF Crash
  <2>3. CASE UNCHANGED <<rows, step, call, seen, lock>>
    <3>1. RowsOK'
      BY <2>3 DEF IInv, RowsOK, rows, CapacityRespected, Active, OneSeatedLeader, Open,
                  PendingAreOutsiders, NewGroupsEmpty, RowOwners
    <3>2. ASSUME NEW s \in Txns
          PROVE  TxnOK(s)'
      BY <2>3, SameTxn DEF IInv, TxnsOK, TxnOK, LockOK, rows
    <3> QED
      BY <3>1, <3>2 DEF TxnsOK, TxnOK
  <2>4. ASSUME NEW u \in Users, Suspend(u) \/ Reactivate(u) \/ DeleteAccount(u)
        PROVE  RowsOK' /\ TxnsOK'
    BY <2>3, <2>4 DEF Suspend, Reactivate, DeleteAccount, Withdraw
  <2> QED
    BY <2>1, <2>2, <2>3, <2>4 DEF Next, vars
<1> QED
  BY <1>1, <1>2 DEF IInv

THEOREM Invariance == Spec => []IInv
  BY InitInv, NextInv, PTL DEF Spec

\* The types of rows and of transactions are as declared in every state.
THEOREM TypeCorrectness == Spec => []TypeOK
  BY Invariance, PTL DEF IInv

\* The seats of a group are never oversold, however many approvals,
\* departures, kicks and transfers run at once.
THEOREM CapacitySafety == Spec => []CapacityRespected
  BY Invariance, PTL DEF IInv, RowsOK

\* Every group keeps one leader, who is an active member of it.
THEOREM LeadershipSafety == Spec => []OneSeatedLeader
  BY Invariance, PTL DEF IInv, RowsOK

\* Nobody has a pending request for a group he is in, nor two of them.
THEOREM PendingSafety == Spec => []PendingAreOutsiders
  BY Invariance, PTL DEF IInv, RowsOK

-----------------------------------------------------------------------------
(* No two calls wait for each other. *)

\* A row lock belongs to a transaction of that group which is past lock() and
\* has not ended.
LocksHeld ==
  \A g \in Groups : lock[g] # NoTxn =>
    /\ lock[g] \in Txns
    /\ step[lock[g]] \in LockedSteps
    /\ call[lock[g]].group = g

\* Transaction t waits in lock() for transaction s.
WaitsFor(t, s) == /\ step[t] = "lock"
                  /\ Open(call[t].group)
                  /\ lock[call[t].group] = s /\ s # NoTxn

\* Whoever is waited for runs its statements and waits for nobody, not even
\* for itself, and nobody holds the locks of two groups.
NoDeadlock ==
  /\ \A t \in Txns : \A s \in Txns \cup {NoTxn} : WaitsFor(t, s) =>
       /\ s \in Txns \ {t} /\ step[s] \in LockedSteps
       /\ \A r \in Txns : ~WaitsFor(s, r)
  /\ \A g, h \in Groups : lock[g] = lock[h] /\ lock[g] # NoTxn => g = h

\* What a statement does to the lock of its own transaction.
LEMMA StatementKeepsLock ==
  ASSUME IInv, NEW t \in Txns, Statement(t)
  PROVE  \/ End(t)
         \/ /\ UNCHANGED lock
            /\ step[t] \in LockedSteps => /\ step'[t] \in LockedSteps
                                          /\ call'[t].group = call[t].group
            /\ \A s \in Txns \ {t} : step'[s] = step[s] /\ call'[s] = call[s]
<1>0. step \in [Txns -> Steps] /\ call \in [Txns -> CallType]
  BY DEF IInv, TypeOK
<1>1. ASSUME NEW here, NEW passes, NEW next \in LockedSteps, Check(t, here, passes, next)
      PROVE  \/ End(t)
             \/ /\ UNCHANGED <<lock, call>> /\ step'[t] \in LockedSteps
                /\ \A s \in Txns \ {t} : step'[s] = step[s]
  BY <1>0, <1>1 DEF Check, Rollback
<1>2. CASE ReadApplicant(t) \/ ReadMembership(t) \/ ReadPending(t) \/ CountMembers(t)
           \/ ReadActor(t) \/ ReadTarget(t)
  <2>1. {"membership", "pending", "capacity", "write", "target"} \subseteq LockedSteps
    BY DEF LockedSteps
  <2> QED
    BY <1>1, <1>2, <2>1 DEF ReadApplicant, ReadMembership, ReadPending, CountMembers,
                            ReadActor, ReadTarget
<1>3. CASE ReadRequest(t)
  <2>1. ASSUME NEW u \in Users \cup {NoUser}, call' = [call EXCEPT ![t].target = u]
        PROVE  /\ call'[t].group = call[t].group
               /\ \A s \in Txns \ {t} : call'[s] = call[s]
    BY <1>0, <2>1 DEF CallType
  <2>2. request[call[t].request].user \in Users \cup {NoUser}
    BY <1>3 DEF ReadRequest, IInv, TypeOK, RowType, TxnsOK, CallOK
  <2>3. CASE End(t)
    BY <2>3
  <2>4. CASE ~End(t)
    <3>1. /\ call' = [call EXCEPT ![t].target = request[call[t].request].user]
          /\ step' = [step EXCEPT ![t] =
                        IF call[t].kind = "approved" THEN "account" ELSE "write"]
          /\ UNCHANGED lock
      BY <1>3, <2>4 DEF ReadRequest, Rollback
    <3> QED
      BY <1>0, <2>1, <2>2, <3>1 DEF LockedSteps
  <2> QED
    BY <2>3, <2>4
<1>4. CASE RequestGroup(t)
  BY <1>0, <1>4 DEF RequestGroup, Rollback, LockedSteps
<1>5. CASE \/ Create(t) \/ LockNotFound(t) \/ InsertRequest(t) \/ Approve(t)
           \/ Reject(t) \/ RemoveMember(t) \/ Transfer(t)
  BY <1>5 DEF Create, LockNotFound, InsertRequest, Approve, Reject, RemoveMember,
              Transfer, Rollback
<1> QED
  BY <1>2, <1>3, <1>4, <1>5 DEF Statement

LEMMA LocksStep ==
  ASSUME IInv, LocksHeld, [Next]_vars
  PROVE  LocksHeld'
<1>0. /\ step \in [Txns -> Steps] /\ call \in [Txns -> CallType]
      /\ lock \in [Groups -> Txns \cup {NoTxn}]
  BY DEF IInv, TypeOK
<1>1. ASSUME NEW t \in Txns, End(t) PROVE LocksHeld'
  <2>1. \A g \in Groups : lock'[g] # NoTxn => lock'[g] = lock[g] /\ lock[g] # t
    BY <1>0, <1>1 DEF End
  <2>2. \A s \in Txns \ {t} : step'[s] = step[s] /\ call'[s] = call[s]
    BY <1>0, <1>1 DEF End
  <2> QED
    BY <2>1, <2>2 DEF LocksHeld
<1>2. ASSUME NEW t \in Txns, Statement(t) PROVE LocksHeld'
  <2>1. CASE End(t)
    BY <1>1, <2>1
  <2>2. CASE ~End(t)
    <3>1. /\ UNCHANGED lock
          /\ step[t] \in LockedSteps => /\ step'[t] \in LockedSteps
                                        /\ call'[t].group = call[t].group
          /\ \A s \in Txns \ {t} : step'[s] = step[s] /\ call'[s] = call[s]
      BY <1>2, <2>2, StatementKeepsLock
    <3> QED
      BY <3>1 DEF LocksHeld
  <2> QED
    BY <2>1, <2>2
<1>3. ASSUME NEW t \in Txns, NEW u \in Users, NEW c \in CallsOf(u), Begin(t, u, c)
      PROVE  LocksHeld'
  <2>1. /\ step[t] = "idle" /\ UNCHANGED lock
        /\ \A s \in Txns \ {t} : step'[s] = step[s] /\ call'[s] = call[s]
    BY <1>0, <1>3 DEF Begin
  <2>2. \A g \in Groups : lock[g] # t
    BY <2>1, TxnsAssumption DEF LocksHeld, LockedSteps
  <2> QED
    BY <2>1, <2>2 DEF LocksHeld
<1>4. ASSUME NEW t \in Txns, Lock(t) PROVE LocksHeld'
  <2>1. /\ step[t] = "lock" /\ UNCHANGED call /\ AfterLock(call[t].kind) \in LockedSteps
        /\ step' = [step EXCEPT ![t] = AfterLock(call[t].kind)]
        /\ lock' = [lock EXCEPT ![call[t].group] = t]
    BY <1>4 DEF Lock, AfterLock, LockedSteps
  <2>2. \A g \in Groups : lock[g] # t
    BY <2>1, TxnsAssumption DEF LocksHeld, LockedSteps
  <2> QED
    BY <1>0, <2>1, <2>2 DEF LocksHeld
<1>5. ASSUME UNCHANGED <<step, call, lock>> PROVE LocksHeld'
  BY <1>5 DEF LocksHeld
<1>6. ASSUME NEW u \in Users, Suspend(u) \/ Reactivate(u) \/ DeleteAccount(u)
      PROVE  LocksHeld'
  BY <1>5, <1>6 DEF Suspend, DeleteAccount, Withdraw, Reactivate
<1> QED
  BY <1>1, <1>2, <1>3, <1>4, <1>5, <1>6 DEF Next, Crash, Rollback, vars

\* A call that waits for a group waits for one that is running and waits for
\* nobody: the lock of one group at a time cannot deadlock, whatever calls,
\* rollbacks, lost connections and suspended accounts interleave. That every
\* call ends (EveryCallEnds) then only takes fairness.
THEOREM DeadlockFreedom == Spec => []NoDeadlock
<1>1. Init => LocksHeld
  BY DEF Init, LocksHeld
<1>2. IInv /\ LocksHeld /\ [Next]_vars => LocksHeld'
  BY LocksStep
<1>3. IInv /\ LocksHeld => NoDeadlock
  <2> SUFFICES ASSUME IInv, LocksHeld PROVE NoDeadlock
    OBVIOUS
  <2>1. ASSUME NEW t \in Txns, NEW s \in Txns \cup {NoTxn}, WaitsFor(t, s)
        PROVE  /\ s \in Txns \ {t} /\ step[s] \in LockedSteps
               /\ \A r \in Txns : ~WaitsFor(s, r)
    <3>1. call[t].group \in Groups
      BY <2>1 DEF WaitsFor, IInv, TxnsOK, CallOK
    <3> QED
      BY <2>1, <3>1 DEF LocksHeld, WaitsFor, LockedSteps
  <2> QED
    BY <2>1 DEF NoDeadlock, LocksHeld
<1> QED
  BY <1>1, <1>2, <1>3, Invariance, PTL DEF Spec

=============================================================================
