--------------------------- MODULE GroupMembership ---------------------------
(***************************************************************************)
(* The membership transactions of group-messaging, as PostgreSQL runs them *)
(* under READ COMMITTED: every HTTP call is a transaction made of separate *)
(* statements, other transactions and account changes interleave between   *)
(* two statements, and only the row lock taken by lock() (SELECT ... FOR   *)
(* UPDATE on the group) keeps the group's rows still.                      *)
(*                                                                         *)
(* A transaction's reads are one step each; its writes become visible with *)
(* its commit, so the last statement(s) and the commit are one step. The   *)
(* process or its connection may be lost before that: PostgreSQL rolls     *)
(* back and frees the lock.                                                *)
(***************************************************************************)
EXTENDS Naturals, FiniteSets

CONSTANTS Users,       \* verified accounts
          Groups,      \* ids of the rows of "groups"
          Requests,    \* ids of the rows of "join_requests"
          Txns,        \* calls that can be in flight at once
          Capacities,  \* the max_capacity a group may be created with
          MaxUnavailable, \* bound: accounts suspended or deleted at once
          NoUser, NoGroup, NoRequest, NoTxn

ASSUME UsersAssumption == IsFiniteSet(Users) /\ NoUser \notin Users
ASSUME GroupsAssumption == NoGroup \notin Groups
ASSUME RequestsAssumption == NoRequest \notin Requests
ASSUME TxnsAssumption == NoTxn \notin Txns
ASSUME CapacitiesAssumption == Capacities \subseteq Nat \ {0}
ASSUME MaxUnavailableAssumption == MaxUnavailable \in Nat

VARIABLES account,   \* users.status of each verified account
          capacity,  \* groups.max_capacity, 0 while the row does not exist
          leader,    \* groups.leader_id (= admin_id), NoUser while no row
          member,    \* group_members.status, "none" while no row
          role,      \* group_members.role, "none" while no row
          request,   \* the rows of join_requests
          step,      \* the next statement of each transaction
          call,      \* the arguments of each transaction
          seen,      \* the leaderId that lock() returned to each transaction
          lock       \* the transaction that holds each group's row lock

rows == <<capacity, leader, member, role, request>>
vars == <<account, rows, step, call, seen, lock>>

Kinds == {"create", "join", "approved", "rejected", "left", "kicked", "transfer"}
Decisions == {"approved", "rejected"}
Removals == {"left", "kicked"}

\* Statements executed while the group's row lock is held.
LockedSteps == {"request", "account", "membership", "pending", "capacity",
                "actor", "target", "write"}
Steps == {"idle", "create", "resolve", "lock"} \cup LockedSteps

NoCall == [kind |-> "none", group |-> NoGroup, actor |-> NoUser,
           target |-> NoUser, request |-> NoRequest]

UnusedRow == [status |-> "unused", group |-> NoGroup, user |-> NoUser]

Init ==
  /\ account = [u \in Users |-> "active"]
  /\ capacity = [g \in Groups |-> 0]
  /\ leader = [g \in Groups |-> NoUser]
  /\ member = [g \in Groups |-> [u \in Users |-> "none"]]
  /\ role = [g \in Groups |-> [u \in Users |-> "none"]]
  /\ request = [r \in Requests |-> UnusedRow]
  /\ step = [t \in Txns |-> "idle"]
  /\ call = [t \in Txns |-> NoCall]
  /\ seen = [t \in Txns |-> NoUser]
  /\ lock = [g \in Groups |-> NoTxn]

-----------------------------------------------------------------------------
(* What the statements read. *)

Open(g) == leader[g] # NoUser
Available(u) == account[u] = "active"
Active(g) == {u \in Users : member[g][u] = "active"}
Pending(g, u) ==
  \E r \in Requests : request[r] = [status |-> "pending", group |-> g, user |-> u]

RequireMember(g, u) == member[g][u] = "active" /\ Available(u)
RequireCapacity(g) == Cardinality(Active(g)) < capacity[g]

-----------------------------------------------------------------------------
(* The transaction machinery. *)

\* Faulty variant: the row lock survives the transaction.
EndKeepsLock(t) ==
  /\ step' = [step EXCEPT ![t] = "idle"]
  /\ call' = [call EXCEPT ![t] = NoCall]
  /\ seen' = [seen EXCEPT ![t] = NoUser]
  /\ UNCHANGED lock

\* COMMIT or ROLLBACK: the call is over and its row lock, if any, is free.
End(t) ==
  /\ step' = [step EXCEPT ![t] = "idle"]
  /\ call' = [call EXCEPT ![t] = NoCall]
  /\ seen' = [seen EXCEPT ![t] = NoUser]
  /\ lock' = [g \in Groups |-> IF lock[g] = t THEN NoTxn ELSE lock[g]]

\* An exception thrown inside the transaction callback.
Rollback(t) == End(t) /\ UNCHANGED <<account, rows>>

\* One reading statement: go on if its check passes, throw otherwise.
Check(t, here, passes, next) ==
  /\ step[t] = here
  /\ IF passes
     THEN /\ step' = [step EXCEPT ![t] = next]
          /\ UNCHANGED <<account, rows, call, seen, lock>>
     ELSE Rollback(t)

\* The calls a student can make: the session gives the actor, the route and
\* the body the rest. The legacy route names a request and no group.
CallsOf(u) ==
  LET Make(k, g, v, r) == [kind |-> k, group |-> g, actor |-> u,
                           target |-> v, request |-> r]
  IN  {Make("create", NoGroup, u, NoRequest)}
        \cup {Make("join", g, u, NoRequest) : g \in Groups}
        \cup {Make(k, g, u, r) : k \in Decisions, g \in Groups \cup {NoGroup},
                                 r \in Requests}
        \cup {Make("left", g, u, NoRequest) : g \in Groups}
        \cup {Make(k, g, v, NoRequest) : k \in {"kicked", "transfer"},
                                         g \in Groups, v \in Users}

FirstStep(c) == IF c.kind = "create" THEN "create"
                ELSE IF c.group = NoGroup THEN "resolve" ELSE "lock"

\* Bound: the ids left for new rows cover the insertions already under way.
IdsLeft(c) ==
  LET InFlight(k) == Cardinality({t \in Txns : call[t].kind = k})
  IN  /\ c.kind = "create" =>
           InFlight("create") < Cardinality({g \in Groups : ~Open(g)})
      /\ c.kind = "join" =>
           InFlight("join") < Cardinality({r \in Requests : request[r].status = "unused"})

\* The session guard admits the actor's account, then the handler starts.
Begin(t, u, c) ==
  /\ step[t] = "idle"
  /\ Available(u)
  /\ IdsLeft(c)
  /\ step' = [step EXCEPT ![t] = FirstStep(c)]
  /\ call' = [call EXCEPT ![t] = c]
  /\ UNCHANGED <<account, rows, seen, lock>>

\* The row and the creator's membership are inserted together.
Create(t) ==
  /\ step[t] = "create"
  /\ \E g \in Groups, c \in Capacities :
       /\ ~Open(g)
       /\ capacity' = [capacity EXCEPT ![g] = c]
       /\ leader' = [leader EXCEPT ![g] = call[t].actor]
       /\ member' = [member EXCEPT ![g][call[t].actor] = "active"]
       /\ role' = [role EXCEPT ![g][call[t].actor] = "leader"]
  /\ End(t)
  /\ UNCHANGED <<account, request>>

\* decideLegacy reads the request's group, outside the transaction.
RequestGroup(t) ==
  LET row == request[call[t].request]
  IN  /\ step[t] = "resolve"
      /\ IF /\ row.status # "unused"
            /\ leader[row.group] = call[t].actor
         THEN /\ call' = [call EXCEPT ![t].group = row.group]
              /\ step' = [step EXCEPT ![t] = "lock"]
              /\ UNCHANGED <<account, rows, seen, lock>>
         ELSE Rollback(t)

AfterLock(k) ==
  IF k = "join" THEN "membership"
  ELSE IF k \in Decisions THEN "request" ELSE "actor"

\* Faulty variant: the group is read without FOR UPDATE.
LockWithoutWaiting(t) ==
  LET g == call[t].group
  IN  /\ step[t] = "lock"
      /\ Open(g)
      /\ lock' = [lock EXCEPT ![g] = t]
      /\ seen' = [seen EXCEPT ![t] = leader[g]]
      /\ step' = [step EXCEPT ![t] = AfterLock(call[t].kind)]
      /\ UNCHANGED <<account, rows, call>>

\* lock(): waits for the row lock and returns the row as it is once locked.
Lock(t) ==
  LET g == call[t].group
  IN  /\ step[t] = "lock"
      /\ Open(g)
      /\ lock[g] = NoTxn
      /\ lock' = [lock EXCEPT ![g] = t]
      /\ seen' = [seen EXCEPT ![t] = leader[g]]
      /\ step' = [step EXCEPT ![t] = AfterLock(call[t].kind)]
      /\ UNCHANGED <<account, rows, call>>

\* lock() finds no row.
LockNotFound(t) ==
  /\ step[t] = "lock"
  /\ ~Open(call[t].group)
  /\ Rollback(t)

-----------------------------------------------------------------------------
(* requestJoin and decide. *)

\* Faulty variants of ReadRequest: anybody decides; a resolved request is
\* decided again.
ReadRequestIf(t, passes) ==
  LET row == request[call[t].request]
  IN  /\ step[t] = "request"
      /\ IF passes
         THEN /\ call' = [call EXCEPT ![t].target = row.user]
              /\ step' = [step EXCEPT ![t] =
                            IF call[t].kind = "approved" THEN "account" ELSE "write"]
              /\ UNCHANGED <<account, rows, seen, lock>>
         ELSE Rollback(t)

ReadRequestByAnyone(t) ==
  ReadRequestIf(t, /\ request[call[t].request].group = call[t].group
                   /\ request[call[t].request].status = "pending")

ReadRequestResolved(t) ==
  ReadRequestIf(t, /\ seen[t] = call[t].actor
                   /\ request[call[t].request].group = call[t].group)

ReadRequest(t) ==
  LET row == request[call[t].request]
  IN  /\ step[t] = "request"
      /\ IF /\ seen[t] = call[t].actor
            /\ row.group = call[t].group
            /\ row.status = "pending"
         THEN /\ call' = [call EXCEPT ![t].target = row.user]
              /\ step' = [step EXCEPT ![t] =
                            IF call[t].kind = "approved" THEN "account" ELSE "write"]
              /\ UNCHANGED <<account, rows, seen, lock>>
         ELSE Rollback(t)

ReadApplicant(t) == Check(t, "account", Available(call[t].target), "membership")

\* Faulty variant: members may ask for a seat they already have.
ReadMembershipSkipped(t) ==
  Check(t, "membership", TRUE, IF call[t].kind = "join" THEN "pending" ELSE "capacity")

ReadMembership(t) ==
  Check(t, "membership", member[call[t].group][call[t].target] # "active",
        IF call[t].kind = "join" THEN "pending" ELSE "capacity")

ReadPending(t) ==
  Check(t, "pending", ~Pending(call[t].group, call[t].actor), "capacity")

CountMembers(t) == Check(t, "capacity", RequireCapacity(call[t].group), "write")

\* The index ux_join_requests_pending refuses a second pending row as well; the
\* lock, held since ReadPending, leaves it nothing to refuse.
InsertRequest(t) ==
  /\ step[t] = "write"
  /\ call[t].kind = "join"
  /\ \E r \in Requests :
       /\ request[r].status = "unused"
       /\ request' = [request EXCEPT ![r] = [status |-> "pending",
                                             group |-> call[t].group,
                                             user |-> call[t].actor]]
  /\ End(t)
  /\ UNCHANGED <<account, capacity, leader, member, role>>

\* The upsert of the membership and the update of the request.
Approve(t) ==
  LET c == call[t]
  IN  /\ step[t] = "write"
      /\ c.kind = "approved"
      /\ member' = [member EXCEPT ![c.group][c.target] = "active"]
      /\ role' = [role EXCEPT ![c.group][c.target] = "member"]
      /\ request' = [request EXCEPT ![c.request].status = "approved"]
      /\ End(t)
      /\ UNCHANGED <<account, capacity, leader>>

Reject(t) ==
  /\ step[t] = "write"
  /\ call[t].kind = "rejected"
  /\ request' = [request EXCEPT ![call[t].request].status = "rejected"]
  /\ End(t)
  /\ UNCHANGED <<account, capacity, leader, member, role>>

-----------------------------------------------------------------------------
(* removeMember and transfer. *)

\* The checks that need no row of the target: who acts, and on whom.
\* Faulty variant: any member kicks.
MayActKickOpen(c, leaderId) ==
  /\ c.kind = "transfer" => leaderId = c.actor /\ c.target # c.actor
  /\ c.kind = "left" => c.target = c.actor
  /\ c.kind \in Removals => c.target # leaderId

MayAct(c, leaderId) ==
  /\ c.kind \in {"transfer", "kicked"} => leaderId = c.actor
  /\ c.kind = "transfer" => c.target # c.actor
  /\ c.kind = "left" => c.target = c.actor
  /\ c.kind \in Removals => c.target # leaderId

ReadActor(t) ==
  Check(t, "actor",
        /\ RequireMember(call[t].group, call[t].actor)
        /\ MayAct(call[t], seen[t]),
        "target")

ReadTarget(t) ==
  Check(t, "target", RequireMember(call[t].group, call[t].target), "write")

\* Faulty variant: the reason of the removal ends up in the role column.
RemoveMemberWrongColumn(t) ==
  LET c == call[t]
  IN  /\ step[t] = "write"
      /\ c.kind \in Removals
      /\ role' = [role EXCEPT ![c.group][c.target] = c.kind]
      /\ End(t)
      /\ UNCHANGED <<account, capacity, leader, member, request>>

RemoveMember(t) ==
  LET c == call[t]
  IN  /\ step[t] = "write"
      /\ c.kind \in Removals
      /\ member' = [member EXCEPT ![c.group][c.target] = c.kind]
      /\ End(t)
      /\ UNCHANGED <<account, capacity, leader, role, request>>

\* Faulty variant: only the new leader's row is updated.
TransferKeepsRole(t) ==
  LET c == call[t]
  IN  /\ step[t] = "write"
      /\ c.kind = "transfer"
      /\ role' = [role EXCEPT ![c.group][c.target] = "leader"]
      /\ leader' = [leader EXCEPT ![c.group] = c.target]
      /\ End(t)
      /\ UNCHANGED <<account, capacity, member, request>>

\* Every active row gets its role again; groups.leader_id follows.
Transfer(t) ==
  LET c == call[t]
      NewRole(u) == IF member[c.group][u] # "active" THEN role[c.group][u]
                    ELSE IF u = c.target THEN "leader" ELSE "member"
  IN  /\ step[t] = "write"
      /\ c.kind = "transfer"
      /\ role' = [role EXCEPT ![c.group] = [u \in Users |-> NewRole(u)]]
      /\ leader' = [leader EXCEPT ![c.group] = c.target]
      /\ End(t)
      /\ UNCHANGED <<account, capacity, member, request>>

-----------------------------------------------------------------------------
(* The environment: administrators, account owners and lost connections. *)

\* changeUserStatus by an administrator and deleteAccount by the owner: one
\* update of the users row, which takes no group's lock.
Withdraw(u, to) ==
  /\ Available(u)
  /\ Cardinality({v \in Users : ~Available(v)}) < MaxUnavailable
  /\ account' = [account EXCEPT ![u] = to]
  /\ UNCHANGED <<rows, step, call, seen, lock>>

Suspend(u) == Withdraw(u, "suspended")
DeleteAccount(u) == Withdraw(u, "deleted")

Reactivate(u) ==
  /\ account[u] = "suspended"
  /\ account' = [account EXCEPT ![u] = "active"]
  /\ UNCHANGED <<rows, step, call, seen, lock>>

\* The connection is lost before COMMIT.
Crash(t) == step[t] # "idle" /\ Rollback(t)

-----------------------------------------------------------------------------

\* Everything transaction t does once its lock, if it needs one, is granted.
Statement(t) ==
  \/ Create(t)
  \/ RequestGroup(t)
  \/ LockNotFound(t)
  \/ ReadRequest(t)
  \/ ReadApplicant(t)
  \/ ReadMembership(t)
  \/ ReadPending(t)
  \/ CountMembers(t)
  \/ InsertRequest(t)
  \/ Approve(t)
  \/ Reject(t)
  \/ ReadActor(t)
  \/ ReadTarget(t)
  \/ RemoveMember(t)
  \/ Transfer(t)

Next ==
  \/ \E t \in Txns :
       \/ \E u \in Users : \E c \in CallsOf(u) : Begin(t, u, c)
       \/ Lock(t)
       \/ Statement(t)
       \/ Crash(t)
  \/ \E u \in Users : Suspend(u) \/ Reactivate(u) \/ DeleteAccount(u)

Spec == Init /\ [][Next]_vars

\* A statement whose turn has come is executed, and PostgreSQL queues the
\* waiters of a row lock, so none of them is passed over for ever. Students,
\* administrators and crashes owe nothing.
FairSpec ==
  /\ Spec
  /\ \A t \in Txns : WF_vars(Statement(t)) /\ SF_vars(Lock(t))

-----------------------------------------------------------------------------
(* Properties. *)

CallType == [kind : Kinds \cup {"none"}, group : Groups \cup {NoGroup},
             actor : Users \cup {NoUser}, target : Users \cup {NoUser},
             request : Requests \cup {NoRequest}]

RowType == [status : {"unused", "pending", "approved", "rejected"},
            group : Groups \cup {NoGroup}, user : Users \cup {NoUser}]

\* The types of the database rows and of the transactions' local state.
TypeOK ==
  /\ account \in [Users -> {"active", "suspended", "deleted"}]
  /\ capacity \in [Groups -> Capacities \cup {0}]
  /\ leader \in [Groups -> Users \cup {NoUser}]
  /\ member \in [Groups -> [Users -> {"none", "active", "left", "kicked"}]]
  /\ role \in [Groups -> [Users -> {"none", "member", "leader"}]]
  /\ request \in [Requests -> RowType]
  /\ step \in [Txns -> Steps]
  /\ call \in [Txns -> CallType]
  /\ seen \in [Txns -> Users \cup {NoUser}]
  /\ lock \in [Groups -> Txns \cup {NoTxn}]

\* Two approvals never take the last seat together ("sin permitir que dos
\* decisiones consuman el ultimo cupo"): a group's active members fit in it.
CapacityRespected == \A g \in Groups : Cardinality(Active(g)) <= capacity[g]

\* Whatever transfers, departures and kicks interleave, the leader named by
\* the group's row is an active member, and over all the membership rows,
\* those of former members included, the role "leader" is his alone.
OneSeatedLeader ==
  \A g \in Groups :
    /\ Open(g) => member[g][leader[g]] = "active"
    /\ \A u \in Users : role[g][u] = "leader" <=> u = leader[g]

\* A pending request belongs to somebody who is not an active member of its
\* group, and nobody has two pending requests for one group.
PendingAreOutsiders ==
  \A r \in Requests : request[r].status = "pending" =>
    /\ member[request[r].group][request[r].user] # "active"
    /\ \A q \in Requests : request[q] = request[r] => q = r

\* A student who was not an active member becomes one only as the founder of
\* the group or by the approval, by the group's leader of that moment, of a
\* pending request of that same student for that same group ("Un expulsado
\* puede solicitar nuevamente: necesita otra aprobacion del lider").
SeatNeedsApproval ==
  [][\A g \in Groups, u \in Users :
       member[g][u] # "active" /\ member'[g][u] = "active" =>
         \/ ~Open(g) /\ leader'[g] = u
         \/ \E r \in Requests, t \in Txns :
              /\ request[r] = [status |-> "pending", group |-> g, user |-> u]
              /\ request'[r].status = "approved"
              /\ step[t] = "write" /\ step'[t] = "idle"
              /\ call[t].actor = leader[g]]_vars

\* A decision is final, even when two of them race on one request: the row
\* of a resolved request never changes again.
DecisionsAreFinal ==
  [][\A r \in Requests :
       request[r].status \in Decisions => request'[r] = request[r]]_vars

\* Somebody stops being a member only by his own departure or because the
\* group's leader of that moment kicked him; the leader himself never does.
RemovalIsAuthorised ==
  [][\A g \in Groups, u \in Users :
       member[g][u] = "active" /\ member'[g][u] # "active" =>
         /\ u # leader[g]
         /\ \E t \in Txns :
              /\ step[t] = "write" /\ step'[t] = "idle"
              /\ call[t].actor = (IF member'[g][u] = "left" THEN u ELSE leader[g])]_vars

\* A call that waits for a group's lock gets its answer: no transaction
\* keeps the lock when it ends, and no two of them wait for each other.
EveryCallEnds == \A t \in Txns : step[t] = "lock" ~> step[t] = "idle"

\* The transactions implement the abstract study group.
Promise == INSTANCE StudyGroup WITH
             seated <- [g \in Groups |-> Active(g)],
             waiting <- [g \in Groups |-> {u \in Users : Pending(g, u)}]
ImplementsStudyGroup == Promise!Spec

=============================================================================
