----------------------- MODULE GroupRefinement_proofs -----------------------
(***************************************************************************)
(* The action properties of GroupMembership, and that its transactions     *)
(* implement StudyGroup, for every value of the constants. Everything      *)
(* follows from IInv: at the commit, what was read before is still true.   *)
(***************************************************************************)
EXTENDS GroupMembership_proofs

\* A step that is not a commit writes no row.
LEMMA OnlyCommitsWrite ==
  ASSUME [Next]_vars
  PROVE  \/ UNCHANGED rows
         \/ \E t \in Txns : \/ Create(t) \/ InsertRequest(t) \/ Approve(t)
                            \/ Reject(t) \/ RemoveMember(t) \/ Transfer(t)
<1>1. ASSUME NEW t \in Txns, NEW u \in Users, NEW c \in CallsOf(u), Begin(t, u, c)
      PROVE  UNCHANGED rows
  BY <1>1 DEF Begin
<1>2. ASSUME NEW t \in Txns, Lock(t) \/ Crash(t) \/ LockNotFound(t) \/ RequestGroup(t)
                               \/ ReadRequest(t)
      PROVE  UNCHANGED rows
  BY <1>2 DEF Lock, Crash, LockNotFound, RequestGroup, ReadRequest, Rollback
<1>3. ASSUME NEW t \in Txns, NEW here, NEW passes, NEW next, Check(t, here, passes, next)
      PROVE  UNCHANGED rows
  BY <1>3 DEF Check, Rollback
<1>4. ASSUME NEW t \in Txns, ReadApplicant(t) \/ ReadMembership(t) \/ ReadPending(t)
                               \/ CountMembers(t) \/ ReadActor(t) \/ ReadTarget(t)
      PROVE  UNCHANGED rows
  BY <1>3, <1>4 DEF ReadApplicant, ReadMembership, ReadPending, CountMembers,
                    ReadActor, ReadTarget
<1>5. ASSUME NEW u \in Users, Suspend(u) \/ Reactivate(u) \/ DeleteAccount(u)
      PROVE  UNCHANGED rows
  BY <1>5 DEF Suspend, Reactivate, DeleteAccount, Withdraw
<1>6. CASE UNCHANGED vars
  BY <1>6 DEF vars
<1> QED
  BY <1>1, <1>2, <1>4, <1>5, <1>6 DEF Next, Statement

-----------------------------------------------------------------------------
(* Each commit, as a change of one group. *)

LEMMA CommitEnds ==
  ASSUME TypeOK, NEW t \in Txns, End(t)
  PROVE  step'[t] = "idle"
  BY DEF End, TypeOK

LEMMA InsertRequestIs ==
  ASSUME IInv, NEW t \in Txns, InsertRequest(t)
  PROVE  \E g \in Groups, u \in Users, r \in Requests :
           /\ Open(g) /\ member[g][u] # "active" /\ ~Pending(g, u) /\ RequireCapacity(g)
           /\ request[r] = UnusedRow
           /\ request' = [request EXCEPT ![r] = [status |-> "pending", group |-> g, user |-> u]]
           /\ UNCHANGED <<capacity, leader, member, role>>
<1>1. PICK r \in Requests : /\ request[r].status = "unused"
                            /\ request' = [request EXCEPT ![r] =
                                 [status |-> "pending", group |-> call[t].group,
                                  user |-> call[t].actor]]
  BY DEF InsertRequest
<1>2. request[r] = UnusedRow
  BY <1>1 DEF IInv, RowsOK, RowOwners
<1> QED
  BY <1>1, <1>2, AtWrite DEF InsertRequest

LEMMA ApproveIs ==
  ASSUME IInv, NEW t \in Txns, Approve(t)
  PROVE  \E g \in Groups, u \in Users, r \in Requests :
           /\ step[t] = "write" /\ step'[t] = "idle"
           /\ Open(g) /\ member[g][u] # "active" /\ RequireCapacity(g)
           /\ call[t].actor = leader[g]
           /\ request[r] = [status |-> "pending", group |-> g, user |-> u]
           /\ request' = [request EXCEPT ![r].status = "approved"]
           /\ member' = [member EXCEPT ![g][u] = "active"]
           /\ UNCHANGED <<capacity, leader>>
<1>1. step'[t] = "idle"
  BY CommitEnds DEF Approve, IInv
<1> QED
  BY <1>1, AtWrite DEF Approve, Decisions

LEMMA RejectIs ==
  ASSUME IInv, NEW t \in Txns, Reject(t)
  PROVE  \E g \in Groups, u \in Users, r \in Requests :
           /\ request[r] = [status |-> "pending", group |-> g, user |-> u]
           /\ request' = [request EXCEPT ![r].status = "rejected"]
           /\ UNCHANGED <<capacity, leader, member, role>>
  BY AtWrite DEF Reject, Decisions

LEMMA RemoveMemberIs ==
  ASSUME IInv, NEW t \in Txns, RemoveMember(t)
  PROVE  \E g \in Groups, u \in Users :
           /\ step[t] = "write" /\ step'[t] = "idle"
           /\ u # leader[g] /\ member[g][u] = "active"
           /\ call[t].kind \in Removals
           /\ call[t].actor = (IF call[t].kind = "left" THEN u ELSE leader[g])
           /\ member' = [member EXCEPT ![g][u] = call[t].kind]
           /\ UNCHANGED <<capacity, leader, role, request>>
<1>1. step'[t] = "idle"
  BY CommitEnds DEF RemoveMember, IInv
<1> QED
  BY <1>1, AtWrite DEF RemoveMember, Removals, MayAct

LEMMA TransferIs ==
  ASSUME IInv, NEW t \in Txns, Transfer(t)
  PROVE  \E g \in Groups, u \in Users :
           /\ u # leader[g] /\ member[g][u] = "active"
           /\ leader' = [leader EXCEPT ![g] = u]
           /\ UNCHANGED <<capacity, member, request>>
  BY AtWrite DEF Transfer, MayAct

LEMMA CreateIs ==
  ASSUME IInv, NEW t \in Txns, Create(t)
  PROVE  \E g \in Groups, u \in Users, c \in Capacities :
           /\ ~Open(g)
           /\ \A v \in Users : member[g][v] = "none"
           /\ capacity' = [capacity EXCEPT ![g] = c]
           /\ leader' = [leader EXCEPT ![g] = u]
           /\ member' = [member EXCEPT ![g][u] = "active"]
           /\ UNCHANGED request
<1>1. call[t].actor \in Users
  BY DEF Create, IInv, TxnsOK, CallOK
<1> QED
  BY <1>1 DEF Create, IInv, RowsOK, NewGroupsEmpty

-----------------------------------------------------------------------------
(* Action properties. *)

LEMMA DecisionStep ==
  ASSUME IInv, [Next]_vars, NEW r \in Requests, request[r].status \in Decisions
  PROVE  request'[r] = request[r]
<1>1. ASSUME NEW t \in Txns, InsertRequest(t)
      PROVE  request'[r] = request[r]
  BY <1>1, InsertRequestIs DEF IInv, TypeOK, UnusedRow, Decisions
<1>2. ASSUME NEW t \in Txns, Approve(t)
      PROVE  request'[r] = request[r]
  <2>1. PICK h \in Groups, v \in Users, q \in Requests :
          /\ step[t] = "write" /\ step'[t] = "idle"
          /\ Open(h) /\ member[h][v] # "active" /\ RequireCapacity(h)
          /\ call[t].actor = leader[h]
          /\ request[q] = [status |-> "pending", group |-> h, user |-> v]
          /\ request' = [request EXCEPT ![q].status = "approved"]
          /\ member' = [member EXCEPT ![h][v] = "active"]
          /\ UNCHANGED <<capacity, leader>>
    BY <1>2, ApproveIs
  <2>2. q # r
    BY <2>1 DEF Decisions
  <2> QED
    BY <2>1, <2>2 DEF IInv, TypeOK
<1>3. ASSUME NEW t \in Txns, Reject(t)
      PROVE  request'[r] = request[r]
  <2>1. PICK h \in Groups, v \in Users, q \in Requests :
          /\ request[q] = [status |-> "pending", group |-> h, user |-> v]
          /\ request' = [request EXCEPT ![q].status = "rejected"]
          /\ UNCHANGED <<capacity, leader, member, role>>
    BY <1>3, RejectIs
  <2>2. q # r
    BY <2>1 DEF Decisions
  <2> QED
    BY <2>1, <2>2 DEF IInv, TypeOK
<1> QED
  BY <1>1, <1>2, <1>3, OnlyCommitsWrite
  DEF rows, Create, RemoveMember, Transfer

\* A resolved request never changes again, whoever else decides on it.
THEOREM DecisionFinality == Spec => DecisionsAreFinal
<1>1. IInv /\ [Next]_vars =>
        [\A r \in Requests :
           request[r].status \in Decisions => request'[r] = request[r]]_vars
  BY DecisionStep
<1> QED
  BY <1>1, Invariance, PTL DEF Spec, DecisionsAreFinal

LEMMA SeatStep ==
  ASSUME IInv, [Next]_vars, NEW g \in Groups, NEW u \in Users,
         member[g][u] # "active", member'[g][u] = "active"
  PROVE  \/ ~Open(g) /\ leader'[g] = u
         \/ \E r \in Requests, t \in Txns :
              /\ request[r] = [status |-> "pending", group |-> g, user |-> u]
              /\ request'[r].status = "approved"
              /\ step[t] = "write" /\ step'[t] = "idle"
              /\ call[t].actor = leader[g]
<1>1. member \in [Groups -> [Users -> {"none", "active", "left", "kicked"}]]
  BY DEF IInv, TypeOK
<1>2. ASSUME NEW t \in Txns, Create(t)
      PROVE  ~Open(g) /\ leader'[g] = u
  <2>1. PICK h \in Groups, v \in Users :
          /\ ~Open(h)
          /\ leader' = [leader EXCEPT ![h] = v]
          /\ member' = [member EXCEPT ![h][v] = "active"]
    BY <1>2, CreateIs
  <2>2. h = g /\ v = u
    BY <1>1, <2>1
  <2> QED
    BY <2>1, <2>2 DEF IInv, TypeOK
<1>3. ASSUME NEW t \in Txns, Approve(t)
      PROVE  \E r \in Requests :
               /\ request[r] = [status |-> "pending", group |-> g, user |-> u]
               /\ request'[r].status = "approved"
               /\ step[t] = "write" /\ step'[t] = "idle"
               /\ call[t].actor = leader[g]
  <2>1. PICK h \in Groups, v \in Users, r \in Requests :
          /\ step[t] = "write" /\ step'[t] = "idle"
          /\ Open(h) /\ member[h][v] # "active" /\ RequireCapacity(h)
          /\ call[t].actor = leader[h]
          /\ request[r] = [status |-> "pending", group |-> h, user |-> v]
          /\ request' = [request EXCEPT ![r].status = "approved"]
          /\ member' = [member EXCEPT ![h][v] = "active"]
          /\ UNCHANGED <<capacity, leader>>
    BY <1>3, ApproveIs
  <2>2. h = g /\ v = u
    BY <1>1, <2>1
  <2>3. request'[r].status = "approved"
    BY <2>1 DEF IInv, TypeOK, RowType
  <2> QED
    BY <2>1, <2>2, <2>3
<1>4. ASSUME NEW t \in Txns, RemoveMember(t)
      PROVE  FALSE
  <2>1. PICK h \in Groups, v \in Users :
          call[t].kind \in Removals /\ member' = [member EXCEPT ![h][v] = call[t].kind]
    BY <1>4, RemoveMemberIs
  <2> QED
    BY <1>1, <2>1 DEF Removals
<1> QED
  BY <1>2, <1>3, <1>4, OnlyCommitsWrite DEF rows, InsertRequest, Reject, Transfer

\* Nobody gets a seat but the founder and the students whose own pending
\* request the leader of that moment approves.
THEOREM SeatAuthority == Spec => SeatNeedsApproval
<1>1. IInv /\ [Next]_vars =>
        [\A g \in Groups, u \in Users :
           member[g][u] # "active" /\ member'[g][u] = "active" =>
             \/ ~Open(g) /\ leader'[g] = u
             \/ \E r \in Requests, t \in Txns :
                  /\ request[r] = [status |-> "pending", group |-> g, user |-> u]
                  /\ request'[r].status = "approved"
                  /\ step[t] = "write" /\ step'[t] = "idle"
                  /\ call[t].actor = leader[g]]_vars
  BY SeatStep
<1> QED
  BY <1>1, Invariance, PTL DEF Spec, SeatNeedsApproval

LEMMA RemovalStep ==
  ASSUME IInv, [Next]_vars, NEW g \in Groups, NEW u \in Users,
         member[g][u] = "active", member'[g][u] # "active"
  PROVE  /\ u # leader[g]
         /\ \E t \in Txns :
              /\ step[t] = "write" /\ step'[t] = "idle"
              /\ call[t].actor = (IF member'[g][u] = "left" THEN u ELSE leader[g])
<1>1. member \in [Groups -> [Users -> {"none", "active", "left", "kicked"}]]
  BY DEF IInv, TypeOK
<1>2. ASSUME NEW t \in Txns, Create(t) \/ Approve(t)
      PROVE  FALSE
  <2>1. CASE Create(t)
    <3>1. PICK h \in Groups, v \in Users, c \in Capacities :
            /\ ~Open(h)
            /\ \A w \in Users : member[h][w] = "none"
            /\ capacity' = [capacity EXCEPT ![h] = c]
            /\ leader' = [leader EXCEPT ![h] = v]
            /\ member' = [member EXCEPT ![h][v] = "active"]
            /\ UNCHANGED request
      BY <2>1, CreateIs
    <3> QED
      BY <1>1, <3>1
  <2>2. CASE Approve(t)
    <3>1. PICK h \in Groups, v \in Users, q \in Requests :
            /\ step[t] = "write" /\ step'[t] = "idle"
            /\ Open(h) /\ member[h][v] # "active" /\ RequireCapacity(h)
            /\ call[t].actor = leader[h]
            /\ request[q] = [status |-> "pending", group |-> h, user |-> v]
            /\ request' = [request EXCEPT ![q].status = "approved"]
            /\ member' = [member EXCEPT ![h][v] = "active"]
            /\ UNCHANGED <<capacity, leader>>
      BY <2>2, ApproveIs
    <3> QED
      BY <1>1, <3>1
  <2> QED
    BY <1>2, <2>1, <2>2
<1>3. PICK t \in Txns : RemoveMember(t)
  BY <1>2, OnlyCommitsWrite DEF rows, InsertRequest, Reject, Transfer
<1>4. PICK h \in Groups, v \in Users :
        /\ step[t] = "write" /\ step'[t] = "idle"
        /\ v # leader[h]
        /\ call[t].kind \in Removals
        /\ call[t].actor = (IF call[t].kind = "left" THEN v ELSE leader[h])
        /\ member' = [member EXCEPT ![h][v] = call[t].kind]
  BY <1>3, RemoveMemberIs
<1>5. h = g /\ v = u /\ member'[g][u] = call[t].kind
  BY <1>1, <1>4
<1> QED
  BY <1>4, <1>5

\* Only the member himself or the leader of that moment ends a membership,
\* and never the leader's.
THEOREM RemovalAuthority == Spec => RemovalIsAuthorised
<1>1. IInv /\ [Next]_vars =>
        [\A g \in Groups, u \in Users :
           member[g][u] = "active" /\ member'[g][u] # "active" =>
             /\ u # leader[g]
             /\ \E t \in Txns :
                  /\ step[t] = "write" /\ step'[t] = "idle"
                  /\ call[t].actor = (IF member'[g][u] = "left" THEN u ELSE leader[g])]_vars
  BY RemovalStep
<1> QED
  BY <1>1, Invariance, PTL DEF Spec, RemovalIsAuthorised

-----------------------------------------------------------------------------
(* Refinement. *)

Seated == [g \in Groups |-> Active(g)]
Waiting == [g \in Groups |-> {u \in Users : Pending(g, u)}]

LEMMA HasSeatIs ==
  ASSUME NEW g \in Groups, RequireCapacity(g)
  PROVE  Promise!HasSeat(g)
<1>1. [h \in Groups |-> Active(h)][g] = Active(g)
  OBVIOUS
<1> QED
  BY <1>1, Zenon DEF RequireCapacity, Promise!HasSeat, Cardinality, Promise!Cardinality

LEMMA InitRefines == Init => Promise!Init
<1> SUFFICES ASSUME Init PROVE Promise!Init
  OBVIOUS
<1>1. \A g \in Groups : Active(g) = {}
  BY DEF Init, Active
<1>2. \A g \in Groups : {u \in Users : Pending(g, u)} = {}
  BY DEF Init, Pending, UnusedRow
<1> QED
  BY <1>1, <1>2 DEF Init, Promise!Init

LEMMA StutterRefines ==
  ASSUME UNCHANGED rows
  PROVE  UNCHANGED Promise!vars
  BY DEF rows, Promise!vars, Active, Pending

LEMMA CreateRefines ==
  ASSUME IInv, NEW t \in Txns, Create(t)
  PROVE  Promise!Next
<1>1. PICK g \in Groups, u \in Users, c \in Capacities :
        /\ ~Open(g)
        /\ \A v \in Users : member[g][v] = "none"
        /\ capacity' = [capacity EXCEPT ![g] = c]
        /\ leader' = [leader EXCEPT ![g] = u]
        /\ member' = [member EXCEPT ![g][u] = "active"]
        /\ UNCHANGED request
  BY CreateIs
<1>2. Active(g)' = {u} /\ \A h \in Groups \ {g} : Active(h)' = Active(h)
  BY <1>1 DEF IInv, TypeOK, Active
<1>3. Seated' = [Seated EXCEPT ![g] = {u}] /\ Waiting' = Waiting
  BY <1>1, <1>2 DEF Seated, Waiting, Pending
<1>4. Promise!Found(g, u, c)
  BY <1>1, <1>3 DEF Promise!Found, Open, Seated, Waiting
<1> QED
  BY <1>4 DEF Promise!Next

LEMMA InsertRequestRefines ==
  ASSUME IInv, NEW t \in Txns, InsertRequest(t)
  PROVE  Promise!Next
<1>1. PICK g \in Groups, u \in Users, r \in Requests :
        /\ Open(g) /\ member[g][u] # "active" /\ ~Pending(g, u) /\ RequireCapacity(g)
        /\ request[r] = UnusedRow
        /\ request' = [request EXCEPT ![r] = [status |-> "pending", group |-> g, user |-> u]]
        /\ UNCHANGED <<capacity, leader, member, role>>
  BY InsertRequestIs
<1>2. \A h \in Groups, v \in Users :
        Pending(h, v)' <=> Pending(h, v) \/ (h = g /\ v = u)
  BY <1>1 DEF IInv, TypeOK, Pending, UnusedRow
<1>3. Waiting' = [Waiting EXCEPT ![g] = @ \cup {u}] /\ Seated' = Seated
  BY <1>1, <1>2 DEF Waiting, Seated, Active
<1>4. u \notin Active(g) /\ u \notin {v \in Users : Pending(g, v)}
  BY <1>1 DEF Active
<1>5. Promise!HasSeat(g)
  BY <1>1, HasSeatIs
<1>6. Promise!Ask(g, u)
  BY <1>1, <1>3, <1>4, <1>5 DEF Promise!Ask, Open, Seated, Waiting
<1> QED
  BY <1>6 DEF Promise!Next

\* Resolving a pending row takes its user, and nobody else, off the list.
LEMMA ResolvedLeaves ==
  ASSUME IInv, NEW g \in Groups, NEW u \in Users, NEW r \in Requests, NEW d \in Decisions,
         request[r] = [status |-> "pending", group |-> g, user |-> u],
         request' = [request EXCEPT ![r].status = d]
  PROVE  Pending(g, u) /\ Waiting' = [Waiting EXCEPT ![g] = @ \ {u}]
<1>1. request'[r].status = d /\ \A q \in Requests \ {r} : request'[q] = request[q]
  BY DEF IInv, TypeOK, RowType
<1>2. \A q \in Requests : request[q] = request[r] => q = r
  BY DEF IInv, RowsOK, PendingAreOutsiders
<1>3. request'[r].status # "pending"
  BY <1>1 DEF Decisions
<1>4. \A h \in Groups, v \in Users :
        Pending(h, v)' <=> Pending(h, v) /\ ~(h = g /\ v = u)
  <2>1. ASSUME NEW h \in Groups, NEW v \in Users, Pending(h, v)'
        PROVE  Pending(h, v) /\ ~(h = g /\ v = u)
    <3>1. PICK q \in Requests : request'[q] = [status |-> "pending", group |-> h, user |-> v]
      BY <2>1 DEF Pending
    <3>2. q # r /\ request[q] = request'[q]
      BY <1>1, <1>3, <3>1
    <3> QED
      BY <1>2, <3>1, <3>2 DEF Pending
  <2>2. ASSUME NEW h \in Groups, NEW v \in Users, Pending(h, v), ~(h = g /\ v = u)
        PROVE  Pending(h, v)'
    <3>1. PICK q \in Requests : request[q] = [status |-> "pending", group |-> h, user |-> v]
      BY <2>2 DEF Pending
    <3>2. q # r
      BY <2>2, <3>1
    <3> QED
      BY <1>1, <3>1, <3>2 DEF Pending
  <2> QED
    BY <2>1, <2>2
<1>5. Pending(g, u)
  BY DEF Pending
<1> QED
  BY <1>4, <1>5 DEF Waiting

LEMMA ApproveRefines ==
  ASSUME IInv, NEW t \in Txns, Approve(t)
  PROVE  Promise!Next
<1>1. PICK g \in Groups, u \in Users, r \in Requests :
        /\ step[t] = "write" /\ step'[t] = "idle"
        /\ Open(g) /\ member[g][u] # "active" /\ RequireCapacity(g)
        /\ call[t].actor = leader[g]
        /\ request[r] = [status |-> "pending", group |-> g, user |-> u]
        /\ request' = [request EXCEPT ![r].status = "approved"]
        /\ member' = [member EXCEPT ![g][u] = "active"]
        /\ UNCHANGED <<capacity, leader>>
  BY ApproveIs
<1>2. Pending(g, u) /\ Waiting' = [Waiting EXCEPT ![g] = @ \ {u}]
  BY <1>1, ResolvedLeaves DEF Decisions
<1>3. Active(g)' = Active(g) \cup {u} /\ \A h \in Groups \ {g} : Active(h)' = Active(h)
  BY <1>1 DEF IInv, TypeOK, Active
<1>4. Seated' = [Seated EXCEPT ![g] = @ \cup {u}]
  BY <1>3 DEF Seated
<1>5. Promise!HasSeat(g)
  BY <1>1, HasSeatIs
<1>6. Promise!Admit(g, u)
  BY <1>1, <1>2, <1>4, <1>5 DEF Promise!Admit, Seated, Waiting
<1> QED
  BY <1>6 DEF Promise!Next

LEMMA RejectRefines ==
  ASSUME IInv, NEW t \in Txns, Reject(t)
  PROVE  Promise!Next
<1>1. PICK g \in Groups, u \in Users, r \in Requests :
        /\ request[r] = [status |-> "pending", group |-> g, user |-> u]
        /\ request' = [request EXCEPT ![r].status = "rejected"]
        /\ UNCHANGED <<capacity, leader, member, role>>
  BY RejectIs
<1>2. Pending(g, u) /\ Waiting' = [Waiting EXCEPT ![g] = @ \ {u}]
  BY <1>1, ResolvedLeaves DEF Decisions
<1>3. Seated' = Seated
  BY <1>1 DEF Seated, Active
<1>4. Promise!Refuse(g, u)
  BY <1>1, <1>2, <1>3 DEF Promise!Refuse, Seated, Waiting
<1> QED
  BY <1>4 DEF Promise!Next

LEMMA RemoveMemberRefines ==
  ASSUME IInv, NEW t \in Txns, RemoveMember(t)
  PROVE  Promise!Next
<1>1. PICK g \in Groups, u \in Users :
        /\ step[t] = "write" /\ step'[t] = "idle"
        /\ u # leader[g] /\ member[g][u] = "active"
        /\ call[t].kind \in Removals
        /\ call[t].actor = (IF call[t].kind = "left" THEN u ELSE leader[g])
        /\ member' = [member EXCEPT ![g][u] = call[t].kind]
        /\ UNCHANGED <<capacity, leader, role, request>>
  BY RemoveMemberIs
<1>2. Active(g)' = Active(g) \ {u} /\ \A h \in Groups \ {g} : Active(h)' = Active(h)
  BY <1>1 DEF IInv, TypeOK, Active, Removals
<1>3. Seated' = [Seated EXCEPT ![g] = @ \ {u}] /\ Waiting' = Waiting
  BY <1>1, <1>2 DEF Seated, Waiting, Pending
<1>4. u \in Active(g)
  BY <1>1 DEF Active
<1>5. Promise!Depart(g, u)
  BY <1>1, <1>3, <1>4 DEF Promise!Depart, Seated, Waiting
<1> QED
  BY <1>5 DEF Promise!Next

LEMMA TransferRefines ==
  ASSUME IInv, NEW t \in Txns, Transfer(t)
  PROVE  Promise!Next
<1>1. PICK g \in Groups, u \in Users :
        /\ u # leader[g] /\ member[g][u] = "active"
        /\ leader' = [leader EXCEPT ![g] = u]
        /\ UNCHANGED <<capacity, member, request>>
  BY TransferIs
<1>2. Seated' = Seated /\ Waiting' = Waiting /\ u \in Active(g)
  BY <1>1 DEF Seated, Waiting, Active, Pending
<1>3. Promise!HandOver(g, u)
  BY <1>1, <1>2 DEF Promise!HandOver, Seated, Waiting
<1> QED
  BY <1>3 DEF Promise!Next

\* Every behaviour of the transactions is one of the abstract study group.
THEOREM Refinement == Spec => ImplementsStudyGroup
<1>1. IInv /\ [Next]_vars => [Promise!Next]_(Promise!vars)
  BY OnlyCommitsWrite, StutterRefines, CreateRefines, InsertRequestRefines,
     ApproveRefines, RejectRefines, RemoveMemberRefines, TransferRefines
<1> QED
  BY <1>1, InitRefines, Invariance, PTL DEF Spec, ImplementsStudyGroup, Promise!Spec

=============================================================================
