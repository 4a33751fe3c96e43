----------------------------- MODULE StudyGroup -----------------------------
(***************************************************************************)
(* What a study group promises to its students, with no transactions, no   *)
(* locks and no accounts: a bounded set of seats, a leader who holds one   *)
(* of them, and a waiting list of people who are not seated.               *)
(* GroupMembership shows that the repository's SQL transactions implement  *)
(* this specification.                                                     *)
(***************************************************************************)
EXTENDS Naturals, FiniteSets

CONSTANTS Users, Groups, Capacities, NoUser

VARIABLES capacity,  \* seats of each group
          leader,    \* who leads it, NoUser while it does not exist
          seated,    \* its active members
          waiting    \* the students with a pending request

vars == <<capacity, leader, seated, waiting>>

Init ==
  /\ capacity = [g \in Groups |-> 0]
  /\ leader = [g \in Groups |-> NoUser]
  /\ seated = [g \in Groups |-> {}]
  /\ waiting = [g \in Groups |-> {}]

HasSeat(g) == Cardinality(seated[g]) < capacity[g]

Found(g, u, c) ==
  /\ leader[g] = NoUser
  /\ leader' = [leader EXCEPT ![g] = u]
  /\ capacity' = [capacity EXCEPT ![g] = c]
  /\ seated' = [seated EXCEPT ![g] = {u}]
  /\ UNCHANGED waiting

Ask(g, u) ==
  /\ leader[g] # NoUser
  /\ u \notin seated[g] \cup waiting[g]
  /\ HasSeat(g)
  /\ waiting' = [waiting EXCEPT ![g] = @ \cup {u}]
  /\ UNCHANGED <<capacity, leader, seated>>

Admit(g, u) ==
  /\ u \in waiting[g]
  /\ HasSeat(g)
  /\ seated' = [seated EXCEPT ![g] = @ \cup {u}]
  /\ waiting' = [waiting EXCEPT ![g] = @ \ {u}]
  /\ UNCHANGED <<capacity, leader>>

Refuse(g, u) ==
  /\ u \in waiting[g]
  /\ waiting' = [waiting EXCEPT ![g] = @ \ {u}]
  /\ UNCHANGED <<capacity, leader, seated>>

Depart(g, u) ==
  /\ u \in seated[g] \ {leader[g]}
  /\ seated' = [seated EXCEPT ![g] = @ \ {u}]
  /\ UNCHANGED <<capacity, leader, waiting>>

HandOver(g, u) ==
  /\ u \in seated[g] \ {leader[g]}
  /\ leader' = [leader EXCEPT ![g] = u]
  /\ UNCHANGED <<capacity, seated, waiting>>

Next ==
  \E g \in Groups, u \in Users :
    \/ \E c \in Capacities : Found(g, u, c)
    \/ Ask(g, u)
    \/ Admit(g, u)
    \/ Refuse(g, u)
    \/ Depart(g, u)
    \/ HandOver(g, u)

Spec == Init /\ [][Next]_vars

=============================================================================
