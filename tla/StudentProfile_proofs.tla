----------------------- MODULE StudentProfile_proofs -----------------------
(***************************************************************************)
(* Types and the transaction of PUT /profiles/me, for any number of calls, *)
(* names, lists, days, hours and slots.                                    *)
(***************************************************************************)
EXTENDS StudentProfile, TLAPS

\* What a call holds fits the statement it has reached.
StepsOK ==
    \A q \in Calls :
        /\ calls[q].step \in {"check", "find", "insert", "write"}
              => calls[q].values \in Slot
        /\ calls[q].step \in {"check", "find", "write", "delete"}
              => calls[q].slot \in Ids

\* The row of profiles has one owner at a time.
Alone == \A p, q \in Inside : p = q

\* What a transaction is going to delete is what it will find at its commit.
DeletesAll ==
    \A q \in Calls : calls[q].step = "commit" =>
        \A l \in Lists :
            calls[q].gone[l] = IF calls[q].given.lists[l] = None
                               THEN {} ELSE lists[l]

IInv == TypeOK /\ StepsOK /\ Alone /\ DeletesAll

\* What the steps need of the records.
USE BoundsAssumption DEF Lists

LEMMA IdleIsCall == Idle \in Call
BY DEF Idle, NoChange, Call, Given, Steps

LEMMA InitOK == Init => IInv
<1> SUFFICES ASSUME Init PROVE IInv
  OBVIOUS
<1>1. TypeOK
  BY IdleIsCall DEF Init, TypeOK
<1>2. StepsOK /\ Alone /\ DeletesAll
  BY DEF Init, StepsOK, Alone, Inside, DeletesAll, Idle
<1> QED
  BY <1>1, <1>2 DEF IInv

-----------------------------------------------------------------------------
(* Types *)

LEMMA BeginOK ==
  ASSUME TypeOK, NEW q \in Calls, NEW c \in Call, Begin(q, c)
  PROVE  calls' \in [Calls -> Call]
BY DEF Begin, TypeOK

LEMMA FinishOK ==
  ASSUME TypeOK, NEW q \in Calls, Finish(q)
  PROVE  calls' \in [Calls -> Call]
BY IdleIsCall DEF Finish, TypeOK

LEMMA WriteSlotsOK ==
  ASSUME TypeOK, NEW q \in Calls, NEW new \in [Ids -> Slot \cup {None}],
         WriteSlots(q, new)
  PROVE  /\ slots' \in [Ids -> Slot \cup {None}]
         /\ calls' \in [Calls -> Call]
<1>1. ASSUME NEW c \in Call PROVE [c EXCEPT !.raced = TRUE] \in Call
  BY DEF Call
<1> QED
  BY <1>1, IdleIsCall DEF WriteSlots, TypeOK

LEMMA SentOK ==
  /\ \A f \in Names \cup {None}, n \in Names : Sent(f, n) \in Names
  /\ \A f \in Offers \cup {None} : Sent(f, {}) \in SUBSET UNION Offers
BY DEF Sent

LEMMA TypesOfProfile ==
  ASSUME IInv, NEW q \in Calls,
         \/ \E given \in Given : UpdateProfile(q, given)
         \/ LockProfile(q) \/ RenameAccount(q) \/ ReplaceLists(q)
         \/ CommitProfile(q) \/ RollBack(q)
  PROVE  TypeOK'
<1> USE DEF IInv
<1>0. calls[q] \in Call
  BY DEF TypeOK
<1>1. ASSUME NEW given \in Given, UpdateProfile(q, given) PROVE TypeOK'
  <2>1. [Idle EXCEPT !.step = "lock", !.given = given] \in Call
    BY IdleIsCall DEF Call, Steps
  <2> QED
    BY <1>1, <2>1, BeginOK DEF UpdateProfile, TypeOK
<1>2. CASE LockProfile(q)
  <2>1. calls' = [calls EXCEPT ![q] = [calls[q] EXCEPT
                     !.step = IF calls[q].given.name = None
                              THEN "replace" ELSE "rename"]]
    BY <1>2 DEF LockProfile
  <2>2. [calls[q] EXCEPT !.step = IF calls[q].given.name = None
                                  THEN "replace" ELSE "rename"] \in Call
    BY <1>0 DEF Call, Steps
  <2> QED
    BY <1>2, <2>1, <2>2 DEF LockProfile, TypeOK
<1>3. CASE RenameAccount(q)
  <2>1. [calls[q] EXCEPT !.step = "replace"] \in Call
    BY <1>0 DEF Call, Steps
  <2> QED
    BY <1>3, <2>1 DEF RenameAccount, TypeOK
<1>4. CASE ReplaceLists(q)
  <2>1. [l \in Lists |-> IF calls[q].given.lists[l] = None
                         THEN {} ELSE lists[l]] \in [Lists -> SUBSET UNION Offers]
    BY DEF TypeOK
  <2>2. ASSUME NEW gone \in [Lists -> SUBSET UNION Offers]
        PROVE  [calls[q] EXCEPT !.step = "commit", !.gone = gone] \in Call
    BY <1>0 DEF Call, Steps
  <2> QED
    BY <1>4, <2>1, <2>2 DEF ReplaceLists, TypeOK
<1>5. CASE CommitProfile(q)
  <2>1. calls[q] \in Call /\ calls[q].given \in Given
    BY DEF TypeOK, Call
  <2>2. name' \in Names /\ account' \in Names
    BY <1>5, <2>1, SentOK DEF CommitProfile, TypeOK, Given
  <2>3. \A l \in Lists : (lists[l] \ calls[q].gone[l])
                            \cup Sent(calls[q].given.lists[l], {})
                         \in SUBSET UNION Offers
    BY <2>1, SentOK DEF TypeOK, Given
  <2>4. lists' \in [Lists -> SUBSET UNION Offers]
    BY <1>5, <2>3 DEF CommitProfile
  <2> QED
    BY <1>5, <2>2, <2>4, FinishOK DEF CommitProfile, TypeOK
<1>6. CASE RollBack(q)
  BY <1>6, FinishOK DEF RollBack, TypeOK
<1> QED
  BY <1>1, <1>2, <1>3, <1>4, <1>5, <1>6

LEMMA TypesOfAccount ==
  ASSUME IInv, NEW q \in Calls,
         AccountRead(q) \/ AccountSelect(q) \/ AccountSave(q)
  PROVE  TypeOK'
<1> USE DEF IInv
<1>1. CASE AccountRead(q)
  <2>1. [Idle EXCEPT !.step = "select", !.given.name = account] \in Call
    BY IdleIsCall DEF TypeOK, Call, Given, Steps
  <2> QED
    BY <1>1, <2>1, BeginOK DEF AccountRead, TypeOK
<1>2. CASE AccountSelect(q)
  <2>1. calls[q] \in Call
    BY DEF TypeOK
  <2>2. [calls[q] EXCEPT !.step = "save",
                         !.given.name = IF @ = account THEN None ELSE @] \in Call
    BY <2>1 DEF Call, Given, Steps
  <2> QED
    BY <1>2, <2>2 DEF AccountSelect, TypeOK
<1>3. CASE AccountSave(q)
  <2>1. calls[q].given.name \in Names \cup {None}
    BY DEF TypeOK, Call, Given
  <2> QED
    BY <1>3, <2>1, SentOK, FinishOK DEF AccountSave, TypeOK
<1> QED
  BY <1>1, <1>2, <1>3

LEMMA TypesOfSlots ==
  ASSUME IInv, NEW q \in Calls,
         \/ \E v \in Values : CreateCheck(q, v)
         \/ \E i \in Ids : CreateInsert(q, i) \/ DeleteRead(q, i)
         \/ \E i \in Ids, v \in Values : EditRead(q, i, v)
         \/ EditCheck(q) \/ EditFind(q) \/ EditWrite(q) \/ EditInsert(q)
         \/ SlotDelete(q)
  PROVE  TypeOK'
<1> USE DEF IInv
<1>0. calls[q] \in Call /\ slots \in [Ids -> Slot \cup {None}]
  BY DEF TypeOK
<1>1. ASSUME NEW v \in Values, CreateCheck(q, v) PROVE TypeOK'
  <2>1. [Idle EXCEPT !.step = "insert", !.values = v] \in Call
    BY IdleIsCall DEF Call, Steps
  <2> QED
    BY <1>1, <2>1, BeginOK DEF CreateCheck, TypeOK
<1>2. ASSUME NEW i \in Ids, CreateInsert(q, i) PROVE TypeOK'
  <2>1. calls[q].values \in Slot
    BY <1>2 DEF CreateInsert, Creating, StepsOK
  <2>2. [slots EXCEPT ![i] = calls[q].values] \in [Ids -> Slot \cup {None}]
    BY <1>0, <2>1
  <2> QED
    BY <1>2, <2>2, WriteSlotsOK DEF CreateInsert, TypeOK
<1>3. ASSUME NEW i \in Ids, DeleteRead(q, i) PROVE TypeOK'
  <2>1. [Idle EXCEPT !.step = "delete", !.slot = i] \in Call
    BY IdleIsCall DEF Call, Steps
  <2> QED
    BY <1>3, <2>1, BeginOK DEF DeleteRead, TypeOK
<1>4. ASSUME NEW i \in Ids, NEW v \in Values, EditRead(q, i, v) PROVE TypeOK'
  <2>1. [Idle EXCEPT !.step = "check", !.slot = i, !.values = v] \in Call
    BY IdleIsCall DEF Call, Steps
  <2> QED
    BY <1>4, <2>1, BeginOK DEF EditRead, TypeOK
<1>5. CASE EditCheck(q)
  <2>1. [calls[q] EXCEPT !.step = "find"] \in Call
    BY <1>0 DEF Call, Steps
  <2> QED
    BY <1>5, <2>1, IdleIsCall DEF EditCheck, TypeOK
<1>6. CASE EditFind(q)
  <2> DEFINE i == calls[q].slot
             found == [calls[q] EXCEPT
                          !.step = IF i \in Stored THEN "write" ELSE "insert",
                          !.redated = i \in Stored
                                      /\ calls[q].values.day # slots[i].day]
  <2>1. found \in Call
    BY <1>0 DEF Call, Steps
  <2>2. calls' = [calls EXCEPT ![q] = found]
    BY <1>6, <1>0 DEF EditFind, TypeOK
  <2> QED
    BY <1>6, <2>1, <2>2 DEF EditFind, TypeOK
<1>7. CASE EditWrite(q)
  <2> DEFINE i == calls[q].slot
             v == calls[q].values
             w == IF calls[q].redated THEN v ELSE [v EXCEPT !.day = slots[i].day]
  <2>1. v \in Slot /\ i \in Ids
    BY <1>7 DEF EditWrite, StepsOK
  <2>2. i \in Stored => w \in Slot
    BY <1>0, <2>1 DEF Stored, Slot, Values
  <2>3. (IF i \notin Stored THEN slots ELSE [slots EXCEPT ![i] = w])
           \in [Ids -> Slot \cup {None}]
    BY <1>0, <2>1, <2>2
  <2> QED
    BY <1>7, <2>3, WriteSlotsOK DEF EditWrite, TypeOK
<1>8. CASE EditInsert(q)
  <2> DEFINE i == calls[q].slot
  <2>1. calls[q].values \in Slot
    BY <1>8 DEF EditInsert, StepsOK
  <2>2. (IF i \in Stored THEN slots ELSE [slots EXCEPT ![i] = calls[q].values])
           \in [Ids -> Slot \cup {None}]
    BY <1>0, <2>1
  <2> QED
    BY <1>8, <2>2, WriteSlotsOK DEF EditInsert, TypeOK
<1>9. CASE SlotDelete(q)
  <2>1. [slots EXCEPT ![calls[q].slot] = None] \in [Ids -> Slot \cup {None}]
    BY <1>0
  <2> QED
    BY <1>9, <2>1, WriteSlotsOK DEF SlotDelete, TypeOK
<1> QED
  BY <1>1, <1>2, <1>3, <1>4, <1>5, <1>6, <1>7, <1>8, <1>9

-----------------------------------------------------------------------------
(* What calls hold *)

\* A step in which q alone moves, and not to a statement that needs more.
LEMMA OneCallMoves ==
  ASSUME IInv, NEW q \in Calls, TypeOK',
         \A p \in Calls \ {q} :
            /\ calls'[p].step = calls[p].step
            /\ calls'[p].values = calls[p].values
            /\ calls'[p].slot = calls[p].slot,
         calls'[q].step \in {"check", "find", "insert", "write"}
            => calls'[q].values \in Slot,
         calls'[q].step \in {"check", "find", "write", "delete"}
            => calls'[q].slot \in Ids
  PROVE  StepsOK'
BY DEF IInv, StepsOK

LEMMA WritersEnd ==
  ASSUME TypeOK, NEW q \in Calls, NEW new, WriteSlots(q, new)
  PROVE  /\ calls'[q] = Idle
         /\ \A p \in Calls \ {q} :
               /\ calls'[p].step = calls[p].step
               /\ calls'[p].values = calls[p].values
               /\ calls'[p].slot = calls[p].slot
               /\ calls'[p].given = calls[p].given
               /\ calls'[p].gone = calls[p].gone
<1>1. \A p \in Calls : calls[p] \in Call
  BY DEF TypeOK
<1>2. ASSUME NEW c \in Call
      PROVE  LET d == [c EXCEPT !.raced = TRUE]
             IN  /\ d.step = c.step /\ d.values = c.values /\ d.slot = c.slot
                 /\ d.given = c.given /\ d.gone = c.gone
  BY DEF Call
<1> QED
  BY <1>1, <1>2 DEF WriteSlots

\* A step of q that is not in the transaction of the profile.
LEMMA ProfileUntouched ==
  ASSUME IInv, NEW q \in Calls, UNCHANGED lists,
         \A p \in Calls \ {q} :
            /\ calls'[p].step = calls[p].step
            /\ calls'[p].given = calls[p].given
            /\ calls'[p].gone = calls[p].gone,
         calls'[q].step \notin {"rename", "replace", "commit"}
  PROVE  Alone' /\ DeletesAll'
BY DEF IInv, Alone, Inside, DeletesAll

LEMMA ProfileSteps ==
  ASSUME IInv, TypeOK', NEW q \in Calls,
         \/ \E given \in Given : UpdateProfile(q, given)
         \/ LockProfile(q) \/ RenameAccount(q) \/ ReplaceLists(q)
         \/ CommitProfile(q) \/ RollBack(q)
  PROVE  StepsOK' /\ Alone' /\ DeletesAll'
<1>0. /\ \A p \in Calls : calls[p] \in Call
      /\ calls \in [Calls -> Call]
  BY DEF IInv, TypeOK
<1>1. ASSUME NEW given \in Given, UpdateProfile(q, given)
      PROVE  StepsOK' /\ Alone' /\ DeletesAll'
  <2>1. calls'[q].step = "lock" /\ \A p \in Calls \ {q} : calls'[p] = calls[p]
    BY <1>0, <1>1 DEF UpdateProfile, Begin, Idle
  <2> QED
    BY <1>1, <2>1, OneCallMoves, ProfileUntouched DEF UpdateProfile
<1>2. CASE LockProfile(q)
  <2>1. /\ calls'[q].step \in {"rename", "replace"}
        /\ \A p \in Calls \ {q} : calls'[p] = calls[p]
    BY <1>0, <1>2 DEF LockProfile, Call
  <2>2. Alone'
    BY <1>2, <2>1 DEF LockProfile, ProfileFree, Alone, Inside
  <2>3. DeletesAll'
    BY <1>2, <2>1 DEF LockProfile, DeletesAll, IInv
  <2> QED
    BY <2>1, <2>2, <2>3, OneCallMoves
<1>3. CASE RenameAccount(q)
  <2>1. calls'[q].step = "replace" /\ \A p \in Calls \ {q} : calls'[p] = calls[p]
    BY <1>0, <1>3 DEF RenameAccount, Call
  <2>2. Alone'
    BY <1>3, <2>1 DEF RenameAccount, Alone, Inside, IInv
  <2>3. DeletesAll'
    BY <1>3, <2>1 DEF RenameAccount, DeletesAll, IInv
  <2> QED
    BY <2>1, <2>2, <2>3, OneCallMoves
<1>4. CASE ReplaceLists(q)
  <2>1. /\ calls'[q].step = "commit"
        /\ calls'[q].given = calls[q].given
        /\ calls'[q].gone = [l \in Lists |-> IF calls[q].given.lists[l] = None
                                             THEN {} ELSE lists[l]]
        /\ \A p \in Calls \ {q} : calls'[p] = calls[p]
    BY <1>0, <1>4 DEF ReplaceLists, Call
  <2>2. Alone'
    BY <1>4, <2>1 DEF ReplaceLists, Alone, Inside, IInv
  <2>3. DeletesAll'
    <3>1. lists' = lists /\ DeletesAll
      BY <1>4 DEF ReplaceLists, IInv
    <3>2. \A l \in Lists : calls'[q].gone[l] =
                IF calls'[q].given.lists[l] = None THEN {} ELSE lists'[l]
      BY <2>1, <3>1
    <3>3. ASSUME NEW p \in Calls \ {q}, calls'[p].step = "commit", NEW l \in Lists
          PROVE  calls'[p].gone[l] =
                    IF calls'[p].given.lists[l] = None THEN {} ELSE lists'[l]
      <4>1. calls'[p] = calls[p] /\ calls[p].step = "commit"
        BY <2>1, <3>3
      <4> QED
        BY <3>1, <3>3, <4>1 DEF DeletesAll
    <3> QED
      BY <3>2, <3>3 DEF DeletesAll
  <2> QED
    BY <2>1, <2>2, <2>3, OneCallMoves
<1>5. CASE CommitProfile(q)
  <2>1. calls'[q].step = "idle" /\ \A p \in Calls \ {q} : calls'[p] = calls[p]
    BY <1>0, <1>5 DEF CommitProfile, Finish, Idle
  <2>2. \A p \in Calls \ {q} : calls[p].step \notin {"rename", "replace", "commit"}
    BY <1>5 DEF CommitProfile, IInv, Alone, Inside
  <2>3. Alone' /\ DeletesAll'
    BY <2>1, <2>2 DEF Alone, Inside, DeletesAll
  <2> QED
    BY <2>1, <2>3, OneCallMoves
<1>6. CASE RollBack(q)
  <2>1. calls'[q].step = "idle" /\ \A p \in Calls \ {q} : calls'[p] = calls[p]
    BY <1>0, <1>6 DEF RollBack, Finish, Idle
  <2> QED
    BY <1>6, <2>1, OneCallMoves, ProfileUntouched DEF RollBack
<1> QED
  BY <1>1, <1>2, <1>3, <1>4, <1>5, <1>6

LEMMA AccountSteps ==
  ASSUME IInv, TypeOK', NEW q \in Calls,
         AccountRead(q) \/ AccountSelect(q) \/ AccountSave(q)
  PROVE  StepsOK' /\ Alone' /\ DeletesAll'
<1>1. /\ calls'[q].step \in {"select", "save", "idle"}
      /\ \A p \in Calls \ {q} : calls'[p] = calls[p]
  <2>1. calls \in [Calls -> Call] /\ calls[q] \in Call
    BY DEF IInv, TypeOK
  <2>2. CASE AccountRead(q)
    BY <2>1, <2>2 DEF AccountRead, Begin, Idle, NoChange
  <2>3. CASE AccountSelect(q)
    BY <2>1, <2>3 DEF AccountSelect, Call
  <2>4. CASE AccountSave(q)
    BY <2>1, <2>4 DEF AccountSave, Finish, Idle
  <2> QED
    BY <2>2, <2>3, <2>4
<1>2. UNCHANGED lists
  BY DEF AccountRead, AccountSelect, AccountSave
<1> QED
  BY <1>1, <1>2, OneCallMoves, ProfileUntouched

LEMMA SlotSteps ==
  ASSUME IInv, TypeOK', NEW q \in Calls,
         \/ \E v \in Values : CreateCheck(q, v)
         \/ \E i \in Ids : CreateInsert(q, i) \/ DeleteRead(q, i)
         \/ \E i \in Ids, v \in Values : EditRead(q, i, v)
         \/ EditCheck(q) \/ EditFind(q) \/ EditWrite(q) \/ EditInsert(q)
         \/ SlotDelete(q)
  PROVE  StepsOK' /\ Alone' /\ DeletesAll'
<1>0. /\ calls \in [Calls -> Call] /\ calls[q] \in Call
      /\ TypeOK
  BY DEF IInv, TypeOK
<1>1. ASSUME NEW v \in Values, CreateCheck(q, v)
      PROVE  StepsOK' /\ Alone' /\ DeletesAll'
  <2>1. v \in Slot
    BY <1>1 DEF CreateCheck, Valid, Slot
  <2>2. /\ calls'[q].step = "insert" /\ calls'[q].values = v
        /\ \A p \in Calls \ {q} : calls'[p] = calls[p]
    BY <1>0, <1>1 DEF CreateCheck, Begin, Idle
  <2> QED
    BY <1>1, <2>1, <2>2, OneCallMoves, ProfileUntouched DEF CreateCheck
<1>2. ASSUME NEW i \in Ids, DeleteRead(q, i)
      PROVE  StepsOK' /\ Alone' /\ DeletesAll'
  <2>1. /\ calls'[q].step = "delete" /\ calls'[q].slot = i
        /\ \A p \in Calls \ {q} : calls'[p] = calls[p]
    BY <1>0, <1>2 DEF DeleteRead, Begin, Idle
  <2> QED
    BY <1>2, <2>1, OneCallMoves, ProfileUntouched DEF DeleteRead
<1>3. ASSUME NEW i \in Ids, NEW v \in Values, EditRead(q, i, v)
      PROVE  StepsOK' /\ Alone' /\ DeletesAll'
  <2>1. v \in Slot
    BY <1>3 DEF EditRead, Valid, Slot
  <2>2. /\ calls'[q].step = "check" /\ calls'[q].slot = i /\ calls'[q].values = v
        /\ \A p \in Calls \ {q} : calls'[p] = calls[p]
    BY <1>0, <1>3 DEF EditRead, Begin, Idle
  <2> QED
    BY <1>3, <2>1, <2>2, OneCallMoves, ProfileUntouched DEF EditRead
<1>4. CASE EditCheck(q) \/ EditFind(q)
  <2>1. calls[q].values \in Slot /\ calls[q].slot \in Ids
    BY <1>4 DEF EditCheck, EditFind, IInv, StepsOK
  <2>2. /\ calls'[q].step \in {"idle", "find", "write", "insert"}
        /\ calls'[q].step # "idle" => /\ calls'[q].values = calls[q].values
                                      /\ calls'[q].slot = calls[q].slot
        /\ \A p \in Calls \ {q} : calls'[p] = calls[p]
    BY <1>0, <1>4 DEF EditCheck, EditFind, Idle, Call
  <2> QED
    BY <1>4, <2>1, <2>2, OneCallMoves, ProfileUntouched DEF EditCheck, EditFind
<1>5. ASSUME NEW new, WriteSlots(q, new), UNCHANGED lists
      PROVE  StepsOK' /\ Alone' /\ DeletesAll'
  BY <1>0, <1>5, WritersEnd, OneCallMoves, ProfileUntouched DEF Idle
<1>6. ASSUME NEW i \in Ids, CreateInsert(q, i)
      PROVE  StepsOK' /\ Alone' /\ DeletesAll'
  BY <1>5, <1>6 DEF CreateInsert
<1>7. CASE EditWrite(q) \/ EditInsert(q) \/ SlotDelete(q)
  BY <1>5, <1>7 DEF EditWrite, EditInsert, SlotDelete
<1> QED
  BY <1>1, <1>2, <1>3, <1>4, <1>6, <1>7

-----------------------------------------------------------------------------
(* The theorems *)

LEMMA StepKeepsIInv == IInv /\ [Next]_vars => IInv'
<1> SUFFICES ASSUME IInv, [Next]_vars PROVE IInv'
  OBVIOUS
<1>1. ASSUME NEW q \in Calls,
             \/ \E given \in Given : UpdateProfile(q, given)
             \/ LockProfile(q) \/ RenameAccount(q) \/ ReplaceLists(q)
             \/ CommitProfile(q) \/ RollBack(q)
      PROVE  IInv'
  BY <1>1, TypesOfProfile, ProfileSteps DEF IInv
<1>2. ASSUME NEW q \in Calls, AccountRead(q) \/ AccountSelect(q) \/ AccountSave(q)
      PROVE  IInv'
  BY <1>2, TypesOfAccount, AccountSteps DEF IInv
<1>3. ASSUME NEW q \in Calls,
             \/ \E v \in Values : CreateCheck(q, v)
             \/ \E i \in Ids : CreateInsert(q, i) \/ DeleteRead(q, i)
             \/ \E i \in Ids, v \in Values : EditRead(q, i, v)
             \/ EditCheck(q) \/ EditFind(q) \/ EditWrite(q) \/ EditInsert(q)
             \/ SlotDelete(q)
      PROVE  IInv'
  BY <1>3, TypesOfSlots, SlotSteps DEF IInv
<1>4. CASE UNCHANGED vars
  BY <1>4 DEF vars, IInv, TypeOK, StepsOK, Alone, Inside, DeletesAll
<1> QED
  BY <1>1, <1>2, <1>3, <1>4 DEF Next

\* Rows and calls keep their types in spite of interleaved edits: every slot
\* that is stored begins before it ends, at 22:00 at the latest.
THEOREM TypeCorrectness == Spec => []TypeOK
<1>1. IInv => TypeOK
  BY DEF IInv
<1> QED
  BY InitOK, StepKeepsIInv, <1>1, PTL DEF Spec

\* A profile is only changed by the commit of one request, whole, or by the
\* save of an account that was read under its former name.
THEOREM ProfileUnity == Spec => ProfileChangesTogether
<1> DEFINE shown == <<name, account, lists>>
<1>1. ASSUME IInv, NEW q \in Calls, CommitProfile(q)
      PROVE  /\ Ends(q, "commit")
             /\ LET given == calls[q].given
                IN  /\ name' = Sent(given.name, name)
                    /\ account' = Sent(given.name, account)
                    /\ \A l \in Lists :
                          lists'[l] = Sent(given.lists[l], lists[l])
  <2>1. Ends(q, "commit")
    BY <1>1 DEF CommitProfile, Finish, Ends, IInv, TypeOK
  <2>2. \A l \in Lists : lists'[l] = (lists[l] \ calls[q].gone[l])
                                        \cup Sent(calls[q].given.lists[l], {})
    BY <1>1 DEF CommitProfile
  <2>3. \A l \in Lists : calls[q].gone[l] =
                           IF calls[q].given.lists[l] = None THEN {} ELSE lists[l]
    BY <1>1 DEF CommitProfile, IInv, DeletesAll
  <2> QED
    BY <1>1, <2>1, <2>2, <2>3 DEF CommitProfile, Sent
<1>2. ASSUME IInv, NEW q \in Calls, AccountSave(q), shown' # shown
      PROVE  /\ Ends(q, "save")
             /\ account' # account
             /\ UNCHANGED <<name, lists>>
  BY <1>2 DEF AccountSave, Finish, Ends, IInv, TypeOK
<1>3. ASSUME IInv, [Next]_vars, shown' # shown
      PROVE  \E q \in Calls : CommitProfile(q) \/ AccountSave(q)
  BY <1>3 DEF Next, vars, UpdateProfile, LockProfile, RenameAccount, ReplaceLists,
              RollBack, AccountRead, AccountSelect, CreateCheck, CreateInsert,
              DeleteRead, EditRead, EditCheck, EditFind, EditWrite, EditInsert,
              SlotDelete
<1> DEFINE Change ==
      shown' # shown =>
         \E q \in Calls :
            \/ /\ Ends(q, "commit")
               /\ LET given == calls[q].given
                  IN  /\ name' = Sent(given.name, name)
                      /\ account' = Sent(given.name, account)
                      /\ \A l \in Lists :
                            lists'[l] = Sent(given.lists[l], lists[l])
            \/ /\ Ends(q, "save")
               /\ account' # account
               /\ UNCHANGED <<name, lists>>
<1>4. IInv /\ [Next]_vars => [Change]_vars
  BY <1>1, <1>2, <1>3
<1> QED
  BY InitOK, StepKeepsIInv, <1>4, PTL DEF Spec, ProfileChangesTogether

-----------------------------------------------------------------------------
(* Time slots that do not overlap *)

\* A call that nobody has overtaken: what its check has found is still so,
\* and the day it does not write is the day it asks for.
Checked(q) ==
    /\ SlotAvailable(calls[q].values, calls[q].slot)
    /\ calls[q].step = "write" /\ ~calls[q].redated =>
          LET i == calls[q].slot
          IN  i \in Stored => slots[i].day = calls[q].values.day

ChecksHold ==
    \A q \in Calls :
        calls[q].step \in {"insert", "find", "write"} /\ ~calls[q].raced
           => Checked(q)

RInv == IInv /\ ChecksHold

LEMMA ChecksKept ==
  ASSUME ChecksHold, NEW q \in Calls, UNCHANGED slots,
         \A p \in Calls \ {q} : calls'[p] = calls[p],
         calls'[q].step \in {"insert", "find", "write"} => Checked(q)'
  PROVE  ChecksHold'
<1>1. ASSUME NEW p \in Calls \ {q}, calls'[p].step \in {"insert", "find", "write"},
             ~calls'[p].raced
      PROVE  Checked(p)'
  <2>1. calls'[p] = calls[p] /\ Checked(p)
    BY <1>1 DEF ChecksHold
  <2> QED
    BY <2>1 DEF Checked, SlotAvailable, Stored
<1> QED
  BY <1>1 DEF ChecksHold

LEMMA WritesKeepChecks ==
  ASSUME TypeOK, ChecksHold, NEW q \in Calls, NEW new, WriteSlots(q, new)
  PROVE  ChecksHold'
<1>1. CASE new = slots
  <2>1. UNCHANGED slots /\ \A p \in Calls \ {q} : calls'[p] = calls[p]
    BY <1>1 DEF WriteSlots
  <2>2. calls'[q].step = "idle"
    BY DEF WriteSlots, Idle
  <2> QED
    BY <2>1, <2>2, ChecksKept
<1>2. CASE new # slots
  <2>1. ASSUME NEW p \in Calls, calls'[p].step \in {"insert", "find", "write"}
        PROVE  calls'[p].raced
    <3>1. p # q
      BY <2>1 DEF WriteSlots, Idle
    <3>2. calls[p] \in Call
      BY DEF TypeOK
    <3> QED
      BY <1>2, <2>1, <3>1, <3>2 DEF WriteSlots, Call
  <2> QED
    BY <2>1 DEF ChecksHold
<1> QED
  BY <1>1, <1>2

LEMMA StepKeepsChecks == RInv /\ [Next]_vars => ChecksHold'
<1> SUFFICES ASSUME RInv, [Next]_vars PROVE ChecksHold'
  OBVIOUS
<1>0. TypeOK /\ StepsOK /\ ChecksHold /\ calls \in [Calls -> Call]
  BY DEF RInv, IInv, TypeOK
<1>1. ASSUME NEW q \in Calls,
             \/ \E given \in Given : UpdateProfile(q, given)
             \/ LockProfile(q) \/ RenameAccount(q) \/ ReplaceLists(q)
             \/ CommitProfile(q) \/ RollBack(q) \/ AccountRead(q)
             \/ AccountSelect(q) \/ AccountSave(q)
             \/ \E i \in Ids : DeleteRead(q, i)
             \/ \E i \in Ids, v \in Values : EditRead(q, i, v)
      PROVE  ChecksHold'
  <2>1. calls[q] \in Call
    BY <1>0
  <2>2. \A p \in Calls \ {q} : calls'[p] = calls[p]
    BY <1>0, <1>1 DEF UpdateProfile, LockProfile, RenameAccount, ReplaceLists,
         CommitProfile, RollBack, AccountRead, AccountSelect, AccountSave,
         DeleteRead, EditRead, Begin, Finish
  <2>3. CASE LockProfile(q) \/ RenameAccount(q) \/ ReplaceLists(q)
    BY <1>0, <2>1, <2>2, <2>3, ChecksKept
       DEF LockProfile, RenameAccount, ReplaceLists, Call
  <2>4. CASE CommitProfile(q) \/ RollBack(q) \/ AccountSave(q)
    BY <1>0, <2>2, <2>4, ChecksKept
       DEF CommitProfile, RollBack, AccountSave, Finish, Idle
  <2>5. CASE AccountSelect(q)
    BY <1>0, <2>1, <2>2, <2>5, ChecksKept DEF AccountSelect, Call
  <2>6. ASSUME NEW given \in Given, UpdateProfile(q, given) PROVE ChecksHold'
    BY <1>0, <2>2, <2>6, ChecksKept DEF UpdateProfile, Begin, Idle
  <2>7. CASE AccountRead(q)
    BY <1>0, <2>2, <2>7, ChecksKept DEF AccountRead, Begin, Idle, NoChange
  <2>8. ASSUME NEW i \in Ids, DeleteRead(q, i) PROVE ChecksHold'
    BY <1>0, <2>2, <2>8, ChecksKept DEF DeleteRead, Begin, Idle
  <2>9. ASSUME NEW i \in Ids, NEW v \in Values, EditRead(q, i, v) PROVE ChecksHold'
    BY <1>0, <2>2, <2>9, ChecksKept DEF EditRead, Begin, Idle
  <2> QED
    BY <1>1, <2>3, <2>4, <2>5, <2>6, <2>7, <2>8, <2>9
<1>2. ASSUME NEW q \in Calls, NEW v \in Values, CreateCheck(q, v)
      PROVE  ChecksHold'
  <2>1. /\ UNCHANGED slots
        /\ calls'[q] = [Idle EXCEPT !.step = "insert", !.values = v]
        /\ \A p \in Calls \ {q} : calls'[p] = calls[p]
        /\ SlotAvailable(v, None)
    BY <1>0, <1>2 DEF CreateCheck, Begin
  <2>2. calls'[q].step = "insert" /\ calls'[q].values = v /\ calls'[q].slot = None
    BY <2>1 DEF Idle
  <2>3. Checked(q)'
    BY <2>1, <2>2 DEF Checked, SlotAvailable, Stored
  <2> QED
    BY <1>0, <2>1, <2>3, ChecksKept
<1>3. ASSUME NEW q \in Calls, EditCheck(q)
      PROVE  ChecksHold'
  <2>1. /\ UNCHANGED slots
        /\ \A p \in Calls \ {q} : calls'[p] = calls[p]
        /\ calls'[q].step \in {"idle", "find"}
        /\ calls'[q].step = "find" =>
              /\ calls'[q].values = calls[q].values
              /\ calls'[q].slot = calls[q].slot
              /\ SlotAvailable(calls[q].values, calls[q].slot)
    BY <1>0, <1>3 DEF EditCheck, Idle, Call
  <2>2. calls'[q].step = "find" => Checked(q)'
    BY <2>1 DEF Checked, SlotAvailable, Stored
  <2> QED
    BY <1>0, <2>1, <2>2, ChecksKept
<1>4. ASSUME NEW q \in Calls, EditFind(q)
      PROVE  ChecksHold'
  <2>1. /\ UNCHANGED slots
        /\ \A p \in Calls \ {q} : calls'[p] = calls[p]
        /\ calls[q].step = "find"
        /\ calls'[q].values = calls[q].values
        /\ calls'[q].slot = calls[q].slot
        /\ calls'[q].raced = calls[q].raced
        /\ calls'[q].redated =
              (/\ calls[q].slot \in Stored
               /\ calls[q].values.day # slots[calls[q].slot].day)
    BY <1>0, <1>4 DEF EditFind, Call
  <2>2. ~calls'[q].raced => Checked(q)'
    <3>1. SUFFICES ASSUME ~calls'[q].raced PROVE Checked(q)'
      OBVIOUS
    <3>2. Checked(q)
      BY <1>0, <2>1, <3>1 DEF ChecksHold
    <3>3. SlotAvailable(calls[q].values, calls[q].slot)'
      BY <2>1, <3>2 DEF Checked, SlotAvailable, Stored
    <3>4. ~calls'[q].redated /\ calls[q].slot \in Stored
             => slots[calls[q].slot].day = calls[q].values.day
      BY <2>1
    <3> QED
      BY <2>1, <3>3, <3>4 DEF Checked, Stored
  <2>3. ASSUME NEW p \in Calls \ {q}, calls'[p].step \in {"insert", "find", "write"},
               ~calls'[p].raced
        PROVE  Checked(p)'
    <3>1. calls'[p] = calls[p] /\ Checked(p)
      BY <1>0, <2>1, <2>3 DEF ChecksHold
    <3> QED
      BY <2>1, <3>1 DEF Checked, SlotAvailable, Stored
  <2> QED
    BY <2>2, <2>3 DEF ChecksHold
<1>5. ASSUME NEW q \in Calls,
             \/ \E i \in Ids : CreateInsert(q, i)
             \/ EditWrite(q) \/ EditInsert(q) \/ SlotDelete(q)
      PROVE  ChecksHold'
  BY <1>0, <1>5, WritesKeepChecks DEF CreateInsert, EditWrite, EditInsert, SlotDelete
<1>6. CASE UNCHANGED vars
  BY <1>0, <1>6 DEF vars, ChecksHold, Checked, SlotAvailable, Stored
<1> QED
  BY <1>1, <1>2, <1>3, <1>4, <1>5, <1>6 DEF Next

LEMMA OverlapsMeet ==
  ASSUME NEW u \in Slot, NEW v \in Slot
  PROVE  Overlap(u, v) \/ Overlap(v, u) => Meets(u, v)
BY DEF Overlap, Meets, Slot, Values

\* A writer that nobody has overtaken puts its slot where it meets no other.
LEMMA WriterAlone ==
  ASSUME RInv, NEW q \in Calls, ~calls[q].raced,
         \/ \E i \in Ids : CreateInsert(q, i)
         \/ EditWrite(q) \/ EditInsert(q)
  PROVE  \/ UNCHANGED slots
         \/ \E k \in Ids, v \in Slot :
               /\ slots' = [slots EXCEPT ![k] = v]
               /\ \A j \in Stored \ {k} : ~Meets(v, slots[j])
<1> DEFINE v == calls[q].values
<1>0. /\ slots \in [Ids -> Slot \cup {None}]
      /\ calls[q].step \in {"insert", "write"}
      /\ v \in Slot
      /\ Checked(q)
  BY DEF RInv, IInv, TypeOK, StepsOK, ChecksHold, CreateInsert, Creating,
         EditWrite, EditInsert
<1>1. ASSUME NEW i \in Ids, CreateInsert(q, i)
      PROVE  /\ slots' = [slots EXCEPT ![i] = v]
             /\ \A j \in Stored : ~Meets(v, slots[j])
  BY <1>0, <1>1 DEF CreateInsert, Creating, WriteSlots, Checked, SlotAvailable, Stored
<1> DEFINE i == calls[q].slot
<1>2. \A j \in Stored \ {i} : ~Meets(v, slots[j])
  BY <1>0 DEF Checked, SlotAvailable
<1>3. CASE EditInsert(q)
  <2>1. i \in Ids
    BY <1>3 DEF EditInsert, RInv, IInv, TypeOK, Call
  <2>2. UNCHANGED slots \/ slots' = [slots EXCEPT ![i] = v]
    BY <1>3 DEF EditInsert, WriteSlots
  <2> QED
    BY <1>0, <1>2, <2>1, <2>2
<1>4. CASE EditWrite(q)
  <2>1. i \in Ids /\ calls[q].step = "write"
    BY <1>4 DEF EditWrite, RInv, IInv, StepsOK
  <2>2. ASSUME i \in Stored, ~calls[q].redated
        PROVE  [v EXCEPT !.day = slots[i].day] = v
    <3>1. slots[i].day = v.day
      BY <1>0, <2>1, <2>2 DEF Checked
    <3> QED
      BY <1>0, <3>1 DEF Slot, Values
  <2>3. UNCHANGED slots \/ slots' = [slots EXCEPT ![i] = v]
    BY <1>4, <2>2 DEF EditWrite, WriteSlots
  <2> QED
    BY <1>0, <1>2, <2>1, <2>3
<1> QED
  BY <1>0, <1>1, <1>3, <1>4

\* Two slots come to overlap only by a call that another one has overtaken
\* between its check and its write: calls that do not race never leave an
\* overlap, however many there are.
THEOREM OverlapsNeedRaces == Spec => OnlyRacesOverlap
<1> DEFINE NoNewOverlap ==
      \A i, j \in Ids :
         i # j /\ Overlap(slots'[i], slots'[j]) /\ ~Overlap(slots[i], slots[j])
         => \E q \in Calls : calls[q].raced /\ calls'[q] = Idle
<1>1. Init => RInv
  BY InitOK DEF RInv, ChecksHold, Init, Idle
<1>2. RInv /\ [Next]_vars => RInv'
  BY StepKeepsIInv, StepKeepsChecks DEF RInv
<1>3. ASSUME RInv, NEW k \in Ids, NEW v \in Slot, slots' = [slots EXCEPT ![k] = v],
             \A j \in Stored \ {k} : ~Meets(v, slots[j]),
             NEW i \in Ids, NEW j \in Ids, i # j, Overlap(slots'[i], slots'[j])
      PROVE  Overlap(slots[i], slots[j])
  <2>1. /\ slots \in [Ids -> Slot \cup {None}]
        /\ slots'[k] = v
        /\ \A l \in Ids \ {k} : slots'[l] = slots[l]
    BY <1>3 DEF RInv, IInv, TypeOK
  <2>2. None \notin {slots'[i], slots'[j]}
    BY <1>3 DEF Overlap
  <2>3. i # k
    BY <1>3, <2>1, <2>2, OverlapsMeet DEF Stored
  <2>4. j # k
    BY <1>3, <2>1, <2>2, OverlapsMeet DEF Stored
  <2> QED
    BY <1>3, <2>1, <2>3, <2>4
<1>4. ASSUME RInv, NEW q \in Calls,
             \/ \E i \in Ids : CreateInsert(q, i)
             \/ EditWrite(q) \/ EditInsert(q)
      PROVE  NoNewOverlap
  <2>1. calls'[q] = Idle
    BY <1>4, WritersEnd DEF CreateInsert, EditWrite, EditInsert, RInv, IInv
  <2>2. CASE calls[q].raced
    BY <2>1, <2>2
  <2>3. CASE ~calls[q].raced
    BY <1>3, <1>4, <2>3, WriterAlone
  <2> QED
    BY <2>2, <2>3
<1>5. ASSUME RInv, NEW q \in Calls, SlotDelete(q)
      PROVE  NoNewOverlap
  <2>1. /\ slots \in [Ids -> Slot \cup {None}]
        /\ slots' = [slots EXCEPT ![calls[q].slot] = None]
    BY <1>5 DEF RInv, IInv, TypeOK, SlotDelete, WriteSlots
  <2>2. \A l \in Ids : slots'[l] \in {None, slots[l]}
    BY <2>1
  <2> QED
    BY <2>2 DEF Overlap
<1>6. ASSUME RInv, [Next]_vars,
             ~ \E q \in Calls : \/ \E i \in Ids : CreateInsert(q, i)
                               \/ EditWrite(q) \/ EditInsert(q) \/ SlotDelete(q)
      PROVE  UNCHANGED slots
  BY <1>6 DEF Next, vars, UpdateProfile, LockProfile, RenameAccount, ReplaceLists,
              CommitProfile, RollBack, AccountRead, AccountSelect, AccountSave,
              CreateCheck, DeleteRead, EditRead, EditCheck, EditFind
<1>7. RInv /\ [Next]_vars => [NoNewOverlap]_vars
  BY <1>4, <1>5, <1>6
<1> QED
  BY <1>1, <1>2, <1>7, PTL DEF Spec, OnlyRacesOverlap

=============================================================================
