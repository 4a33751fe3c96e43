---------------------------- MODULE StudentProfile ----------------------------
(***************************************************************************)
(* The page of one student: the name, the skills and the interests that    *)
(* PUT /profiles/me replaces in one transaction over four tables, and the  *)
(* weekly time slots that are created, edited and deleted one by one.      *)
(*                                                                         *)
(* The student has several requests in progress (two tabs, a double click) *)
(* and each is cut at its statements.  Profile and slots are in different  *)
(* tables and share no call, so a behaviour follows one of them: "page".   *)
(* The name is in profiles and also in users, whose rows are saved whole   *)
(* by module AuthSessions; such saves take part here.                      *)
(***************************************************************************)
EXTENDS Integers, FiniteSets

CONSTANTS
    Pages,     \* parts of the page an instance looks at
    Calls,     \* requests served side by side
    Names,     \* names of the student
    Offers,    \* lists of skills or interests a request may bring
    Days,      \* days of the week
    Latest,    \* 22:00, the first hour being 0
    Ids,       \* bound: slots that exist or are being edited at one time
    None       \* a field that is not sent, a slot that does not exist

ASSUME BoundsAssumption ==
    /\ Latest \in Nat
    /\ Pages \subseteq {"profile", "slots"}
    /\ None \notin Names \cup Offers \cup Ids

VARIABLES
    page,      \* constant: the part of the page
    name,      \* profiles.name
    account,   \* users.name
    lists,     \* profile_skills and profile_interests
    slots,     \* availabilities
    calls      \* what each call holds and where it stands

vars == <<page, name, account, lists, slots, calls>>

-----------------------------------------------------------------------------
(* Rows and calls *)

Lists == {"skills", "interests"}

\* The hours the patterns of the DTO let through: 07:00-21:59 and 07:00-22:59.
Values == [day : Days, start : 0..Latest - 1, end : 0..Latest + 1]

\* Faulty variant: a slot may be empty.
ValidOrEmpty(v) == v.end <= Latest /\ v.start <= v.end

Valid(v) == v.end <= Latest /\ v.start < v.end

Slot == {v \in Values : v.start < v.end /\ v.end <= Latest}

Given == [name : Names \cup {None}, lists : [Lists -> Offers \cup {None}]]

NoChange == [name |-> None, lists |-> [l \in Lists |-> None]]

Idle == [step |-> "idle", given |-> NoChange, gone |-> [l \in Lists |-> {}],
         slot |-> None, values |-> None, redated |-> FALSE, raced |-> FALSE]

Steps == {"idle", "lock", "rename", "replace", "commit", "select", "save",
          "insert", "check", "find", "write", "delete"}

Call == [step : Steps, given : Given, gone : [Lists -> SUBSET UNION Offers],
         slot : Ids \cup {None}, values : Values \cup {None},
         redated : BOOLEAN, raced : BOOLEAN]

Begin(q, call) ==
    /\ calls[q] = Idle
    /\ calls' = [calls EXCEPT ![q] = call]

Finish(q) == calls' = [calls EXCEPT ![q] = Idle]

-----------------------------------------------------------------------------
(* PUT /profiles/me: UserProfileRepository.updateProfile *)

\* The DTO has been checked and the transaction is about to start.
UpdateProfile(q, given) ==
    /\ page = "profile"
    /\ Begin(q, [Idle EXCEPT !.step = "lock", !.given = given])
    /\ UNCHANGED <<page, name, account, lists, slots>>

\* Calls whose transaction holds the row of profiles.
Inside == {q \in Calls : calls[q].step \in {"rename", "replace", "commit"}}

\* Faulty variant: the row is not written, and so not locked, when only the
\* lists change.
ProfileFreeForLists(q) == calls[q].given.name = None \/ Inside = {}

\* UPDATE profiles is sent whatever the changes are (updated_at), so the
\* transactions of one student run one after the other.
ProfileFree(q) == Inside = {}

LockProfile(q) ==
    /\ calls[q].step = "lock"
    /\ ProfileFree(q)
    /\ calls' = [calls EXCEPT
                    ![q].step = IF calls[q].given.name = None
                                THEN "replace" ELSE "rename"]
    /\ UNCHANGED <<page, name, account, lists, slots>>

\* UPDATE users SET name: the row of users is locked until the end.
RenameAccount(q) ==
    /\ calls[q].step = "rename"
    /\ calls' = [calls EXCEPT ![q].step = "replace"]
    /\ UNCHANGED <<page, name, account, lists, slots>>

\* DELETE and INSERT of the lists that were sent: a DELETE removes the rows
\* that are committed when it runs.
ReplaceLists(q) ==
    /\ calls[q].step = "replace"
    /\ calls' = [calls EXCEPT
                    ![q].step = "commit",
                    ![q].gone = [l \in Lists |->
                                    IF calls[q].given.lists[l] = None
                                    THEN {} ELSE lists[l]]]
    /\ UNCHANGED <<page, name, account, lists, slots>>

Sent(field, old) == IF field = None THEN old ELSE field

CommitProfile(q) ==
    /\ calls[q].step = "commit"
    /\ LET given == calls[q].given
       IN  /\ name' = Sent(given.name, name)
           /\ account' = Sent(given.name, account)
           /\ lists' = [l \in Lists |->
                           (lists[l] \ calls[q].gone[l])
                              \cup Sent(given.lists[l], {})]
    /\ Finish(q)
    /\ UNCHANGED <<page, slots>>

\* A statement fails or the connection is lost: nothing has been written.
RollBack(q) ==
    /\ calls[q].step \in {"lock", "rename", "replace", "commit"}
    /\ Finish(q)
    /\ UNCHANGED <<page, name, account, lists, slots>>

-----------------------------------------------------------------------------
(* save() of the whole account by the services of auth-security *)

AccountRead(q) ==
    /\ page = "profile"
    /\ Begin(q, [Idle EXCEPT !.step = "select", !.given.name = account])
    /\ UNCHANGED <<page, name, account, lists, slots>>

\* The SELECT of save(): the name is only written when it differs from the
\* entity's.
AccountSelect(q) ==
    /\ calls[q].step = "select"
    /\ calls' = [calls EXCEPT
                    ![q].step = "save",
                    ![q].given.name = IF @ = account THEN None ELSE @]
    /\ UNCHANGED <<page, name, account, lists, slots>>

\* The UPDATE of save() waits for a transaction that has renamed the account.
AccountSave(q) ==
    /\ calls[q].step = "save"
    /\ \A p \in Calls :
          calls[p].step \in {"replace", "commit"} => calls[p].given.name = None
    /\ account' = Sent(calls[q].given.name, account)
    /\ Finish(q)
    /\ UNCHANGED <<page, name, lists, slots>>

-----------------------------------------------------------------------------
(* Time slots: UserProfileService *)

\* Faulty variant: only the hour a slot begins at is compared.
MeetsAtStart(v, s) == v.day = s.day /\ s.start <= v.start /\ v.start < s.end

\* "Las franjas contiguas no se consideran traslape"
Meets(v, s) == v.day = s.day /\ v.start < s.end /\ v.end > s.start

Stored == {i \in Ids : slots[i] # None}

\* The query of assertSlotAvailable, which asks for the slots of the day.
SlotAvailable(v, ignored) == \A i \in Stored \ {ignored} : ~Meets(v, slots[i])

\* A write of the table: calls that have looked at it have been overtaken.
WriteSlots(q, new) ==
    /\ slots' = new
    /\ calls' = [p \in Calls |->
                    IF p = q THEN Idle
                    ELSE IF new # slots /\ calls[p].step \in {"insert", "find", "write"}
                         THEN [calls[p] EXCEPT !.raced = TRUE] ELSE calls[p]]

\* Identifiers that a row or a call has.
Taken == Stored \cup {calls[q].slot : q \in Calls}

Creating == {q \in Calls : calls[q].step = "insert" /\ calls[q].slot = None}

\* (Bound: no more than Ids.)
CreateCheck(q, v) ==
    /\ page = "slots"
    /\ Cardinality((Taken \ {None}) \cup Creating) < Cardinality(Ids)
    /\ Valid(v)
    /\ SlotAvailable(v, None)
    /\ Begin(q, [Idle EXCEPT !.step = "insert", !.values = v])
    /\ UNCHANGED <<page, name, account, lists, slots>>

CreateInsert(q, i) ==
    /\ q \in Creating
    /\ i \notin Taken
    /\ WriteSlots(q, [slots EXCEPT ![i] = calls[q].values])
    /\ UNCHANGED <<page, name, account, lists>>

\* findOwnSlot of an edit, with what it asks for; a field that is not sent
\* keeps the value read here, which is one of the values asked for as well.
EditRead(q, i, v) ==
    /\ page = "slots"
    /\ i \in Stored
    /\ Valid(v)
    /\ Begin(q, [Idle EXCEPT !.step = "check", !.slot = i, !.values = v])
    /\ UNCHANGED <<page, name, account, lists, slots>>

EditCheck(q) ==
    /\ calls[q].step = "check"
    /\ calls' = [calls EXCEPT
                    ![q] = IF SlotAvailable(@.values, @.slot)
                           THEN [@ EXCEPT !.step = "find"] ELSE Idle]
    /\ UNCHANGED <<page, name, account, lists, slots>>

\* The SELECT of save(): no row means an INSERT ("values" of a new slot), and
\* the day is written when it differs.  The hours always are: HH:mm is never
\* equal to the HH:mm:ss of the column.
EditFind(q) ==
    /\ calls[q].step = "find"
    /\ LET i == calls[q].slot
       IN  calls' = [calls EXCEPT
                        ![q].step = IF i \in Stored THEN "write" ELSE "insert",
                        ![q].redated = i \in Stored
                                       /\ calls[q].values.day # slots[i].day]
    /\ UNCHANGED <<page, name, account, lists, slots>>

\* UPDATE ... WHERE id: a slot deleted since the SELECT stays deleted.
EditWrite(q) ==
    /\ calls[q].step = "write"
    /\ LET i == calls[q].slot
           v == calls[q].values
       IN  WriteSlots(q, IF i \notin Stored THEN slots
                         ELSE [slots EXCEPT ![i] =
                                 IF calls[q].redated THEN v
                                 ELSE [v EXCEPT !.day = slots[i].day]])
    /\ UNCHANGED <<page, name, account, lists>>

\* INSERT of an edited slot that was deleted before the SELECT; a second edit
\* of it fails on the primary key.
EditInsert(q) ==
    /\ calls[q].step = "insert"
    /\ calls[q].slot # None
    /\ LET i == calls[q].slot
       IN  WriteSlots(q, IF i \in Stored THEN slots
                         ELSE [slots EXCEPT ![i] = calls[q].values])
    /\ UNCHANGED <<page, name, account, lists>>

DeleteRead(q, i) ==
    /\ page = "slots"
    /\ i \in Stored
    /\ Begin(q, [Idle EXCEPT !.step = "delete", !.slot = i])
    /\ UNCHANGED <<page, name, account, lists, slots>>

SlotDelete(q) ==
    /\ calls[q].step = "delete"
    /\ WriteSlots(q, [slots EXCEPT ![calls[q].slot] = None])
    /\ UNCHANGED <<page, name, account, lists>>

-----------------------------------------------------------------------------

\* UsersRepository.createWithProfile
Init ==
    /\ page \in Pages
    /\ name \in Names
    /\ account = name
    /\ lists = [l \in Lists |-> {}]
    /\ slots = [i \in Ids |-> None]
    /\ calls = [q \in Calls |-> Idle]

Next ==
    \E q \in Calls :
        \/ \E given \in Given : UpdateProfile(q, given)
        \/ LockProfile(q) \/ RenameAccount(q) \/ ReplaceLists(q)
        \/ CommitProfile(q) \/ RollBack(q)
        \/ AccountRead(q) \/ AccountSelect(q) \/ AccountSave(q)
        \/ \E v \in Values : CreateCheck(q, v)
        \/ \E i \in Ids : CreateInsert(q, i) \/ DeleteRead(q, i)
        \/ \E i \in Ids, v \in Values : EditRead(q, i, v)
        \/ EditCheck(q) \/ EditFind(q) \/ EditWrite(q) \/ EditInsert(q)
        \/ SlotDelete(q)

Spec == Init /\ [][Next]_vars

-----------------------------------------------------------------------------
(* Properties *)

\* "La hora de inicio debe ser anterior a la hora de fin"
\* (user-profile.service.ts 145), and that one is 22:00 at the latest, in every
\* row that two interleaved edits may leave.
TypeOK ==
    /\ page \in Pages
    /\ {name, account} \subseteq Names
    /\ lists \in [Lists -> SUBSET UNION Offers]
    /\ slots \in [Ids -> Slot \cup {None}]
    /\ calls \in [Calls -> Call]

Ends(q, step) == calls[q].step = step /\ calls'[q] = Idle

\* "Unit of Work: perfil, nombre de la cuenta, habilidades e intereses cambian
\* juntos" (user-profile.repository.ts 84): what one request sends appears
\* whole and at once, and a list is never a mixture of two requests'.  The one
\* other change is the save of an account that was read under its former name.
ProfileChangesTogether ==
    [][<<name, account, lists>>' # <<name, account, lists>> =>
          \E q \in Calls :
              \/ /\ Ends(q, "commit")
                 /\ LET given == calls[q].given
                    IN  /\ name' = Sent(given.name, name)
                        /\ account' = Sent(given.name, account)
                        /\ \A l \in Lists :
                              lists'[l] = Sent(given.lists[l], lists[l])
              \/ /\ Ends(q, "save")
                 /\ account' # account
                 /\ UNCHANGED <<name, lists>>]_vars

\* Two slots that share an hour.
Overlap(u, v) ==
    /\ None \notin {u, v}
    /\ u.day = v.day
    /\ \E hour \in 0..Latest - 1 : \A w \in {u, v} :
          w.start <= hour /\ hour < w.end

\* "La franja horaria se cruza con otra que ya registraste ese día"
\* (user-profile.service.ts 156): two slots come to overlap only by a call
\* that another one overtook after its check; a call that ran alone never
\* leaves an overlap, whether it creates, moves or brings back a slot.
OnlyRacesOverlap ==
    [][\A i, j \in Ids :
          i # j /\ Overlap(slots'[i], slots'[j]) /\ ~Overlap(slots[i], slots[j])
          => \E q \in Calls : calls[q].raced /\ calls'[q] = Idle]_vars
=============================================================================
