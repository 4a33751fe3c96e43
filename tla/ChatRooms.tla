----------------------------- MODULE ChatRooms -----------------------------
(***************************************************************************)
(* The chat gateway and the presence registry, for the room of one group   *)
(* (the handlers treat every group's room by itself).                      *)
(*                                                                         *)
(* One Node.js process runs all handlers. A handler runs without           *)
(* interruption from one database call to the next; then any number of     *)
(* other handlers run before its continuation resumes with the answer.     *)
(* What PostgreSQL reads may have changed by then; it is taken to be read  *)
(* when it is asked for, since a change in between could as well have come *)
(* before. An await of something in memory (socket.join, socket.leave, the *)
(* validation of a DTO) resumes before any other handler runs.             *)
(***************************************************************************)
EXTENDS Naturals, FiniteSets

CONSTANTS Users, Sockets,
          Messages,   \* clientMessageIds, each user has his own
          Traffic,    \* bound: the kinds of handler that run, a subset of Kinds
          Calls,      \* handlers that can be in progress at once
          Sweeper,    \* the handler of the 10 s timer
          MaxTroubles, \* bound: database calls that fail, and sessions and
                       \* memberships lost or given back
          NoUser, NoSocket, NoMessage

Tasks == Calls \cup {Sweeper}

\* A message, or one more attempt to send it: its sender and clientMessageId.
Attempts == Users \X Messages

ASSUME SweeperAssumption == Sweeper \notin Calls
ASSUME NamesAssumption ==
  NoUser \notin Users /\ NoSocket \notin Sockets /\ NoMessage \notin Messages
ASSUME BoundAssumption == MaxTroubles \in Nat

VARIABLES member,    \* users with an active membership in the database
          removed,   \* users whose 'group.member_removed' is still to be handled
          session,   \* sockets whose token SessionService.validate accepts
          stored,    \* the Attempts with a row in group_messages
          owner,     \* the user of each socket, NoUser before it connects
          open,      \* connected sockets
          chat,      \* the memory of the process and what the clients were told
          task,      \* the handlers in progress
          announced, \* how many times chat:new_message was emitted
          outsiders, \* history: see Watch
          troubles   \* how many so far

database == <<member, session, stored>>
vars == <<database, removed, owner, open, chat, task, announced, outsiders, troubles>>

\* "act" stands for reactions and read markers, which end like a message.
Requests == {"join", "leave", "send", "typing", "act"}
Kinds == Requests \cup {"event", "sweep"}
ASSUME TrafficAssumption == Traffic \subseteq Kinds

Idle == [kind |-> "none", socket |-> NoSocket, msg |-> NoMessage, on |-> FALSE,
         stage |-> "idle", answer |-> "none", todo |-> {}, cur |-> NoSocket]

Init ==
  /\ member = Users
  /\ removed = {}
  /\ session = {} /\ owner = [s \in Sockets |-> NoUser] /\ open = {}
  /\ stored = {}
  /\ chat = [room |-> {},     \* sockets in the Socket.IO room
             present |-> {},  \* sockets registered in RoomPresence
             listed |-> {},   \* sockets whose socketGroups names the group
             typing |-> {},   \* sockets in the typing set of their user
             timers |-> {},   \* sockets with a 4.5 s timer
             view |-> [s \in Sockets |-> {}],  \* the last chat:presence received
             hears |-> [s \in Sockets |-> {}]] \* users last announced as typing
  /\ task = [t \in Tasks |-> Idle]
  /\ announced = [m \in Attempts |-> 0]
  /\ outsiders = [m \in Attempts |-> {}]
  /\ troubles = 0

-----------------------------------------------------------------------------
(* RoomPresence, and what is emitted to the room; c is a value of chat. *)

OwnersOf(ss) == {owner[s] : s \in ss}

\* Faulty variant: the registry lists tabs and not their users.
OnlineTabs(c) == c.present

Online(c) == OwnersOf(c.present)
IsTyping(c, u) == \E s \in c.typing : owner[s] = u

\* chat:presence, to everybody in the room.
PublishPresence(c) ==
  [c EXCEPT !.view = [s \in Sockets |-> IF s \in c.room THEN Online(c) ELSE @[s]]]

\* chat:typing about u, to everybody in the room.
EmitTyping(c, u) ==
  [c EXCEPT !.hears = [s \in Sockets |->
     IF s \notin c.room THEN @[s]
     ELSE IF IsTyping(c, u) THEN @[s] \cup {u} ELSE @[s] \ {u}]]

\* RoomPresence.leave for sockets of one user: his entry goes with his last
\* socket, and with it what is left of his typing set.
Unregister(c, ss, u) ==
  LET present == c.present \ ss
      gone == IF u \in OwnersOf(present) THEN ss ELSE {s \in Sockets : owner[s] = u}
  IN  [c EXCEPT !.present = present, !.typing = @ \ gone, !.timers = @ \ ss]

\* They are out of the room, and their clients forget what they were shown.
Out(c, ss) ==
  [c EXCEPT !.room = @ \ ss, !.listed = @ \ ss,
            !.view = [s \in Sockets |-> IF s \in ss THEN {} ELSE @[s]],
            !.hears = [s \in Sockets |-> IF s \in ss THEN {} ELSE @[s]]]

\* Faulty variant: the others are not told that he no longer types.
LeaveQuietly(c, ss, u) == PublishPresence(Out(Unregister(c, ss, u), ss))

\* Faulty variant: socketGroups goes on naming the room.
LeaveListed(c, ss, u) ==
  [PublishPresence(EmitTyping(Out(Unregister(c, ss, u), ss), u)) EXCEPT
     !.listed = c.listed]

\* leave(), and the deletion from socketGroups that follows it everywhere, for
\* some sockets of user u.
Leave(c, ss, u) ==
  PublishPresence(EmitTyping(Out(Unregister(c, ss, u), ss), u))

\* Faulty variant: only the one who joins is told who is online.
EnterQuietly(c, s) ==
  LET d == [c EXCEPT !.room = IF s \in open THEN @ \cup {s} ELSE @,
                     !.present = @ \cup {s}, !.listed = @ \cup {s}]
  IN  [d EXCEPT !.view[s] = Online(d)]

\* The end of joinRoom. socket.join does nothing once the socket is closed.
Enter(c, s) ==
  PublishPresence([c EXCEPT !.room = IF s \in open THEN @ \cup {s} ELSE @,
                            !.present = @ \cup {s}, !.listed = @ \cup {s}])

\* RoomPresence.type; only a change of the user's aggregate is announced.
Type(c, s, on) ==
  LET d == IF on THEN [c EXCEPT !.typing = @ \cup {s}, !.timers = @ \cup {s}]
           ELSE [c EXCEPT !.typing = @ \ {s}, !.timers = @ \ {s}]
  IN  IF owner[s] \notin Online(c) THEN c
      ELSE IF IsTyping(d, owner[s]) = IsTyping(c, owner[s]) THEN d
      ELSE EmitTyping(d, owner[s])

\* Faulty variant: handleDisconnect looks at the rooms, already empty.
CloseByRooms(c, s) ==
  LET d == [c EXCEPT !.room = @ \ {s}]
  IN  IF s \in d.room THEN Leave(d, {s}, owner[s]) ELSE d

\* Socket.IO empties the rooms, then handleDisconnect runs.
Close(c, s) ==
  LET d == [c EXCEPT !.room = @ \ {s}]
  IN  IF s \in c.listed THEN Leave(d, {s}, owner[s]) ELSE d

-----------------------------------------------------------------------------
(* Database calls, and how a handler ends. *)

\* Bound: one more failing call of the database, or one more change of a
\* session or a membership.
Trouble == troubles < MaxTroubles /\ troubles' = troubles + 1

\* Handler t asks the database something (k is its record) and waits for a.
Await(t, k, a) ==
  \/ task' = [task EXCEPT ![t] = [k EXCEPT !.answer = a]] /\ UNCHANGED troubles
  \/ task' = [task EXCEPT ![t] = [k EXCEPT !.answer = "error"]] /\ Trouble

\* What the handler with record k sends.
Attempt(k) == <<owner[k.socket], k.msg>>

YesNo(b) == IF b THEN "yes" ELSE "no"

\* GroupSession.validate of socket s.
AskSession(t, k, s) == Await(t, k, YesNo(s \in session))

\* requireMember of the user of socket s.
AskMember(t, k, s) == Await(t, k, YesNo(owner[s] \in member))

\* Faulty variant: a repeated message is announced again.
FinishAlways(t, c) ==
  LET k == task[t]
  IN  /\ task' = [task EXCEPT ![t] = Idle]
      /\ chat' = CASE k.kind = "join" -> Enter(c, k.socket)
                   [] k.kind = "typing" -> Type(c, k.socket, k.on)
                   [] OTHER -> c
      /\ announced' = IF k.kind = "send" THEN [announced EXCEPT ![Attempt(k)] = @ + 1]
                      ELSE announced
      /\ UNCHANGED troubles

\* What follows pruneRoom: join, typing, or the emission to the room.
Finish(t, c) ==
  LET k == task[t]
  IN  /\ task' = [task EXCEPT ![t] = Idle]
      /\ chat' = CASE k.kind = "join" -> Enter(c, k.socket)
                   [] k.kind = "typing" -> Type(c, k.socket, k.on)
                   [] OTHER -> c
      /\ announced' = IF k.kind = "send" /\ k.on
                      THEN [announced EXCEPT ![Attempt(k)] = @ + 1] ELSE announced
      /\ UNCHANGED troubles

\* pruneRoom looks at the next of the sockets it found in the room.
Prune(t, c, todo) ==
  IF todo \cap open = {} THEN Finish(t, c)
  ELSE /\ \E s \in todo \cap open :
            AskSession(t, [task[t] EXCEPT !.stage = "pruneSession", !.cur = s,
                                          !.todo = todo \ {s}], s)
       /\ chat' = c
       /\ UNCHANGED announced

\* Faulty variant: nobody in the room is checked.
StartPruneNobody(t, c) == Finish(t, c)

StartPrune(t, c) == Prune(t, c, c.room)

End(t) == task' = [task EXCEPT ![t] = Idle] /\ UNCHANGED <<chat, announced, troubles>>

-----------------------------------------------------------------------------
(* The event loop. *)

\* A packet of an open socket; execute() first validates the session.
Receive(t, s, kind, m, on) ==
  /\ task[t] = Idle
  /\ s \in open
  /\ m # NoMessage <=> kind = "send"
  /\ on => kind = "typing"
  /\ AskSession(t, [Idle EXCEPT !.kind = kind, !.socket = s, !.msg = m, !.on = on,
                                !.stage = "session"], s)
  /\ UNCHANGED <<database, removed, owner, open, chat, announced>>

\* The session is lost (401: disconnect(true) on the next turn of the loop) or
\* cannot be read; or the DTO is not valid, the socket sends more than 60
\* actions in 10 s, the repository refuses the request, or requireRoom, which
\* all but join and leave check before anything else, finds the room not open.
Refused(t) ==
  /\ task[t].stage = "session"
  /\ IF task[t].answer = "no"
     THEN /\ task' = [task EXCEPT ![t].stage = "hangup"]
          /\ UNCHANGED <<chat, announced, troubles>>
     ELSE End(t)
  /\ UNCHANGED <<database, removed, owner, open>>

Accepted(t, kinds) == /\ task[t].stage = "session" /\ task[t].answer = "yes"
                      /\ task[t].kind \in kinds

LeaveRoom(t) ==
  LET s == task[t].socket
  IN  /\ Accepted(t, {"leave"})
      /\ chat' = Leave(chat, {s}, owner[s])
      /\ task' = [task EXCEPT ![t] = Idle]
      /\ UNCHANGED <<database, removed, owner, open, announced, troubles>>

\* requireMember, also inside the transactions of reactions and read markers.
Authorise(t) ==
  LET k == task[t]
  IN  /\ Accepted(t, {"join", "typing", "act"})
      /\ k.kind = "join" \/ k.socket \in chat.room
      /\ AskMember(t, [k EXCEPT !.stage = "operation"], k.socket)
      /\ UNCHANGED <<database, removed, owner, open, chat, announced>>

\* MessagesRepository.insert: under the group's lock, the membership and the
\* clientMessageId of an earlier attempt are looked up before the INSERT; "on"
\* keeps whether the row is new. When the answer is an error the message may
\* be stored all the same: the COMMIT arrived, or it was the reading of the row
\* afterwards that failed.
Send(t) ==
  LET k == task[t]
      may == owner[k.socket] \in member
  IN  /\ Accepted(t, {"send"})
      /\ k.socket \in chat.room
      /\ Await(t, [k EXCEPT !.stage = "operation", !.on = Attempt(k) \notin stored], YesNo(may))
      /\ \/ may /\ stored' = stored \cup {Attempt(k)}
         \/ (may => task'[t].answer = "error") /\ UNCHANGED stored
      /\ UNCHANGED <<member, session, removed, owner, open, chat, announced>>

ResumeOperation(t) ==
  /\ task[t].stage = "operation"
  /\ IF task[t].answer = "yes" THEN StartPrune(t, chat) ELSE End(t)
  /\ UNCHANGED <<database, removed, owner, open>>

\* An error counts as a lost session or membership.
ResumePrune(t) ==
  LET k == task[t]
  IN  /\ k.stage \in {"pruneSession", "pruneMember"}
      /\ IF k.answer # "yes"
         THEN Prune(t, Leave(chat, {k.cur}, owner[k.cur]), k.todo)
         ELSE IF k.stage = "pruneMember" THEN Prune(t, chat, k.todo)
         ELSE /\ AskMember(t, [k EXCEPT !.stage = "pruneMember"], k.cur)
              /\ UNCHANGED <<chat, announced>>
      /\ UNCHANGED <<database, removed, owner, open>>

Hangup(t) ==
  LET s == task[t].socket
  IN  /\ task[t].stage = "hangup"
      /\ task' = [task EXCEPT ![t] = Idle]
      /\ open' = open \ {s}
      /\ chat' = IF s \in open THEN Close(chat, s) ELSE chat
      /\ UNCHANGED <<database, removed, owner, announced, troubles>>

\* hidden, visibilityChanged and changed: prune the room, then emit. What the
\* first two read before decides only whether they go on.
HandleEvent(t) ==
  /\ "event" \in Traffic
  /\ task[t] = Idle
  /\ \E s \in chat.room :
       AskSession(t, [Idle EXCEPT !.kind = "event", !.stage = "pruneSession",
                                  !.cur = s, !.todo = chat.room \ {s}], s)
  /\ UNCHANGED <<database, removed, owner, open, chat, announced>>

\* removeUser; all its awaits are in memory.
HandleRemoved(u) ==
  LET tabs == {s \in chat.room : owner[s] = u}
  IN  /\ u \in removed
      /\ removed' = removed \ {u}
      /\ chat' = IF tabs = {} THEN chat ELSE Leave(chat, tabs, u)
      /\ UNCHANGED <<database, owner, open, task, announced, troubles>>

\* RoomPresence's timer runs type() with FALSE.
TypingExpires(s) ==
  /\ s \in chat.timers
  /\ chat' = [Type(chat, s, FALSE) EXCEPT !.timers = @ \ {s}]
  /\ UNCHANGED <<database, removed, owner, open, task, announced, troubles>>

SweepNext(todo) ==
  \E s \in todo : AskSession(Sweeper, [Idle EXCEPT !.kind = "sweep", !.stage = "sweep",
                                                   !.cur = s, !.todo = todo \ {s}], s)

\* sweepSessions, unless one is in progress: every socket's session first.
StartSweep ==
  /\ "sweep" \in Traffic
  /\ task[Sweeper] = Idle
  /\ IF open # {} THEN SweepNext(open) ELSE UNCHANGED <<task, troubles>>
  /\ UNCHANGED <<database, removed, owner, open, chat, announced>>

\* Faulty variant: the rooms are not pruned at the end of the sweep.
PruneNone(c) == Finish(Sweeper, c)

\* After the last socket come the rooms that some socket is listed in.
PruneListed(c) ==
  IF c.listed = {} THEN Finish(Sweeper, c) ELSE StartPrune(Sweeper, c)

\* A socket whose session is lost, or cannot be read, is disconnected.
ResumeSweep ==
  LET k == task[Sweeper]
      closes == k.answer # "yes" /\ k.cur \in open
      c == IF closes THEN Close(chat, k.cur) ELSE chat
      left == IF closes THEN open \ {k.cur} ELSE open
  IN  /\ k.stage = "sweep"
      /\ open' = left
      /\ IF k.todo \cap left # {}
         THEN SweepNext(k.todo \cap left) /\ chat' = c /\ UNCHANGED announced
         ELSE PruneListed(c)
      /\ UNCHANGED <<database, removed, owner>>

-----------------------------------------------------------------------------
(* Clients and the other modules. *)

\* The handshake of a new socket with a valid session. A sweep in progress
\* iterates over the live Map of sockets, so it comes to the new one as well.
Connect(s, u) ==
  /\ owner[s] = NoUser
  /\ owner' = [owner EXCEPT ![s] = u]
  /\ session' = session \cup {s}
  /\ open' = open \cup {s}
  /\ task' = IF task[Sweeper].stage = "sweep"
             THEN [task EXCEPT ![Sweeper].todo = @ \cup {s}] ELSE task
  /\ UNCHANGED <<member, stored, removed, chat, announced, troubles>>

Disconnect(s) ==
  /\ s \in open
  /\ open' = open \ {s}
  /\ chat' = Close(chat, s)
  /\ UNCHANGED <<database, removed, owner, task, announced, troubles>>

\* Logout, expiry, a new password, a suspended or deleted account.
LoseSession(s) ==
  /\ s \in session /\ Trouble
  /\ session' = session \ {s}
  /\ UNCHANGED <<member, stored, removed, owner, open, chat, task, announced>>

\* removeMember has committed; its event follows.
LoseMembership(u) ==
  /\ u \in member /\ Trouble
  /\ member' = member \ {u}
  /\ removed' = removed \cup {u}
  /\ UNCHANGED <<session, stored, owner, open, chat, task, announced>>

Readmit(u) ==
  /\ u \notin member /\ Trouble
  /\ member' = member \cup {u}
  /\ UNCHANGED <<session, stored, removed, owner, open, chat, task, announced>>

-----------------------------------------------------------------------------

Resume(t) ==
  \/ Refused(t) \/ LeaveRoom(t) \/ Authorise(t) \/ Send(t)
  \/ ResumeOperation(t) \/ ResumePrune(t) \/ Hangup(t)
  \/ t = Sweeper /\ ResumeSweep

Environment ==
  \/ \E t \in Calls, s \in Sockets, kind \in Traffic \cap Requests :
       \E m \in Messages \cup {NoMessage}, on \in BOOLEAN : Receive(t, s, kind, m, on)
  \/ \E t \in Calls : HandleEvent(t)
  \/ \E s \in Sockets : Disconnect(s) \/ LoseSession(s) \/ \E u \in Users : Connect(s, u)
  \/ \E u \in Users : LoseMembership(u) \/ Readmit(u)

\* History: why a socket that sits in the room should not be there, and the
\* reasons that held when a message was stored and have held ever since.
Astray ==
  {<<s, "session">> : s \in chat.room \ session}
    \cup {<<s, "member">> : s \in {q \in chat.room : owner[q] \notin member}}
Watch ==
  outsiders' = [m \in Attempts |->
                  IF m \in stored THEN outsiders[m] \cap Astray'
                  ELSE IF m \in stored' THEN Astray ELSE {}]

Next ==
  /\ \/ \E t \in Tasks : Resume(t)
     \/ \E s \in Sockets : TypingExpires(s)
     \/ \E u \in Users : HandleRemoved(u)
     \/ StartSweep
     \/ Environment
  /\ Watch

Spec == Init /\ [][Next]_vars

\* PostgreSQL answers, the event loop resumes every handler, timers fire.
\* Clients, members and administrators owe nothing.
FairSpec ==
  /\ Spec
  /\ \A t \in Tasks : WF_vars(Resume(t) /\ Watch)
  /\ \A s \in Sockets : WF_vars(TypingExpires(s) /\ Watch)
  /\ \A u \in Users : WF_vars(HandleRemoved(u) /\ Watch)
  /\ WF_vars(StartSweep /\ Watch)

-----------------------------------------------------------------------------
(* Properties. *)

TaskType == [kind : Kinds \cup {"none"}, socket : Sockets \cup {NoSocket},
             msg : Messages \cup {NoMessage}, on : BOOLEAN,
             stage : {"idle", "session", "hangup", "operation", "pruneSession",
                      "pruneMember", "sweep"},
             answer : {"none", "yes", "no", "error"},
             todo : SUBSET Sockets, cur : Sockets \cup {NoSocket}]

ChatType == [room : SUBSET Sockets, present : SUBSET Sockets, listed : SUBSET Sockets,
             typing : SUBSET Sockets, timers : SUBSET Sockets,
             view : [Sockets -> SUBSET Users], hears : [Sockets -> SUBSET Users]]

\* The types of the rows, of the process's memory and of the handlers.
TypeOK ==
  /\ member \subseteq Users /\ removed \subseteq Users
  /\ session \subseteq Sockets /\ open \subseteq Sockets
  /\ stored \subseteq Attempts
  /\ owner \in [Sockets -> Users \cup {NoUser}]
  /\ chat \in ChatType
  /\ task \in [Tasks -> TaskType]
  /\ announced \in [Attempts -> Nat]
  /\ outsiders \in [Attempts -> SUBSET (Sockets \X {"session", "member"})]
  /\ troubles \in 0 .. MaxTroubles

\* Socket.IO's room, the presence registry and socketGroups are three records
\* of one fact, written by different handlers: for a connected socket they
\* agree, and nobody else is in the room.
RecordsAgree ==
  /\ chat.room \subseteq open
  /\ \A s \in open : /\ s \in chat.room <=> s \in chat.present
                     /\ s \in chat.room <=> s \in chat.listed

\* What a client in the room was last told of who is online and who is typing
\* is what the registry holds by now, and a timer runs for whoever types, so
\* nobody is left typing on its screen for ever. (Whether the registry is
\* right about who is online is OnlyLateJoinsLinger.)
ScreensAreCurrent ==
  \A s \in chat.room :
    /\ chat.view[s] = Online(chat)
    /\ \A u \in chat.hears[s] : \E q \in chat.typing \cap chat.timers : owner[q] = u

\* "mantiene online al usuario hasta que cierre su ultima pestana": a tab that
\* closes leaves the registry, whichever handler closes it. The registry comes
\* to hold a closed tab, a user who looks online until the server restarts, in
\* one way only: the tab closed while its own joinRoom was waiting.
Lingering == chat.present \ open
OnlyLateJoinsLinger ==
  [][\A s \in Lingering' \ Lingering :
       /\ s \notin open
       /\ \E t \in Tasks : task[t].kind = "join" /\ task[t].socket = s]_vars

\* "Sin mensajes fantasma", with retries and several tabs: what is announced
\* is stored, and no message is announced twice.
AnnouncedOnce ==
  \A m \in Attempts : announced[m] = 0 \/ (announced[m] = 1 /\ m \in stored)

\* "Antes de difundir contenido se vuelven a comprobar destinatarios": whoever
\* had already lost his session or membership when a message was stored, and
\* still sits in the room, is out of it when the message is announced.
OutsidersHearNothing ==
  [][\A m \in Attempts : announced'[m] # announced[m] =>
         \A s \in chat'.room, why \in {"session", "member"} : <<s, why>> \notin outsiders[m]]_vars

\* Somebody who lost his session or his membership does not stay in the room,
\* by whatever race he got there and though no event names him any more.
OutsidersLeave ==
  \A s \in Sockets, why \in {"session", "member"} :
    <<s, why>> \in Astray ~> <<s, why>> \notin Astray

=============================================================================
