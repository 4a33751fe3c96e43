-------------------------- MODULE ChatRooms_proofs --------------------------
(***************************************************************************)
(* The records of the room agree, the screens are current, a closed tab    *)
(* stays registered only by joining late, a message is announced once and  *)
(* nobody hears what he should not, for any number of users, sockets,      *)
(* messages and handlers in progress.                                      *)
(***************************************************************************)
EXTENDS ChatRooms, TLAPS

\* Sockets that somebody has connected with; their owner never changes.
Owned == {s \in Sockets : owner[s] \in Users}

\* The memory c of the process, when o are the connected sockets.
MemoryOK(c, o) ==
  /\ c \in ChatType
  /\ c.room \cup c.present \cup c.listed \cup c.typing \subseteq Owned
  /\ c.room \subseteq o
  /\ \A s \in o : /\ s \in c.room <=> s \in c.present
                  /\ s \in c.room <=> s \in c.listed
  /\ \A s \in c.room : c.view[s] = Online(c) /\ \A u \in c.hears[s] : IsTyping(c, u)
  /\ \A s \in Sockets \ c.room : c.hears[s] = {}
  /\ \A s \in c.typing : s \in c.timers /\ owner[s] \in Online(c)

Pruning == {"pruneSession", "pruneMember"}

\* A handler remembers sockets that somebody owns.
HandlerOK(k) ==
  /\ k.kind \in Requests => k.socket \in Owned
  /\ k.kind = "send" => k.msg \in Messages
  /\ k.on /\ k.stage \in {"session", "hangup"} => k.kind = "typing"
  /\ k.stage \in {"session", "hangup", "operation"} => k.kind \in Requests
  /\ k.stage \in Pruning \cup {"sweep"} => k.cur \in Owned
  /\ k.stage = "sweep" => k.kind = "sweep"
  /\ k.todo \subseteq Owned

\* The handler has stored a new message and will announce it.
Announcing(k) ==
  /\ k.kind = "send" /\ k.on
  /\ \/ k.stage \in Pruning
     \/ k.stage = "operation" /\ k.answer = "yes"

\* Only the handler that stored a message announces it, and only once.
MessagesOK ==
  /\ AnnouncedOnce
  /\ \A t \in Tasks : Announcing(task[t]) =>
       Attempt(task[t]) \in stored /\ announced[Attempt(task[t])] = 0
  /\ \A t, r \in Tasks :
       Announcing(task[t]) /\ Announcing(task[r]) /\ t # r =>
         Attempt(task[t]) # Attempt(task[r])

\* The pruning in progress has still to come to s, or has found out by now
\* why it should not be in the room.
Catches(k, s, why) ==
  \/ k.stage = "operation"
  \/ k.stage \in Pruning /\ s \in k.todo
  \/ k.stage = "pruneSession" /\ s = k.cur /\ (why = "session" => k.answer # "yes")
  \/ k.stage = "pruneMember" /\ s = k.cur /\ why = "member" /\ k.answer # "yes"

\* Outsiders are astray still, and the handler that will announce catches them.
OutsidersOK ==
  /\ \A m \in Attempts : outsiders[m] \subseteq Astray
  /\ \A m \in Attempts \ stored : outsiders[m] = {}
  /\ \A t \in Tasks, s \in Sockets, why \in {"session", "member"} :
       Announcing(task[t]) /\ <<s, why>> \in outsiders[Attempt(task[t])] =>
         Catches(task[t], s, why)

\* The inductive invariant.
IInv == /\ TypeOK /\ MemoryOK(chat, open) /\ open \subseteq Owned
        /\ \A t \in Tasks : HandlerOK(task[t])
        /\ MessagesOK /\ OutsidersOK

USE SweeperAssumption, NamesAssumption, BoundAssumption, TrafficAssumption

-----------------------------------------------------------------------------
(* The operations of the registry, field by field *)

\* d is c without the sockets ss of u.
Unregistered(c, ss, u, d) ==
  /\ d \in ChatType
  /\ d.room = c.room /\ d.listed = c.listed
  /\ d.view = c.view /\ d.hears = c.hears
  /\ d.present = c.present \ ss /\ d.timers = c.timers \ ss
  /\ d.typing \subseteq c.typing \ ss
  /\ \A s \in c.typing : owner[s] # u => s \in d.typing
  /\ \A s \in d.typing : owner[s] = u => u \in OwnersOf(d.present)

LEMMA UnregisterFields ==
  ASSUME NEW c \in ChatType, NEW ss \in SUBSET Sockets, NEW u,
         \A s \in ss : owner[s] = u
  PROVE  Unregistered(c, ss, u, Unregister(c, ss, u))
<1> DEFINE gone == IF u \in OwnersOf(c.present \ ss) THEN ss
                   ELSE {s \in Sockets : owner[s] = u}
           first == [c EXCEPT !.present = c.present \ ss]
           second == [first EXCEPT !.typing = @ \ gone]
<1>1. Unregister(c, ss, u) = [second EXCEPT !.timers = @ \ ss]
  BY DEF Unregister
<1> HIDE DEF gone
<1>2. /\ first \in ChatType /\ first.present = c.present \ ss /\ first.room = c.room
      /\ first.listed = c.listed /\ first.view = c.view /\ first.hears = c.hears
      /\ first.typing = c.typing /\ first.timers = c.timers
  BY DEF ChatType
<1> HIDE DEF first
<1>3. /\ second \in ChatType /\ second.present = c.present \ ss /\ second.room = c.room
      /\ second.listed = c.listed /\ second.view = c.view /\ second.hears = c.hears
      /\ second.typing = c.typing \ gone /\ second.timers = c.timers
  BY <1>2 DEF ChatType
<1> HIDE DEF second
<1>4. LET d == Unregister(c, ss, u)
      IN  /\ d \in ChatType
          /\ d.room = c.room /\ d.listed = c.listed
          /\ d.view = c.view /\ d.hears = c.hears
          /\ d.present = c.present \ ss /\ d.timers = c.timers \ ss
          /\ d.typing = c.typing \ gone
  BY <1>1, <1>3 DEF ChatType
<1>5. c.typing \subseteq Sockets
  BY DEF ChatType
<1>6. /\ c.typing \ gone \subseteq c.typing \ ss
      /\ \A s \in c.typing : owner[s] # u => s \in c.typing \ gone
      /\ \A s \in c.typing \ gone : owner[s] = u => u \in OwnersOf(c.present \ ss)
  BY <1>5 DEF gone
<1> HIDE DEF gone
<1> QED
  BY <1>4, <1>6 DEF Unregistered

LEMMA OutFields ==
  ASSUME NEW c \in ChatType, NEW ss \in SUBSET Sockets
  PROVE  LET d == Out(c, ss)
         IN  /\ d \in ChatType
             /\ d.room = c.room \ ss /\ d.listed = c.listed \ ss
             /\ \A s \in Sockets : d.hears[s] = IF s \in ss THEN {} ELSE c.hears[s]
             /\ d.present = c.present /\ d.typing = c.typing /\ d.timers = c.timers
<1> DEFINE first == [c EXCEPT !.room = c.room \ ss]
           second == [first EXCEPT !.listed = c.listed \ ss]
           third == [second EXCEPT !.view = [s \in Sockets |-> IF s \in ss THEN {}
                                                               ELSE c.view[s]]]
<1>1. Out(c, ss) = [third EXCEPT !.hears = [s \in Sockets |-> IF s \in ss THEN {}
                                                              ELSE c.hears[s]]]
  BY DEF Out, ChatType
<1>2. /\ first \in ChatType /\ first.room = c.room \ ss
      /\ first.present = c.present /\ first.typing = c.typing
      /\ first.timers = c.timers
  BY DEF ChatType
<1> HIDE DEF first
<1>3. /\ second \in ChatType /\ second.room = c.room \ ss
      /\ second.listed = c.listed \ ss /\ second.present = c.present
      /\ second.typing = c.typing /\ second.timers = c.timers
  BY <1>2 DEF ChatType
<1> HIDE DEF second
<1>4. /\ third \in ChatType /\ third.room = c.room \ ss
      /\ third.listed = c.listed \ ss /\ third.present = c.present
      /\ third.typing = c.typing /\ third.timers = c.timers
  <2>1. [s \in Sockets |-> IF s \in ss THEN {} ELSE c.view[s]] \in [Sockets -> SUBSET Users]
    BY DEF ChatType
  <2> QED
    BY <1>3, <2>1 DEF ChatType
<1> HIDE DEF third
<1>5. [s \in Sockets |-> IF s \in ss THEN {} ELSE c.hears[s]] \in [Sockets -> SUBSET Users]
  BY DEF ChatType
<1> QED
  BY <1>1, <1>4, <1>5 DEF ChatType

\* d is c after the room has been told whether u is typing.
EmittedTyping(c, u, d) ==
  /\ d \in ChatType
  /\ d.room = c.room /\ d.listed = c.listed /\ d.present = c.present
  /\ d.typing = c.typing /\ d.timers = c.timers /\ d.view = c.view
  /\ \A s \in Sockets :
       d.hears[s] = IF s \notin c.room THEN c.hears[s]
                    ELSE IF IsTyping(c, u) THEN c.hears[s] \cup {u}
                    ELSE c.hears[s] \ {u}

LEMMA EmitTypingFields ==
  ASSUME NEW c \in ChatType, NEW u \in Users
  PROVE  EmittedTyping(c, u, EmitTyping(c, u))
<1> DEFINE hears == [s \in Sockets |->
                       IF s \notin c.room THEN c.hears[s]
                       ELSE IF IsTyping(c, u) THEN c.hears[s] \cup {u}
                       ELSE c.hears[s] \ {u}]
<1>1. EmitTyping(c, u) = [c EXCEPT !.hears = hears]
  BY DEF EmitTyping, ChatType
<1>2. hears \in [Sockets -> SUBSET Users]
  BY DEF ChatType
<1> HIDE DEF hears
<1>3. LET d == EmitTyping(c, u)
      IN  /\ d \in ChatType /\ d.hears = hears
          /\ d.room = c.room /\ d.listed = c.listed /\ d.present = c.present
          /\ d.typing = c.typing /\ d.timers = c.timers /\ d.view = c.view
  BY <1>1, <1>2 DEF ChatType
<1> QED
  BY <1>3 DEF hears, EmittedTyping

LEMMA PublishFields ==
  ASSUME NEW c \in ChatType, Online(c) \subseteq Users
  PROVE  LET d == PublishPresence(c)
         IN  /\ d \in ChatType
             /\ d.room = c.room /\ d.listed = c.listed /\ d.present = c.present
             /\ d.typing = c.typing /\ d.timers = c.timers /\ d.hears = c.hears
             /\ \A s \in c.room : d.view[s] = Online(c)
<1> DEFINE view == [s \in Sockets |-> IF s \in c.room THEN Online(c) ELSE c.view[s]]
<1>1. PublishPresence(c) = [c EXCEPT !.view = view]
  BY DEF PublishPresence, ChatType
<1>2. view \in [Sockets -> SUBSET Users] /\ \A s \in c.room : view[s] = Online(c)
  BY DEF ChatType
<1> HIDE DEF view
<1> QED
  BY <1>1, <1>2 DEF ChatType

-----------------------------------------------------------------------------
(* The operations of the registry keep its records together *)

LEMMA OnlineUsers ==
  ASSUME NEW ss, ss \subseteq Owned
  PROVE  OwnersOf(ss) \subseteq Users
BY DEF OwnersOf, Owned

\* MemoryOK(c, o), but the sockets ss, which are about to leave, may have heard
\* something and be out of the room already.
MemoryBut(c, o, ss) ==
  /\ c \in ChatType
  /\ c.room \cup c.present \cup c.listed \cup c.typing \subseteq Owned
  /\ c.room \subseteq o
  /\ \A s \in o : /\ s \in c.room <=> s \in c.present
                  /\ s \in c.room <=> s \in c.listed
  /\ \A s \in c.room : c.view[s] = Online(c) /\ \A u \in c.hears[s] : IsTyping(c, u)
  /\ \A s \in Sockets \ (c.room \cup ss) : c.hears[s] = {}
  /\ \A s \in c.typing : s \in c.timers /\ owner[s] \in Online(c)

\* ss are tabs of u.
TabsOf(ss, u) == ss \subseteq Sockets /\ \A s \in ss : owner[s] = u

\* g is the memory after ss have left.
LeftOK(c, ss, o, g) == MemoryOK(g, o) /\ g.room = c.room \ ss

LEMMA LeaveButOK ==
  ASSUME NEW o \in SUBSET Sockets, NEW c, NEW u \in Users,
         NEW ss, MemoryBut(c, o, ss), TabsOf(ss, u)
  PROVE  LeftOK(c, ss, o, Leave(c, ss, u))
<1> USE DEF TabsOf, LeftOK
<1> DEFINE d == Unregister(c, ss, u)
           e == Out(d, ss)
           f == EmitTyping(e, u)
           g == PublishPresence(f)
<1>0. /\ Leave(c, ss, u) = g /\ c \in ChatType
      /\ c.hears \in [Sockets -> SUBSET Users] /\ c.room \subseteq Sockets
      /\ c.typing \subseteq Sockets /\ c.present \subseteq Sockets
  BY DEF Leave, MemoryBut, ChatType
<1>1. /\ d \in ChatType /\ d.room = c.room /\ d.listed = c.listed
      /\ d.hears = c.hears /\ d.present = c.present \ ss /\ d.timers = c.timers \ ss
      /\ d.typing \subseteq c.typing \ ss
      /\ \A s \in c.typing : owner[s] # u => s \in d.typing
      /\ \A s \in d.typing : owner[s] = u => u \in OwnersOf(d.present)
  <2>1. Unregistered(c, ss, u, d)
    BY <1>0, UnregisterFields
  <2> HIDE DEF d
  <2> QED
    BY <2>1 DEF Unregistered
<1> HIDE DEF d
<1>2. /\ e \in ChatType /\ e.room = c.room \ ss /\ e.listed = c.listed \ ss
      /\ \A s \in Sockets : e.hears[s] = IF s \in ss THEN {} ELSE c.hears[s]
      /\ e.present = c.present \ ss /\ e.typing = d.typing /\ e.timers = c.timers \ ss
  BY <1>1, OutFields
<1> HIDE DEF e
<1>3. /\ f \in ChatType /\ f.room = c.room \ ss /\ f.listed = c.listed \ ss
      /\ f.present = c.present \ ss /\ f.typing = d.typing /\ f.timers = c.timers \ ss
      /\ \A s \in Sockets :
           f.hears[s] = IF s \notin e.room THEN e.hears[s]
                        ELSE IF IsTyping(e, u) THEN e.hears[s] \cup {u}
                        ELSE e.hears[s] \ {u}
  <2>1. EmittedTyping(e, u, f)
    BY <1>2, EmitTypingFields
  <2> HIDE DEF f
  <2> QED
    BY <1>2, <2>1 DEF EmittedTyping
<1> HIDE DEF f
<1>4. Online(f) \subseteq Users
  BY <1>3, OnlineUsers DEF MemoryBut, Online
<1>5. /\ g \in ChatType /\ g.room = c.room \ ss /\ g.listed = c.listed \ ss
      /\ g.present = c.present \ ss /\ g.typing = d.typing /\ g.timers = c.timers \ ss
      /\ g.hears = f.hears /\ \A s \in g.room : g.view[s] = Online(f)
  BY <1>3, <1>4, PublishFields
<1> HIDE DEF g
<1>6. /\ g.room \cup g.present \cup g.listed \cup g.typing \subseteq Owned
      /\ g.room \subseteq o
      /\ \A s \in o : /\ s \in g.room <=> s \in g.present
                      /\ s \in g.room <=> s \in g.listed
  BY <1>1, <1>5 DEF MemoryBut
<1>7. \A s \in g.room : g.view[s] = Online(g)
  BY <1>3, <1>5 DEF Online
<1>8. ASSUME NEW s \in g.room, NEW v \in g.hears[s] PROVE IsTyping(g, v)
  <2>1. s \in Sockets /\ s \in c.room /\ s \notin ss /\ s \in e.room
    BY <1>0, <1>2, <1>5
  <2>2. CASE v = u
    <3>1. IsTyping(e, u)
      <4>1. SUFFICES ASSUME ~IsTyping(e, u) PROVE FALSE
        OBVIOUS
      <4>2. f.hears[s] = e.hears[s] \ {u}
        BY <1>3, <2>1, <4>1
      <4>3. u \in g.hears[s]
        BY <1>8, <2>2
      <4>4. g.hears = f.hears
        BY <1>5
      <4> QED
        BY <4>2, <4>3, <4>4
    <3>2. g.typing = e.typing
      BY <1>2, <1>5
    <3> QED
      BY <2>2, <3>1, <3>2 DEF IsTyping
  <2>3. CASE v # u
    <3>1. v \in c.hears[s]
      <4>1. v \in f.hears[s]
        BY <1>5, <1>8
      <4>2. f.hears[s] \subseteq e.hears[s] \cup {u} /\ e.hears[s] = c.hears[s]
        BY <1>2, <1>3, <2>1
      <4> QED
        BY <2>3, <4>1, <4>2
    <3>2. PICK q \in c.typing : owner[q] = v
      BY <2>1, <3>1 DEF MemoryBut, IsTyping
    <3> QED
      BY <1>1, <1>5, <2>3, <3>2 DEF IsTyping
  <2> QED
    BY <2>2, <2>3
<1>9. \A s \in Sockets \ g.room : g.hears[s] = {}
  <2>1. ASSUME NEW s \in Sockets, s \notin g.room PROVE g.hears[s] = {}
    <3>1. s \notin e.room /\ g.hears[s] = e.hears[s]
      BY <1>2, <1>3, <1>5, <2>1
    <3>2. s \in ss \/ s \notin c.room
      BY <1>5, <2>1
    <3>3. s \notin ss => c.hears[s] = {}
      BY <2>1, <3>2 DEF MemoryBut
    <3> QED
      BY <1>2, <2>1, <3>1, <3>2, <3>3
  <2> QED
    BY <2>1
<1>10. ASSUME NEW s \in g.typing PROVE s \in g.timers /\ owner[s] \in Online(g)
  <2>1. /\ s \in c.typing /\ s \notin ss /\ s \in c.timers
        /\ owner[s] \in OwnersOf(c.present)
    BY <1>1, <1>5, <1>10 DEF MemoryBut, Online
  <2>2. owner[s] \in OwnersOf(c.present \ ss)
    <3>1. CASE owner[s] = u
      BY <1>1, <1>5, <1>10, <3>1
    <3>2. CASE owner[s] # u
      BY <2>1, <3>2 DEF OwnersOf
    <3> QED
      BY <3>1, <3>2
  <2> QED
    BY <1>5, <2>1, <2>2 DEF Online
<1> QED
  BY <1>0, <1>5, <1>6, <1>7, <1>8, <1>9, <1>10 DEF MemoryOK

LEMMA LeaveOK ==
  ASSUME NEW o \in SUBSET Sockets, NEW c, MemoryOK(c, o), NEW u \in Users,
         NEW ss, TabsOf(ss, u)
  PROVE  LeftOK(c, ss, o, Leave(c, ss, u))
<1>1. MemoryBut(c, o, ss)
  BY DEF MemoryOK, MemoryBut
<1> QED
  BY <1>1, LeaveButOK

LEMMA EnterOK ==
  ASSUME NEW c, MemoryOK(c, open), NEW s \in Owned
  PROVE  MemoryOK(Enter(c, s), open) /\ c.room \subseteq Enter(c, s).room
<1> DEFINE room == IF s \in open THEN c.room \cup {s} ELSE c.room
           first == [c EXCEPT !.room = room]
           second == [first EXCEPT !.present = c.present \cup {s}]
           d == [second EXCEPT !.listed = c.listed \cup {s}]
           g == PublishPresence(d)
<1>0. Enter(c, s) = g /\ c \in ChatType /\ s \in Sockets
  BY DEF Enter, MemoryOK, Owned
<1>1. room \subseteq Sockets /\ room \subseteq c.room \cup {s} /\ c.room \subseteq room
  BY <1>0 DEF ChatType
<1>2. room \subseteq open /\ \A q \in open : q \in room <=> q \in c.room \/ q = s
  BY DEF MemoryOK
<1> HIDE DEF room
<1>3. /\ first \in ChatType /\ first.room = room /\ first.hears = c.hears
      /\ first.present = c.present /\ first.listed = c.listed
      /\ first.typing = c.typing /\ first.timers = c.timers
  BY <1>0, <1>1 DEF ChatType
<1> HIDE DEF first
<1>4. /\ second \in ChatType /\ second.room = room /\ second.hears = c.hears
      /\ second.present = c.present \cup {s} /\ second.listed = c.listed
      /\ second.typing = c.typing /\ second.timers = c.timers
  BY <1>0, <1>3 DEF ChatType
<1> HIDE DEF second
<1>5. /\ d \in ChatType /\ d.room = room /\ d.hears = c.hears
      /\ d.present = c.present \cup {s} /\ d.listed = c.listed \cup {s}
      /\ d.typing = c.typing /\ d.timers = c.timers
  BY <1>0, <1>4 DEF ChatType
<1> HIDE DEF d
<1>6. d.present \subseteq Owned /\ Online(d) \subseteq Users
  BY <1>5, OnlineUsers DEF MemoryOK, Online
<1>7. /\ g \in ChatType /\ g.room = room /\ g.hears = c.hears
      /\ g.present = c.present \cup {s} /\ g.listed = c.listed \cup {s}
      /\ g.typing = c.typing /\ g.timers = c.timers
      /\ \A q \in room : g.view[q] = Online(d)
  BY <1>5, <1>6, PublishFields
<1> HIDE DEF g
<1>8. /\ g.room \cup g.present \cup g.listed \cup g.typing \subseteq Owned
      /\ g.room \subseteq open
      /\ \A q \in open : /\ q \in g.room <=> q \in g.present
                         /\ q \in g.room <=> q \in g.listed
  BY <1>1, <1>2, <1>7 DEF MemoryOK
<1>9. \A q \in g.room : g.view[q] = Online(g)
  BY <1>5, <1>7 DEF Online
<1>10. \A q \in g.room : \A u \in g.hears[q] : IsTyping(g, u)
  <2>1. \A q \in room : q \in c.room \/ c.hears[q] = {}
    BY <1>0, <1>1 DEF MemoryOK
  <2> QED
    BY <1>7, <2>1 DEF MemoryOK, IsTyping
<1>11. \A q \in Sockets \ g.room : g.hears[q] = {}
  BY <1>1, <1>7 DEF MemoryOK
<1>12. \A q \in g.typing : q \in g.timers /\ owner[q] \in Online(g)
  BY <1>7 DEF MemoryOK, Online, OwnersOf
<1> QED
  BY <1>0, <1>1, <1>7, <1>8, <1>9, <1>10, <1>11, <1>12 DEF MemoryOK

\* c became d, which concerns only whether u is typing, and the room is told.
Told(c, d, u) == IF IsTyping(d, u) = IsTyping(c, u) THEN d ELSE EmitTyping(d, u)

\* The changes it may consist of.
Differs(c, d, u) ==
  /\ d \in ChatType
  /\ d.room = c.room /\ d.present = c.present /\ d.listed = c.listed
  /\ d.view = c.view /\ d.hears = c.hears
  /\ d.typing \subseteq Owned
  /\ \A q \in Sockets : owner[q] # u => (q \in d.typing <=> q \in c.typing)
  /\ \A q \in d.typing : q \in d.timers /\ owner[q] \in Online(c)

LEMMA ToldOK ==
  ASSUME NEW o \in SUBSET Sockets, NEW c, MemoryOK(c, o), NEW u \in Users,
         NEW d, Differs(c, d, u)
  PROVE  /\ MemoryOK(Told(c, d, u), o)
         /\ Told(c, d, u).room = c.room /\ Told(c, d, u).typing = d.typing
<1> USE DEF Differs
<1>0. /\ c \in ChatType /\ c.room \subseteq Sockets /\ c.typing \subseteq Sockets
      /\ d.typing \subseteq Sockets
  BY DEF MemoryOK, ChatType
<1>1. \A v \in Users : v # u /\ IsTyping(c, v) => IsTyping(d, v)
  BY <1>0 DEF IsTyping
<1>2. /\ d.room \cup d.present \cup d.listed \cup d.typing \subseteq Owned
      /\ d.room \subseteq o
      /\ \A s \in o : /\ s \in d.room <=> s \in d.present
                      /\ s \in d.room <=> s \in d.listed
      /\ \A s \in d.room : d.view[s] = Online(d)
      /\ \A s \in Sockets \ d.room : d.hears[s] = {}
      /\ \A s \in d.typing : s \in d.timers /\ owner[s] \in Online(d)
  BY DEF MemoryOK, Online
<1>3. \A s \in d.room : \A v \in d.hears[s] : v \in Users /\ IsTyping(c, v)
  BY <1>0 DEF MemoryOK, ChatType
<1>4. CASE IsTyping(d, u) = IsTyping(c, u)
  <2>1. Told(c, d, u) = d
    BY <1>4 DEF Told
  <2>2. \A s \in d.room : \A v \in d.hears[s] : IsTyping(d, v)
    BY <1>1, <1>3, <1>4
  <2> QED
    BY <1>2, <2>1, <2>2 DEF MemoryOK
<1>5. CASE IsTyping(d, u) # IsTyping(c, u)
  <2> DEFINE g == EmitTyping(d, u)
  <2>1. Told(c, d, u) = g
    BY <1>5 DEF Told
  <2>2. EmittedTyping(d, u, g)
    BY EmitTypingFields
  <2> HIDE DEF g
  <2>3. /\ g \in ChatType
        /\ g.room = d.room /\ g.listed = d.listed /\ g.present = d.present
        /\ g.typing = d.typing /\ g.timers = d.timers /\ g.view = d.view
        /\ \A s \in Sockets :
             g.hears[s] = IF s \notin d.room THEN d.hears[s]
                          ELSE IF IsTyping(d, u) THEN d.hears[s] \cup {u}
                          ELSE d.hears[s] \ {u}
    BY <2>2 DEF EmittedTyping
  <2>4. ASSUME NEW s \in g.room, NEW v \in g.hears[s] PROVE IsTyping(g, v)
    <3>1. s \in d.room /\ s \in Sockets
      BY <1>0, <2>3, <2>4
    <3>2. CASE v = u
      <4>1. SUFFICES ASSUME ~IsTyping(d, u) PROVE FALSE
        BY <2>3, <3>2 DEF IsTyping
      <4>2. g.hears[s] = d.hears[s] \ {u}
        BY <2>3, <3>1, <4>1
      <4> QED
        BY <2>4, <3>2, <4>2
    <3>3. CASE v # u
      <4>1. g.hears[s] \subseteq d.hears[s] \cup {u}
        BY <2>3, <3>1
      <4>2. v \in d.hears[s]
        BY <2>4, <3>3, <4>1
      <4>3. IsTyping(d, v)
        BY <1>1, <1>3, <3>1, <3>3, <4>2
      <4> QED
        BY <2>3, <4>3 DEF IsTyping
    <3> QED
      BY <3>2, <3>3
  <2>5. \A s \in Sockets \ g.room : g.hears[s] = {}
    BY <1>2, <2>3
  <2>6. /\ g.room \cup g.present \cup g.listed \cup g.typing \subseteq Owned
        /\ g.room \subseteq o
        /\ \A s \in o : /\ s \in g.room <=> s \in g.present
                        /\ s \in g.room <=> s \in g.listed
        /\ \A s \in g.room : g.view[s] = Online(g)
        /\ \A s \in g.typing : s \in g.timers /\ owner[s] \in Online(g)
    BY <1>2, <2>3 DEF Online
  <2> QED
    BY <2>1, <2>3, <2>4, <2>5, <2>6 DEF MemoryOK
<1> QED
  BY <1>4, <1>5

LEMMA TypeOnOK ==
  ASSUME NEW o \in SUBSET Sockets, NEW c, MemoryOK(c, o), NEW s \in Sockets,
         owner \in [Sockets -> Users \cup {NoUser}]
  PROVE  MemoryOK(Type(c, s, TRUE), o) /\ Type(c, s, TRUE).room = c.room
<1>0. c \in ChatType /\ c.present \subseteq Owned
  BY DEF MemoryOK
<1>1. CASE owner[s] \notin Online(c)
  BY <1>1 DEF Type
<1>2. CASE owner[s] \in Online(c)
  <2>0. PICK u \in Users : u = owner[s]
    BY <1>0, <1>2, OnlineUsers DEF Online
  <2> DEFINE first == [c EXCEPT !.typing = c.typing \cup {s}]
             d == [first EXCEPT !.timers = c.timers \cup {s}]
  <2>1. s \in Owned
    BY <2>0 DEF Owned
  <2>2. /\ first \in ChatType /\ first.room = c.room /\ first.present = c.present
        /\ first.listed = c.listed /\ first.view = c.view /\ first.hears = c.hears
        /\ first.typing = c.typing \cup {s} /\ first.timers = c.timers
    BY <1>0 DEF ChatType
  <2>3. [c EXCEPT !.typing = @ \cup {s}, !.timers = @ \cup {s}] = d
    BY <1>0 DEF ChatType
  <2>4. Type(c, s, TRUE) = Told(c, d, u)
    BY <1>2, <2>0, <2>3 DEF Type, Told
  <2> HIDE DEF first
  <2>5. /\ d \in ChatType /\ d.room = c.room /\ d.present = c.present
        /\ d.listed = c.listed /\ d.view = c.view /\ d.hears = c.hears
        /\ d.typing = c.typing \cup {s} /\ d.timers = c.timers \cup {s}
    BY <1>0, <2>2 DEF ChatType
  <2> HIDE DEF d
  <2>6. /\ d.typing \subseteq Owned
        /\ \A q \in Sockets : owner[q] # u => (q \in d.typing <=> q \in c.typing)
        /\ \A q \in d.typing : q \in d.timers /\ owner[q] \in Online(c)
    BY <1>2, <2>0, <2>1, <2>5 DEF MemoryOK
  <2> Differs(c, d, u)
    BY <2>5, <2>6 DEF Differs
  <2>7. MemoryOK(Told(c, d, u), o) /\ Told(c, d, u).room = c.room
        /\ Told(c, d, u).typing = d.typing
    BY ToldOK
  <2> QED
    BY <2>4, <2>5, <2>7
<1> QED
  BY <1>1, <1>2

LEMMA TypeOffOK ==
  ASSUME NEW o \in SUBSET Sockets, NEW c, MemoryOK(c, o), NEW s \in Sockets,
         owner \in [Sockets -> Users \cup {NoUser}]
  PROVE  /\ MemoryOK(Type(c, s, FALSE), o) /\ Type(c, s, FALSE).room = c.room
         /\ s \notin Type(c, s, FALSE).typing
<1>0. c \in ChatType /\ c.present \subseteq Owned
  BY DEF MemoryOK
<1>1. CASE owner[s] \notin Online(c)
  BY <1>1 DEF Type, MemoryOK
<1>2. CASE owner[s] \in Online(c)
  <2>0. PICK u \in Users : u = owner[s]
    BY <1>0, <1>2, OnlineUsers DEF Online
  <2> DEFINE first == [c EXCEPT !.typing = c.typing \ {s}]
             d == [first EXCEPT !.timers = c.timers \ {s}]
  <2>1. s \in Owned
    BY <2>0 DEF Owned
  <2>2. /\ first \in ChatType /\ first.room = c.room /\ first.present = c.present
        /\ first.listed = c.listed /\ first.view = c.view /\ first.hears = c.hears
        /\ first.typing = c.typing \ {s} /\ first.timers = c.timers
    BY <1>0 DEF ChatType
  <2>3. [c EXCEPT !.typing = @ \ {s}, !.timers = @ \ {s}] = d
    BY <1>0 DEF ChatType
  <2>4. Type(c, s, FALSE) = Told(c, d, u)
    BY <1>2, <2>0, <2>3 DEF Type, Told
  <2> HIDE DEF first
  <2>5. /\ d \in ChatType /\ d.room = c.room /\ d.present = c.present
        /\ d.listed = c.listed /\ d.view = c.view /\ d.hears = c.hears
        /\ d.typing = c.typing \ {s} /\ d.timers = c.timers \ {s}
    BY <1>0, <2>2 DEF ChatType
  <2> HIDE DEF d
  <2>6. /\ d.typing \subseteq Owned
        /\ \A q \in Sockets : owner[q] # u => (q \in d.typing <=> q \in c.typing)
        /\ \A q \in d.typing : q \in d.timers /\ owner[q] \in Online(c)
    BY <1>2, <2>0, <2>1, <2>5 DEF MemoryOK
  <2> Differs(c, d, u)
    BY <2>5, <2>6 DEF Differs
  <2>7. MemoryOK(Told(c, d, u), o) /\ Told(c, d, u).room = c.room
        /\ Told(c, d, u).typing = d.typing
    BY ToldOK
  <2>8. s \notin d.typing
    BY <2>5
  <2> HIDE DEF d
  <2> QED
    BY <2>4, <2>7, <2>8
<1> QED
  BY <1>1, <1>2

LEMMA ExpiryOK ==
  ASSUME NEW o \in SUBSET Sockets, NEW c, MemoryOK(c, o), NEW s \in Sockets,
         owner \in [Sockets -> Users \cup {NoUser}]
  PROVE  LET g == [Type(c, s, FALSE) EXCEPT !.timers = @ \ {s}]
         IN  MemoryOK(g, o) /\ g.room = c.room
<1> DEFINE d == Type(c, s, FALSE)
           g == [d EXCEPT !.timers = d.timers \ {s}]
<1>1. MemoryOK(d, o) /\ d.room = c.room /\ s \notin d.typing
  BY TypeOffOK
<1> HIDE DEF d
<1>2. /\ g \in ChatType /\ g.room = d.room /\ g.present = d.present
      /\ g.listed = d.listed /\ g.view = d.view /\ g.hears = d.hears
      /\ g.typing = d.typing /\ g.timers = d.timers \ {s}
  BY <1>1 DEF MemoryOK, ChatType
<1>3. [Type(c, s, FALSE) EXCEPT !.timers = @ \ {s}] = g
  BY DEF d
<1> HIDE DEF g
<1>4. MemoryOK(g, o)
  BY <1>1, <1>2 DEF MemoryOK, Online, IsTyping
<1> QED
  BY <1>1, <1>2, <1>3, <1>4


\* Somebody closes his socket, whatever that leaves in the registry.
LEMMA CloseOK ==
  ASSUME NEW o \in SUBSET Sockets, NEW c, MemoryOK(c, o), NEW s \in o, s \in Owned
  PROVE  MemoryOK(Close(c, s), o \ {s}) /\ Close(c, s).room = c.room \ {s}
<1> DEFINE d == [c EXCEPT !.room = c.room \ {s}]
<1>0. c \in ChatType /\ s \in Sockets
  BY DEF MemoryOK
<1>1. PICK u \in Users : u = owner[s]
  BY DEF Owned
<1>2. /\ d \in ChatType /\ d.room = c.room \ {s} /\ d.present = c.present
      /\ d.listed = c.listed /\ d.view = c.view /\ d.hears = c.hears
      /\ d.typing = c.typing /\ d.timers = c.timers
  BY <1>0 DEF ChatType
<1>3. Close(c, s) = IF s \in c.listed THEN Leave(d, {s}, u) ELSE d
  BY <1>0, <1>1, <1>2 DEF Close, ChatType
<1> HIDE DEF d
<1>4. \A q \in Sockets \ (d.room \cup {s}) : d.hears[q] = {}
  BY <1>2 DEF MemoryOK
<1>5. MemoryBut(d, o \ {s}, {s})
  <2>1. d.room \cup d.present \cup d.listed \cup d.typing \subseteq Owned
    BY <1>2 DEF MemoryOK
  <2>2. /\ d.room \subseteq o \ {s}
        /\ \A q \in o \ {s} : /\ q \in d.room <=> q \in d.present
                              /\ q \in d.room <=> q \in d.listed
    BY <1>2 DEF MemoryOK
  <2>3. \A q \in d.room : d.view[q] = Online(d) /\ \A v \in d.hears[q] : IsTyping(d, v)
    BY <1>2 DEF MemoryOK, Online, IsTyping
  <2>4. \A q \in d.typing : q \in d.timers /\ owner[q] \in Online(d)
    BY <1>2 DEF MemoryOK, Online
  <2> QED
    BY <1>2, <1>4, <2>1, <2>2, <2>3, <2>4 DEF MemoryBut
<1>6. CASE s \in c.listed
  <2>1. TabsOf({s}, u)
    BY <1>0, <1>1 DEF TabsOf
  <2>2. LeftOK(d, {s}, o \ {s}, Leave(d, {s}, u))
    BY <1>5, <2>1, LeaveButOK
  <2> QED
    BY <1>2, <1>3, <1>6, <2>2 DEF LeftOK
<1>7. CASE s \notin c.listed
  <2>1. s \notin c.room /\ c.hears[s] = {}
    BY <1>0, <1>7 DEF MemoryOK
  <2>2. \A q \in Sockets \ d.room : d.hears[q] = {}
    BY <1>2, <1>4, <2>1
  <2>3. MemoryOK(d, o \ {s})
    BY <1>5, <2>2 DEF MemoryBut, MemoryOK
  <2> QED
    BY <1>2, <1>3, <1>7, <2>3
<1> QED
  BY <1>6, <1>7

-----------------------------------------------------------------------------
(* Handlers that go on, and messages on their way *)

\* What remains to be shown of a step once the memory is dealt with.
HandlersNext == /\ task' \in [Tasks -> TaskType]
                /\ \A r \in Tasks : HandlerOK(task[r])'
                /\ MessagesOK' /\ OutsidersOK'

LEMMA MemoryNext ==
  ASSUME owner' = owner, MemoryOK(chat', open'), open' \subseteq Owned
  PROVE  MemoryOK(chat, open)' /\ open' \subseteq Owned'
<1>1. Owned' = Owned
  BY DEF Owned
<1>2. \A s \in chat'.room : Online(chat)' = Online(chat')
  BY DEF Online, OwnersOf
<1>3. \A u : IsTyping(chat, u)' = IsTyping(chat', u)
  BY DEF IsTyping
<1>4. \A u : (u \in Online(chat'))  <=> (u \in Online(chat)')
  BY DEF Online, OwnersOf
<1> QED
  BY <1>1, <1>2, <1>3, <1>4 DEF MemoryOK

LEMMA WatchOutsiders ==
  ASSUME IInv, Watch, stored \subseteq stored',
         stored' # stored => Astray \subseteq Astray'
  PROVE  /\ outsiders' \in [Attempts -> SUBSET (Sockets \X {"session", "member"})]
         /\ \A m \in stored : outsiders'[m] = outsiders[m] \cap Astray'
         /\ \A m \in Attempts : outsiders'[m] \subseteq Astray'
         /\ \A m \in Attempts \ stored' : outsiders'[m] = {}
<1>1. chat.room \subseteq Sockets /\ stored \subseteq Attempts
  BY DEF IInv, TypeOK, ChatType
<1>2. Astray \subseteq Sockets \X {"session", "member"}
  BY <1>1 DEF Astray
<1>3. \A m \in Attempts : outsiders'[m] = IF m \in stored THEN outsiders[m] \cap Astray'
                                          ELSE IF m \in stored' THEN Astray ELSE {}
  BY DEF Watch
<1>4. outsiders \in [Attempts -> SUBSET (Sockets \X {"session", "member"})]
  BY DEF IInv, TypeOK
<1>5. outsiders' \in [Attempts -> SUBSET (Sockets \X {"session", "member"})]
  <2>1. \A m \in Attempts : outsiders'[m] \in SUBSET (Sockets \X {"session", "member"})
    <3>1. ASSUME NEW m \in Attempts
          PROVE  outsiders'[m] \subseteq Sockets \X {"session", "member"}
      <4>1. outsiders[m] \subseteq Sockets \X {"session", "member"}
        BY <1>4
      <4> QED
        BY <1>2, <1>3, <4>1
    <3> QED
      BY <3>1
  <2> QED
    BY <2>1 DEF Watch
<1>6. \A m \in Attempts : outsiders'[m] \subseteq Astray'
  <2>1. ASSUME NEW m \in Attempts PROVE outsiders'[m] \subseteq Astray'
    <3>1. CASE m \in stored
      BY <1>3, <3>1
    <3>2. CASE m \notin stored
      BY <1>3, <3>2
    <3> QED
      BY <3>1, <3>2
  <2> QED
    BY <2>1
<1>7. \A m \in stored : outsiders'[m] = outsiders[m] \cap Astray'
  BY <1>1, <1>3
<1>8. \A m \in Attempts \ stored' : outsiders'[m] = {}
  BY <1>3
<1> QED
  BY <1>5, <1>6, <1>7, <1>8

\* k may follow the record of handler t.
Follows(t, k) ==
  /\ k \in TaskType /\ HandlerOK(k)
  /\ Announcing(k) =>
       /\ Announcing(task[t]) /\ Attempt(k) = Attempt(task[t])
       /\ \A s \in chat'.room, why \in {"session", "member"} :
            <<s, why>> \in outsiders[Attempt(k)] => Catches(k, s, why)

LEMMA QuietStep ==
  ASSUME IInv, Watch, UNCHANGED <<owner, task, announced, stored>>
  PROVE  HandlersNext
<1>1. /\ \A m \in stored : outsiders'[m] = outsiders[m] \cap Astray'
      /\ \A m \in Attempts : outsiders'[m] \subseteq Astray'
      /\ \A m \in Attempts \ stored' : outsiders'[m] = {}
  BY WatchOutsiders
<1>2. \A r \in Tasks : HandlerOK(task[r])'
  BY DEF IInv, HandlerOK, Owned
<1>3. \A r \in Tasks : Announcing(task[r])' = Announcing(task[r])
                       /\ Attempt(task[r])' = Attempt(task[r])
  BY DEF Announcing, Attempt
<1>4. MessagesOK'
  BY <1>3 DEF IInv, MessagesOK, AnnouncedOnce
<1>5. OutsidersOK'
  <2>1. ASSUME NEW r \in Tasks, Announcing(task[r]), NEW s \in Sockets,
               NEW why \in {"session", "member"},
               <<s, why>> \in outsiders'[Attempt(task[r])]
        PROVE  Catches(task[r], s, why)
    <3>1. Attempt(task[r]) \in stored
      BY <2>1 DEF IInv, MessagesOK
    <3>2. <<s, why>> \in outsiders[Attempt(task[r])]
      BY <1>1, <2>1, <3>1
    <3> QED
      BY <2>1, <3>2 DEF IInv, OutsidersOK
  <2>2. \A r \in Tasks, s \in Sockets, why \in {"session", "member"} :
          Catches(task[r], s, why)' = Catches(task[r], s, why)
    BY DEF Catches
  <2> QED
    BY <1>1, <1>3, <2>1, <2>2 DEF OutsidersOK
<1> QED
  BY <1>2, <1>4, <1>5 DEF HandlersNext, IInv, TypeOK

LEMMA AstrayRoom ==
  ASSUME NEW s, NEW why, <<s, why>> \in Astray'
  PROVE  s \in chat'.room
BY DEF Astray

LEMMA HandlerStep ==
  ASSUME IInv, Watch, NEW t \in Tasks, NEW k, Follows(t, k),
         task' = [task EXCEPT ![t] = k], UNCHANGED <<owner, announced, stored>>
  PROVE  HandlersNext
<1>0. /\ task \in [Tasks -> TaskType] /\ k \in TaskType
      /\ task'[t] = k /\ \A r \in Tasks \ {t} : task'[r] = task[r]
  BY DEF IInv, TypeOK, Follows
<1>1. /\ \A m \in stored : outsiders'[m] = outsiders[m] \cap Astray'
      /\ \A m \in Attempts : outsiders'[m] \subseteq Astray'
      /\ \A m \in Attempts \ stored' : outsiders'[m] = {}
  BY WatchOutsiders
<1>2. \A r \in Tasks : HandlerOK(task[r])'
  BY <1>0 DEF IInv, HandlerOK, Owned, Follows
<1>3. \A r \in Tasks : Announcing(task'[r]) =>
        Announcing(task[r]) /\ Attempt(task'[r]) = Attempt(task[r])
  BY <1>0 DEF Follows
<1>4. \A r \in Tasks : Announcing(task[r])' = Announcing(task'[r])
                       /\ Attempt(task[r])' = Attempt(task'[r])
  BY DEF Announcing, Attempt
<1>5. MessagesOK'
  <2>1. \A r \in Tasks : Announcing(task'[r]) =>
          Attempt(task'[r]) \in stored /\ announced[Attempt(task'[r])] = 0
    BY <1>3 DEF IInv, MessagesOK
  <2>2. \A q, r \in Tasks : Announcing(task'[q]) /\ Announcing(task'[r]) /\ q # r =>
          Attempt(task'[q]) # Attempt(task'[r])
    BY <1>3 DEF IInv, MessagesOK
  <2> QED
    BY <1>4, <2>1, <2>2 DEF IInv, MessagesOK, AnnouncedOnce
<1>6. OutsidersOK'
  <2>1. ASSUME NEW r \in Tasks, Announcing(task'[r]), NEW s \in Sockets,
               NEW why \in {"session", "member"},
               <<s, why>> \in outsiders'[Attempt(task'[r])]
        PROVE  Catches(task'[r], s, why)
    <3>1. Attempt(task'[r]) = Attempt(task[r]) /\ Attempt(task[r]) \in stored
      BY <1>3, <2>1 DEF IInv, MessagesOK
    <3>2. <<s, why>> \in outsiders[Attempt(task[r])] /\ <<s, why>> \in Astray'
      BY <1>1, <2>1, <3>1
    <3>3. s \in chat'.room
      BY <3>2, AstrayRoom
    <3>4. CASE r = t
      BY <1>0, <2>1, <3>1, <3>2, <3>3, <3>4 DEF Follows
    <3>5. CASE r # t
      BY <1>0, <2>1, <3>1, <3>2, <3>5 DEF IInv, OutsidersOK
    <3> QED
      BY <3>4, <3>5
  <2>2. \A r \in Tasks, s \in Sockets, why \in {"session", "member"} :
          Catches(task[r], s, why)' = Catches(task'[r], s, why)
    BY DEF Catches
  <2> QED
    BY <1>1, <1>4, <2>1, <2>2 DEF OutsidersOK
<1>7. task' \in [Tasks -> TaskType]
  BY <1>0
<1> QED
  BY <1>2, <1>5, <1>6, <1>7 DEF HandlersNext

LEMMA IdleFollows ==
  ASSUME NEW t PROVE Follows(t, Idle)
BY DEF Follows, Idle, HandlerOK, Announcing, TaskType, Kinds, Requests, Pruning

\* A handler that ends, with or without announcing what it has stored.
LEMMA FinishStep ==
  ASSUME IInv, Watch, NEW t \in Tasks, task' = [task EXCEPT ![t] = Idle],
         UNCHANGED <<owner, stored>>, Announcing(task[t]),
         announced' = [announced EXCEPT ![Attempt(task[t])] = @ + 1]
  PROVE  HandlersNext /\ announced' \in [Attempts -> Nat]
<1> DEFINE m == Attempt(task[t])
<1>0. /\ task \in [Tasks -> TaskType] /\ announced \in [Attempts -> Nat]
      /\ stored \subseteq Attempts /\ m \in stored /\ announced[m] = 0
  BY DEF IInv, TypeOK, MessagesOK
<1>1. /\ task'[t] = Idle /\ \A r \in Tasks \ {t} : task'[r] = task[r]
      /\ announced'[m] = 1 /\ \A n \in Attempts \ {m} : announced'[n] = announced[n]
      /\ announced' \in [Attempts -> Nat]
  BY <1>0
<1>2. /\ \A n \in stored : outsiders'[n] = outsiders[n] \cap Astray'
      /\ \A n \in Attempts : outsiders'[n] \subseteq Astray'
      /\ \A n \in Attempts \ stored' : outsiders'[n] = {}
  BY WatchOutsiders
<1>3. ~Announcing(Idle) /\ HandlerOK(Idle) /\ Idle \in TaskType
  BY IdleFollows, <1>0 DEF Follows, Announcing, Idle
<1>4. \A r \in Tasks : HandlerOK(task[r])'
  BY <1>1, <1>3 DEF IInv, HandlerOK, Owned
<1>5. \A r \in Tasks : Announcing(task'[r]) =>
        r # t /\ task'[r] = task[r]
  BY <1>1, <1>3
<1>6. \A r \in Tasks : Announcing(task[r])' = Announcing(task'[r])
                       /\ Attempt(task[r])' = Attempt(task'[r])
  BY DEF Announcing, Attempt
<1>7. MessagesOK'
  <2>1. ASSUME NEW r \in Tasks, Announcing(task'[r])
        PROVE  Attempt(task'[r]) \in stored /\ announced'[Attempt(task'[r])] = 0
    <3>1. r # t /\ task'[r] = task[r] /\ Announcing(task[r])
      BY <1>5, <2>1
    <3>2. Attempt(task[r]) \in stored /\ announced[Attempt(task[r])] = 0
          /\ Attempt(task[r]) # m
      BY <3>1 DEF IInv, MessagesOK
    <3> QED
      BY <1>0, <1>1, <3>1, <3>2
  <2>2. \A q, r \in Tasks : Announcing(task'[q]) /\ Announcing(task'[r]) /\ q # r =>
          Attempt(task'[q]) # Attempt(task'[r])
    BY <1>5 DEF IInv, MessagesOK
  <2>3. \A n \in Attempts : announced'[n] = 0 \/ (announced'[n] = 1 /\ n \in stored)
    <3>1. \A n \in Attempts : announced[n] = 0 \/ (announced[n] = 1 /\ n \in stored)
      BY DEF IInv, MessagesOK, AnnouncedOnce
    <3> QED
      BY <1>0, <1>1, <3>1
  <2> QED
    BY <1>6, <2>1, <2>2, <2>3 DEF MessagesOK, AnnouncedOnce
<1>8. OutsidersOK'
  <2>1. ASSUME NEW r \in Tasks, Announcing(task'[r]), NEW s \in Sockets,
               NEW why \in {"session", "member"},
               <<s, why>> \in outsiders'[Attempt(task'[r])]
        PROVE  Catches(task'[r], s, why)
    <3>1. task'[r] = task[r] /\ Attempt(task[r]) \in stored
      BY <1>5, <2>1 DEF IInv, MessagesOK
    <3>2. <<s, why>> \in outsiders[Attempt(task[r])]
      BY <1>2, <2>1, <3>1
    <3> QED
      BY <2>1, <3>1, <3>2 DEF IInv, OutsidersOK
  <2>2. \A r \in Tasks, s \in Sockets, why \in {"session", "member"} :
          Catches(task[r], s, why)' = Catches(task'[r], s, why)
    BY DEF Catches
  <2> QED
    BY <1>2, <1>6, <2>1, <2>2 DEF OutsidersOK
<1> QED
  BY <1>0, <1>1, <1>3, <1>4, <1>7, <1>8 DEF HandlersNext

-----------------------------------------------------------------------------
(* Asking the database, and pruning the room *)

Answered(k, b) == [k EXCEPT !.answer = b]

LEMMA AnsweredFields ==
  ASSUME NEW k \in TaskType, NEW b \in {"none", "yes", "no", "error"}
  PROVE  /\ Answered(k, b) \in TaskType
         /\ Answered(k, b).answer = b
         /\ Answered(k, b).kind = k.kind /\ Answered(k, b).socket = k.socket
         /\ Answered(k, b).msg = k.msg /\ Answered(k, b).on = k.on
         /\ Answered(k, b).stage = k.stage /\ Answered(k, b).todo = k.todo
         /\ Answered(k, b).cur = k.cur
BY DEF Answered, TaskType

\* The answer is the right one or an error.
LEMMA AwaitStep ==
  ASSUME TypeOK, NEW t \in Tasks, NEW k, NEW a \in {"yes", "no"}, Await(t, k, a)
  PROVE  /\ troubles' \in 0 .. MaxTroubles
         /\ \E b \in {a, "error"} : task' = [task EXCEPT ![t] = Answered(k, b)]
<1>1. troubles \in 0 .. MaxTroubles
  BY DEF TypeOK
<1>2. CASE task' = [task EXCEPT ![t] = [k EXCEPT !.answer = a]] /\ UNCHANGED troubles
  BY <1>1, <1>2 DEF Answered
<1>3. CASE task' = [task EXCEPT ![t] = [k EXCEPT !.answer = "error"]] /\ Trouble
  BY <1>1, <1>3 DEF Answered, Trouble
<1> QED
  BY <1>2, <1>3 DEF Await

\* What asking about the next socket s makes of the record of a pruning.
Asking(k, s, todo) == [k EXCEPT !.stage = "pruneSession", !.cur = s, !.todo = todo]

LEMMA AskingFields ==
  ASSUME NEW k \in TaskType, NEW s \in Sockets, NEW todo \in SUBSET Sockets
  PROVE  /\ Asking(k, s, todo) \in TaskType
         /\ Asking(k, s, todo).stage = "pruneSession" /\ Asking(k, s, todo).cur = s
         /\ Asking(k, s, todo).todo = todo
         /\ Asking(k, s, todo).kind = k.kind /\ Asking(k, s, todo).socket = k.socket
         /\ Asking(k, s, todo).msg = k.msg /\ Asking(k, s, todo).on = k.on
<1> DEFINE first == [k EXCEPT !.stage = "pruneSession"]
           second == [first EXCEPT !.cur = s]
<1>1. Asking(k, s, todo) = [second EXCEPT !.todo = todo]
  BY DEF Asking, TaskType
<1>2. /\ first \in TaskType /\ first.stage = "pruneSession"
      /\ first.kind = k.kind /\ first.socket = k.socket
      /\ first.msg = k.msg /\ first.on = k.on
  BY DEF TaskType
<1> HIDE DEF first
<1>3. /\ second \in TaskType /\ second.stage = "pruneSession" /\ second.cur = s
      /\ second.kind = k.kind /\ second.socket = k.socket
      /\ second.msg = k.msg /\ second.on = k.on
  BY <1>2 DEF TaskType
<1> HIDE DEF second
<1> QED
  BY <1>1, <1>3 DEF TaskType

\* A pruning by handler t stands at c and has todo still to look at.
Stands(t, c, todo) ==
  /\ MemoryOK(c, open') /\ open' \subseteq open /\ todo \subseteq Owned
  /\ \/ task[t].stage \in Pruning
     \/ task[t].stage = "operation" /\ task[t].answer = "yes"
     \/ task[t].kind = "sweep"
  /\ open' = open \/ task[t].kind = "sweep"
  /\ Announcing(task[t]) =>
       \A s \in c.room, why \in {"session", "member"} :
         <<s, why>> \in outsiders[Attempt(task[t])] => s \in todo

\* What a step of a pruning gives.
PruneNext ==
  /\ HandlersNext /\ MemoryOK(chat', open')
  /\ announced' \in [Attempts -> Nat] /\ troubles' \in 0 .. MaxTroubles
  /\ \A m \in Attempts : announced'[m] # announced[m] =>
       \A s \in chat'.room, why \in {"session", "member"} : <<s, why>> \notin outsiders[m]

LEMMA PruneFinishes ==
  ASSUME IInv, Watch, NEW t \in Tasks, NEW c, NEW todo, Stands(t, c, todo),
         todo \cap open = {}, Finish(t, c), UNCHANGED <<owner, stored>>
  PROVE  PruneNext
<1> DEFINE k == task[t]
<1>0. /\ k \in TaskType /\ HandlerOK(k) /\ announced \in [Attempts -> Nat]
      /\ owner \in [Sockets -> Users \cup {NoUser}] /\ open' \in SUBSET Sockets
      /\ troubles' \in 0 .. MaxTroubles /\ task' = [task EXCEPT ![t] = Idle]
  BY DEF IInv, TypeOK, Finish, Stands
<1>1. MemoryOK(chat', open')
  <2>1. MemoryOK(c, open')
    BY DEF Stands
  <2>2. CASE k.kind = "join"
    <3>1. open' = open /\ k.socket \in Owned
      BY <1>0, <2>2 DEF Stands, HandlerOK, Requests
    <3>2. chat' = Enter(c, k.socket)
      BY <2>2 DEF Finish
    <3> QED
      BY <2>1, <3>1, <3>2, EnterOK
  <2>3. CASE k.kind = "typing"
    <3>1. k.socket \in Sockets
      BY <1>0, <2>3 DEF HandlerOK, Requests, Owned
    <3>2. chat' = Type(c, k.socket, k.on)
      BY <2>3 DEF Finish
    <3>3. k.on = TRUE \/ k.on = FALSE
      BY <1>0 DEF TaskType
    <3> QED
      BY <1>0, <2>1, <3>1, <3>2, <3>3, TypeOnOK, TypeOffOK
  <2>4. CASE k.kind # "join" /\ k.kind # "typing"
    BY <2>1, <2>4 DEF Finish
  <2> QED
    BY <2>2, <2>3, <2>4
<1>2. CASE k.kind = "send" /\ k.on
  <2>1. Announcing(k)
    BY <1>2 DEF Stands, Announcing
  <2>2. announced' = [announced EXCEPT ![Attempt(k)] = @ + 1] /\ chat' = c
    BY <1>2 DEF Finish
  <2>3. HandlersNext /\ announced' \in [Attempts -> Nat]
    BY <1>0, <2>1, <2>2, FinishStep
  <2>4. \A s \in chat'.room, why \in {"session", "member"} :
          <<s, why>> \notin outsiders[Attempt(k)]
    BY <2>1, <2>2 DEF Stands, MemoryOK
  <2> QED
    BY <1>0, <1>1, <2>2, <2>3, <2>4 DEF PruneNext
<1>3. CASE ~(k.kind = "send" /\ k.on)
  <2>1. announced' = announced
    BY <1>3 DEF Finish
  <2>2. HandlersNext
    BY <1>0, <2>1, IdleFollows, HandlerStep
  <2> QED
    BY <1>0, <1>1, <2>1, <2>2 DEF PruneNext
<1> QED
  BY <1>2, <1>3

LEMMA PruneOK ==
  ASSUME IInv, Watch, NEW t \in Tasks, NEW c, NEW todo, Stands(t, c, todo),
         Prune(t, c, todo), UNCHANGED <<owner, stored>>
  PROVE  PruneNext
<1>1. CASE todo \cap open = {}
  BY <1>1, PruneFinishes DEF Prune
<1>2. CASE todo \cap open # {}
  <2>1. PICK s \in todo \cap open : AskSession(t, Asking(task[t], s, todo \ {s}), s)
    BY <1>2 DEF Prune, Asking
  <2>2. chat' = c /\ announced' = announced
    BY <1>2 DEF Prune
  <2>3. PICK k0 \in TaskType : k0 = task[t]
    BY DEF IInv, TypeOK
  <2>4. todo \subseteq Sockets /\ s \in Sockets /\ s \in Owned /\ HandlerOK(k0)
    BY <2>3 DEF Stands, Owned, IInv
  <2>5. PICK k1 \in TaskType : k1 = Asking(k0, s, todo \ {s})
    BY <2>4, AskingFields
  <2>6. /\ k1.stage = "pruneSession" /\ k1.cur = s /\ k1.todo = todo \ {s}
        /\ k1.kind = k0.kind /\ k1.socket = k0.socket
        /\ k1.msg = k0.msg /\ k1.on = k0.on
    BY <2>4, <2>5, AskingFields
  <2>7. PICK a \in {"yes", "no"} : a = YesNo(s \in session)
    BY DEF YesNo
  <2>8. Await(t, k1, a)
    BY <2>1, <2>3, <2>5, <2>7 DEF AskSession
  <2>9. TypeOK
    BY DEF IInv
  <2>10. /\ troubles' \in 0 .. MaxTroubles
         /\ \E b \in {a, "error"} : task' = [task EXCEPT ![t] = Answered(k1, b)]
    BY <2>8, <2>9, AwaitStep
  <2>11. PICK b \in {a, "error"} : task' = [task EXCEPT ![t] = Answered(k1, b)]
    BY <2>10
  <2>12. PICK k \in TaskType : k = Answered(k1, b)
    BY AnsweredFields
  <2>13. /\ k.stage = "pruneSession" /\ k.cur = s /\ k.todo = todo \ {s}
         /\ k.kind = k0.kind /\ k.socket = k0.socket
         /\ k.msg = k0.msg /\ k.on = k0.on /\ k.answer = b
    BY <2>6, <2>12, AnsweredFields
  <2>14. HandlerOK(k)
    BY <2>4, <2>13 DEF HandlerOK, Pruning, Stands
  <2>15. ASSUME Announcing(k)
         PROVE  /\ Announcing(k0) /\ Attempt(k) = Attempt(k0)
                /\ \A q \in chat'.room, why \in {"session", "member"} :
                     <<q, why>> \in outsiders[Attempt(k)] => Catches(k, q, why)
    <3>1. Announcing(k0) /\ Attempt(k) = Attempt(k0)
      BY <2>3, <2>13, <2>15 DEF Announcing, Attempt, Stands
    <3>2. ASSUME NEW q \in chat'.room, NEW why \in {"session", "member"},
                 <<q, why>> \in outsiders[Attempt(k0)]
          PROVE  Catches(k, q, why)
      <4>1. q \in todo
        BY <2>2, <2>3, <3>1, <3>2 DEF Stands
      <4>2. CASE q # s
        BY <2>13, <4>1, <4>2 DEF Catches, Pruning
      <4>3. CASE q = s /\ why = "member"
        BY <2>13, <4>3 DEF Catches
      <4>4. CASE q = s /\ why = "session"
        <5>1. Attempt(k0) \in Attempts
          BY <2>3, <3>1 DEF IInv, TypeOK, MessagesOK
        <5>2. <<s, "session">> \in Astray
          BY <3>2, <4>4, <5>1 DEF IInv, OutsidersOK
        <5>3. s \notin session
          BY <5>2 DEF Astray
        <5>4. b # "yes"
          BY <2>7, <2>11, <5>3 DEF YesNo
        <5> QED
          BY <2>13, <4>4, <5>4 DEF Catches
      <4> QED
        BY <4>2, <4>3, <4>4
    <3> QED
      BY <3>1, <3>2
  <2>16. Follows(t, k)
    BY <2>3, <2>14, <2>15 DEF Follows
  <2>17. HandlersNext
    BY <2>2, <2>11, <2>12, <2>16, HandlerStep
  <2> QED
    BY <2>2, <2>9, <2>10, <2>17 DEF PruneNext, Stands, TypeOK
<1> QED
  BY <1>1, <1>2

-----------------------------------------------------------------------------
(* The actions, one by one *)

\* Whoever is in the room and should not be does not hear what is announced.
Heard == \A m \in Attempts : announced'[m] # announced[m] =>
           \A s \in chat'.room, why \in {"session", "member"} : <<s, why>> \notin outsiders[m]

LEMMA Assemble ==
  ASSUME IInv, Watch, HandlersNext, MemoryOK(chat', open'), open' \subseteq Owned,
         owner' = owner, member' \subseteq Users, removed' \subseteq Users,
         session' \subseteq Sockets, stored' \subseteq Attempts, stored \subseteq stored',
         stored' # stored => Astray \subseteq Astray',
         announced' \in [Attempts -> Nat], troubles' \in 0 .. MaxTroubles
  PROVE  IInv'
<1>1. outsiders' \in [Attempts -> SUBSET (Sockets \X {"session", "member"})]
  BY WatchOutsiders
<1>2. MemoryOK(chat, open)' /\ open' \subseteq Owned'
  BY MemoryNext
<1>3. chat' \in ChatType /\ open' \subseteq Sockets /\ task' \in [Tasks -> TaskType]
  BY DEF MemoryOK, HandlersNext, Owned
<1>4. TypeOK'
  BY <1>1, <1>3 DEF IInv, TypeOK
<1> QED
  BY <1>2, <1>4 DEF HandlersNext, IInv

\* Most steps store and announce nothing.
LEMMA SilentStep ==
  ASSUME IInv, Watch, HandlersNext, MemoryOK(chat', open'), open' \subseteq open,
         UNCHANGED <<database, owner, announced>>, removed' \subseteq removed,
         troubles' \in 0 .. MaxTroubles
  PROVE  IInv' /\ Heard
<1>1. /\ member' \subseteq Users /\ removed' \subseteq Users /\ session' \subseteq Sockets
      /\ stored' \subseteq Attempts /\ stored' = stored
      /\ open' \subseteq Owned /\ owner' = owner /\ announced' \in [Attempts -> Nat]
  BY DEF IInv, TypeOK, database
<1>2. IInv'
  BY <1>1, Assemble
<1> QED
  BY <1>2 DEF Heard

\* A handler that ends, or goes on with record k, and tells nobody anything.
LEMMA HandlerGoesOn ==
  ASSUME IInv, Watch, NEW t \in Tasks, NEW k, Follows(t, k),
         task' = [task EXCEPT ![t] = k],
         UNCHANGED <<database, removed, owner, announced>>, open' \subseteq open,
         MemoryOK(chat', open'), troubles' \in 0 .. MaxTroubles
  PROVE  IInv' /\ Heard
<1>1. UNCHANGED <<owner, announced, stored>> /\ removed' \subseteq removed
  BY DEF database
<1>2. HandlersNext
  BY <1>1, HandlerStep
<1> QED
  BY <1>1, <1>2, SilentStep

LEMMA EndStep ==
  ASSUME IInv, Watch, NEW t \in Tasks, End(t), UNCHANGED <<database, removed, owner, open>>
  PROVE  IInv' /\ Heard
<1>1. /\ task' = [task EXCEPT ![t] = Idle] /\ announced' = announced
      /\ MemoryOK(chat', open') /\ open' \subseteq open /\ troubles' \in 0 .. MaxTroubles
  BY DEF End, IInv, TypeOK
<1> QED
  BY <1>1, IdleFollows, HandlerGoesOn

LEMMA RefusedStep ==
  ASSUME IInv, Watch, NEW t \in Tasks, Refused(t)
  PROVE  IInv' /\ Heard
<1>1. CASE task[t].answer = "no"
  <2>1. PICK k0 \in TaskType : k0 = task[t]
    BY DEF IInv, TypeOK
  <2> DEFINE k == [k0 EXCEPT !.stage = "hangup"]
  <2>2. /\ k \in TaskType /\ k.stage = "hangup" /\ k.kind = k0.kind
        /\ k.socket = k0.socket /\ k.msg = k0.msg /\ k.on = k0.on /\ k.todo = k0.todo
    BY DEF TaskType
  <2>3. task' = [task EXCEPT ![t] = k]
    BY <1>1, <2>1 DEF Refused, IInv, TypeOK
  <2> HIDE DEF k
  <2>4. HandlerOK(k0) /\ k0.stage = "session"
    BY <2>1 DEF IInv, Refused
  <2>5. HandlerOK(k) /\ ~Announcing(k)
    BY <2>2, <2>4 DEF HandlerOK, Pruning, Announcing
  <2>6. Follows(t, k)
    BY <2>2, <2>5 DEF Follows
  <2>7. /\ UNCHANGED <<database, removed, owner, announced>> /\ open' \subseteq open
        /\ MemoryOK(chat', open') /\ troubles' \in 0 .. MaxTroubles
    BY <1>1 DEF Refused, IInv, TypeOK
  <2> QED
    BY <2>3, <2>6, <2>7, HandlerGoesOn
<1>2. CASE task[t].answer # "no"
  BY <1>2, EndStep DEF Refused
<1> QED
  BY <1>1, <1>2

LEMMA LeaveRoomStep ==
  ASSUME IInv, Watch, NEW t \in Tasks, LeaveRoom(t)
  PROVE  IInv' /\ Heard
<1>1. PICK s \in Sockets : s = task[t].socket /\ owner[s] \in Users
  BY DEF IInv, HandlerOK, LeaveRoom, Accepted, Requests, Owned
<1>2. PICK u \in Users : u = owner[s]
  BY <1>1
<1>3. chat' = Leave(chat, {s}, u)
  BY <1>1, <1>2 DEF LeaveRoom
<1>4. TabsOf({s}, u) /\ MemoryOK(chat, open) /\ open \in SUBSET Sockets
  BY <1>2 DEF TabsOf, IInv, TypeOK
<1>5. LeftOK(chat, {s}, open, Leave(chat, {s}, u))
  BY <1>4, LeaveOK
<1>6. MemoryOK(chat', open') /\ open' \subseteq open
  BY <1>3, <1>5 DEF LeftOK, LeaveRoom
<1>7. /\ task' = [task EXCEPT ![t] = Idle] /\ troubles' \in 0 .. MaxTroubles
      /\ UNCHANGED <<database, removed, owner, announced>>
  BY DEF LeaveRoom, IInv, TypeOK
<1> QED
  BY <1>6, <1>7, IdleFollows, HandlerGoesOn

\* A handler asks for an answer a, and goes on with k in its record.
LEMMA AskStep ==
  ASSUME IInv, Watch, NEW t \in Tasks, NEW k \in TaskType, HandlerOK(k),
         k.stage \in {"session", "operation", "sweep", "pruneSession"},
         k.kind # "send" \/ k.stage = "session",
         NEW a \in {"yes", "no"}, Await(t, k, a),
         UNCHANGED <<database, removed, owner, announced>>, open' \subseteq open,
         MemoryOK(chat', open')
  PROVE  IInv' /\ Heard
<1>1. TypeOK
  BY DEF IInv
<1>2. /\ troubles' \in 0 .. MaxTroubles
      /\ \E b \in {a, "error"} : task' = [task EXCEPT ![t] = Answered(k, b)]
  BY <1>1, AwaitStep
<1>3. PICK b \in {a, "error"} : task' = [task EXCEPT ![t] = Answered(k, b)]
  BY <1>2
<1>4. PICK j \in TaskType : j = Answered(k, b)
  BY AnsweredFields
<1>5. /\ j.stage = k.stage /\ j.cur = k.cur /\ j.todo = k.todo /\ j.kind = k.kind
      /\ j.socket = k.socket /\ j.msg = k.msg /\ j.on = k.on
  BY <1>4, AnsweredFields
<1>6. HandlerOK(j) /\ ~Announcing(j)
  BY <1>5 DEF HandlerOK, Announcing, Pruning
<1>7. Follows(t, j)
  BY <1>6 DEF Follows
<1> QED
  BY <1>2, <1>3, <1>4, <1>7, HandlerGoesOn

\* The records with which handlers start.
Received(kind, s, m, on) ==
  [Idle EXCEPT !.kind = kind, !.socket = s, !.msg = m, !.on = on, !.stage = "session"]
Started(kind, stage, s, todo) ==
  [Idle EXCEPT !.kind = kind, !.stage = stage, !.cur = s, !.todo = todo]

LEMMA IdleType == Idle \in TaskType
BY DEF Idle, TaskType, Kinds

LEMMA ReceivedFields ==
  ASSUME NEW kind \in Kinds, NEW s \in Sockets,
         NEW m \in Messages \cup {NoMessage}, NEW on \in BOOLEAN
  PROVE  LET k == Received(kind, s, m, on)
         IN  /\ k \in TaskType /\ k.kind = kind /\ k.socket = s /\ k.msg = m
             /\ k.on = on /\ k.stage = "session" /\ k.todo = {}
<1> DEFINE first == [Idle EXCEPT !.kind = kind]
           second == [first EXCEPT !.socket = s]
           third == [second EXCEPT !.msg = m]
           fourth == [third EXCEPT !.on = on]
<1>0. Received(kind, s, m, on) = [fourth EXCEPT !.stage = "session"]
  BY IdleType DEF Received, TaskType
<1>1. first \in TaskType /\ first.kind = kind /\ first.todo = {}
  <2>1. Idle.todo = {}
    BY DEF Idle
  <2> QED
    BY <2>1, IdleType DEF TaskType
<1> HIDE DEF first
<1>2. second \in TaskType /\ second.kind = kind /\ second.socket = s /\ second.todo = {}
  BY <1>1 DEF TaskType
<1> HIDE DEF second
<1>3. /\ third \in TaskType /\ third.kind = kind /\ third.socket = s /\ third.todo = {}
      /\ third.msg = m
  BY <1>2 DEF TaskType
<1> HIDE DEF third
<1>4. /\ fourth \in TaskType /\ fourth.kind = kind /\ fourth.socket = s
      /\ fourth.todo = {} /\ fourth.msg = m /\ fourth.on = on
  BY <1>3 DEF TaskType
<1> HIDE DEF fourth
<1> QED
  BY <1>0, <1>4 DEF TaskType

\* k is the record of a handler that starts by asking about s.
AsksFirst(kind, stage, s, todo, k) ==
  /\ k \in TaskType /\ k.kind = kind /\ k.on = FALSE
  /\ k.stage = stage /\ k.cur = s /\ k.todo = todo

LEMMA StartedFields ==
  ASSUME NEW kind \in Kinds, NEW stage \in {"pruneSession", "sweep"},
         NEW s \in Sockets, NEW todo \in SUBSET Sockets
  PROVE  AsksFirst(kind, stage, s, todo, Started(kind, stage, s, todo))
<1> DEFINE first == [Idle EXCEPT !.kind = kind]
           second == [first EXCEPT !.stage = stage]
           third == [second EXCEPT !.cur = s]
<1>0. Started(kind, stage, s, todo) = [third EXCEPT !.todo = todo]
  BY IdleType DEF Started, TaskType
<1>1. first \in TaskType /\ first.kind = kind /\ first.on = FALSE
  <2>1. Idle.on = FALSE
    BY DEF Idle
  <2> QED
    BY <2>1, IdleType DEF TaskType
<1> HIDE DEF first
<1>2. second \in TaskType /\ second.kind = kind /\ second.on = FALSE /\ second.stage = stage
  BY <1>1 DEF TaskType
<1> HIDE DEF second
<1>3. /\ third \in TaskType /\ third.kind = kind /\ third.on = FALSE
      /\ third.stage = stage /\ third.cur = s
  BY <1>2 DEF TaskType
<1> HIDE DEF third
<1> QED
  BY <1>0, <1>3 DEF TaskType, AsksFirst

LEMMA ReceiveStep ==
  ASSUME IInv, Watch, NEW t \in Calls, NEW s \in Sockets, NEW kind \in Traffic \cap Requests,
         NEW m \in Messages \cup {NoMessage}, NEW on \in BOOLEAN,
         Receive(t, s, kind, m, on)
  PROVE  IInv' /\ Heard
<1>1. PICK k : k = Received(kind, s, m, on)
  OBVIOUS
<1>2. /\ k \in TaskType /\ k.kind = kind /\ k.socket = s /\ k.msg = m
      /\ k.on = on /\ k.stage = "session" /\ k.todo = {}
  BY <1>1, ReceivedFields DEF Kinds
<1>4. PICK a \in {"yes", "no"} : a = YesNo(s \in session)
  BY DEF YesNo
<1>5. Await(t, k, a)
  BY <1>1, <1>4 DEF Receive, AskSession, Received
<1>7. s \in Owned /\ (m # NoMessage <=> kind = "send") /\ (on => kind = "typing")
  BY DEF Receive, IInv
<1>8. HandlerOK(k)
  BY <1>2, <1>7 DEF HandlerOK, Pruning
<1>9. /\ t \in Tasks /\ UNCHANGED <<database, removed, owner, announced>>
      /\ open' \subseteq open /\ MemoryOK(chat', open')
  BY DEF Receive, Tasks, IInv
<1> QED
  BY <1>2, <1>5, <1>8, <1>9, AskStep

LEMMA HandleEventStep ==
  ASSUME IInv, Watch, NEW t \in Calls, HandleEvent(t)
  PROVE  IInv' /\ Heard
<1>1. PICK s \in chat.room :
        AskSession(t, [Idle EXCEPT !.kind = "event", !.stage = "pruneSession",
                                   !.cur = s, !.todo = chat.room \ {s}], s)
  BY DEF HandleEvent
<1>2. chat.room \subseteq Owned /\ s \in Sockets /\ chat.room \subseteq Sockets
  BY DEF IInv, MemoryOK, ChatType
<1>3. PICK todo \in SUBSET Sockets : todo = chat.room \ {s}
  BY <1>2
<1>4. PICK k : k = Started("event", "pruneSession", s, todo)
  OBVIOUS
<1>5. /\ k \in TaskType /\ k.kind = "event" /\ k.on = FALSE
      /\ k.stage = "pruneSession" /\ k.cur = s /\ k.todo = todo
  <2>1. "event" \in Kinds /\ "pruneSession" \in {"pruneSession", "sweep"}
    BY DEF Kinds
  <2>2. AsksFirst("event", "pruneSession", s, todo, k)
    BY <1>2, <1>4, <2>1, StartedFields
  <2> QED
    BY <2>2 DEF AsksFirst
<1>6. [Idle EXCEPT !.kind = "event", !.stage = "pruneSession",
                   !.cur = s, !.todo = chat.room \ {s}] = k
  BY <1>3, <1>4 DEF Started
<1>7. PICK a \in {"yes", "no"} : a = YesNo(s \in session)
  BY DEF YesNo
<1>8. Await(t, k, a)
  BY <1>1, <1>6, <1>7 DEF AskSession
<1>10. HandlerOK(k)
  BY <1>2, <1>3, <1>5 DEF HandlerOK, Requests, Pruning
<1>11. /\ t \in Tasks /\ UNCHANGED <<database, removed, owner, announced>>
       /\ open' \subseteq open /\ MemoryOK(chat', open')
  BY DEF HandleEvent, Tasks, IInv
<1> QED
  BY <1>5, <1>8, <1>10, <1>11, AskStep

LEMMA SweepNextStep ==
  ASSUME IInv, Watch, NEW todo \in SUBSET Owned, SweepNext(todo),
         UNCHANGED <<database, removed, owner, announced>>, open' \subseteq open,
         MemoryOK(chat', open')
  PROVE  IInv' /\ Heard
<1>1. PICK s \in todo :
        AskSession(Sweeper, [Idle EXCEPT !.kind = "sweep", !.stage = "sweep",
                                         !.cur = s, !.todo = todo \ {s}], s)
  BY DEF SweepNext
<1>2. s \in Sockets /\ s \in Owned /\ todo \subseteq Sockets
  BY DEF Owned
<1>3. PICK rest \in SUBSET Sockets : rest = todo \ {s}
  BY <1>2
<1>4. PICK k : k = Started("sweep", "sweep", s, rest)
  OBVIOUS
<1>5. /\ k \in TaskType /\ k.kind = "sweep" /\ k.on = FALSE
      /\ k.stage = "sweep" /\ k.cur = s /\ k.todo = rest
  <2>1. "sweep" \in Kinds /\ "sweep" \in {"pruneSession", "sweep"}
    BY DEF Kinds
  <2>2. AsksFirst("sweep", "sweep", s, rest, k)
    BY <1>2, <1>4, <2>1, StartedFields
  <2> QED
    BY <2>2 DEF AsksFirst
<1>6. [Idle EXCEPT !.kind = "sweep", !.stage = "sweep",
                   !.cur = s, !.todo = todo \ {s}] = k
  BY <1>3, <1>4 DEF Started
<1>7. PICK a \in {"yes", "no"} : a = YesNo(s \in session)
  BY DEF YesNo
<1>8. Await(Sweeper, k, a)
  BY <1>1, <1>6, <1>7 DEF AskSession
<1>10. HandlerOK(k)
  BY <1>2, <1>3, <1>5 DEF HandlerOK, Requests, Pruning
<1>11. Sweeper \in Tasks
  BY DEF Tasks
<1> QED
  BY <1>5, <1>8, <1>10, <1>11, AskStep

LEMMA StartSweepStep ==
  ASSUME IInv, Watch, StartSweep
  PROVE  IInv' /\ Heard
<1>1. /\ UNCHANGED <<database, removed, owner, announced>> /\ open' \subseteq open
      /\ MemoryOK(chat', open') /\ UNCHANGED stored
  BY DEF StartSweep, IInv, database
<1>2. CASE open # {}
  <2>1. open \in SUBSET Owned /\ SweepNext(open)
    BY <1>2 DEF StartSweep, IInv
  <2> QED
    BY <1>1, <2>1, SweepNextStep
<1>3. CASE open = {}
  <2>1. UNCHANGED <<owner, task, announced, stored>> /\ troubles' \in 0 .. MaxTroubles
    BY <1>1, <1>3 DEF StartSweep, IInv, TypeOK
  <2>2. HandlersNext
    BY <2>1, QuietStep
  <2> QED
    BY <1>1, <2>1, <2>2, SilentStep
<1> QED
  BY <1>2, <1>3

LEMMA AuthoriseStep ==
  ASSUME IInv, Watch, NEW t \in Tasks, Authorise(t)
  PROVE  IInv' /\ Heard
<1>1. PICK k0 \in TaskType : k0 = task[t]
  BY DEF IInv, TypeOK
<1>2. /\ HandlerOK(k0) /\ k0.stage = "session" /\ k0.kind \in {"join", "typing", "act"}
      /\ AskMember(t, [k0 EXCEPT !.stage = "operation"], k0.socket)
  BY <1>1 DEF IInv, Authorise, Accepted
<1>3. PICK k : k = [k0 EXCEPT !.stage = "operation"]
  OBVIOUS
<1>4. /\ k \in TaskType /\ k.stage = "operation" /\ k.kind = k0.kind
      /\ k.socket = k0.socket /\ k.msg = k0.msg /\ k.on = k0.on /\ k.todo = k0.todo
  BY <1>3 DEF TaskType
<1>5. HandlerOK(k)
  BY <1>2, <1>4 DEF HandlerOK, Pruning
<1>6. PICK a \in {"yes", "no"} : a = YesNo(owner[k0.socket] \in member)
  BY DEF YesNo
<1>7. Await(t, k, a)
  BY <1>2, <1>3, <1>6 DEF AskMember
<1>8. /\ UNCHANGED <<database, removed, owner, announced>> /\ open' \subseteq open
      /\ MemoryOK(chat', open')
  BY DEF Authorise, IInv
<1> QED
  BY <1>2, <1>4, <1>5, <1>7, <1>8, AskStep

LEMMA SendStep ==
  ASSUME IInv, Watch, NEW t \in Tasks, Send(t)
  PROVE  IInv' /\ Heard
<1>1. PICK k0 \in TaskType : k0 = task[t]
  BY DEF IInv, TypeOK
<1>2. /\ HandlerOK(k0) /\ k0.stage = "session" /\ k0.kind = "send"
      /\ k0.socket \in Owned /\ k0.msg \in Messages
  BY <1>1 DEF IInv, Send, Accepted, HandlerOK, Requests
<1>3. PICK m \in Attempts : m = Attempt(k0)
  BY <1>2 DEF Attempts, Attempt, Owned
<1>4. PICK new \in BOOLEAN : new = (m \notin stored)
  OBVIOUS
<1> DEFINE first == [k0 EXCEPT !.stage = "operation"]
           k == [first EXCEPT !.on = new]
<1>5. /\ first \in TaskType /\ first.stage = "operation" /\ first.kind = k0.kind
      /\ first.socket = k0.socket /\ first.msg = k0.msg /\ first.todo = k0.todo
  BY DEF TaskType
<1>6. [k0 EXCEPT !.stage = "operation", !.on = new] = k
  BY DEF TaskType
<1> HIDE DEF first
<1>7. /\ k \in TaskType /\ k.stage = "operation" /\ k.kind = "send" /\ k.on = new
      /\ k.socket = k0.socket /\ k.msg = k0.msg /\ k.todo = k0.todo
  BY <1>2, <1>5 DEF TaskType
<1> HIDE DEF k
<1>8. PICK a \in {"yes", "no"} : a = YesNo(owner[k0.socket] \in member)
  BY DEF YesNo
<1>9. Await(t, k, a)
  <2>1. (Attempt(k0) \notin stored) = new
    BY <1>3, <1>4
  <2>2. Await(t, [k0 EXCEPT !.stage = "operation", !.on = new], a)
    BY <1>1, <1>8, <2>1 DEF Send
  <2> QED
    BY <1>6, <2>2
<1>10. TypeOK
  BY DEF IInv
<1>11. /\ troubles' \in 0 .. MaxTroubles
       /\ \E b \in {a, "error"} : task' = [task EXCEPT ![t] = Answered(k, b)]
  BY <1>7, <1>9, <1>10, AwaitStep
<1>12. PICK b \in {a, "error"} : task' = [task EXCEPT ![t] = Answered(k, b)]
  BY <1>11
<1>13. PICK j \in TaskType : j = Answered(k, b)
  BY <1>7, AnsweredFields
<1>14. /\ j.stage = "operation" /\ j.kind = "send" /\ j.on = new /\ j.answer = b
       /\ j.socket = k0.socket /\ j.msg = k0.msg /\ j.todo = k0.todo
  BY <1>7, <1>13, AnsweredFields
<1>15. /\ task \in [Tasks -> TaskType] /\ task'[t] = j
       /\ \A r \in Tasks \ {t} : task'[r] = task[r]
  BY <1>10, <1>12, <1>13 DEF TypeOK
<1>16. /\ member' = member /\ session' = session
       /\ UNCHANGED <<removed, owner, open, chat, announced>>
       /\ \/ owner[k0.socket] \in member /\ stored' = stored \cup {m}
          \/ (owner[k0.socket] \in member => j.answer = "error") /\ stored' = stored
  BY <1>1, <1>3, <1>15 DEF Send
<1>17. j.answer = "yes" => stored' = stored \cup {m}
  BY <1>8, <1>14, <1>16 DEF YesNo
<1>18. /\ stored \subseteq stored' /\ stored' \subseteq Attempts /\ Astray \subseteq Astray'
       /\ stored \subseteq Attempts
  BY <1>10, <1>16 DEF TypeOK, Astray
<1>19. /\ \A n \in stored : outsiders'[n] = outsiders[n] \cap Astray'
       /\ \A n \in Attempts : outsiders'[n] \subseteq Astray'
       /\ \A n \in Attempts \ stored' : outsiders'[n] = {}
  BY <1>18, WatchOutsiders
<1>20. HandlerOK(j) /\ Attempt(j) = m
  BY <1>2, <1>3, <1>14 DEF HandlerOK, Pruning, Attempt
<1>21. Announcing(j) => m \notin stored /\ m \in stored'
  BY <1>4, <1>14, <1>17 DEF Announcing, Pruning
<1>22. \A r \in Tasks : HandlerOK(task[r])'
  BY <1>15, <1>16, <1>20 DEF IInv, HandlerOK, Owned
<1>23. \A r \in Tasks : Announcing(task[r])' = Announcing(task'[r])
                        /\ Attempt(task[r])' = Attempt(task'[r])
  BY <1>16 DEF Announcing, Attempt
<1>24. MessagesOK'
  <2>0. \A n \in Attempts : announced[n] = 0 \/ (announced[n] = 1 /\ n \in stored)
    BY DEF IInv, MessagesOK, AnnouncedOnce
  <2>1. ASSUME NEW r \in Tasks, Announcing(task'[r])
        PROVE  Attempt(task'[r]) \in stored' /\ announced[Attempt(task'[r])] = 0
    <3>1. CASE r = t
      BY <1>15, <1>20, <1>21, <2>0, <2>1, <3>1
    <3>2. CASE r # t
      BY <1>15, <1>18, <2>1, <3>2 DEF IInv, MessagesOK
    <3> QED
      BY <3>1, <3>2
  <2>2. ASSUME NEW q \in Tasks, NEW r \in Tasks, Announcing(task'[q]),
               Announcing(task'[r]), q # r
        PROVE  Attempt(task'[q]) # Attempt(task'[r])
    <3>1. \A p \in Tasks \ {t} : Announcing(task'[p]) =>
            task'[p] = task[p] /\ Attempt(task[p]) \in stored
      BY <1>15 DEF IInv, MessagesOK
    <3>2. CASE q = t
      BY <1>15, <1>20, <1>21, <2>2, <3>1, <3>2
    <3>3. CASE r = t
      BY <1>15, <1>20, <1>21, <2>2, <3>1, <3>3
    <3>4. CASE q # t /\ r # t
      BY <1>15, <2>2, <3>4 DEF IInv, MessagesOK
    <3> QED
      BY <3>2, <3>3, <3>4
  <2>3. AnnouncedOnce'
    BY <1>16, <1>18, <2>0 DEF AnnouncedOnce
  <2> QED
    BY <1>16, <1>23, <2>1, <2>2, <2>3 DEF MessagesOK
<1>25. OutsidersOK'
  <2>1. ASSUME NEW r \in Tasks, Announcing(task'[r]), NEW s \in Sockets,
               NEW why \in {"session", "member"},
               <<s, why>> \in outsiders'[Attempt(task'[r])]
        PROVE  Catches(task'[r], s, why)
    <3>1. CASE r = t
      BY <1>14, <1>15, <3>1 DEF Catches
    <3>2. CASE r # t
      <4>1. task'[r] = task[r] /\ Attempt(task[r]) \in stored
        BY <1>15, <2>1, <3>2 DEF IInv, MessagesOK
      <4>2. <<s, why>> \in outsiders[Attempt(task[r])]
        BY <1>19, <2>1, <4>1
      <4> QED
        BY <2>1, <4>1, <4>2 DEF IInv, OutsidersOK
    <3> QED
      BY <3>1, <3>2
  <2>2. \A r \in Tasks, s \in Sockets, why \in {"session", "member"} :
          Catches(task[r], s, why)' = Catches(task'[r], s, why)
    BY DEF Catches
  <2> QED
    BY <1>19, <1>23, <2>1, <2>2 DEF OutsidersOK
<1>26. HandlersNext
  <2>1. task' \in [Tasks -> TaskType]
    BY <1>12, <1>13, <1>15
  <2> QED
    BY <1>22, <1>24, <1>25, <2>1 DEF HandlersNext
<1>27. /\ MemoryOK(chat', open') /\ open' \subseteq Owned /\ owner' = owner
       /\ member' \subseteq Users /\ removed' \subseteq Users /\ session' \subseteq Sockets
       /\ announced' \in [Attempts -> Nat]
  BY <1>10, <1>16 DEF IInv, TypeOK
<1>28. IInv'
  BY <1>11, <1>18, <1>26, <1>27, Assemble
<1> QED
  BY <1>16, <1>28 DEF Heard

LEMMA PruneStep ==
  ASSUME IInv, Watch, PruneNext, UNCHANGED <<database, removed, owner>>, open' \subseteq open
  PROVE  IInv' /\ Heard
<1>1. /\ member' \subseteq Users /\ removed' \subseteq Users /\ session' \subseteq Sockets
      /\ stored' \subseteq Attempts /\ stored' = stored /\ owner' = owner
      /\ open' \subseteq Owned
  BY DEF IInv, TypeOK, database
<1>2. IInv'
  BY <1>1, Assemble DEF PruneNext
<1> QED
  BY <1>2 DEF PruneNext, Heard

LEMMA ResumeOperationStep ==
  ASSUME IInv, Watch, NEW t \in Tasks, ResumeOperation(t)
  PROVE  IInv' /\ Heard
<1>1. CASE task[t].answer = "yes"
  <2>1. PICK c : c = chat
    OBVIOUS
  <2>2. PICK todo : todo = c.room
    OBVIOUS
  <2>3. Prune(t, c, todo) /\ UNCHANGED <<database, removed, owner, open>>
    BY <1>1, <2>1, <2>2 DEF ResumeOperation, StartPrune
  <2>4. Stands(t, c, todo)
    BY <1>1, <2>1, <2>2, <2>3 DEF Stands, IInv, MemoryOK, ResumeOperation
  <2>5. UNCHANGED <<owner, stored>>
    BY <2>3 DEF database
  <2>6. PruneNext
    BY <2>3, <2>4, <2>5, PruneOK
  <2> QED
    BY <2>3, <2>6, PruneStep
<1>2. CASE task[t].answer # "yes"
  BY <1>2, EndStep DEF ResumeOperation
<1> QED
  BY <1>1, <1>2

LEMMA ResumePruneStep ==
  ASSUME IInv, Watch, NEW t \in Tasks, ResumePrune(t)
  PROVE  IInv' /\ Heard
<1>1. PICK k0 \in TaskType : k0 = task[t]
  BY DEF IInv, TypeOK
<1>2. /\ HandlerOK(k0) /\ k0.stage \in Pruning /\ k0.cur \in Owned /\ k0.todo \subseteq Owned
  BY <1>1 DEF IInv, ResumePrune, HandlerOK, Pruning
<1>3. UNCHANGED <<database, removed, owner, open>> /\ UNCHANGED <<owner, stored>>
  BY DEF ResumePrune, database
<1>4. /\ MemoryOK(chat, open) /\ open \in SUBSET Sockets /\ TypeOK
  BY DEF IInv, TypeOK
<1>5. \A s \in Sockets, why \in {"session", "member"} :
        Announcing(k0) /\ <<s, why>> \in outsiders[Attempt(k0)] => Catches(k0, s, why)
  BY <1>1 DEF IInv, OutsidersOK
<1>6. chat.room \subseteq Sockets
  BY <1>4 DEF MemoryOK, ChatType
<1>7. CASE k0.answer # "yes"
  <2>1. PICK u \in Users : u = owner[k0.cur]
    BY <1>2 DEF Owned
  <2>2. PICK s \in Sockets : s = k0.cur
    BY <1>2 DEF Owned
  <2>3. PICK c : c = Leave(chat, {s}, u)
    OBVIOUS
  <2>4. TabsOf({s}, u)
    BY <2>1, <2>2 DEF TabsOf
  <2>5. LeftOK(chat, {s}, open, c)
    BY <1>4, <2>3, <2>4, LeaveOK
  <2>6. Prune(t, c, k0.todo)
    BY <1>1, <1>7, <2>1, <2>2, <2>3 DEF ResumePrune
  <2>7. ASSUME Announcing(k0), NEW q \in c.room, NEW why \in {"session", "member"},
               <<q, why>> \in outsiders[Attempt(k0)]
        PROVE  q \in k0.todo
    <3>1. q # k0.cur /\ q \in Sockets
      BY <1>6, <2>2, <2>5 DEF LeftOK
    <3> QED
      BY <1>2, <1>5, <2>7, <3>1 DEF Catches, Pruning
  <2>8. Stands(t, c, k0.todo)
    BY <1>1, <1>2, <1>3, <2>5, <2>7 DEF Stands, LeftOK
  <2>9. PICK todo : todo = k0.todo
    OBVIOUS
  <2>10. PruneNext
    BY <1>3, <2>6, <2>8, <2>9, PruneOK
  <2> QED
    BY <1>3, <2>10, PruneStep
<1>8. CASE k0.answer = "yes" /\ k0.stage = "pruneMember"
  <2>1. PICK c : c = chat
    OBVIOUS
  <2>2. PICK todo : todo = k0.todo
    OBVIOUS
  <2>3. Prune(t, c, todo)
    BY <1>1, <1>8, <2>1, <2>2 DEF ResumePrune
  <2>4. ASSUME Announcing(k0), NEW q \in c.room, NEW why \in {"session", "member"},
               <<q, why>> \in outsiders[Attempt(k0)]
        PROVE  q \in todo
    BY <1>5, <1>6, <1>8, <2>1, <2>2, <2>4 DEF Catches, Pruning
  <2>5. Stands(t, c, todo)
    BY <1>1, <1>2, <1>3, <1>4, <2>1, <2>2, <2>4 DEF Stands
  <2>6. PruneNext
    BY <1>3, <2>3, <2>5, PruneOK
  <2> QED
    BY <1>3, <2>6, PruneStep
<1>9. CASE k0.answer = "yes" /\ k0.stage = "pruneSession"
  <2> DEFINE k == [k0 EXCEPT !.stage = "pruneMember"]
  <2>1. /\ k \in TaskType /\ k.stage = "pruneMember" /\ k.kind = k0.kind
        /\ k.socket = k0.socket /\ k.msg = k0.msg /\ k.on = k0.on
        /\ k.todo = k0.todo /\ k.cur = k0.cur
    BY DEF TaskType
  <2>2. PICK a \in {"yes", "no"} : a = YesNo(owner[k0.cur] \in member)
    BY DEF YesNo
  <2>3. Await(t, k, a) /\ UNCHANGED <<chat, announced>>
    BY <1>1, <1>9, <2>2 DEF ResumePrune, AskMember
  <2> HIDE DEF k
  <2>4. /\ troubles' \in 0 .. MaxTroubles
        /\ \E b \in {a, "error"} : task' = [task EXCEPT ![t] = Answered(k, b)]
    BY <1>4, <2>1, <2>3, AwaitStep
  <2>5. PICK b \in {a, "error"} : task' = [task EXCEPT ![t] = Answered(k, b)]
    BY <2>4
  <2>6. PICK j \in TaskType : j = Answered(k, b)
    BY <2>1, AnsweredFields
  <2>7. /\ j.stage = "pruneMember" /\ j.kind = k0.kind /\ j.socket = k0.socket
        /\ j.msg = k0.msg /\ j.on = k0.on /\ j.todo = k0.todo /\ j.cur = k0.cur
        /\ j.answer = b
    BY <2>1, <2>6, AnsweredFields
  <2>8. HandlerOK(j)
    BY <1>2, <2>7 DEF HandlerOK, Pruning
  <2>9. ASSUME Announcing(j)
        PROVE  /\ Announcing(k0) /\ Attempt(j) = Attempt(k0)
               /\ \A s \in chat'.room, why \in {"session", "member"} :
                    <<s, why>> \in outsiders[Attempt(j)] => Catches(j, s, why)
    <3>1. Announcing(k0) /\ Attempt(j) = Attempt(k0)
      BY <1>2, <2>7, <2>9 DEF Announcing, Attempt
    <3>2. ASSUME NEW s \in chat'.room, NEW why \in {"session", "member"},
                 <<s, why>> \in outsiders[Attempt(k0)]
          PROVE  Catches(j, s, why)
      <4>1. Catches(k0, s, why)
        BY <1>5, <1>6, <2>3, <3>1, <3>2
      <4>2. CASE s \in k0.todo
        BY <2>7, <4>2 DEF Catches, Pruning
      <4>3. CASE s \notin k0.todo
        <5>1. s = k0.cur /\ why = "member"
          BY <1>9, <4>1, <4>3 DEF Catches, Pruning
        <5>2. Attempt(k0) \in Attempts
          BY <1>1, <1>4, <3>1 DEF IInv, TypeOK, MessagesOK
        <5>3. <<s, "member">> \in Astray
          BY <3>2, <5>1, <5>2 DEF IInv, OutsidersOK
        <5>4. owner[s] \notin member
          BY <5>3 DEF Astray
        <5>5. b # "yes"
          BY <2>2, <2>5, <5>1, <5>4 DEF YesNo
        <5> QED
          BY <2>7, <5>1, <5>5 DEF Catches
      <4> QED
        BY <4>2, <4>3
    <3> QED
      BY <3>1, <3>2
  <2>10. Follows(t, j)
    BY <1>1, <2>8, <2>9 DEF Follows
  <2>11. /\ UNCHANGED <<database, removed, owner, announced>> /\ open' \subseteq open
         /\ MemoryOK(chat', open')
    BY <1>3, <1>4, <2>3
  <2> QED
    BY <2>4, <2>5, <2>6, <2>10, <2>11, HandlerGoesOn
<1> QED
  BY <1>2, <1>7, <1>8, <1>9 DEF Pruning

LEMMA HangupStep ==
  ASSUME IInv, Watch, NEW t \in Tasks, Hangup(t)
  PROVE  IInv' /\ Heard
<1>1. PICK s \in Sockets : s = task[t].socket /\ s \in Owned
  BY DEF IInv, HandlerOK, Hangup, Requests, Owned
<1>2. /\ task' = [task EXCEPT ![t] = Idle] /\ open' = open \ {s}
      /\ chat' = (IF s \in open THEN Close(chat, s) ELSE chat)
      /\ UNCHANGED <<database, removed, owner, announced>> /\ troubles' \in 0 .. MaxTroubles
  BY <1>1 DEF Hangup, IInv, TypeOK
<1>3. MemoryOK(chat, open) /\ open \in SUBSET Sockets
  BY DEF IInv, TypeOK
<1>4. MemoryOK(chat', open')
  <2>1. CASE s \in open
    BY <1>1, <1>2, <1>3, <2>1, CloseOK
  <2>2. CASE s \notin open
    <3>1. open' = open /\ chat' = chat
      BY <1>2, <2>2
    <3> QED
      BY <1>3, <3>1
  <2> QED
    BY <2>1, <2>2
<1> QED
  BY <1>2, <1>4, IdleFollows, HandlerGoesOn

LEMMA ResumeSweepStep ==
  ASSUME IInv, Watch, ResumeSweep
  PROVE  IInv' /\ Heard
<1>0. Sweeper \in Tasks
  BY DEF Tasks
<1>1. PICK k \in TaskType : k = task[Sweeper]
  BY <1>0 DEF IInv, TypeOK
<1>2. /\ HandlerOK(k) /\ k.stage = "sweep" /\ k.kind = "sweep" /\ k.cur \in Owned
      /\ k.todo \subseteq Owned
  BY <1>0, <1>1 DEF IInv, ResumeSweep, HandlerOK
<1>3. PICK s \in Sockets : s = k.cur /\ s \in Owned
  BY <1>2 DEF Owned
<1>4. PICK c : c = IF k.answer # "yes" /\ s \in open THEN Close(chat, s) ELSE chat
  OBVIOUS
<1>5. PICK left : left = IF k.answer # "yes" /\ s \in open THEN open \ {s} ELSE open
  OBVIOUS
<1>6. /\ open' = left /\ UNCHANGED <<database, removed, owner>> /\ stored' = stored
      /\ \/ /\ k.todo \cap left # {} /\ SweepNext(k.todo \cap left)
            /\ chat' = c /\ announced' = announced
         \/ PruneListed(c)
  BY <1>1, <1>3, <1>4, <1>5 DEF ResumeSweep, database
<1>7. MemoryOK(chat, open) /\ open \in SUBSET Sockets
  BY DEF IInv, TypeOK
<1>8. MemoryOK(c, left) /\ left \subseteq open
  <2>1. CASE k.answer # "yes" /\ s \in open
    BY <1>3, <1>4, <1>5, <1>7, <2>1, CloseOK
  <2>2. CASE ~(k.answer # "yes" /\ s \in open)
    BY <1>4, <1>5, <1>7, <2>2
  <2> QED
    BY <2>1, <2>2
<1>9. CASE SweepNext(k.todo \cap left) /\ chat' = c /\ announced' = announced
  <2>1. PICK todo \in SUBSET Owned : todo = k.todo \cap left
    BY <1>2
  <2> QED
    BY <1>6, <1>8, <1>9, <2>1, SweepNextStep
<1>10. CASE PruneListed(c)
  <2>1. /\ open' \subseteq open /\ MemoryOK(c, open') /\ c.room \subseteq Owned
        /\ ~Announcing(task[Sweeper]) /\ task[Sweeper].kind = "sweep"
    BY <1>1, <1>2, <1>6, <1>8 DEF MemoryOK, Announcing
  <2>2. UNCHANGED <<owner, stored>>
    BY <1>6
  <2>3. CASE c.listed = {}
    <3>1. PICK todo : todo = {}
      OBVIOUS
    <3>2. Stands(Sweeper, c, todo) /\ todo \cap open = {} /\ Finish(Sweeper, c)
      BY <1>10, <2>1, <2>3, <3>1 DEF Stands, PruneListed
    <3>3. PruneNext
      BY <1>0, <2>2, <3>2, PruneFinishes
    <3> QED
      BY <1>6, <2>1, <3>3, PruneStep
  <2>4. CASE c.listed # {}
    <3>1. PICK todo : todo = c.room
      OBVIOUS
    <3>2. Stands(Sweeper, c, todo) /\ Prune(Sweeper, c, todo)
      BY <1>10, <2>1, <2>4, <3>1 DEF Stands, PruneListed, StartPrune
    <3>3. PruneNext
      BY <1>0, <2>2, <3>2, PruneOK
    <3> QED
      BY <1>6, <2>1, <3>3, PruneStep
  <2> QED
    BY <2>3, <2>4
<1> QED
  BY <1>6, <1>9, <1>10

\* A step that concerns no handler.
LEMMA OtherStep ==
  ASSUME IInv, Watch, MemoryOK(chat', open'), open' \subseteq open,
         UNCHANGED <<stored, owner, task, announced>>, member' \subseteq Users,
         removed' \subseteq Users, session' \subseteq Sockets, troubles' \in 0 .. MaxTroubles
  PROVE  IInv' /\ Heard
<1>1. HandlersNext
  BY QuietStep
<1>2. /\ stored' \subseteq Attempts /\ stored' = stored /\ owner' = owner
      /\ open' \subseteq Owned /\ announced' \in [Attempts -> Nat]
  BY DEF IInv, TypeOK
<1>3. IInv'
  BY <1>1, <1>2, Assemble
<1> QED
  BY <1>3 DEF Heard

LEMMA HandleRemovedStep ==
  ASSUME IInv, Watch, NEW u \in Users, HandleRemoved(u)
  PROVE  IInv' /\ Heard
<1>1. PICK tabs : tabs = {s \in chat.room : owner[s] = u}
  OBVIOUS
<1>2. /\ removed' = removed \ {u} /\ chat' = (IF tabs = {} THEN chat ELSE Leave(chat, tabs, u))
      /\ UNCHANGED <<database, owner, open, task, announced, troubles>>
  BY <1>1 DEF HandleRemoved
<1>3. MemoryOK(chat, open) /\ open \in SUBSET Sockets /\ TypeOK
  BY DEF IInv, TypeOK
<1>4. TabsOf(tabs, u)
  BY <1>1, <1>3 DEF TabsOf, MemoryOK, ChatType
<1>5. MemoryOK(chat', open')
  <2>1. LeftOK(chat, tabs, open, Leave(chat, tabs, u))
    BY <1>3, <1>4, LeaveOK
  <2>2. CASE tabs = {}
    BY <1>2, <1>3, <2>2
  <2>3. CASE tabs # {}
    BY <1>2, <2>1, <2>3 DEF LeftOK
  <2> QED
    BY <2>2, <2>3
<1>6. /\ open' \subseteq open /\ UNCHANGED <<stored, owner, task, announced>>
      /\ member' \subseteq Users /\ removed' \subseteq Users /\ session' \subseteq Sockets
      /\ troubles' \in 0 .. MaxTroubles
  BY <1>2, <1>3 DEF TypeOK, database
<1> QED
  BY <1>5, <1>6, OtherStep

LEMMA TypingExpiresStep ==
  ASSUME IInv, Watch, NEW s \in Sockets, TypingExpires(s)
  PROVE  IInv' /\ Heard
<1>1. /\ MemoryOK(chat, open) /\ open \in SUBSET Sockets /\ TypeOK
      /\ owner \in [Sockets -> Users \cup {NoUser}]
  BY DEF IInv, TypeOK
<1>2. PICK g : g = [Type(chat, s, FALSE) EXCEPT !.timers = @ \ {s}]
  OBVIOUS
<1>3. chat' = g /\ MemoryOK(g, open)
  BY <1>1, <1>2, ExpiryOK DEF TypingExpires
<1>4. /\ open' \subseteq open /\ UNCHANGED <<stored, owner, task, announced>>
      /\ member' \subseteq Users /\ removed' \subseteq Users /\ session' \subseteq Sockets
      /\ troubles' \in 0 .. MaxTroubles /\ MemoryOK(chat', open')
  BY <1>1, <1>3 DEF TypingExpires, TypeOK, database
<1> QED
  BY <1>4, OtherStep

LEMMA DisconnectStep ==
  ASSUME IInv, Watch, NEW s \in Sockets, Disconnect(s)
  PROVE  IInv' /\ Heard
<1>1. MemoryOK(chat, open) /\ open \in SUBSET Sockets /\ TypeOK /\ s \in open /\ s \in Owned
  BY DEF IInv, TypeOK, Disconnect
<1>2. MemoryOK(Close(chat, s), open \ {s})
  BY <1>1, CloseOK
<1>3. /\ MemoryOK(chat', open') /\ open' \subseteq open
      /\ UNCHANGED <<stored, owner, task, announced>>
      /\ member' \subseteq Users /\ removed' \subseteq Users /\ session' \subseteq Sockets
      /\ troubles' \in 0 .. MaxTroubles
  BY <1>1, <1>2 DEF Disconnect, TypeOK, database
<1> QED
  BY <1>3, OtherStep

LEMMA LoseSessionStep ==
  ASSUME IInv, Watch, NEW s \in Sockets, LoseSession(s)
  PROVE  IInv' /\ Heard
<1>1. /\ MemoryOK(chat', open') /\ open' \subseteq open
      /\ UNCHANGED <<stored, owner, task, announced>>
      /\ member' \subseteq Users /\ removed' \subseteq Users /\ session' \subseteq Sockets
      /\ troubles' \in 0 .. MaxTroubles
  BY DEF LoseSession, IInv, TypeOK, Trouble
<1> QED
  BY <1>1, OtherStep

LEMMA MembershipStep ==
  ASSUME IInv, Watch, NEW u \in Users, LoseMembership(u) \/ Readmit(u)
  PROVE  IInv' /\ Heard
<1>1. /\ MemoryOK(chat', open') /\ open' \subseteq open
      /\ UNCHANGED <<stored, owner, task, announced>>
      /\ member' \subseteq Users /\ removed' \subseteq Users /\ session' \subseteq Sockets
      /\ troubles' \in 0 .. MaxTroubles
  BY DEF LoseMembership, Readmit, IInv, TypeOK, Trouble
<1> QED
  BY <1>1, OtherStep

LEMMA ConnectStep ==
  ASSUME IInv, Watch, NEW s \in Sockets, NEW u \in Users, Connect(s, u)
  PROVE  IInv' /\ Heard
<1>0. /\ TypeOK /\ MemoryOK(chat, open) /\ open \subseteq Owned /\ MessagesOK /\ OutsidersOK
      /\ \A r \in Tasks : HandlerOK(task[r])
      /\ owner \in [Sockets -> Users \cup {NoUser}] /\ task \in [Tasks -> TaskType]
  BY DEF IInv, TypeOK
<1>1. /\ owner[s] = NoUser /\ owner' = [owner EXCEPT ![s] = u]
      /\ session' = session \cup {s} /\ open' = open \cup {s}
      /\ UNCHANGED <<member, stored, removed, chat, announced, troubles>>
  BY DEF Connect
<1>2. /\ owner' \in [Sockets -> Users \cup {NoUser}]
      /\ \A q \in Owned : owner'[q] = owner[q] /\ q # s
      /\ Owned' = Owned \cup {s}
  BY <1>0, <1>1 DEF Owned
<1>3. /\ chat.room \subseteq Owned /\ chat.present \subseteq Owned
      /\ chat.listed \subseteq Owned /\ chat.typing \subseteq Owned
  BY <1>0 DEF MemoryOK
<1>4. MemoryOK(chat, open)'
  <2>1. \A v : (v \in Online(chat)') <=> (v \in Online(chat))
    BY <1>1, <1>2, <1>3 DEF Online, OwnersOf
  <2>2. Online(chat)' = Online(chat)
    BY <2>1 DEF Online, OwnersOf
  <2>3. \A v : IsTyping(chat, v)' = IsTyping(chat, v)
    BY <1>1, <1>2, <1>3 DEF IsTyping
  <2>4. \A q \in chat.room : chat.view[q] = Online(chat)'
                             /\ \A v \in chat.hears[q] : IsTyping(chat, v)'
    BY <1>0, <2>2, <2>3 DEF MemoryOK
  <2>5. \A q \in chat.typing : q \in chat.timers /\ owner'[q] \in Online(chat)'
    BY <1>0, <1>2, <1>3, <2>2 DEF MemoryOK
  <2>6. chat.room \subseteq open'
        /\ \A q \in open' : /\ q \in chat.room <=> q \in chat.present
                            /\ q \in chat.room <=> q \in chat.listed
    BY <1>0, <1>1, <1>2, <1>3 DEF MemoryOK
  <2>7. /\ chat \in ChatType /\ \A q \in Sockets \ chat.room : chat.hears[q] = {}
        /\ chat.room \cup chat.present \cup chat.listed \cup chat.typing \subseteq Owned'
    BY <1>0, <1>2, <1>3 DEF MemoryOK
  <2> QED
    BY <1>1, <2>4, <2>5, <2>6, <2>7 DEF MemoryOK
<1>5. /\ task' \in [Tasks -> TaskType]
      /\ \A r \in Tasks :
           /\ task'[r].kind = task[r].kind /\ task'[r].socket = task[r].socket
           /\ task'[r].msg = task[r].msg /\ task'[r].on = task[r].on
           /\ task'[r].stage = task[r].stage /\ task'[r].answer = task[r].answer
           /\ task'[r].cur = task[r].cur
           /\ task[r].todo \subseteq task'[r].todo
           /\ task'[r].todo \subseteq task[r].todo \cup {s}
  <2>1. CASE task[Sweeper].stage = "sweep"
    <3>1. PICK k \in TaskType : k = task[Sweeper]
      BY <1>0 DEF Tasks
    <3> DEFINE j == [k EXCEPT !.todo = k.todo \cup {s}]
    <3>2. /\ j \in TaskType /\ j.kind = k.kind /\ j.socket = k.socket /\ j.msg = k.msg
          /\ j.on = k.on /\ j.stage = k.stage /\ j.answer = k.answer /\ j.cur = k.cur
          /\ j.todo = k.todo \cup {s}
      BY DEF TaskType
    <3>3. task' = [task EXCEPT ![Sweeper] = j]
      BY <1>0, <2>1, <3>1 DEF Connect
    <3> HIDE DEF j
    <3>4. /\ Sweeper \in Tasks /\ task'[Sweeper] = j
          /\ \A r \in Tasks \ {Sweeper} : task'[r] = task[r]
      BY <1>0, <3>3 DEF Tasks
    <3>5. task' \in [Tasks -> TaskType]
      BY <1>0, <3>2, <3>3
    <3> QED
      BY <3>1, <3>2, <3>4, <3>5
  <2>2. CASE task[Sweeper].stage # "sweep"
    BY <1>0, <2>2 DEF Connect
  <2> QED
    BY <2>1, <2>2
<1>6. \A r \in Tasks : HandlerOK(task[r])'
  <2>1. ASSUME NEW r \in Tasks
        PROVE  /\ task'[r].kind \in Requests => task'[r].socket \in Owned'
               /\ task'[r].kind = "send" => task'[r].msg \in Messages
               /\ task'[r].on /\ task'[r].stage \in {"session", "hangup"} =>
                    task'[r].kind = "typing"
               /\ task'[r].stage \in {"session", "hangup", "operation"} =>
                    task'[r].kind \in Requests
               /\ task'[r].stage \in Pruning \cup {"sweep"} => task'[r].cur \in Owned'
               /\ task'[r].stage = "sweep" => task'[r].kind = "sweep"
               /\ task'[r].todo \subseteq Owned'
    <3>1. HandlerOK(task[r])
      BY <1>0
    <3>2. /\ task'[r].kind = task[r].kind /\ task'[r].socket = task[r].socket
          /\ task'[r].msg = task[r].msg /\ task'[r].on = task[r].on
          /\ task'[r].stage = task[r].stage /\ task'[r].cur = task[r].cur
          /\ task'[r].todo \subseteq task[r].todo \cup {s}
      BY <1>5
    <3> QED
      BY <1>2, <3>1, <3>2 DEF HandlerOK
  <2> QED
    BY <2>1 DEF HandlerOK
<1>7. \A r \in Tasks : Announcing(task[r])' <=> Announcing(task[r])
  BY <1>5 DEF Announcing, Pruning
<1>8. \A r \in Tasks : Announcing(task[r]) => Attempt(task[r])' = Attempt(task[r])
  <2>1. ASSUME NEW r \in Tasks, Announcing(task[r])
        PROVE  Attempt(task[r])' = Attempt(task[r])
    <3>1. task[r].socket \in Owned
      BY <1>0, <2>1 DEF Announcing, HandlerOK, Requests
    <3> QED
      BY <1>2, <1>5, <3>1 DEF Attempt
  <2> QED
    BY <2>1
<1>9. MessagesOK'
  BY <1>0, <1>1, <1>7, <1>8 DEF MessagesOK, AnnouncedOnce
<1>10. stored' = stored /\ stored \subseteq stored'
  BY <1>1
<1>11. /\ outsiders' \in [Attempts -> SUBSET (Sockets \X {"session", "member"})]
       /\ \A m \in stored : outsiders'[m] = outsiders[m] \cap Astray'
       /\ \A m \in Attempts : outsiders'[m] \subseteq Astray'
       /\ \A m \in Attempts \ stored' : outsiders'[m] = {}
  BY <1>10, WatchOutsiders
<1>12. OutsidersOK'
  <2>1. ASSUME NEW r \in Tasks, Announcing(task[r]), NEW q \in Sockets,
               NEW why \in {"session", "member"},
               <<q, why>> \in outsiders'[Attempt(task[r])]
        PROVE  Catches(task'[r], q, why)
    <3>1. Attempt(task[r]) \in stored
      BY <1>0, <2>1 DEF MessagesOK
    <3>2. <<q, why>> \in outsiders[Attempt(task[r])]
      BY <1>11, <2>1, <3>1
    <3>3. Catches(task[r], q, why)
      BY <2>1, <3>2 DEF IInv, OutsidersOK
    <3>4. /\ task'[r].stage = task[r].stage /\ task'[r].answer = task[r].answer
          /\ task'[r].cur = task[r].cur /\ task[r].todo \subseteq task'[r].todo
      BY <1>5
    <3> QED
      BY <3>3, <3>4 DEF Catches
  <2>2. \A r \in Tasks, q \in Sockets, why \in {"session", "member"} :
          Catches(task[r], q, why)' = Catches(task'[r], q, why)
    BY DEF Catches
  <2> QED
    BY <1>7, <1>8, <1>11, <2>1, <2>2 DEF OutsidersOK
<1>13. TypeOK'
  BY <1>0, <1>1, <1>2, <1>5, <1>11 DEF TypeOK
<1>14. (open \subseteq Owned)'
  BY <1>0, <1>1, <1>2
<1> QED
  BY <1>1, <1>4, <1>6, <1>9, <1>12, <1>13, <1>14 DEF IInv, Heard

-----------------------------------------------------------------------------
(* The invariant *)

LEMMA InitialIInv == Init => IInv
<1> SUFFICES ASSUME Init PROVE IInv
  OBVIOUS
<1>1. TypeOK
  <2>1. chat \in ChatType
    BY DEF Init, ChatType
  <2>2. task \in [Tasks -> TaskType]
    BY IdleType DEF Init
  <2> QED
    BY <2>1, <2>2 DEF Init, TypeOK
<1>2. MemoryOK(chat, open)
  BY <1>1 DEF Init, MemoryOK, TypeOK
<1>3. \A t \in Tasks : HandlerOK(task[t]) /\ ~Announcing(task[t])
  <2>1. HandlerOK(Idle) /\ ~Announcing(Idle)
    BY DEF Idle, HandlerOK, Announcing, Pruning, Requests
  <2> QED
    BY <2>1 DEF Init
<1>4. MessagesOK
  BY <1>3 DEF Init, MessagesOK, AnnouncedOnce
<1>5. OutsidersOK
  BY <1>3 DEF Init, OutsidersOK
<1> QED
  BY <1>1, <1>2, <1>3, <1>4, <1>5 DEF IInv, Init

LEMMA ResumeStep ==
  ASSUME IInv, Watch, NEW t \in Tasks, Resume(t)
  PROVE  IInv' /\ Heard
BY RefusedStep, LeaveRoomStep, AuthoriseStep, SendStep, ResumeOperationStep,
   ResumePruneStep, HangupStep, ResumeSweepStep DEF Resume

LEMMA EnvironmentStep ==
  ASSUME IInv, Watch, Environment
  PROVE  IInv' /\ Heard
<1>1. CASE \E t \in Calls, s \in Sockets, kind \in Traffic \cap Requests :
             \E m \in Messages \cup {NoMessage}, on \in BOOLEAN : Receive(t, s, kind, m, on)
  BY <1>1, ReceiveStep
<1>2. CASE \E t \in Calls : HandleEvent(t)
  BY <1>2, HandleEventStep
<1>3. CASE \E s \in Sockets : Disconnect(s) \/ LoseSession(s) \/ \E u \in Users : Connect(s, u)
  BY <1>3, DisconnectStep, LoseSessionStep, ConnectStep
<1>4. CASE \E u \in Users : LoseMembership(u) \/ Readmit(u)
  BY <1>4, MembershipStep
<1> QED
  BY <1>1, <1>2, <1>3, <1>4 DEF Environment

LEMMA NextStep == IInv /\ Next => IInv' /\ Heard
<1> SUFFICES ASSUME IInv, Next PROVE IInv' /\ Heard
  OBVIOUS
<1>1. Watch
  BY DEF Next
<1> QED
  BY <1>1, ResumeStep, TypingExpiresStep, HandleRemovedStep, StartSweepStep,
     EnvironmentStep DEF Next

LEMMA StutterStep == IInv /\ UNCHANGED vars => IInv' /\ Heard
<1> SUFFICES ASSUME IInv, UNCHANGED vars PROVE IInv' /\ Heard
  OBVIOUS
<1> USE DEF vars, database
<1>1. TypeOK'
  BY DEF IInv, TypeOK
<1>2. MemoryOK(chat', open') /\ open' \subseteq Owned /\ owner' = owner
  BY DEF IInv
<1>3. MemoryOK(chat, open)' /\ open' \subseteq Owned'
  BY <1>2, MemoryNext
<1>4. /\ \A t \in Tasks : HandlerOK(task[t])'
      /\ MessagesOK' /\ OutsidersOK'
  BY DEF IInv, HandlerOK, Owned, MessagesOK, AnnouncedOnce, OutsidersOK, Announcing,
         Attempt, Catches, Astray
<1> QED
  BY <1>1, <1>3, <1>4 DEF IInv, Heard

LEMMA Invariance == Spec => []IInv
<1>1. IInv /\ [Next]_vars => IInv'
  BY NextStep, StutterStep
<1> QED
  BY <1>1, InitialIInv, PTL DEF Spec

\* The rows, the memory of the process and the records of its handlers have
\* their types.
THEOREM TypeCorrectness == Spec => []TypeOK
<1>1. IInv => TypeOK
  BY DEF IInv
<1> QED
  BY <1>1, Invariance, PTL

\* Socket.IO's room, the presence registry and socketGroups agree about every
\* connected socket, whatever joinRoom, leave, removeUser, pruneRoom, the sweep
\* and handleDisconnect do between each other's database calls.
THEOREM RecordsStayTogether == Spec => []RecordsAgree
<1>1. IInv => RecordsAgree
  BY DEF IInv, MemoryOK, RecordsAgree
<1> QED
  BY <1>1, Invariance, PTL

\* Everybody in the room was last told who is online now, and whoever he was
\* told is typing has a timer that will end it.
THEOREM CurrentScreens == Spec => []ScreensAreCurrent
<1>1. IInv => ScreensAreCurrent
  <2> SUFFICES ASSUME IInv PROVE ScreensAreCurrent
    OBVIOUS
  <2>1. MemoryOK(chat, open)
    BY DEF IInv
  <2>2. ASSUME NEW s \in chat.room, NEW u \in chat.hears[s]
        PROVE  \E q \in chat.typing \cap chat.timers : owner[q] = u
    <3>1. IsTyping(chat, u) /\ \A q \in chat.typing : q \in chat.timers
      BY <2>1 DEF MemoryOK
    <3> QED
      BY <3>1 DEF IsTyping
  <2> QED
    BY <2>1, <2>2 DEF MemoryOK, ScreensAreCurrent
<1> QED
  BY <1>1, Invariance, PTL

\* insert and sendMessage: however often a client repeats a message and whatever
\* answers get lost, the message is announced once at most, and then it is stored.
THEOREM NoGhostsNoRepeats == Spec => []AnnouncedOnce
<1>1. IInv => AnnouncedOnce
  BY DEF IInv, MessagesOK
<1> QED
  BY <1>1, Invariance, PTL

\* pruneRoom before an emission: whoever had lost his session or his membership
\* when the message was stored has left the room when it is emitted.
THEOREM NoOutsiderHears == Spec => OutsidersHearNothing
<1>1. IInv /\ [Next]_vars =>
        [\A m \in Attempts : announced'[m] # announced[m] =>
           \A s \in chat'.room, why \in {"session", "member"} :
             <<s, why>> \notin outsiders[m]]_vars
  BY NextStep DEF Heard
<1> QED
  BY <1>1, Invariance, PTL DEF Spec, OutsidersHearNothing

-----------------------------------------------------------------------------
(* Who lingers in the registry after his tab has closed *)

\* d registers nobody that c does not, but for a socket that joins.
Registers(c, d, t) ==
  \A s \in d.present \ c.present : task[t].kind = "join" /\ task[t].socket = s

LEMMA LeaveRegisters ==
  ASSUME NEW c \in ChatType, NEW ss \in SUBSET Sockets, NEW u \in Users,
         \A s \in ss : owner[s] = u
  PROVE  Leave(c, ss, u).present = c.present \ ss
<1> DEFINE d == Unregister(c, ss, u)
           e == Out(d, ss)
           f == EmitTyping(e, u)
<1>1. d \in ChatType /\ d.present = c.present \ ss
  <2>1. Unregistered(c, ss, u, d)
    BY UnregisterFields
  <2> HIDE DEF d
  <2> QED
    BY <2>1 DEF Unregistered
<1> HIDE DEF d
<1>2. e \in ChatType /\ e.present = c.present \ ss
  BY <1>1, OutFields
<1> HIDE DEF e
<1>3. f \in ChatType /\ f.present = c.present \ ss
  <2>1. EmittedTyping(e, u, f)
    BY <1>2, EmitTypingFields
  <2> HIDE DEF f
  <2> QED
    BY <1>2, <2>1 DEF EmittedTyping
<1>4. Leave(c, ss, u) = PublishPresence(f)
  BY DEF Leave, d, e
<1> HIDE DEF f
<1> QED
  BY <1>3, <1>4 DEF PublishPresence, ChatType

LEMMA EnterRegisters ==
  ASSUME NEW c \in ChatType, NEW s \in Sockets
  PROVE  Enter(c, s).present = c.present \cup {s}
<1> DEFINE room == IF s \in open THEN c.room \cup {s} ELSE c.room
           d == [c EXCEPT !.room = room, !.present = c.present \cup {s},
                          !.listed = c.listed \cup {s}]
<1>1. Enter(c, s) = PublishPresence(d)
  BY DEF Enter, ChatType
<1> HIDE DEF room
<1>2. d.present = c.present \cup {s}
  BY DEF ChatType
<1>3. PublishPresence(d).present = d.present
  <2>1. PICK view : PublishPresence(d) = [d EXCEPT !.view = view]
    BY DEF PublishPresence, ChatType
  <2> QED
    BY <2>1 DEF ChatType
<1> HIDE DEF d
<1> QED
  BY <1>1, <1>2, <1>3

LEMMA TypeRegisters ==
  ASSUME NEW c \in ChatType, NEW s, NEW on \in BOOLEAN
  PROVE  Type(c, s, on).present = c.present
<1>1. ASSUME NEW d, d = [c EXCEPT !.typing = @ \cup {s}, !.timers = @ \cup {s}]
                    \/ d = [c EXCEPT !.typing = @ \ {s}, !.timers = @ \ {s}]
      PROVE  d.present = c.present /\ EmitTyping(d, owner[s]).present = c.present
  <2>1. d.present = c.present
    BY <1>1 DEF ChatType
  <2>2. CASE d = [c EXCEPT !.typing = @ \cup {s}, !.timers = @ \cup {s}]
    BY <2>1, <2>2 DEF EmitTyping, ChatType
  <2>3. CASE d = [c EXCEPT !.typing = @ \ {s}, !.timers = @ \ {s}]
    BY <2>1, <2>3 DEF EmitTyping, ChatType
  <2> QED
    BY <1>1, <2>1, <2>2, <2>3
<1> QED
  BY <1>1 DEF Type

\* A socket that closes was in the registry only if socketGroups named the
\* room, and then handleDisconnect takes it out.
LEMMA CloseRegisters ==
  ASSUME NEW o \in SUBSET Sockets, NEW c, MemoryOK(c, o), NEW s \in o, s \in Owned
  PROVE  Close(c, s).present = c.present \ {s}
<1> DEFINE d == [c EXCEPT !.room = c.room \ {s}]
<1>0. c \in ChatType /\ s \in Sockets /\ (s \in c.present <=> s \in c.listed)
  BY DEF MemoryOK
<1>1. d \in ChatType /\ d.present = c.present
  BY <1>0 DEF ChatType
<1>2. Close(c, s) = IF s \in c.listed THEN Leave(d, {s}, owner[s]) ELSE d
  BY <1>0 DEF Close, ChatType
<1> HIDE DEF d
<1>3. Leave(d, {s}, owner[s]).present = c.present \ {s}
  BY <1>0, <1>1, LeaveRegisters DEF Owned
<1> QED
  BY <1>0, <1>1, <1>2, <1>3

\* c is what the handler has made of the memory, before it goes on.
LEMMA PruneRegisters ==
  ASSUME NEW t \in Tasks, NEW c \in ChatType, NEW todo, Prune(t, c, todo),
         task[t].kind \in Requests => task[t].socket \in Owned, TypeOK
  PROVE  Registers(c, chat', t)
<1>1. CASE ~(todo \cap open = {})
  BY <1>1 DEF Prune, Registers
<1>2. CASE todo \cap open = {}
  <2>1. /\ chat' = CASE task[t].kind = "join" -> Enter(c, task[t].socket)
                     [] task[t].kind = "typing" -> Type(c, task[t].socket, task[t].on)
                     [] OTHER -> c
    BY <1>2 DEF Prune, Finish
  <2>2. CASE task[t].kind = "join"
    <3>1. task[t].socket \in Sockets
      BY <2>2 DEF Requests, Owned
    <3>2. chat'.present = c.present \cup {task[t].socket}
      BY <2>1, <2>2, <3>1, EnterRegisters
    <3> QED
      BY <2>2, <3>2 DEF Registers
  <2>3. CASE task[t].kind = "typing"
    <3>1. task[t].on \in BOOLEAN
      BY DEF TypeOK, TaskType
    <3>2. chat'.present = c.present
      BY <2>1, <2>3, <3>1, TypeRegisters
    <3> QED
      BY <3>2 DEF Registers
  <2>4. CASE task[t].kind # "join" /\ task[t].kind # "typing"
    BY <2>1, <2>4 DEF Registers
  <2> QED
    BY <2>2, <2>3, <2>4
<1> QED
  BY <1>1, <1>2

\* The step leaves in the registry no closed socket that was not one already,
\* but for one that joins.
Lingers == \A s \in Lingering' \ Lingering :
             /\ s \notin open
             /\ \E t \in Tasks : task[t].kind = "join" /\ task[t].socket = s

\* Nobody closes his socket.
LEMMA QuietRegisters ==
  ASSUME NEW t \in Tasks, Registers(chat, chat', t), open \subseteq open'
  PROVE  Lingers
BY DEF Lingers, Lingering, Registers

LEMMA ResumeLingers ==
  ASSUME IInv, NEW t \in Tasks, Resume(t)
  PROVE  Lingers
<1>1. /\ MemoryOK(chat, open) /\ open \in SUBSET Sockets /\ TypeOK
      /\ chat \in ChatType /\ HandlerOK(task[t])
      /\ open \subseteq Owned
      /\ task[t].kind \in Requests => task[t].socket \in Owned
  BY DEF IInv, TypeOK, HandlerOK
<1>2. CASE chat' = chat /\ open' = open
  BY <1>2 DEF Lingers, Lingering
<1>3. CASE LeaveRoom(t)
  <2>1. PICK s \in Sockets : s = task[t].socket /\ s \in Owned
    BY <1>1, <1>3 DEF LeaveRoom, Accepted, Requests, Owned
  <2>2. chat'.present = chat.present \ {s} /\ open' = open
    BY <1>1, <1>3, <2>1, LeaveRegisters DEF LeaveRoom, Owned
  <2> QED
    BY <2>2 DEF Lingers, Lingering
<1>4. CASE ResumeOperation(t)
  <2>1. CASE task[t].answer = "yes"
    <3>1. Prune(t, chat, chat.room) /\ open' = open
      BY <1>4, <2>1 DEF ResumeOperation, StartPrune
    <3> QED
      BY <1>1, <3>1, PruneRegisters, QuietRegisters
  <2>2. CASE task[t].answer # "yes"
    BY <1>2, <1>4, <2>2 DEF ResumeOperation, End
  <2> QED
    BY <2>1, <2>2
<1>5. CASE ResumePrune(t)
  <2>1. open' = open /\ task[t].cur \in Owned /\ task[t].cur \in Sockets
    BY <1>1, <1>5 DEF ResumePrune, HandlerOK, Pruning, Owned
  <2>2. CASE task[t].answer # "yes"
    <3>1. PICK c : c = Leave(chat, {task[t].cur}, owner[task[t].cur])
      OBVIOUS
    <3>2. c \in ChatType /\ c.present \subseteq chat.present
      <4>1. PICK s \in Sockets : s = task[t].cur
        BY <2>1
      <4>2. PICK u \in Users : u = owner[s]
        BY <2>1, <4>1 DEF Owned
      <4>3. LeftOK(chat, {s}, open, Leave(chat, {s}, u))
        BY <1>1, <4>2, LeaveOK DEF TabsOf
      <4>4. Leave(chat, {s}, u).present = chat.present \ {s}
        BY <1>1, <4>2, LeaveRegisters
      <4>5. c = Leave(chat, {s}, u)
        BY <3>1, <4>1, <4>2
      <4> QED
        BY <4>3, <4>4, <4>5 DEF LeftOK, MemoryOK
    <3>3. Prune(t, c, task[t].todo)
      BY <1>5, <2>2, <3>1 DEF ResumePrune
    <3>4. Registers(c, chat', t)
      BY <1>1, <3>2, <3>3, PruneRegisters
    <3> QED
      BY <2>1, <3>2, <3>4 DEF Lingers, Lingering, Registers
  <2>3. CASE task[t].answer = "yes" /\ task[t].stage = "pruneMember"
    <3>1. Prune(t, chat, task[t].todo)
      BY <1>5, <2>3 DEF ResumePrune
    <3> QED
      BY <1>1, <2>1, <3>1, PruneRegisters, QuietRegisters
  <2>4. CASE task[t].answer = "yes" /\ task[t].stage # "pruneMember"
    BY <1>2, <1>5, <2>1, <2>4 DEF ResumePrune
  <2> QED
    BY <2>2, <2>3, <2>4
<1>6. CASE Hangup(t)
  <2>1. PICK s \in Sockets : s = task[t].socket /\ s \in Owned
    BY <1>1, <1>6 DEF Hangup, HandlerOK, Requests, Owned
  <2>2. CASE s \in open
    <3>1. open' = open \ {s} /\ chat' = Close(chat, s)
      BY <1>6, <2>1, <2>2 DEF Hangup
    <3>2. Close(chat, s).present = chat.present \ {s}
      BY <1>1, <2>1, <2>2, CloseRegisters
    <3> QED
      BY <3>1, <3>2 DEF Lingers, Lingering
  <2>3. CASE s \notin open
    BY <1>2, <1>6, <2>1, <2>3 DEF Hangup
  <2> QED
    BY <2>2, <2>3
<1>7. CASE t = Sweeper /\ ResumeSweep
  <2>1. /\ task[t].kind = "sweep" /\ task[t].cur \in Owned /\ task[t].cur \in Sockets
    BY <1>1, <1>7 DEF ResumeSweep, HandlerOK, Owned
  <2>2. PICK closes \in BOOLEAN :
          closes = (task[t].answer # "yes" /\ task[t].cur \in open)
    OBVIOUS
  <2>3. PICK c : c = IF closes THEN Close(chat, task[t].cur) ELSE chat
    OBVIOUS
  <2>4. /\ open' = IF closes THEN open \ {task[t].cur} ELSE open
        /\ chat' = c \/ PruneListed(c)
    BY <1>7, <2>2, <2>3 DEF ResumeSweep
  <2>5. /\ c \in ChatType
        /\ c.present = IF closes THEN chat.present \ {task[t].cur} ELSE chat.present
    <3>1. CASE closes
      <4>1. task[t].cur \in open
        BY <2>2, <3>1
      <4>2. MemoryOK(c, open \ {task[t].cur})
        BY <1>1, <2>1, <2>3, <3>1, <4>1, CloseOK
      <4>3. c.present = chat.present \ {task[t].cur}
        BY <1>1, <2>1, <2>3, <3>1, <4>1, CloseRegisters
      <4> QED
        BY <3>1, <4>2, <4>3 DEF MemoryOK
    <3>2. CASE ~closes
      BY <1>1, <2>3, <3>2
    <3> QED
      BY <3>1, <3>2
  <2>6. Registers(c, chat', t)
    <3>1. CASE chat' = c
      BY <3>1 DEF Registers
    <3>2. CASE PruneListed(c)
      <4>1. CASE c.listed = {}
        BY <1>7, <2>1, <3>2, <4>1 DEF PruneListed, Finish, Registers
      <4>2. CASE c.listed # {}
        <5>1. Prune(t, c, c.room)
          BY <1>7, <3>2, <4>2 DEF PruneListed, StartPrune
        <5> QED
          BY <1>1, <2>5, <5>1, PruneRegisters
      <4> QED
        BY <4>1, <4>2
    <3> QED
      BY <2>4, <3>1, <3>2
  <2> QED
    BY <2>1, <2>4, <2>5, <2>6 DEF Lingers, Lingering, Registers
<1>8. CASE Refused(t) \/ Authorise(t) \/ Send(t)
  BY <1>2, <1>8 DEF Refused, End, Authorise, Send
<1> QED
  BY <1>3, <1>4, <1>5, <1>6, <1>7, <1>8 DEF Resume

LEMMA StepLingers == IInv /\ [Next]_vars => Lingers
<1> SUFFICES ASSUME IInv, [Next]_vars PROVE Lingers
  OBVIOUS
<1>1. /\ MemoryOK(chat, open) /\ open \in SUBSET Sockets /\ chat \in ChatType
      /\ open \subseteq Owned /\ TypeOK
  BY DEF IInv, TypeOK
<1>2. ASSUME NEW t \in Tasks, Resume(t) PROVE Lingers
  BY <1>2, ResumeLingers
<1>3. ASSUME NEW s \in Sockets, TypingExpires(s) PROVE Lingers
  <2>1. PICK d : d = Type(chat, s, FALSE)
    OBVIOUS
  <2>2. /\ d.present = chat.present /\ open' = open
        /\ chat' = [d EXCEPT !.timers = @ \ {s}]
    BY <1>1, <1>3, <2>1, TypeRegisters DEF TypingExpires
  <2>3. MemoryOK(d, open)
    BY <1>1, <2>1, TypeOffOK DEF TypeOK
  <2>4. chat'.present = chat.present
    BY <2>2, <2>3 DEF MemoryOK, ChatType
  <2> QED
    BY <2>2, <2>4 DEF Lingers, Lingering
<1>4. ASSUME NEW u \in Users, HandleRemoved(u) PROVE Lingers
  <2>1. PICK tabs \in SUBSET Sockets : tabs = {s \in chat.room : owner[s] = u}
    BY <1>1 DEF ChatType
  <2>2. open' = open /\ chat' = IF tabs = {} THEN chat ELSE Leave(chat, tabs, u)
    BY <1>4, <2>1 DEF HandleRemoved
  <2>3. Leave(chat, tabs, u).present = chat.present \ tabs
    BY <1>1, <2>1, LeaveRegisters
  <2>4. chat'.present \subseteq chat.present
    BY <2>2, <2>3
  <2> QED
    BY <2>2, <2>4 DEF Lingers, Lingering
<1>5. ASSUME NEW s \in Sockets, Disconnect(s) PROVE Lingers
  <2>1. s \in open /\ s \in Owned /\ open' = open \ {s} /\ chat' = Close(chat, s)
    BY <1>1, <1>5 DEF Disconnect
  <2>2. Close(chat, s).present = chat.present \ {s}
    BY <1>1, <2>1, CloseRegisters
  <2> QED
    BY <2>1, <2>2 DEF Lingers, Lingering
<1>6. CASE chat' = chat /\ open \subseteq open'
  BY <1>6 DEF Lingers, Lingering
<1>7. CASE StartSweep
  BY <1>6, <1>7 DEF StartSweep
<1>8. ASSUME NEW t \in Calls, NEW s, NEW kind, NEW m, NEW on, Receive(t, s, kind, m, on)
      PROVE  Lingers
  BY <1>6, <1>8 DEF Receive
<1>9. CASE \E t \in Calls : HandleEvent(t)
  BY <1>6, <1>9 DEF HandleEvent
<1>10. CASE \E s \in Sockets : LoseSession(s) \/ \E u \in Users : Connect(s, u)
  BY <1>6, <1>10 DEF LoseSession, Connect
<1>11. CASE \E u \in Users : LoseMembership(u) \/ Readmit(u)
  BY <1>6, <1>11 DEF LoseMembership, Readmit
<1>12. CASE UNCHANGED vars
  BY <1>6, <1>12 DEF vars
<1>13. CASE Environment
  BY <1>5, <1>8, <1>9, <1>10, <1>11, <1>13 DEF Environment
<1> QED
  BY <1>2, <1>3, <1>4, <1>7, <1>12, <1>13 DEF Next

\* handleDisconnect: a tab that closes leaves the registry, whichever handler
\* or client closes it, except one whose own joinRoom is still waiting for the
\* database; that one is registered when it resumes.
THEOREM LateJoinsOnly == Spec => OnlyLateJoinsLinger
<1>1. IInv /\ [Next]_vars =>
        [\A s \in Lingering' \ Lingering :
           /\ s \notin open
           /\ \E t \in Tasks : task[t].kind = "join" /\ task[t].socket = s]_vars
  BY StepLingers DEF Lingers
<1> QED
  BY <1>1, Invariance, PTL DEF Spec, OnlyLateJoinsLinger
=============================================================================
