------------------------------- MODULE Rooms -------------------------------
(***************************************************************************)
(* Live events for WebSocket clients: the event bus                        *)
(* (internal/engine/stream/bus.go), the rooms that subscribe to it and     *)
(* their registry (internal/appengine/channels/room.go), and the sessions  *)
(* that join, watch and leave (ws.go).                                     *)
(*                                                                         *)
(* Each critical section (bus.mu, Registry.mu, memberMu, watchMu) is one   *)
(* step.  handleJoin has two: Registry.Join, then AddMember; dispatch      *)
(* copies the watches in one and delivers in the next.                     *)
(***************************************************************************)
EXTENDS Naturals, Sequences, FiniteSets

CONSTANTS Topics, Sessions, RoomIds, MemberIds, Watches, None,
          SubscriberBuffer, Mailbox    \* channel capacities

ASSUME RoomsAssumption ==
  /\ None \notin Topics \cup RoomIds \cup MemberIds \cup Watches
  /\ SubscriberBuffer \in Nat /\ Mailbox \in Nat

VARIABLES rooms,     \* Registry.rooms: topic -> room, or None
          room,      \* each room
          member,    \* each member
          session,   \* each WebSocket session
          closed     \* Bus.closed

roomsVars == <<rooms, room, member, session, closed>>

NewRoom(t, subscribed) ==
  [topic |-> t, members |-> {}, watches |-> {}, events |-> <<>>,
   subscribed |-> subscribed, open |-> subscribed, retired |-> FALSE,
   copy |-> None, cur |-> None, dispatching |-> TRUE]

NoRoom == [NewRoom(None, FALSE) EXCEPT !.dispatching = FALSE]

RoomsInit ==
  /\ rooms = [t \in Topics |-> None]
  /\ room = [r \in RoomIds |-> NoRoom]
  /\ member = [m \in MemberIds |-> [room |-> None, mailbox |-> <<>>, closes |-> 0]]
  /\ session = [s \in Sessions |-> [pc |-> "idle", topic |-> None, room |-> None, member |-> None]]
  /\ closed = FALSE

-----------------------------------------------------------------------------
(* Registry.Join: the topic's room, or a new one with its own bus          *)
(* subscription; a closed bus hands out a closed channel.                  *)
Join(s, t) ==
  /\ session[s].pc = "idle"
  /\ IF rooms[t] # None
     THEN /\ session' = [session EXCEPT ![s] = [@ EXCEPT !.pc = "joining", !.topic = t, !.room = rooms[t]]]
          /\ UNCHANGED <<rooms, room>>
     ELSE LET r == CHOOSE q \in RoomIds : room[q] = NoRoom IN
          /\ \E q \in RoomIds : room[q] = NoRoom
          /\ rooms' = [rooms EXCEPT ![t] = r]
          /\ room' = [room EXCEPT ![r] = NewRoom(t, ~closed)]
          /\ session' = [session EXCEPT ![s] = [@ EXCEPT !.pc = "joining", !.topic = t, !.room = r]]
  /\ UNCHANGED <<member, closed>>

(* AddMember, and the session's own record of the join. *)
AddMember(s) ==
  /\ session[s].pc = "joining"
  /\ \E q \in MemberIds : member[q].room = None
  /\ LET m == CHOOSE q \in MemberIds : member[q].room = None IN
       /\ member' = [member EXCEPT ![m].room = session[s].room]
       /\ room' = [room EXCEPT ![session[s].room].members = @ \cup {m}]
       /\ session' = [session EXCEPT ![s] = [@ EXCEPT !.pc = "joined", !.member = m]]
  /\ UNCHANGED <<rooms, closed>>

\* Mutant: without the sync.Once.
RetireAgain(r, rec) ==
  /\ room' = [room EXCEPT ![r] = [rec EXCEPT !.retired = TRUE, !.subscribed = FALSE, !.open = FALSE]]
  /\ rooms' = [rooms EXCEPT ![rec.topic] = None]

(* retire, at most once per room: cancel the subscription, drop the topic. *)
(* The registry has a lock of its own, so a session may be handed the room *)
(* between the two; it then joins as one that was handed it just before.   *)
Retire(r, rec) ==
  IF rec.retired THEN room' = [room EXCEPT ![r] = rec] /\ UNCHANGED rooms
  ELSE /\ room' = [room EXCEPT ![r] = [rec EXCEPT !.retired = TRUE, !.subscribed = FALSE, !.open = FALSE]]
       /\ rooms' = [rooms EXCEPT ![rec.topic] = None]

(* Member.Leave: a member dispatch already removed is left alone. *)
StillMember(m) == m \in room[member[m].room].members

\* Mutant: membership is not checked.
LeaveRoomUnchecked(m) ==
  LET r == member[m].room
      rec == [room[r] EXCEPT !.members = @ \ {m}]
  IN /\ IF rec.members = {} THEN Retire(r, rec)
        ELSE room' = [room EXCEPT ![r] = rec] /\ UNCHANGED rooms
     /\ member' = [member EXCEPT ![m].closes = @ + 1]

LeaveRoom(m) ==
  LET r == member[m].room
      rec == [room[r] EXCEPT !.members = @ \ {m}]
  IN IF ~StillMember(m) THEN UNCHANGED <<rooms, room, member>>
     ELSE /\ IF rec.members = {} THEN Retire(r, rec)
             ELSE room' = [room EXCEPT ![r] = rec] /\ UNCHANGED rooms
          /\ member' = [member EXCEPT ![m].closes = @ + 1]

(* handleLeave, or teardown when the socket goes. *)
Leave(s) ==
  /\ session[s].pc = "joined"
  /\ LeaveRoom(session[s].member)
  /\ session' = [session EXCEPT ![s] = [pc |-> "idle", topic |-> None, room |-> None, member |-> None]]
  /\ UNCHANGED closed

Watch(s, w) ==
  /\ session[s].pc = "joined"
  /\ w \notin room[session[s].room].watches
  /\ room' = [room EXCEPT ![session[s].room].watches = @ \cup {w}]
  /\ UNCHANGED <<rooms, member, session, closed>>

Unwatch(s, w) ==
  /\ session[s].pc = "joined"
  /\ w \in room[session[s].room].watches
  /\ room' = [room EXCEPT ![session[s].room].watches = @ \ {w}]
  /\ UNCHANGED <<rooms, member, session, closed>>

-----------------------------------------------------------------------------
(* Bus.Publish: every subscription with room takes the event, a full one   *)
(* loses it.  An event is named after the watch it matches.                *)
Takes(r) == room[r].subscribed /\ Len(room[r].events) < SubscriberBuffer

Publish(e) ==
  /\ ~closed
  /\ \E r \in RoomIds : Takes(r)
  /\ room' = [r \in RoomIds |-> IF Takes(r) THEN [room[r] EXCEPT !.events = Append(@, e)] ELSE room[r]]
  /\ UNCHANGED <<rooms, member, session, closed>>

BusClose ==
  /\ ~closed
  /\ closed' = TRUE
  /\ room' = [r \in RoomIds |-> [room[r] EXCEPT !.subscribed = FALSE, !.open = FALSE]]
  /\ UNCHANGED <<rooms, member, session>>

-----------------------------------------------------------------------------
(* dispatch: an event, and the watches of that moment. *)
DispatchTakes(r) ==
  LET rec == room[r] IN
  /\ rec.dispatching /\ rec.cur = None /\ rec.events # <<>>
  /\ room' = [room EXCEPT ![r] = [rec EXCEPT !.cur = Head(rec.events), !.events = Tail(@),
                                             !.copy = rec.watches]]
  /\ UNCHANGED <<rooms, member, session, closed>>

(* Under memberMu, a matching event goes to the mailbox of every member    *)
(* that is not full.                                                       *)
DispatchDelivers(r) ==
  LET rec == room[r] IN
  /\ rec.cur # None
  /\ room' = [room EXCEPT ![r] = [@ EXCEPT !.cur = None, !.copy = None]]
  /\ member' = [m \in MemberIds |->
                  IF rec.cur \in rec.copy /\ m \in rec.members /\ Len(member[m].mailbox) < Mailbox
                  THEN [member[m] EXCEPT !.mailbox = Append(@, rec.cur)]
                  ELSE member[m]]
  /\ UNCHANGED <<rooms, session, closed>>

\* Mutant: the end of the bus does not retire the room.
DispatchEndsUnretired(r) ==
  LET rec == [room[r] EXCEPT !.members = {}, !.dispatching = FALSE] IN
  /\ room[r].dispatching /\ room[r].cur = None
  /\ room[r].events = <<>> /\ ~room[r].open
  /\ room' = [room EXCEPT ![r] = rec]
  /\ member' = [m \in MemberIds |->
                  IF m \in room[r].members THEN [member[m] EXCEPT !.closes = @ + 1] ELSE member[m]]
  /\ UNCHANGED <<rooms, session, closed>>

(* The event channel is closed and empty: close the mailboxes, retire. *)
DispatchEnds(r) ==
  LET rec == [room[r] EXCEPT !.members = {}, !.dispatching = FALSE] IN
  /\ room[r].dispatching /\ room[r].cur = None
  /\ room[r].events = <<>> /\ ~room[r].open
  /\ Retire(r, rec)
  /\ member' = [m \in MemberIds |->
                  IF m \in room[r].members THEN [member[m] EXCEPT !.closes = @ + 1] ELSE member[m]]
  /\ UNCHANGED <<session, closed>>

(* pumpEvents takes an event from the mailbox to the socket. *)
PumpEvents(m) ==
  /\ member[m].mailbox # <<>>
  /\ member' = [member EXCEPT ![m].mailbox = Tail(@)]
  /\ UNCHANGED <<rooms, room, session, closed>>

SessionStep(s) ==
  \/ \E t \in Topics : Join(s, t)
  \/ AddMember(s)
  \/ Leave(s)
  \/ \E w \in Watches : Watch(s, w) \/ Unwatch(s, w)

Dispatch(r) == DispatchTakes(r) \/ DispatchDelivers(r) \/ DispatchEnds(r)

RoomsNext ==
  \/ \E s \in Sessions : SessionStep(s)
  \/ \E e \in Watches : Publish(e)
  \/ BusClose
  \/ \E r \in RoomIds : Dispatch(r)
  \/ \E m \in MemberIds : PumpEvents(m)

RoomsSpec == RoomsInit /\ [][RoomsNext]_roomsVars /\ \A r \in RoomIds : WF_roomsVars(Dispatch(r))

-----------------------------------------------------------------------------
(* A mailbox is closed at most once, whichever of Leave and the end of     *)
(* dispatch comes first, and dispatch never sends to a closed one: both    *)
(* would panic.                                                            *)
MailboxClosedOnce ==
  \A m \in MemberIds :
    /\ member[m].closes <= 1
    /\ \A r \in RoomIds : m \in room[r].members => member[m].closes = 0

(* The registry never loses a live room: a room that is not retired is the *)
(* one its topic names (a session may still join one that was retired      *)
(* after it was handed out).  And no bus subscription is left behind: a    *)
(* room with one has a member, or a session on its way in.                 *)
LiveRoomIsRegistered ==
  \A r \in RoomIds :
    /\ (room[r] # NoRoom /\ ~room[r].retired) => rooms[room[r].topic] = r
    /\ room[r].subscribed =>
         \/ room[r].members # {}
         \/ \E s \in Sessions : session[s].pc = "joining" /\ session[s].room = r

(* A room whose subscription ended retires: its dispatch goroutine returns *)
(* and its topic is free for a new room.                                   *)
EndedRoomRetires ==
  \A r \in RoomIds : (room[r].dispatching /\ ~room[r].open) ~> (room[r].retired /\ ~room[r].dispatching)
=============================================================================
