------------------------------ MODULE SfuRelay ------------------------------
(* The rooms of the SFU relay: server-rust/src/signaling/sfu_relay.rs, as    *)
(* the read loop of one server process would call it. The rooms live in a    *)
(* map behind one async mutex. A handler that changes a membership keeps the *)
(* mutex while it awaits one send_to per remaining participant, so sessions  *)
(* connect and disconnect in the middle of a round of notices, but nobody    *)
(* joins or leaves. sfu-ice changes nothing and is left out.                 *)
(*                                                                           *)
(* A session that is off may come back as the next connection of its client. *)
(* The hub is reduced to the session that send_to finds for a user; the      *)
(* histories seat and peers record what the client of that session knows.    *)
EXTENDS Naturals, FiniteSets

CONSTANTS Users,
          Rooms,            \* room ids the clients agree on
          Sessions,         \* WebSocket sessions
          Owner,            \* [Sessions -> Users]
          NoSession,
          Limits            \* values of max_participants: {16} in the code

ASSUME UsersAssumption     == IsFiniteSet(Users)
ASSUME OwnerAssumption     == Owner \in [Sessions -> Users]
ASSUME NoSessionAssumption == NoSession \notin Sessions
ASSUME LimitsAssumption    == Limits \subseteq Nat \ {0}

VARIABLES limit,   \* max_participants of every room, never changed
          pc,      \* where each session's task is
          at,      \* the room its last request names
          reg,     \* the hub's entry for each user
          open,    \* the rooms in the map
          members, \* participants of each room
          ready,   \* the participants with media_ready set
          lock,    \* the session whose task keeps the mutex over an await
          todo,    \* the participants that task has yet to notify
          seat,    \* history: the session that joined for a participant, as
                   \* long as it has been registered since
          peers    \* history: whom the client of that session knows to be in
                   \* the room, from the notices since it joined

vars == <<limit, pc, at, reg, open, members, ready, lock, todo, seat, peers>>
hubVars  == <<reg, seat>>
roomVars == <<limit, open, members, ready, peers>>
mutex    == <<lock, todo>>

(* "joining", "answering", "leaving": waits for the mutex; "announcing",     *)
(* "parting": sends sfu-peer-joined, sfu-peer-left to each of todo;          *)
(* "replying": released the mutex and awaits the reply to its own client     *)
PCs == {"off", "reading", "joining", "answering", "leaving", "announcing",
        "parting", "replying"}

Goto(s, l) == pc' = [pc EXCEPT ![s] = l]
Free       == lock = NoSession
Full(r)    == Cardinality(members[r]) >= limit

Init == /\ limit \in Limits
        /\ pc = [s \in Sessions |-> "off"]
        /\ at \in [Sessions -> Rooms]
        /\ reg = [u \in Users |-> NoSession]
        /\ open = {}
        /\ members = [r \in Rooms |-> {}]
        /\ ready = [r \in Rooms |-> {}]
        /\ lock = NoSession
        /\ todo = {}
        /\ seat = [r \in Rooms |-> [u \in Users |-> NoSession]]
        /\ peers = [r \in Rooms |-> [u \in Users |-> {}]]

-----------------------------------------------------------------------------
(* The session, as far as the hub's entry of its user changes. A seat is     *)
(* lost as soon as notices for its user go elsewhere.                        *)

Reregister(u, s) ==
  /\ reg' = [reg EXCEPT ![u] = s]
  /\ seat' = [r \in Rooms |-> [v \in Users |->
                IF v = u /\ seat[r][v] # s THEN NoSession ELSE seat[r][v]]]

Register(s) == /\ pc[s] \in {"off", "reading"}
               /\ Goto(s, "reading")
               /\ Reregister(Owner[s], s)
               /\ UNCHANGED <<at, roomVars, mutex>>

(* The cleanup of handle_socket: it removes the entry by user id, and knows  *)
(* nothing of the rooms.                                                     *)
Disconnect(s) == /\ pc[s] = "reading"
                 /\ Goto(s, "off")
                 /\ Reregister(Owner[s], NoSession)
                 /\ UNCHANGED <<at, roomVars, mutex>>

-----------------------------------------------------------------------------
(* call-sfu, sfu-answer and sfu-leave, each up to the mutex. *)

Request(s, r, l) == /\ pc[s] = "reading"
                    /\ at' = [at EXCEPT ![s] = r]
                    /\ Goto(s, l)
                    /\ UNCHANGED <<hubVars, roomVars, mutex>>

CallSfu(s, r)   == Request(s, r, "joining")
SfuAnswer(s, r) == Request(s, r, "answering")
SfuLeave(s, r)  == Request(s, r, "leaving")

-----------------------------------------------------------------------------
(* call-sfu. *)

(* room_full, also for a participant who is in the room already. or_insert   *)
(* came first, but a full room has participants, so it was there.            *)
Refuse(s) == /\ pc[s] = "joining" /\ Free
             /\ Full(at[s])
             /\ Goto(s, "replying")
             /\ UNCHANGED <<at, hubVars, roomVars, mutex>>

(* Mutants of Join: a participant who is in the room already is not          *)
(* announced again,                                                          *)
JoinQuietly(s) ==
  LET r == at[s]
      u == Owner[s]
  IN /\ pc[s] = "joining" /\ Free
     /\ ~Full(r)
     /\ open' = open \cup {r}
     /\ members' = [members EXCEPT ![r] = @ \cup {u}]
     /\ ready' = [ready EXCEPT ![r] = @ \ {u}]
     /\ lock' = s
     /\ todo' = IF u \in members[r] THEN {} ELSE members[r]
     /\ seat' = [seat EXCEPT ![r][u] = IF reg[u] = s THEN s ELSE NoSession]
     /\ peers' = [peers EXCEPT ![r][u] = {}]
     /\ Goto(s, "announcing")
     /\ UNCHANGED <<limit, at, reg>>

(* or the capacity is not checked.                                           *)
JoinFull(s) ==
  LET r == at[s]
      u == Owner[s]
  IN /\ pc[s] = "joining" /\ Free
     /\ open' = open \cup {r}
     /\ members' = [members EXCEPT ![r] = @ \cup {u}]
     /\ ready' = [ready EXCEPT ![r] = @ \ {u}]
     /\ lock' = s
     /\ todo' = members[r] \ {u}
     /\ seat' = [seat EXCEPT ![r][u] = IF reg[u] = s THEN s ELSE NoSession]
     /\ peers' = [peers EXCEPT ![r][u] = {}]
     /\ Goto(s, "announcing")
     /\ UNCHANGED <<limit, at, reg>>

(* The participant is inserted, or replaced with media_ready = false, and    *)
(* the others are to be notified. The joiner is told their number only.      *)
Join(s) ==
  LET r == at[s]
      u == Owner[s]
  IN /\ pc[s] = "joining" /\ Free
     /\ ~Full(r)
     /\ open' = open \cup {r}
     /\ members' = [members EXCEPT ![r] = @ \cup {u}]
     /\ ready' = [ready EXCEPT ![r] = @ \ {u}]
     /\ lock' = s
     /\ todo' = members[r] \ {u}
     /\ seat' = [seat EXCEPT ![r][u] = IF reg[u] = s THEN s ELSE NoSession]
     /\ peers' = [peers EXCEPT ![r][u] = {}]
     /\ Goto(s, "announcing")
     /\ UNCHANGED <<limit, at, reg>>

(* sfu-peer-joined and sfu-peer-left, to whichever session the hub has for   *)
(* the participant at that moment; a failure is ignored.                     *)
Announce(s, v) ==
  /\ pc[s] = "announcing" /\ v \in todo
  /\ todo' = todo \ {v}
  /\ peers' = IF reg[v] = NoSession THEN peers
              ELSE [peers EXCEPT ![at[s]][v] = @ \cup {Owner[s]}]
  /\ UNCHANGED <<limit, pc, at, hubVars, open, members, ready, lock>>

(* Mutant of Part: only participants with media are told who left. *)
PartIfReady(s, v) ==
  /\ pc[s] = "parting" /\ v \in todo
  /\ todo' = todo \ {v}
  /\ peers' = IF reg[v] = NoSession \/ v \notin ready[at[s]] THEN peers
              ELSE [peers EXCEPT ![at[s]][v] = @ \ {Owner[s]}]
  /\ UNCHANGED <<limit, pc, at, hubVars, open, members, ready, lock>>

Part(s, v) ==
  /\ pc[s] = "parting" /\ v \in todo
  /\ todo' = todo \ {v}
  /\ peers' = IF reg[v] = NoSession THEN peers
              ELSE [peers EXCEPT ![at[s]][v] = @ \ {Owner[s]}]
  /\ UNCHANGED <<limit, pc, at, hubVars, open, members, ready, lock>>

(* Mutant of Announced: the room is looked up again, behind the same mutex,  *)
(* before the guard is dropped.                                              *)
AnnouncedRelocks(s) == /\ pc[s] = "announcing" /\ todo = {}
                       /\ Free
                       /\ Goto(s, "replying")
                       /\ UNCHANGED <<at, hubVars, roomVars, mutex>>

Announced(s) == /\ pc[s] = "announcing" /\ todo = {}
                /\ lock' = NoSession
                /\ Goto(s, "replying")
                /\ UNCHANGED <<at, hubVars, roomVars, todo>>

(* sfu-joined or sfu-error, after the mutex is released. *)
Reply(s) == /\ pc[s] = "replying"
            /\ Goto(s, "reading")
            /\ UNCHANGED <<at, hubVars, roomVars, mutex>>

-----------------------------------------------------------------------------
(* sfu-answer and sfu-leave. *)

(* Mutant of Answer: a participant of any room is marked. *)
AnswerAnywhere(s) ==
  /\ pc[s] = "answering" /\ Free
  /\ ready' = [ready EXCEPT ![at[s]] = @ \cup {Owner[s]}]
  /\ Goto(s, "reading")
  /\ UNCHANGED <<limit, at, hubVars, open, members, peers, mutex>>

Answer(s) ==
  /\ pc[s] = "answering" /\ Free
  /\ ready' = [ready EXCEPT ![at[s]] = @ \cup ({Owner[s]} \cap members[at[s]])]
  /\ Goto(s, "reading")
  /\ UNCHANGED <<limit, at, hubVars, open, members, peers, mutex>>

LeaveNothing(s) == /\ pc[s] = "leaving" /\ Free
                   /\ Owner[s] \notin members[at[s]]
                   /\ Goto(s, "reading")
                   /\ UNCHANGED <<at, hubVars, roomVars, mutex>>

Leave(s) ==
  LET r == at[s]
      u == Owner[s]
  IN /\ pc[s] = "leaving" /\ Free
     /\ u \in members[r]
     /\ members' = [members EXCEPT ![r] = @ \ {u}]
     /\ ready' = [ready EXCEPT ![r] = @ \ {u}]
     /\ lock' = s
     /\ todo' = members[r] \ {u}
     /\ seat' = [seat EXCEPT ![r][u] = NoSession]
     /\ Goto(s, "parting")
     /\ UNCHANGED <<limit, at, reg, open, peers>>

(* An empty room is removed before the mutex is released. *)
Parted(s) ==
  /\ pc[s] = "parting" /\ todo = {}
  /\ open' = IF members[at[s]] = {} THEN open \ {at[s]} ELSE open
  /\ lock' = NoSession
  /\ Goto(s, "reading")
  /\ UNCHANGED <<limit, at, hubVars, members, ready, peers, todo>>

-----------------------------------------------------------------------------
Locked(s)  == Refuse(s) \/ Join(s) \/ Answer(s) \/ LeaveNothing(s) \/ Leave(s)
Goes(s)    == \/ Announced(s) \/ Parted(s) \/ Reply(s)
              \/ \E v \in Users : Announce(s, v) \/ Part(s, v)
Session(s) == \/ Register(s) \/ Disconnect(s)
              \/ \E r \in Rooms : CallSfu(s, r) \/ SfuAnswer(s, r) \/ SfuLeave(s, r)
              \/ Locked(s) \/ Goes(s)

Next == \E s \in Sessions : Session(s)

(* Every await of send_to returns, and tokio's mutex serves its waiters in   *)
(* the order they came, so none of them waits forever while it is released   *)
(* again and again.                                                          *)
Fairness == \A s \in Sessions : WF_vars(Goes(s)) /\ SF_vars(Locked(s))

Spec     == Init /\ [][Next]_vars
FairSpec == Spec /\ Fairness

-----------------------------------------------------------------------------
(* Properties. *)

(* The type invariant: the mutex is held over an await exactly by a task     *)
(* that notifies, and only participants are media-ready.                     *)
TypeOK == /\ limit \in Limits
          /\ pc \in [Sessions -> PCs]
          /\ at \in [Sessions -> Rooms]
          /\ reg \in [Users -> Sessions \cup {NoSession}]
          /\ open \subseteq Rooms
          /\ members \in [Rooms -> SUBSET Users]
          /\ ready \in [Rooms -> SUBSET Users]
          /\ lock \in Sessions \cup {NoSession}
          /\ todo \subseteq Users
          /\ seat \in [Rooms -> [Users -> Sessions \cup {NoSession}]]
          /\ peers \in [Rooms -> [Users -> SUBSET Users]]
          /\ \A s \in Sessions : lock = s <=> pc[s] \in {"announcing", "parting"}
          /\ \A r \in Rooms : ready[r] \subseteq members[r]

(* A room is in the map exactly while somebody is in it, and never has more  *)
(* than max_participants, whoever joins again or leaves at the same time     *)
(* (sfu_relay.rs:69, "prevents abuse"; 392, "Clean up empty rooms").         *)
RoomSizes ==
  \A r \in Rooms : /\ Cardinality(members[r]) <= limit
                   /\ Free => (r \in open <=> members[r] # {})

Seated(r, u)  == seat[r][u] # NoSession
Knows(r, u, v) == v \in peers[r][u]

(* While no round of notices is under way, the clients of a room agree with  *)
(* it: nobody knows a peer who is not there any more, and of any two at      *)
(* least one knows the other, so that media between them can be set up. It   *)
(* takes that the mutex is kept over the notices, that a participant who     *)
(* joins again is announced again, and it holds for the participants whose   *)
(* session has been registered since it joined.                              *)
PeersAgree ==
  Free => \A r \in Rooms : \A u \in Users : Seated(r, u) =>
             /\ peers[r][u] \subseteq members[r] \ {u}
             /\ \A v \in Users \ {u} : Seated(r, v) =>
                   Knows(r, u, v) \/ Knows(r, v, u)

(* Why: the task that keeps the mutex has put its own user in or out before  *)
(* the round, and a seat is a registered participant; during a round, only   *)
(* the participants still to be notified may know one too many or, with the  *)
(* joiner, not know of each other.                                           *)
HolderInv ==
  /\ Free => todo = {}
  /\ \A s \in Sessions : lock = s =>
        /\ todo \subseteq members[at[s]] \ {Owner[s]}
        /\ pc[s] = "announcing" <=> Owner[s] \in members[at[s]]

SeatInv ==
  \A r \in Rooms : \A u \in Users : Seated(r, u) =>
     u \in members[r] /\ reg[u] = seat[r][u] /\ u \notin peers[r][u]

Owes(s, u, l, r, v) == Owner[s] = u /\ pc[s] = l /\ at[s] = r /\ v \in todo

PeersInv ==
  \A r \in Rooms : \A u \in Users : Seated(r, u) =>
     \A w \in peers[r][u] \ members[r] :
        \E s \in Sessions : Owes(s, w, "parting", r, u)

MeetInv ==
  \A r \in Rooms : \A u, v \in Users : u # v /\ Seated(r, u) /\ Seated(r, v) =>
     \/ Knows(r, u, v) \/ Knows(r, v, u)
     \/ \E s \in Sessions : \/ Owes(s, u, "announcing", r, v)
                            \/ Owes(s, v, "announcing", r, u)

RoundInv == HolderInv /\ SeatInv /\ PeersInv /\ MeetInv

(* The relay implements the promise of SfuRooms: a round of notices counts   *)
(* as sent from the moment the mutex is taken, whatever sessions come and go *)
(* before its last notice is sent.                                           *)
Owed(l, r, u) == {w \in Users : \E s \in Sessions : Owes(s, w, l, r, u)}
Told(r, u) ==
  IF Seated(r, u)
  THEN (peers[r][u] \cup Owed("announcing", r, u)) \ Owed("parting", r, u)
  ELSE {}
Attached == [r \in Rooms |-> {u \in Users : Seated(r, u)}]
Known    == [r \in Rooms |-> [u \in Users |-> Told(r, u)]]

AtOnce == INSTANCE SfuRooms WITH Users <- Users, Rooms <- Rooms,
                                 Limits <- Limits, limit <- limit,
                                 present <- members, attached <- Attached,
                                 knows <- Known
RoundsAreAtomic == AtOnce!RoomsSpec

(* Every request is handled to its end, although all handlers wait for one   *)
(* mutex that is kept over awaits.                                           *)
RequestsEnd ==
  \A s \in Sessions : pc[s] \notin {"off", "reading"} ~> pc[s] = "reading"
=============================================================================
