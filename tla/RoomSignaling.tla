--------------------------- MODULE RoomSignaling ---------------------------
(* Calls by a room link: the room arms of dispatch_message (server.rs:266-   *)
(* 440), the rooms table (db/mod.rs) and the Redis key room_joiner. The host *)
(* is the user who created the room; anybody with the link may join, the     *)
(* host included. Rooms share nothing, so there is one. Each user has one    *)
(* session, whose task awaits between the steps below; what the tasks send   *)
(* reaches the clients through the hub, in an order that is not fixed        *)
(* between senders (SignalingHub).                                           *)
(*                                                                           *)
(* Left out: the key room_host, which room-host writes and nobody reads, and *)
(* the candidates of a guest, which go to created_by whatever the keys say.  *)
EXTENDS Naturals

CONSTANTS Users, Host, NoUser,
          Answering, \* whose clients send room-answer, or room-ice as "caller"
          Day,       \* ticks of the clock in 24 hours
          MaxJoins   \* bound on the join-room frames of one behaviour

ASSUME HostAssumption      == Host \in Users
ASSUME NoUserAssumption    == NoUser \notin Users
ASSUME AnsweringAssumption == Answering \subseteq Users
ASSUME DayAssumption       == Day \in Nat \ {0}
ASSUME MaxJoinsAssumption  == MaxJoins \in Nat

RoomLife == Day  \* NOW() + INTERVAL '24 hours', by the clock of the database

(* Mutant of KeyLife: a key that is kept for less than 24 hours. *)
ShortLife == Day - 1

KeyLife == Day   \* SETEX with 86400 s, counted by Redis from the last join

VARIABLES created,  \* there is a row in the rooms table
          roomLeft, \* ticks until expires_at, 0 once it has passed
          joiner,   \* the value of room_joiner, NoUser if there is no key
          keyLeft,  \* its TTL
          pc,       \* where each user's task is
          joins,    \* join-room frames so far
          about,    \* the guest whom the frame that a task handles is for
          target,   \* the user it sends it to, NoUser if unknown yet
          offers,   \* guests whose room-joined is on its way to the host
          answered, \* guests whose offer the host's client has taken up
          later,    \* history: pairs <<g, h>>, h stored room_joiner no
                    \* earlier than g did
          unstored  \* history: guests whose SETEX failed

room     == <<created, roomLeft>>
key      == <<joiner, keyLeft>>
sendVars == <<about, target, answered>>
joinVars == <<key, joins, offers, later, unstored>>
vars     == <<room, pc, sendVars, joinVars>>

(* "naming": awaits find_user_by_id; "storing": awaits SETEX; "notifying":   *)
(* awaits send_to the host; "fetching": awaits GET; "sending": awaits        *)
(* send_to the guest                                                         *)
PCs == {"reading", "naming", "storing", "notifying", "fetching", "sending"}

Stored     == {g \in Users : <<g, g>> \in later}
Active     == roomLeft > 0  \* what find_room finds
Goto(u, l) == pc' = [pc EXCEPT ![u] = l]

Init == /\ created = FALSE /\ roomLeft = 0
        /\ joiner = NoUser /\ keyLeft = 0
        /\ pc = [u \in Users |-> "reading"]
        /\ joins = 0
        /\ about = [u \in Users |-> NoUser]
        /\ target = [u \in Users |-> NoUser]
        /\ offers = {} /\ answered = {}
        /\ later = {} /\ unstored = {}

-----------------------------------------------------------------------------
(* The room. *)

CreateRoom == /\ ~created /\ pc[Host] = "reading"
              /\ created' = TRUE
              /\ roomLeft' = RoomLife
              /\ UNCHANGED <<pc, sendVars, joinVars>>

(* Time passes, for the database and for Redis. *)
Tick == /\ roomLeft > 0 \/ keyLeft > 0
        /\ roomLeft' = IF roomLeft > 0 THEN roomLeft - 1 ELSE 0
        /\ keyLeft' = IF keyLeft > 0 THEN keyLeft - 1 ELSE 0
        /\ joiner' = IF keyLeft > 1 THEN joiner ELSE NoUser
        /\ UNCHANGED <<created, pc, sendVars, joins, offers, later, unstored>>

-----------------------------------------------------------------------------
(* join-room. *)

JoinRoom(u) == /\ pc[u] = "reading"
               /\ Active /\ joins < MaxJoins
               /\ joins' = joins + 1
               /\ Goto(u, "naming")
               /\ UNCHANGED <<room, sendVars, key, offers, later, unstored>>

Named(u) == /\ pc[u] = "naming"
            /\ Goto(u, "storing")
            /\ UNCHANGED <<room, sendVars, joinVars>>

(* Mutant of StoreJoiner: only the first guest is stored (SETNX). *)
StoreFirst(u) ==
  /\ pc[u] = "storing"
  /\ joiner' = IF joiner = NoUser THEN u ELSE joiner
  /\ keyLeft' = IF joiner = NoUser THEN KeyLife ELSE keyLeft
  /\ later' = later \cup ((Stored \cup {u}) \X {u})
  /\ Goto(u, "notifying")
  /\ UNCHANGED <<room, joins, sendVars, offers, unstored>>

StoreJoiner(u) ==
  /\ pc[u] = "storing"
  /\ joiner' = u
  /\ keyLeft' = KeyLife
  /\ later' = later \cup ((Stored \cup {u}) \X {u})
  /\ Goto(u, "notifying")
  /\ UNCHANGED <<room, joins, sendVars, offers, unstored>>

(* Redis fails; the result is ignored. *)
StoreFails(u) == /\ pc[u] = "storing"
                 /\ unstored' = unstored \cup {u}
                 /\ Goto(u, "notifying")
                 /\ UNCHANGED <<room, joins, sendVars, key, offers, later>>

NotifyHost(u) == /\ pc[u] = "notifying"
                 /\ offers' = offers \cup {u}
                 /\ Goto(u, "reading")
                 /\ UNCHANGED <<room, sendVars, key, joins, later, unstored>>

(* The database fails, or the PUBLISH: the guest gets an error. *)
JoinFails(u) == /\ pc[u] \in {"naming", "notifying"}
                /\ Goto(u, "reading")
                /\ UNCHANGED <<room, sendVars, joinVars>>

-----------------------------------------------------------------------------
(* The host. Its client answers every room-joined it gets and from then on   *)
(* sends the candidates of that connection (webrtc_service.dart:248-271).    *)
(* The server takes the same frames from anybody, about anybody.             *)

TakeOffer(g) == /\ g \in offers
                /\ offers' = offers \ {g}
                /\ answered' = answered \cup {g}
                /\ UNCHANGED <<room, pc, about, target, key, joins, later, unstored>>

MayAnswer(u, g) == /\ created /\ u \in Answering /\ pc[u] = "reading"
                   /\ u = Host => g \in answered

(* room-answer with a joinerId goes there without a look at the room. *)
RoomAnswer(u, g) == /\ MayAnswer(u, g)
                    /\ about' = [about EXCEPT ![u] = g]
                    /\ target' = [target EXCEPT ![u] = g]
                    /\ Goto(u, "sending")
                    /\ UNCHANGED <<room, answered, joinVars>>

(* Without one (older clients) the task asks Redis, also after the room has  *)
(* expired; room-ice with the role "caller" does so in an active room.       *)
RoomAnswerOrIce(u, g) == /\ MayAnswer(u, g)
                         /\ about' = [about EXCEPT ![u] = g]
                         /\ Goto(u, "fetching")
                         /\ UNCHANGED <<room, target, answered, joinVars>>

(* The frame is handled, with a reply or an error. *)
Finish(u) == /\ about' = [about EXCEPT ![u] = NoUser]
             /\ target' = [target EXCEPT ![u] = NoUser]
             /\ Goto(u, "reading")
             /\ UNCHANGED <<room, answered, joinVars>>

(* No key: nothing is sent. *)
FetchNothing(u) == pc[u] = "fetching" /\ joiner = NoUser /\ Finish(u)

FetchFails(u) == pc[u] = "fetching" /\ Finish(u)

(* Mutant of FetchJoiner: a missing key is not noticed. *)
FetchAnything(u) == /\ pc[u] = "fetching"
                    /\ target' = [target EXCEPT ![u] = joiner]
                    /\ Goto(u, "sending")
                    /\ UNCHANGED <<room, about, answered, joinVars>>

FetchJoiner(u) == /\ pc[u] = "fetching"
                  /\ joiner # NoUser
                  /\ target' = [target EXCEPT ![u] = joiner]
                  /\ Goto(u, "sending")
                  /\ UNCHANGED <<room, about, answered, joinVars>>

Forward(u) == pc[u] = "sending" /\ Finish(u)

-----------------------------------------------------------------------------
Joins(u)   == \/ JoinRoom(u) \/ Named(u) \/ StoreJoiner(u) \/ StoreFails(u)
              \/ NotifyHost(u) \/ JoinFails(u)
Answers(u) == \/ FetchNothing(u) \/ FetchFails(u) \/ FetchJoiner(u) \/ Forward(u)
              \/ \E g \in Users : RoomAnswer(u, g) \/ RoomAnswerOrIce(u, g)

Next == \/ CreateRoom \/ Tick
        \/ \E u \in Users : Joins(u) \/ Answers(u) \/ TakeOffer(u)

Spec == Init /\ [][Next]_vars

-----------------------------------------------------------------------------
(* Properties. *)

(* The type invariant: the key has a value as long as it has a TTL, and a    *)
(* task that sends knows to whom.                                            *)
TypeOK == /\ created \in BOOLEAN
          /\ roomLeft \in 0 .. RoomLife /\ keyLeft \in 0 .. KeyLife
          /\ joiner \in Users \cup {NoUser}
          /\ joiner = NoUser <=> keyLeft = 0
          /\ pc \in [Users -> PCs]
          /\ joins \in Nat
          /\ about \in [Users -> Users \cup {NoUser}]
          /\ target \in [Users -> Users \cup {NoUser}]
          /\ \A u \in Users : /\ pc[u] \in {"fetching", "sending"} <=> about[u] # NoUser
                              /\ pc[u] = "sending" <=> target[u] # NoUser
          /\ offers \subseteq Users /\ answered \subseteq Users
          /\ later \subseteq Users \X Users
          /\ unstored \subseteq Users

(* What the host sends for a guest goes to that guest, or to one who joined  *)
(* the room later, and then only because both were in it: the key is stored  *)
(* before the host hears of the guest, so its answer and its candidates      *)
(* never run ahead of the key (server.rs:328-345). The one exception is a    *)
(* guest whose SETEX failed unnoticed.                                       *)
Explained(g, to) == <<g, to>> \in later \/ g \in unstored

MisroutedIsOvertaken ==
  target[Host] # NoUser => Explained(about[Host], target[Host])

(* Why: it holds of the key for every guest the host may have heard of. *)
Heard(g) == g \in offers \cup answered \/ pc[g] = "notifying"

KeyInv ==
  /\ \A g \in Users : Heard(g) => g \in Stored \cup unstored
  /\ joiner # NoUser => \A g \in Stored : <<g, joiner>> \in later
  /\ about[Host] # NoUser => about[Host] \in answered

(* As long as the room is active, what the host sends for a guest it answered*)
(* is not dropped for want of a key, save for a guest whose SETEX failed     *)
(* unnoticed: the key, which every join starts anew, lasts at least as long  *)
(* as the room (server.rs:331-336, db/mod.rs:183).                           *)
AnsweredIsRouted ==
  [][FetchNothing(Host) => ~Active \/ about[Host] \in unstored]_vars

(* Why: nobody joins before there is a room, and what a guest stored outlives*)
(* it.                                                                       *)
LifeInv == /\ ~created => /\ later = {} /\ roomLeft = 0
                          /\ \A u \in Users : pc[u] = "reading"
           /\ Stored # {} => keyLeft >= roomLeft
=============================================================================
