------------------------------ MODULE SfuRooms ------------------------------
(* What the SFU relay promises to the clients of its rooms: as if a join or  *)
(* a leave were one step, notices included. Nobody sees a round of notices   *)
(* half done, no room is overfilled, and the only other thing that happens   *)
(* to a participant is that the session it joined from is replaced or lost.  *)
EXTENDS Naturals, FiniteSets

CONSTANTS Users, Rooms,
          Limits     \* values of max_participants

VARIABLES limit,
          present,   \* the participants of each room
          attached,  \* those whose session has been registered since they joined
          knows      \* whom the client of that session knows to be there

roomsVars == <<limit, present, attached, knows>>

RoomsInit == /\ limit \in Limits
             /\ present = [r \in Rooms |-> {}]
             /\ attached = [r \in Rooms |-> {}]
             /\ knows = [r \in Rooms |-> [u \in Users |-> {}]]

(* Whoever is attached learns of u, who knows nobody at first; u may join    *)
(* again, and may be off by the time its request is handled.                 *)
Enter(r, u) ==
  /\ Cardinality(present[r]) < limit
  /\ present' = [present EXCEPT ![r] = @ \cup {u}]
  /\ \/ attached' = [attached EXCEPT ![r] = @ \cup {u}]
     \/ attached' = [attached EXCEPT ![r] = @ \ {u}]
  /\ knows' = [knows EXCEPT ![r] =
                 [v \in Users |-> IF v \in attached[r] \ {u} THEN @[v] \cup {u}
                                                            ELSE {}]]
  /\ UNCHANGED limit

Exit(r, u) ==
  /\ u \in present[r]
  /\ present' = [present EXCEPT ![r] = @ \ {u}]
  /\ attached' = [attached EXCEPT ![r] = @ \ {u}]
  /\ knows' = [knows EXCEPT ![r] =
                 [v \in Users |-> IF v = u THEN {} ELSE @[v] \ {u}]]
  /\ UNCHANGED limit

Detach(u) ==
  /\ attached' = [r \in Rooms |-> attached[r] \ {u}]
  /\ knows' = [r \in Rooms |-> [knows[r] EXCEPT ![u] = {}]]
  /\ UNCHANGED <<limit, present>>

RoomsNext == \E u \in Users : Detach(u) \/ \E r \in Rooms : Enter(r, u) \/ Exit(r, u)

RoomsSpec == RoomsInit /\ [][RoomsNext]_roomsVars
=============================================================================
