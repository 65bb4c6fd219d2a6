--------------------------- MODULE SfuRelayProofs ---------------------------
(* Proofs about SfuRelay, for any users, rooms, sessions and limits: types,  *)
(* the sizes of rooms, and that the clients of a room agree with it whenever *)
(* no round of notices is under way.                                         *)
EXTENDS SfuRelay, FiniteSetTheorems, TLAPS

USE UsersAssumption, OwnerAssumption, NoSessionAssumption, LimitsAssumption

-----------------------------------------------------------------------------
(* Types, one step per action. *)

LEMMA TypeStep ==
  ASSUME TypeOK, [Next]_vars
  PROVE  TypeOK'
<1> USE DEF TypeOK, PCs, Goto, Free, hubVars, roomVars, mutex
<1>1. CASE UNCHANGED vars
  BY <1>1 DEF vars
<1>2. ASSUME NEW s \in Sessions, Session(s)
      PROVE  TypeOK'
  <2>1. CASE Register(s)
    BY <2>1 DEF Register, Reregister
  <2>2. CASE Disconnect(s)
    BY <2>2 DEF Disconnect, Reregister
  <2>3. ASSUME NEW r \in Rooms, CallSfu(s, r) \/ SfuAnswer(s, r) \/ SfuLeave(s, r)
        PROVE  TypeOK'
    <3>1. PICK l \in {"joining", "answering", "leaving"} : Request(s, r, l)
      BY <2>3 DEF CallSfu, SfuAnswer, SfuLeave
    <3> QED
      BY <3>1 DEF Request
  <2>4. CASE Refuse(s)
    BY <2>4 DEF Refuse
  <2>5. CASE Join(s)
    BY <2>5 DEF Join
  <2>6. CASE Answer(s)
    BY <2>6 DEF Answer
  <2>7. CASE LeaveNothing(s)
    BY <2>7 DEF LeaveNothing
  <2>8. CASE Leave(s)
    BY <2>8 DEF Leave
  <2>9. CASE Announced(s)
    BY <2>9 DEF Announced
  <2>10. CASE Parted(s)
    BY <2>10 DEF Parted
  <2>11. CASE Reply(s)
    BY <2>11 DEF Reply
  <2>12. ASSUME NEW v \in Users, Announce(s, v)
         PROVE  TypeOK'
    BY <2>12 DEF Announce
  <2>13. ASSUME NEW v \in Users, Part(s, v)
         PROVE  TypeOK'
    BY <2>13 DEF Part
  <2> QED
    BY <1>2, <2>1, <2>2, <2>3, <2>4, <2>5, <2>6, <2>7, <2>8, <2>9, <2>10,
       <2>11, <2>12, <2>13 DEF Session, Locked, Goes
<1> QED
  BY <1>1, <1>2 DEF Next

(* TypeOK: whatever the sessions do, the mutex is kept over an await exactly *)
(* by a task that sends notices.                                             *)
THEOREM TypeCorrect == Spec => []TypeOK
<1>1. Init => TypeOK
  BY DEF Init, TypeOK, PCs
<1> QED
  BY <1>1, TypeStep, PTL DEF Spec

-----------------------------------------------------------------------------
(* Sizes of rooms. An open room without participants is one whose last       *)
(* participant is just leaving.                                              *)

OpenInv ==
  \A r \in Rooms :
     /\ members[r] # {} => r \in open
     /\ r \in open /\ members[r] = {} =>
           \E s \in Sessions : pc[s] = "parting" /\ at[s] = r

SizeInv == OpenInv /\ \A r \in Rooms : Cardinality(members[r]) <= limit

LEMMA FiniteMembers ==
  ASSUME TypeOK, NEW r \in Rooms
  PROVE  IsFiniteSet(members[r]) /\ Cardinality(members[r]) \in Nat
<1>1. members[r] \subseteq Users
  BY DEF TypeOK
<1> QED
  BY <1>1, FS_Subset, FS_CardinalityType

LEMMA SizeKept ==
  ASSUME SizeInv, OpenInv', UNCHANGED <<limit, members>>
  PROVE  SizeInv'
  BY DEF SizeInv

LEMMA SizeStep ==
  ASSUME TypeOK, SizeInv, [Next]_vars
  PROVE  SizeInv'
<1> USE DEF Goto, Free, hubVars, roomVars, mutex
<1>1. CASE UNCHANGED vars
  BY <1>1 DEF vars, SizeInv, OpenInv
<1>2. ASSUME NEW s \in Sessions, Session(s)
      PROVE  SizeInv'
  <2>1. CASE Join(s)
    <3>1. \A r \in Rooms : /\ Cardinality(members[r]) \in Nat
                           /\ IsFiniteSet(members[r])
      BY FiniteMembers
    <3>2. Cardinality(members[at[s]] \cup {Owner[s]}) <= limit
      <4>1. at[s] \in Rooms /\ limit \in Nat
        BY DEF TypeOK
      <4>2. Cardinality(members[at[s]]) < limit
        BY <2>1, <3>1, <4>1 DEF Join, Full
      <4>3. Cardinality(members[at[s]] \cup {Owner[s]})
              \in {Cardinality(members[at[s]]), Cardinality(members[at[s]]) + 1}
        BY <3>1, <4>1, FS_AddElement
      <4> QED
        BY <3>1, <4>1, <4>2, <4>3
    <3>3. \A r \in Rooms : Cardinality(members'[r]) <= limit'
      BY <2>1, <3>2 DEF Join, TypeOK, SizeInv
    <3>4. OpenInv'
      BY <2>1 DEF Join, TypeOK, SizeInv, OpenInv
    <3> QED
      BY <3>3, <3>4 DEF SizeInv
  <2>2. CASE Leave(s)
    <3>1. \A r \in Rooms : /\ Cardinality(members[r]) \in Nat
                           /\ IsFiniteSet(members[r])
      BY FiniteMembers
    <3>2. Cardinality(members[at[s]] \ {Owner[s]}) <= limit
      <4>1. at[s] \in Rooms /\ limit \in Nat
        BY DEF TypeOK
      <4>2. Cardinality(members[at[s]]) <= limit
        BY <4>1 DEF SizeInv
      <4>3. /\ Cardinality(members[at[s]] \ {Owner[s]}) <= Cardinality(members[at[s]])
            /\ Cardinality(members[at[s]] \ {Owner[s]}) \in Nat
        BY <3>1, <4>1, FS_Subset, FS_CardinalityType
      <4> QED
        BY <3>1, <4>1, <4>2, <4>3
    <3>3. \A r \in Rooms : Cardinality(members'[r]) <= limit'
      BY <2>2, <3>2 DEF Leave, TypeOK, SizeInv
    <3>4. OpenInv'
      BY <2>2 DEF Leave, TypeOK, SizeInv, OpenInv
    <3> QED
      BY <3>3, <3>4 DEF SizeInv
  <2>3. CASE Parted(s)
    <3>1. OpenInv'
      BY <2>3 DEF Parted, TypeOK, SizeInv, OpenInv
    <3> QED
      BY <2>3, <3>1, SizeKept DEF Parted
  <2>4. CASE Announced(s)
    <3>1. OpenInv'
      BY <2>4 DEF Announced, TypeOK, SizeInv, OpenInv
    <3> QED
      BY <2>4, <3>1, SizeKept DEF Announced
  <2>5. CASE \E v \in Users : Announce(s, v) \/ Part(s, v)
    <3>1. OpenInv'
      BY <2>5 DEF Announce, Part, TypeOK, SizeInv, OpenInv
    <3> QED
      BY <2>5, <3>1, SizeKept DEF Announce, Part
  <2>6. CASE Register(s) \/ Disconnect(s)
    <3>1. OpenInv'
      BY <2>6 DEF Register, Disconnect, TypeOK, SizeInv, OpenInv
    <3> QED
      BY <2>6, <3>1, SizeKept DEF Register, Disconnect
  <2>7. CASE \E r \in Rooms : CallSfu(s, r) \/ SfuAnswer(s, r) \/ SfuLeave(s, r)
    <3>1. OpenInv'
      BY <2>7 DEF CallSfu, SfuAnswer, SfuLeave, Request, TypeOK, SizeInv, OpenInv
    <3> QED
      BY <2>7, <3>1, SizeKept DEF CallSfu, SfuAnswer, SfuLeave, Request
  <2>8. CASE Refuse(s) \/ Answer(s) \/ LeaveNothing(s) \/ Reply(s)
    <3>1. OpenInv'
      BY <2>8 DEF Refuse, Answer, LeaveNothing, Reply, TypeOK, SizeInv, OpenInv
    <3> QED
      BY <2>8, <3>1, SizeKept DEF Refuse, Answer, LeaveNothing, Reply
  <2> QED
    BY <1>2, <2>1, <2>2, <2>3, <2>4, <2>5, <2>6, <2>7, <2>8
       DEF Session, Locked, Goes
<1> QED
  BY <1>1, <1>2 DEF Next

(* RoomSizes: no interleaving of joins, repeated joins and leaves overfills  *)
(* a room, or leaves an empty one in the map.                                *)
THEOREM RoomsKeepTheirSizes == Spec => []RoomSizes
<1>1. Init => SizeInv
  <2> SUFFICES ASSUME Init PROVE SizeInv
    OBVIOUS
  <2>1. Cardinality({}) = 0 /\ limit \in Nat
    BY FS_EmptySet DEF Init
  <2>2. \A r \in Rooms : members[r] = {}
    BY DEF Init
  <2>3. OpenInv
    BY <2>2 DEF Init, OpenInv
  <2> QED
    BY <2>1, <2>2, <2>3 DEF SizeInv
<1>2. TypeOK /\ SizeInv => RoomSizes
  <2> SUFFICES ASSUME TypeOK, SizeInv PROVE RoomSizes
    OBVIOUS
  <2>1. \A r \in Rooms : Free => (r \in open <=> members[r] # {})
    <3>1. Free => \A s \in Sessions : pc[s] # "parting"
      BY DEF TypeOK, Free
    <3> QED
      BY <3>1 DEF SizeInv, OpenInv
  <2> QED
    BY <2>1 DEF SizeInv, RoomSizes
<1> QED
  BY <1>1, <1>2, TypeCorrect, SizeStep, PTL DEF Spec

-----------------------------------------------------------------------------
(* Rounds of notices. The steps fall into those that only change the state   *)
(* of a task outside a round, those that take seats away, and those that     *)
(* begin, continue or end a round.                                           *)

LEMMA OwesHolds ==
  ASSUME TypeOK, NEW s \in Sessions, NEW u, NEW r, NEW v,
         NEW l \in {"announcing", "parting"}, Owes(s, u, l, r, v)
  PROVE  lock = s
  BY DEF TypeOK, Owes

LEMMA OutsideRound ==
  ASSUME TypeOK, RoundInv, NEW s \in Sessions, lock # s,
         \A t \in Sessions \ {s} : pc'[t] = pc[t] /\ at'[t] = at[t],
         pc'[s] \notin {"announcing", "parting"},
         UNCHANGED <<members, lock, todo, peers>>,
         \A r \in Rooms : \A u \in Users : Seated(r, u)' =>
            seat'[r][u] = seat[r][u] /\ reg'[u] = reg[u]
  PROVE  RoundInv'
<1>1. ASSUME NEW t \in Sessions, NEW u, NEW r, NEW v,
             NEW l \in {"announcing", "parting"}, Owes(t, u, l, r, v)
      PROVE  Owes(t, u, l, r, v)'
  BY <1>1, OwesHolds DEF Owes
<1>2. \A r \in Rooms : \A u \in Users : Seated(r, u)' => Seated(r, u)
  BY DEF Seated
<1>3. HolderInv'
  BY DEF RoundInv, HolderInv, Free, TypeOK
<1>4. SeatInv'
  BY <1>2 DEF RoundInv, SeatInv
<1>5. PeersInv'
  BY <1>1, <1>2 DEF RoundInv, PeersInv
<1>6. MeetInv'
  BY <1>1, <1>2 DEF RoundInv, MeetInv, Knows
<1> QED
  BY <1>3, <1>4, <1>5, <1>6 DEF RoundInv

LEMMA JoinStep ==
  ASSUME TypeOK, RoundInv, NEW s \in Sessions, Join(s)
  PROVE  RoundInv'
<1> DEFINE r == at[s]
           u == Owner[s]
<1>1. /\ r \in Rooms /\ u \in Users /\ todo = {} /\ lock = NoSession
      /\ members' = [members EXCEPT ![r] = @ \cup {u}]
      /\ lock' = s /\ todo' = members[r] \ {u} /\ members[r] \subseteq Users
      /\ pc' = [pc EXCEPT ![s] = "announcing"] /\ at' = at /\ reg' = reg
      /\ seat' = [seat EXCEPT ![r][u] = IF reg[u] = s THEN s ELSE NoSession]
      /\ peers' = [peers EXCEPT ![r][u] = {}]
  BY DEF Join, Free, Goto, RoundInv, HolderInv, TypeOK
<1>2. \A q \in Rooms, x \in Users : <<q, x>> # <<r, u>> =>
         seat'[q][x] = seat[q][x] /\ peers'[q][x] = peers[q][x]
  BY <1>1 DEF TypeOK
<1>3. /\ peers'[r][u] = {}
      /\ seat'[r][u] # NoSession => seat'[r][u] = s /\ reg[u] = s
  BY <1>1 DEF TypeOK
<1>4. \A q \in Rooms : members[q] \subseteq members'[q]
  BY <1>1 DEF TypeOK
<1>5. u \in members'[r] /\ members'[r] = members[r] \cup {u}
  BY <1>1 DEF TypeOK
<1>6. HolderInv'
  BY <1>1, <1>5 DEF HolderInv, Free, TypeOK
<1>7. SeatInv'
  BY <1>1, <1>2, <1>3, <1>4, <1>5 DEF SeatInv, RoundInv, Seated
<1>8. PeersInv'
  <2>1. \A q \in Rooms, x \in Users : Seated(q, x) => peers[q][x] \subseteq members[q]
    BY <1>1 DEF RoundInv, PeersInv, Owes
  <2> QED
    BY <1>1, <1>2, <1>3, <1>4, <2>1 DEF PeersInv, Seated
<1>9. MeetInv'
  <2> SUFFICES ASSUME NEW q \in Rooms, NEW x \in Users, NEW y \in Users, x # y,
                      Seated(q, x)', Seated(q, y)'
               PROVE  \/ Knows(q, x, y)' \/ Knows(q, y, x)'
                      \/ \E t \in Sessions : \/ Owes(t, x, "announcing", q, y)'
                                             \/ Owes(t, y, "announcing", q, x)'
    BY DEF MeetInv
  <2>1. CASE q = r /\ x = u
    <3>1. y \in members[r]
      BY <1>2, <2>1 DEF RoundInv, SeatInv, Seated
    <3> QED
      BY <1>1, <2>1, <3>1 DEF Owes, TypeOK
  <2>2. CASE q = r /\ y = u
    <3>1. x \in members[r]
      BY <1>2, <2>2 DEF RoundInv, SeatInv, Seated
    <3> QED
      BY <1>1, <2>2, <3>1 DEF Owes, TypeOK
  <2>3. CASE q # r \/ (x # u /\ y # u)
    <3>1. Seated(q, x) /\ Seated(q, y)
      BY <1>2, <2>3 DEF Seated
    <3>2. Knows(q, x, y) \/ Knows(q, y, x)
      BY <1>1, <3>1 DEF RoundInv, MeetInv, Owes
    <3> QED
      BY <1>2, <2>3, <3>2 DEF Knows
  <2> QED
    BY <2>1, <2>2, <2>3
<1> QED
  BY <1>6, <1>7, <1>8, <1>9 DEF RoundInv

LEMMA LeaveStep ==
  ASSUME TypeOK, RoundInv, NEW s \in Sessions, Leave(s)
  PROVE  RoundInv'
<1> DEFINE r == at[s]
           u == Owner[s]
<1>1. /\ r \in Rooms /\ u \in Users /\ todo = {} /\ lock = NoSession
      /\ members' = [members EXCEPT ![r] = @ \ {u}]
      /\ lock' = s /\ todo' = members[r] \ {u} /\ members[r] \subseteq Users
      /\ pc' = [pc EXCEPT ![s] = "parting"] /\ at' = at /\ reg' = reg
      /\ seat' = [seat EXCEPT ![r][u] = NoSession]
      /\ peers' = peers
  BY DEF Leave, Free, Goto, RoundInv, HolderInv, TypeOK
<1>2. \A q \in Rooms, x \in Users :
         /\ <<q, x>> # <<r, u>> => seat'[q][x] = seat[q][x]
         /\ seat'[q][x] # NoSession => <<q, x>> # <<r, u>> /\ Seated(q, x)
  BY <1>1 DEF TypeOK, Seated
<1>3. /\ members'[r] = members[r] \ {u}
      /\ \A q \in Rooms \ {r} : members'[q] = members[q]
  BY <1>1 DEF TypeOK
<1>4. HolderInv'
  BY <1>1, <1>3 DEF HolderInv, Free, TypeOK
<1>5. SeatInv'
  BY <1>1, <1>2, <1>3 DEF SeatInv, RoundInv, Seated
<1>6. PeersInv'
  <2> SUFFICES ASSUME NEW q \in Rooms, NEW x \in Users, Seated(q, x)',
                      NEW w \in peers'[q][x] \ members'[q]
               PROVE  \E t \in Sessions : Owes(t, w, "parting", q, x)'
    BY DEF PeersInv
  <2>1. Seated(q, x) /\ <<q, x>> # <<r, u>>
    BY <1>2 DEF Seated
  <2>2. w \in members[q]
    BY <1>1, <2>1 DEF RoundInv, PeersInv, Owes
  <2>3. q = r /\ w = u
    BY <1>3, <2>2
  <2>4. x \in members[r] /\ x # u
    BY <2>1, <2>3 DEF RoundInv, SeatInv
  <2> QED
    BY <1>1, <2>3, <2>4 DEF Owes, TypeOK
<1>7. MeetInv'
  <2> SUFFICES ASSUME NEW q \in Rooms, NEW x \in Users, NEW y \in Users, x # y,
                      Seated(q, x)', Seated(q, y)'
               PROVE  Knows(q, x, y)' \/ Knows(q, y, x)'
    BY DEF MeetInv
  <2>1. Seated(q, x) /\ Seated(q, y)
    BY <1>2 DEF Seated
  <2> QED
    BY <1>1, <2>1 DEF RoundInv, MeetInv, Knows, Owes
<1> QED
  BY <1>4, <1>5, <1>6, <1>7 DEF RoundInv

(* A notice. The participant v leaves todo and, when the hub finds its       *)
(* session, learns of it; a seated participant is always found.              *)
LEMMA AnnounceStep ==
  ASSUME TypeOK, RoundInv, NEW s \in Sessions, NEW v \in Users, Announce(s, v)
  PROVE  RoundInv'
<1> DEFINE r == at[s]
           u == Owner[s]
<1>1. /\ r \in Rooms /\ u \in Users /\ lock = s /\ pc[s] = "announcing" /\ v \in todo
      /\ todo' = todo \ {v} /\ UNCHANGED <<pc, at, reg, seat, members, lock>>
      /\ s # NoSession
  BY DEF Announce, hubVars, TypeOK
<1>2. u \in members[r] /\ v \in members[r] /\ v # u
  BY <1>1 DEF RoundInv, HolderInv
<1>3. /\ \A q \in Rooms, x \in Users :
            /\ peers[q][x] \subseteq peers'[q][x]
            /\ peers'[q][x] \subseteq peers[q][x] \cup {u}
            /\ <<q, x>> # <<r, v>> => peers'[q][x] = peers[q][x]
      /\ reg[v] # NoSession => u \in peers'[r][v]
  BY <1>1 DEF Announce, TypeOK
<1>4. HolderInv'
  BY <1>1 DEF RoundInv, HolderInv, Free
<1>5. SeatInv'
  BY <1>1, <1>2, <1>3 DEF RoundInv, SeatInv, Seated
<1>6. PeersInv'
  <2>1. \A t \in Sessions : pc[t] # "parting"
    BY <1>1 DEF TypeOK
  <2> QED
    BY <1>1, <1>2, <1>3, <2>1 DEF RoundInv, PeersInv, Owes, Seated
<1>7. MeetInv'
  <2> SUFFICES ASSUME NEW q \in Rooms, NEW x \in Users, NEW y \in Users, x # y,
                      Seated(q, x)', Seated(q, y)'
               PROVE  \/ Knows(q, x, y)' \/ Knows(q, y, x)'
                      \/ \E t \in Sessions : \/ Owes(t, x, "announcing", q, y)'
                                             \/ Owes(t, y, "announcing", q, x)'
    BY DEF MeetInv
  <2>1. Seated(q, x) /\ Seated(q, y)
    BY <1>1 DEF Seated
  <2>2. CASE Knows(q, x, y) \/ Knows(q, y, x)
    BY <1>3, <2>2 DEF Knows
  <2>3. ASSUME NEW t \in Sessions, NEW a \in Users, NEW b \in Users,
               Owes(t, a, "announcing", q, b), Seated(q, b)
        PROVE  Owes(t, a, "announcing", q, b)' \/ Knows(q, b, a)'
    <3>1. t = s
      BY <1>1, <2>3, OwesHolds
    <3>2. CASE b # v
      BY <1>1, <2>3, <3>2 DEF Owes
    <3>3. CASE b = v
      BY <1>1, <1>3, <2>3, <3>1, <3>3 DEF Owes, Knows, RoundInv, SeatInv, Seated, TypeOK
    <3> QED
      BY <3>2, <3>3
  <2> QED
    BY <2>1, <2>2, <2>3 DEF RoundInv, MeetInv
<1> QED
  BY <1>4, <1>5, <1>6, <1>7 DEF RoundInv

LEMMA PartStep ==
  ASSUME TypeOK, RoundInv, NEW s \in Sessions, NEW v \in Users, Part(s, v)
  PROVE  RoundInv'
<1> DEFINE r == at[s]
           u == Owner[s]
<1>1. /\ r \in Rooms /\ u \in Users /\ lock = s /\ pc[s] = "parting" /\ v \in todo
      /\ todo' = todo \ {v} /\ UNCHANGED <<pc, at, reg, seat, members, lock>>
      /\ s # NoSession
  BY DEF Part, hubVars, TypeOK
<1>2. u \notin members[r] /\ v \in members[r]
  BY <1>1 DEF RoundInv, HolderInv
<1>3. /\ \A q \in Rooms, x \in Users :
            /\ peers'[q][x] \subseteq peers[q][x]
            /\ peers[q][x] \subseteq peers'[q][x] \cup {u}
            /\ <<q, x>> # <<r, v>> => peers'[q][x] = peers[q][x]
      /\ reg[v] # NoSession => u \notin peers'[r][v]
  BY <1>1 DEF Part, TypeOK
<1>4. HolderInv'
  BY <1>1 DEF RoundInv, HolderInv, Free
<1>5. SeatInv'
  BY <1>1, <1>3 DEF RoundInv, SeatInv, Seated
<1>6. PeersInv'
  <2> SUFFICES ASSUME NEW q \in Rooms, NEW x \in Users, Seated(q, x)',
                      NEW w \in peers'[q][x] \ members'[q]
               PROVE  \E t \in Sessions : Owes(t, w, "parting", q, x)'
    BY DEF PeersInv
  <2>1. Seated(q, x) /\ w \in peers[q][x] \ members[q]
    BY <1>1, <1>3 DEF Seated
  <2>2. PICK t \in Sessions : Owes(t, w, "parting", q, x)
    BY <2>1 DEF RoundInv, PeersInv
  <2>3. t = s
    BY <1>1, <2>2, OwesHolds
  <2>4. x # v
    BY <1>1, <1>3, <2>1, <2>2, <2>3 DEF RoundInv, SeatInv, Seated, Owes, TypeOK
  <2> QED
    BY <1>1, <2>2, <2>4 DEF Owes
<1>7. MeetInv'
  <2> SUFFICES ASSUME NEW q \in Rooms, NEW x \in Users, NEW y \in Users, x # y,
                      Seated(q, x)', Seated(q, y)'
               PROVE  Knows(q, x, y)' \/ Knows(q, y, x)'
    BY DEF MeetInv
  <2>1. Seated(q, x) /\ Seated(q, y)
    BY <1>1 DEF Seated
  <2>2. Knows(q, x, y) \/ Knows(q, y, x)
    <3>1. \A t \in Sessions : pc[t] # "announcing"
      BY <1>1 DEF TypeOK
    <3> QED
      BY <2>1, <3>1 DEF RoundInv, MeetInv, Owes
  <2>3. q = r => x # u /\ y # u
    BY <1>2, <2>1 DEF RoundInv, SeatInv
  <2> QED
    BY <1>3, <2>2, <2>3 DEF Knows
<1> QED
  BY <1>4, <1>5, <1>6, <1>7 DEF RoundInv

(* The end of a round: nobody is owed a notice any more. *)
LEMMA EndStep ==
  ASSUME TypeOK, RoundInv, NEW s \in Sessions, Announced(s) \/ Parted(s)
  PROVE  RoundInv'
<1>1. /\ lock = s /\ todo = {} /\ lock' = NoSession /\ s # NoSession
      /\ UNCHANGED <<at, reg, seat, members, peers, todo>>
  BY DEF Announced, Parted, hubVars, roomVars, TypeOK
<1>2. HolderInv'
  BY <1>1 DEF HolderInv, Free
<1>3. SeatInv'
  BY <1>1 DEF RoundInv, SeatInv, Seated
<1>4. PeersInv'
  BY <1>1 DEF RoundInv, PeersInv, Owes, Seated
<1>5. MeetInv'
  BY <1>1 DEF RoundInv, MeetInv, Owes, Seated, Knows
<1> QED
  BY <1>2, <1>3, <1>4, <1>5 DEF RoundInv

LEMMA RoundStep ==
  ASSUME TypeOK, RoundInv, [Next]_vars
  PROVE  RoundInv'
<1>1. CASE UNCHANGED vars
  BY <1>1 DEF vars, RoundInv, HolderInv, SeatInv, PeersInv, MeetInv, Owes, Free,
              Seated, Knows
<1>2. ASSUME NEW s \in Sessions, Session(s)
      PROVE  RoundInv'
  <2>1. CASE Register(s) \/ Disconnect(s)
    <3>1. /\ lock # s /\ pc'[s] \in {"reading", "off"}
          /\ \A t \in Sessions \ {s} : pc'[t] = pc[t] /\ at'[t] = at[t]
          /\ UNCHANGED <<members, lock, todo, peers>>
      BY <2>1 DEF Register, Disconnect, Goto, roomVars, mutex, TypeOK
    <3>2. \A r \in Rooms : \A u \in Users : Seated(r, u)' =>
             seat'[r][u] = seat[r][u] /\ reg'[u] = reg[u]
      BY <2>1 DEF Register, Disconnect, Reregister, Seated, TypeOK, RoundInv, SeatInv
    <3> QED
      BY <3>1, <3>2, OutsideRound
  <2>2. CASE \/ \E r \in Rooms : CallSfu(s, r) \/ SfuAnswer(s, r) \/ SfuLeave(s, r)
             \/ Refuse(s) \/ Answer(s) \/ LeaveNothing(s) \/ Reply(s)
    <3>1. /\ lock # s /\ pc'[s] \notin {"announcing", "parting"}
          /\ \A t \in Sessions \ {s} : pc'[t] = pc[t] /\ at'[t] = at[t]
          /\ UNCHANGED <<members, lock, todo, peers, seat, reg>>
      BY <2>2 DEF CallSfu, SfuAnswer, SfuLeave, Request, Refuse, Answer,
                  LeaveNothing, Reply, Goto, hubVars, roomVars, mutex, TypeOK
    <3> QED
      BY <3>1, OutsideRound
  <2> QED
    BY <1>2, <2>1, <2>2, JoinStep, LeaveStep, AnnounceStep, PartStep, EndStep
       DEF Session, Locked, Goes
<1> QED
  BY <1>1, <1>2 DEF Next

(* RoundInv: who is owed a notice, and what everybody knows meanwhile.       *)
THEOREM RoundsAreComplete == Spec => []RoundInv
<1>1. Init => RoundInv
  BY DEF Init, RoundInv, HolderInv, SeatInv, PeersInv, MeetInv, Seated, Free
<1> QED
  BY <1>1, TypeCorrect, RoundStep, PTL DEF Spec

(* PeersAgree: between rounds the clients of a room agree with it. *)
THEOREM PeersAreKnown == Spec => []PeersAgree
<1>1. RoundInv => PeersAgree
  BY DEF RoundInv, HolderInv, SeatInv, PeersInv, MeetInv, PeersAgree, Owes
<1> QED
  BY <1>1, RoundsAreComplete, PTL

-----------------------------------------------------------------------------
(* The relay implements SfuRooms. What a participant is told by the end of   *)
(* the round: what its client knows, but for the one it is still to hear of. *)

Missing(s, r, u) == IF r = at[s] /\ u \in todo THEN {Owner[s]} ELSE {}

ToldFacts ==
  \A r \in Rooms, u \in Users :
     /\ ~Seated(r, u) => Told(r, u) = {}
     /\ Seated(r, u) =>
           /\ Free => Told(r, u) = peers[r][u]
           /\ \A s \in Sessions : lock = s =>
                 /\ pc[s] = "announcing" =>
                       Told(r, u) = peers[r][u] \cup Missing(s, r, u)
                 /\ pc[s] = "parting" =>
                       Told(r, u) = peers[r][u] \ Missing(s, r, u)

LEMMA ToldNow == TypeOK => ToldFacts
<1> SUFFICES ASSUME TypeOK PROVE ToldFacts
  OBVIOUS
<1> SUFFICES ASSUME NEW r \in Rooms, NEW u \in Users, Seated(r, u)
             PROVE  /\ Free => Told(r, u) = peers[r][u]
                    /\ \A s \in Sessions : lock = s =>
                          /\ pc[s] = "announcing" =>
                                Told(r, u) = peers[r][u] \cup Missing(s, r, u)
                          /\ pc[s] = "parting" =>
                                Told(r, u) = peers[r][u] \ Missing(s, r, u)
  BY DEF ToldFacts, Told
<1>1. peers[r][u] \subseteq Users
  BY DEF TypeOK
<1>2. ASSUME NEW s \in Sessions, lock = s, NEW l \in {"announcing", "parting"}
      PROVE  Owed(l, r, u) = IF pc[s] = l THEN Missing(s, r, u) ELSE {}
  <2>1. \A t \in Sessions \ {s} : pc[t] \notin {"announcing", "parting"}
    BY <1>2 DEF TypeOK
  <2> QED
    BY <1>2, <2>1 DEF Owed, Owes, Missing
<1>3. ASSUME Free, NEW l \in {"announcing", "parting"}
      PROVE  Owed(l, r, u) = {}
  BY <1>3 DEF Owed, Owes, Free, TypeOK
<1>4. Free => Told(r, u) = peers[r][u]
  <2> SUFFICES ASSUME Free PROVE Told(r, u) = peers[r][u]
    OBVIOUS
  <2>1. Owed("announcing", r, u) = {} /\ Owed("parting", r, u) = {}
    BY <1>3
  <2> QED
    BY <2>1 DEF Told
<1>5. ASSUME NEW s \in Sessions, lock = s, pc[s] = "announcing"
      PROVE  Told(r, u) = peers[r][u] \cup Missing(s, r, u)
  <2>1. Owed("announcing", r, u) = Missing(s, r, u) /\ Owed("parting", r, u) = {}
    BY <1>2, <1>5
  <2> QED
    BY <2>1 DEF Told
<1>6. ASSUME NEW s \in Sessions, lock = s, pc[s] = "parting"
      PROVE  Told(r, u) = peers[r][u] \ Missing(s, r, u)
  <2>1. Owed("parting", r, u) = Missing(s, r, u) /\ Owed("announcing", r, u) = {}
    BY <1>2, <1>6
  <2> QED
    BY <2>1 DEF Told
<1> QED
  BY <1>4, <1>5, <1>6

LEMMA ToldNext == TypeOK' => ToldFacts'
  BY ToldNow, PTL

(* A step that leaves rooms, notices and seats alone, or takes the seats of  *)
(* one user away.                                                            *)
LEMMA ToldKept ==
  ASSUME TypeOK, TypeOK', UNCHANGED <<limit, members, seat>>,
         \A r \in Rooms, u \in Users : Seated(r, u) => Told(r, u)' = Told(r, u)
  PROVE  UNCHANGED AtOnce!roomsVars
<1>1. \A r \in Rooms, u \in Users :
         Seated(r, u)' = Seated(r, u) /\ Told(r, u)' = Told(r, u)
  BY DEF Seated, Told
<1>2. Attached' = Attached
  BY <1>1 DEF Attached
<1>3. Known' = Known
  BY <1>1 DEF Known
<1> QED
  BY <1>2, <1>3 DEF AtOnce!roomsVars

LEMMA DetachStep ==
  ASSUME TypeOK, TypeOK', RoundInv, NEW s \in Sessions,
         Register(s) \/ Disconnect(s)
  PROVE  AtOnce!Detach(Owner[s]) \/ UNCHANGED AtOnce!roomsVars
<1> DEFINE u == Owner[s]
<1>1. /\ lock # s /\ u \in Users
      /\ UNCHANGED <<limit, members, lock, todo, peers, at>>
      /\ \A t \in Sessions : t # s => pc'[t] = pc[t]
      /\ pc[s] \notin {"announcing", "parting"}
      /\ pc'[s] \notin {"announcing", "parting"}
  BY DEF Register, Disconnect, Goto, roomVars, mutex, TypeOK
<1>2. \A r \in Rooms, v \in Users, l \in {"announcing", "parting"} :
         Owed(l, r, v)' = Owed(l, r, v)
  BY <1>1 DEF Owed, Owes
<1>3. \A r \in Rooms, v \in Users :
         (Seated(r, v)' <=> Seated(r, v)) => Told(r, v)' = Told(r, v)
  BY <1>1, <1>2 DEF Told
<1>4. CASE reg'[u] = reg[u] /\ reg[u] # NoSession
  <2>1. seat' = seat
    BY <1>4 DEF Register, Disconnect, Reregister, TypeOK, RoundInv, SeatInv, Seated
  <2> QED
    BY <1>1, <1>3, <2>1, ToldKept DEF Seated
<1>5. CASE ~(reg'[u] = reg[u] /\ reg[u] # NoSession)
  <2>1. \A r \in Rooms, v \in Users : Seated(r, v)' <=> v # u /\ Seated(r, v)
    BY <1>5 DEF Register, Disconnect, Reregister, TypeOK, RoundInv, SeatInv, Seated
  <2>2. Attached' = [r \in Rooms |-> Attached[r] \ {u}]
    BY <2>1 DEF Attached
  <2>3. \A r \in Rooms : Known'[r] = [Known[r] EXCEPT ![u] = {}]
    <3>1. \A r \in Rooms, v \in Users : v # u => Told(r, v)' = Told(r, v)
      BY <1>3, <2>1
    <3>2. \A r \in Rooms : Told(r, u)' = {}
      BY <1>1, <2>1 DEF Told
    <3> QED
      BY <3>1, <3>2 DEF Known
  <2>4. Known' = [r \in Rooms |-> [Known[r] EXCEPT ![u] = {}]]
    BY <2>3 DEF Known
  <2> QED
    BY <1>1, <2>2, <2>4 DEF AtOnce!Detach
<1> QED
  BY <1>4, <1>5

LEMMA EnterStep ==
  ASSUME TypeOK, TypeOK', RoundInv, NEW s \in Sessions, Join(s)
  PROVE  AtOnce!Enter(at[s], Owner[s])
<1> DEFINE r == at[s]
           u == Owner[s]
<1>1. /\ r \in Rooms /\ u \in Users /\ Free /\ limit' = limit
      /\ members' = [members EXCEPT ![r] = @ \cup {u}]
      /\ lock' = s /\ todo' = members[r] \ {u} /\ members[r] \subseteq Users
      /\ pc' = [pc EXCEPT ![s] = "announcing"] /\ at' = at
      /\ seat' = [seat EXCEPT ![r][u] = IF reg[u] = s THEN s ELSE NoSession]
      /\ peers' = [peers EXCEPT ![r][u] = {}]
      /\ ~(Cardinality(members[r]) >= limit)
  BY DEF Join, Free, Goto, Full, TypeOK
<1>2. Cardinality(members[r]) < limit
  <2>1. Cardinality(members[r]) \in Nat /\ limit \in Nat
    BY <1>1, FiniteMembers DEF TypeOK
  <2> QED
    BY <1>1, <2>1
<1>3. \A q \in Rooms, x \in Users : <<q, x>> # <<r, u>> =>
         seat'[q][x] = seat[q][x] /\ peers'[q][x] = peers[q][x]
  BY <1>1 DEF TypeOK
<1>4. \A q \in Rooms, x \in Users : <<q, x>> # <<r, u>> =>
         (Seated(q, x)' <=> Seated(q, x))
  BY <1>3 DEF Seated
<1>5. \/ Attached' = [Attached EXCEPT ![r] = @ \cup {u}]
      \/ Attached' = [Attached EXCEPT ![r] = @ \ {u}]
  <2>1. CASE Seated(r, u)'
    BY <1>1, <1>4, <2>1 DEF Attached
  <2>2. CASE ~Seated(r, u)'
    BY <1>1, <1>4, <2>2 DEF Attached
  <2> QED
    BY <2>1, <2>2
<1>6. \A x \in Users : Told(r, x)' = IF x \in Attached[r] \ {u}
                                     THEN Known[r][x] \cup {u} ELSE {}
  <2> SUFFICES ASSUME NEW x \in Users
               PROVE  Told(r, x)' = IF x \in Attached[r] \ {u}
                                    THEN Known[r][x] \cup {u} ELSE {}
    OBVIOUS
  <2>1. lock' = s /\ s \in Sessions /\ pc'[s] = "announcing" /\ at'[s] = r
    BY <1>1 DEF TypeOK
  <2>2. Missing(s, r, x)' = IF x \in members[r] \ {u} THEN {u} ELSE {}
    BY <1>1, <2>1 DEF Missing
  <2>3. x \in Attached[r] <=> Seated(r, x)
    BY <1>1 DEF Attached
  <2>4. Known[r][x] = Told(r, x)
    BY <1>1 DEF Known
  <2>5. CASE x = u
    <3>1. peers'[r][x] = {}
      BY <1>1, <2>5 DEF TypeOK
    <3> QED
      BY <1>1, <2>1, <2>2, <2>5, <3>1, ToldNext DEF ToldFacts
  <2>6. CASE x # u /\ Seated(r, x)
    <3>1. Told(r, x)' = peers'[r][x] \cup Missing(s, r, x)'
      BY <1>1, <1>4, <2>1, <2>6, ToldNext DEF ToldFacts
    <3>2. Told(r, x) = peers[r][x]
      BY <1>1, <2>6, ToldNow DEF ToldFacts
    <3>3. x \in members[r]
      BY <1>1, <2>6 DEF RoundInv, SeatInv
    <3> QED
      BY <1>1, <1>3, <2>2, <2>3, <2>4, <2>6, <3>1, <3>2, <3>3
  <2>7. CASE x # u /\ ~Seated(r, x)
    BY <1>1, <1>4, <2>3, <2>7, ToldNext DEF ToldFacts
  <2> QED
    BY <2>5, <2>6, <2>7
<1>7. \A q \in Rooms, x \in Users : q # r => Told(q, x)' = Told(q, x)
  <2> SUFFICES ASSUME NEW q \in Rooms, NEW x \in Users, q # r
               PROVE  Told(q, x)' = Told(q, x)
    OBVIOUS
  <2>1. lock' = s /\ pc'[s] = "announcing" /\ Missing(s, q, x)' = {}
    BY <1>1 DEF Missing, TypeOK
  <2>2. CASE Seated(q, x)
    <3>1. Told(q, x) = peers[q][x]
      BY <1>1, <2>2, ToldNow DEF ToldFacts
    <3>2. Told(q, x)' = peers'[q][x] \cup Missing(s, q, x)'
      BY <1>4, <2>1, <2>2, ToldNext DEF ToldFacts
    <3> QED
      BY <1>3, <2>1, <3>1, <3>2
  <2>3. CASE ~Seated(q, x)
    BY <1>4, <2>3 DEF Told
  <2> QED
    BY <2>2, <2>3
<1>8. Known' = [Known EXCEPT ![r] =
         [x \in Users |-> IF x \in Attached[r] \ {u} THEN @[x] \cup {u} ELSE {}]]
  BY <1>1, <1>6, <1>7 DEF Known
<1> QED
  BY <1>1, <1>2, <1>5, <1>8 DEF AtOnce!Enter, AtOnce!Cardinality, Cardinality

LEMMA ExitStep ==
  ASSUME TypeOK, TypeOK', RoundInv, NEW s \in Sessions, Leave(s)
  PROVE  AtOnce!Exit(at[s], Owner[s])
<1> DEFINE r == at[s]
           u == Owner[s]
<1>1. /\ r \in Rooms /\ u \in Users /\ Free /\ limit' = limit
      /\ members' = [members EXCEPT ![r] = @ \ {u}] /\ u \in members[r]
      /\ lock' = s /\ todo' = members[r] \ {u}
      /\ pc' = [pc EXCEPT ![s] = "parting"] /\ at' = at /\ peers' = peers
      /\ seat' = [seat EXCEPT ![r][u] = NoSession]
  BY DEF Leave, Free, Goto, TypeOK
<1>2. lock' = s /\ s \in Sessions /\ pc'[s] = "parting" /\ at'[s] = r
  BY <1>1 DEF TypeOK
<1>3. \A q \in Rooms, x \in Users :
         Seated(q, x)' <=> <<q, x>> # <<r, u>> /\ Seated(q, x)
  BY <1>1 DEF TypeOK, Seated
<1>4. Attached' = [Attached EXCEPT ![r] = @ \ {u}]
  BY <1>1, <1>3 DEF Attached
<1>5. \A q \in Rooms, x \in Users : Seated(q, x) =>
         Told(q, x) = peers[q][x] /\ x \in members[q]
  BY <1>1, ToldNow DEF ToldFacts, RoundInv, SeatInv
<1>6. \A q \in Rooms, x \in Users :
         Told(q, x)' = IF <<q, x>> = <<r, u>> THEN {}
                       ELSE IF q = r THEN Told(q, x) \ {u} ELSE Told(q, x)
  <2> SUFFICES ASSUME NEW q \in Rooms, NEW x \in Users
               PROVE  Told(q, x)' = IF <<q, x>> = <<r, u>> THEN {}
                                    ELSE IF q = r THEN Told(q, x) \ {u}
                                                  ELSE Told(q, x)
    OBVIOUS
  <2>1. CASE ~Seated(q, x)'
    <3>1. Told(q, x)' = {}
      BY <2>1 DEF Told
    <3>2. <<q, x>> # <<r, u>> => Told(q, x) = {}
      BY <1>3, <2>1 DEF Told
    <3> QED
      BY <3>1, <3>2
  <2>2. CASE Seated(q, x)'
    <3>1. <<q, x>> # <<r, u>> /\ Seated(q, x)
      BY <1>3, <2>2
    <3>2. Told(q, x) = peers[q][x] /\ x \in members[q]
      BY <1>5, <3>1
    <3>3. Told(q, x)' = peers[q][x] \ Missing(s, q, x)'
      BY <1>1, <1>2, <2>2, ToldNext DEF ToldFacts
    <3>4. Missing(s, q, x)' = IF q = r THEN {u} ELSE {}
      BY <1>1, <1>2, <3>1, <3>2 DEF Missing
    <3> QED
      BY <3>1, <3>2, <3>3, <3>4
  <2> QED
    BY <2>1, <2>2
<1>7. Known' = [Known EXCEPT ![r] =
                  [x \in Users |-> IF x = u THEN {} ELSE @[x] \ {u}]]
  BY <1>1, <1>6 DEF Known
<1> QED
  BY <1>1, <1>4, <1>7 DEF AtOnce!Exit

(* A notice changes nothing: who gets it was counted as told. *)
LEMMA NoticeStep ==
  ASSUME TypeOK, TypeOK', RoundInv, NEW s \in Sessions, NEW v \in Users,
         Announce(s, v) \/ Part(s, v)
  PROVE  UNCHANGED AtOnce!roomsVars
<1> DEFINE r == at[s]
           u == Owner[s]
<1>1. /\ r \in Rooms /\ lock = s /\ lock' = s /\ v \in todo /\ todo' = todo \ {v}
      /\ UNCHANGED <<limit, pc, at, reg, seat, members>>
  BY DEF Announce, Part, hubVars, TypeOK
<1>2. \A q \in Rooms, x \in Users : <<q, x>> # <<r, v>> =>
         peers'[q][x] = peers[q][x]
  BY <1>1 DEF Announce, Part, TypeOK
<1>3. Seated(r, v) => reg[v] # NoSession
  BY <1>1 DEF RoundInv, SeatInv, Seated
<1>4. CASE Announce(s, v)
  <2>1. pc[s] = "announcing" /\ pc'[s] = "announcing"
    BY <1>1, <1>4 DEF Announce
  <2>2. Seated(r, v) => peers'[r][v] = peers[r][v] \cup {u}
    BY <1>1, <1>3, <1>4 DEF Announce, TypeOK
  <2>3. ASSUME NEW q \in Rooms, NEW x \in Users, Seated(q, x)
        PROVE  Told(q, x)' = Told(q, x)
    <3>1. /\ Told(q, x) = peers[q][x] \cup Missing(s, q, x)
          /\ Told(q, x)' = peers'[q][x] \cup Missing(s, q, x)'
      BY <1>1, <2>1, <2>3, ToldNow, ToldNext DEF ToldFacts, Seated
    <3>2. peers'[q][x] \cup Missing(s, q, x)' = peers[q][x] \cup Missing(s, q, x)
      BY <1>1, <1>2, <2>2, <2>3 DEF Missing
    <3> QED
      BY <3>1, <3>2
  <2> QED
    BY <1>1, <2>3, ToldKept
<1>5. CASE Part(s, v)
  <2>1. pc[s] = "parting" /\ pc'[s] = "parting"
    BY <1>1, <1>5 DEF Part
  <2>2. Seated(r, v) => peers'[r][v] = peers[r][v] \ {u}
    BY <1>1, <1>3, <1>5 DEF Part, TypeOK
  <2>3. ASSUME NEW q \in Rooms, NEW x \in Users, Seated(q, x)
        PROVE  Told(q, x)' = Told(q, x)
    <3>1. /\ Told(q, x) = peers[q][x] \ Missing(s, q, x)
          /\ Told(q, x)' = peers'[q][x] \ Missing(s, q, x)'
      BY <1>1, <2>1, <2>3, ToldNow, ToldNext DEF ToldFacts, Seated
    <3>2. peers'[q][x] \ Missing(s, q, x)' = peers[q][x] \ Missing(s, q, x)
      BY <1>1, <1>2, <2>2, <2>3 DEF Missing
    <3> QED
      BY <3>1, <3>2
  <2> QED
    BY <1>1, <2>3, ToldKept
<1> QED
  BY <1>4, <1>5

(* The end of a round, and the steps outside of rounds. *)
LEMMA QuietStep ==
  ASSUME TypeOK, TypeOK', RoundInv, NEW s \in Sessions,
         UNCHANGED <<limit, members, seat, peers, todo>>,
         \A t \in Sessions \ {s} : pc'[t] = pc[t] /\ at'[t] = at[t],
         \/ todo = {}
         \/ /\ pc[s] \notin {"announcing", "parting"}
            /\ pc'[s] \notin {"announcing", "parting"}
  PROVE  UNCHANGED AtOnce!roomsVars
<1>1. \A r \in Rooms, u \in Users, l \in {"announcing", "parting"} :
         Owed(l, r, u)' = Owed(l, r, u)
  BY DEF Owed, Owes
<1>2. \A r \in Rooms, u \in Users : Seated(r, u) => Told(r, u)' = Told(r, u)
  BY <1>1 DEF Told, Seated
<1> QED
  BY <1>2, ToldKept

LEMMA RoomsStep ==
  ASSUME TypeOK, TypeOK', RoundInv, [Next]_vars
  PROVE  AtOnce!RoomsNext \/ UNCHANGED AtOnce!roomsVars
<1>1. CASE UNCHANGED vars
  <2>1. \A r \in Rooms, u \in Users : Told(r, u)' = Told(r, u)
    BY <1>1 DEF vars, Told, Owed, Owes, Seated
  <2> QED
    BY <1>1, <2>1, ToldKept DEF vars
<1>2. ASSUME NEW s \in Sessions, Session(s)
      PROVE  AtOnce!RoomsNext \/ UNCHANGED AtOnce!roomsVars
  <2>1. Owner[s] \in Users /\ at[s] \in Rooms
    BY DEF TypeOK
  <2>2. CASE Register(s) \/ Disconnect(s)
    BY <2>1, <2>2, DetachStep DEF AtOnce!RoomsNext
  <2>3. CASE Join(s)
    BY <2>1, <2>3, EnterStep DEF AtOnce!RoomsNext
  <2>4. CASE Leave(s)
    BY <2>1, <2>4, ExitStep DEF AtOnce!RoomsNext
  <2>5. CASE \E v \in Users : Announce(s, v) \/ Part(s, v)
    BY <2>5, NoticeStep
  <2>6. CASE Announced(s) \/ Parted(s)
    <3>1. /\ UNCHANGED <<limit, members, seat, peers, todo>> /\ todo = {}
          /\ \A t \in Sessions \ {s} : pc'[t] = pc[t] /\ at'[t] = at[t]
      BY <2>6 DEF Announced, Parted, Goto, hubVars, roomVars, TypeOK
    <3> QED
      BY <3>1, QuietStep
  <2>7. CASE \/ \E r \in Rooms : CallSfu(s, r) \/ SfuAnswer(s, r) \/ SfuLeave(s, r)
             \/ Refuse(s) \/ Answer(s) \/ LeaveNothing(s) \/ Reply(s)
    <3>1. /\ UNCHANGED <<limit, members, seat, peers, todo>>
          /\ \A t \in Sessions \ {s} : pc'[t] = pc[t] /\ at'[t] = at[t]
          /\ pc[s] \notin {"announcing", "parting"}
          /\ pc'[s] \notin {"announcing", "parting"}
      BY <2>7 DEF CallSfu, SfuAnswer, SfuLeave, Request, Refuse, Answer,
                  LeaveNothing, Reply, Goto, hubVars, roomVars, mutex, TypeOK
    <3> QED
      BY <3>1, QuietStep
  <2> QED
    BY <1>2, <2>2, <2>3, <2>4, <2>5, <2>6, <2>7 DEF Session, Locked, Goes
<1> QED
  BY <1>1, <1>2 DEF Next

(* RoundsAreAtomic: a join or a leave and all its notices can be taken for   *)
(* one step, at the moment the mutex is taken.                               *)
THEOREM RelayIsAtomic == Spec => RoundsAreAtomic
<1>1. Init => AtOnce!RoomsInit
  <2> SUFFICES ASSUME Init PROVE AtOnce!RoomsInit
    OBVIOUS
  <2>1. \A r \in Rooms, u \in Users : ~Seated(r, u) /\ Told(r, u) = {}
    BY DEF Init, Seated, Told
  <2>2. Attached = [r \in Rooms |-> {}]
    BY <2>1 DEF Attached
  <2>3. Known = [r \in Rooms |-> [u \in Users |-> {}]]
    BY <2>1 DEF Known
  <2> QED
    BY <2>2, <2>3 DEF Init, AtOnce!RoomsInit
<1>2. TypeOK /\ TypeOK' /\ RoundInv /\ [Next]_vars
        => [AtOnce!RoomsNext]_(AtOnce!roomsVars)
  BY RoomsStep
<1>3. Spec => AtOnce!RoomsInit /\ [][AtOnce!RoomsNext]_(AtOnce!roomsVars)
  BY <1>1, <1>2, TypeCorrect, RoundsAreComplete, PTL DEF Spec
<1> QED
  BY <1>3 DEF RoundsAreAtomic, AtOnce!RoomsSpec
=============================================================================
