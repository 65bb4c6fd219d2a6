------------------------ MODULE RoomSignalingProofs ------------------------
(* Proofs about RoomSignaling, for any users, any number of joins and any    *)
(* tick of the clock: types, where the answers and the candidates of the     *)
(* host may go, and that they go somewhere while the room is active.         *)
EXTENDS RoomSignaling, TLAPS

USE HostAssumption, NoUserAssumption, AnsweringAssumption, DayAssumption,
    MaxJoinsAssumption

(* Types, one step per action. *)
LEMMA TypeStep ==
  ASSUME TypeOK, [Next]_vars
  PROVE  TypeOK'
<1> USE DEF TypeOK, PCs, Goto, room, key, sendVars, joinVars
<1>1. CASE UNCHANGED vars
  BY <1>1 DEF vars
<1>2. CASE CreateRoom
  BY <1>2 DEF CreateRoom, RoomLife
<1>3. CASE Tick
  BY <1>3 DEF Tick, RoomLife, KeyLife
<1>4. ASSUME NEW u \in Users, Answers(u)
      PROVE  TypeOK'
  <2>1. CASE FetchNothing(u) \/ FetchFails(u) \/ Forward(u)
    BY <2>1 DEF FetchNothing, FetchFails, Forward, Finish
  <2>2. CASE FetchJoiner(u)
    BY <2>2 DEF FetchJoiner
  <2>3. ASSUME NEW g \in Users, RoomAnswer(u, g)
        PROVE  TypeOK'
    BY <2>3 DEF RoomAnswer, MayAnswer
  <2>4. ASSUME NEW g \in Users, RoomAnswerOrIce(u, g)
        PROVE  TypeOK'
    BY <2>4 DEF RoomAnswerOrIce, MayAnswer
  <2> QED
    BY <1>4, <2>1, <2>2, <2>3, <2>4 DEF Answers
<1>5. ASSUME NEW u \in Users, Joins(u)
      PROVE  TypeOK'
  <2>1. CASE JoinRoom(u)
    BY <2>1 DEF JoinRoom
  <2>2. CASE Named(u) \/ JoinFails(u)
    BY <2>2 DEF Named, JoinFails
  <2>3. CASE StoreJoiner(u)
    BY <2>3 DEF StoreJoiner, Stored, KeyLife
  <2>4. CASE StoreFails(u)
    BY <2>4 DEF StoreFails
  <2>5. CASE NotifyHost(u)
    BY <2>5 DEF NotifyHost
  <2> QED
    BY <1>5, <2>1, <2>2, <2>3, <2>4, <2>5 DEF Joins
<1>6. ASSUME NEW g \in Users, TakeOffer(g)
      PROVE  TypeOK'
  BY <1>6 DEF TakeOffer
<1> QED
  BY <1>1, <1>2, <1>3, <1>4, <1>5, <1>6 DEF Next

(* TypeOK: a task sends only to a user it found or was given. *)
THEOREM TypeCorrect == Spec => []TypeOK
<1>1. Init => TypeOK
  <2> SUFFICES ASSUME Init PROVE TypeOK
    OBVIOUS
  <2>1. 0 \in 0 .. RoomLife /\ 0 \in 0 .. KeyLife
    BY DEF RoomLife, KeyLife
  <2> QED
    BY <2>1 DEF Init, TypeOK, PCs
<1> QED
  BY <1>1, TypeStep, PTL DEF Spec

-----------------------------------------------------------------------------
(* The histories only grow, and a stored guest is never older than itself.   *)

LEMMA StoreGrows ==
  ASSUME TypeOK, NEW u \in Users, StoreJoiner(u)
  PROVE  /\ later \subseteq later'
         /\ Stored' = Stored \cup {u}
         /\ \A g \in Stored' : <<g, u>> \in later'
  BY DEF TypeOK, StoreJoiner, Stored

RouteInv == KeyInv /\ MisroutedIsOvertaken

LEMMA RouteStep ==
  ASSUME TypeOK, RouteInv, [Next]_vars
  PROVE  RouteInv'
<1> USE DEF RouteInv, KeyInv, MisroutedIsOvertaken, Explained, Heard, Goto,
            room, key, sendVars, joinVars
<1>1. CASE UNCHANGED vars
  BY <1>1 DEF vars, Stored
<1>2. CASE CreateRoom \/ Tick
  BY <1>2 DEF CreateRoom, Tick, Stored, TypeOK
<1>3. ASSUME NEW u \in Users, Answers(u)
      PROVE  RouteInv'
  <2>1. CASE FetchNothing(u) \/ FetchFails(u) \/ Forward(u)
    BY <2>1 DEF FetchNothing, FetchFails, Forward, Finish, Stored, TypeOK
  <2>2. CASE FetchJoiner(u)
    <3>1. /\ target' = [target EXCEPT ![u] = joiner]
          /\ UNCHANGED <<about, answered, joiner, later, unstored, offers>>
          /\ \A g \in Users : Heard(g)' => Heard(g)
      BY <2>2 DEF FetchJoiner, TypeOK
    <3>2. KeyInv'
      BY <3>1 DEF Stored
    <3>3. CASE u = Host
      <4>1. about[Host] \in answered /\ about[Host] \in Stored \cup unstored
        BY <2>2, <3>3 DEF FetchJoiner, TypeOK
      <4>2. Explained(about[Host], joiner)
        BY <2>2, <4>1 DEF FetchJoiner
      <4> QED
        BY <3>1, <3>2, <3>3, <4>2 DEF TypeOK
    <3>4. CASE u # Host
      BY <3>1, <3>2, <3>4 DEF TypeOK
    <3> QED
      BY <3>3, <3>4
  <2>3. ASSUME NEW g \in Users, RoomAnswer(u, g)
        PROVE  RouteInv'
    BY <2>3 DEF RoomAnswer, MayAnswer, Stored, TypeOK
  <2>4. ASSUME NEW g \in Users, RoomAnswerOrIce(u, g)
        PROVE  RouteInv'
    BY <2>4 DEF RoomAnswerOrIce, MayAnswer, Stored, TypeOK
  <2> QED
    BY <1>3, <2>1, <2>2, <2>3, <2>4 DEF Answers
<1>4. ASSUME NEW g \in Users, TakeOffer(g)
      PROVE  RouteInv'
  BY <1>4 DEF TakeOffer, Stored, TypeOK
<1>5. ASSUME NEW u \in Users, Joins(u)
      PROVE  RouteInv'
  <2>1. CASE JoinRoom(u) \/ Named(u) \/ JoinFails(u)
    BY <2>1 DEF JoinRoom, Named, JoinFails, Stored, TypeOK
  <2>2. CASE StoreJoiner(u)
    <3>1. /\ later \subseteq later' /\ Stored' = Stored \cup {u}
          /\ \A g \in Stored' : <<g, joiner'>> \in later'
      BY <2>2, StoreGrows DEF StoreJoiner
    <3>2. \A g \in Users : Heard(g)' => Heard(g) \/ g = u
      BY <2>2 DEF StoreJoiner, TypeOK
    <3>3. UNCHANGED <<about, target, answered, unstored>>
      BY <2>2 DEF StoreJoiner
    <3>4. KeyInv'
      BY <3>1, <3>2, <3>3
    <3>5. MisroutedIsOvertaken'
      BY <3>1, <3>3
    <3> QED
      BY <3>4, <3>5
  <2>3. CASE StoreFails(u)
    BY <2>3 DEF StoreFails, Stored, TypeOK
  <2>4. CASE NotifyHost(u)
    BY <2>4 DEF NotifyHost, Stored, TypeOK
  <2> QED
    BY <1>5, <2>1, <2>2, <2>3, <2>4 DEF Joins
<1> QED
  BY <1>1, <1>2, <1>3, <1>4, <1>5 DEF Next

LEMMA RouteInvariant == Spec => []RouteInv
<1>1. Init => RouteInv
  BY DEF Init, RouteInv, KeyInv, MisroutedIsOvertaken, Heard
<1> QED
  BY <1>1, TypeCorrect, RouteStep, PTL DEF Spec

(* KeyInv: the host hears of a guest only after the key names it or a later  *)
(* one, or its SETEX failed.                                                 *)
THEOREM KeyIsStoredFirst == Spec => []KeyInv
<1>1. RouteInv => KeyInv
  BY DEF RouteInv
<1> QED
  BY <1>1, RouteInvariant, PTL

(* MisroutedIsOvertaken: what goes to another guest was overtaken by it. *)
THEOREM MisroutingIsExplained == Spec => []MisroutedIsOvertaken
<1>1. RouteInv => MisroutedIsOvertaken
  BY DEF RouteInv
<1> QED
  BY <1>1, RouteInvariant, PTL

-----------------------------------------------------------------------------
(* Expiry. *)

(* LifeInv: once a guest is stored, the key has as long to live as the room. *)
THEOREM KeysOutliveRooms == Spec => []LifeInv
<1>1. Init => LifeInv
  BY DEF Init, LifeInv, Stored
<1>2. TypeOK /\ LifeInv /\ [Next]_vars => LifeInv'
  <2> SUFFICES ASSUME TypeOK, LifeInv, [Next]_vars
               PROVE  LifeInv'
    OBVIOUS
  <2> USE DEF LifeInv, TypeOK, Goto, room, key, sendVars, joinVars
  <2>1. CASE UNCHANGED vars
    BY <2>1 DEF vars, Stored
  <2>2. CASE CreateRoom
    BY <2>2 DEF CreateRoom, Stored
  <2>3. CASE Tick
    <3>1. roomLeft \in Nat /\ keyLeft \in Nat
      BY DEF RoomLife, KeyLife
    <3>2. /\ UNCHANGED <<created, pc, later>> /\ Stored' = Stored
          /\ roomLeft = 0 => roomLeft' = 0
          /\ keyLeft >= roomLeft => keyLeft' >= roomLeft'
      BY <2>3, <3>1 DEF Tick, Stored
    <3> QED
      BY <3>2
  <2>4. ASSUME NEW u \in Users, Answers(u)
        PROVE  LifeInv'
    BY <2>4 DEF Answers, FetchNothing, FetchFails, FetchJoiner, Forward, Finish,
                RoomAnswer, RoomAnswerOrIce, MayAnswer, Stored
  <2>5. ASSUME NEW u \in Users, Joins(u)
        PROVE  LifeInv'
    <3>1. CASE StoreJoiner(u)
      <4>1. keyLeft' = KeyLife /\ roomLeft' = roomLeft /\ roomLeft <= KeyLife
        BY <3>1 DEF StoreJoiner, RoomLife, KeyLife
      <4>2. created' = created /\ created
        BY <3>1 DEF StoreJoiner
      <4> QED
        BY <4>1, <4>2
    <3>2. CASE JoinRoom(u)
      <4>1. created
        BY <3>2 DEF JoinRoom, Active
      <4> QED
        BY <3>2, <4>1 DEF JoinRoom, Stored
    <3>3. CASE Named(u) \/ StoreFails(u) \/ NotifyHost(u) \/ JoinFails(u)
      BY <3>3 DEF Named, StoreFails, NotifyHost, JoinFails, Stored
    <3> QED
      BY <2>5, <3>1, <3>2, <3>3 DEF Joins
  <2>6. ASSUME NEW g \in Users, TakeOffer(g)
        PROVE  LifeInv'
    BY <2>6 DEF TakeOffer, Stored
  <2> QED
    BY <2>1, <2>2, <2>3, <2>4, <2>5, <2>6 DEF Next
<1> QED
  BY <1>1, <1>2, TypeCorrect, PTL DEF Spec

(* AnsweredIsRouted: for want of a key, nothing of the host is dropped in an *)
(* active room, save for a guest that could not be stored.                   *)
THEOREM AnswersFindTheKey == Spec => AnsweredIsRouted
<1>1. ASSUME TypeOK, KeyInv, LifeInv
      PROVE  FetchNothing(Host) => ~Active \/ about[Host] \in unstored
  <2> SUFFICES ASSUME FetchNothing(Host), Active
               PROVE  about[Host] \in unstored
    OBVIOUS
  <2>1. keyLeft = 0 /\ roomLeft > 0
    BY <1>1 DEF FetchNothing, Active, TypeOK
  <2>2. Stored = {}
    BY <1>1, <2>1 DEF LifeInv, TypeOK
  <2>3. about[Host] \in answered /\ about[Host] \in Users
    BY <1>1 DEF FetchNothing, KeyInv, TypeOK
  <2> QED
    BY <1>1, <2>2, <2>3 DEF KeyInv, Heard
<1> QED
  BY <1>1, TypeCorrect, KeyIsStoredFirst, KeysOutliveRooms, PTL DEF AnsweredIsRouted
=============================================================================
