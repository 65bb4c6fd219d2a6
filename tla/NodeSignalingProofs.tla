------------------------- MODULE NodeSignalingProofs ------------------------
(* Proofs about NodeSignaling, for any users, any connections with tokens of *)
(* whomever, and any number of calls. The three invariants each need the     *)
(* types, and the one of calls needs the one of stray entries as well.       *)
EXTENDS NodeSignaling, TLAPS

USE NoUserAssumption, PresentsAssumption, NoSocketAssumption, MaxCallsAssumption

Inv == TypeOK /\ UnreachableIsRobbed /\ GhostsAreStray /\ CallIsHeld

(* The whole invariant holds at the start. *)
LEMMA InitInv == Init => Inv
<1> SUFFICES ASSUME Init PROVE Inv
  OBVIOUS
<1> USE DEF Init, Authed, Active, CallIds, NoCall
<1>1. Authed = {} /\ Active = {} /\ calls \in [Active -> {}]
  OBVIOUS
<1>2. TypeOK
  BY <1>1 DEF TypeOK, States
<1> QED
  BY <1>1, <1>2 DEF Inv, UnreachableIsRobbed, GhostsAreStray, CallIsHeld

(* What a call that is deleted leaves of the others. *)
LEMMA Deleting ==
  ASSUME TypeOK, NEW c, Delete(c)
  PROVE  /\ Active' = Active \ {c}
         /\ \A d \in Active' : d \in Active /\ calls'[d] = calls[d]
         /\ calls' \in [Active' -> [from : Users, to : Users, by : Authed, at : Authed]]
<1>1. calls' = [d \in Active \ {c} |-> calls[d]]
  BY DEF Delete, Restrict
<1>2. Active' = Active \ {c}
  BY <1>1 DEF Active
<1> QED
  BY <1>1, <1>2 DEF TypeOK

(* What Forget makes of the entries. *)
LEMMA Forgetting ==
  ASSUME TypeOK, NEW S \in SUBSET Authed, Forget(S)
  PROVE  /\ entry' \in [Users -> Sockets \cup {NoSocket}]
         /\ \A u \in Users : entry'[u] # NoSocket =>
               entry'[u] = entry[u] /\ \A s \in S : user[s] # u
         /\ robbed \subseteq robbed' /\ robbed' \subseteq Sockets
BY DEF Forget, TypeOK, Authed

(* Every handler keeps the types. *)
LEMMA TypeStep == TypeOK /\ [Next]_vars => TypeOK'
<1> SUFFICES ASSUME TypeOK, [Next]_vars PROVE TypeOK'
  OBVIOUS
<1> USE DEF TypeOK, States, CallIds, NoCall, Clients, Working, Authed, Terminate,
            callVars, sessionVars
<1>1. ASSUME NEW s \in Sockets, Connect(s) PROVE TypeOK'
  BY <1>1 DEF Connect, Active
<1>2. ASSUME NEW s \in Sockets, NEW u \in Users, AuthFrame(s, u) PROVE TypeOK'
  BY <1>2 DEF AuthFrame, MayPresent, Active
<1>3. ASSUME NEW s \in Sockets, NEW u \in Users, AuthFails(s, u) PROVE TypeOK'
  BY <1>3 DEF AuthFails, Active
<1>4. ASSUME NEW s \in Sockets, NEW u \in Users, AuthPasses(s, u) PROVE TypeOK'
  <2>1. user' \in [Sockets -> Users \cup {NoUser}] /\ Authed' = Authed \cup {s}
    BY <1>4 DEF AuthPasses
  <2>2. calls' = calls /\ Active' = Active
    BY <1>4 DEF AuthPasses, Active
  <2>3. calls' \in [Active' -> [from : Users, to : Users, by : Authed', at : Authed']]
    <3>1. [from : Users, to : Users, by : Authed, at : Authed]
             \subseteq [from : Users, to : Users, by : Authed', at : Authed']
      BY <2>1
    <3> QED
      BY <2>2, <3>1
  <2>4. /\ ready' \in [Sockets -> States]
        /\ \A d \in Sockets : ready[d] # "idle" => ready'[d] # "idle"
    BY <1>4 DEF AuthPasses
  <2> QED
    BY <1>4, <2>1, <2>2, <2>3, <2>4 DEF AuthPasses
<1>5. ASSUME NEW s \in Sockets, Leave(s) PROVE TypeOK'
  BY <1>5 DEF Leave, Active
<1>6. ASSUME NEW s \in Sockets, Closed(s) PROVE TypeOK'
  <2>1. /\ ready' \in [Sockets -> States]
        /\ \A d \in Sockets : ready[d] # "idle" => ready'[d] # "idle"
        /\ UNCHANGED <<validating, user, ghosts, placed, current>>
        /\ Authed' = Authed
    BY <1>6 DEF Closed
  <2>2. /\ entry' \in [Users -> Sockets \cup {NoSocket}]
        /\ \A u \in Users : entry'[u] # NoSocket => entry'[u] = entry[u]
        /\ robbed' \subseteq Sockets
    BY <1>6, Forgetting DEF Closed
  <2>3. /\ Active' \subseteq Active
        /\ calls' \in [Active' -> [from : Users, to : Users, by : Authed, at : Authed]]
    <3>1. CASE s \in Authed
      BY <1>6, <3>1, Deleting DEF Closed
    <3>2. CASE s \notin Authed
      BY <1>6, <3>2 DEF Closed, Active
    <3> QED
      BY <3>1, <3>2
  <2>4. stripped' \subseteq Active'
    BY <1>6 DEF Closed
  <2> QED
    BY <2>1, <2>2, <2>3, <2>4
<1>7. CASE Sweep
  <2>1. PICK dead \in SUBSET Clients :
           /\ Forget(dead \cap Authed)
           /\ Terminate(dead)
           /\ UNCHANGED <<validating, user, ghosts, callVars>>
    BY <1>7 DEF Sweep
  <2>2. /\ entry' \in [Users -> Sockets \cup {NoSocket}]
        /\ \A u \in Users : entry'[u] # NoSocket => entry'[u] = entry[u]
        /\ robbed' \subseteq Sockets
    BY <2>1, Forgetting
  <2> QED
    BY <2>1, <2>2 DEF Active
<1>8. ASSUME NEW s \in Sockets, NEW u \in Users, Call(s, u)
      PROVE  TypeOK'
  <2> DEFINE t == entry[u]
             c == placed + 1
  <2>1. t \in Authed /\ s \in Authed
    BY <1>8 DEF Call
  <2>2. c \notin Active /\ c # NoCall /\ CallIds' = CallIds \cup {c}
    BY <1>8 DEF Call
  <2>3. /\ Active' = Active \cup {c}
        /\ calls' \in [Active' -> [from : Users, to : Users, by : Authed, at : Authed]]
    BY <1>8, <2>1, <2>2 DEF Call, Active
  <2>4. current' \in [Sockets -> CallIds' \cup {NoCall}]
    BY <1>8, <2>1, <2>2 DEF Call
  <2>5. \A d \in Sockets : current'[d] # NoCall => d \in Authed
    BY <1>8, <2>1 DEF Call
  <2>6. stripped' \subseteq Active'
    BY <1>8, <2>3 DEF Call
  <2>7. placed' \in Nat /\ Active' \subseteq CallIds'
    BY <1>8, <2>2, <2>3 DEF Call
  <2>8. UNCHANGED <<ready, validating, user, entry, robbed, ghosts>>
    BY <1>8 DEF Call
  <2> HIDE DEF c, t
  <2> QED
    BY <2>3, <2>4, <2>5, <2>6, <2>7, <2>8
<1>9. ASSUME NEW s \in Sockets, Decline(s) PROVE TypeOK'
  <2>1. /\ Active' \subseteq Active
        /\ calls' \in [Active' -> [from : Users, to : Users, by : Authed, at : Authed]]
    BY <1>9, Deleting DEF Decline
  <2> QED
    BY <1>9, <2>1 DEF Decline
<1>10. ASSUME NEW s \in Sockets, NEW u \in Users, Hangup(s, u) PROVE TypeOK'
  <2>1. /\ Active' \subseteq Active
        /\ calls' \in [Active' -> [from : Users, to : Users, by : Authed, at : Authed]]
    BY <1>10, Deleting DEF Hangup
  <2> QED
    BY <1>10, <2>1 DEF Hangup
<1>11. CASE UNCHANGED vars
  BY <1>11 DEF vars, Active
<1>q. QED
  BY <1>1, <1>2, <1>3, <1>4, <1>5, <1>6, <1>7, <1>8, <1>9, <1>10, <1>11
     DEF Next, Session, Auth

(* An entry changes hands with the session that held it closed, or robbed.   *)
LEMMA ReachStep ==
  TypeOK /\ UnreachableIsRobbed /\ [Next]_vars => UnreachableIsRobbed'
<1> SUFFICES ASSUME TypeOK, UnreachableIsRobbed, [Next]_vars
             PROVE  UnreachableIsRobbed'
  OBVIOUS
<1> USE DEF TypeOK, UnreachableIsRobbed, Clients, Authed, Terminate, States,
            callVars, sessionVars
<1>1. ASSUME NEW s \in Sockets, Connect(s) PROVE UnreachableIsRobbed'
  BY <1>1 DEF Connect
<1>2. ASSUME NEW s \in Sockets, NEW u \in Users, AuthFrame(s, u)
      PROVE  UnreachableIsRobbed'
  BY <1>2 DEF AuthFrame
<1>3. ASSUME NEW s \in Sockets, NEW u \in Users, AuthFails(s, u)
      PROVE  UnreachableIsRobbed'
  BY <1>3 DEF AuthFails
<1>4. ASSUME NEW s \in Sockets, NEW u \in Users, AuthPasses(s, u)
      PROVE  UnreachableIsRobbed'
  BY <1>4 DEF AuthPasses
<1>5. ASSUME NEW s \in Sockets, Leave(s) PROVE UnreachableIsRobbed'
  BY <1>5 DEF Leave
<1>6. ASSUME NEW s \in Sockets, Closed(s) PROVE UnreachableIsRobbed'
  BY <1>6 DEF Closed, Forget
<1>7. CASE Sweep
  BY <1>7 DEF Sweep, Forget
<1>8. CASE UNCHANGED <<ready, sessionVars>>
  BY <1>8
<1>q. QED
  BY <1>1, <1>2, <1>3, <1>4, <1>5, <1>6, <1>7, <1>8
     DEF Next, Session, Auth, Call, Decline, Hangup, vars

(* The close handler deletes the entry of the last user of the socket that   *)
(* closes; an entry it has for another user is stray already.                *)
LEMMA GhostStep == TypeOK /\ GhostsAreStray /\ [Next]_vars => GhostsAreStray'
<1> SUFFICES ASSUME TypeOK, GhostsAreStray, [Next]_vars PROVE GhostsAreStray'
  OBVIOUS
<1> USE DEF TypeOK, GhostsAreStray, Stray, Clients, Terminate, States, callVars,
            sessionVars
<1>1. ASSUME NEW s \in Sockets, Connect(s) PROVE GhostsAreStray'
  BY <1>1 DEF Connect
<1>2. ASSUME NEW s \in Sockets, NEW u \in Users, AuthFrame(s, u)
      PROVE  GhostsAreStray'
  BY <1>2 DEF AuthFrame
<1>3. ASSUME NEW s \in Sockets, NEW u \in Users, AuthFails(s, u)
      PROVE  GhostsAreStray'
  BY <1>3 DEF AuthFails
<1>4. ASSUME NEW s \in Sockets, NEW u \in Users, AuthPasses(s, u)
      PROVE  GhostsAreStray'
  BY <1>4 DEF AuthPasses
<1>5. ASSUME NEW s \in Sockets, Leave(s) PROVE GhostsAreStray'
  BY <1>5 DEF Leave
<1>6. ASSUME NEW s \in Sockets, Closed(s) PROVE GhostsAreStray'
  BY <1>6 DEF Closed, Forget, Authed
<1>7. CASE Sweep
  BY <1>7 DEF Sweep, Forget
<1>8. CASE UNCHANGED <<ready, sessionVars>>
  BY <1>8
<1>q. QED
  BY <1>1, <1>2, <1>3, <1>4, <1>5, <1>6, <1>7, <1>8
     DEF Next, Session, Auth, Call, Decline, Hangup, vars

(* What CallIsHeld says of one call. *)
HeldBy(by, at, to, c) ==
  /\ current[by] = c /\ current[at] = c
  /\ ready[by] # "closed"
  /\ ready[at] = "closed" => <<at, to>> \in ghosts \/ user[at] # to

LEMMA HoldingCalls ==
  CallIsHeld <=> \A c \in Active \ stripped :
                    HeldBy(calls[c].by, calls[c].at, calls[c].to, c)
BY DEF CallIsHeld, HeldBy, Stray

(* A call that is on leaves a socket only by ending, or by the socket being  *)
(* made to forget it.                                                        *)
LEMMA CallStep ==
  TypeOK /\ GhostsAreStray /\ CallIsHeld /\ [Next]_vars => CallIsHeld'
<1> DEFINE All == \A c \in Active \ stripped :
                    HeldBy(calls[c].by, calls[c].at, calls[c].to, c)
<1>a. All' => CallIsHeld'
  <2>1. All => CallIsHeld
    BY HoldingCalls
  <2> QED
    BY <2>1, PTL
<1> SUFFICES ASSUME TypeOK, GhostsAreStray, CallIsHeld, [Next]_vars,
                    NEW c \in Active', c \notin stripped'
             PROVE  HeldBy(calls[c].by, calls[c].at, calls[c].to, c)'
  BY <1>a
<1> USE DEF TypeOK, Stray, Clients, Working, Authed, Terminate, States, CallIds,
            NoCall, callVars, sessionVars, HeldBy
<1> DEFINE Held == HeldBy(calls[c].by, calls[c].at, calls[c].to, c)'
<1>0. ASSUME c \in Active \ stripped
      PROVE  /\ {calls[c].by, calls[c].at} \subseteq Authed /\ calls[c].to \in Users
             /\ HeldBy(calls[c].by, calls[c].at, calls[c].to, c)
  BY <1>0, HoldingCalls
<1>1. ASSUME NEW s \in Sockets, Connect(s) PROVE Held
  BY <1>1, <1>0 DEF Connect, Active
<1>2. ASSUME NEW s \in Sockets, NEW u \in Users, AuthFrame(s, u) PROVE Held
  BY <1>2, <1>0 DEF AuthFrame, Active
<1>3. ASSUME NEW s \in Sockets, NEW u \in Users, AuthFails(s, u) PROVE Held
  BY <1>3, <1>0 DEF AuthFails, Active
<1>4. ASSUME NEW s \in Sockets, NEW u \in Users, AuthPasses(s, u) PROVE Held
  BY <1>4, <1>0 DEF AuthPasses, Active
<1>5. ASSUME NEW s \in Sockets, Leave(s) PROVE Held
  BY <1>5, <1>0 DEF Leave, Active
<1>6. ASSUME NEW s \in Sockets, Closed(s) PROVE Held
  <2>1. /\ c \in Active /\ calls'[c] = calls[c]
        /\ s \in Authed => c # current[s]
    <3>1. CASE s \in Authed
      BY <1>6, <3>1, Deleting DEF Closed
    <3>2. CASE s \notin Authed
      BY <1>6, <3>2 DEF Closed, Active
    <3> QED
      BY <3>1, <3>2
  <2>2. c \notin stripped
    BY <1>6 DEF Closed
  <2>3. /\ UNCHANGED <<current, ghosts, user>>
        /\ \A d \in Sockets \ {s} : ready'[d] = ready[d]
    BY <1>6 DEF Closed
  <2> QED
    BY <1>0, <2>1, <2>2, <2>3
<1>7. CASE Sweep
  BY <1>7, <1>0 DEF Sweep, Active
<1>8. ASSUME NEW s \in Sockets, NEW u \in Users, Call(s, u) PROVE Held
  <2>1. /\ Active' = Active \cup {placed + 1}
        /\ calls'[c] = IF c = placed + 1
                       THEN [from |-> user[s], to |-> u, by |-> s, at |-> entry[u]]
                       ELSE calls[c]
        /\ placed + 1 \notin Active
    BY <1>8 DEF Call, Active
  <2>2. CASE c = placed + 1
    BY <1>8, <2>1, <2>2 DEF Call, GhostsAreStray
  <2>3. CASE c \in Active
    <3>1. c \notin stripped /\ calls'[c] = calls[c]
      BY <1>8, <2>1, <2>3 DEF Call
    <3>2. c \notin {current[s], current[entry[u]]}
      BY <1>8, <2>3 DEF Call
    <3> QED
      BY <1>0, <1>8, <2>3, <3>1, <3>2 DEF Call
  <2> QED
    BY <2>1, <2>2, <2>3
<1>9. ASSUME NEW s \in Sockets, Decline(s) PROVE Held
  <2>1. c \in Active /\ calls'[c] = calls[c] /\ c # current[s]
    BY <1>9, Deleting DEF Decline
  <2>2. c \notin stripped
    BY <1>9 DEF Decline
  <2> QED
    BY <1>0, <1>9, <2>1, <2>2 DEF Decline
<1>10. ASSUME NEW s \in Sockets, NEW u \in Users, Hangup(s, u) PROVE Held
  <2> DEFINE t     == entry[u]
             mine  == IF t = s THEN NoCall ELSE current[s]
             yours == IF t = NoSocket THEN NoCall ELSE current[t]
  <2>1. c \in Active /\ calls'[c] = calls[c] /\ c # mine
    BY <1>10, Deleting DEF Hangup
  <2>2. c \notin stripped /\ c # yours
    BY <1>10 DEF Hangup
  <2>3. \A d \in {s, t} \cap Sockets : current[d] # c
    BY <2>1, <2>2
  <2>4. /\ \A d \in Sockets \ {s, t} : current'[d] = current[d]
        /\ UNCHANGED <<ready, user, ghosts>>
    BY <1>10 DEF Hangup
  <2> HIDE DEF mine, yours
  <2> QED
    BY <1>0, <2>1, <2>2, <2>3, <2>4
<1>11. CASE UNCHANGED vars
  BY <1>11, <1>0 DEF vars, Active
<1>q. QED
  BY <1>1, <1>2, <1>3, <1>4, <1>5, <1>6, <1>7, <1>8, <1>9, <1>10, <1>11
     DEF Next, Session, Auth

LEMMA Invariance == Spec => []Inv
<1>1. Inv /\ [Next]_vars => Inv'
  BY TypeStep, ReachStep, GhostStep, CallStep DEF Inv
<1> QED
  BY <1>1, InitInv, PTL DEF Spec

(* TypeOK: entries and calls belong to sockets that have authenticated. *)
THEOREM TypeCorrect == Spec => []TypeOK
BY Invariance, PTL DEF Inv

(* UnreachableIsRobbed: whatever sessions a user opens, as whomever they     *)
(* authenticated before, and in whatever order their tokens are found good,  *)
(* one that is open gets the calls of its user, or has lost its entry to     *)
(* another session's end.                                                    *)
THEOREM OpenSessionsAreReached == Spec => []UnreachableIsRobbed
BY Invariance, PTL DEF Inv

(* GhostsAreStray: an entry of a closed socket was made after it closed, or  *)
(* left behind when the socket authenticated as another user.                *)
THEOREM ClosedEntriesAreStray == Spec => []GhostsAreStray
BY Invariance, PTL DEF Inv

(* CallIsHeld: a call that makes its users busy is one that a socket of each *)
(* can still end, unless a hangup or a second call stripped it.              *)
THEOREM CallsAreHeld == Spec => []CallIsHeld
BY Invariance, PTL DEF Inv
=============================================================================
