------------------------- MODULE SignalingHubProofs -------------------------
(* Proofs about SignalingHub, for any users, instances and sessions, any     *)
(* placement of the sessions and any number of messages: the type invariant, *)
(* the soundness of the connection map, the delivery invariants, and that    *)
(* the hub implements MailDelivery.                                          *)
EXTENDS SignalingHub, TLAPS

USE NoUserAssumption, PresentsAssumption, HostAssumption, NoSocketAssumption,
    MaxMsgsAssumption

-----------------------------------------------------------------------------
(* Sequences, element by element. *)

LEMMA AppendElements ==
  ASSUME NEW S, NEW q \in Seq(S), NEW e \in S
  PROVE  /\ Append(q, e) \in Seq(S)
         /\ DOMAIN q = 1..Len(q) /\ Len(q) \in Nat
         /\ DOMAIN Append(q, e) = 1..(Len(q) + 1)
         /\ \A k \in DOMAIN q : Append(q, e)[k] = q[k]
         /\ Append(q, e)[Len(q) + 1] = e
  OBVIOUS

LEMMA ElementAt ==
  ASSUME NEW S, NEW q \in Seq(S), NEW k \in 1..Len(q)
  PROVE  q[k] \in S
  OBVIOUS

(* The same for a sequence of message ids. An element of the longer sequence *)
(* is an old one, or the new one in the last place.                          *)
LEMMA AppendId ==
  ASSUME NEW q \in Seq(Nat), NEW e \in Nat
  PROVE  /\ Append(q, e) \in Seq(Nat)
         /\ \A k \in DOMAIN Append(q, e) :
               \/ k \in DOMAIN q /\ Append(q, e)[k] = q[k]
               \/ k = Len(q) + 1 /\ k \notin DOMAIN q /\ Append(q, e)[k] = e
         /\ \A k \in DOMAIN q : k \in Nat /\ k < Len(q) + 1 /\ Len(q) \in Nat
  OBVIOUS

(* A sequence that stayed or got one more element stays within a set. *)
LEMMA AppendWithin ==
  ASSUME NEW q \in Seq(Nat), NEW T, NEW e \in T, T \subseteq Nat, NEW r,
         \A k \in DOMAIN q : q[k] \in T,
         r = q \/ r = Append(q, e)
  PROVE  r \in Seq(Nat) /\ \A k \in DOMAIN r : r[k] \in T
<1>1. CASE r = q
  BY <1>1
<1>2. CASE r = Append(q, e)
  BY <1>2, AppendId
<1> QED
  BY <1>1, <1>2

LEMMA TailId ==
  ASSUME NEW q \in Seq(Nat), q # <<>>
  PROVE  /\ Tail(q) \in Seq(Nat)
         /\ 1 \in DOMAIN q /\ Head(q) = q[1] /\ q[1] \in Nat
         /\ \A k \in DOMAIN Tail(q) : /\ k \in Nat \ {0}
                                    /\ k + 1 \in DOMAIN q
                                    /\ Tail(q)[k] = q[k + 1]
  OBVIOUS

-----------------------------------------------------------------------------
(* Types. The subscriber looks up the recipient of the id it takes, so the   *)
(* type invariant rests on every id on the way being known. The four actions *)
(* that move messages come first, each in a lemma of its own.                *)

TypeInv == TypeOK /\ KnownIds

LEMMA TypePublish ==
  ASSUME TypeInv, NEW s \in Sockets, Publish(s)
  PROVE  TypeInv'
<1>1. /\ inbox \in [Instances -> Seq(Nat)]
      /\ \A i \in Instances : \A k \in DOMAIN inbox[i] : inbox[i][k] \in MsgIds
      /\ cur[s] \in MsgIds /\ MsgIds \subseteq Nat
  BY DEF TypeInv, TypeOK, KnownIds, Publish, MsgIds
<1>2. ASSUME NEW i \in Instances
      PROVE  /\ inbox'[i] \in Seq(Nat)
             /\ \A k \in DOMAIN inbox'[i] : inbox'[i][k] \in MsgIds
  <2>1. inbox'[i] = inbox[i] \/ inbox'[i] = Append(inbox[i], cur[s])
    BY DEF Publish
  <2>2. inbox[i] \in Seq(Nat) /\ \A k \in DOMAIN inbox[i] : inbox[i][k] \in MsgIds
    BY <1>1
  <2> QED
    BY <1>1, <2>1, <2>2, AppendWithin
<1>3. inbox' \in [Instances -> Seq(Nat)]
  <2>1. DOMAIN inbox' = Instances /\ inbox' = [i \in Instances |-> inbox'[i]]
    BY DEF Publish
  <2> QED
    BY <1>2, <2>1
<1>4. MsgIds' = MsgIds
  BY DEF Publish, MsgIds
<1>5. TypeOK'
  BY <1>3 DEF TypeInv, TypeOK, Publish, Goto, PCs, entryVars, Authed
<1>6. KnownIds'
  BY <1>2, <1>4 DEF TypeInv, TypeOK, KnownIds, Publish
<1> QED
  BY <1>5, <1>6 DEF TypeInv

(* What sending does to the record of the messages. *)
LEMMA NoteFacts ==
  ASSUME TypeOK, NEW s \in Sockets, NEW u \in Users, Note(s, u)
  PROVE  /\ posted' \in Seq([to : Users, via : Sockets])
         /\ NewMsg \in Nat \ {0} /\ NewMsg \notin MsgIds
         /\ MsgIds \subseteq Nat \ {0}
         /\ MsgIds' = MsgIds \cup {NewMsg}
         /\ MsgIds' \subseteq Nat /\ MsgIds \subseteq MsgIds' /\ NewMsg \in MsgIds'
         /\ DOMAIN posted = MsgIds
         /\ \A m \in MsgIds : posted'[m] = posted[m] /\ m < NewMsg
         /\ posted'[NewMsg] = [to |-> u, via |-> s]
         /\ posted'[NewMsg].to = u /\ posted'[NewMsg].via = s
<1>1. posted \in Seq([to : Users, via : Sockets])
  BY DEF TypeOK
<1>2. posted' = Append(posted, [to |-> u, via |-> s])
  BY DEF Note
<1>3. [to |-> u, via |-> s] \in [to : Users, via : Sockets]
  OBVIOUS
<1> QED
  BY <1>1, <1>2, <1>3, AppendElements DEF MsgIds, NewMsg

LEMMA TypeSendLocal ==
  ASSUME TypeInv, NEW s \in Sockets, NEW u \in Users, SendLocal(s, u)
  PROVE  TypeInv'
<1>1. /\ outbox \in [Sockets -> Seq(Nat)]
      /\ \A t \in Sockets : \A k \in DOMAIN outbox[t] : outbox[t][k] \in MsgIds
  BY DEF TypeInv, TypeOK, KnownIds
<1>2. TypeOK /\ Note(s, u)
  BY DEF TypeInv, SendLocal
<1>3. PICK tx \in Sockets : outbox' = [outbox EXCEPT ![tx] = Append(@, NewMsg)]
  <2>1. Entry(Host[s], u) \in Sockets
    BY DEF TypeInv, TypeOK, SendLocal, Entry
  <2> QED
    BY <2>1 DEF SendLocal
<1>4. ASSUME NEW t \in Sockets
      PROVE  /\ outbox'[t] \in Seq(Nat)
             /\ \A k \in DOMAIN outbox'[t] : outbox'[t][k] \in MsgIds'
  <2>1. outbox'[t] = outbox[t] \/ outbox'[t] = Append(outbox[t], NewMsg)
    BY <1>1, <1>3
  <2>2. /\ outbox[t] \in Seq(Nat) /\ MsgIds' \subseteq Nat /\ NewMsg \in MsgIds'
        /\ \A k \in DOMAIN outbox[t] : outbox[t][k] \in MsgIds'
    BY <1>1, <1>2, NoteFacts
  <2> QED
    BY <2>1, <2>2, AppendWithin
<1>5. outbox' \in [Sockets -> Seq(Nat)]
  BY <1>1, <1>3, <1>4
<1>6. TypeOK'
  BY <1>2, <1>5, NoteFacts DEF TypeOK, SendLocal, sessionVars, entryVars, Authed
<1>7. \A i \in Instances : \A k \in DOMAIN inbox'[i] : inbox'[i][k] \in MsgIds'
  BY <1>2, NoteFacts DEF TypeInv, KnownIds, SendLocal
<1>8. \A r \in Sockets : cur'[r] # 0 => /\ cur'[r] \in MsgIds'
                                        /\ posted'[cur'[r]].via = r
  <2>1. /\ \A r \in Sockets : cur[r] # 0 => /\ cur[r] \in MsgIds
                                            /\ posted[cur[r]].via = r
        /\ cur' = cur
    BY DEF TypeInv, KnownIds, SendLocal
  <2>2. \A m \in MsgIds : m \in MsgIds' /\ posted'[m] = posted[m]
    BY <1>2, NoteFacts
  <2> QED
    BY <2>1, <2>2
<1> QED
  BY <1>4, <1>6, <1>7, <1>8 DEF TypeInv, KnownIds

LEMMA TypeSendRemote ==
  ASSUME TypeInv, NEW s \in Sockets, NEW u \in Users, SendRemote(s, u)
  PROVE  TypeInv'
<1>1. TypeOK /\ Note(s, u)
  BY DEF TypeInv, SendRemote
<1>2. cur' = [cur EXCEPT ![s] = NewMsg] /\ pc' = [pc EXCEPT ![s] = "publishing"]
  BY DEF SendRemote, Goto
<1>3. /\ pc' \in [Sockets -> PCs] /\ cur' \in [Sockets -> Nat]
      /\ \A r \in Sockets : pc'[r] = "publishing" <=> cur'[r] # 0
  <2>1. NewMsg \in Nat /\ NewMsg # 0
    BY <1>1, NoteFacts
  <2> QED
    BY <1>1, <1>2, <2>1 DEF TypeOK, PCs
<1>4. TypeOK'
  <2>1. \A r \in Sockets : /\ pc'[r] = "replacing" => r \in Authed'
                           /\ pc'[r] = "idle" => r \notin Authed'
    BY <1>1, <1>2 DEF TypeOK, SendRemote, entryVars, Authed
  <2>2. UNCHANGED <<user, told, conns, inbox, subscribed, outbox>>
    BY DEF SendRemote, entryVars
  <2> QED
    BY <1>1, <1>3, <2>1, <2>2, NoteFacts DEF TypeOK
<1>5. \A i \in Instances : \A k \in DOMAIN inbox'[i] : inbox'[i][k] \in MsgIds'
  BY <1>1, NoteFacts DEF TypeInv, KnownIds, SendRemote
<1>6. \A t \in Sockets : \A k \in DOMAIN outbox'[t] : outbox'[t][k] \in MsgIds'
  BY <1>1, NoteFacts DEF TypeInv, KnownIds, SendRemote
<1>7. \A r \in Sockets : cur'[r] # 0 => /\ cur'[r] \in MsgIds'
                                        /\ posted'[cur'[r]].via = r
  <2>1. /\ cur \in [Sockets -> Nat]
        /\ \A r \in Sockets : cur[r] # 0 => /\ cur[r] \in MsgIds
                                           /\ posted[cur[r]].via = r
    BY DEF TypeInv, TypeOK, KnownIds
  <2>2. /\ posted'[NewMsg].via = s /\ NewMsg \in MsgIds'
        /\ \A m \in MsgIds : m \in MsgIds' /\ posted'[m] = posted[m]
    BY <1>1, NoteFacts
  <2> QED
    BY <1>2, <2>1, <2>2
<1> QED
  BY <1>4, <1>5, <1>6, <1>7 DEF TypeInv, KnownIds

(* What the subscriber does: the head of an inbox leaves it, and enters at   *)
(* most one outbox.                                                          *)
LEMMA SubscriberFacts ==
  ASSUME TypeInv, NEW i \in Instances, Subscriber(i)
  PROVE  LET m == Head(inbox[i])
             tx == Entry(i, posted[m].to)
         IN /\ m \in MsgIds /\ m = inbox[i][1] /\ 1 \in DOMAIN inbox[i]
            /\ posted[m] \in [to : Users, via : Sockets]
            /\ \A k \in DOMAIN inbox'[i] : /\ k \in Nat \ {0}
                                           /\ k + 1 \in DOMAIN inbox[i]
                                           /\ inbox'[i][k] = inbox[i][k + 1]
            /\ inbox'[i] \in Seq(Nat)
            /\ \A j \in Instances \ {i} : inbox'[j] = inbox[j]
            /\ DOMAIN inbox' = Instances
            /\ \/ tx = NoSocket /\ outbox' = outbox
               \/ tx \in Sockets /\ outbox' = [outbox EXCEPT ![tx] = Append(@, m)]
            /\ posted' = posted
<1>1. inbox \in [Instances -> Seq(Nat)] /\ inbox[i] # <<>>
  BY DEF TypeInv, TypeOK, Subscriber
<1>2. inbox[i] \in Seq(Nat)
  BY <1>1
<1>3. inbox' = [inbox EXCEPT ![i] = Tail(@)]
  BY DEF Subscriber
<1> DEFINE m == Head(inbox[i])
           tx == Entry(i, posted[m].to)
<1>4. m = inbox[i][1] /\ 1 \in DOMAIN inbox[i]
  BY <1>1, <1>2, TailId
<1>5. m \in MsgIds
  BY <1>4 DEF TypeInv, KnownIds
<1>6. posted[m] \in [to : Users, via : Sockets]
  <2>1. posted \in Seq([to : Users, via : Sockets])
    BY DEF TypeInv, TypeOK
  <2> HIDE DEF m, tx
  <2> QED
    BY <1>5, <2>1, ElementAt DEF MsgIds
<1>7. tx \in Sockets \cup {NoSocket}
  BY <1>6 DEF TypeInv, TypeOK, Entry
<1>8. \/ tx = NoSocket /\ outbox' = outbox
      \/ tx \in Sockets /\ outbox' = [outbox EXCEPT ![tx] = Append(@, m)]
  BY <1>7 DEF Subscriber
<1>9. posted' = posted
  BY DEF Subscriber
<1>10. /\ \A k \in DOMAIN inbox'[i] : /\ k \in Nat \ {0}
                                      /\ k + 1 \in DOMAIN inbox[i]
                                      /\ inbox'[i][k] = inbox[i][k + 1]
       /\ inbox'[i] \in Seq(Nat)
  BY <1>1, <1>2, <1>3, TailId
<1> QED
  BY <1>1, <1>3, <1>4, <1>5, <1>6, <1>8, <1>9, <1>10

LEMMA TypeSubscriber ==
  ASSUME TypeInv, NEW i \in Instances, Subscriber(i)
  PROVE  TypeInv'
<1> DEFINE m == Head(inbox[i])
<1>1. /\ inbox \in [Instances -> Seq(Nat)]
      /\ \A j \in Instances : \A k \in DOMAIN inbox[j] : inbox[j][k] \in MsgIds
      /\ outbox \in [Sockets -> Seq(Nat)]
      /\ \A t \in Sockets : \A k \in DOMAIN outbox[t] : outbox[t][k] \in MsgIds
  BY DEF TypeInv, TypeOK, KnownIds
<1>2. MsgIds' = MsgIds /\ MsgIds \subseteq Nat /\ m \in MsgIds
  BY SubscriberFacts DEF MsgIds
<1>3. ASSUME NEW j \in Instances
      PROVE  /\ inbox'[j] \in Seq(Nat)
             /\ \A k \in DOMAIN inbox'[j] : inbox'[j][k] \in MsgIds
  <2>1. CASE j = i
    BY <1>1, <2>1, SubscriberFacts
  <2>2. CASE j # i
    BY <1>1, <2>2, SubscriberFacts
  <2> QED
    BY <2>1, <2>2
<1>4. inbox' \in [Instances -> Seq(Nat)]
  BY <1>1, <1>3 DEF Subscriber
<1>5. ASSUME NEW t \in Sockets
      PROVE  /\ outbox'[t] \in Seq(Nat)
             /\ \A k \in DOMAIN outbox'[t] : outbox'[t][k] \in MsgIds
  <2>1. outbox'[t] = outbox[t] \/ outbox'[t] = Append(outbox[t], m)
    <3> DEFINE tx == Entry(i, posted[m].to)
    <3>1. \/ outbox' = outbox
          \/ tx \in Sockets /\ outbox' = [outbox EXCEPT ![tx] = Append(@, m)]
      BY SubscriberFacts
    <3> HIDE DEF m, tx
    <3> QED
      BY <1>1, <3>1
  <2>2. outbox[t] \in Seq(Nat) /\ \A k \in DOMAIN outbox[t] : outbox[t][k] \in MsgIds
    BY <1>1
  <2> HIDE DEF m
  <2> QED
    BY <1>2, <2>1, <2>2, AppendWithin
<1>6. outbox' \in [Sockets -> Seq(Nat)]
  BY <1>1, <1>5, SubscriberFacts
<1>7. TypeOK'
  BY <1>4, <1>6 DEF TypeInv, TypeOK, Subscriber, sessionVars, entryVars, Authed
<1>8. \A r \in Sockets : cur'[r] # 0 => /\ cur'[r] \in MsgIds
                                        /\ posted'[cur'[r]].via = r
  BY SubscriberFacts DEF TypeInv, KnownIds, Subscriber
<1> QED
  BY <1>2, <1>3, <1>5, <1>7, <1>8 DEF TypeInv, KnownIds

(* Taking leave reads the user id only if there is one. *)
LEMMA TypeDeregister ==
  ASSUME TypeInv, NEW s \in Sockets, Deregister(s), pc[s] # "publishing"
  PROVE  TypeInv'
<1>1. /\ conns' \in [Instances -> [Users -> Sockets \cup {NoSocket}]]
      /\ UNCHANGED <<user, routeVars>>
      /\ told' = told \ {s} /\ pc' = [pc EXCEPT ![s] = "gone"]
  <2>1. UNCHANGED <<user, routeVars>> /\ told' = told \ {s}
        /\ pc' = [pc EXCEPT ![s] = "gone"]
    BY DEF Deregister, Goto
  <2>2. conns \in [Instances -> [Users -> Sockets \cup {NoSocket}]]
    BY DEF TypeInv, TypeOK
  <2>3. CASE s \in Authed
    <3>1. conns' = [conns EXCEPT ![Host[s]][user[s]] = NoSocket]
      BY <2>3 DEF Deregister
    <3> QED
      BY <2>1, <2>2, <3>1
  <2>4. CASE s \notin Authed
    BY <2>1, <2>2, <2>4 DEF Deregister
  <2> QED
    BY <2>1, <2>3, <2>4
<1>2. /\ pc \in [Sockets -> PCs] /\ "gone" \in PCs /\ Authed' = Authed
      /\ \A t \in Sockets : pc[t] = "publishing" <=> cur[t] # 0
  BY <1>1 DEF TypeInv, TypeOK, PCs, Authed
<1>3. TypeOK'
  BY <1>1, <1>2 DEF TypeInv, TypeOK, routeVars
<1>4. KnownIds'
  BY <1>1 DEF TypeInv, KnownIds, MsgIds, routeVars
<1> QED
  BY <1>3, <1>4 DEF TypeInv

LEMMA TypeInit == Init => TypeInv
  BY DEF Init, TypeInv, TypeOK, PCs, KnownIds, Authed

LEMMA TypeStep == TypeInv /\ [Next]_vars => TypeInv'
<1> SUFFICES ASSUME TypeInv, [Next]_vars PROVE TypeInv'
  OBVIOUS
<1> USE DEF TypeInv, TypeOK, KnownIds, MsgIds, PCs, Goto, Entry, routeVars,
            sessionVars, entryVars, Authed, Rivals
<1>1. ASSUME NEW s \in Sockets, Open(s) PROVE TypeInv'
  BY <1>1 DEF Open
<1>2. ASSUME NEW s \in Sockets, Auth(s) PROVE TypeInv'
  BY <1>2 DEF Auth
<1>3. ASSUME NEW s \in Sockets, LeaveLoop(s) PROVE TypeInv'
  BY <1>3, TypeDeregister DEF LeaveLoop
<1>4. ASSUME NEW s \in Sockets, CheckFails(s) PROVE TypeInv'
  BY <1>4, TypeDeregister DEF CheckFails
<1>5. ASSUME NEW s \in Sockets, NEW u \in Users, CheckPasses(s, u) PROVE TypeInv'
  BY <1>5 DEF CheckPasses
<1>6. ASSUME NEW s \in Sockets, Register(s) PROVE TypeInv'
  BY <1>6 DEF Register
<1>8. ASSUME NEW s \in Sockets, Publish(s) PROVE TypeInv'
  BY <1>8, TypePublish
<1>9. ASSUME NEW s \in Sockets, PublishFails(s) PROVE TypeInv'
  BY <1>9 DEF PublishFails
<1>10. ASSUME NEW s \in Sockets, NEW u \in Users, SendLocal(s, u) PROVE TypeInv'
  BY <1>10, TypeSendLocal
<1>11. ASSUME NEW s \in Sockets, NEW u \in Users, SendRemote(s, u) PROVE TypeInv'
  BY <1>11, TypeSendRemote
<1>12. ASSUME NEW i \in Instances, Subscriber(i) PROVE TypeInv'
  BY <1>12, TypeSubscriber
<1>13. ASSUME NEW i \in Instances, SubscriptionEnds(i) PROVE TypeInv'
  BY <1>13 DEF SubscriptionEnds
<1>14. ASSUME NEW i \in Instances, Crash(i) PROVE TypeInv'
  BY <1>14 DEF Crash
<1>15. CASE UNCHANGED vars
  BY <1>15 DEF vars
<1> QED
  BY <1>1, <1>2, <1>3, <1>4, <1>5, <1>6, <1>8, <1>9, <1>10, <1>11,
     <1>12, <1>13, <1>14, <1>15 DEF Next, Session

(* Every reachable state is well typed. *)
THEOREM TypeCorrect == Spec => []TypeOK
  BY TypeInit, TypeStep, PTL DEF Spec, TypeInv
-----------------------------------------------------------------------------
(* The connection map. A session has been one of the users of its client     *)
(* only, and nobody takes an entry of another user along.                    *)

LiveInv == /\ DeadEntryIsStray
           /\ \A s \in Authed : user[s] \in Presents[s]

LEMMA LiveInit == Init => LiveInv
  BY DEF Init, LiveInv, DeadEntryIsStray, Entry, Authed

LEMMA LiveStep == TypeOK /\ LiveInv /\ [Next]_vars => LiveInv'
<1> SUFFICES ASSUME TypeOK, LiveInv, [Next]_vars PROVE LiveInv'
  OBVIOUS
<1>0. /\ pc \in [Sockets -> PCs] /\ user \in [Sockets -> Users \cup {NoUser}]
      /\ conns \in [Instances -> [Users -> Sockets \cup {NoSocket}]]
      /\ \A s \in Sockets : pc[s] = "replacing" => s \in Authed
  BY DEF TypeOK
<1>k. /\ conns' = conns /\ user' = user
      /\ \A s \in Sockets : pc'[s] = "gone" => pc[s] = "gone"
      => LiveInv'
  BY <1>0 DEF LiveInv, DeadEntryIsStray, Entry, Authed
<1>1. ASSUME NEW s \in Sockets,
             \/ Open(s) \/ Auth(s) \/ Publish(s) \/ PublishFails(s)
             \/ \E u \in Users : SendLocal(s, u) \/ SendRemote(s, u)
      PROVE  LiveInv'
  BY <1>0, <1>k, <1>1 DEF Open, Auth, Publish, PublishFails, SendLocal,
                          SendRemote, Goto, sessionVars, entryVars
<1>2. ASSUME NEW s \in Sockets, Deregister(s) PROVE LiveInv'
  BY <1>0, <1>2 DEF Deregister, LiveInv, DeadEntryIsStray, Entry, Goto, Authed
<1>3. ASSUME NEW s \in Sockets, NEW u \in Users, CheckPasses(s, u) PROVE LiveInv'
  BY <1>0, <1>3 DEF CheckPasses, LiveInv, DeadEntryIsStray, Entry, Goto, Authed
<1>4. ASSUME NEW s \in Sockets, Register(s) PROVE LiveInv'
  BY <1>0, <1>4 DEF Register, LiveInv, DeadEntryIsStray, Entry, Goto, Authed
<1>5. ASSUME NEW i \in Instances, Subscriber(i) \/ SubscriptionEnds(i)
      PROVE  LiveInv'
  BY <1>0, <1>k, <1>5 DEF Subscriber, SubscriptionEnds, sessionVars, entryVars
<1>6. ASSUME NEW i \in Instances, Crash(i) PROVE LiveInv'
  BY <1>0, <1>6 DEF Crash, LiveInv, DeadEntryIsStray, Entry, Authed
<1>7. CASE UNCHANGED vars
  BY <1>k, <1>7 DEF vars, sessionVars, entryVars
<1> QED
  BY <1>1, <1>2, <1>3, <1>4, <1>5, <1>6, <1>7
     DEF Next, Session, LeaveLoop, CheckFails

(* DeadEntryIsStray: an entry of the map that outlives its session was made  *)
(* before the session authenticated as another user; no other way out of the *)
(* read loop, and no race of two sessions, leaves one (server.rs:144).       *)
THEOREM DeadEntriesAreStray == Spec => []DeadEntryIsStray
  BY TypeCorrect, LiveInit, LiveStep, PTL DEF Spec, LiveInv

(* Who cannot be reached. A session loses its entry to a sibling's insert or *)
(* to a sibling's cleanup. The insert comes a step after the lookup that     *)
(* tells the session in the entry, so what has to be shown is who can be in  *)
(* the entry by then: one that was told, or one that registered meanwhile.   *)

OverwriteIsExplained ==
  \A s \in Authed : \A t \in Rivals(s, user[s]) :
     pc[t] = "replacing" /\ Entry(Host[s], user[s]) = s
        => s \in told \/ s \in crossed

RegistrationsCross ==
  \A s \in Authed : \A t \in Rivals(s, user[s]) :
     pc[s] = "replacing" /\ pc[t] = "replacing" => s \in crossed

ReachInv == UnreachableIsExplained /\ OverwriteIsExplained /\ RegistrationsCross

LEMMA ReachInit == Init => ReachInv
  BY DEF Init, ReachInv, UnreachableIsExplained, OverwriteIsExplained,
         RegistrationsCross, Authed

(* A step that neither registers nor removes anybody. *)
LEMMA ReachStays ==
  ASSUME ReachInv, UNCHANGED entryVars,
         \A s \in Authed :
            /\ pc'[s] = "replacing" => pc[s] = "replacing"
            /\ pc'[s] \in {"reading", "checking", "publishing"}
                 => pc[s] \in {"reading", "checking", "publishing"}
  PROVE  ReachInv'
<1>1. /\ user' = user /\ told' = told /\ conns' = conns
      /\ crossed' = crossed /\ robbed' = robbed /\ Authed' = Authed
  BY DEF entryVars, Authed
<1>2. UnreachableIsExplained'
  BY <1>1 DEF ReachInv, UnreachableIsExplained, Entry
<1>3. ASSUME NEW s \in Authed, NEW t \in Rivals(s, user[s])
      PROVE  t \in Authed /\ Rivals(s, user[s])' = Rivals(s, user[s])
  BY <1>1 DEF Rivals, Authed
<1>4. OverwriteIsExplained'
  BY <1>1, <1>3 DEF ReachInv, OverwriteIsExplained, Entry, Rivals
<1>5. RegistrationsCross'
  BY <1>1, <1>3 DEF ReachInv, RegistrationsCross, Rivals
<1> QED
  BY <1>2, <1>4, <1>5 DEF ReachInv

LEMMA ReachCheckPasses ==
  ASSUME TypeOK, ReachInv, NEW s \in Sockets, NEW u \in Users, CheckPasses(s, u)
  PROVE  ReachInv'
<1> USE DEF CheckPasses, Goto, Entry, Rivals, Authed, TypeOK, PCs
<1>1. UnreachableIsExplained'
  BY DEF ReachInv, UnreachableIsExplained
<1>2. OverwriteIsExplained'
  BY DEF ReachInv, OverwriteIsExplained
<1>3. RegistrationsCross'
  BY DEF ReachInv, RegistrationsCross
<1> QED
  BY <1>1, <1>2, <1>3 DEF ReachInv

LEMMA ReachRegister ==
  ASSUME TypeOK, ReachInv, NEW s \in Sockets, Register(s)
  PROVE  ReachInv'
<1> USE DEF Register, Goto, Entry, Rivals, Authed, TypeOK, PCs
<1>1. UnreachableIsExplained'
  BY DEF ReachInv, UnreachableIsExplained, OverwriteIsExplained
<1>2. OverwriteIsExplained'
  BY DEF ReachInv, OverwriteIsExplained, RegistrationsCross
<1>3. RegistrationsCross'
  BY DEF ReachInv, RegistrationsCross
<1> QED
  BY <1>1, <1>2, <1>3 DEF ReachInv

(* A session that leaves takes the entry of its user along, whose-ever it is.*)
LEMMA ReachDeregister ==
  ASSUME TypeOK, ReachInv, NEW s \in Sockets, Deregister(s)
  PROVE  ReachInv'
<1> USE DEF Goto, Entry, Rivals, Authed, TypeOK, PCs
<1>1. /\ user' = user /\ told' = told \ {s} /\ crossed' = crossed \ {s}
      /\ pc' = [pc EXCEPT ![s] = "gone"]
  BY DEF Deregister
<1>2. \A t \in Authed \ {s} :
         \/ conns'[Host[t]][user[t]] = conns[Host[t]][user[t]] /\ robbed \ {s} \subseteq robbed'
         \/ conns'[Host[t]][user[t]] # t
            /\ (conns[Host[t]][user[t]] = t => t \in robbed')
            /\ robbed \ {s} \subseteq robbed'
  <2>1. CASE s \in Authed
    <3>1. /\ conns' = [conns EXCEPT ![Host[s]][user[s]] = NoSocket]
          /\ robbed' = (robbed \cup (Rivals(s, user[s])
                                       \cap {Entry(Host[s], user[s])})) \ {s}
      BY <2>1 DEF Deregister
    <3>2. /\ conns \in [Instances -> [Users -> Sockets \cup {NoSocket}]]
          /\ Host[s] \in Instances /\ user[s] \in Users
      BY <2>1
    <3>3. ASSUME NEW t \in Authed \ {s}
          PROVE  /\ t \in Sockets /\ Host[t] \in Instances /\ user[t] \in Users
                 /\ conns'[Host[t]][user[t]] =
                       IF Host[t] = Host[s] /\ user[t] = user[s]
                       THEN NoSocket ELSE conns[Host[t]][user[t]]
      BY <3>1, <3>2
    <3>4. \A t \in Authed \ {s} :
             Host[t] = Host[s] /\ user[t] = user[s] /\ conns[Host[t]][user[t]] = t
               => t \in robbed'
      BY <3>1
    <3> QED
      BY <3>1, <3>3, <3>4
  <2>2. CASE s \notin Authed
    BY <2>2 DEF Deregister
  <2> QED
    BY <2>1, <2>2
<1>3. UnreachableIsExplained'
  BY <1>1, <1>2 DEF ReachInv, UnreachableIsExplained
<1>4. OverwriteIsExplained'
  <2>1. ASSUME NEW t \in Authed \ {s}, conns'[Host[t]][user[t]] = t
        PROVE  conns[Host[t]][user[t]] = t
    BY <1>2, <2>1
  <2>2. conns'[Host[s]][user[s]] # s \/ s \notin Authed
    BY DEF Deregister
  <2> QED
    BY <1>1, <2>1, <2>2 DEF ReachInv, OverwriteIsExplained
<1>5. RegistrationsCross'
  BY <1>1 DEF ReachInv, RegistrationsCross
<1> QED
  BY <1>3, <1>4, <1>5 DEF ReachInv

LEMMA ReachCrash ==
  ASSUME TypeOK, ReachInv, NEW i \in Instances, Crash(i)
  PROVE  ReachInv'
<1> USE DEF Crash, Entry, Rivals, Authed, TypeOK, PCs
<1>1. UnreachableIsExplained'
  BY DEF ReachInv, UnreachableIsExplained
<1>2. OverwriteIsExplained'
  BY DEF ReachInv, OverwriteIsExplained
<1>3. RegistrationsCross'
  BY DEF ReachInv, RegistrationsCross
<1> QED
  BY <1>1, <1>2, <1>3 DEF ReachInv

LEMMA ReachStep == TypeOK /\ ReachInv /\ [Next]_vars => ReachInv'
<1> SUFFICES ASSUME TypeOK, ReachInv, [Next]_vars PROVE ReachInv'
  OBVIOUS
<1>0. pc \in [Sockets -> PCs] /\ \A s \in Authed : pc[s] # "idle"
  BY DEF TypeOK, Authed
<1>1. ASSUME NEW s \in Sockets,
             \/ Open(s) \/ Auth(s) \/ Publish(s) \/ PublishFails(s)
             \/ \E u \in Users : SendLocal(s, u) \/ SendRemote(s, u)
      PROVE  ReachInv'
  <2>1. UNCHANGED entryVars
    BY <1>1 DEF Open, Auth, Publish, PublishFails, SendLocal, SendRemote,
                sessionVars
  <2>2. \/ UNCHANGED pc
        \/ /\ pc' = [pc EXCEPT ![s] = "reading"]
           /\ pc[s] \in {"idle", "publishing"}
        \/ /\ pc' = [pc EXCEPT ![s] = "checking"] /\ pc[s] = "reading"
        \/ /\ pc' = [pc EXCEPT ![s] = "publishing"] /\ pc[s] = "reading"
    BY <1>1 DEF Open, Auth, Publish, PublishFails, SendLocal, SendRemote, Goto,
                sessionVars
  <2>3. Authed \subseteq Sockets
    BY DEF Authed
  <2> QED
    BY <1>0, <2>1, <2>2, <2>3, ReachStays
<1>2. ASSUME NEW s \in Sockets, Session(s) PROVE ReachInv'
  BY <1>1, <1>2, ReachCheckPasses, ReachRegister, ReachDeregister
     DEF Session, LeaveLoop, CheckFails
<1>3. ASSUME NEW i \in Instances, Subscriber(i) \/ SubscriptionEnds(i)
      PROVE  ReachInv'
  BY <1>3, ReachStays DEF Subscriber, SubscriptionEnds, sessionVars
<1>4. CASE UNCHANGED vars
  BY <1>4, ReachStays DEF vars, sessionVars
<1> QED
  BY <1>2, <1>3, <1>4, ReachCrash DEF Next

(* Whoever cannot be reached was told, registered while another session did, *)
(* or was registered until another session's cleanup (hub.rs:47-64), whoever *)
(* the sessions authenticated as before.                                     *)
THEOREM UnreachablesAreExplained == Spec => []UnreachableIsExplained
<1>1. Spec => []ReachInv
  BY TypeCorrect, ReachInit, ReachStep, PTL DEF Spec
<1> QED
  BY <1>1, PTL DEF ReachInv
-----------------------------------------------------------------------------
(* Delivery. *)

DeliveryInv == /\ CurIsNewest /\ InboxInOrder /\ InboxIsNew
               /\ RightRecipient /\ AtMostOnce /\ CrossInstanceOrder

Inv == TypeInv /\ LiveInv /\ DeliveryInv

LEMMA DeliveryInit == Init => DeliveryInv
  BY DEF Init, DeliveryInv, CurIsNewest, InboxInOrder, InboxIsNew,
         RightRecipient, AtMostOnce, CrossInstanceOrder

(* Losing what is on the way disturbs nothing. *)
LEMMA DeliveryShrink ==
  ASSUME TypeInv, DeliveryInv,
         posted' = posted, outbox' = outbox,
         \A i \in Instances : inbox'[i] = inbox[i] \/ inbox'[i] = <<>>,
         \A s \in Sockets : cur'[s] = cur[s] \/ cur'[s] = 0
  PROVE  DeliveryInv'
<1>1. \A i \in Instances : \A k \in DOMAIN inbox'[i] :
         k \in DOMAIN inbox[i] /\ inbox'[i] = inbox[i]
  OBVIOUS
<1>2. \A s \in Sockets : Host[s] \in Instances
  OBVIOUS
<1>3. CurIsNewest'
  BY <1>1 DEF DeliveryInv, CurIsNewest
<1>4. InboxInOrder'
  BY <1>1 DEF DeliveryInv, InboxInOrder
<1>5. InboxIsNew'
  BY <1>1, <1>2 DEF DeliveryInv, InboxIsNew
<1>6. RightRecipient' /\ AtMostOnce' /\ CrossInstanceOrder'
  BY DEF DeliveryInv, RightRecipient, AtMostOnce, CrossInstanceOrder
<1> QED
  BY <1>3, <1>4, <1>5, <1>6 DEF DeliveryInv

(* What one more message in one outbox changes. *)
LEMMA OutboxGrows ==
  ASSUME TypeInv, NEW tx \in Sockets, NEW m \in Nat,
         outbox' = [outbox EXCEPT ![tx] = Append(@, m)]
  PROVE  /\ \A t \in Sockets : \A k \in DOMAIN outbox'[t] :
               \/ k \in DOMAIN outbox[t] /\ outbox'[t][k] = outbox[t][k]
               \/ /\ t = tx /\ k = Len(outbox[tx]) + 1 /\ k \notin DOMAIN outbox[tx]
                  /\ outbox'[t][k] = m
         /\ \A t \in Sockets : \A k \in DOMAIN outbox[t] :
               /\ k \in Nat /\ Len(outbox[t]) \in Nat /\ k < Len(outbox[t]) + 1
               /\ outbox[t][k] \in MsgIds
<1>1. ASSUME NEW t \in Sockets
      PROVE  /\ outbox[t] \in Seq(Nat)
             /\ \A k \in DOMAIN outbox[t] : outbox[t][k] \in MsgIds
             /\ outbox'[t] = IF t = tx THEN Append(outbox[t], m) ELSE outbox[t]
  BY DEF TypeInv, TypeOK, KnownIds
<1> QED
  BY <1>1, AppendId

LEMMA DeliverySendLocal ==
  ASSUME Inv, NEW s \in Sockets, NEW u \in Users, SendLocal(s, u)
  PROVE  DeliveryInv'
<1>1. TypeInv /\ TypeOK /\ DeliveryInv /\ Note(s, u)
  BY DEF Inv, TypeInv, SendLocal
<1>2. PICK tx \in Sockets : /\ outbox' = [outbox EXCEPT ![tx] = Append(@, NewMsg)]
                            /\ Host[tx] = Host[s] /\ u \in Presents[tx]
  <2>1. Entry(Host[s], u) \in Sockets
    BY <1>1 DEF TypeOK, SendLocal, Entry
  <2>2. Entry(Host[s], u) # NoSocket
    BY DEF SendLocal
  <2>3. /\ Host[Entry(Host[s], u)] = Host[s]
        /\ u \in Presents[Entry(Host[s], u)]
    BY <2>2 DEF Inv, LiveInv, DeadEntryIsStray
  <2> QED
    BY <2>1, <2>3 DEF SendLocal
<1>3. /\ \A m \in MsgIds : posted'[m] = posted[m] /\ m < NewMsg /\ m \in Nat
      /\ NewMsg \in Nat /\ NewMsg \notin MsgIds
      /\ posted'[NewMsg].to = u /\ posted'[NewMsg].via = s
  BY <1>1, NoteFacts
<1> DEFINE Old(t, k) == /\ k \in DOMAIN outbox[t] /\ outbox'[t][k] = outbox[t][k]
                        /\ outbox[t][k] \in MsgIds
                        /\ posted'[outbox[t][k]] = posted[outbox[t][k]]
                        /\ outbox[t][k] < NewMsg
           New(t, k) == /\ t = tx /\ k = Len(outbox[tx]) + 1
                        /\ k \notin DOMAIN outbox[tx] /\ outbox'[t][k] = NewMsg
<1>4. \A t \in Sockets : \A k \in DOMAIN outbox'[t] : Old(t, k) \/ New(t, k)
  <2> SUFFICES ASSUME NEW t \in Sockets, NEW k \in DOMAIN outbox'[t]
               PROVE  Old(t, k) \/ New(t, k)
    OBVIOUS
  <2>1. \/ k \in DOMAIN outbox[t] /\ outbox'[t][k] = outbox[t][k]
        \/ New(t, k)
    BY <1>1, <1>2, <1>3, OutboxGrows
  <2>2. k \in DOMAIN outbox[t] => outbox[t][k] \in MsgIds
    BY <1>1 DEF TypeInv, KnownIds
  <2> QED
    BY <1>3, <2>1, <2>2
<1>5. \A t \in Sockets : \A k \in DOMAIN outbox[t] :
         k \in Nat /\ Len(outbox[t]) \in Nat /\ k < Len(outbox[t]) + 1
  BY <1>1, <1>2, <1>3, OutboxGrows
<1>6. /\ inbox' = inbox /\ cur' = cur /\ cur[s] = 0
      /\ \A i \in Instances : \A k \in DOMAIN inbox[i] :
            /\ inbox[i][k] \in MsgIds
            /\ posted'[inbox[i][k]] = posted[inbox[i][k]]
  BY <1>1, <1>3 DEF TypeInv, TypeOK, KnownIds, SendLocal
<1>7. CurIsNewest'
  BY <1>1, <1>3, <1>4, <1>6 DEF DeliveryInv, CurIsNewest
<1>8. InboxInOrder'
  BY <1>1, <1>6 DEF DeliveryInv, InboxInOrder
<1>9. InboxIsNew'
  <2> SUFFICES ASSUME NEW t \in Sockets, NEW k \in DOMAIN inbox[Host[t]],
                      NEW l \in DOMAIN outbox'[t]
               PROVE  LET m == inbox[Host[t]][k]
                          n == outbox'[t][l]
                      IN /\ m # n
                         /\ posted'[n].via = posted'[m].via
                            /\ Host[posted'[m].via] # Host[t] => n < m
    BY <1>6 DEF InboxIsNew
  <2>1. CASE Old(t, l)
    BY <1>1, <1>6, <2>1 DEF DeliveryInv, InboxIsNew
  <2>2. CASE New(t, l)
    BY <1>2, <1>3, <1>6, <2>2
  <2> QED
    BY <1>4, <2>1, <2>2
<1>10. RightRecipient'
  BY <1>1, <1>2, <1>3, <1>4 DEF DeliveryInv, RightRecipient
<1>11. AtMostOnce'
  BY <1>1, <1>3, <1>4 DEF DeliveryInv, AtMostOnce
<1>12. CrossInstanceOrder'
  <2> SUFFICES ASSUME NEW t \in Sockets, NEW k \in DOMAIN outbox'[t],
                      NEW l \in DOMAIN outbox'[t], k < l,
                      posted'[outbox'[t][k]].via = posted'[outbox'[t][l]].via,
                      Host[posted'[outbox'[t][k]].via] # Host[t]
               PROVE  outbox'[t][k] < outbox'[t][l]
    BY DEF CrossInstanceOrder
  <2>1. Old(t, k) /\ Old(t, l)
    BY <1>2, <1>3, <1>4
  <2> QED
    BY <1>1, <2>1 DEF DeliveryInv, CrossInstanceOrder
<1> QED
  BY <1>7, <1>8, <1>9, <1>10, <1>11, <1>12 DEF DeliveryInv

LEMMA DeliverySendRemote ==
  ASSUME Inv, NEW s \in Sockets, NEW u \in Users, SendRemote(s, u)
  PROVE  DeliveryInv'
<1>1. TypeInv /\ TypeOK /\ DeliveryInv /\ Note(s, u)
  BY DEF Inv, TypeInv, SendRemote
<1>2. /\ \A m \in MsgIds : posted'[m] = posted[m] /\ m < NewMsg
      /\ posted'[NewMsg].via = s
  BY <1>1, NoteFacts
<1>3. /\ inbox' = inbox /\ outbox' = outbox /\ cur' = [cur EXCEPT ![s] = NewMsg]
      /\ cur \in [Sockets -> Nat]
  BY <1>1 DEF TypeOK, SendRemote, entryVars
<1>4. \A i \in Instances : \A k \in DOMAIN inbox[i] :
         /\ inbox[i][k] < NewMsg
         /\ posted'[inbox[i][k]] = posted[inbox[i][k]]
  BY <1>1, <1>2 DEF TypeInv, KnownIds
<1>5. \A t \in Sockets : \A k \in DOMAIN outbox[t] :
         /\ outbox[t][k] < NewMsg
         /\ posted'[outbox[t][k]] = posted[outbox[t][k]]
  BY <1>1, <1>2 DEF TypeInv, KnownIds
<1>6. CurIsNewest'
  BY <1>1, <1>3, <1>4, <1>5 DEF DeliveryInv, CurIsNewest
<1>7. InboxInOrder'
  BY <1>1, <1>3, <1>4 DEF DeliveryInv, InboxInOrder
<1>8. InboxIsNew'
  BY <1>1, <1>3, <1>4, <1>5 DEF DeliveryInv, InboxIsNew
<1>9. RightRecipient' /\ AtMostOnce' /\ CrossInstanceOrder'
  BY <1>1, <1>3, <1>5 DEF DeliveryInv, RightRecipient, AtMostOnce, CrossInstanceOrder
<1> QED
  BY <1>6, <1>7, <1>8, <1>9 DEF DeliveryInv

LEMMA DeliveryPublish ==
  ASSUME Inv, NEW s \in Sockets, Publish(s)
  PROVE  DeliveryInv'
<1> DEFINE m == cur[s]
<1>1. TypeInv /\ TypeOK /\ DeliveryInv /\ posted' = posted /\ outbox' = outbox
  BY DEF Inv, TypeInv, Publish
<1>2. m # 0 /\ m \in Nat /\ posted[m].via = s /\ cur' = [cur EXCEPT ![s] = 0]
  BY <1>1 DEF TypeInv, TypeOK, KnownIds, Publish
<1>3. cur \in [Sockets -> Nat] /\ inbox \in [Instances -> Seq(Nat)]
  BY <1>1 DEF TypeOK
<1>4. ASSUME NEW i \in Instances
      PROVE  \A k \in DOMAIN inbox'[i] :
                \/ k \in DOMAIN inbox[i] /\ inbox'[i][k] = inbox[i][k]
                \/ /\ inbox'[i][k] = m /\ k = Len(inbox[i]) + 1
                   /\ Len(inbox[i]) \in Nat
                   /\ \A l \in DOMAIN inbox[i] : l \in Nat /\ l < k
  <2>1. inbox[i] \in Seq(Nat)
    BY <1>3
  <2>2. CASE inbox'[i] = inbox[i]
    BY <2>2
  <2>3. CASE inbox'[i] = Append(inbox[i], m)
    <3> HIDE DEF m
    <3>1. Len(inbox[i]) \in Nat
      BY <2>1
    <3> QED
      BY <1>2, <2>1, <2>3, <3>1, AppendId
  <2> QED
    BY <2>2, <2>3 DEF Publish
<1>5. \A i \in Instances : \A k \in DOMAIN inbox[i] :
         posted[inbox[i][k]].via = s => inbox[i][k] < m
  BY <1>1, <1>2 DEF DeliveryInv, CurIsNewest
<1>6. \A t \in Sockets : \A k \in DOMAIN outbox[t] :
         posted[outbox[t][k]].via = s => outbox[t][k] < m
  BY <1>1, <1>2 DEF DeliveryInv, CurIsNewest
<1> HIDE DEF m
<1>7. CurIsNewest'
  BY <1>1, <1>2, <1>3, <1>4 DEF DeliveryInv, CurIsNewest
<1>8. InboxInOrder'
  <2> SUFFICES ASSUME NEW i \in Instances, NEW k \in DOMAIN inbox'[i],
                      NEW l \in DOMAIN inbox'[i], k < l,
                      posted[inbox'[i][k]].via = posted[inbox'[i][l]].via
               PROVE  inbox'[i][k] < inbox'[i][l]
    BY <1>1 DEF InboxInOrder
  <2>1. inbox[i] \in Seq(Nat)
    BY <1>3
  <2>2. k \in DOMAIN inbox[i] /\ inbox'[i][k] = inbox[i][k]
    <3>1. SUFFICES ASSUME k = Len(inbox[i]) + 1, Len(inbox[i]) \in Nat,
                          \A j \in DOMAIN inbox[i] : j \in Nat /\ j < k
                   PROVE  FALSE
      BY <1>4
    <3>2. l = k \/ (l \in Nat /\ l < k)
      BY <1>4, <3>1
    <3> QED
      BY <3>1, <3>2
  <2>3. CASE l \in DOMAIN inbox[i] /\ inbox'[i][l] = inbox[i][l]
    BY <1>1, <2>2, <2>3 DEF DeliveryInv, InboxInOrder
  <2>4. CASE inbox'[i][l] = m
    BY <1>2, <1>5, <2>2, <2>4
  <2> QED
    BY <1>4, <2>3, <2>4
<1>9. InboxIsNew'
  <2> SUFFICES ASSUME NEW t \in Sockets, NEW k \in DOMAIN inbox'[Host[t]],
                      NEW l \in DOMAIN outbox[t]
               PROVE  LET a == inbox'[Host[t]][k]
                          n == outbox[t][l]
                      IN /\ a # n
                         /\ posted[n].via = posted[a].via
                            /\ Host[posted[a].via] # Host[t] => n < a
    BY <1>1 DEF InboxIsNew
  <2>1. outbox[t][l] \in Nat
    BY <1>1 DEF TypeInv, KnownIds, MsgIds
  <2>2. CASE k \in DOMAIN inbox[Host[t]] /\ inbox'[Host[t]][k] = inbox[Host[t]][k]
    BY <1>1, <2>2 DEF DeliveryInv, InboxIsNew
  <2>3. CASE inbox'[Host[t]][k] = m
    BY <1>2, <1>6, <2>1, <2>3
  <2> QED
    BY <1>4, <2>2, <2>3
<1>10. RightRecipient' /\ AtMostOnce' /\ CrossInstanceOrder'
  BY <1>1 DEF DeliveryInv, RightRecipient, AtMostOnce, CrossInstanceOrder
<1> QED
  BY <1>7, <1>8, <1>9, <1>10 DEF DeliveryInv

LEMMA DeliverySubscriber ==
  ASSUME Inv, NEW i \in Instances, Subscriber(i)
  PROVE  DeliveryInv'
<1> DEFINE m == Head(inbox[i])
           tx == Entry(i, posted[m].to)
<1>1. TypeInv /\ TypeOK /\ DeliveryInv /\ posted' = posted /\ cur' = cur
  BY DEF Inv, TypeInv, Subscriber
<1>2. m \in MsgIds /\ m = inbox[i][1] /\ 1 \in DOMAIN inbox[i]
  BY <1>1, SubscriberFacts
<1>3. \/ tx = NoSocket /\ outbox' = outbox
      \/ tx \in Sockets /\ outbox' = [outbox EXCEPT ![tx] = Append(@, m)]
  BY <1>1, SubscriberFacts
<1>4. \A k \in DOMAIN inbox'[i] : /\ k \in Nat \ {0}
                                  /\ k + 1 \in DOMAIN inbox[i]
                                  /\ inbox'[i][k] = inbox[i][k + 1]
  BY <1>1, SubscriberFacts
<1>5. \A j \in Instances \ {i} : inbox'[j] = inbox[j]
  BY <1>1, SubscriberFacts
<1>6. tx # NoSocket => Host[tx] = i /\ posted[m].to \in Presents[tx]
  <2>1. posted[m].to \in Users
    BY <1>1, SubscriberFacts
  <2> HIDE DEF m
  <2> QED
    BY <2>1 DEF Inv, LiveInv, DeadEntryIsStray
<1>7. m \in Nat
  BY <1>2 DEF MsgIds
<1> HIDE DEF m, tx
<1> DEFINE Old(t, k) == k \in DOMAIN outbox[t] /\ outbox'[t][k] = outbox[t][k]
           New(t, k) == /\ t = tx /\ Host[t] = i /\ posted[m].to \in Presents[t]
                        /\ outbox'[t][k] = m /\ k = Len(outbox[t]) + 1
                        /\ k \notin DOMAIN outbox[t]
<1>8. ASSUME NEW t \in Sockets, NEW k \in DOMAIN outbox'[t]
      PROVE  Old(t, k) \/ New(t, k)
  <2>1. CASE outbox' = outbox
    BY <2>1
  <2>2. CASE tx \in Sockets /\ outbox' = [outbox EXCEPT ![tx] = Append(@, m)]
    <3>1. tx # NoSocket
      BY <2>2
    <3> QED
      BY <1>1, <1>6, <1>7, <2>2, <3>1, OutboxGrows
  <2> QED
    BY <1>3, <2>1, <2>2
<1>9. \A j \in Instances : \A k \in DOMAIN inbox'[j] :
         \E l \in DOMAIN inbox[j] : inbox'[j][k] = inbox[j][l]
  BY <1>4, <1>5
<1>10. ASSUME NEW t \in Sockets, NEW k \in DOMAIN outbox[t], Host[t] = i
       PROVE  /\ outbox[t][k] # m
              /\ posted[outbox[t][k]].via = posted[m].via
                 /\ Host[posted[m].via] # i => outbox[t][k] < m
  BY <1>1, <1>2, <1>10 DEF DeliveryInv, InboxIsNew
<1>11. CurIsNewest'
  <2> SUFFICES ASSUME NEW r \in Sockets, cur[r] # 0
               PROVE  /\ \A j \in Instances : \A k \in DOMAIN inbox'[j] :
                            posted[inbox'[j][k]].via = r => inbox'[j][k] < cur[r]
                      /\ \A t \in Sockets : \A k \in DOMAIN outbox'[t] :
                            posted[outbox'[t][k]].via = r => outbox'[t][k] < cur[r]
    BY <1>1 DEF CurIsNewest
  <2>1. /\ \A j \in Instances : \A k \in DOMAIN inbox[j] :
              posted[inbox[j][k]].via = r => inbox[j][k] < cur[r]
        /\ \A t \in Sockets : \A k \in DOMAIN outbox[t] :
              posted[outbox[t][k]].via = r => outbox[t][k] < cur[r]
    BY <1>1 DEF DeliveryInv, CurIsNewest
  <2>2. posted[m].via = r => m < cur[r]
    BY <1>2, <2>1
  <2> QED
    BY <1>8, <1>9, <2>1, <2>2
<1>12. InboxInOrder'
  <2> SUFFICES ASSUME NEW j \in Instances, NEW k \in DOMAIN inbox'[j],
                      NEW l \in DOMAIN inbox'[j], k < l,
                      posted[inbox'[j][k]].via = posted[inbox'[j][l]].via
               PROVE  inbox'[j][k] < inbox'[j][l]
    BY <1>1 DEF InboxInOrder
  <2>1. CASE j = i
    <3>1. k + 1 < l + 1
      BY <1>4, <2>1
    <3> QED
      BY <1>1, <1>4, <2>1, <3>1 DEF DeliveryInv, InboxInOrder
  <2>2. CASE j # i
    BY <1>1, <1>5, <2>2 DEF DeliveryInv, InboxInOrder
  <2> QED
    BY <2>1, <2>2
<1>13. InboxIsNew'
  <2> SUFFICES ASSUME NEW t \in Sockets, NEW k \in DOMAIN inbox'[Host[t]],
                      NEW l \in DOMAIN outbox'[t]
               PROVE  LET a == inbox'[Host[t]][k]
                          n == outbox'[t][l]
                      IN /\ a # n
                         /\ posted[n].via = posted[a].via
                            /\ Host[posted[a].via] # Host[t] => n < a
    BY <1>1 DEF InboxIsNew
  <2>0. Host[t] \in Instances
    OBVIOUS
  <2>1. CASE Old(t, l)
    BY <1>1, <1>9, <2>0, <2>1 DEF DeliveryInv, InboxIsNew
  <2>2. CASE New(t, l)
    <3> DEFINE a == inbox'[i][k]
    <3>1. k + 1 \in DOMAIN inbox[i] /\ a = inbox[i][k + 1] /\ 1 < k + 1
      BY <1>4, <2>2
    <3>2. posted[m].via = posted[a].via => m < a
      BY <1>1, <1>2, <3>1 DEF DeliveryInv, InboxInOrder
    <3>3. m # a
      BY <1>7, <3>2
    <3> QED
      BY <2>2, <3>2, <3>3
  <2> QED
    BY <1>8, <2>1, <2>2
<1>14. RightRecipient'
  BY <1>1, <1>8 DEF DeliveryInv, RightRecipient
<1>15. AtMostOnce'
  <2> SUFFICES ASSUME NEW t \in Sockets, NEW w \in Sockets, Host[t] = Host[w],
                      NEW k \in DOMAIN outbox'[t], NEW l \in DOMAIN outbox'[w],
                      outbox'[t][k] = outbox'[w][l]
               PROVE  t = w /\ k = l
    BY DEF AtMostOnce
  <2>1. CASE Old(t, k) /\ Old(w, l)
    <3>1. /\ k \in DOMAIN outbox[t] /\ l \in DOMAIN outbox[w]
          /\ outbox[t][k] = outbox[w][l]
      BY <2>1
    <3> HIDE DEF Old
    <3> QED
      BY <1>1, <3>1 DEF DeliveryInv, AtMostOnce
  <2>2. CASE New(t, k) /\ New(w, l)
    BY <2>2
  <2>3. CASE Old(t, k) /\ New(w, l)
    BY <1>10, <2>3
  <2>4. CASE New(t, k) /\ Old(w, l)
    BY <1>10, <2>4
  <2> QED
    BY <1>8, <2>1, <2>2, <2>3, <2>4
<1>16. CrossInstanceOrder'
  <2> SUFFICES ASSUME NEW t \in Sockets, NEW k \in DOMAIN outbox'[t],
                      NEW l \in DOMAIN outbox'[t], k < l,
                      posted[outbox'[t][k]].via = posted[outbox'[t][l]].via,
                      Host[posted[outbox'[t][k]].via] # Host[t]
               PROVE  outbox'[t][k] < outbox'[t][l]
    BY <1>1 DEF CrossInstanceOrder
  <2>1. outbox[t] \in Seq(Nat)
    BY <1>1 DEF TypeOK
  <2>2. CASE Old(t, k) /\ Old(t, l)
    BY <1>1, <2>2 DEF DeliveryInv, CrossInstanceOrder
  <2>3. CASE Old(t, k) /\ New(t, l)
    BY <1>10, <2>3
  <2>4. CASE New(t, k)
    <3>1. l \in DOMAIN outbox[t] => l \in Nat /\ l < Len(outbox[t]) + 1
      BY <2>1
    <3>2. Len(outbox[t]) \in Nat
      BY <2>1
    <3>3. l = k \/ (l \in Nat /\ l < k)
      BY <1>8, <2>4, <3>1
    <3> QED
      BY <2>4, <3>2, <3>3
  <2> QED
    BY <1>8, <2>2, <2>3, <2>4
<1> QED
  BY <1>11, <1>12, <1>13, <1>14, <1>15, <1>16 DEF DeliveryInv

LEMMA DeliveryStep == Inv /\ [Next]_vars => DeliveryInv'
<1> SUFFICES ASSUME Inv, [Next]_vars PROVE DeliveryInv'
  OBVIOUS
<1>1. TypeInv /\ DeliveryInv /\ cur \in [Sockets -> Nat]
      /\ inbox \in [Instances -> Seq(Nat)]
  BY DEF Inv, TypeInv, TypeOK
<1>2. ASSUME UNCHANGED routeVars PROVE DeliveryInv'
  BY <1>1, <1>2, DeliveryShrink DEF routeVars
<1>3. ASSUME NEW s \in Sockets, Session(s) PROVE DeliveryInv'
  <2>1. ASSUME \/ Open(s) \/ Auth(s) \/ LeaveLoop(s) \/ CheckFails(s)
               \/ Register(s) \/ \E u \in Users : CheckPasses(s, u)
        PROVE  UNCHANGED routeVars
    BY <2>1 DEF Open, Auth, LeaveLoop, CheckFails, CheckPasses, Register,
                Deregister
  <2>2. CASE PublishFails(s)
    BY <1>1, <2>2, DeliveryShrink DEF PublishFails
  <2>3. CASE Publish(s)
    BY <2>3, DeliveryPublish
  <2>4. CASE \E u \in Users : SendLocal(s, u) \/ SendRemote(s, u)
    BY <2>4, DeliverySendLocal, DeliverySendRemote
  <2> QED
    BY <1>2, <1>3, <2>1, <2>2, <2>3, <2>4 DEF Session
<1>4. ASSUME NEW i \in Instances, SubscriptionEnds(i) PROVE DeliveryInv'
  BY <1>1, <1>4, DeliveryShrink DEF SubscriptionEnds
<1>5. ASSUME NEW i \in Instances, Crash(i) PROVE DeliveryInv'
  BY <1>1, <1>5, DeliveryShrink DEF Crash
<1>6. CASE UNCHANGED vars
  BY <1>2, <1>6 DEF vars, routeVars
<1> QED
  BY <1>3, <1>4, <1>5, <1>6, DeliverySubscriber DEF Next

(* The inductive invariant holds in every reachable state. *)
THEOREM Invariance == Spec => []Inv
<1>1. Init => Inv
  BY TypeInit, LiveInit, DeliveryInit DEF Inv
<1>2. Inv /\ [Next]_vars => Inv'
  BY TypeStep, LiveStep, DeliveryStep DEF Inv, TypeInv
<1> QED
  BY <1>1, <1>2, PTL DEF Spec

(* On every stage of its way, a message is behind the older ones of its      *)
(* sender (hub.rs:70-113).                                                   *)
THEOREM RoutesAreOrdered == Spec => []RouteInv
<1>1. Inv => RouteInv
  BY DEF Inv, TypeInv, DeliveryInv, RouteInv
<1> QED
  BY <1>1, Invariance, PTL

(* However it is routed, a message enters the outboxes of one instance at    *)
(* most once.                                                                *)
THEOREM DeliveredAtMostOnce == Spec => []AtMostOnce
  BY Invariance, PTL DEF Inv, DeliveryInv

(* A message enters outboxes of clients with a token of its recipient only.  *)
THEOREM DeliveredToRecipient == Spec => []RightRecipient
  BY Invariance, PTL DEF Inv, DeliveryInv

(* Messages of one session to a session of another instance keep their order.*)
THEOREM DeliveredInOrder == Spec => []CrossInstanceOrder
  BY Invariance, PTL DEF Inv, DeliveryInv

-----------------------------------------------------------------------------
(* Refinement: each send posts a message, and delivers it at once if the     *)
(* recipient is in the local map; a step of a subscriber delivers, or loses, *)
(* a message; every other step leaves the mail alone.                        *)

LEMMA MailInits == Init => Mail!MailInit
  BY DEF Init, Mail!MailInit

LEMMA MailSteps == Inv /\ [Next]_vars => [Mail!MailNext]_(Mail!mailVars)
<1> SUFFICES ASSUME Inv, [Next]_vars
             PROVE  Mail!MailNext \/ UNCHANGED Mail!mailVars
  OBVIOUS
<1>1. TypeInv /\ TypeOK /\ DeliveryInv
  BY DEF Inv, TypeInv
<1>2. ASSUME NEW s \in Sockets, NEW u \in Users, SendLocal(s, u)
      PROVE  Mail!MailNext
  <2>1. Entry(Host[s], u) \in Sockets /\ Entry(Host[s], u) # NoSocket
    BY <1>1, <1>2 DEF TypeOK, SendLocal, Entry
  <2>2. /\ Host[Entry(Host[s], u)] = Host[s]
        /\ u \in Presents[Entry(Host[s], u)]
    BY <2>1 DEF Inv, LiveInv, DeadEntryIsStray
  <2>3. Mail!PostLocal(s, Entry(Host[s], u), u)
    BY <1>2, <2>2 DEF SendLocal, Note, NewMsg, Mail!PostLocal
  <2> QED
    BY <2>1, <2>3 DEF Mail!MailNext
<1>3. ASSUME NEW s \in Sockets, NEW u \in Users, SendRemote(s, u)
      PROVE  Mail!MailNext
  BY <1>3 DEF SendRemote, Note, Mail!MailNext, Mail!Post
<1>4. ASSUME NEW i \in Instances, Subscriber(i)
      PROVE  Mail!MailNext \/ UNCHANGED Mail!mailVars
  <2> DEFINE m == Head(inbox[i])
             tx == Entry(i, posted[m].to)
  <2>1. /\ m \in MsgIds /\ m = inbox[i][1] /\ 1 \in DOMAIN inbox[i]
        /\ posted' = posted
        /\ \/ tx = NoSocket /\ outbox' = outbox
           \/ tx \in Sockets /\ outbox' = [outbox EXCEPT ![tx] = Append(@, m)]
    BY <1>1, <1>4, SubscriberFacts
  <2>2. posted[m].to \in Users
    <3>1. posted[m] \in [to : Users, via : Sockets]
      BY <1>1, <1>4, SubscriberFacts
    <3> QED
      BY <3>1
  <2>3. m \in DOMAIN posted
    <3>1. posted \in Seq([to : Users, via : Sockets]) /\ m \in MsgIds
      BY <1>1, <2>1 DEF TypeOK
    <3> HIDE DEF m
    <3> QED
      BY <3>1 DEF MsgIds
  <2> HIDE DEF m
  <2>4. CASE outbox' = outbox
    BY <2>1, <2>4 DEF Mail!mailVars
  <2>5. CASE tx \in Sockets /\ outbox' = [outbox EXCEPT ![tx] = Append(@, m)]
    <3>1. Host[tx] = i /\ posted[m].to \in Presents[tx]
      BY <2>2, <2>5 DEF Inv, LiveInv, DeadEntryIsStray
    <3> HIDE DEF tx
    <3>2. \A t \in Sockets : Host[t] = Host[tx] => ~Mail!Holds(t, m)
      BY <1>1, <2>1, <3>1 DEF DeliveryInv, InboxIsNew, Mail!Holds
    <3>3. Host[posted[m].via] # Host[tx] =>
             \A k \in DOMAIN outbox[tx] :
                posted[outbox[tx][k]].via = posted[m].via => outbox[tx][k] < m
      BY <1>1, <2>1, <2>5, <3>1 DEF DeliveryInv, InboxIsNew
    <3>4. Mail!Deliver(tx, m)
      BY <2>1, <2>3, <2>5, <3>1, <3>2, <3>3 DEF Mail!Deliver
    <3> QED
      BY <2>3, <2>5, <3>4 DEF Mail!MailNext
  <2> QED
    BY <2>1, <2>4, <2>5
<1>5. ASSUME NEW s \in Sockets, Session(s)
      PROVE  Mail!MailNext \/ UNCHANGED Mail!mailVars
  <2>1. ASSUME \/ Open(s) \/ Auth(s) \/ LeaveLoop(s) \/ CheckFails(s)
               \/ Register(s) \/ \E u \in Users : CheckPasses(s, u)
               \/ Publish(s) \/ PublishFails(s)
        PROVE  UNCHANGED Mail!mailVars
    BY <2>1 DEF Open, Auth, LeaveLoop, CheckFails, CheckPasses, Register,
                Deregister, Publish, PublishFails, routeVars, Mail!mailVars
  <2> QED
    BY <1>2, <1>3, <1>5, <2>1 DEF Session
<1>6. ASSUME NEW i \in Instances, SubscriptionEnds(i) \/ Crash(i)
      PROVE  UNCHANGED Mail!mailVars
  BY <1>6 DEF SubscriptionEnds, Crash, Mail!mailVars
<1>7. CASE UNCHANGED vars
  BY <1>7 DEF vars, routeVars, Mail!mailVars
<1> QED
  BY <1>4, <1>5, <1>6, <1>7 DEF Next

(* The hub implements MailDelivery: whatever sessions, instances and failures*)
(* do, the mail they leave behind is one MailDelivery allows.                *)
THEOREM HubDeliversMail == Spec => MailDelivered
<1>1. Spec => Mail!MailInit /\ [][Mail!MailNext]_(Mail!mailVars)
  BY Invariance, MailInits, MailSteps, PTL DEF Spec
<1> QED
  BY <1>1 DEF MailDelivered, Mail!MailSpec
=============================================================================
