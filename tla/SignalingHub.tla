---------------------------- MODULE SignalingHub ----------------------------
(* The Rust signaling hub: server-rust/src/signaling/hub.rs, and the part of *)
(* handle_socket (server.rs:32-153) that drives it. Several server processes *)
(* ("instances") each keep a map from user to the sender half of one         *)
(* session's outbox; a message for a user who is not in the local map is     *)
(* published to one Redis channel that every instance subscribes to.         *)
(*                                                                           *)
(* Each session has one task, which awaits between the steps below, so steps *)
(* of different sessions interleave at exactly these points.                 *)
EXTENDS Naturals, Sequences

CONSTANTS Users,
          Instances,  \* server processes behind the load balancer
          Sockets,    \* WebSocket sessions, past and future
          NoUser,
          Presents,   \* [Sockets -> SUBSET Users]: whose tokens a client has
          Host,       \* [Sockets -> Instances]: where the balancer put it
          NoSocket,   \* "no entry" in the connection map
          Faulty,     \* instances that may crash or lose their subscription
          MaxMsgs     \* bound on the messages sent in one behaviour

ASSUME NoUserAssumption   == NoUser \notin Users
ASSUME PresentsAssumption == Presents \in [Sockets -> SUBSET Users]
ASSUME HostAssumption     == Host \in [Sockets -> Instances]
ASSUME NoSocketAssumption == NoSocket \notin Sockets
ASSUME MaxMsgsAssumption  == MaxMsgs \in Nat

VARIABLES pc,         \* where each session's task is
          user,       \* user_id of handle_socket, NoUser for None
          told,       \* sessions sent "session-replaced" as the entry of their
                      \*   user, until they register again or leave
          conns,      \* connections: per instance, user -> session
          inbox,      \* published messages an instance has not handled yet
          subscribed, \* the instance's Redis subscription still yields messages
          cur,        \* the message a task is publishing, 0 if none
          outbox,     \* messages sent into each session's channel, in order;
                      \*   the hub does not learn if anybody reads them
          posted,     \* every message sent: [to, via]; its position is its id
          crossed,    \* history: sessions whose last registration met another of
                      \*   the same user on their instance
          robbed      \* history: sessions whose entry another one removed

entryVars   == <<user, told, conns, crossed, robbed>>
sessionVars == <<pc, entryVars>>
routeVars   == <<inbox, subscribed, cur, outbox, posted>>
vars        == <<sessionVars, routeVars>>

(* "idle": not connected yet; "reading": in the read loop, waiting for a     *)
(* frame; "checking": awaits user_is_active; "replacing": inside register,   *)
(* between the lookup of the old entry and the insert; "publishing": awaits  *)
(* the PUBLISH of send_to; "gone": left the read loop and cleaned up         *)
PCs == {"idle", "reading", "checking", "replacing", "publishing", "gone"}

Entry(i, u) == conns[i][u]
Goto(s, l)  == pc' = [pc EXCEPT ![s] = l]

Authed        == {s \in Sockets : user[s] # NoUser}
Rivals(s, u)  == {t \in Sockets \ {s} : Host[t] = Host[s] /\ user[t] = u}

Init == /\ pc = [s \in Sockets |-> "idle"]
        /\ user = [s \in Sockets |-> NoUser]
        /\ told = {}
        /\ conns = [i \in Instances |-> [u \in Users |-> NoSocket]]
        /\ inbox = [i \in Instances |-> <<>>]
        /\ subscribed = [i \in Instances |-> TRUE]
        /\ cur = [s \in Sockets |-> 0]
        /\ outbox = [s \in Sockets |-> <<>>]
        /\ posted = <<>>
        /\ crossed = {} /\ robbed = {}

-----------------------------------------------------------------------------
(* The life of a session. *)

Open(s) == /\ pc[s] = "idle"
           /\ Goto(s, "reading")
           /\ UNCHANGED <<entryVars, routeVars>>

(* An "auth" frame with a valid token, of which user is left open until the  *)
(* check passes; a session may send one again, and of another user.          *)
Auth(s) == /\ pc[s] = "reading" /\ Presents[s] # {}
           /\ Goto(s, "checking")
           /\ UNCHANGED <<entryVars, routeVars>>

(* What follows the read loop: the entry of the last user is removed,        *)
(* whichever session it names.                                               *)
Deregister(s) ==
  /\ IF s \in Authed
     THEN /\ conns' = [conns EXCEPT ![Host[s]][user[s]] = NoSocket]
          /\ robbed' = (robbed \cup (Rivals(s, user[s])
                                      \cap {Entry(Host[s], user[s])})) \ {s}
     ELSE UNCHANGED <<conns, robbed>>
  /\ told' = told \ {s}
  /\ crossed' = crossed \ {s}
  /\ Goto(s, "gone")
  /\ UNCHANGED <<user, routeVars>>

(* An "auth" frame with a missing or invalid token, a close frame, or a lost *)
(* connection ends the read loop.                                            *)
LeaveLoop(s) == pc[s] = "reading" /\ Deregister(s)

(* Mutant of CheckFails: the handler returns, skipping the cleanup. *)
CheckFailsReturns(s) == /\ pc[s] = "checking"
                        /\ Goto(s, "gone")
                        /\ UNCHANGED <<entryVars, routeVars>>

(* user_is_active is false, or the database fails: auth-error and break. *)
CheckFails(s) == pc[s] = "checking" /\ Deregister(s)

(* Mutant of CheckPasses: the session in the old entry is not told. *)
CheckPassesQuietly(s, u) ==
  LET meets == {t \in Rivals(s, u) : pc[t] = "replacing"} IN
  /\ pc[s] = "checking" /\ u \in Presents[s]
  /\ user' = [user EXCEPT ![s] = u]
  /\ crossed' = (crossed \ {s}) \cup meets \cup (IF meets = {} THEN {} ELSE {s})
  /\ Goto(s, "replacing")
  /\ UNCHANGED <<told, conns, robbed, routeVars>>

(* user_id is set, whatever it was, and register looks for an entry of that  *)
(* user to replace. An entry of the user the session was before stays.       *)
CheckPasses(s, u) ==
  LET old   == Entry(Host[s], u)
      meets == {t \in Rivals(s, u) : pc[t] = "replacing"} IN
  /\ pc[s] = "checking" /\ u \in Presents[s]
  /\ user' = [user EXCEPT ![s] = u]
  /\ told' = told \cup ((Rivals(s, u) \cup {s}) \cap {old})
  /\ crossed' = (crossed \ {s}) \cup meets \cup (IF meets = {} THEN {} ELSE {s})
  /\ Goto(s, "replacing")
  /\ UNCHANGED <<conns, robbed, routeVars>>

Register(s) ==
  /\ pc[s] = "replacing"
  /\ conns' = [conns EXCEPT ![Host[s]][user[s]] = s]
  /\ told' = told \ {s}
  /\ robbed' = robbed \ {s}
  /\ Goto(s, "reading")
  /\ UNCHANGED <<user, crossed, routeVars>>

-----------------------------------------------------------------------------
(* send_to, as a handler of session s calls it for user u. *)

NewMsg == Len(posted) + 1
Note(s, u) == /\ Len(posted) < MaxMsgs
              /\ posted' = Append(posted, [to |-> u, via |-> s])

(* Mutant of SendLocal: falls through to the publish after local delivery. *)
SendBoth(s, u) ==
  LET tx == Entry(Host[s], u) IN
  /\ pc[s] = "reading" /\ s \in Authed /\ tx # NoSocket
  /\ Note(s, u)
  /\ outbox' = [outbox EXCEPT ![tx] = Append(@, NewMsg)]
  /\ cur' = [cur EXCEPT ![s] = NewMsg]
  /\ Goto(s, "publishing")
  /\ UNCHANGED <<entryVars, inbox, subscribed>>

SendLocal(s, u) ==
  LET tx == Entry(Host[s], u) IN
  /\ pc[s] = "reading" /\ s \in Authed
  /\ tx # NoSocket
  /\ Note(s, u)
  /\ outbox' = [outbox EXCEPT ![tx] = Append(@, NewMsg)]
  /\ UNCHANGED <<sessionVars, inbox, subscribed, cur>>

SendRemote(s, u) ==
  /\ pc[s] = "reading" /\ s \in Authed
  /\ Entry(Host[s], u) = NoSocket
  /\ Note(s, u)
  /\ cur' = [cur EXCEPT ![s] = NewMsg]
  /\ Goto(s, "publishing")
  /\ UNCHANGED <<entryVars, inbox, subscribed, outbox>>

Publish(s) ==
  /\ pc[s] = "publishing"
  /\ inbox' = [i \in Instances |-> IF subscribed[i] THEN Append(inbox[i], cur[s])
                                                   ELSE inbox[i]]
  /\ cur' = [cur EXCEPT ![s] = 0]
  /\ Goto(s, "reading")
  /\ UNCHANGED <<entryVars, subscribed, outbox, posted>>

(* Mutant of PublishFails: the message is not forgotten. *)
PublishFailsKeepsCur(s) ==
  /\ pc[s] = "publishing"
  /\ Goto(s, "reading")
  /\ UNCHANGED <<entryVars, routeVars>>

(* AppError::Redis: the task replies with an error and reads on. *)
PublishFails(s) ==
  /\ pc[s] = "publishing"
  /\ cur' = [cur EXCEPT ![s] = 0]
  /\ Goto(s, "reading")
  /\ UNCHANGED <<entryVars, inbox, subscribed, outbox, posted>>

(* Mutants of Subscriber: it starts a task per message, so that a later one  *)
(* may be handled first,                                                     *)
SubscriberSpawns(i) ==
  \E k \in DOMAIN inbox[i] :
     LET m  == inbox[i][k]
         tx == Entry(i, posted[m].to)
     IN /\ outbox' = IF tx = NoSocket THEN outbox
                     ELSE [outbox EXCEPT ![tx] = Append(@, m)]
        /\ inbox' = [inbox EXCEPT ![i] =
                       SubSeq(@, 1, k - 1) \o SubSeq(@, k + 1, Len(@))]
        /\ UNCHANGED <<sessionVars, subscribed, cur, posted>>

(* or keeps the message for a second delivery, *)
SubscriberRedelivers(i) ==
  /\ inbox[i] # <<>>
  /\ LET m  == Head(inbox[i])
         tx == Entry(i, posted[m].to)
     IN outbox' = IF tx = NoSocket THEN outbox
                  ELSE [outbox EXCEPT ![tx] = Append(@, m)]
  /\ inbox' \in {inbox, [inbox EXCEPT ![i] = Tail(@)]}
  /\ UNCHANGED <<sessionVars, subscribed, cur, posted>>

(* or drops what is for a session that was sent session-replaced. *)
SubscriberSkipsTold(i) ==
  /\ inbox[i] # <<>>
  /\ LET m  == Head(inbox[i])
         tx == Entry(i, posted[m].to)
     IN outbox' = IF tx = NoSocket THEN outbox
                  ELSE IF tx \in told THEN outbox
                  ELSE [outbox EXCEPT ![tx] = Append(@, m)]
  /\ inbox' = [inbox EXCEPT ![i] = Tail(@)]
  /\ UNCHANGED <<sessionVars, subscribed, cur, posted>>

(* The subscriber task takes the next message of the channel. *)
Subscriber(i) ==
  /\ inbox[i] # <<>>
  /\ LET m  == Head(inbox[i])
         tx == Entry(i, posted[m].to)
     IN outbox' = IF tx = NoSocket THEN outbox
                  ELSE [outbox EXCEPT ![tx] = Append(@, m)]
  /\ inbox' = [inbox EXCEPT ![i] = Tail(@)]
  /\ UNCHANGED <<sessionVars, subscribed, cur, posted>>

(* The Redis connection of the subscription ends. The loop keeps polling the *)
(* finished stream and never subscribes again.                               *)
SubscriptionEnds(i) ==
  /\ i \in Faulty /\ subscribed[i]
  /\ subscribed' = [subscribed EXCEPT ![i] = FALSE]
  /\ inbox' = [inbox EXCEPT ![i] = <<>>]
  /\ UNCHANGED <<sessionVars, cur, outbox, posted>>

(* A server process dies and is started again with an empty map. *)
Crash(i) ==
  LET local == {s \in Sockets : Host[s] = i} IN
  /\ i \in Faulty
  /\ pc' = [s \in Sockets |-> IF s \in local /\ pc[s] # "idle" THEN "gone"
                                                               ELSE pc[s]]
  /\ conns' = [conns EXCEPT ![i] = [u \in Users |-> NoSocket]]
  /\ cur' = [s \in Sockets |-> IF s \in local THEN 0 ELSE cur[s]]
  /\ inbox' = [inbox EXCEPT ![i] = <<>>]
  /\ subscribed' = [subscribed EXCEPT ![i] = TRUE]
  /\ told' = told \ local /\ crossed' = crossed \ local /\ robbed' = robbed \ local
  /\ UNCHANGED <<user, outbox, posted>>

Session(s) == \/ Open(s) \/ Auth(s) \/ LeaveLoop(s)
              \/ CheckFails(s) \/ Register(s)
              \/ Publish(s) \/ PublishFails(s)
              \/ \E u \in Users : \/ CheckPasses(s, u)
                                  \/ SendLocal(s, u) \/ SendRemote(s, u)

Next == \/ \E s \in Sockets : Session(s)
        \/ \E i \in Instances : \/ Subscriber(i)
                                \/ SubscriptionEnds(i)
                                \/ Crash(i)

(* The runtime polls every task that can run: a task past an await goes on,  *)
(* and the subscriber handles what it received. Nothing makes a client       *)
(* connect or send, and nothing makes a failure happen.                      *)
Fairness ==
  /\ \A s \in Sockets : WF_vars(\/ CheckFails(s)
                                \/ \E u \in Users : CheckPasses(s, u)
                                \/ Register(s)
                                \/ Publish(s) \/ PublishFails(s))
  /\ \A i \in Instances : WF_vars(Subscriber(i))

Spec == Init /\ [][Next]_vars
FairSpec == Spec /\ Fairness

-----------------------------------------------------------------------------
(* Properties. *)

MsgIds == 1..Len(posted)

(* The type invariant: a task that registers knows its user, one that has not*)
(* connected has none, and a task names the message it publishes exactly     *)
(* while it publishes.                                                       *)
TypeOK == /\ pc \in [Sockets -> PCs]
          /\ user \in [Sockets -> Users \cup {NoUser}]
          /\ \A s \in Sockets : /\ pc[s] = "replacing" => s \in Authed
                                /\ pc[s] = "idle" => s \notin Authed
          /\ told \subseteq Sockets
          /\ conns \in [Instances -> [Users -> Sockets \cup {NoSocket}]]
          /\ inbox \in [Instances -> Seq(Nat)]
          /\ subscribed \in [Instances -> BOOLEAN]
          /\ cur \in [Sockets -> Nat]
          /\ \A s \in Sockets : pc[s] = "publishing" <=> cur[s] # 0
          /\ outbox \in [Sockets -> Seq(Nat)]
          /\ posted \in Seq([to : Users, via : Sockets])

(* An entry of the connection map leads to a session of that instance whose  *)
(* client has shown a token of the user (hub.rs:27, "local connections       *)
(* only"). It outlives the session only if the session authenticated as      *)
(* somebody else since: deregister runs on every way out of the loop, but    *)
(* only for the last user (server.rs:144). What is sent to the first one on  *)
(* that instance goes nowhere from then on.                                  *)
DeadEntryIsStray ==
  \A i \in Instances, u \in Users :
     LET s == Entry(i, u) IN
     s # NoSocket => /\ Host[s] = i /\ u \in Presents[s] /\ s \in Authed
                     /\ pc[s] = "gone" => user[s] # u

(* What is left of "local first" (hub.rs:10): a session that reads frames    *)
(* under a user id gets what is sent to that user on its instance. If not,   *)
(* it was told that it is replaced, or its registration met that of another  *)
(* session of the user (hub.rs:51-55), or one that left took its entry along *)
(* (hub.rs:61) - the two ways to be unreachable without knowing it. That it  *)
(* was another user before, or another session was, is no third way.         *)
UnreachableIsExplained ==
  \A s \in Authed :
     pc[s] \in {"reading", "checking", "publishing"}
       => \/ Entry(Host[s], user[s]) = s
          \/ s \in told \/ s \in crossed \/ s \in robbed

(* However a message is routed (hub.rs:71-89, "local first, Redis fallback"),*)
(* one instance puts it into at most one outbox, at most once, even when a   *)
(* session is replaced or registers while the message is being published.    *)
AtMostOnce ==
  \A s, t \in Sockets : Host[s] = Host[t] =>
     \A k \in DOMAIN outbox[s], l \in DOMAIN outbox[t] :
        outbox[s][k] = outbox[t][l] => s = t /\ k = l

(* A message only ever enters an outbox of a client that has a token of its  *)
(* recipient.                                                                *)
RightRecipient ==
  \A s \in Sockets : \A k \in DOMAIN outbox[s] :
     posted[outbox[s][k]].to \in Presents[s]

(* Two messages that one session sends to a session of another instance keep *)
(* their order (an ICE candidate does not overtake the offer it belongs to): *)
(* the handler awaits each PUBLISH, and every subscriber works in order.     *)
CrossInstanceOrder ==
  \A s \in Sockets : \A k, l \in DOMAIN outbox[s] :
     LET m == outbox[s][k]
         n == outbox[s][l]
     IN (k < l /\ posted[m].via = posted[n].via /\ Host[posted[m].via] # Host[s])
          => m < n

(* Why the above holds, stage by stage of a message's way: ids are known;    *)
(* what a task is publishing is newer than anything of its own on the way or *)
(* delivered; each inbox keeps every sender's order; and an inbox holds      *)
(* nothing its instance has delivered, nor anything older of a remote sender.*)
KnownIds ==
  /\ \A i \in Instances : \A k \in DOMAIN inbox[i] : inbox[i][k] \in MsgIds
  /\ \A s \in Sockets : \A k \in DOMAIN outbox[s] : outbox[s][k] \in MsgIds
  /\ \A s \in Sockets : cur[s] # 0 => /\ cur[s] \in MsgIds
                                     /\ posted[cur[s]].via = s

CurIsNewest ==
  \A r \in Sockets : cur[r] # 0 =>
     /\ \A i \in Instances : \A k \in DOMAIN inbox[i] :
           posted[inbox[i][k]].via = r => inbox[i][k] < cur[r]
     /\ \A s \in Sockets : \A k \in DOMAIN outbox[s] :
           posted[outbox[s][k]].via = r => outbox[s][k] < cur[r]

InboxInOrder ==
  \A i \in Instances : \A k, l \in DOMAIN inbox[i] :
     k < l /\ posted[inbox[i][k]].via = posted[inbox[i][l]].via
        => inbox[i][k] < inbox[i][l]

InboxIsNew ==
  \A s \in Sockets : \A k \in DOMAIN inbox[Host[s]], l \in DOMAIN outbox[s] :
     LET m == inbox[Host[s]][k]
         n == outbox[s][l]
     IN /\ m # n
        /\ posted[n].via = posted[m].via /\ Host[posted[m].via] # Host[s] => n < m

RouteInv == KnownIds /\ CurIsNewest /\ InboxInOrder /\ InboxIsNew

(* The hub implements the delivery promise of MailDelivery. *)
Mail == INSTANCE MailDelivery WITH Sockets <- Sockets, Users <- Users,
                                   Presents <- Presents, Host <- Host,
                                   posted <- posted, outbox <- outbox
MailDelivered == Mail!MailSpec

(* A message that an instance received for a user gets to the session that   *)
(* is registered there, unless the entry or the subscription is lost first.  *)
PublishedArrives ==
  \A s \in Sockets, u \in Users : \A m \in 1..MaxMsgs :
     LET i == Host[s]
         pending == /\ \E k \in DOMAIN inbox[i] : inbox[i][k] = m
                    /\ posted[m].to = u /\ Entry(i, u) = s
     IN pending ~> \/ \E k \in DOMAIN outbox[s] : outbox[s][k] = m
                   \/ Entry(i, u) # s
                   \/ ~subscribed[i]

-----------------------------------------------------------------------------
(* What the comments say and the code does not do. *)

(* hub.rs:10, "if B is on same server: direct send, skip Redis": a user with *)
(* an authenticated session reading on an instance has an entry there.       *)
ConnectedIsRegistered ==
  \A s \in Authed : pc[s] = "reading" => Entry(Host[s], user[s]) # NoSocket
=============================================================================
