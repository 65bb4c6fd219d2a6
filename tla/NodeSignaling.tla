--------------------------- MODULE NodeSignaling ----------------------------
(* Sessions and direct calls of the Node server: server/src/signaling/       *)
(* signalingServer.js, one process with one event loop. A handler runs to    *)
(* its next await without interruption; the only await of these handlers is  *)
(* the one of auth, for the token and the user. Everything the server knows  *)
(* is in memory: onlineClients, activeCalls and the fields of each socket.   *)
(*                                                                           *)
(* Left out: answer and ice, which forward and keep nothing, replies to the  *)
(* sender, rooms, and that two calls of one pair within a millisecond would  *)
(* share their id.                                                           *)
EXTENDS Naturals, Functions

CONSTANTS Users,
          NoUser,
          Sockets,   \* connections, past and future
          Presents,  \* [Sockets -> SUBSET Users]: whose tokens a client has
          NoSocket,  \* "no entry" in onlineClients
          MaxCalls   \* bound on the calls placed in one behaviour

ASSUME NoUserAssumption   == NoUser \notin Users
ASSUME PresentsAssumption == Presents \in [Sockets -> SUBSET Users]
ASSUME NoSocketAssumption == NoSocket \notin Sockets
ASSUME MaxCallsAssumption == MaxCalls \in Nat

NoCall == 0

VARIABLES
  ready,      \* readyState, "closed" only once the close handler has run
  validating, \* <<s, u>>: an auth of s with a token of u awaits validateWsToken
  user,       \* ws.userId, NoUser until ws.authenticated
  entry,      \* onlineClients
  calls,      \* activeCalls: per id, the caller and callee, and the sockets by
              \*   and at that they had when the call was placed
  placed,     \* the number of ids given to calls
  current,    \* ws.currentCallId
  robbed,     \* history: sockets whose user's entry another socket deleted
  ghosts,     \* history: <<s, u>>, s was closed when its auth as u went on
  stripped    \* history: calls, until they are deleted, that a socket of
              \*   theirs was made to forget, by a hangup in another call or by
              \*   placing another call

vars == <<ready, validating, user, entry, calls, placed, current, robbed, ghosts,
          stripped>>

sessionVars == <<validating, user, entry, robbed, ghosts>>
callVars    == <<calls, placed, current, stripped>>

States  == {"idle", "open", "closing", "closed"}
Clients == {s \in Sockets : ready[s] \in {"open", "closing"}} \* wss.clients
Authed  == {s \in Sockets : user[s] # NoUser}
Working == Authed \cap Clients
CallIds == 1 .. placed
Active  == DOMAIN calls
Busy(u) == \E c \in Active : u \in {calls[c].from, calls[c].to}

(* ws.terminate of each of a set; the close handler comes later. *)
Terminate(S) ==
  ready' = [s \in Sockets |->
              IF s \in S /\ ready[s] = "open" THEN "closing" ELSE ready[s]]

(* Deletes the entry of every user as whom one of the sockets S last         *)
(* authenticated.                                                            *)
Forget(S) ==
  /\ entry' = [u \in Users |->
                 IF \E s \in S : user[s] = u THEN NoSocket ELSE entry[u]]
  /\ robbed' = robbed \cup
       {t \in Authed : /\ entry[user[t]] = t
                       /\ \E s \in S \ {t} : user[s] = user[t]}

(* activeCalls.delete(c); nothing happens if c is not there. *)
Delete(c) == calls' = Restrict(calls, Active \ {c})

Init == /\ ready = [s \in Sockets |-> "idle"]
        /\ validating = {}
        /\ user = [s \in Sockets |-> NoUser]
        /\ entry = [u \in Users |-> NoSocket]
        /\ calls = <<>> /\ placed = 0
        /\ current = [s \in Sockets |-> NoCall]
        /\ robbed = {} /\ ghosts = {} /\ stripped = {}

-----------------------------------------------------------------------------
(* The life of a socket. *)

Connect(s) == /\ ready[s] = "idle"
              /\ ready' = [ready EXCEPT ![s] = "open"]
              /\ UNCHANGED <<sessionVars, callVars>>

(* The bound: a client sends a token again only after it was answered.       *)
MayPresent(s, u) == s \in Clients /\ u \in Presents[s] /\ <<s, u>> \notin validating

(* Mutant of AuthFrame: the entry is made before the token is known good. *)
AuthFrameEnters(s, u) ==
  /\ MayPresent(s, u)
  /\ validating' = validating \cup {<<s, u>>}
  /\ entry' = [entry EXCEPT ![u] = s]
  /\ UNCHANGED <<ready, user, robbed, ghosts, callVars>>

(* An auth frame with a token of u, whatever the socket sent before. *)
AuthFrame(s, u) == /\ MayPresent(s, u)
                   /\ validating' = validating \cup {<<s, u>>}
                   /\ UNCHANGED <<ready, user, entry, robbed, ghosts, callVars>>

AuthFails(s, u) == /\ <<s, u>> \in validating
                   /\ validating' = validating \ {<<s, u>>}
                   /\ Terminate({s})
                   /\ UNCHANGED <<user, entry, robbed, ghosts, callVars>>

(* Mutant of AuthPasses: the session that is replaced is told, not closed. *)
AuthKeepsOld(s, u) ==
  /\ <<s, u>> \in validating
  /\ validating' = validating \ {<<s, u>>}
  /\ user' = [user EXCEPT ![s] = u]
  /\ entry' = [entry EXCEPT ![u] = s]
  /\ robbed' = robbed \ {s}
  /\ ghosts' = IF ready[s] = "closed" THEN ghosts \cup {<<s, u>>} ELSE ghosts
  /\ UNCHANGED <<ready, callVars>>

(* The user is known, whatever has become of the socket in the meantime, and *)
(* whoever it was before: the entry of that user stays.                      *)
AuthPasses(s, u) ==
  /\ <<s, u>> \in validating
  /\ validating' = validating \ {<<s, u>>}
  /\ user' = [user EXCEPT ![s] = u]
  /\ Terminate({entry[u]} \ {s})
  /\ entry' = [entry EXCEPT ![u] = s]
  /\ robbed' = robbed \ {s}
  /\ ghosts' = IF ready[s] = "closed" THEN ghosts \cup {<<s, u>>} ELSE ghosts
  /\ UNCHANGED callVars

(* The client closes or is lost. *)
Leave(s) == /\ ready[s] = "open"
            /\ Terminate({s})
            /\ UNCHANGED <<sessionVars, callVars>>

(* Mutant of Closed: a socket in a call is left to the heartbeat. *)
ClosedIfIdle(s) ==
  /\ ready[s] = "closing"
  /\ ready' = [ready EXCEPT ![s] = "closed"]
  /\ IF s \in Authed /\ current[s] \notin Active
     THEN Forget({s}) ELSE UNCHANGED <<entry, robbed>>
  /\ UNCHANGED <<validating, user, ghosts, callVars>>

(* The close handler: the entry of its last user goes, whichever socket it   *)
(* names, and so does the call the socket was last in, if it is still on.    *)
Closed(s) ==
  /\ ready[s] = "closing"
  /\ ready' = [ready EXCEPT ![s] = "closed"]
  /\ IF s \in Authed
     THEN Forget({s}) /\ Delete(current[s])
     ELSE UNCHANGED <<entry, robbed, calls>>
  /\ stripped' = stripped \cap Active'
  /\ UNCHANGED <<validating, user, ghosts, placed, current>>

(* Every 30 seconds: who has not answered the last ping - any of the clients *)
(* may not have - goes, and with it the entry of its user.                   *)
Sweep == \E dead \in SUBSET Clients :
           /\ Forget(dead \cap Authed)
           /\ Terminate(dead)
           /\ UNCHANGED <<validating, user, ghosts, callVars>>

-----------------------------------------------------------------------------
(* Calls. A frame that has arrived is handled until the socket has closed. *)

(* Only the callee must be free: the caller may be in a call. *)
Call(s, u) ==
  LET t == entry[u]
      c == placed + 1
  IN
  /\ s \in Working /\ u # user[s] /\ t # NoSocket /\ ~Busy(u)
  /\ placed < MaxCalls
  /\ placed' = c
  /\ calls' = [d \in Active \cup {c} |->
                 IF d = c THEN [from |-> user[s], to |-> u, by |-> s, at |-> t]
                 ELSE calls[d]]
  /\ current' = [current EXCEPT ![s] = c, ![t] = c]
  /\ stripped' = stripped \cup (Active \cap {current[s], current[t]})
  /\ UNCHANGED <<ready, sessionVars>>

(* The call that ends is the one the socket is in, not the one declined. *)
Decline(s) == /\ s \in Working
              /\ Delete(current[s])
              /\ current' = [current EXCEPT ![s] = NoCall]
              /\ stripped' = stripped \cap Active'
              /\ UNCHANGED <<ready, sessionVars, placed>>

(* Mutant of Hangup: the call is left to the peer to delete. *)
HangupForgets(s, u) ==
  LET t == entry[u] IN
  /\ s \in Working
  /\ current' = [d \in Sockets |-> IF d \in {s, t} THEN NoCall ELSE current[d]]
  /\ stripped' = IF t = NoSocket THEN stripped
                 ELSE stripped \cup ((Active \cap {current[t]}) \ {current[s]})
  /\ UNCHANGED <<ready, sessionVars, calls, placed>>

(* The socket of whoever the frame names forgets its call first. *)
Hangup(s, u) ==
  LET t     == entry[u]
      mine  == IF t = s THEN NoCall ELSE current[s]
      yours == IF t = NoSocket THEN NoCall ELSE current[t]
  IN
  /\ s \in Working
  /\ Delete(mine)
  /\ current' = [d \in Sockets |-> IF d \in {s, t} THEN NoCall ELSE current[d]]
  /\ stripped' = (stripped \cup {yours}) \cap Active'
  /\ UNCHANGED <<ready, sessionVars, placed>>

-----------------------------------------------------------------------------

Auth(s, u) == AuthFrame(s, u) \/ AuthFails(s, u) \/ AuthPasses(s, u)
Session(s) == Connect(s) \/ Leave(s) \/ Closed(s) \/ Decline(s)

Next == \/ \E s \in Sockets : Session(s)
        \/ \E s \in Sockets, u \in Users : Auth(s, u) \/ Call(s, u) \/ Hangup(s, u)
        \/ Sweep

Spec == Init /\ [][Next]_vars

-----------------------------------------------------------------------------
(* Properties. *)

(* The type invariant: a socket authenticates after it connects, an entry    *)
(* names a socket that has authenticated, and only such a socket is in a     *)
(* call.                                                                     *)
TypeOK ==
  /\ ready \in [Sockets -> States]
  /\ user \in [Sockets -> Users \cup {NoUser}]
  /\ Authed \subseteq {s \in Sockets : ready[s] # "idle"}
  /\ validating \subseteq {s \in Sockets : ready[s] # "idle"} \X Users
  /\ entry \in [Users -> Sockets \cup {NoSocket}]
  /\ \A u \in Users : entry[u] # NoSocket => entry[u] \in Authed
  /\ placed \in Nat
  /\ calls \in [Active -> [from : Users, to : Users, by : Authed, at : Authed]]
  /\ Active \subseteq CallIds
  /\ current \in [Sockets -> CallIds \cup {NoCall}]
  /\ \A s \in Sockets : current[s] # NoCall => s \in Authed
  /\ robbed \subseteq Sockets /\ ghosts \subseteq Sockets \X Users
  /\ stripped \subseteq Active

(* An entry s for u that the exit of s does not, or did not, take along: the *)
(* close handler ran before s had the token of u validated                   *)
(* (signalingServer.js:54), or s has authenticated as another user since,    *)
(* and the close handler only knows the last one (signalingServer.js:304).   *)
Stray(s, u) == <<s, u>> \in ghosts \/ user[s] # u

(* A user is busy only while in a call that can still end: a call that is on *)
(* is known to the sockets of both its users, and neither has been closed,   *)
(* save a callee's that was called through an entry left behind - unless one *)
(* of them was made to forget it, by a hangup of somebody in another call or *)
(* by placing a second call. Nobody removes such a call from activeCalls     *)
(* once the other one forgets it too.                                        *)
CallIsHeld ==
  \A c \in Active \ stripped :
     LET call == calls[c] IN
     /\ current[call.by] = c /\ current[call.at] = c
     /\ ready[call.by] # "closed"
     /\ ready[call.at] = "closed" => Stray(call.at, call.to)

(* An authenticated session that is open is the one that calls for its user  *)
(* go to, unless the close handler or the heartbeat of another session of    *)
(* the same user has deleted its entry (signalingServer.js:304, 330). So no  *)
(* user has two such sessions, whatever order they are replaced in and       *)
(* whoever they were before.                                                 *)
UnreachableIsRobbed ==
  \A s \in Authed : ready[s] = "open" =>
     entry[user[s]] = s \/ s \in robbed

(* Nobody is called on a closed socket, save through an entry left behind: a *)
(* socket that closed while a token was being validated replaces, and closes,*)
(* even a session that is open, and stays; one that authenticated again as   *)
(* another user leaves the entry of the first one.                           *)
GhostsAreStray ==
  \A u \in Users : entry[u] # NoSocket /\ ready[entry[u]] = "closed" =>
     Stray(entry[u], u)
=============================================================================
