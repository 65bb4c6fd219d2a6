----------------------------- MODULE CallClient -----------------------------
(* Direct calls as the Flutter app handles them: WebRTCService (the audio    *)
(* service, webrtc_service.dart) at each end, with the buttons of its        *)
(* screens, and VideoCallService (video_call_service.dart), which listens to *)
(* the same signaling stream of every app and which no screen of the app     *)
(* starts, accepts or ends a call with. Dart runs one callback at a time; a  *)
(* function that awaits lets others run before it continues.                 *)
(*                                                                           *)
(* The server forwards in order (MailDelivery) and may answer a call with    *)
(* user-offline, user-busy or an error the app does not listen to            *)
(* (CallSignaling). Left out: room calls, candidates, which keep no state of *)
(* the app, mute and speaker, the loss of the signaling connection, and of   *)
(* the screens the back button and links that open the app.                  *)
EXTENDS Naturals, Sequences

CONSTANTS Users, NoUser,
          Forms,     \* the forms in which descriptions may arrive
          MaxCalls,  \* bound on the calls placed
          MaxMail    \* a user hangs up only while less is on its way

ASSUME NoUserAssumption   == NoUser \notin Users
(* "map": as they were sent, from the Node server; "string": encrypted, from *)
(* the Rust server (server.rs:191-198), which no service of the app decodes  *)
ASSUME FormsAssumption    == Forms \subseteq {"map", "string"}
ASSUME MaxCallsAssumption == MaxCalls \in Nat
ASSUME MaxMailAssumption  == MaxMail \in Nat

Calls  == 1 .. MaxCalls
NoCall == 0

VARIABLES form,     \* the form of the server that the users share
          from, to, \* the parties of a call, NoUser before it is placed
          state,    \* _callState of the audio service; "idle" is every state
                    \* that isIdle
          video,    \* _callState of the video service, in the same way
          peer,     \* _currentCall.peer, which outlives the call
          offer,    \* the call of _pendingOffer
          pend,     \* the call of _pendingCallerId
          cur,      \* the call _peerConnection was created for
          link,     \* the peer connections a user's app created, by call
          place,    \* where callUser is, by call
          take,     \* where acceptCall is, by call
          applying, \* answers whose setRemoteDescription is awaited
          ring,     \* the call _ringTimer was set for
          timers,   \* the calls whose ring timer runs
          page,     \* which screen a user sees
          mail,     \* what the server has for a user's app
          cut,      \* history: calls that a user's app ended while callUser
                    \* or acceptCall was still waiting
          late,     \* history: users at whom an answer took effect when
                    \* they were not calling
          answers,  \* history: <<a, c>>, accepting a answered c
          alone,    \* history: users whose app has ended a call by itself
                    \* since a message ended one
          failed    \* history: users at whom an answer could not be set
                    \* since callUser last set the ring timer

vars == <<form, from, to, state, video, peer, offer, pend, cur, link, place,
          take, applying, ring, timers, page, mail, cut, late, answers, alone,
          failed>>

callVars == <<form, from, to, peer>>
offVars  == <<offer, pend>>
ringVars == <<ring, timers>>
history  == <<late, answers, alone, failed>>

(* "opening": awaits createPeerConnection; "preparing": awaits the tracks    *)
(* and, in callUser, createOffer; "remote": awaits setRemoteDescription;     *)
(* "local": awaits createAnswer and setLocalDescription                      *)
Waiting == {"opening", "preparing", "remote", "local"}
PCs     == Waiting \cup {"none", "done"}

(* "offer": has a local offer; "paired": has both descriptions *)
Links   == {"none", "new", "offer", "paired", "closed"}
Live    == {"new", "offer", "paired"}

States  == {"idle", "calling", "ringing", "connecting", "connected"}
OnCall  == {"calling", "connecting", "connected"}
Pages   == {"home", "incoming", "call"}
Endings == {"declined", "busy", "hangup", "unavailable"}

Messages == ({"incoming"} \X Calls)
              \cup ((Endings \cup {"answered"}) \X {NoCall})

Placing(u) == {c \in Calls : from[c] = u /\ place[c] \in Waiting}
Taking(u)  == {c \in Calls : to[c] = u /\ take[c] \in Waiting}

Init == /\ form \in Forms
        /\ from = [c \in Calls |-> NoUser]
        /\ to = [c \in Calls |-> NoUser]
        /\ state = [u \in Users |-> "idle"]
        /\ video = [u \in Users |-> "idle"]
        /\ peer = [u \in Users |-> NoUser]
        /\ offer = [u \in Users |-> NoCall]
        /\ pend = [u \in Users |-> NoCall]
        /\ cur = [u \in Users |-> NoCall]
        /\ link = [u \in Users |-> [c \in Calls |-> "none"]]
        /\ place = [c \in Calls |-> "none"]
        /\ take = [c \in Calls |-> "none"]
        /\ applying = [u \in Users |-> 0]
        /\ ring = [u \in Users |-> NoCall]
        /\ timers = [u \in Users |-> {}]
        /\ page = [u \in Users |-> "home"]
        /\ mail = [u \in Users |-> << >>]
        /\ cut = [u \in Users |-> {}]
        /\ late = {}
        /\ answers = {}
        /\ alone = {}
        /\ failed = {}

Become(u, s)  == state' = [state EXCEPT ![u] = s]
Send(v, k, c) == mail' = [mail EXCEPT ![v] = Append(@, <<k, c>>)]
Show(u, p)    == page' = [page EXCEPT ![u] = p]

(* The call page goes home when a call has ended; the incoming page stays.   *)
LeaveCall(u) == Show(u, IF page[u] = "call" THEN "home" ELSE page[u])

(* Mutant of EndCall: _pendingOffer is kept. *)
EndCallKeepsOffer(u, c) ==
  /\ Become(u, "idle")
  /\ link' = [link EXCEPT ![u] = [d \in Calls |->
                 IF d = cur[u] THEN "closed" ELSE @[d]]]
  /\ cur' = [cur EXCEPT ![u] = NoCall]
  /\ timers' = [timers EXCEPT ![u] = @ \ {ring[u], c}]
  /\ pend' = [pend EXCEPT ![u] = NoCall]
  /\ cut' = [cut EXCEPT ![u] = @ \cup ((Placing(u) \cup Taking(u)) \ {c})]
  /\ UNCHANGED <<callVars, offer, applying, ring, late, answers,
                 failed>>

(* _endCall and the state set after it. It closes the current connection     *)
(* only, cancels the timer last set only, and stops none of the functions    *)
(* that wait. Call c is the one whose own function or timer ends here.       *)
EndCall(u, c) ==
  /\ Become(u, "idle")
  /\ link' = [link EXCEPT ![u] = [d \in Calls |->
                 IF d = cur[u] THEN "closed" ELSE @[d]]]
  /\ cur' = [cur EXCEPT ![u] = NoCall]
  /\ timers' = [timers EXCEPT ![u] = @ \ {ring[u], c}]
  /\ offer' = [offer EXCEPT ![u] = NoCall]
  /\ pend' = [pend EXCEPT ![u] = NoCall]
  /\ cut' = [cut EXCEPT ![u] = @ \cup ((Placing(u) \cup Taking(u)) \ {c})]
  /\ UNCHANGED <<callVars, applying, ring, late, answers,
                 failed>>

ByItself(u) == alone' = alone \cup {u}

-----------------------------------------------------------------------------
(* Placing a call. *)

(* Mutant of CallUser: without the check of isIdle. *)
CallUserAnytime(u, v, c) ==
  /\ u # v /\ page[u] = "home"
  /\ from[c] = NoUser /\ \A d \in 1 .. c - 1 : from[d] # NoUser
  /\ from' = [from EXCEPT ![c] = u]
  /\ to' = [to EXCEPT ![c] = v]
  /\ peer' = [peer EXCEPT ![u] = v]
  /\ Become(u, "calling")
  /\ place' = [place EXCEPT ![c] = "opening"]
  /\ \E p \in {"home", "call"} : Show(u, p)
  /\ UNCHANGED <<form, video, offVars, cur, link, take, applying, ringVars,
                 mail, cut, history>>

(* A call is placed on the home page, which shows the call page then, or on  *)
(* the contacts page, which does not.                                        *)
CallUser(u, v, c) ==
  /\ u # v /\ page[u] = "home" /\ state[u] = "idle"
  /\ from[c] = NoUser /\ \A d \in 1 .. c - 1 : from[d] # NoUser
  /\ from' = [from EXCEPT ![c] = u]
  /\ to' = [to EXCEPT ![c] = v]
  /\ peer' = [peer EXCEPT ![u] = v]
  /\ Become(u, "calling")
  /\ place' = [place EXCEPT ![c] = "opening"]
  /\ \E p \in {"home", "call"} : Show(u, p)
  /\ UNCHANGED <<form, video, offVars, cur, link, take, applying, ringVars,
                 mail, cut, history>>

CallOpened(c) ==
  LET u == from[c] IN
  /\ place[c] = "opening"
  /\ cur' = [cur EXCEPT ![u] = c]
  /\ link' = [link EXCEPT ![u][c] = "new"]
  /\ place' = [place EXCEPT ![c] = "preparing"]
  /\ UNCHANGED <<callVars, state, video, offVars, take, applying, ringVars,
                 page, mail, cut, history>>

(* The offer is made by whatever _peerConnection is by now. *)
CallPrepared(c) ==
  LET u == from[c] IN
  /\ place[c] = "preparing" /\ cur[u] # NoCall
  /\ link' = [link EXCEPT ![u][cur[u]] = "offer"]
  /\ place' = [place EXCEPT ![c] = "local"]
  /\ UNCHANGED <<callVars, state, video, offVars, cur, take, applying,
                 ringVars, page, mail, cut, history>>

(* Mutant of SendCall: the ring timer is not set. *)
SendCallUntimed(c) ==
  LET u == from[c] IN
  /\ place[c] = "local"
  /\ \/ Send(to[c], "incoming", c)
     \/ Send(u, "unavailable", NoCall)
     \/ UNCHANGED mail
  /\ failed' = failed \ {u}
  /\ place' = [place EXCEPT ![c] = "done"]
  /\ UNCHANGED <<callVars, state, video, offVars, cur, link, take, applying,
                 ringVars, page, cut, late, answers, alone>>

(* The frame is sent and the timer set without a look at the state. A timer  *)
(* that _ringTimer was set to before is not cancelled. The server rings the  *)
(* callee, reports it unavailable, or answers with an error, unheard.        *)
SendCall(c) ==
  LET u == from[c] IN
  /\ place[c] = "local"
  /\ \/ Send(to[c], "incoming", c)
     \/ Send(u, "unavailable", NoCall)
     \/ UNCHANGED mail
  /\ ring' = [ring EXCEPT ![u] = c]
  /\ timers' = [timers EXCEPT ![u] = @ \cup {c}]
  /\ failed' = failed \ {u}
  /\ place' = [place EXCEPT ![c] = "done"]
  /\ UNCHANGED <<callVars, state, video, offVars, cur, link, take, applying,
                 page, cut, late, answers, alone>>

(* An awaited operation fails, or finds _peerConnection null. *)
CallFails(c) == /\ place[c] \in Waiting
                /\ EndCall(from[c], c) /\ ByItself(from[c])
                /\ LeaveCall(from[c])
                /\ place' = [place EXCEPT ![c] = "done"]
                /\ UNCHANGED <<video, take, mail>>

RingTimeout(c) ==
  LET u == from[c] IN
  /\ u # NoUser /\ c \in timers[u]
  /\ IF state[u] = "calling"
     THEN /\ EndCall(u, c) /\ ByItself(u) /\ LeaveCall(u)
          /\ Send(to[c], "hangup", NoCall)
          /\ UNCHANGED <<video, place, take>>
     ELSE /\ timers' = [timers EXCEPT ![u] = @ \ {c}]
          /\ UNCHANGED <<callVars, state, video, offVars, cur, link, place,
                         take, applying, ring, page, mail, cut, history>>

-----------------------------------------------------------------------------
(* Taking a call: the buttons of the incoming page. *)

Accept(u) ==
  /\ page[u] = "incoming"
  /\ state[u] = "ringing" /\ offer[u] # NoCall
  /\ Become(u, "connecting")
  /\ take' = [take EXCEPT ![pend[u]] = "opening"]
  /\ UNCHANGED <<callVars, video, offVars, cur, link, place, applying,
                 ringVars, page, mail, cut, history>>

(* acceptCall returns at once when there is no call to accept, or no offer.  *)
(* The call page shows then, and leaves if a call has ended.                 *)
AcceptNothing(u) ==
  /\ page[u] = "incoming"
  /\ state[u] # "ringing" \/ offer[u] = NoCall
  /\ \/ Show(u, "call")
     \/ state[u] = "idle" /\ Show(u, "home")
  /\ UNCHANGED <<callVars, state, video, offVars, cur, link, place, take,
                 applying, ringVars, mail, cut, history>>

AcceptOpened(c) ==
  LET u == to[c] IN
  /\ take[c] = "opening"
  /\ cur' = [cur EXCEPT ![u] = c]
  /\ link' = [link EXCEPT ![u][c] = "new"]
  /\ take' = [take EXCEPT ![c] = "preparing"]
  /\ UNCHANGED <<callVars, state, video, offVars, place, applying, ringVars,
                 page, mail, cut, history>>

(* The offer is whatever _pendingOffer is by now. *)
AcceptPrepared(c) ==
  LET u == to[c] IN
  /\ take[c] = "preparing" /\ cur[u] # NoCall /\ offer[u] # NoCall
  /\ take' = [take EXCEPT ![c] = "remote"]
  /\ UNCHANGED <<callVars, state, video, offVars, cur, link, place, applying,
                 ringVars, page, mail, cut, history>>

AcceptDescribed(c) ==
  LET u == to[c] IN
  /\ take[c] = "remote" /\ cur[u] # NoCall /\ offer[u] # NoCall
  /\ link' = [link EXCEPT ![u][cur[u]] = "paired"]
  /\ take' = [take EXCEPT ![c] = "local"]
  /\ UNCHANGED <<callVars, state, video, offVars, cur, place, applying,
                 ringVars, page, mail, cut, history>>

(* The call page shows when acceptCall returns, unless the incoming page it  *)
(* was called on is gone, which another may have replaced after a cut.       *)
Return(u, c) ==
  \/ page[u] = "incoming" /\ Show(u, "call")
  \/ (page[u] # "incoming" \/ c \in cut[u]) /\ UNCHANGED page

(* The answer goes to whoever _pendingCallerId is by now. *)
SendAnswer(c) ==
  LET u == to[c] IN
  /\ take[c] = "local" /\ pend[u] # NoCall
  /\ Send(from[pend[u]], "answered", NoCall)
  /\ answers' = answers \cup {<<c, pend[u]>>}
  /\ offer' = [offer EXCEPT ![u] = NoCall]
  /\ take' = [take EXCEPT ![c] = "done"]
  /\ Return(u, c)
  /\ UNCHANGED <<callVars, state, video, pend, cur, link, place, applying,
                 ringVars, cut, late, alone, failed>>

DeclineCall(u, c) ==
  /\ EndCall(u, c) /\ ByItself(u)
  /\ IF pend[u] = NoCall THEN UNCHANGED mail
     ELSE Send(from[pend[u]], "declined", NoCall)
  /\ UNCHANGED <<video, place>>

(* Whatever has become of the call since the page came up. *)
Decline(u) == /\ page[u] = "incoming"
              /\ DeclineCall(u, NoCall) /\ Show(u, "home")
              /\ UNCHANGED take

(* Mutant of AcceptFails: nothing catches the error. *)
AcceptFailsQuietly(c) ==
  /\ take[c] \in Waiting
  /\ take' = [take EXCEPT ![c] = "done"]
  /\ Return(to[c], c)
  /\ UNCHANGED <<callVars, state, video, offVars, cur, link, place, applying,
                 ringVars, mail, cut, history>>

AcceptFails(c) == /\ take[c] \in Waiting
                  /\ DeclineCall(to[c], c) /\ Return(to[c], c)
                  /\ take' = [take EXCEPT ![c] = "done"]

-----------------------------------------------------------------------------
(* Signaling: both services of an app handle each message, audio first. *)

(* Mutant of Incoming: without the check of isIdle in the audio service. *)
IncomingAnytime(u, c) ==
  /\ mail' = [mail EXCEPT ![u] = Tail(@)]
  /\ video' = [video EXCEPT ![u] =
                 IF @ = "idle" /\ form = "map" THEN "ringing" ELSE @]
  /\ Become(u, "ringing")
  /\ peer' = [peer EXCEPT ![u] = from[c]]
  /\ Show(u, IF page[u] = "home" THEN "incoming" ELSE page[u])
  /\ offer' = [offer EXCEPT ![u] = c]
  /\ pend' = [pend EXCEPT ![u] = c]
  /\ UNCHANGED <<form, from, to, cur, link, place, take, applying, ringVars,
                 cut, history>>

(* A service that is not idle declines. The audio service declines for       *)
(* whatever keeps it busy, and the video service although the audio service  *)
(* takes the call. The cast of a string fails, in the audio service after    *)
(* its state is set, in the video service before. A call that rings brings   *)
(* up the incoming page, but for a call page that is still there.            *)
Incoming(u, c) ==
  LET busy(service) ==
        IF service[u] = "idle" THEN << >> ELSE << <<"busy", NoCall>> >>
  IN
  /\ mail' = [mail EXCEPT ![u] = Tail(@),
                          ![from[c]] = @ \o busy(state) \o busy(video)]
  /\ video' = [video EXCEPT ![u] =
                 IF @ = "idle" /\ form = "map" THEN "ringing" ELSE @]
  /\ IF state[u] = "idle"
     THEN /\ Become(u, "ringing")
          /\ peer' = [peer EXCEPT ![u] = from[c]]
          /\ Show(u, IF page[u] = "home" THEN "incoming" ELSE page[u])
          /\ IF form = "map"
             THEN /\ offer' = [offer EXCEPT ![u] = c]
                  /\ pend' = [pend EXCEPT ![u] = c]
             ELSE UNCHANGED offVars
     ELSE UNCHANGED <<state, peer, page, offVars>>
  /\ UNCHANGED <<form, from, to, cur, link, place, take, applying, ringVars,
                 cut, history>>

(* The answer takes effect: no connection to set it on, or one that took it. *)
Effect(u) == /\ Become(u, "connecting")
             /\ late' = IF state[u] = "calling" THEN late ELSE late \cup {u}

(* An answer is set on whatever _peerConnection is, after the ring timer is  *)
(* cancelled. The cast fails on a string, and setting it fails without a     *)
(* local offer and may fail with one; nothing catches either.                *)
Answered(u) ==
  /\ mail' = [mail EXCEPT ![u] = Tail(@)]
  /\ timers' = [timers EXCEPT ![u] = @ \ {ring[u]}]
  /\ video' = IF form = "map" THEN [video EXCEPT ![u] = "connecting"] ELSE video
  /\ \/ /\ form = "map" /\ cur[u] = NoCall
        /\ Effect(u)
        /\ UNCHANGED <<link, applying, failed>>
     \/ /\ form = "map" /\ cur[u] # NoCall /\ link[u][cur[u]] = "offer"
        /\ link' = [link EXCEPT ![u][cur[u]] = "paired"]
        /\ applying' = [applying EXCEPT ![u] = @ + 1]
        /\ UNCHANGED <<state, late, failed>>
     \/ /\ form = "string" \/ cur[u] # NoCall
        /\ failed' = failed \cup {u}
        /\ UNCHANGED <<state, late, link, applying>>
  /\ UNCHANGED <<callVars, offVars, cur, place, take, ring, page, cut, answers,
                 alone>>

Applied(u) == /\ applying[u] > 0
              /\ Effect(u)
              /\ applying' = [applying EXCEPT ![u] = @ - 1]
              /\ UNCHANGED <<callVars, video, offVars, cur, link, place, take,
                             ringVars, page, mail, cut, answers, alone, failed>>

(* Mutant of Ended: the video service does not listen to it. *)
EndedForAudio(u) == /\ EndCall(u, NoCall) /\ LeaveCall(u)
                    /\ alone' = alone \ {u}
                    /\ mail' = [mail EXCEPT ![u] = Tail(@)]
                    /\ UNCHANGED <<video, place, take>>

(* call-declined, user-offline, user-busy and hangup end whatever call is on *)
Ended(u) == /\ EndCall(u, NoCall) /\ LeaveCall(u)
            /\ alone' = alone \ {u}
            /\ mail' = [mail EXCEPT ![u] = Tail(@)]
            /\ video' = [video EXCEPT ![u] = "idle"]
            /\ UNCHANGED <<place, take>>

Receive(u) ==
  /\ mail[u] # << >>
  /\ LET k == Head(mail[u])[1]  c == Head(mail[u])[2] IN
     \/ k = "incoming" /\ Incoming(u, c)
     \/ k = "answered" /\ Answered(u)
     \/ k \in Endings  /\ Ended(u)

-----------------------------------------------------------------------------
(* The button of the call page, and the events of the connections. *)

(* The page may outlive the call it was for, and the next one may ring on it. *)
HangUp(u) == /\ page[u] = "call"
             /\ Len(mail[peer[u]]) < MaxMail
             /\ EndCall(u, NoCall) /\ ByItself(u) /\ Show(u, "home")
             /\ Send(peer[u], "hangup", NoCall)
             /\ UNCHANGED <<video, place, take>>

(* Any connection of the app may connect or fail; the handlers do not look   *)
(* whether it is the current one.                                            *)
IceConnected(u, c) == /\ link[u][c] = "paired"
                      /\ Become(u, "connected") /\ Show(u, "call")
                      /\ UNCHANGED <<callVars, video, offVars, cur, link,
                                     place, take, applying, ringVars, mail,
                                     cut, history>>

IceFailed(u, c) == /\ link[u][c] = "paired"
                   /\ EndCall(u, NoCall) /\ ByItself(u) /\ LeaveCall(u)
                   /\ UNCHANGED <<video, place, take, mail>>

-----------------------------------------------------------------------------

Continue(c) == \/ CallOpened(c) \/ CallPrepared(c) \/ SendCall(c)
               \/ CallFails(c)
Proceed(c)  == \/ AcceptOpened(c) \/ AcceptPrepared(c) \/ AcceptDescribed(c)
               \/ SendAnswer(c) \/ AcceptFails(c)

Next == \/ \E u \in Users : \/ \E v \in Users, c \in Calls : CallUser(u, v, c)
                            \/ Accept(u) \/ AcceptNothing(u) \/ Decline(u)
                            \/ HangUp(u) \/ Receive(u) \/ Applied(u)
                            \/ \E c \in Calls : \/ IceConnected(u, c)
                                                \/ IceFailed(u, c)
        \/ \E c \in Calls : Continue(c) \/ Proceed(c) \/ RingTimeout(c)

Spec == Init /\ [][Next]_vars

-----------------------------------------------------------------------------
(* Properties. *)

(* The type invariant: the stored offer is the one of the stored caller, and *)
(* _peerConnection is never a closed connection.                             *)
TypeOK == /\ form \in {"map", "string"}
          /\ from \in [Calls -> Users \cup {NoUser}]
          /\ to \in [Calls -> Users \cup {NoUser}]
          /\ state \in [Users -> States]
          /\ video \in [Users -> {"idle", "ringing", "connecting"}]
          /\ peer \in [Users -> Users \cup {NoUser}]
          /\ offer \in [Users -> Calls \cup {NoCall}]
          /\ pend \in [Users -> Calls \cup {NoCall}]
          /\ cur \in [Users -> Calls \cup {NoCall}]
          /\ link \in [Users -> [Calls -> Links]]
          /\ place \in [Calls -> PCs]
          /\ take \in [Calls -> PCs]
          /\ applying \in [Users -> Nat]
          /\ ring \in [Users -> Calls \cup {NoCall}]
          /\ timers \in [Users -> SUBSET Calls]
          /\ page \in [Users -> Pages]
          /\ mail \in [Users -> Seq(Messages)]
          /\ cut \in [Users -> SUBSET Calls]
          /\ late \subseteq Users
          /\ answers \subseteq Calls \X Calls
          /\ alone \subseteq Users
          /\ failed \subseteq Users
          /\ \A u \in Users : /\ offer[u] \in {NoCall, pend[u]}
                              /\ cur[u] # NoCall => link[u][cur[u]] \in Live

(* A call is answered because its user accepted it - or accepted an earlier  *)
(* one that ended while acceptCall was waiting, which then answers the offer *)
(* that has come since (webrtc_service.dart:131-147).                        *)
AnsweredIsAccepted ==
  \A a, c \in Calls : <<a, c>> \in answers =>
     a = c \/ a \in cut[to[a]]

(* No connection, with the microphone on it, outlives its call: what is open *)
(* is the current connection of a service that is not idle - unless a call   *)
(* was ended while it was being set up, because the function goes on.        *)
LeaksAreCut ==
  \A u \in Users : \A c \in Calls :
     link[u][c] \in Live /\ (c # cur[u] \/ state[u] = "idle") => cut[u] # {}

(* A service that says it is on a call has a connection or is about to have  *)
(* one - unless an answer took effect after the call was over, or a          *)
(* connection that should be closed connected.                               *)
StuckIsLate ==
  \A u \in Users :
     state[u] \in OnCall /\ cur[u] = NoCall =>
        \/ \E c \in Placing(u) : place[c] = "opening"
        \/ \E c \in Taking(u) : take[c] = "opening"
        \/ u \in late \/ cut[u] # {}

(* The video service, which declines the next call while it is not idle, is  *)
(* left so by the audio service only if the app itself ended a call since a  *)
(* message last ended one: only messages reach both services - or if an      *)
(* answer came while a function of an ended call was waiting.                *)
BusyVideoIsLeft ==
  \A u \in Users : state[u] = "idle" /\ video[u] # "idle" =>
     u \in alone \/ cut[u] # {}

(* What can leave a user calling for ever: while a user is calling, callUser *)
(* is still waiting, an answer is being applied, or a ring timer runs,       *)
(* although timers of other calls are overwritten and cancelled in between,  *)
(* and whatever the server makes of the call - or an acceptCall of an        *)
(* earlier call is waiting, which finds no offer and ends the call - or an   *)
(* answer has come that could not be set: its handler cancels the timer      *)
(* first, and the call has nothing left that ends it                         *)
(* (webrtc_service.dart:168-175).                                            *)
CallingIsTimed ==
  \A u \in Users : state[u] = "calling" =>
     \/ Placing(u) \cup Taking(u) # {} \/ applying[u] > 0 \/ timers[u] # {}
     \/ u \in failed
=============================================================================
