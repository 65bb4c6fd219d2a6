-------------------------- MODULE CallClientProofs --------------------------
(* Proofs about CallClient: for any users and any number of calls. *)
EXTENDS CallClient, TLAPS

(* The parties of a call are two users from when it is placed on; no         *)
(* function runs for it before, and its offer goes to its callee only.       *)
PartyInv ==
  /\ \A c \in Calls :
        \/ /\ from[c] = NoUser /\ to[c] = NoUser
           /\ place[c] = "none" /\ take[c] = "none"
        \/ from[c] \in Users /\ to[c] \in Users /\ from[c] # to[c]
  /\ \A u \in Users : pend[u] # NoCall => to[pend[u]] = u
  /\ \A a, c \in Calls : <<a, c>> \in answers => from[a] # NoUser

For(u, s) == \A i \in 1 .. Len(s) : s[i][1] = "incoming" => to[s[i][2]] = u

MailInv == \A u \in Users : For(u, mail[u])

(* A function that waits and was not cut holds the service: there is one at  *)
(* most, and the service is on its call. A timer is set by a function that   *)
(* has ended.                                                                *)
TaskOf(u) ==
  /\ \A c \in Taking(u) \ cut[u] :
        pend[u] = c /\ state[u] \in {"connecting", "connected"}
  /\ \A c \in Placing(u) \ cut[u] : state[u] \in OnCall
  /\ \A c, d \in (Placing(u) \cup Taking(u)) \ cut[u] : c = d
  /\ \A c \in timers[u] : place[c] = "done" /\ from[c] = u

TaskInv == \A u \in Users : TaskOf(u)

(* Nobody is remembered as the caller while there is no incoming call. *)
PendInv == \A u \in Users : state[u] \in {"idle", "calling"} => pend[u] = NoCall

(* LeaksAreCut, also while ringing, and why: a connection that is there when *)
(* an uncut function is about to open its own has been leaked.               *)
Opening(u) == {c \in Placing(u) : place[c] = "opening"}
                \cup {c \in Taking(u) : take[c] = "opening"}

OpenOf(u) ==
  /\ \A c \in Calls :
        link[u][c] \in Live /\ (c # cur[u] \/ state[u] \in {"idle", "ringing"})
           => cut[u] # {}
  /\ Opening(u) # {} /\ cur[u] # NoCall => cut[u] # {}

(* The last three properties, of one user. *)
StuckOf(u) == state[u] \in OnCall /\ cur[u] = NoCall =>
                 Opening(u) # {} \/ u \in late \/ cut[u] # {}

VideoOf(u) == state[u] = "idle" /\ video[u] # "idle" =>
                 u \in alone \/ cut[u] # {}

CallingOf(u) == state[u] = "calling" =>
                   \/ Placing(u) \cup Taking(u) # {} \/ applying[u] > 0
                   \/ timers[u] # {} \/ u \in failed

UserOf(u) == OpenOf(u) /\ StuckOf(u) /\ VideoOf(u) /\ CallingOf(u)

UserInv == \A u \in Users : UserOf(u)

Inv == /\ TypeOK /\ PartyInv /\ MailInv /\ TaskInv /\ PendInv /\ UserInv
       /\ AnsweredIsAccepted

-----------------------------------------------------------------------------
(* Types. *)

LEMMA Parties ==
  ASSUME PartyInv, NEW c \in Calls,
         place[c] \in Waiting \/ take[c] \in Waiting
  PROVE  from[c] \in Users /\ to[c] \in Users /\ from[c] # to[c]
BY DEF PartyInv, Waiting

LEMMA NoCallIsNone == NoCall \notin Calls
BY DEF NoCall, Calls

LEMMA SendType ==
  ASSUME TypeOK, NEW v \in Users, NEW k, NEW c, <<k, c>> \in Messages,
         Send(v, k, c)
  PROVE  mail' \in [Users -> Seq(Messages)]
<1>1. mail[v] \in Seq(Messages)
  BY DEF TypeOK
<1>2. Append(mail[v], <<k, c>>) \in Seq(Messages)
  BY <1>1
<1>3. QED
  BY <1>2 DEF Send, TypeOK

LEMMA TailType ==
  ASSUME TypeOK, NEW u \in Users, mail[u] # << >>
  PROVE  /\ Head(mail[u]) \in Messages
         /\ Tail(mail[u]) \in Seq(Messages)
<1>1. mail[u] \in Seq(Messages)
  BY DEF TypeOK
<1>2. QED
  BY <1>1

(* What EndCall keeps of the types, whoever sends what besides. *)
LEMMA EndType ==
  ASSUME TypeOK, NEW u \in Users, NEW c \in Calls \cup {NoCall}, EndCall(u, c),
         place' \in [Calls -> PCs], take' \in [Calls -> PCs],
         video' \in [Users -> {"idle", "ringing", "connecting"}],
         page' \in [Users -> Pages], mail' \in [Users -> Seq(Messages)],
         alone' \subseteq Users
  PROVE  TypeOK'
<1> USE NoCallIsNone
<1>1. /\ state' \in [Users -> States]
      /\ cur' \in [Users -> Calls \cup {NoCall}]
      /\ offer' \in [Users -> Calls \cup {NoCall}]
      /\ pend' \in [Users -> Calls \cup {NoCall}]
      /\ \A w \in Users : offer'[w] \in {NoCall, pend'[w]}
  BY DEF EndCall, Become, States, TypeOK
<1>2. link' \in [Users -> [Calls -> Links]]
  <2>1. [d \in Calls |-> IF d = cur[u] THEN "closed" ELSE link[u][d]]
           \in [Calls -> Links]
    BY DEF TypeOK, Links
  <2>2. QED
    BY <2>1 DEF EndCall, TypeOK
<1>3. timers' \in [Users -> SUBSET Calls]
  BY DEF EndCall, TypeOK
<1>4. cut' \in [Users -> SUBSET Calls]
  BY DEF EndCall, TypeOK, Placing, Taking
<1>5. ASSUME NEW w \in Users, cur'[w] # NoCall
      PROVE  link'[w][cur'[w]] \in Live
  <2>1. w # u /\ cur'[w] = cur[w] /\ link'[w] = link[w]
    BY <1>5 DEF EndCall, TypeOK
  <2>2. QED
    BY <1>5, <2>1 DEF TypeOK
<1>6. QED
  BY <1>1, <1>2, <1>3, <1>4, <1>5 DEF TypeOK, EndCall, callVars

LEMMA LeaveType ==
  ASSUME TypeOK, NEW u \in Users, LeaveCall(u)
  PROVE  page' \in [Users -> Pages]
BY DEF TypeOK, LeaveCall, Show, Pages

LEMMA ReturnType ==
  ASSUME TypeOK, NEW u \in Users, NEW c, Return(u, c)
  PROVE  page' \in [Users -> Pages]
BY DEF TypeOK, Return, Show, Pages

LEMMA TypeStep == TypeOK /\ PartyInv /\ [Next]_vars => TypeOK'
<1> SUFFICES ASSUME TypeOK, PartyInv, [Next]_vars
             PROVE  TypeOK'
  OBVIOUS
<1> USE NoCallIsNone
<1>a. ASSUME NEW u \in Users, NEW v \in Users, NEW c \in Calls, CallUser(u, v, c)
      PROVE  TypeOK'
  BY <1>a DEF TypeOK, CallUser, Become, Show, callVars, offVars, ringVars,
              history, States, PCs, Waiting, Pages
<1>b. ASSUME NEW c \in Calls, CallOpened(c)
      PROVE  TypeOK'
  <2>1. from[c] \in Users
    BY <1>b, Parties DEF CallOpened, Waiting
  <2>2. QED
    BY <1>b, <2>1 DEF TypeOK, CallOpened, callVars, offVars, ringVars, history,
                      PCs, Waiting, Links, Live
<1>c. ASSUME NEW c \in Calls, CallPrepared(c)
      PROVE  TypeOK'
  <2>1. from[c] \in Users
    BY <1>c, Parties DEF CallPrepared, Waiting
  <2>2. QED
    BY <1>c, <2>1 DEF TypeOK, CallPrepared, callVars, offVars, ringVars,
       history,
                      PCs, Waiting, Links, Live
<1>d. ASSUME NEW c \in Calls, SendCall(c)
      PROVE  TypeOK'
  <2>1. from[c] \in Users /\ to[c] \in Users
    BY <1>d, Parties DEF SendCall, Waiting
  <2>2. mail' \in [Users -> Seq(Messages)]
    <3>1. CASE Send(to[c], "incoming", c)
      BY <2>1, <3>1, SendType DEF Messages
    <3>2. CASE Send(from[c], "unavailable", NoCall)
      BY <2>1, <3>2, SendType DEF Messages, Endings
    <3>3. CASE UNCHANGED mail
      BY <3>3 DEF TypeOK
    <3>4. QED
      BY <1>d, <3>1, <3>2, <3>3 DEF SendCall
  <2>3. QED
    BY <1>d, <2>1, <2>2 DEF TypeOK, SendCall, callVars, offVars, history, PCs,
                            Waiting
<1>e. ASSUME NEW c \in Calls, CallFails(c)
      PROVE  TypeOK'
  <2>1. from[c] \in Users
    BY <1>e, Parties DEF CallFails
  <2>2. QED
    BY <1>e, <2>1, EndType, LeaveType DEF CallFails, ByItself, TypeOK, PCs
<1>f. ASSUME NEW c \in Calls, RingTimeout(c)
      PROVE  TypeOK'
  <2>1. from[c] \in Users /\ to[c] \in Users
    BY <1>f DEF RingTimeout, PartyInv
  <2>2. CASE state[from[c]] = "calling"
    <3>1. mail' \in [Users -> Seq(Messages)]
      BY <1>f, <2>1, <2>2, SendType DEF RingTimeout, Messages, Endings
    <3>2. QED
      BY <1>f, <2>1, <2>2, <3>1, EndType, LeaveType
         DEF RingTimeout, ByItself, TypeOK
  <2>3. CASE state[from[c]] # "calling"
    <3>1. timers' \in [Users -> SUBSET Calls]
      <4>1. timers' = [timers EXCEPT ![from[c]] = timers[from[c]] \ {c}]
        BY <1>f, <2>3 DEF RingTimeout
      <4>2. timers[from[c]] \ {c} \in SUBSET Calls
        BY <2>1 DEF TypeOK
      <4>3. QED
        BY <2>1, <4>1, <4>2 DEF TypeOK
    <3>2. UNCHANGED <<callVars, state, video, offVars, cur, link, place, take,
                      applying, ring, page, mail, cut, history>>
      BY <1>f, <2>1, <2>3 DEF RingTimeout
    <3>3. QED
      BY <3>1, <3>2 DEF TypeOK, callVars, offVars, history
  <2>4. QED
    BY <2>2, <2>3
<1>g. ASSUME NEW u \in Users, Accept(u)
      PROVE  TypeOK'
  BY <1>g DEF TypeOK, Accept, Become, callVars, offVars, ringVars, history,
              States, PCs, Waiting
<1>h. ASSUME NEW c \in Calls, AcceptOpened(c)
      PROVE  TypeOK'
  <2>1. to[c] \in Users
    BY <1>h, Parties DEF AcceptOpened, Waiting
  <2>2. QED
    BY <1>h, <2>1 DEF TypeOK, AcceptOpened, callVars, offVars, ringVars,
       history,
                      PCs, Waiting, Links, Live
<1>i. ASSUME NEW c \in Calls, AcceptPrepared(c)
      PROVE  TypeOK'
  BY <1>i DEF TypeOK, AcceptPrepared, callVars, offVars, ringVars, history,
     PCs,
              Waiting
<1>j. ASSUME NEW c \in Calls, AcceptDescribed(c)
      PROVE  TypeOK'
  <2>1. to[c] \in Users
    BY <1>j, Parties DEF AcceptDescribed, Waiting
  <2>2. QED
    BY <1>j, <2>1 DEF TypeOK, AcceptDescribed, callVars, offVars, ringVars,
                      history, PCs, Waiting, Links, Live
<1>k. ASSUME NEW c \in Calls, SendAnswer(c)
      PROVE  TypeOK'
  <2>1. to[c] \in Users
    BY <1>k, Parties DEF SendAnswer, Waiting
  <2>2. pend[to[c]] \in Calls /\ from[pend[to[c]]] \in Users
    BY <1>k, <2>1, NoUserAssumption DEF SendAnswer, TypeOK, PartyInv
  <2>3. mail' \in [Users -> Seq(Messages)]
    BY <1>k, <2>1, <2>2, SendType DEF SendAnswer, Messages
  <2>4. QED
    <3>1. /\ answers' \subseteq Calls \X Calls
          /\ offer' \in [Users -> Calls \cup {NoCall}]
          /\ take' \in [Calls -> PCs]
      BY <1>k, <2>1, <2>2 DEF TypeOK, SendAnswer, PCs
    <3>2. \A w \in Users : offer'[w] \in {NoCall, pend[w]}
      BY <1>k, <2>1 DEF TypeOK, SendAnswer
    <3>3. QED
      BY <1>k, <2>3, <3>1, <3>2, <2>1, ReturnType
         DEF TypeOK, SendAnswer, callVars, ringVars
<1>l. ASSUME NEW u \in Users, NEW c \in Calls \cup {NoCall}, DeclineCall(u, c),
             take' \in [Calls -> PCs], page' \in [Users -> Pages]
      PROVE  TypeOK'
  <2>1. mail' \in [Users -> Seq(Messages)]
    <3>1. CASE pend[u] = NoCall
      BY <1>l, <3>1 DEF DeclineCall, TypeOK
    <3>2. CASE pend[u] # NoCall
      <4>1. from[pend[u]] \in Users
        BY <3>2, NoUserAssumption DEF TypeOK, PartyInv
      <4>2. QED
        BY <1>l, <3>2, <4>1, SendType DEF DeclineCall, Messages, Endings
    <3>3. QED
      BY <3>1, <3>2
  <2>2. QED
    BY <1>l, <2>1, EndType DEF DeclineCall, ByItself, TypeOK
<1>m. ASSUME NEW u \in Users, Decline(u)
      PROVE  TypeOK'
  BY <1>l, <1>m DEF Decline, Show, Pages, TypeOK
<1>n. ASSUME NEW c \in Calls, AcceptFails(c)
      PROVE  TypeOK'
  <2>1. to[c] \in Users
    BY <1>n, Parties DEF AcceptFails
  <2>2. QED
    BY <1>l, <1>n, <2>1, ReturnType DEF AcceptFails, TypeOK, PCs
<1>o. ASSUME NEW u \in Users, Receive(u)
      PROVE  TypeOK'
  <2> DEFINE c == Head(mail[u])[2]
  <2>1. Head(mail[u]) \in Messages /\ Tail(mail[u]) \in Seq(Messages)
    BY <1>o, TailType DEF Receive
  <2>2. CASE Head(mail[u])[1] = "incoming" /\ Incoming(u, c)
    <3> DEFINE busy(service) ==
                 IF service[u] = "idle" THEN << >> ELSE << <<"busy", NoCall>> >>
               more == busy(state) \o busy(video)
    <3>1. c \in Calls
      BY <2>1, <2>2 DEF Messages, Endings
    <3>2. mail' \in [Users -> Seq(Messages)]
      <4>1. <<"busy", NoCall>> \in Messages
        BY DEF Messages, Endings
      <4>2. busy(state) \in Seq(Messages) /\ busy(video) \in Seq(Messages)
        BY <4>1
      <4> HIDE DEF busy
      <4>3. \A s \in Seq(Messages) :
               s \o busy(state) \o busy(video) \in Seq(Messages)
        BY <4>2
      <4>4. mail' = [mail EXCEPT ![u] = Tail(@),
                                 ![from[c]] = @ \o busy(state) \o busy(video)]
        BY <2>2 DEF Incoming, busy
      <4>5. QED
        BY <2>1, <4>3, <4>4 DEF TypeOK
    <3>3. QED
      <4>1. video' \in [Users -> {"idle", "ringing", "connecting"}]
        BY <2>2 DEF Incoming, TypeOK
      <4>2. CASE state[u] = "idle"
        <5>1. /\ state' = [state EXCEPT ![u] = "ringing"]
              /\ peer' = [peer EXCEPT ![u] = from[c]]
              /\ page' = [page EXCEPT ![u] =
                            IF page[u] = "home" THEN "incoming" ELSE page[u]]
              /\ \/ /\ offer' = [offer EXCEPT ![u] = c]
                    /\ pend' = [pend EXCEPT ![u] = c]
                 \/ UNCHANGED offVars
          BY <2>2, <4>2 DEF Incoming, Become, Show
        <5>2. /\ state' \in [Users -> States]
              /\ page' \in [Users -> Pages]
              /\ peer' \in [Users -> Users \cup {NoUser}]
              /\ offer' \in [Users -> Calls \cup {NoCall}]
              /\ pend' \in [Users -> Calls \cup {NoCall}]
          BY <3>1, <5>1 DEF TypeOK, States, Pages, offVars
        <5>3. \A w \in Users : offer'[w] \in {NoCall, pend'[w]}
          <6>1. CASE UNCHANGED offVars
            BY <6>1 DEF TypeOK, offVars
          <6>2. CASE offer' = [offer EXCEPT ![u] = c] /\ pend' = [pend EXCEPT ![u] = c]
            BY <6>2 DEF TypeOK
          <6>3. QED
            BY <5>1, <6>1, <6>2
        <5>4. QED
          BY <2>2, <3>2, <4>1, <5>2, <5>3 DEF Incoming, TypeOK, ringVars, history
      <4>3. CASE state[u] # "idle"
        <5>1. UNCHANGED <<state, peer, page, offVars>>
          BY <2>2, <4>3 DEF Incoming
        <5>2. QED
          BY <2>2, <3>2, <4>1, <5>1 DEF Incoming, TypeOK, ringVars, history,
             offVars
      <4>4. QED
        BY <4>2, <4>3
  <2>3. CASE Answered(u)
    <3>1. mail' \in [Users -> Seq(Messages)]
      BY <2>1, <2>3 DEF Answered, TypeOK
    <3>2. /\ state' \in [Users -> States] /\ late' \subseteq Users
          /\ applying' \in [Users -> Nat] /\ failed' \subseteq Users
      <4>1. CASE Effect(u) /\ UNCHANGED <<applying, failed>>
        BY <4>1 DEF Effect, Become, TypeOK, States
      <4>2. CASE /\ applying' = [applying EXCEPT ![u] = @ + 1]
                 /\ UNCHANGED <<state, late, failed>>
        BY <4>2 DEF TypeOK
      <4>3. CASE /\ failed' = failed \cup {u}
                 /\ UNCHANGED <<state, late, applying>>
        BY <4>3 DEF TypeOK
      <4>4. QED
        BY <2>3, <4>1, <4>2, <4>3 DEF Answered
    <3>3. /\ link' \in [Users -> [Calls -> Links]]
          /\ \A w \in Users : cur[w] # NoCall => link'[w][cur[w]] \in Live
      <4>1. CASE UNCHANGED link
        BY <4>1 DEF TypeOK
      <4>2. CASE cur[u] # NoCall /\ link' = [link EXCEPT ![u][cur[u]] = "paired"]
        BY <4>2 DEF TypeOK, Links, Live
      <4>3. QED
        BY <2>3, <4>1, <4>2 DEF Answered
    <3>4. QED
      BY <2>3, <3>1, <3>2, <3>3 DEF Answered, TypeOK, callVars, offVars
  <2>4. CASE Ended(u)
    <3>1. mail' \in [Users -> Seq(Messages)]
      BY <2>1, <2>4 DEF Ended, TypeOK
    <3>2. QED
      BY <2>4, <3>1, EndType, LeaveType DEF Ended, TypeOK
  <2>5. QED
    BY <1>o, <2>2, <2>3, <2>4 DEF Receive
<1>p. ASSUME NEW u \in Users, Applied(u)
      PROVE  TypeOK'
  BY <1>p DEF TypeOK, Applied, Effect, Become, callVars, offVars, ringVars,
     States
<1>q. ASSUME NEW u \in Users, HangUp(u)
      PROVE  TypeOK'
  <2>1. mail' \in [Users -> Seq(Messages)]
    <3>1. CASE peer[u] \in Users
      BY <1>q, <3>1, SendType DEF HangUp, Messages, Endings
    <3>2. CASE peer[u] \notin Users
      BY <1>q, <3>2 DEF HangUp, Send, TypeOK
    <3>3. QED
      BY <3>1, <3>2
  <2>2. QED
    BY <1>q, <2>1, EndType DEF HangUp, ByItself, Show, Pages, TypeOK
<1>r. ASSUME NEW u \in Users, NEW c \in Calls, IceConnected(u, c)
      PROVE  TypeOK'
  BY <1>r DEF TypeOK, IceConnected, Become, Show, Pages, callVars, offVars, ringVars,
     history,
              States
<1>s. ASSUME NEW u \in Users, NEW c \in Calls, IceFailed(u, c)
      PROVE  TypeOK'
  BY <1>s, EndType, LeaveType DEF IceFailed, ByItself, TypeOK
<1>w. ASSUME NEW u \in Users, AcceptNothing(u)
      PROVE  TypeOK'
  BY <1>w DEF TypeOK, AcceptNothing, Show, Pages, callVars, offVars, ringVars,
              history
<1>t. CASE UNCHANGED vars
  BY <1>t DEF TypeOK, vars
<1>u. QED
  BY <1>a, <1>b, <1>c, <1>d, <1>e, <1>f, <1>g, <1>h, <1>i, <1>j, <1>k, <1>m,
     <1>n,
     <1>o, <1>p, <1>q, <1>r, <1>s, <1>t, <1>w DEF Next, Continue, Proceed

-----------------------------------------------------------------------------
(* The parties. *)

LEMMA HeadForUser ==
  ASSUME TypeOK, MailInv, NEW u \in Users, mail[u] # << >>,
         Head(mail[u])[1] = "incoming"
  PROVE  Head(mail[u])[2] \in Calls /\ to[Head(mail[u])[2]] = u
<1>1. mail[u] \in Seq(Messages) /\ Len(mail[u]) >= 1 /\ Head(mail[u]) = mail[u][1]
  BY DEF TypeOK
<1>2. Head(mail[u]) \in Messages
  BY <1>1
<1>3. QED
  BY <1>1, <1>2 DEF MailInv, For, Messages, Endings

LEMMA PartyStep == TypeOK /\ PartyInv /\ MailInv /\ [Next]_vars => PartyInv'
<1> SUFFICES ASSUME TypeOK, PartyInv, MailInv, [Next]_vars
             PROVE  PartyInv'
  OBVIOUS
<1> USE NoCallIsNone
<1>a. ASSUME NEW u \in Users, NEW v \in Users, NEW c \in Calls, CallUser(u, v, c)
      PROVE  PartyInv'
  <2>1. ASSUME NEW d \in Calls
        PROVE  \/ /\ from'[d] = NoUser /\ to'[d] = NoUser
                  /\ place'[d] = "none" /\ take'[d] = "none"
               \/ from'[d] \in Users /\ to'[d] \in Users /\ from'[d] # to'[d]
    BY <1>a DEF PartyInv, TypeOK, CallUser
  <2>2. ASSUME NEW w \in Users, pend'[w] # NoCall
        PROVE  to'[pend'[w]] = w
    <3>1. pend'[w] = pend[w] /\ pend[w] \in Calls /\ to[pend[w]] = w
      BY <1>a, <2>2 DEF PartyInv, TypeOK, CallUser, offVars
    <3>2. pend[w] # c
      BY <1>a, <3>1, NoUserAssumption DEF PartyInv, CallUser
    <3>3. QED
      BY <1>a, <3>1, <3>2 DEF CallUser, TypeOK
  <2>3. ASSUME NEW d, NEW e \in Calls, d \in Calls, <<d, e>> \in answers'
        PROVE  from'[d] # NoUser
    BY <1>a, <2>3, NoUserAssumption DEF PartyInv, TypeOK, CallUser, history
  <2>4. QED
    BY <2>1, <2>2, <2>3 DEF PartyInv
<1>b. ASSUME NEW c \in Calls, CallOpened(c)
      PROVE  PartyInv'
  BY <1>b DEF PartyInv, TypeOK, Waiting, callVars, offVars, ringVars, history,
     CallOpened
<1>c. ASSUME NEW c \in Calls, CallPrepared(c)
      PROVE  PartyInv'
  BY <1>c DEF PartyInv, TypeOK, Waiting, callVars, offVars, ringVars, history,
     CallPrepared
<1>d. ASSUME NEW c \in Calls, SendCall(c)
      PROVE  PartyInv'
  BY <1>d DEF PartyInv, TypeOK, Waiting, callVars, offVars, ringVars, history,
     SendCall
<1>e. ASSUME NEW c \in Calls, CallFails(c)
      PROVE  PartyInv'
  BY <1>e DEF PartyInv, TypeOK, Waiting, callVars, offVars, ringVars, history,
     EndCall, CallFails
<1>f. ASSUME NEW c \in Calls, RingTimeout(c)
      PROVE  PartyInv'
  <2>1. UNCHANGED <<from, to, place, take, answers>>
    BY <1>f DEF RingTimeout, EndCall, callVars, history
  <2>2. \A w \in Users : pend'[w] \in {NoCall, pend[w]}
    BY <1>f DEF RingTimeout, EndCall, TypeOK, offVars
  <2>3. QED
    BY <2>1, <2>2 DEF PartyInv
<1>g. ASSUME NEW u \in Users, Accept(u)
      PROVE  PartyInv'
  <2>1. pend[u] \in Calls /\ from[pend[u]] \in Users
    BY <1>g, NoUserAssumption DEF Accept, PartyInv, TypeOK
  <2>2. \A d \in Calls : d # pend[u] => take'[d] = take[d]
    BY <1>g DEF Accept, TypeOK
  <2>3. UNCHANGED <<from, to, pend, place, answers>>
    BY <1>g DEF Accept, callVars, offVars, history
  <2>4. QED
    BY <2>1, <2>2, <2>3, NoUserAssumption DEF PartyInv
<1>h. ASSUME NEW c \in Calls, AcceptOpened(c)
      PROVE  PartyInv'
  BY <1>h DEF PartyInv, TypeOK, Waiting, callVars, offVars, ringVars, history,
     AcceptOpened
<1>i. ASSUME NEW c \in Calls, AcceptPrepared(c)
      PROVE  PartyInv'
  BY <1>i DEF PartyInv, TypeOK, Waiting, callVars, offVars, ringVars, history,
     AcceptPrepared
<1>j. ASSUME NEW c \in Calls, AcceptDescribed(c)
      PROVE  PartyInv'
  BY <1>j DEF PartyInv, TypeOK, Waiting, callVars, offVars, ringVars, history,
     AcceptDescribed
<1>k. ASSUME NEW c \in Calls, SendAnswer(c)
      PROVE  PartyInv'
  <2>1. from[c] \in Users
    BY <1>k, Parties DEF SendAnswer, Waiting
  <2>2. answers' = answers \cup {<<c, pend[to[c]]>>}
    BY <1>k DEF SendAnswer
  <2>3. UNCHANGED <<from, to, pend, place>> /\ \A d \in Calls : d # c => take'[d] = take[d]
    BY <1>k DEF SendAnswer, callVars, TypeOK
  <2>4. QED
    BY <2>1, <2>2, <2>3, NoUserAssumption DEF PartyInv
<1>m. ASSUME NEW u \in Users, Decline(u)
      PROVE  PartyInv'
  BY <1>m DEF PartyInv, TypeOK, Waiting, callVars, offVars, ringVars, history,
     EndCall, Decline, DeclineCall
<1>n. ASSUME NEW c \in Calls, AcceptFails(c)
      PROVE  PartyInv'
  BY <1>n DEF PartyInv, TypeOK, Waiting, callVars, offVars, ringVars, history,
     EndCall, AcceptFails, DeclineCall
<1>o. ASSUME NEW u \in Users, Receive(u)
      PROVE  PartyInv'
  <2> DEFINE c == Head(mail[u])[2]
  <2>1. CASE Head(mail[u])[1] = "incoming" /\ Incoming(u, c)
    <3>1. c \in Calls /\ to[c] = u
      BY <1>o, <2>1, HeadForUser DEF Receive
    <3>2. QED
      BY <2>1, <3>1 DEF PartyInv, TypeOK, Incoming, Waiting, ringVars, offVars,
                        history
  <2>2. CASE Answered(u)
    BY <2>2 DEF PartyInv, Answered, callVars, offVars
  <2>3. CASE Ended(u)
    BY <2>3 DEF PartyInv, TypeOK, Ended, EndCall, callVars
  <2>4. QED
    BY <1>o, <2>1, <2>2, <2>3 DEF Receive
<1>p. ASSUME NEW u \in Users, Applied(u)
      PROVE  PartyInv'
  BY <1>p DEF PartyInv, TypeOK, Waiting, callVars, offVars, ringVars, history,
     Applied, Effect
<1>q. ASSUME NEW u \in Users, HangUp(u)
      PROVE  PartyInv'
  BY <1>q DEF PartyInv, TypeOK, Waiting, callVars, offVars, ringVars, history,
     EndCall, HangUp
<1>r. ASSUME NEW u \in Users, NEW c \in Calls, IceConnected(u, c)
      PROVE  PartyInv'
  BY <1>r DEF PartyInv, TypeOK, Waiting, callVars, offVars, ringVars, history,
     IceConnected
<1>s. ASSUME NEW u \in Users, NEW c \in Calls, IceFailed(u, c)
      PROVE  PartyInv'
  BY <1>s DEF PartyInv, TypeOK, Waiting, callVars, offVars, ringVars, history,
     EndCall, IceFailed
<1>w. ASSUME NEW u \in Users, AcceptNothing(u)
      PROVE  PartyInv'
  BY <1>w DEF AcceptNothing, callVars, offVars, ringVars, history,
              PartyInv
<1>t. CASE UNCHANGED vars
  BY <1>t DEF PartyInv, vars
<1>u. QED
  BY <1>a, <1>b, <1>c, <1>d, <1>e, <1>f, <1>g, <1>h, <1>i, <1>j, <1>k, <1>m,
     <1>n, <1>o, <1>p, <1>q, <1>r, <1>s, <1>t, <1>w DEF Next, Continue, Proceed

(* The messages. *)

LEMMA SendFor ==
  ASSUME TypeOK, MailInv, NEW v \in Users, NEW k, NEW c, <<k, c>> \in Messages,
         Send(v, k, c), k = "incoming" => to[c] = v, UNCHANGED to
  PROVE  MailInv'
<1> DEFINE s == mail[v]  m == <<k, c>>
<1>1. s \in Seq(Messages) /\ For(v, s)
  BY DEF TypeOK, MailInv
<1>2. For(v, Append(s, m))
  <2>1. ASSUME NEW i \in 1 .. Len(Append(s, m)), Append(s, m)[i][1] = "incoming"
        PROVE  to[Append(s, m)[i][2]] = v
    <3>1. CASE i \in 1 .. Len(s)
      BY <1>1, <2>1, <3>1 DEF For
    <3>2. CASE i = Len(s) + 1
      BY <1>1, <2>1, <3>2
    <3>3. QED
      BY <1>1, <3>1, <3>2
  <2>2. QED
    BY <2>1 DEF For
<1>3. mail'[v] = Append(s, m) /\ \A w \in Users : w # v => mail'[w] = mail[w]
  BY DEF Send, TypeOK
<1>4. QED
  BY <1>2, <1>3 DEF MailInv, For

LEMMA TailFor ==
  ASSUME NEW u, NEW s \in Seq(Messages), s # << >>, For(u, s)
  PROVE  For(u, Tail(s))
<1>1. Len(Tail(s)) = Len(s) - 1 /\ \A i \in 1 .. Len(Tail(s)) : Tail(s)[i] = s[i + 1]
  OBVIOUS
<1>2. QED
  BY <1>1 DEF For

LEMMA MoreFor ==
  ASSUME NEW u, NEW s \in Seq(Messages), For(u, s),
         NEW t \in {<< >>, << <<"busy", NoCall>> >>}
  PROVE  For(u, s \o t)
<1>1. CASE t = << >>
  BY <1>1 DEF For
<1>2. CASE t = << <<"busy", NoCall>> >>
  <2>1. ASSUME NEW i \in 1 .. Len(s \o t), (s \o t)[i][1] = "incoming"
        PROVE  to[(s \o t)[i][2]] = u
    <3>1. CASE i \in 1 .. Len(s)
      BY <1>2, <2>1, <3>1 DEF For
    <3>2. CASE i = Len(s) + 1
      BY <1>2, <2>1, <3>2
    <3>3. QED
      BY <1>2, <3>1, <3>2
  <2>2. QED
    BY <2>1 DEF For
<1>3. QED
  BY <1>1, <1>2

LEMMA MailStep == TypeOK /\ PartyInv /\ MailInv /\ [Next]_vars => MailInv'
<1> SUFFICES ASSUME TypeOK, PartyInv, MailInv, [Next]_vars
             PROVE  MailInv'
  OBVIOUS
<1> USE NoCallIsNone
<1>v. ASSUME NEW u \in Users, NEW c, DeclineCall(u, c)
      PROVE  MailInv'
  <2>1. UNCHANGED to
    BY <1>v DEF DeclineCall, EndCall, callVars
  <2>2. CASE pend[u] = NoCall
    BY <1>v, <2>1, <2>2 DEF DeclineCall, MailInv, For
  <2>3. CASE pend[u] # NoCall
    <3>1. from[pend[u]] \in Users
      BY <2>3, NoUserAssumption DEF TypeOK, PartyInv
    <3>2. QED
      BY <1>v, <2>1, <2>3, <3>1, SendFor DEF DeclineCall, Messages, Endings
  <2>4. QED
    BY <2>2, <2>3
<1>a. ASSUME NEW u \in Users, NEW v \in Users, NEW c \in Calls, CallUser(u, v, c)
      PROVE  MailInv'
  <2>1. ASSUME NEW w \in Users, NEW i \in 1 .. Len(mail[w]),
               mail[w][i][1] = "incoming"
        PROVE  to'[mail[w][i][2]] = w
    <3>1. mail[w] \in Seq(Messages)
      BY DEF TypeOK
    <3>2. mail[w][i] \in Messages
      BY <3>1
    <3>3. mail[w][i][2] \in Calls /\ to[mail[w][i][2]] = w
      BY <2>1, <3>2 DEF MailInv, For, Messages, Endings
    <3>4. mail[w][i][2] # c
      BY <1>a, <3>3, NoUserAssumption DEF PartyInv, CallUser
    <3>5. QED
      BY <1>a, <3>3, <3>4 DEF CallUser, TypeOK
  <2>2. QED
    BY <1>a, <2>1 DEF MailInv, For, CallUser
<1>b. ASSUME NEW c \in Calls, CallOpened(c)
      PROVE  MailInv'
  BY <1>b DEF MailInv, For, callVars, history, CallOpened
<1>c. ASSUME NEW c \in Calls, CallPrepared(c)
      PROVE  MailInv'
  BY <1>c DEF MailInv, For, callVars, history, CallPrepared
<1>d. ASSUME NEW c \in Calls, SendCall(c)
      PROVE  MailInv'
  <2>1. from[c] \in Users /\ to[c] \in Users
    BY <1>d, Parties DEF SendCall, Waiting
  <2>2. UNCHANGED to
    BY <1>d DEF SendCall, callVars
  <2>3. CASE Send(to[c], "incoming", c)
    BY <2>1, <2>2, <2>3, SendFor DEF Messages
  <2>4. CASE Send(from[c], "unavailable", NoCall)
    BY <2>1, <2>2, <2>4, SendFor DEF Messages, Endings
  <2>5. CASE UNCHANGED mail
    BY <2>2, <2>5 DEF MailInv, For
  <2>6. QED
    BY <1>d, <2>3, <2>4, <2>5 DEF SendCall
<1>e. ASSUME NEW c \in Calls, CallFails(c)
      PROVE  MailInv'
  BY <1>e DEF MailInv, For, callVars, history, EndCall, CallFails
<1>f. ASSUME NEW c \in Calls, RingTimeout(c)
      PROVE  MailInv'
  <2>1. UNCHANGED to /\ to[c] \in Users
    BY <1>f DEF RingTimeout, EndCall, callVars, PartyInv
  <2>2. CASE Send(to[c], "hangup", NoCall)
    BY <2>1, <2>2, SendFor DEF Messages, Endings
  <2>3. CASE UNCHANGED mail
    BY <2>1, <2>3 DEF MailInv, For
  <2>4. QED
    BY <1>f, <2>2, <2>3 DEF RingTimeout
<1>g. ASSUME NEW u \in Users, Accept(u)
      PROVE  MailInv'
  BY <1>g DEF MailInv, For, callVars, history, Accept
<1>h. ASSUME NEW c \in Calls, AcceptOpened(c)
      PROVE  MailInv'
  BY <1>h DEF MailInv, For, callVars, history, AcceptOpened
<1>i. ASSUME NEW c \in Calls, AcceptPrepared(c)
      PROVE  MailInv'
  BY <1>i DEF MailInv, For, callVars, history, AcceptPrepared
<1>j. ASSUME NEW c \in Calls, AcceptDescribed(c)
      PROVE  MailInv'
  BY <1>j DEF MailInv, For, callVars, history, AcceptDescribed
<1>k. ASSUME NEW c \in Calls, SendAnswer(c)
      PROVE  MailInv'
  <2>1. to[c] \in Users /\ UNCHANGED to
    BY <1>k, Parties DEF SendAnswer, Waiting, callVars
  <2>2. from[pend[to[c]]] \in Users
    BY <1>k, <2>1, NoUserAssumption DEF SendAnswer, TypeOK, PartyInv
  <2>3. QED
    BY <1>k, <2>1, <2>2, SendFor DEF SendAnswer, Messages
<1>m. ASSUME NEW u \in Users, Decline(u)
      PROVE  MailInv'
  BY <1>m, <1>v DEF Decline
<1>n. ASSUME NEW c \in Calls, AcceptFails(c)
      PROVE  MailInv'
  <2>1. to[c] \in Users
    BY <1>n, Parties DEF AcceptFails
  <2>2. QED
    BY <1>n, <1>v, <2>1 DEF AcceptFails
<1>o. ASSUME NEW u \in Users, Receive(u)
      PROVE  MailInv'
  <2> DEFINE c == Head(mail[u])[2]
  <2>1. mail[u] \in Seq(Messages) /\ mail[u] # << >> /\ For(u, mail[u])
    BY <1>o DEF Receive, TypeOK, MailInv
  <2>2. For(u, Tail(mail[u]))
    BY <2>1, TailFor
  <2>3. CASE Head(mail[u])[1] = "incoming" /\ Incoming(u, c)
    <3> DEFINE busy(service) ==
                 IF service[u] = "idle" THEN << >> ELSE << <<"busy", NoCall>> >>
    <3>1. c \in Calls /\ to[c] = u
      BY <2>1, <2>3, HeadForUser
    <3>2. from[c] \in Users /\ from[c] # u
      BY <3>1, NoUserAssumption DEF PartyInv
    <3>3. /\ busy(state) \in {<< >>, << <<"busy", NoCall>> >>}
          /\ busy(video) \in {<< >>, << <<"busy", NoCall>> >>}
      OBVIOUS
    <3>4. mail' = [mail EXCEPT ![u] = Tail(@),
                               ![from[c]] = @ \o busy(state) \o busy(video)]
      BY <2>3 DEF Incoming
    <3>5. UNCHANGED to
      BY <2>3 DEF Incoming
    <3> HIDE DEF busy
    <3>6. /\ mail[from[c]] \o busy(state) \in Seq(Messages)
          /\ For(from[c], mail[from[c]] \o busy(state))
      <4>1. mail[from[c]] \in Seq(Messages) /\ For(from[c], mail[from[c]])
        BY <3>2 DEF TypeOK, MailInv
      <4>2. busy(state) \in Seq(Messages)
        <5>1. <<"busy", NoCall>> \in Messages
          BY DEF Messages, Endings
        <5>2. << <<"busy", NoCall>> >> \in Seq(Messages) /\ << >> \in Seq(Messages)
          BY <5>1
        <5>3. QED
          BY <3>3, <5>2
      <4>3. mail[from[c]] \o busy(state) \in Seq(Messages)
        BY <4>1, <4>2
      <4>4. For(from[c], mail[from[c]] \o busy(state))
        BY <3>3, <4>1, MoreFor
      <4>5. QED
        BY <4>3, <4>4
    <3>7. For(from[c], mail[from[c]] \o busy(state) \o busy(video))
      BY <3>3, <3>6, MoreFor
    <3>8. mail'[u] = Tail(mail[u])
      BY <3>2, <3>4 DEF TypeOK
    <3>9. mail'[from[c]] = mail[from[c]] \o busy(state) \o busy(video)
      BY <3>2, <3>4 DEF TypeOK
    <3>10. \A w \in Users \ {u, from[c]} : mail'[w] = mail[w]
      BY <3>4 DEF TypeOK
    <3>11. ASSUME NEW w \in Users
           PROVE  For(w, mail'[w])
      BY <2>2, <3>7, <3>8, <3>9, <3>10 DEF MailInv
    <3>12. QED
      BY <3>5, <3>11 DEF MailInv, For
  <2>4. CASE Answered(u) \/ Ended(u)
    <3>1. mail' = [mail EXCEPT ![u] = Tail(@)] /\ UNCHANGED to
      BY <2>4 DEF Answered, Ended, EndCall, callVars
    <3>2. QED
      BY <2>2, <3>1 DEF MailInv, For, TypeOK
  <2>5. QED
    BY <1>o, <2>3, <2>4 DEF Receive
<1>p. ASSUME NEW u \in Users, Applied(u)
      PROVE  MailInv'
  BY <1>p DEF MailInv, For, callVars, history, Applied
<1>q. ASSUME NEW u \in Users, HangUp(u)
      PROVE  MailInv'
  <2>1. UNCHANGED to
    BY <1>q DEF HangUp, EndCall, callVars
  <2>2. CASE peer[u] \in Users
    BY <1>q, <2>1, <2>2, SendFor DEF HangUp, Messages, Endings
  <2>3. CASE peer[u] \notin Users
    BY <1>q, <2>1, <2>3 DEF HangUp, Send, TypeOK, MailInv, For
  <2>4. QED
    BY <2>2, <2>3
<1>r. ASSUME NEW u \in Users, NEW c \in Calls, IceConnected(u, c)
      PROVE  MailInv'
  BY <1>r DEF MailInv, For, callVars, history, IceConnected
<1>s. ASSUME NEW u \in Users, NEW c \in Calls, IceFailed(u, c)
      PROVE  MailInv'
  BY <1>s DEF MailInv, For, callVars, history, EndCall, IceFailed
<1>w. ASSUME NEW u \in Users, AcceptNothing(u)
      PROVE  MailInv'
  BY <1>w DEF AcceptNothing, callVars, offVars, ringVars, history,
              MailInv, For
<1>t. CASE UNCHANGED vars
  BY <1>t DEF MailInv, For, callVars, history, vars
<1>u. QED
  BY <1>a, <1>b, <1>c, <1>d, <1>e, <1>f, <1>g, <1>h, <1>i, <1>j, <1>k, <1>m,
     <1>n, <1>o, <1>p, <1>q, <1>r, <1>s, <1>t, <1>w DEF Next, Continue, Proceed

(* The rest of the invariant. *)

LEMMA Ends ==
  ASSUME TypeOK, NEW u \in Users, NEW c, EndCall(u, c)
  PROVE  /\ state'[u] = "idle" /\ pend'[u] = NoCall /\ cur'[u] = NoCall
         /\ offer'[u] = NoCall
         /\ cut'[u] = cut[u] \cup ((Placing(u) \cup Taking(u)) \ {c})
         /\ \A d \in Calls : link'[u][d] = IF d = cur[u] THEN "closed"
                                          ELSE link[u][d]
         /\ \A w \in Users \ {u} :
               /\ state'[w] = state[w] /\ pend'[w] = pend[w] /\ cur'[w] = cur[w]
               /\ cut'[w] = cut[w] /\ link'[w] = link[w] /\ offer'[w] = offer[w]
               /\ timers'[w] = timers[w]
         /\ UNCHANGED <<from, to, applying, ring, late, answers, failed>>
BY DEF EndCall, Become, TypeOK, callVars

LEMMA PendStep == TypeOK /\ PartyInv /\ PendInv /\ [Next]_vars => PendInv'
<1> SUFFICES ASSUME TypeOK, PartyInv, PendInv, [Next]_vars
             PROVE  PendInv'
  OBVIOUS
<1> USE NoCallIsNone
<1>a. ASSUME NEW u \in Users, NEW v \in Users, NEW c \in Calls, CallUser(u, v, c)
      PROVE  PendInv'
  BY <1>a DEF PendInv, TypeOK, CallUser, Become, offVars
<1>b. ASSUME NEW c \in Calls, CallOpened(c)
      PROVE  PendInv'
  BY <1>b DEF PendInv, offVars, CallOpened
<1>c. ASSUME NEW c \in Calls, CallPrepared(c)
      PROVE  PendInv'
  BY <1>c DEF PendInv, offVars, CallPrepared
<1>d. ASSUME NEW c \in Calls, SendCall(c)
      PROVE  PendInv'
  BY <1>d DEF PendInv, offVars, SendCall
<1>e. ASSUME NEW c \in Calls, CallFails(c)
      PROVE  PendInv'
  <2>1. from[c] \in Users
    BY <1>e, Parties DEF CallFails
  <2>2. QED
    BY <1>e, <2>1, Ends DEF CallFails, PendInv
<1>f. ASSUME NEW c \in Calls, RingTimeout(c)
      PROVE  PendInv'
  <2>1. from[c] \in Users
    BY <1>f DEF RingTimeout, PartyInv
  <2>2. CASE state[from[c]] = "calling"
    BY <1>f, <2>1, <2>2, Ends DEF RingTimeout, PendInv
  <2>3. CASE state[from[c]] # "calling"
    BY <1>f, <2>1, <2>3 DEF RingTimeout, PendInv, callVars, offVars, history
  <2>4. QED
    BY <2>2, <2>3
<1>g. ASSUME NEW u \in Users, Accept(u)
      PROVE  PendInv'
  BY <1>g DEF PendInv, TypeOK, Accept, Become, offVars
<1>h. ASSUME NEW c \in Calls, AcceptOpened(c)
      PROVE  PendInv'
  BY <1>h DEF PendInv, offVars, AcceptOpened
<1>i. ASSUME NEW c \in Calls, AcceptPrepared(c)
      PROVE  PendInv'
  BY <1>i DEF PendInv, offVars, AcceptPrepared
<1>j. ASSUME NEW c \in Calls, AcceptDescribed(c)
      PROVE  PendInv'
  BY <1>j DEF PendInv, offVars, AcceptDescribed
<1>k. ASSUME NEW c \in Calls, SendAnswer(c)
      PROVE  PendInv'
  BY <1>k DEF PendInv, offVars, SendAnswer
<1>m. ASSUME NEW u \in Users, Decline(u)
      PROVE  PendInv'
  BY <1>m, Ends DEF Decline, DeclineCall, PendInv
<1>n. ASSUME NEW c \in Calls, AcceptFails(c)
      PROVE  PendInv'
  <2>1. to[c] \in Users
    BY <1>n, Parties DEF AcceptFails
  <2>2. QED
    BY <1>n, <2>1, Ends DEF AcceptFails, DeclineCall, PendInv
<1>o. ASSUME NEW u \in Users, Receive(u)
      PROVE  PendInv'
  <2> DEFINE c == Head(mail[u])[2]
  <2>1. CASE Head(mail[u])[1] = "incoming" /\ Incoming(u, c)
    BY <2>1 DEF PendInv, TypeOK, Incoming, Become, offVars
  <2>2. CASE Answered(u)
    BY <2>2 DEF PendInv, TypeOK, Answered, Effect, Become, offVars
  <2>3. CASE Ended(u)
    BY <2>3, Ends DEF PendInv, Ended
  <2>4. QED
    BY <1>o, <2>1, <2>2, <2>3 DEF Receive
<1>p. ASSUME NEW u \in Users, Applied(u)
      PROVE  PendInv'
  BY <1>p DEF PendInv, TypeOK, Applied, Effect, Become, offVars
<1>q. ASSUME NEW u \in Users, HangUp(u)
      PROVE  PendInv'
  BY <1>q, Ends DEF HangUp, PendInv
<1>r. ASSUME NEW u \in Users, NEW c \in Calls, IceConnected(u, c)
      PROVE  PendInv'
  BY <1>r DEF PendInv, TypeOK, IceConnected, Become, offVars
<1>s. ASSUME NEW u \in Users, NEW c \in Calls, IceFailed(u, c)
      PROVE  PendInv'
  BY <1>s, Ends DEF IceFailed, PendInv
<1>w. ASSUME NEW u \in Users, AcceptNothing(u)
      PROVE  PendInv'
  BY <1>w DEF AcceptNothing, callVars, offVars, ringVars, history,
              PendInv
<1>t. CASE UNCHANGED vars
  BY <1>t DEF PendInv, offVars, vars
<1>u. QED
  BY <1>a, <1>b, <1>c, <1>d, <1>e, <1>f, <1>g, <1>h, <1>i, <1>j, <1>k, <1>m,
     <1>n, <1>o, <1>p, <1>q, <1>r, <1>s, <1>t, <1>w DEF Next, Continue, Proceed

LEMMA TaskSame ==
  ASSUME NEW u, TaskOf(u), cut'[u] = cut[u], pend'[u] = pend[u],
         state'[u] = state[u] \/ state'[u] \in {"connecting", "connected"},
         Placing(u)' \subseteq Placing(u), Taking(u)' \subseteq Taking(u),
         \A c \in timers'[u] : place'[c] = "done" /\ from'[c] = u
  PROVE  TaskOf(u)'
BY DEF TaskOf, OnCall

(* Nothing is uncut in a user whose call has just ended. *)
LEMMA EndTask ==
  ASSUME TypeOK, TaskInv, NEW u \in Users, NEW c, EndCall(u, c),
         \A d \in Calls : /\ place'[d] = place[d] \/ place'[d] = "done"
                          /\ take'[d] = take[d] \/ take'[d] = "done",
         c \notin Placing(u)' \cup Taking(u)'
  PROVE  TaskInv'
<1>1. UNCHANGED <<from, to>>
  BY DEF EndCall, callVars
<1>2. \A w : Placing(w)' \subseteq Placing(w) /\ Taking(w)' \subseteq Taking(w)
  BY <1>1 DEF Placing, Taking, Waiting
<1>3. \A w \in Users : timers'[w] \subseteq timers[w] /\ timers[w] \subseteq Calls
  BY DEF EndCall, TypeOK
<1>4. ASSUME NEW w \in Users, NEW d \in timers'[w]
      PROVE  place'[d] = "done" /\ from'[d] = w
  BY <1>1, <1>3, <1>4 DEF TaskInv, TaskOf
<1>5. TaskOf(u)'
  <2>1. (Placing(u) \cup Taking(u))' \ cut'[u] = {}
    BY <1>2, Ends
  <2>2. QED
    BY <1>4, <2>1 DEF TaskOf
<1>6. ASSUME NEW w \in Users \ {u}
      PROVE  TaskOf(w)'
  BY <1>2, <1>4, Ends, TaskSame DEF TaskInv
<1>7. QED
  BY <1>5, <1>6 DEF TaskInv

LEMMA TaskStep == TypeOK /\ PartyInv /\ MailInv /\ TaskInv /\ [Next]_vars => TaskInv'
<1> SUFFICES ASSUME TypeOK, PartyInv, MailInv, TaskInv, [Next]_vars
             PROVE  TaskInv'
  OBVIOUS
<1> USE NoCallIsNone
<1>a. ASSUME NEW u \in Users, NEW v \in Users, NEW c \in Calls, CallUser(u, v, c)
      PROVE  TaskInv'
  <2>1. place[c] = "none" /\ take[c] = "none"
    BY <1>a, NoUserAssumption DEF CallUser, PartyInv
  <2>2. /\ Placing(u)' = Placing(u) \cup {c}
        /\ \A w \in Users \ {u} : Placing(w)' = Placing(w)
        /\ \A w \in Users : Taking(w)' = Taking(w)
    BY <1>a, <2>1, NoUserAssumption DEF CallUser, TypeOK, Placing, Taking,
       Waiting
  <2>3. /\ UNCHANGED <<pend, cut, timers>>
        /\ state'[u] = "calling" /\ \A w \in Users \ {u} : state'[w] = state[w]
    BY <1>a DEF CallUser, Become, TypeOK, offVars, ringVars
  <2>4. ASSUME NEW w \in Users, NEW d \in timers[w]
        PROVE  d # c /\ place'[d] = "done" /\ from'[d] = w
    <3>1. place[d] = "done" /\ from[d] = w /\ d \in Calls
      BY <2>4 DEF TaskInv, TaskOf, TypeOK
    <3>2. QED
      BY <1>a, <2>1, <3>1 DEF CallUser, TypeOK
  <2>5. TaskOf(u)'
    <3>1. (Placing(u) \cup Taking(u)) \ cut[u] = {}
      BY <1>a DEF CallUser, TaskInv, TaskOf, OnCall
    <3>2. QED
      BY <2>2, <2>3, <2>4, <3>1 DEF TaskOf, OnCall
  <2>6. ASSUME NEW w \in Users \ {u}
        PROVE  TaskOf(w)'
    BY <2>2, <2>3, <2>4, TaskSame DEF TaskInv
  <2>7. QED
    BY <2>5, <2>6 DEF TaskInv
<1>b. ASSUME NEW c \in Calls, CallOpened(c)
      PROVE  TaskInv'
  <2>1. UNCHANGED <<from, to, pend, cut>>
    BY <1>b DEF CallOpened, callVars, offVars
  <2>2. \A w \in Users : state'[w] = state[w] \/ state'[w] \in {"connecting", "connected"}
    BY <1>b DEF CallOpened, TypeOK
  <2>3. \A w : Placing(w)' \subseteq Placing(w) /\ Taking(w)' \subseteq Taking(w)
    BY <1>b, <2>1 DEF CallOpened, TypeOK, Placing, Taking, Waiting, callVars
  <2>4. ASSUME NEW w \in Users, NEW d \in timers'[w]
        PROVE  place'[d] = "done" /\ from'[d] = w
    BY <1>b, <2>1, <2>4 DEF CallOpened, TaskInv, TaskOf, TypeOK, ringVars
  <2>5. QED
    BY <2>1, <2>2, <2>3, <2>4, TaskSame DEF TaskInv
<1>c. ASSUME NEW c \in Calls, CallPrepared(c)
      PROVE  TaskInv'
  <2>1. UNCHANGED <<from, to, pend, cut>>
    BY <1>c DEF CallPrepared, callVars, offVars
  <2>2. \A w \in Users : state'[w] = state[w] \/ state'[w] \in {"connecting", "connected"}
    BY <1>c DEF CallPrepared, TypeOK
  <2>3. \A w : Placing(w)' \subseteq Placing(w) /\ Taking(w)' \subseteq Taking(w)
    BY <1>c, <2>1 DEF CallPrepared, TypeOK, Placing, Taking, Waiting, callVars
  <2>4. ASSUME NEW w \in Users, NEW d \in timers'[w]
        PROVE  place'[d] = "done" /\ from'[d] = w
    BY <1>c, <2>1, <2>4 DEF CallPrepared, TaskInv, TaskOf, TypeOK, ringVars
  <2>5. QED
    BY <2>1, <2>2, <2>3, <2>4, TaskSame DEF TaskInv
<1>d. ASSUME NEW c \in Calls, SendCall(c)
      PROVE  TaskInv'
  <2>1. UNCHANGED <<from, to, pend, cut>>
    BY <1>d DEF SendCall, callVars, offVars
  <2>2. \A w \in Users : state'[w] = state[w] \/ state'[w] \in {"connecting", "connected"}
    BY <1>d DEF SendCall, TypeOK
  <2>3. \A w : Placing(w)' \subseteq Placing(w) /\ Taking(w)' \subseteq Taking(w)
    BY <1>d, <2>1 DEF SendCall, TypeOK, Placing, Taking, Waiting, callVars
  <2>4. ASSUME NEW w \in Users, NEW d \in timers'[w]
        PROVE  place'[d] = "done" /\ from'[d] = w
    BY <1>d, <2>1, <2>4 DEF SendCall, TaskInv, TaskOf, TypeOK, ringVars
  <2>5. QED
    BY <2>1, <2>2, <2>3, <2>4, TaskSame DEF TaskInv
<1>e. ASSUME NEW c \in Calls, CallFails(c)
      PROVE  TaskInv'
  <2>1. PICK u \in Users : u = from[c]
    BY <1>e, Parties DEF CallFails
  <2>2. EndCall(u, c)
    BY <1>e, <2>1 DEF CallFails
  <2>3. c \notin Placing(u)' \cup Taking(u)'
    BY <1>e, <2>1, <2>2, NoCallIsNone, Parties DEF CallFails, Placing, Taking,
       Waiting, EndCall, callVars, TypeOK
  <2>4. \A d \in Calls : /\ place'[d] = place[d] \/ place'[d] = "done"
                         /\ take'[d] = take[d] \/ take'[d] = "done"
    BY <1>e DEF CallFails, TypeOK
  <2>5. QED
    BY <2>2, <2>3, <2>4, EndTask
<1>f. ASSUME NEW c \in Calls, RingTimeout(c)
      PROVE  TaskInv'
  <2>1. PICK u \in Users : u = from[c]
    BY <1>f DEF RingTimeout, PartyInv
  <2>2. CASE state[u] = "calling"
    <3>1. EndCall(u, c) /\ UNCHANGED <<place, take>>
      BY <1>f, <2>1, <2>2 DEF RingTimeout
    <3>2. place[c] = "done" /\ UNCHANGED <<from, to>>
      BY <1>f, <2>1, <3>1 DEF RingTimeout, TaskInv, TaskOf, EndCall, callVars
    <3>3. c \notin Placing(u)' \cup Taking(u)'
      BY <1>f, <2>1, <3>1, <3>2, NoCallIsNone DEF RingTimeout, PartyInv,
         Placing, Taking, Waiting
    <3>4. \A d \in Calls : /\ place'[d] = place[d] \/ place'[d] = "done"
                           /\ take'[d] = take[d] \/ take'[d] = "done"
      BY <3>1
    <3>5. QED
      BY <3>1, <3>3, <3>4, EndTask
  <2>3. CASE state[u] # "calling"
    <3>1. UNCHANGED <<from, to, state, pend, cut, place, take>>
      BY <1>f, <2>1, <2>3 DEF RingTimeout, callVars, offVars
    <3>2. \A w \in Users : timers'[w] \subseteq timers[w]
      <4>1. timers' = [timers EXCEPT ![u] = timers[u] \ {c}]
        BY <1>f, <2>1, <2>3 DEF RingTimeout
      <4>2. QED
        BY <2>1, <4>1 DEF TypeOK
    <3>3. QED
      BY <3>1, <3>2 DEF TaskInv, TaskOf, Placing, Taking
  <2>4. QED
    BY <2>2, <2>3
<1>g. ASSUME NEW u \in Users, Accept(u)
      PROVE  TaskInv'
  <2>1. pend[u] \in Calls /\ to[pend[u]] = u
    BY <1>g DEF Accept, PartyInv, TypeOK
  <2>2. /\ Taking(u)' = Taking(u) \cup {pend[u]}
        /\ \A w \in Users \ {u} : Taking(w)' = Taking(w)
        /\ \A w \in Users : Placing(w)' = Placing(w)
    BY <1>g, <2>1 DEF Accept, TypeOK, Placing, Taking, Waiting, callVars
  <2>3. /\ UNCHANGED <<from, pend, cut, timers, place>>
        /\ state'[u] = "connecting" /\ \A w \in Users \ {u} : state'[w] = state[w]
    BY <1>g DEF Accept, Become, TypeOK, callVars, offVars, ringVars
  <2>4. TaskOf(u)'
    <3>1. (Placing(u) \cup Taking(u)) \ cut[u] = {}
      BY <1>g DEF Accept, TaskInv, TaskOf, OnCall
    <3>2. QED
      BY <2>2, <2>3, <3>1 DEF TaskOf, TaskInv, OnCall
  <2>5. ASSUME NEW w \in Users \ {u}
        PROVE  TaskOf(w)'
    BY <2>2, <2>3, TaskSame DEF TaskInv, TaskOf
  <2>6. QED
    BY <2>4, <2>5 DEF TaskInv
<1>h. ASSUME NEW c \in Calls, AcceptOpened(c)
      PROVE  TaskInv'
  <2>1. UNCHANGED <<from, to, pend, cut>>
    BY <1>h DEF AcceptOpened, callVars, offVars
  <2>2. \A w \in Users : state'[w] = state[w] \/ state'[w] \in {"connecting", "connected"}
    BY <1>h DEF AcceptOpened, TypeOK
  <2>3. \A w : Placing(w)' \subseteq Placing(w) /\ Taking(w)' \subseteq Taking(w)
    BY <1>h, <2>1 DEF AcceptOpened, TypeOK, Placing, Taking, Waiting, callVars
  <2>4. ASSUME NEW w \in Users, NEW d \in timers'[w]
        PROVE  place'[d] = "done" /\ from'[d] = w
    BY <1>h, <2>1, <2>4 DEF AcceptOpened, TaskInv, TaskOf, TypeOK, ringVars
  <2>5. QED
    BY <2>1, <2>2, <2>3, <2>4, TaskSame DEF TaskInv
<1>i. ASSUME NEW c \in Calls, AcceptPrepared(c)
      PROVE  TaskInv'
  <2>1. UNCHANGED <<from, to, pend, cut>>
    BY <1>i DEF AcceptPrepared, callVars, offVars
  <2>2. \A w \in Users : state'[w] = state[w] \/ state'[w] \in {"connecting", "connected"}
    BY <1>i DEF AcceptPrepared, TypeOK
  <2>3. \A w : Placing(w)' \subseteq Placing(w) /\ Taking(w)' \subseteq Taking(w)
    BY <1>i, <2>1 DEF AcceptPrepared, TypeOK, Placing, Taking, Waiting,
       callVars
  <2>4. ASSUME NEW w \in Users, NEW d \in timers'[w]
        PROVE  place'[d] = "done" /\ from'[d] = w
    BY <1>i, <2>1, <2>4 DEF AcceptPrepared, TaskInv, TaskOf, TypeOK, ringVars
  <2>5. QED
    BY <2>1, <2>2, <2>3, <2>4, TaskSame DEF TaskInv
<1>j. ASSUME NEW c \in Calls, AcceptDescribed(c)
      PROVE  TaskInv'
  <2>1. UNCHANGED <<from, to, pend, cut>>
    BY <1>j DEF AcceptDescribed, callVars, offVars
  <2>2. \A w \in Users : state'[w] = state[w] \/ state'[w] \in {"connecting", "connected"}
    BY <1>j DEF AcceptDescribed, TypeOK
  <2>3. \A w : Placing(w)' \subseteq Placing(w) /\ Taking(w)' \subseteq Taking(w)
    BY <1>j, <2>1 DEF AcceptDescribed, TypeOK, Placing, Taking, Waiting,
       callVars
  <2>4. ASSUME NEW w \in Users, NEW d \in timers'[w]
        PROVE  place'[d] = "done" /\ from'[d] = w
    BY <1>j, <2>1, <2>4 DEF AcceptDescribed, TaskInv, TaskOf, TypeOK, ringVars
  <2>5. QED
    BY <2>1, <2>2, <2>3, <2>4, TaskSame DEF TaskInv
<1>k. ASSUME NEW c \in Calls, SendAnswer(c)
      PROVE  TaskInv'
  <2>1. UNCHANGED <<from, to, pend, cut>>
    BY <1>k DEF SendAnswer, callVars
  <2>2. \A w \in Users : state'[w] = state[w] \/ state'[w] \in {"connecting", "connected"}
    BY <1>k DEF SendAnswer, TypeOK
  <2>3. \A w : Placing(w)' \subseteq Placing(w) /\ Taking(w)' \subseteq Taking(w)
    BY <1>k, <2>1 DEF SendAnswer, TypeOK, Placing, Taking, Waiting, callVars
  <2>4. ASSUME NEW w \in Users, NEW d \in timers'[w]
        PROVE  place'[d] = "done" /\ from'[d] = w
    BY <1>k, <2>1, <2>4 DEF SendAnswer, TaskInv, TaskOf, TypeOK, ringVars
  <2>5. QED
    BY <2>1, <2>2, <2>3, <2>4, TaskSame DEF TaskInv
<1>m. ASSUME NEW u \in Users, Decline(u)
      PROVE  TaskInv'
  <2>1. EndCall(u, NoCall)
    BY <1>m DEF Decline, DeclineCall
  <2>2. NoCall \notin Placing(u)' \cup Taking(u)'
    BY <1>m, <2>1, NoCallIsNone DEF Decline, Placing, Taking, Waiting, EndCall,
       callVars, TypeOK
  <2>3. \A d \in Calls : /\ place'[d] = place[d] \/ place'[d] = "done"
                         /\ take'[d] = take[d] \/ take'[d] = "done"
    BY <1>m DEF Decline, DeclineCall, TypeOK
  <2>4. QED
    BY <2>1, <2>2, <2>3, EndTask
<1>n. ASSUME NEW c \in Calls, AcceptFails(c)
      PROVE  TaskInv'
  <2>1. PICK u \in Users : u = to[c]
    BY <1>n, Parties DEF AcceptFails
  <2>2. EndCall(u, c)
    BY <1>n, <2>1 DEF AcceptFails, DeclineCall
  <2>3. c \notin Placing(u)' \cup Taking(u)'
    BY <1>n, <2>1, <2>2, NoCallIsNone, Parties DEF AcceptFails, Placing,
       Taking, Waiting, EndCall, callVars, TypeOK
  <2>4. \A d \in Calls : /\ place'[d] = place[d] \/ place'[d] = "done"
                         /\ take'[d] = take[d] \/ take'[d] = "done"
    BY <1>n DEF AcceptFails, DeclineCall, TypeOK
  <2>5. QED
    BY <2>2, <2>3, <2>4, EndTask
<1>o. ASSUME NEW u \in Users, Receive(u)
      PROVE  TaskInv'
  <2> DEFINE c == Head(mail[u])[2]
  <2>1. CASE Head(mail[u])[1] = "incoming" /\ Incoming(u, c)
    <3>1. /\ UNCHANGED <<from, to, place, take, cut, timers>>
          /\ \A w \in Users \ {u} : state'[w] = state[w] /\ pend'[w] = pend[w]
          /\ state[u] # "idle" => state'[u] = state[u] /\ pend'[u] = pend[u]
      BY <2>1 DEF Incoming, Become, TypeOK, offVars, ringVars
    <3>2. \A w \in Users : Placing(w)' = Placing(w) /\ Taking(w)' = Taking(w)
      BY <3>1 DEF Placing, Taking
    <3>3. ASSUME state[u] = "idle"
          PROVE  (Placing(u) \cup Taking(u)) \ cut[u] = {}
      BY <3>3 DEF TaskInv, TaskOf, OnCall
    <3>4. QED
      BY <3>1, <3>2, <3>3 DEF TaskInv, TaskOf
  <2>2. CASE Answered(u)
    <3>1. UNCHANGED <<from, to, pend, cut, place, take>>
      BY <2>2 DEF Answered, callVars, offVars
    <3>2. \A w \in Users : state'[w] = state[w] \/ state'[w] = "connecting"
      BY <2>2 DEF Answered, Effect, Become, TypeOK
    <3>3. \A w \in Users : timers'[w] \subseteq timers[w]
      BY <2>2 DEF Answered, TypeOK
    <3>4. QED
      BY <3>1, <3>2, <3>3, TaskSame DEF TaskInv, TaskOf, Placing, Taking
  <2>3. CASE Ended(u)
    <3>1. NoCall \notin Placing(u)' \cup Taking(u)'
      BY NoCallIsNone DEF Placing, Taking
    <3>2. QED
      BY <2>3, <3>1, EndTask DEF Ended, TypeOK
  <2>4. QED
    BY <1>o, <2>1, <2>2, <2>3 DEF Receive
<1>p. ASSUME NEW u \in Users, Applied(u)
      PROVE  TaskInv'
  <2>1. UNCHANGED <<from, to, pend, cut>>
    BY <1>p DEF Applied, callVars, offVars
  <2>2. \A w \in Users : state'[w] = state[w] \/ state'[w] \in {"connecting", "connected"}
    BY <1>p DEF Applied, Effect, Become, TypeOK
  <2>3. \A w : Placing(w)' \subseteq Placing(w) /\ Taking(w)' \subseteq Taking(w)
    BY <1>p, <2>1 DEF Applied, Effect, Become, TypeOK, Placing, Taking,
       Waiting, callVars
  <2>4. ASSUME NEW w \in Users, NEW d \in timers'[w]
        PROVE  place'[d] = "done" /\ from'[d] = w
    BY <1>p, <2>1, <2>4 DEF Applied, TaskInv, TaskOf, TypeOK, ringVars
  <2>5. QED
    BY <2>1, <2>2, <2>3, <2>4, TaskSame DEF TaskInv
<1>q. ASSUME NEW u \in Users, HangUp(u)
      PROVE  TaskInv'
  <2>1. EndCall(u, NoCall)
    BY <1>q DEF HangUp
  <2>2. NoCall \notin Placing(u)' \cup Taking(u)'
    BY <1>q, <2>1, NoCallIsNone DEF HangUp, Placing, Taking, Waiting, EndCall,
       callVars, TypeOK
  <2>3. \A d \in Calls : /\ place'[d] = place[d] \/ place'[d] = "done"
                         /\ take'[d] = take[d] \/ take'[d] = "done"
    BY <1>q DEF HangUp, TypeOK
  <2>4. QED
    BY <2>1, <2>2, <2>3, EndTask
<1>r. ASSUME NEW u \in Users, NEW c \in Calls, IceConnected(u, c)
      PROVE  TaskInv'
  <2>1. UNCHANGED <<from, to, pend, cut>>
    BY <1>r DEF IceConnected, callVars, offVars
  <2>2. \A w \in Users : state'[w] = state[w] \/ state'[w] \in {"connecting", "connected"}
    BY <1>r DEF IceConnected, Become, TypeOK
  <2>3. \A w : Placing(w)' \subseteq Placing(w) /\ Taking(w)' \subseteq Taking(w)
    BY <1>r, <2>1 DEF IceConnected, Become, TypeOK, Placing, Taking, Waiting,
       callVars
  <2>4. ASSUME NEW w \in Users, NEW d \in timers'[w]
        PROVE  place'[d] = "done" /\ from'[d] = w
    BY <1>r, <2>1, <2>4 DEF IceConnected, TaskInv, TaskOf, TypeOK, ringVars
  <2>5. QED
    BY <2>1, <2>2, <2>3, <2>4, TaskSame DEF TaskInv
<1>s. ASSUME NEW u \in Users, NEW c \in Calls, IceFailed(u, c)
      PROVE  TaskInv'
  <2>1. EndCall(u, NoCall)
    BY <1>s DEF IceFailed
  <2>2. NoCall \notin Placing(u)' \cup Taking(u)'
    BY <1>s, <2>1, NoCallIsNone DEF IceFailed, Placing, Taking, Waiting,
       EndCall, callVars, TypeOK
  <2>3. \A d \in Calls : /\ place'[d] = place[d] \/ place'[d] = "done"
                         /\ take'[d] = take[d] \/ take'[d] = "done"
    BY <1>s DEF IceFailed, TypeOK
  <2>4. QED
    BY <2>1, <2>2, <2>3, EndTask
<1>w. ASSUME NEW u \in Users, AcceptNothing(u)
      PROVE  TaskInv'
  BY <1>w DEF AcceptNothing, callVars, offVars, ringVars, history,
              TaskInv, TaskOf, Placing, Taking
<1>t. CASE UNCHANGED vars
  BY <1>t DEF TaskInv, TaskOf, Placing, Taking, vars
<1>u. QED
  BY <1>a, <1>b, <1>c, <1>d, <1>e, <1>f, <1>g, <1>h, <1>i, <1>j, <1>k, <1>m,
     <1>n, <1>o, <1>p, <1>q, <1>r, <1>s, <1>t, <1>w DEF Next, Continue, Proceed

-----------------------------------------------------------------------------
(* The rest of the invariant: six actions end a call, the others do not. *)

Over(u, c) ==
  /\ EndCall(u, c)
  /\ \A d \in Calls : /\ from[d] = u \/ place'[d] = place[d]
                      /\ to[d] = u \/ take'[d] = take[d]
  /\ \A w \in Users \ {u} : /\ video'[w] = video[w]
                            /\ w \in alone => w \in alone'
  /\ video'[u] = "idle" \/ u \in alone'

Expires(u, c) ==
  /\ state[u] # "calling"
  /\ timers' = [timers EXCEPT ![u] = @ \ {c}]
  /\ UNCHANGED <<callVars, state, video, offVars, cur, link, place, take,
                 applying, ring, page, mail, cut, history>>

(* What AcceptNothing leaves: the page is in none of the properties. *)
Still == UNCHANGED <<callVars, state, video, offVars, cur, link, place, take,
                     applying, ringVars, mail, cut, history>>

Changes ==
  \/ \E u, v \in Users, c \in Calls : CallUser(u, v, c)
  \/ \E c \in Calls : \/ CallOpened(c) \/ CallPrepared(c) \/ SendCall(c)
                      \/ AcceptOpened(c) \/ AcceptPrepared(c)
                      \/ AcceptDescribed(c) \/ SendAnswer(c)
  \/ \E u \in Users, c \in Calls : \/ Expires(u, c) \/ Incoming(u, c)
                                   \/ IceConnected(u, c)
  \/ \E u \in Users : Accept(u) \/ Answered(u) \/ Applied(u)
  \/ \E u \in Users : \E c : Over(u, c)
  \/ Still

LEMMA NextChanges == TypeOK /\ PartyInv /\ [Next]_vars => Changes
<1> SUFFICES ASSUME TypeOK, PartyInv, Next
             PROVE  Changes
  BY DEF Changes, Still, vars, callVars, offVars, ringVars, history
<1>1. ASSUME NEW c \in Calls, CallFails(c)
      PROVE  Changes
  <2>1. PICK u \in Users : u = from[c]
    BY <1>1, Parties DEF CallFails
  <2>2. Over(u, c)
    BY <1>1, <2>1 DEF CallFails, ByItself, Over, TypeOK
  <2>3. QED
    BY <2>2 DEF Changes
<1>2. ASSUME NEW c \in Calls, RingTimeout(c)
      PROVE  Changes
  <2>1. PICK u \in Users : u = from[c]
    BY <1>2 DEF RingTimeout, PartyInv
  <2>2. CASE state[u] = "calling"
    <3>1. Over(u, c)
      BY <1>2, <2>1, <2>2 DEF RingTimeout, ByItself, Over, TypeOK
    <3>2. QED
      BY <3>1 DEF Changes
  <2>3. CASE state[u] # "calling"
    <3>1. Expires(u, c)
      BY <1>2, <2>1, <2>3 DEF RingTimeout, Expires
    <3>2. QED
      BY <3>1 DEF Changes
  <2>4. QED
    BY <2>2, <2>3
<1>3. ASSUME NEW c \in Calls, AcceptFails(c)
      PROVE  Changes
  <2>1. PICK u \in Users : u = to[c]
    BY <1>3, Parties DEF AcceptFails
  <2>2. Over(u, c)
    BY <1>3, <2>1 DEF AcceptFails, DeclineCall, ByItself, Over, TypeOK
  <2>3. QED
    BY <2>2 DEF Changes
<1>4. ASSUME NEW u \in Users, Decline(u) \/ HangUp(u)
      PROVE  Changes
  <2>1. Over(u, NoCall)
    BY <1>4 DEF Decline, DeclineCall, HangUp, ByItself, Over
  <2>2. QED
    BY <2>1 DEF Changes
<1>5. ASSUME NEW u \in Users, NEW c \in Calls, IceFailed(u, c)
      PROVE  Changes
  <2>1. Over(u, NoCall)
    BY <1>5 DEF IceFailed, ByItself, Over
  <2>2. QED
    BY <2>1 DEF Changes
<1>6. ASSUME NEW u \in Users, Receive(u)
      PROVE  Changes
  <2> DEFINE k == Head(mail[u])[1]
             d == Head(mail[u])[2]
  <2>1. ASSUME k = "incoming"
        PROVE  d \in Calls
    BY <1>6, <2>1, TailType DEF Receive, Messages, Endings
  <2>2. ASSUME Ended(u)
        PROVE  Over(u, NoCall)
    BY <2>2 DEF Ended, Over, TypeOK
  <2>3. QED
    BY <1>6, <2>1, <2>2 DEF Receive, Changes
<1>7. ASSUME NEW u \in Users, AcceptNothing(u)
      PROVE  Changes
  BY <1>7 DEF AcceptNothing, Still, Changes
<1>8. QED
  BY <1>1, <1>2, <1>3, <1>4, <1>5, <1>6, <1>7 DEF Next, Continue, Proceed,
     Changes

(* A user whom a step leaves alone. *)
Same(w) ==
  /\ Placing(w)' = Placing(w) /\ Taking(w)' = Taking(w)
  /\ Opening(w)' = Opening(w)
  /\ state'[w] = state[w] /\ video'[w] = video[w] /\ cur'[w] = cur[w]
  /\ link'[w] = link[w] /\ cut'[w] = cut[w] /\ applying'[w] = applying[w]
  /\ timers'[w] = timers[w]
  /\ w \in late => w \in late'
  /\ w \in alone => w \in alone'
  /\ w \in failed => w \in failed'

LEMMA SameUser == ASSUME NEW w, UserOf(w), Same(w) PROVE UserOf(w)'
<1>1. OpenOf(w)'
  BY DEF UserOf, Same, OpenOf
<1>2. StuckOf(w)' /\ VideoOf(w)' /\ CallingOf(w)'
  BY DEF UserOf, Same, StuckOf, VideoOf, CallingOf
<1>3. QED
  BY <1>1, <1>2 DEF UserOf

(* The functions of a user that wait depend on the user's own calls only. *)
LEMMA SameTasks ==
  ASSUME NEW w, UNCHANGED <<from, to>>,
         \A c \in Calls : /\ from[c] = w => place'[c] = place[c]
                          /\ to[c] = w => take'[c] = take[c]
  PROVE  /\ Placing(w)' = Placing(w) /\ Taking(w)' = Taking(w)
         /\ Opening(w)' = Opening(w)
<1>1. Placing(w)' = Placing(w) /\ Taking(w)' = Taking(w)
  BY DEF Placing, Taking
<1>2. QED
  BY <1>1 DEF Opening, Placing, Taking

LEMMA CallUserStep ==
  ASSUME TypeOK, PartyInv, TaskInv, PendInv, UserInv,
         NEW u \in Users, NEW v \in Users, NEW c \in Calls, CallUser(u, v, c)
  PROVE  UserInv'
<1> USE NoCallIsNone
<1>1. ASSUME NEW w \in Users \ {u}
      PROVE  Same(w)
  <2>1. place[c] = "none" /\ take[c] = "none"
    BY NoUserAssumption DEF CallUser, PartyInv
  <2>2. Placing(w)' = Placing(w) /\ Taking(w)' = Taking(w)
    BY <2>1 DEF CallUser, Placing, Taking, Waiting, TypeOK
  <2>3. Opening(w)' = Opening(w)
    BY <2>1, <2>2 DEF CallUser, Opening, Placing, Taking, Waiting,
       TypeOK
  <2>4. QED
    BY <2>2, <2>3 DEF Same, CallUser, Become, TypeOK, offVars, ringVars,
       history
<1>2. /\ state[u] = "idle" /\ state'[u] = "calling"
      /\ UNCHANGED <<cur, link, cut, applying>>
  BY DEF CallUser, Become, TypeOK, history, offVars
<1>3. c \in Placing(u)' /\ c \in Opening(u)'
  BY NoUserAssumption DEF CallUser, Placing, Opening, Waiting, TypeOK
<1>4. UserOf(u)'
  <2>1. OpenOf(u)'
    BY <1>2, <1>3 DEF UserInv, UserOf, OpenOf, TypeOK
  <2>2. StuckOf(u)' /\ VideoOf(u)' /\ CallingOf(u)'
    BY <1>2, <1>3 DEF UserInv, UserOf, OpenOf, StuckOf, VideoOf,
       CallingOf, OnCall, TypeOK
  <2>3. QED
    BY <2>1, <2>2 DEF UserOf
<1>5. QED
  BY <1>1, <1>4, SameUser DEF UserInv

LEMMA CallOpenedStep ==
  ASSUME TypeOK, PartyInv, TaskInv, PendInv, UserInv,
         NEW c \in Calls, CallOpened(c)
  PROVE  UserInv'
<1> USE NoCallIsNone
<1>1. PICK u \in Users : u = from[c]
  BY Parties DEF CallOpened, Waiting
<1>2. ASSUME NEW w \in Users \ {u}
      PROVE  Same(w)
  <2>1. UNCHANGED <<from, to>>
    BY DEF CallOpened, callVars
  <2>2. \A d \in Calls : /\ from[d] = w => place'[d] = place[d]
                         /\ to[d] = w => take'[d] = take[d]
    BY <1>1, PartyInv DEF CallOpened, PartyInv, TypeOK
  <2>3. QED
    BY <1>1, <2>1, <2>2, SameTasks DEF Same, CallOpened, Become, Effect,
       TypeOK, callVars, offVars, ringVars, history
<1>3. /\ cur'[u] = c /\ link'[u][c] = "new"
      /\ \A d \in Calls \ {c} : link'[u][d] = link[u][d]
      /\ UNCHANGED <<state, video, cut, alone, failed>>
  BY <1>1, NoCallIsNone DEF CallOpened, TypeOK, history
<1>4. c \in Opening(u)
  BY <1>1, NoCallIsNone DEF CallOpened, Opening, Placing, Taking,
     Waiting, TypeOK, callVars
<1>5. c \in Placing(u) /\ c \in Placing(u)'
  BY <1>1, NoCallIsNone DEF CallOpened, Placing, Taking, Waiting, TypeOK,
     callVars
<1>6. c \notin cut[u] => state[u] \in OnCall
  BY <1>5 DEF TaskInv, TaskOf, OnCall
<1>7. Opening(u)' # {} => cut[u] # {}
  <2>1. ASSUME NEW d \in Opening(u)', cut[u] = {}
        PROVE  FALSE
    <3>1. d \in Opening(u) /\ d # c
      BY <1>1, Parties, <2>1 DEF CallOpened, Opening, Placing, Taking, Waiting,
         TypeOK, callVars
    <3>2. d \in Placing(u) \cup Taking(u)
      BY <3>1 DEF Opening
    <3>3. QED
      BY <1>5, <2>1, <3>1, <3>2 DEF TaskInv, TaskOf
  <2>2. QED
    BY <2>1
<1>8. UserOf(u)'
  <2>1. OpenOf(u)'
    <3>1. ASSUME NEW d \in Calls, link'[u][d] \in Live,
                 d # c \/ state'[u] \in {"idle", "ringing"}
          PROVE  cut'[u] # {}
      <4>1. CASE d = c
        BY <1>3, <1>4, <1>5, <1>6, <1>7, <3>1, <4>1 DEF OnCall
      <4>2. CASE d # c
        <5>1. link[u][d] \in Live
          BY <1>3, <1>4, <1>5, <1>6, <1>7, <3>1, <4>2
        <5>2. CASE d # cur[u]
          BY <1>3, <1>4, <1>5, <1>6, <1>7, <5>1, <5>2 DEF UserInv, UserOf,
             OpenOf
        <5>3. CASE d = cur[u]
          BY <1>3, <1>4, <1>5, <1>6, <1>7, <5>1, <5>3 DEF UserInv, UserOf,
             OpenOf
        <5>4. QED
          BY <5>2, <5>3
      <4>3. QED
        BY <4>1, <4>2
    <3>2. QED
      BY <1>3, <1>4, <1>5, <1>6, <1>7, <3>1 DEF OpenOf
  <2>2. StuckOf(u)' /\ VideoOf(u)' /\ CallingOf(u)'
    BY <1>3, <1>4, <1>5, <1>6, <1>7 DEF UserInv, UserOf, StuckOf, VideoOf,
       CallingOf
  <2>3. QED
    BY <2>1, <2>2 DEF UserOf
<1>9. QED
  BY <1>2, <1>8, SameUser DEF UserInv

LEMMA CallPreparedStep ==
  ASSUME TypeOK, PartyInv, TaskInv, PendInv, UserInv,
         NEW c \in Calls, CallPrepared(c)
  PROVE  UserInv'
<1> USE NoCallIsNone
<1>1. PICK u \in Users : u = from[c]
  BY Parties DEF CallPrepared, Waiting
<1>2. ASSUME NEW w \in Users \ {u}
      PROVE  Same(w)
  <2>1. UNCHANGED <<from, to>>
    BY DEF CallPrepared, callVars
  <2>2. \A d \in Calls : /\ from[d] = w => place'[d] = place[d]
                         /\ to[d] = w => take'[d] = take[d]
    BY <1>1, PartyInv DEF CallPrepared, PartyInv, TypeOK
  <2>3. QED
    BY <1>1, <2>1, <2>2, SameTasks DEF Same, CallPrepared, Become, Effect,
       TypeOK, callVars, offVars, ringVars, history
<1>3. /\ cur'[u] = cur[u] /\ link'[u][cur[u]] = "offer" /\ link[u][cur[u]] \in Live
      /\ cur[u] # NoCall
      /\ \A d \in Calls \ {cur[u]} : link'[u][d] = link[u][d]
      /\ UNCHANGED <<state, video, cut, late, alone, failed, applying, timers>>
  BY <1>1, NoCallIsNone DEF CallPrepared, TypeOK, history, ringVars
<1>4. Opening(u)' = Opening(u) /\ c \in Placing(u)'
  BY <1>1, NoCallIsNone DEF CallPrepared, Opening, Placing, Taking, Waiting,
     TypeOK, callVars
<1>5. UserOf(u)'
  <2>1. OpenOf(u)'
    BY <1>3, <1>4 DEF UserInv, UserOf, OpenOf, TypeOK, Live
  <2>2. StuckOf(u)' /\ VideoOf(u)' /\ CallingOf(u)'
    BY <1>3, <1>4 DEF UserInv, UserOf, OpenOf, StuckOf, VideoOf, CallingOf,
       OnCall, TypeOK, Live
  <2>3. QED
    BY <2>1, <2>2 DEF UserOf
<1>6. QED
  BY <1>2, <1>5, SameUser DEF UserInv

LEMMA SendCallStep ==
  ASSUME TypeOK, PartyInv, TaskInv, PendInv, UserInv,
         NEW c \in Calls, SendCall(c)
  PROVE  UserInv'
<1> USE NoCallIsNone
<1>1. PICK u \in Users : u = from[c]
  BY Parties DEF SendCall, Waiting
<1>2. ASSUME NEW w \in Users \ {u}
      PROVE  Same(w)
  <2>1. UNCHANGED <<from, to>>
    BY DEF SendCall, callVars
  <2>2. \A d \in Calls : /\ from[d] = w => place'[d] = place[d]
                         /\ to[d] = w => take'[d] = take[d]
    BY <1>1, PartyInv DEF SendCall, PartyInv, TypeOK
  <2>3. QED
    BY <1>1, <2>1, <2>2, SameTasks DEF Same, SendCall, Become, Effect, TypeOK,
       callVars, offVars, ringVars, history
<1>3. /\ UNCHANGED <<state, video, cut, late, alone, applying, cur, link>>
      /\ c \in timers'[u]
  BY <1>1, NoCallIsNone DEF SendCall, TypeOK, history
<1>4. Opening(u)' = Opening(u)
  BY <1>1, NoCallIsNone DEF SendCall, Opening, Placing, Taking,
     Waiting, TypeOK, callVars
<1>5. UserOf(u)'
  <2>1. OpenOf(u)'
    BY <1>3, <1>4 DEF UserInv, UserOf, OpenOf, TypeOK
  <2>2. StuckOf(u)' /\ VideoOf(u)' /\ CallingOf(u)'
    BY <1>3, <1>4 DEF UserInv, UserOf, OpenOf, StuckOf, VideoOf, CallingOf,
       OnCall, TypeOK
  <2>3. QED
    BY <2>1, <2>2 DEF UserOf
<1>6. QED
  BY <1>2, <1>5, SameUser DEF UserInv

LEMMA ExpiresStep ==
  ASSUME TypeOK, PartyInv, TaskInv, PendInv, UserInv,
         NEW u \in Users, NEW c \in Calls, Expires(u, c)
  PROVE  UserInv'
<1> USE NoCallIsNone
<1>1. ASSUME NEW w \in Users \ {u}
      PROVE  Same(w)
  <2>1. UNCHANGED <<from, to>>
    BY DEF Expires, callVars
  <2>2. \A d \in Calls : /\ from[d] = w => place'[d] = place[d]
                         /\ to[d] = w => take'[d] = take[d]
    BY PartyInv DEF Expires, PartyInv, TypeOK
  <2>3. QED
    BY <2>1, <2>2, SameTasks DEF Same, Expires, Become, Effect, TypeOK,
       callVars, offVars, ringVars, history
<1>2. /\ UNCHANGED <<state, video, cut, late, alone, applying, cur, link>>
      /\ state[u] # "calling"
  BY DEF Expires, history
<1>3. Opening(u)' = Opening(u)
  BY DEF Expires, Opening, Placing, Taking, callVars
<1>4. UserOf(u)'
  <2>1. OpenOf(u)'
    BY <1>2, <1>3 DEF UserInv, UserOf, OpenOf, TypeOK
  <2>2. StuckOf(u)' /\ VideoOf(u)' /\ CallingOf(u)'
    BY <1>2, <1>3 DEF UserInv, UserOf, OpenOf, StuckOf, VideoOf, CallingOf,
       OnCall, TypeOK
  <2>3. QED
    BY <2>1, <2>2 DEF UserOf
<1>5. QED
  BY <1>1, <1>4, SameUser DEF UserInv

LEMMA AcceptStep ==
  ASSUME TypeOK, PartyInv, TaskInv, PendInv, UserInv,
         NEW u \in Users, Accept(u)
  PROVE  UserInv'
<1> USE NoCallIsNone
<1>1. ASSUME NEW w \in Users \ {u}
      PROVE  Same(w)
  <2>1. UNCHANGED <<from, to>>
    BY DEF Accept, callVars
  <2>2. \A d \in Calls : /\ from[d] = w => place'[d] = place[d]
                         /\ to[d] = w => take'[d] = take[d]
    BY PartyInv DEF Accept, PartyInv, TypeOK
  <2>3. QED
    BY <2>1, <2>2, SameTasks DEF Same, Accept, Become, Effect, TypeOK,
       callVars, offVars, ringVars, history
<1>2. /\ UNCHANGED <<video, cut, late, alone, applying, cur, link>>
      /\ state[u] = "ringing" /\ state'[u] = "connecting"
  BY DEF Accept, Become, history, TypeOK
<1>3. pend[u] \in Calls /\ to[pend[u]] = u
  BY DEF Accept, PartyInv, TypeOK
<1>4. pend[u] \in Opening(u)'
  BY <1>3 DEF Accept, Opening, Placing, Taking, Waiting, callVars,
     TypeOK
<1>5. UserOf(u)'
  <2>1. OpenOf(u)'
    BY <1>2, <1>3, <1>4 DEF UserInv, UserOf, OpenOf, TypeOK
  <2>2. StuckOf(u)' /\ VideoOf(u)' /\ CallingOf(u)'
    BY <1>2, <1>3, <1>4 DEF UserInv, UserOf, OpenOf, StuckOf, VideoOf,
       CallingOf, OnCall, TypeOK
  <2>3. QED
    BY <2>1, <2>2 DEF UserOf
<1>6. QED
  BY <1>1, <1>5, SameUser DEF UserInv

LEMMA AcceptOpenedStep ==
  ASSUME TypeOK, PartyInv, TaskInv, PendInv, UserInv,
         NEW c \in Calls, AcceptOpened(c)
  PROVE  UserInv'
<1> USE NoCallIsNone
<1>1. PICK u \in Users : u = to[c]
  BY Parties DEF AcceptOpened, Waiting
<1>2. ASSUME NEW w \in Users \ {u}
      PROVE  Same(w)
  <2>1. UNCHANGED <<from, to>>
    BY DEF AcceptOpened, callVars
  <2>2. \A d \in Calls : /\ from[d] = w => place'[d] = place[d]
                         /\ to[d] = w => take'[d] = take[d]
    BY <1>1, PartyInv DEF AcceptOpened, PartyInv, TypeOK
  <2>3. QED
    BY <1>1, <2>1, <2>2, SameTasks DEF Same, AcceptOpened, Become, Effect,
       TypeOK, callVars, offVars, ringVars, history
<1>3. /\ cur'[u] = c /\ link'[u][c] = "new"
      /\ \A d \in Calls \ {c} : link'[u][d] = link[u][d]
      /\ UNCHANGED <<state, video, cut, alone, failed>>
  BY <1>1, NoCallIsNone DEF AcceptOpened, TypeOK, history
<1>4. c \in Opening(u)
  BY <1>1, NoCallIsNone DEF AcceptOpened, Opening, Placing, Taking,
     Waiting, TypeOK, callVars
<1>5. c \in Taking(u) /\ c \in Taking(u)'
  BY <1>1, NoCallIsNone DEF AcceptOpened, Placing, Taking, Waiting, TypeOK,
     callVars
<1>6. c \notin cut[u] => state[u] \in OnCall
  BY <1>5 DEF TaskInv, TaskOf, OnCall
<1>7. Opening(u)' # {} => cut[u] # {}
  <2>1. ASSUME NEW d \in Opening(u)', cut[u] = {}
        PROVE  FALSE
    <3>1. d \in Opening(u) /\ d # c
      BY <1>1, Parties, <2>1 DEF AcceptOpened, Opening, Placing, Taking,
         Waiting, TypeOK, callVars
    <3>2. d \in Placing(u) \cup Taking(u)
      BY <3>1 DEF Opening
    <3>3. QED
      BY <1>5, <2>1, <3>1, <3>2 DEF TaskInv, TaskOf
  <2>2. QED
    BY <2>1
<1>8. UserOf(u)'
  <2>1. OpenOf(u)'
    <3>1. ASSUME NEW d \in Calls, link'[u][d] \in Live,
                 d # c \/ state'[u] \in {"idle", "ringing"}
          PROVE  cut'[u] # {}
      <4>1. CASE d = c
        BY <1>3, <1>4, <1>5, <1>6, <1>7, <3>1, <4>1 DEF OnCall
      <4>2. CASE d # c
        <5>1. link[u][d] \in Live
          BY <1>3, <1>4, <1>5, <1>6, <1>7, <3>1, <4>2
        <5>2. CASE d # cur[u]
          BY <1>3, <1>4, <1>5, <1>6, <1>7, <5>1, <5>2 DEF UserInv, UserOf,
             OpenOf
        <5>3. CASE d = cur[u]
          BY <1>3, <1>4, <1>5, <1>6, <1>7, <5>1, <5>3 DEF UserInv, UserOf,
             OpenOf
        <5>4. QED
          BY <5>2, <5>3
      <4>3. QED
        BY <4>1, <4>2
    <3>2. QED
      BY <1>3, <1>4, <1>5, <1>6, <1>7, <3>1 DEF OpenOf
  <2>2. StuckOf(u)' /\ VideoOf(u)' /\ CallingOf(u)'
    BY <1>3, <1>4, <1>5, <1>6, <1>7 DEF UserInv, UserOf, StuckOf, VideoOf,
       CallingOf
  <2>3. QED
    BY <2>1, <2>2 DEF UserOf
<1>9. QED
  BY <1>2, <1>8, SameUser DEF UserInv

LEMMA AcceptPreparedStep ==
  ASSUME TypeOK, PartyInv, TaskInv, PendInv, UserInv,
         NEW c \in Calls, AcceptPrepared(c)
  PROVE  UserInv'
<1> USE NoCallIsNone
<1>1. PICK u \in Users : u = to[c]
  BY Parties DEF AcceptPrepared, Waiting
<1>2. ASSUME NEW w \in Users \ {u}
      PROVE  Same(w)
  <2>1. UNCHANGED <<from, to>>
    BY DEF AcceptPrepared, callVars
  <2>2. \A d \in Calls : /\ from[d] = w => place'[d] = place[d]
                         /\ to[d] = w => take'[d] = take[d]
    BY <1>1, PartyInv DEF AcceptPrepared, PartyInv, TypeOK
  <2>3. QED
    BY <1>1, <2>1, <2>2, SameTasks DEF Same, AcceptPrepared, Become, Effect,
       TypeOK, callVars, offVars, ringVars, history
<1>3. /\ UNCHANGED <<state, video, cut, late, alone, failed, applying, cur, link,
                  timers>>
  BY DEF AcceptPrepared, history, ringVars
<1>4. Opening(u)' = Opening(u)
  BY <1>1, NoCallIsNone DEF AcceptPrepared, Opening, Placing,
     Taking, Waiting, TypeOK, callVars
<1>5. Placing(u)' = Placing(u) /\ Taking(u)' = Taking(u)
  BY <1>1, NoCallIsNone DEF AcceptPrepared, Placing, Taking, Waiting, TypeOK,
     callVars
<1>6. UserOf(u)'
  <2>1. OpenOf(u)'
    BY <1>3, <1>4, <1>5 DEF UserInv, UserOf, OpenOf, TypeOK
  <2>2. StuckOf(u)' /\ VideoOf(u)' /\ CallingOf(u)'
    BY <1>3, <1>4, <1>5 DEF UserInv, UserOf, OpenOf, StuckOf, VideoOf,
       CallingOf, OnCall, TypeOK
  <2>3. QED
    BY <2>1, <2>2 DEF UserOf
<1>7. QED
  BY <1>2, <1>6, SameUser DEF UserInv

LEMMA AcceptDescribedStep ==
  ASSUME TypeOK, PartyInv, TaskInv, PendInv, UserInv,
         NEW c \in Calls, AcceptDescribed(c)
  PROVE  UserInv'
<1> USE NoCallIsNone
<1>1. PICK u \in Users : u = to[c]
  BY Parties DEF AcceptDescribed, Waiting
<1>2. ASSUME NEW w \in Users \ {u}
      PROVE  Same(w)
  <2>1. UNCHANGED <<from, to>>
    BY DEF AcceptDescribed, callVars
  <2>2. \A d \in Calls : /\ from[d] = w => place'[d] = place[d]
                         /\ to[d] = w => take'[d] = take[d]
    BY <1>1, PartyInv DEF AcceptDescribed, PartyInv, TypeOK
  <2>3. QED
    BY <1>1, <2>1, <2>2, SameTasks DEF Same, AcceptDescribed, Become, Effect,
       TypeOK, callVars, offVars, ringVars, history
<1>3. /\ cur'[u] = cur[u] /\ link'[u][cur[u]] = "paired" /\ link[u][cur[u]] \in Live
      /\ cur[u] # NoCall /\ state[u] \notin {"idle", "calling"}
      /\ \A d \in Calls \ {cur[u]} : link'[u][d] = link[u][d]
      /\ UNCHANGED <<state, video, cut, late, alone, failed, applying, timers>>
  BY <1>1, NoCallIsNone DEF AcceptDescribed, PendInv, TypeOK, history,
     ringVars
<1>4. Opening(u)' = Opening(u)
  BY <1>1, NoCallIsNone DEF AcceptDescribed, Opening, Placing, Taking,
     Waiting, TypeOK, callVars
<1>5. UserOf(u)'
  <2>1. OpenOf(u)'
    BY <1>3, <1>4 DEF UserInv, UserOf, OpenOf, TypeOK, Live
  <2>2. StuckOf(u)' /\ VideoOf(u)' /\ CallingOf(u)'
    BY <1>3, <1>4 DEF UserInv, UserOf, OpenOf, StuckOf, VideoOf, CallingOf,
       OnCall, TypeOK, Live
  <2>3. QED
    BY <2>1, <2>2 DEF UserOf
<1>6. QED
  BY <1>2, <1>5, SameUser DEF UserInv

LEMMA SendAnswerStep ==
  ASSUME TypeOK, PartyInv, TaskInv, PendInv, UserInv,
         NEW c \in Calls, SendAnswer(c)
  PROVE  UserInv'
<1> USE NoCallIsNone
<1>1. PICK u \in Users : u = to[c]
  BY Parties DEF SendAnswer, Waiting
<1>2. ASSUME NEW w \in Users \ {u}
      PROVE  Same(w)
  <2>1. UNCHANGED <<from, to>>
    BY DEF SendAnswer, callVars
  <2>2. \A d \in Calls : /\ from[d] = w => place'[d] = place[d]
                         /\ to[d] = w => take'[d] = take[d]
    BY <1>1, PartyInv DEF SendAnswer, PartyInv, TypeOK
  <2>3. QED
    BY <1>1, <2>1, <2>2, SameTasks DEF Same, SendAnswer, Become, Effect,
       TypeOK, callVars, offVars, ringVars, history
<1>3. /\ UNCHANGED <<state, video, cut, late, alone, failed, applying, cur, link,
                  timers>>
      /\ state[u] \notin {"idle", "calling"}
  BY <1>1, NoCallIsNone DEF SendAnswer, PendInv, TypeOK, ringVars
<1>4. Opening(u)' = Opening(u)
  BY <1>1, NoCallIsNone DEF SendAnswer, Opening, Placing, Taking,
     Waiting, TypeOK, callVars
<1>5. UserOf(u)'
  <2>1. OpenOf(u)'
    BY <1>3, <1>4 DEF UserInv, UserOf, OpenOf, TypeOK
  <2>2. StuckOf(u)' /\ VideoOf(u)' /\ CallingOf(u)'
    BY <1>3, <1>4 DEF UserInv, UserOf, OpenOf, StuckOf, VideoOf, CallingOf,
       OnCall, TypeOK
  <2>3. QED
    BY <2>1, <2>2 DEF UserOf
<1>6. QED
  BY <1>2, <1>5, SameUser DEF UserInv

LEMMA IncomingStep ==
  ASSUME TypeOK, PartyInv, TaskInv, PendInv, UserInv,
         NEW u \in Users, NEW c \in Calls, Incoming(u, c)
  PROVE  UserInv'
<1> USE NoCallIsNone
<1>1. ASSUME NEW w \in Users \ {u}
      PROVE  Same(w)
  <2>1. UNCHANGED <<from, to>>
    BY DEF Incoming, callVars
  <2>2. \A d \in Calls : /\ from[d] = w => place'[d] = place[d]
                         /\ to[d] = w => take'[d] = take[d]
    BY PartyInv DEF Incoming, PartyInv, TypeOK
  <2>3. QED
    BY <2>1, <2>2, SameTasks DEF Same, Incoming, Become, Effect, TypeOK,
       callVars, offVars, ringVars, history
<1>2. /\ UNCHANGED <<cut, late, alone, failed, applying, cur, link, timers>>
      /\ \/ state'[u] = "ringing" /\ state[u] = "idle"
         \/ state'[u] = state[u] /\ state[u] # "idle"
  BY DEF Incoming, Become, history, ringVars, TypeOK
<1>3. /\ Placing(u)' = Placing(u) /\ Taking(u)' = Taking(u)
      /\ Opening(u)' = Opening(u)
  BY SameTasks DEF Incoming, callVars
<1>4. UserOf(u)'
  <2>1. OpenOf(u)'
    <3>1. OpenOf(u)
      BY DEF UserInv, UserOf
    <3>2. UNCHANGED <<cut, cur, link, Opening(u)>>
      BY <1>2, <1>3
    <3>3. state'[u] \in {"idle", "ringing"} <=> state[u] \in {"idle", "ringing"}
      BY <1>2
    <3>4. QED
      BY <3>1, <3>2, <3>3 DEF OpenOf
  <2>2. StuckOf(u)' /\ VideoOf(u)' /\ CallingOf(u)'
    BY <1>2, <1>3 DEF UserInv, UserOf, OpenOf, StuckOf, VideoOf, CallingOf,
       OnCall, TypeOK
  <2>3. QED
    BY <2>1, <2>2 DEF UserOf
<1>5. QED
  BY <1>1, <1>4, SameUser DEF UserInv

LEMMA AnsweredStep ==
  ASSUME TypeOK, PartyInv, TaskInv, PendInv, UserInv,
         NEW u \in Users, Answered(u)
  PROVE  UserInv'
<1> USE NoCallIsNone
<1>1. ASSUME NEW w \in Users \ {u}
      PROVE  Same(w)
  <2>1. UNCHANGED <<from, to>>
    BY DEF Answered, callVars
  <2>2. \A d \in Calls : /\ from[d] = w => place'[d] = place[d]
                         /\ to[d] = w => take'[d] = take[d]
    BY PartyInv DEF Answered, PartyInv, TypeOK
  <2>3. QED
    BY <2>1, <2>2, SameTasks DEF Same, Answered, Become, Effect, TypeOK,
       callVars, offVars, ringVars, history
<1>2. /\ UNCHANGED <<cur, cut, alone>>
      /\ late \subseteq late' /\ failed \subseteq failed'
      /\ video'[u] \in {video[u], "connecting"}
  BY DEF Answered, Effect, TypeOK
<1>3. /\ Placing(u)' = Placing(u) /\ Taking(u)' = Taking(u)
      /\ Opening(u)' = Opening(u)
  BY SameTasks DEF Answered, callVars
<1>4. \/ /\ cur[u] = NoCall /\ state'[u] = "connecting" /\ UNCHANGED link
         /\ state[u] # "calling" => u \in late'
      \/ /\ cur[u] # NoCall /\ UNCHANGED state /\ link[u][cur[u]] = "offer"
         /\ link'[u][cur[u]] = "paired" /\ applying'[u] > 0
         /\ \A d \in Calls \ {cur[u]} : link'[u][d] = link[u][d]
      \/ /\ u \in failed' /\ UNCHANGED <<state, link, applying>>
         /\ cur[u] # NoCall \/ video'[u] = video[u]
  BY DEF Answered, Effect, Become, TypeOK
<1>5. UserOf(u)'
  <2>1. cur[u] # NoCall => link[u][cur[u]] \in Live
    BY DEF TypeOK
  <2>2. OpenOf(u)'
    BY <1>2, <1>3, <1>4, <2>1 DEF UserInv, UserOf, OpenOf, TypeOK, Live
  <2>3. StuckOf(u)'
    BY <1>2, <1>3, <1>4, <2>1 DEF UserInv, UserOf, StuckOf, OnCall
  <2>4. VideoOf(u)'
    BY <1>2, <1>3, <1>4, <2>1 DEF UserInv, UserOf, OpenOf, VideoOf, TypeOK
  <2>5. CallingOf(u)'
    BY <1>2, <1>3, <1>4, <2>1 DEF UserInv, UserOf, CallingOf, Live, TypeOK
  <2>6. QED
    BY <2>2, <2>3, <2>4, <2>5 DEF UserOf
<1>6. QED
  BY <1>1, <1>5, SameUser DEF UserInv

LEMMA AppliedStep ==
  ASSUME TypeOK, PartyInv, TaskInv, PendInv, UserInv,
         NEW u \in Users, Applied(u)
  PROVE  UserInv'
<1> USE NoCallIsNone
<1>1. ASSUME NEW w \in Users \ {u}
      PROVE  Same(w)
  <2>1. UNCHANGED <<from, to>>
    BY DEF Applied, callVars
  <2>2. \A d \in Calls : /\ from[d] = w => place'[d] = place[d]
                         /\ to[d] = w => take'[d] = take[d]
    BY PartyInv DEF Applied, PartyInv, TypeOK
  <2>3. QED
    BY <2>1, <2>2, SameTasks DEF Same, Applied, Become, Effect, TypeOK,
       callVars, offVars, ringVars, history
<1>2. /\ UNCHANGED <<cut, alone, cur, link, timers, video>> /\ late \subseteq late'
      /\ state'[u] = "connecting"
      /\ state[u] # "calling" => u \in late'
  BY DEF Applied, Effect, Become, ringVars, TypeOK
<1>3. /\ Placing(u)' = Placing(u) /\ Taking(u)' = Taking(u)
      /\ Opening(u)' = Opening(u)
  BY SameTasks DEF Applied, callVars
<1>4. UserOf(u)'
  <2>1. OpenOf(u)'
    BY <1>2, <1>3 DEF UserInv, UserOf, OpenOf, TypeOK
  <2>2. StuckOf(u)' /\ VideoOf(u)' /\ CallingOf(u)'
    BY <1>2, <1>3 DEF UserInv, UserOf, OpenOf, StuckOf, VideoOf, CallingOf,
       OnCall, TypeOK
  <2>3. QED
    BY <2>1, <2>2 DEF UserOf
<1>5. QED
  BY <1>1, <1>4, SameUser DEF UserInv

LEMMA IceConnectedStep ==
  ASSUME TypeOK, PartyInv, TaskInv, PendInv, UserInv,
         NEW u \in Users, NEW c \in Calls, IceConnected(u, c)
  PROVE  UserInv'
<1> USE NoCallIsNone
<1>1. ASSUME NEW w \in Users \ {u}
      PROVE  Same(w)
  <2>1. UNCHANGED <<from, to>>
    BY DEF IceConnected, callVars
  <2>2. \A d \in Calls : /\ from[d] = w => place'[d] = place[d]
                         /\ to[d] = w => take'[d] = take[d]
    BY PartyInv DEF IceConnected, PartyInv, TypeOK
  <2>3. QED
    BY <2>1, <2>2, SameTasks DEF Same, IceConnected, Become, Effect, TypeOK,
       callVars, offVars, ringVars, history
<1>2. /\ UNCHANGED <<cut, late, alone, applying, cur, link, timers, video>>
      /\ state'[u] = "connected" /\ link[u][c] \in Live
  BY DEF IceConnected, Become, history, ringVars, TypeOK, Live
<1>3. /\ Placing(u)' = Placing(u) /\ Taking(u)' = Taking(u)
      /\ Opening(u)' = Opening(u)
  BY SameTasks DEF IceConnected, callVars
<1>4. UserOf(u)'
  <2>1. OpenOf(u)'
    BY <1>2, <1>3 DEF UserInv, UserOf, OpenOf, TypeOK
  <2>2. StuckOf(u)' /\ VideoOf(u)' /\ CallingOf(u)'
    BY <1>2, <1>3 DEF UserInv, UserOf, OpenOf, StuckOf, VideoOf, CallingOf,
       OnCall, TypeOK
  <2>3. QED
    BY <2>1, <2>2 DEF UserOf
<1>5. QED
  BY <1>1, <1>4, SameUser DEF UserInv

LEMMA OverStep ==
  ASSUME TypeOK, PartyInv, TaskInv, PendInv, UserInv,
         NEW u \in Users, NEW c, Over(u, c)
  PROVE  UserInv'
<1> USE NoCallIsNone
<1>1. ASSUME NEW w \in Users \ {u}
      PROVE  Same(w)
  <2>1. UNCHANGED <<from, to>>
    BY DEF Over, EndCall, callVars
  <2>2. \A d \in Calls : /\ from[d] = w => place'[d] = place[d]
                         /\ to[d] = w => take'[d] = take[d]
    BY DEF Over
  <2>3. /\ state'[w] = state[w] /\ cur'[w] = cur[w] /\ link'[w] = link[w]
        /\ cut'[w] = cut[w] /\ timers'[w] = timers[w]
        /\ UNCHANGED <<applying, late, failed>>
    BY Ends DEF Over
  <2>4. QED
    BY <2>1, <2>2, <2>3, SameTasks DEF Same, Over
<1>2. /\ state'[u] = "idle" /\ cur'[u] = NoCall /\ cut[u] \subseteq cut'[u]
      /\ \A d \in Calls : link'[u][d] = IF d = cur[u] THEN "closed" ELSE link[u][d]
      /\ video'[u] = "idle" \/ u \in alone'
  BY Ends DEF Over
<1>3. UserOf(u)'
  <2>1. OpenOf(u)'
    <3>1. OpenOf(u)
      BY DEF UserInv, UserOf
    <3>2. QED
      BY <1>2, <3>1 DEF OpenOf, Live
  <2>2. StuckOf(u)' /\ VideoOf(u)' /\ CallingOf(u)'
    BY <1>2 DEF UserInv, UserOf, OpenOf, StuckOf, VideoOf, CallingOf, OnCall,
       TypeOK, Live
  <2>3. QED
    BY <2>1, <2>2 DEF UserOf
<1>4. QED
  BY <1>1, <1>3, SameUser DEF UserInv

LEMMA UserStep ==
  TypeOK /\ PartyInv /\ TaskInv /\ PendInv /\ UserInv /\ [Next]_vars => UserInv'
<1> SUFFICES ASSUME TypeOK, PartyInv, TaskInv, PendInv, UserInv, Changes
             PROVE  UserInv'
  BY NextChanges
<1>1. ASSUME Still
      PROVE  UserInv'
  <2>1. ASSUME NEW u \in Users
        PROVE  Same(u)
    BY <1>1, SameTasks DEF Same, Still, callVars, ringVars, history
  <2>2. QED
    BY <2>1, SameUser DEF UserInv
<1>2. QED
  BY <1>1, CallUserStep, CallOpenedStep, CallPreparedStep, SendCallStep,
     ExpiresStep, AcceptStep, AcceptOpenedStep, AcceptPreparedStep,
     AcceptDescribedStep, SendAnswerStep, IncomingStep, AnsweredStep,
     AppliedStep, IceConnectedStep, OverStep DEF Changes

LEMMA AnswerStep ==
  TypeOK /\ PartyInv /\ TaskInv /\ AnsweredIsAccepted /\ [Next]_vars =>
     AnsweredIsAccepted'
<1> SUFFICES ASSUME TypeOK, PartyInv, TaskInv, AnsweredIsAccepted, Changes
             PROVE  AnsweredIsAccepted'
  BY NextChanges
<1> USE NoCallIsNone
<1>a. ASSUME NEW u \in Users, NEW v \in Users, NEW c \in Calls, CallUser(u, v, c)
      PROVE  AnsweredIsAccepted'
  BY <1>a DEF AnsweredIsAccepted, Effect, TypeOK, callVars, offVars, ringVars,
     history, PartyInv, CallUser
<1>b. ASSUME NEW c \in Calls, CallOpened(c)
      PROVE  AnsweredIsAccepted'
  <2>1. PICK u \in Users : u = from[c]
    BY <1>b, Parties DEF CallOpened, Waiting
  <2>2. QED
    BY <1>b, <2>1, Parties DEF AnsweredIsAccepted, Effect, TypeOK, callVars,
       offVars, ringVars, history, CallOpened
<1>c. ASSUME NEW c \in Calls, CallPrepared(c)
      PROVE  AnsweredIsAccepted'
  <2>1. PICK u \in Users : u = from[c]
    BY <1>c, Parties DEF CallPrepared, Waiting
  <2>2. QED
    BY <1>c, <2>1, Parties DEF AnsweredIsAccepted, Effect, TypeOK, callVars,
       offVars, ringVars, history, CallPrepared
<1>d. ASSUME NEW c \in Calls, SendCall(c)
      PROVE  AnsweredIsAccepted'
  <2>1. PICK u \in Users : u = from[c]
    BY <1>d, Parties DEF SendCall, Waiting
  <2>2. QED
    BY <1>d, <2>1, Parties DEF AnsweredIsAccepted, Effect, TypeOK, callVars,
       offVars, ringVars, history, SendCall
<1>e. ASSUME NEW u \in Users, NEW c \in Calls, Expires(u, c)
      PROVE  AnsweredIsAccepted'
  BY <1>e DEF AnsweredIsAccepted, Effect, TypeOK, callVars, offVars, ringVars,
     history, Expires
<1>f. ASSUME NEW u \in Users, Accept(u)
      PROVE  AnsweredIsAccepted'
  BY <1>f DEF AnsweredIsAccepted, Effect, TypeOK, callVars, offVars, ringVars,
     history, Accept
<1>g. ASSUME NEW c \in Calls, AcceptOpened(c)
      PROVE  AnsweredIsAccepted'
  <2>1. PICK u \in Users : u = to[c]
    BY <1>g, Parties DEF AcceptOpened, Waiting
  <2>2. QED
    BY <1>g, <2>1, Parties DEF AnsweredIsAccepted, Effect, TypeOK, callVars,
       offVars, ringVars, history, AcceptOpened
<1>h. ASSUME NEW c \in Calls, AcceptPrepared(c)
      PROVE  AnsweredIsAccepted'
  <2>1. PICK u \in Users : u = to[c]
    BY <1>h, Parties DEF AcceptPrepared, Waiting
  <2>2. QED
    BY <1>h, <2>1, Parties DEF AnsweredIsAccepted, Effect, TypeOK, callVars,
       offVars, ringVars, history, AcceptPrepared
<1>i. ASSUME NEW c \in Calls, AcceptDescribed(c)
      PROVE  AnsweredIsAccepted'
  <2>1. PICK u \in Users : u = to[c]
    BY <1>i, Parties DEF AcceptDescribed, Waiting
  <2>2. QED
    BY <1>i, <2>1, Parties DEF AnsweredIsAccepted, Effect, TypeOK, callVars,
       offVars, ringVars, history, AcceptDescribed
<1>j. ASSUME NEW c \in Calls, SendAnswer(c)
      PROVE  AnsweredIsAccepted'
  <2>1. PICK u \in Users : u = to[c]
    BY <1>j, Parties DEF SendAnswer, Waiting
  <2>2. QED
    BY <1>j, <2>1, Parties DEF AnsweredIsAccepted, TaskInv, TaskOf, Taking,
       Waiting, TypeOK, callVars, SendAnswer
<1>k. ASSUME NEW u \in Users, NEW c \in Calls, Incoming(u, c)
      PROVE  AnsweredIsAccepted'
  BY <1>k DEF AnsweredIsAccepted, Effect, TypeOK, callVars, offVars, ringVars,
     history, Incoming
<1>m. ASSUME NEW u \in Users, Answered(u)
      PROVE  AnsweredIsAccepted'
  BY <1>m DEF AnsweredIsAccepted, Effect, TypeOK, callVars, offVars, ringVars,
     history, Answered
<1>n. ASSUME NEW u \in Users, Applied(u)
      PROVE  AnsweredIsAccepted'
  BY <1>n DEF AnsweredIsAccepted, Effect, TypeOK, callVars, offVars, ringVars,
     history, Applied
<1>o. ASSUME NEW u \in Users, NEW c \in Calls, IceConnected(u, c)
      PROVE  AnsweredIsAccepted'
  BY <1>o DEF AnsweredIsAccepted, Effect, TypeOK, callVars, offVars, ringVars,
     history, IceConnected
<1>p. ASSUME NEW u \in Users, NEW c, Over(u, c)
      PROVE  AnsweredIsAccepted'
  <2>1. UNCHANGED <<answers, to>> /\ \A w \in Users : cut[w] \subseteq cut'[w]
    BY <1>p, Ends DEF Over
  <2>2. \A a, d \in Calls : <<a, d>> \in answers => to[a] \in Users
    BY DEF PartyInv
  <2>3. QED
    BY <2>1, <2>2 DEF AnsweredIsAccepted
<1>q. CASE Still
  BY <1>q DEF AnsweredIsAccepted, Still, callVars, history
<1>r. QED
  BY <1>a, <1>b, <1>c, <1>d, <1>e, <1>f, <1>g, <1>h, <1>i, <1>j, <1>k, <1>m,
     <1>n, <1>o, <1>p, <1>q DEF Changes

-----------------------------------------------------------------------------
(* The theorems. *)

LEMMA InitInv == Init => Inv
<1> SUFFICES ASSUME Init
             PROVE  Inv
  OBVIOUS
<1> USE NoCallIsNone
<1>1. TypeOK
  BY FormsAssumption DEF Init, TypeOK, States, PCs, Waiting, Links, Pages
<1>2. Placing(NoUser) = {} /\ \A u \in Users : Placing(u) = {} /\ Taking(u) = {}
  BY DEF Init, Placing, Taking, Waiting
<1>3. PartyInv /\ MailInv /\ PendInv /\ TaskInv
  BY <1>2 DEF Init, PartyInv, MailInv, For, PendInv, TaskInv, TaskOf
<1>4. UserInv
  BY <1>2 DEF Init, UserInv, UserOf, OpenOf, StuckOf, VideoOf,
              CallingOf, OnCall, Opening, Live
<1>5. AnsweredIsAccepted
  BY DEF Init, AnsweredIsAccepted
<1>6. QED
  BY <1>1, <1>3, <1>4, <1>5 DEF Inv

LEMMA Inductive == Inv /\ [Next]_vars => Inv'
BY TypeStep, PartyStep, MailStep, TaskStep, PendStep, UserStep, AnswerStep
   DEF Inv

LEMMA Invariance == Spec => []Inv
BY InitInv, Inductive, PTL DEF Spec

(* The stored offer is the stored caller's, and _peerConnection is open, in  *)
(* every order of the callbacks (_endCall, webrtc_service.dart:393).         *)
THEOREM TypeCorrect == Spec => []TypeOK
<1>1. Inv => TypeOK
  BY DEF Inv
<1>2. QED
  BY <1>1, Invariance, PTL

(* Only an acceptCall whose own call has ended answers a call that its user  *)
(* did not accept (webrtc_service.dart:133).                                 *)
THEOREM AnswersAreAccepted == Spec => []AnsweredIsAccepted
<1>1. Inv => AnsweredIsAccepted
  BY DEF Inv
<1>2. QED
  BY <1>1, Invariance, PTL

(* A connection is left open only if a call ended while callUser or          *)
(* acceptCall was waiting (webrtc_service.dart:63).                          *)
THEOREM LeaksAreOfCutCalls == Spec => []LeaksAreCut
<1>1. Inv => LeaksAreCut
  BY DEF Inv, UserInv, UserOf, OpenOf, LeaksAreCut
<1>2. QED
  BY <1>1, Invariance, PTL

(* A call screen without a connection is explained by an answer that came    *)
(* too late, or by such a leaked connection (webrtc_service.dart:167).       *)
THEOREM StuckCallsAreLate == Spec => []StuckIsLate
<1>1. Inv => StuckIsLate
  BY DEF Inv, UserInv, UserOf, StuckOf, StuckIsLate, Opening
<1>2. QED
  BY <1>1, Invariance, PTL

(* The video service of an idle app is busy only after the app itself ended  *)
(* a call (video_call_service.dart:229).                                     *)
THEOREM BusyVideosAreLeft == Spec => []BusyVideoIsLeft
<1>1. Inv => BusyVideoIsLeft
  BY DEF Inv, UserInv, UserOf, VideoOf, BusyVideoIsLeft
<1>2. QED
  BY <1>1, Invariance, PTL

(* Whoever is calling is being taken care of, by a function that waits, an   *)
(* answer, or a ring timer, unless an answer came and could not be set       *)
(* (webrtc_service.dart:76, 168-175).                                        *)
THEOREM CallersAreTimed == Spec => []CallingIsTimed
<1>1. Inv => CallingIsTimed
  BY DEF Inv, UserInv, UserOf, CallingOf, CallingIsTimed
<1>2. QED
  BY <1>1, Invariance, PTL
=============================================================================
