------------------------ MODULE TokenRotationProofs -------------------------
(* Proofs about TokenRotation, for any number of concurrent requests, any    *)
(* limit on the list and any number of tokens: types, that a revoked token   *)
(* stays dead, and which sessions a revoke-all can miss.                     *)
EXTENDS TokenRotation, TLAPS

USE MaxSessionsAssumption

-----------------------------------------------------------------------------
(* The list, as a set. *)

LEMMA PushRange ==
  ASSUME NEW q \in Seq(Nat), NEW e \in Nat
  PROVE  /\ <<e>> \o q \in Seq(Nat)
         /\ Range(<<e>> \o q) = {e} \cup Range(q)
<1>1. /\ <<e>> \o q \in Seq(Nat)
      /\ DOMAIN (<<e>> \o q) = 1..(Len(q) + 1)
      /\ (<<e>> \o q)[1] = e
      /\ \A k \in 1..Len(q) : (<<e>> \o q)[k + 1] = q[k]
      /\ DOMAIN q = 1..Len(q) /\ Len(q) \in Nat
  OBVIOUS
<1>2. \A k \in 1..(Len(q) + 1) : k = 1 \/ (k - 1 \in 1..Len(q) /\ k = (k - 1) + 1)
  BY <1>1
<1>3. \A k \in 1..Len(q) : k + 1 \in 1..(Len(q) + 1)
  BY <1>1
<1>4. 1 \in 1..(Len(q) + 1)
  BY <1>1
<1>5. Range(<<e>> \o q) \subseteq {e} \cup Range(q)
  <2> SUFFICES ASSUME NEW k \in 1..(Len(q) + 1)
               PROVE  (<<e>> \o q)[k] \in {e} \cup Range(q)
    BY <1>1 DEF Range
  <2>1. CASE k = 1
    BY <2>1, <1>1
  <2>2. CASE k # 1
    <3>1. k - 1 \in 1..Len(q) /\ (<<e>> \o q)[k] = q[k - 1]
      BY <2>2, <1>1, <1>2
    <3> QED
      BY <3>1, <1>1 DEF Range
  <2> QED
    BY <2>1, <2>2
<1>6. Range(q) \subseteq Range(<<e>> \o q)
  <2> SUFFICES ASSUME NEW k \in 1..Len(q)
               PROVE  q[k] \in Range(<<e>> \o q)
    BY <1>1 DEF Range
  <2>1. k + 1 \in 1..(Len(q) + 1) /\ (<<e>> \o q)[k + 1] = q[k]
    BY <1>1, <1>3
  <2> QED
    BY <2>1, <1>1 DEF Range
<1>7. e \in Range(<<e>> \o q)
  BY <1>1, <1>4 DEF Range
<1> QED
  BY <1>1, <1>5, <1>6, <1>7

LEMMA TrimRange ==
  ASSUME NEW q \in Seq(Nat), NEW n \in Nat, Len(q) > n
  PROVE  /\ SubSeq(q, 1, n) \in Seq(Nat)
         /\ Range(SubSeq(q, 1, n)) \subseteq Range(q)
<1>1. /\ SubSeq(q, 1, n) \in Seq(Nat)
      /\ DOMAIN SubSeq(q, 1, n) = 1..n
      /\ \A k \in 1..n : SubSeq(q, 1, n)[k] = q[k] /\ k \in DOMAIN q
  OBVIOUS
<1> QED
  BY <1>1 DEF Range

LEMMA EmptyRange == <<>> \in Seq(Nat) /\ Range(<<>>) = {}
  BY DEF Range

-----------------------------------------------------------------------------
(* The inductive invariant: a token being stored is new and stored by one    *)
(* request; once pushed it is tracked like one that a client holds; every    *)
(* session in the list was stored before the TTL of the list was set, so it  *)
(* is dead when the list expires.                                            *)

StoreSteps == {"lpush", "ltrim", "expire"}

PresentedIsKnown ==
  \A r \in Requests : pc[r] \in {"exists", "rotate", "logout"} => tok[r] \in known

NewIsFresh ==
  \A r \in Requests : pc[r] \in StoreSteps =>
     /\ new[r] \in Tokens /\ new[r] \notin known
     /\ \A q \in Requests : pc[q] \in StoreSteps /\ new[q] = new[r] => q = r

PushedIsTracked ==
  \A r \in Requests : pc[r] \in {"ltrim", "expire"} /\ new[r] \in live =>
                         new[r] \in Listed \cup trimmed \cup overtaken

ListCovers == \A t \in known \cap Listed : t <= covers

AgedIsDead == \A t \in live : t > aged

Inv == /\ TypeOK /\ PresentedIsKnown /\ NewIsFresh /\ PushedIsTracked /\ ListCovers /\ AgedIsDead
       /\ TrackedUnlessLost /\ DeletedIsDead

LEMMA InvInit == Init => Inv
  BY EmptyRange DEF Init, Inv, TypeOK, PresentedIsKnown, NewIsFresh, PushedIsTracked, ListCovers,
     AgedIsDead, TrackedUnlessLost, DeletedIsDead, PCs, Listed, Tokens, Minted,
     StoreSteps

(* Steps that move no token and leave no request in a later storing step.    *)
LEMMA QuietStep ==
  ASSUME Inv,
         UNCHANGED <<clockVars, listVars, live, parent, known, deleted>>,
         pc' \in [Requests -> PCs],
         tok' \in [Requests -> known \cup {0}],
         new' \in [Requests -> Nat],
         seen' \in [Requests -> SUBSET Nat],
         \A r \in Requests : pc'[r] \in StoreSteps =>
                                pc[r] = pc'[r] /\ new[r] = new'[r],
         PresentedIsKnown'
  PROVE  Inv'
<1>1. TypeOK'
  BY DEF Inv, TypeOK, clockVars, listVars, Listed, Tokens, Minted
<1>2. NewIsFresh'
  BY DEF Inv, NewIsFresh, Tokens, Minted
<1>3. PushedIsTracked'
  BY DEF Inv, PushedIsTracked, listVars, Listed, StoreSteps
<1>4. ListCovers' /\ AgedIsDead' /\ TrackedUnlessLost' /\ DeletedIsDead'
  BY DEF Inv, ListCovers, AgedIsDead, TrackedUnlessLost, DeletedIsDead,
         listVars, clockVars, Listed
<1> QED
  BY <1>1, <1>2, <1>3, <1>4 DEF Inv

LEMMA TypeFacts ==
  ASSUME Inv
  PROVE  /\ pc \in [Requests -> PCs]
         /\ tok \in [Requests -> known \cup {0}]
         /\ new \in [Requests -> Nat]
         /\ seen \in [Requests -> SUBSET Nat]
         /\ Tokens \subseteq Nat \ {0} /\ Listed \subseteq Tokens
         /\ known \subseteq Tokens /\ Minted \in Nat
         /\ live \subseteq Tokens
  BY DEF Inv, TypeOK, Tokens, Minted

LEMMA QuietSteps ==
  ASSUME Inv, NEW r \in Requests,
         \/ Login(r) \/ LogoutAll(r) \/ Exists(r) \/ Lrange(r) \/ Fails(r)
         \/ \E t \in known : Refresh(r, t) \/ Logout(r, t)
  PROVE  Inv'
<1>1. UNCHANGED <<clockVars, listVars, live, parent, known, deleted>>
  BY DEF Login, LogoutAll, Exists, Lrange, Fails, Refresh, Logout, tokenVars
<1>2. /\ pc' \in [Requests -> PCs]
      /\ tok' \in [Requests -> known \cup {0}]
      /\ new' \in [Requests -> Nat]
      /\ \A q \in Requests : pc'[q] \in StoreSteps => pc[q] = pc'[q] /\ new[q] = new'[q]
  BY TypeFacts DEF Login, LogoutAll, Exists, Lrange, Fails, Refresh, Logout,
                   Finish, Goto, PCs, StoreSteps, taskVars
<1>3. seen' \in [Requests -> SUBSET Nat]
  BY TypeFacts DEF Login, LogoutAll, Exists, Lrange, Fails, Refresh, Logout,
                   Finish, taskVars
<1>4. PresentedIsKnown'
  <2> DEFINE P == {"exists", "rotate", "logout"}
  <2>1. CASE \E t \in known : Refresh(r, t) \/ Logout(r, t)
    BY <2>1, <1>1, TypeFacts DEF Inv, PresentedIsKnown, Refresh, Logout, Goto
  <2>2. CASE Login(r) \/ LogoutAll(r) \/ Lrange(r) \/ Fails(r)
    <3>1. /\ pc'[r] \notin P
          /\ \A q \in Requests : q # r => pc'[q] = pc[q] /\ tok'[q] = tok[q]
      BY <2>2, TypeFacts DEF Login, LogoutAll, Lrange, Fails, Finish, Goto, taskVars
    <3> QED
      BY <3>1, <1>1 DEF Inv, PresentedIsKnown
  <2>3. CASE Exists(r)
    BY <2>3, <1>1, TypeFacts DEF Inv, PresentedIsKnown, Exists, Goto, taskVars
  <2> QED
    BY <2>1, <2>2, <2>3
<1> QED
  BY <1>1, <1>2, <1>3, <1>4, QuietStep

-----------------------------------------------------------------------------
(* Steps that only kill tokens: requests that revoke, and expiry.            *)

LEMMA Killing ==
  ASSUME Inv,
         UNCHANGED <<listVars, parent, known>>,
         live' \subseteq live,
         deleted' \subseteq Tokens, deleted' \cap live' = {},
         aged' \in Nat, rejected' \in Nat, rejected' <= aged', aged' <= Minted,
         \A t \in live' : t > aged',
         pc' \in [Requests -> PCs],
         tok' \in [Requests -> known \cup {0}],
         new' \in [Requests -> Nat],
         seen' \in [Requests -> SUBSET Nat],
         \A r \in Requests : pc'[r] \in StoreSteps =>
                                pc[r] = pc'[r] /\ new[r] = new'[r],
         PresentedIsKnown'
  PROVE  Inv'
<1>1. TypeOK'
  BY DEF Inv, TypeOK, listVars, Listed, Tokens, Minted
<1>2. NewIsFresh'
  BY DEF Inv, NewIsFresh, Tokens, Minted
<1>3. PushedIsTracked'
  BY DEF Inv, PushedIsTracked, listVars, Listed, StoreSteps
<1>4. ListCovers' /\ AgedIsDead' /\ TrackedUnlessLost' /\ DeletedIsDead'
  BY DEF Inv, ListCovers, AgedIsDead, TrackedUnlessLost, DeletedIsDead,
         listVars, Listed
<1> QED
  BY <1>1, <1>2, <1>3, <1>4 DEF Inv

LEMMA ClockFacts ==
  ASSUME Inv
  PROVE  /\ aged \in Nat /\ rejected \in Nat /\ rejected <= aged /\ aged <= Minted
         /\ \A t \in live : t > aged
         /\ deleted \subseteq Tokens /\ deleted \cap live = {}
  BY DEF Inv, TypeOK, AgedIsDead, DeletedIsDead

LEMMA RevokingSteps ==
  ASSUME Inv, NEW r \in Requests, Rotate(r) \/ DelLogout(r)
  PROVE  Inv'
<1>1. /\ UNCHANGED <<clockVars, listVars, parent, known>>
      /\ live' = live \ {tok[r]} /\ deleted' = deleted \cup {tok[r]}
      /\ pc[r] \in {"rotate", "logout"}
  BY DEF Rotate, DelLogout, DelPresented
<1>2. /\ pc' \in [Requests -> PCs]
      /\ tok' \in [Requests -> known \cup {0}]
      /\ new' \in [Requests -> Nat]
      /\ \A q \in Requests : pc'[q] \in StoreSteps => pc[q] = pc'[q] /\ new[q] = new'[q]
  BY TypeFacts DEF Rotate, DelLogout, Finish, Goto, PCs, StoreSteps, taskVars
<1>3. seen' \in [Requests -> SUBSET Nat]
  BY TypeFacts DEF Rotate, DelLogout, Finish, taskVars
<1>4. deleted' \subseteq Tokens
  BY <1>1, TypeFacts, ClockFacts DEF Inv, PresentedIsKnown
<1>5. PresentedIsKnown'
  BY <1>1, TypeFacts DEF Inv, PresentedIsKnown, Rotate, DelLogout, Finish, Goto, taskVars
<1> QED
  BY <1>1, <1>2, <1>3, <1>4, <1>5, ClockFacts, Killing DEF clockVars

LEMMA DelKeyStep ==
  ASSUME Inv, NEW r \in Requests, DelKey(r)
  PROVE  Inv'
<1>1. PICK t \in live : live' = live \ {t} /\ deleted' = deleted \cup {t}
  BY DEF DelKey
<1>2. UNCHANGED <<pc, taskVars, clockVars, listVars, parent, known>>
  BY DEF DelKey
<1>3. PresentedIsKnown'
  BY <1>2 DEF Inv, PresentedIsKnown, taskVars
<1>4. deleted' \subseteq Tokens
  BY <1>1, TypeFacts, ClockFacts
<1> QED
  BY <1>1, <1>2, <1>3, <1>4, TypeFacts, ClockFacts, Killing DEF clockVars, taskVars

LEMMA KeyExpiresStep ==
  ASSUME Inv, KeyExpires
  PROVE  Inv'
<1>1. /\ UNCHANGED <<pc, taskVars, rejected, listVars, parent, known, deleted>>
      /\ aged < Minted /\ aged' = aged + 1 /\ live' = live \ {aged + 1}
  BY DEF KeyExpires
<1>2. /\ aged' \in Nat /\ rejected' \in Nat /\ rejected' <= aged' /\ aged' <= Minted
      /\ \A t \in live' : t > aged'
  BY <1>1, TypeFacts, ClockFacts
<1>3. PresentedIsKnown'
  BY <1>1 DEF Inv, PresentedIsKnown, taskVars
<1> QED
  BY <1>1, <1>2, <1>3, TypeFacts, ClockFacts, Killing DEF taskVars

LEMMA LeewayEndsStep ==
  ASSUME Inv, LeewayEnds
  PROVE  Inv'
<1>1. /\ UNCHANGED <<pc, taskVars, aged, listVars, live, parent, known, deleted>>
      /\ rejected < aged /\ rejected' = rejected + 1
  BY DEF LeewayEnds, tokenVars
<1>2. rejected' \in Nat /\ rejected' <= aged
  BY <1>1, ClockFacts
<1>3. PresentedIsKnown'
  BY <1>1 DEF Inv, PresentedIsKnown, taskVars
<1> QED
  BY <1>1, <1>2, <1>3, TypeFacts, ClockFacts, Killing DEF taskVars

-----------------------------------------------------------------------------
(* The four commands that store a token. *)

LEMMA SetexStep ==
  ASSUME Inv, NEW r \in Requests, Setex(r)
  PROVE  Inv'
<1> DEFINE n == Len(parent) + 1
<1>1. /\ pc[r] = "setex" /\ pc' = [pc EXCEPT ![r] = "lpush"]
      /\ parent' = Append(parent, tok[r])
      /\ live' = live \cup {n} /\ new' = [new EXCEPT ![r] = n]
      /\ UNCHANGED <<tok, seen, clockVars, listVars, known, deleted>>
  BY DEF Setex, Goto, Minted
<1>2. /\ parent \in Seq(Nat) /\ tok[r] \in Nat
      /\ Tokens = 1..Len(parent)
  <2>1. tok[r] \in known \cup {0} /\ known \subseteq Nat
    BY TypeFacts
  <2>2. parent \in Seq(Nat)
    BY DEF Inv, TypeOK
  <2>3. 0 \in Nat
    OBVIOUS
  <2>4. tok[r] \in Nat
    BY <2>1, <2>3, Zenon
  <2> QED
    BY <2>2, <2>4 DEF Tokens, Minted
<1>3. /\ parent' \in Seq(Nat) /\ Len(parent') = n /\ Tokens' = Tokens \cup {n}
      /\ n \notin Tokens /\ n \in Nat
  BY <1>1, <1>2 DEF Tokens, Minted
<1> HIDE DEF n
<1>4. TypeOK'
  <2>1. /\ pc' \in [Requests -> PCs] /\ new' \in [Requests -> Nat]
        /\ tok' \in [Requests -> known' \cup {0}]
        /\ seen' \in [Requests -> SUBSET Nat]
    BY <1>1, <1>3, TypeFacts DEF PCs
  <2>2. /\ list' \in Seq(Nat) /\ Listed' \subseteq Tokens'
        /\ covers' \in Nat
    BY <1>1, <1>3 DEF Inv, TypeOK, listVars, Listed
  <2>3. /\ aged' \in Nat /\ rejected' \in Nat
        /\ rejected' <= aged' /\ aged' <= Minted'
    BY <1>1, <1>3, <1>2, ClockFacts DEF clockVars, Minted, n
  <2>4. /\ live' \subseteq Tokens' /\ known' \subseteq Tokens'
        /\ deleted' \subseteq Tokens'
    BY <1>1, <1>3, TypeFacts, ClockFacts
  <2> QED
    BY <2>1, <2>2, <2>3, <2>4, <1>3 DEF TypeOK
<1>5. NewIsFresh'
  <2>1. \A q \in Requests : q # r => pc'[q] = pc[q] /\ new'[q] = new[q]
    BY <1>1
  <2>2. new'[r] = n /\ n \notin known
    BY <1>1, <1>3, TypeFacts
  <2> QED
    BY <2>1, <2>2, <1>1, <1>3 DEF Inv, NewIsFresh, StoreSteps
<1>6. PushedIsTracked'
  <2>1. \A q \in Requests : pc'[q] \in {"ltrim", "expire"} =>
           /\ pc'[q] = pc[q] /\ new'[q] = new[q]
           /\ new[q] \in Tokens
    BY <1>1, TypeFacts DEF Inv, NewIsFresh, StoreSteps
  <2> QED
    BY <2>1, <1>1, <1>3 DEF Inv, PushedIsTracked, listVars, Listed
<1>7. ListCovers' /\ PresentedIsKnown'
  BY <1>1 DEF Inv, ListCovers, PresentedIsKnown, listVars, Listed
<1>8. AgedIsDead'
  BY <1>1, <1>2, TypeFacts, ClockFacts DEF AgedIsDead, clockVars, Minted, n
<1>9. TrackedUnlessLost' /\ DeletedIsDead'
  BY <1>1, <1>3, TypeFacts, ClockFacts
     DEF Inv, TrackedUnlessLost, DeletedIsDead, listVars, Listed
<1> QED
  BY <1>4, <1>5, <1>6, <1>7, <1>8, <1>9 DEF Inv

LEMMA LpushStep ==
  ASSUME Inv, NEW r \in Requests, Lpush(r)
  PROVE  Inv'
<1>1. /\ pc[r] = "lpush" /\ pc' = [pc EXCEPT ![r] = "ltrim"]
      /\ list' = <<new[r]>> \o list
      /\ UNCHANGED <<tok, new, seen, clockVars, covers, trimmed, overtaken,
                     live, parent, known, deleted>>
  BY DEF Lpush, Goto, taskVars, tokenVars
<1>2. new[r] \in Tokens /\ new[r] \notin known /\ new[r] \in Nat
  BY <1>1, TypeFacts DEF Inv, NewIsFresh, StoreSteps
<1>3. list \in Seq(Nat)
  BY DEF Inv, TypeOK
<1>4. list' \in Seq(Nat) /\ Listed' = {new[r]} \cup Listed
  BY <1>1, <1>2, <1>3, PushRange DEF Listed
<1>5. TypeOK'
  <2>1. pc' \in [Requests -> PCs]
    BY <1>1, TypeFacts DEF PCs
  <2>2. Tokens' = Tokens
    BY <1>1 DEF Tokens, Minted
  <2>3. list' \in Seq(Nat) /\ Listed' \subseteq Tokens'
    BY <1>2, <1>4, <2>2, TypeFacts
  <2> QED
    BY <1>1, <2>1, <2>2, <2>3 DEF Inv, TypeOK, clockVars, Minted
<1>6. NewIsFresh'
  <2>1. \A q \in Requests : pc'[q] \in StoreSteps => pc[q] \in StoreSteps
    BY <1>1, TypeFacts DEF StoreSteps
  <2> QED
    BY <1>1, <2>1 DEF Inv, NewIsFresh, Tokens, Minted
<1>7. PushedIsTracked'
  <2>1. \A q \in Requests : q # r => pc'[q] = pc[q]
    BY <1>1
  <2> QED
    BY <1>1, <1>4, <2>1 DEF Inv, PushedIsTracked
<1>8. ListCovers' /\ AgedIsDead' /\ TrackedUnlessLost' /\ DeletedIsDead'
  BY <1>1, <1>2, <1>4
     DEF Inv, ListCovers, AgedIsDead, TrackedUnlessLost, DeletedIsDead, clockVars
<1>9. PresentedIsKnown'
  BY <1>1 DEF Inv, PresentedIsKnown
<1> QED
  BY <1>5, <1>6, <1>7, <1>8, <1>9 DEF Inv

(* Steps that drop tokens from the list, and count the live ones they drop   *)
(* as trimmed or overtaken.                                                  *)
LEMMA Dropping ==
  ASSUME Inv,
         UNCHANGED <<clockVars, live, parent, known, deleted>>,
         list' \in Seq(Nat), Listed' \subseteq Listed, covers' \in Nat,
         trimmed \subseteq trimmed', overtaken \subseteq overtaken',
         \A t \in live \cap Listed :
            (t \in known \/ \E q \in Requests : pc[q] \in {"ltrim", "expire"} /\ t = new[q])
               => t \in Listed' \cup trimmed' \cup overtaken',
         \A t \in known \cap Listed' : t <= covers',
         pc' \in [Requests -> PCs], seen' \in [Requests -> SUBSET Nat],
         tok' \in [Requests -> known \cup {0}], new' \in [Requests -> Nat],
         \A q \in Requests : pc'[q] \in StoreSteps =>
            /\ new'[q] = new[q]
            /\ pc'[q] = pc[q] \/ (pc[q] = "ltrim" /\ pc'[q] = "expire"),
         PresentedIsKnown'
  PROVE  Inv'
<1>1. TypeOK'
  BY DEF Inv, TypeOK, clockVars, Tokens, Minted
<1>2. NewIsFresh'
  <2>1. \A q \in Requests : pc'[q] \in StoreSteps => pc[q] \in StoreSteps
    BY DEF StoreSteps
  <2> QED
    BY <2>1 DEF Inv, NewIsFresh, Tokens, Minted
<1>3. PushedIsTracked'
  BY DEF Inv, PushedIsTracked, StoreSteps
<1>4. ListCovers' /\ AgedIsDead' /\ DeletedIsDead'
  BY DEF Inv, ListCovers, AgedIsDead, DeletedIsDead, clockVars
<1>5. TrackedUnlessLost'
  BY DEF Inv, TrackedUnlessLost
<1> QED
  BY <1>1, <1>2, <1>3, <1>4, <1>5 DEF Inv

LEMMA LtrimStep ==
  ASSUME Inv, NEW r \in Requests, Ltrim(r)
  PROVE  Inv'
<1>1. /\ pc[r] = "ltrim" /\ pc' = [pc EXCEPT ![r] = "expire"]
      /\ list' = IF Len(list) > MaxSessions THEN SubSeq(list, 1, MaxSessions) ELSE list
      /\ trimmed' = trimmed \cup (live \cap (Listed \ Range(list')))
      /\ UNCHANGED <<tok, new, seen, clockVars, covers, overtaken,
                     live, parent, known, deleted>>
  BY DEF Ltrim, Goto, taskVars, tokenVars
<1>2. list \in Seq(Nat)
  BY DEF Inv, TypeOK
<1>3. list' \in Seq(Nat) /\ Listed' \subseteq Listed
  BY <1>1, <1>2, TrimRange DEF Listed
<1>4. \A t \in live \cap Listed : t \in Listed' \cup trimmed'
  BY <1>1 DEF Listed
<1>5. /\ covers' \in Nat
      /\ \A t \in known \cap Listed' : t <= covers'
  BY <1>1, <1>3 DEF Inv, TypeOK, ListCovers
<1>6. /\ pc' \in [Requests -> PCs]
      /\ \A q \in Requests : pc'[q] = pc[q] \/ (pc[q] = "ltrim" /\ pc'[q] = "expire")
  BY <1>1, TypeFacts DEF PCs
<1>7. PresentedIsKnown'
  BY <1>1 DEF Inv, PresentedIsKnown
<1> QED
  BY <1>1, <1>3, <1>4, <1>5, <1>6, <1>7, TypeFacts, Dropping

LEMMA DelListStep ==
  ASSUME Inv, NEW r \in Requests, DelList(r)
  PROVE  /\ Inv'
         /\ known' \cap live' \subseteq trimmed' \cup overtaken'
<1>1. /\ pc[r] = "wipe" /\ pc' = [pc EXCEPT ![r] = "idle"]
      /\ seen[r] \cap live = {}
      /\ list' = <<>> /\ covers' = 0
      /\ overtaken' = overtaken \cup (live \cap (Listed \ seen[r]))
      /\ tok' = [tok EXCEPT ![r] = 0] /\ new' = [new EXCEPT ![r] = 0]
      /\ seen' = [seen EXCEPT ![r] = {}]
      /\ UNCHANGED <<clockVars, live, parent, known, deleted, trimmed>>
  BY DEF DelList, Finish, Goto, tokenVars
<1>2. list' \in Seq(Nat) /\ Listed' = {}
  BY <1>1, EmptyRange DEF Listed
<1>3. \A t \in live \cap Listed : t \in overtaken'
  BY <1>1
<1>4. /\ pc' \in [Requests -> PCs] /\ tok' \in [Requests -> known \cup {0}]
      /\ new' \in [Requests -> Nat]
      /\ \A q \in Requests : pc'[q] \in StoreSteps =>
            new'[q] = new[q] /\ pc'[q] = pc[q]
  BY <1>1, TypeFacts DEF PCs, StoreSteps
<1>5. seen' \in [Requests -> SUBSET Nat]
  BY <1>1, TypeFacts
<1>6. PresentedIsKnown'
  BY <1>1 DEF Inv, PresentedIsKnown
<1>7. Inv'
  BY <1>1, <1>2, <1>3, <1>4, <1>5, <1>6, Dropping
<1> QED
  BY <1>7, <1>2 DEF Inv, TrackedUnlessLost

(* The list expires: a client's session in it has expired before.            *)
LEMMA ListExpiresStep ==
  ASSUME Inv, ListExpires
  PROVE  Inv'
<1>1. /\ covers <= aged /\ list' = <<>> /\ covers' = 0
      /\ overtaken' = overtaken \cup (live \cap Listed \cap Storing)
      /\ UNCHANGED <<pc, tok, new, seen, clockVars, live, parent, known,
                     deleted, trimmed>>
  BY DEF ListExpires, taskVars, tokenVars
<1>2. list' \in Seq(Nat) /\ Listed' = {}
  BY <1>1, EmptyRange DEF Listed
<1>3. \A t \in live \cap Listed : t \notin known
  <2> SUFFICES ASSUME NEW t \in live, t \in Listed, t \in known
               PROVE  FALSE
    OBVIOUS
  <2>1. t <= covers /\ t > aged /\ t \in Nat /\ covers \in Nat /\ aged \in Nat
    BY TypeFacts, ClockFacts DEF Inv, ListCovers, TypeOK
  <2> QED
    BY <2>1, <1>1
<1>4. \A t \in live \cap Listed :
         (\E q \in Requests : pc[q] \in {"ltrim", "expire"} /\ t = new[q])
            => t \in overtaken'
  BY <1>1 DEF Storing
<1>5. PresentedIsKnown'
  BY <1>1 DEF Inv, PresentedIsKnown
<1> QED
  BY <1>1, <1>2, <1>3, <1>4, <1>5, TypeFacts, Dropping

LEMMA ExpireStep ==
  ASSUME Inv, NEW r \in Requests, Expire(r)
  PROVE  Inv'
<1>1. /\ pc[r] = "expire" /\ pc' = [pc EXCEPT ![r] = "idle"]
      /\ covers' = (IF list = <<>> THEN 0 ELSE Minted)
      /\ known' = known \cup {new[r]}
      /\ tok' = [tok EXCEPT ![r] = 0] /\ new' = [new EXCEPT ![r] = 0]
      /\ seen' = [seen EXCEPT ![r] = {}]
      /\ UNCHANGED <<clockVars, list, trimmed, overtaken, live, parent, deleted>>
  BY DEF Expire, Finish, Goto
<1>2. new[r] \in Tokens
  BY <1>1 DEF Inv, NewIsFresh, StoreSteps
<1>3. Tokens' = Tokens /\ Minted' = Minted /\ Listed' = Listed
  BY <1>1 DEF Tokens, Minted, Listed
<1>4. /\ pc' \in [Requests -> PCs] /\ new' \in [Requests -> Nat]
      /\ \A q \in Requests : pc'[q] # "idle" => q # r /\ pc'[q] = pc[q] /\ new'[q] = new[q]
  BY <1>1, TypeFacts DEF PCs
<1>5. tok' \in [Requests -> known' \cup {0}]
  BY <1>1, TypeFacts
<1>6. TypeOK'
  <2>1. covers' \in Nat /\ known' \subseteq Tokens'
    BY <1>1, <1>2, <1>3, TypeFacts
  <2>2. seen' \in [Requests -> SUBSET Nat]
    BY <1>1, TypeFacts
  <2> QED
    BY <1>1, <1>3, <1>4, <1>5, <2>1, <2>2 DEF Inv, TypeOK, clockVars
<1>7. NewIsFresh'
  BY <1>1, <1>3, <1>4 DEF Inv, NewIsFresh, StoreSteps
<1>8. PushedIsTracked'
  BY <1>1, <1>3, <1>4 DEF Inv, PushedIsTracked
<1>9. ListCovers'
  <2> SUFFICES ASSUME NEW t \in known', t \in Listed'
               PROVE  t <= covers'
    BY DEF ListCovers
  <2>1. list # <<>>
    BY <1>3, EmptyRange DEF Listed
  <2>2. t \in 1..Minted
    BY <1>3, TypeFacts DEF Tokens
  <2> QED
    BY <2>1, <2>2, <1>1, TypeFacts
<1>10. TrackedUnlessLost'
  BY <1>1, <1>3 DEF Inv, TrackedUnlessLost, PushedIsTracked
<1>11. AgedIsDead' /\ DeletedIsDead'
  BY <1>1 DEF Inv, AgedIsDead, DeletedIsDead, clockVars
<1>12. PresentedIsKnown'
  BY <1>1 DEF Inv, PresentedIsKnown
<1> QED
  BY <1>6, <1>7, <1>8, <1>9, <1>10, <1>11, <1>12 DEF Inv

-----------------------------------------------------------------------------
LEMMA InvStep == Inv /\ [Next]_vars => Inv'
<1> SUFFICES ASSUME Inv, [Next]_vars
             PROVE  Inv'
  OBVIOUS
<1>1. ASSUME NEW r \in Requests,
             \/ Login(r) \/ LogoutAll(r) \/ Exists(r) \/ Lrange(r) \/ Fails(r)
             \/ \E t \in known : Refresh(r, t) \/ Logout(r, t)
      PROVE  Inv'
  BY <1>1, QuietSteps
<1>2. ASSUME NEW r \in Requests, Rotate(r) \/ DelLogout(r) \/ DelKey(r)
      PROVE  Inv'
  BY <1>2, RevokingSteps, DelKeyStep
<1>3. ASSUME NEW r \in Requests, Setex(r) \/ Lpush(r) \/ Ltrim(r) \/ Expire(r)
      PROVE  Inv'
  BY <1>3, SetexStep, LpushStep, LtrimStep, ExpireStep
<1>4. ASSUME NEW r \in Requests, DelList(r)
      PROVE  Inv'
  BY <1>4, DelListStep
<1>5. CASE KeyExpires \/ LeewayEnds \/ ListExpires
  BY <1>5, KeyExpiresStep, LeewayEndsStep, ListExpiresStep
<1>6. CASE UNCHANGED vars
  BY <1>6 DEF vars, Inv, TypeOK, PresentedIsKnown, NewIsFresh, PushedIsTracked,
      ListCovers, AgedIsDead, TrackedUnlessLost, DeletedIsDead, Listed, Tokens, Minted
<1> QED
  BY <1>1, <1>2, <1>3, <1>4, <1>5, <1>6 DEF Next, Serve

THEOREM Invariance == Spec => []Inv
<1> QED
  BY InvInit, InvStep, PTL DEF Spec

(* Every state has the types TypeOK gives: token ids are those minted.       *)
THEOREM TypeCorrect == Spec => []TypeOK
<1>1. Inv => TypeOK
  BY DEF Inv
<1> QED
  BY <1>1, Invariance, PTL

(* A refresh token that a request deleted (revoke_refresh_token, or the      *)
(* pipeline of revoke_all_refresh_tokens) never has a key again.             *)
THEOREM RevokedStaysDead == Spec => []DeletedIsDead
<1>1. Inv => DeletedIsDead
  BY DEF Inv
<1> QED
  BY <1>1, Invariance, PTL

(* A session a client holds is in the list that revoke-all reads, unless     *)
(* LTRIM dropped it or the list was deleted while its token was being stored.*)
THEOREM SessionsAreTracked == Spec => []TrackedUnlessLost
<1>1. Inv => TrackedUnlessLost
  BY DEF Inv
<1> QED
  BY <1>1, Invariance, PTL

(* When revoke_all_refresh_tokens ends, only such lost sessions are left.    *)
THEOREM RevokeAllRevokes == Spec => RevokeAllLeavesLost
<1>1. ASSUME Inv, NEW r \in Requests, DelList(r)
      PROVE  known' \cap live' \subseteq trimmed' \cup overtaken'
  BY <1>1, DelListStep
<1>2. Inv => [\A r \in Requests : DelList(r) =>
                known' \cap live' \subseteq trimmed' \cup overtaken']_vars
  BY <1>1
<1> QED
  BY <1>2, Invariance, PTL DEF RevokeAllLeavesLost

-----------------------------------------------------------------------------
(* Every token is alive, or was deleted by a request, or has aged.           *)
Spent   == \A t \in Tokens : t \in live \/ t \in deleted \/ t <= aged
LEMMA SpentInit == Init => Spent
BY DEF Init, Spent, Tokens, Minted

LEMMA SpentStep == Inv /\ Spent /\ [Next]_vars => Spent'
<1> SUFFICES ASSUME Inv, Spent, [Next]_vars
             PROVE  Spent'
  OBVIOUS
<1> USE DEF Spent
<1>1. ASSUME UNCHANGED <<live, parent, deleted, aged>>
      PROVE  Spent'
  BY <1>1 DEF Tokens, Minted
<1>2. ASSUME NEW r \in Requests, Rotate(r) \/ DelLogout(r) \/ DelKey(r)
      PROVE  Spent'
  <2>1. /\ UNCHANGED <<parent, aged>>
        /\ \E t : live' = live \ {t} /\ deleted' = deleted \cup {t}
    BY <1>2 DEF Rotate, DelLogout, DelPresented, DelKey, clockVars
  <2>2. QED
    BY <2>1 DEF Tokens, Minted
<1>3. ASSUME NEW r \in Requests, Setex(r)
      PROVE  Spent'
  <2>1. /\ UNCHANGED <<deleted, aged>>
        /\ live' = live \cup {Minted + 1} /\ Len(parent') = Len(parent) + 1
    BY <1>3 DEF Setex, clockVars, Minted, Inv, TypeOK
  <2>2. Tokens' = Tokens \cup {Minted + 1}
    BY <2>1, TypeFacts DEF Tokens, Minted
  <2>3. QED
    BY <2>1, <2>2
<1>4. ASSUME KeyExpires
      PROVE  Spent'
  <2>1. /\ UNCHANGED <<parent, deleted>>
        /\ live' = live \ {aged + 1} /\ aged' = aged + 1
    BY <1>4 DEF KeyExpires
  <2>2. \A t \in Tokens : t <= aged \/ t = aged + 1 => t <= aged'
    BY <2>1, TypeFacts, ClockFacts
  <2>3. QED
    BY <2>1, <2>2 DEF Tokens, Minted
<1>5. QED
  BY <1>1, <1>2, <1>3, <1>4
  DEF Next, Serve, Login, LogoutAll, Refresh, Logout, Exists, Lpush, Ltrim, Expire,
      Lrange, DelList, Fails, LeewayEnds, ListExpires, clockVars, tokenVars,
      vars

(* A step that takes a refresh from EXISTS to the revoke-all is one that     *)
(* found no key.                                                             *)
LEMMA AccusingStep ==
  ASSUME Inv, Spent, [Next]_vars, NEW r \in Requests,
         pc[r] = "exists", pc'[r] = "lrange"
  PROVE  tok[r] \in deleted \cup 1..aged
<1> USE DEF Goto
<1>1. pc \in [Requests -> PCs]
  BY TypeFacts
<1>2. ASSUME NEW q \in Requests, Serve(q), ~Exists(q) PROVE pc'[r] # "lrange"
  <2>1. \/ pc' = pc
        \/ \E l : pc[q] # "exists" /\ pc' = [pc EXCEPT ![q] = l]
    BY <1>2 DEF Serve, Rotate, DelLogout, Setex, Lpush, Ltrim, Expire, Lrange,
                DelKey, DelList, Finish
  <2> QED
    BY <1>1, <2>1
<1>3. ASSUME NEW q \in Requests,
             \/ Login(q) \/ LogoutAll(q) \/ Fails(q)
             \/ \E t \in known : Refresh(q, t) \/ Logout(q, t)
      PROVE  pc'[r] # "lrange"
  <2>1. \E l : /\ pc[q] # "exists" \/ l = "idle"
              /\ pc' = [pc EXCEPT ![q] = l]
    BY <1>3 DEF Login, LogoutAll, Refresh, Logout, Fails, Finish
  <2> QED
    BY <1>1, <2>1
<1>4. PICK q \in Requests : Exists(q)
  BY <1>2, <1>3 DEF Next, KeyExpires, LeewayEnds, ListExpires, vars
<1>5. q = r
  BY <1>1, <1>4 DEF Exists
<1>6. tok[r] \notin live /\ tok[r] \in Tokens
  BY <1>1, <1>4, <1>5, TypeFacts DEF Inv, PresentedIsKnown, Exists
<1> QED
  BY <1>6, ClockFacts DEF Spent, Tokens

(* is_refresh_token_valid finds no key only for a token that a request       *)
(* deleted or whose key had reached its TTL.                                 *)
THEOREM AccusedTokensAreSpent == Spec => AccusedIsSpent
<1>1. Inv /\ Spent /\ [Next]_vars =>
        [\A r \in Requests : pc[r] = "exists" /\ pc'[r] = "lrange"
            => tok[r] \in deleted \cup 1..aged]_vars
  BY AccusingStep
<1> QED
  BY <1>1, InvInit, InvStep, SpentInit, SpentStep, PTL DEF Spec, AccusedIsSpent

-----------------------------------------------------------------------------
(* Exchanges. A token that was not raced has at most one request between its *)
(* EXISTS and its SETEX, and none once it has been exchanged; and what has   *)
(* been exchanged was deleted before, so that nobody finds it again.         *)

Holds(r) == pc[r] \in {"rotate", "setex"}

IdleIsFree == \A r \in Requests : pc[r] = "idle" => tok[r] = 0

ExchangedIsDeleted ==
  /\ \A r \in Requests : pc[r] = "setex" /\ tok[r] # 0 => tok[r] \in deleted
  /\ \A a \in Tokens : parent[a] # 0 => parent[a] \in deleted

HoldersAreAlone ==
  \A r \in Requests : Holds(r) /\ tok[r] # 0 /\ tok[r] \notin raced =>
     /\ \A q \in Requests : Holds(q) /\ tok[q] = tok[r] => q = r
     /\ \A a \in Tokens : parent[a] # tok[r]

ExchangeInv == IdleIsFree /\ ExchangedIsDeleted /\ HoldersAreAlone /\ DoubledIsRaced

LEMMA ExchangeInit == Init => ExchangeInv
BY DEF Init, ExchangeInv, IdleIsFree, ExchangedIsDeleted, HoldersAreAlone, DoubledIsRaced,
       Holds, Tokens, Minted

(* Steps that store no token, and find none valid. *)
LEMMA ExchangeKept ==
  ASSUME ExchangeInv, parent' = parent, deleted \subseteq deleted', raced \subseteq raced',
         \A r \in Requests :
            /\ pc'[r] = "idle" => tok'[r] = 0
            /\ Holds(r)' => \/ tok'[r] = 0
                            \/ /\ Holds(r) /\ tok'[r] = tok[r]
                               /\ pc'[r] = "setex" => pc[r] = "setex" \/ tok[r] \in deleted'
  PROVE  ExchangeInv'
<1>1. Tokens' = Tokens
  BY DEF Tokens, Minted
<1>2. IdleIsFree'
  BY DEF IdleIsFree
<1>3. ExchangedIsDeleted'
  BY <1>1 DEF ExchangeInv, ExchangedIsDeleted, Holds
<1>4. HoldersAreAlone'
  BY <1>1 DEF ExchangeInv, HoldersAreAlone
<1>5. DoubledIsRaced'
  BY <1>1 DEF ExchangeInv, DoubledIsRaced
<1> QED
  BY <1>2, <1>3, <1>4, <1>5 DEF ExchangeInv

(* A valid token was not exchanged: who else holds it has not deleted it.    *)
LEMMA ExchangeExists ==
  ASSUME Inv, ExchangeInv, NEW r \in Requests, Exists(r)
  PROVE  ExchangeInv'
<1>1. /\ pc[r] = "exists" /\ UNCHANGED <<parent, deleted, tok>>
      /\ pc' = [pc EXCEPT ![r] = IF tok[r] \in live THEN "rotate" ELSE "lrange"]
      /\ raced' = IF tok[r] \in live /\ Rotating(tok[r]) # {} THEN raced \cup {tok[r]}
                                                             ELSE raced
  BY DEF Exists, Goto, taskVars
<1>2. Tokens' = Tokens /\ pc \in [Requests -> PCs]
  BY <1>1, TypeFacts DEF Tokens, Minted
<1>3. \A q \in Requests : q # r => pc'[q] = pc[q]
  BY <1>1, <1>2
<1>4. CASE tok[r] \notin live
  <2>1. pc'[r] = "lrange" /\ raced' = raced
    BY <1>1, <1>2, <1>4
  <2> QED
    BY <1>1, <1>3, <2>1, ExchangeKept DEF ExchangeInv, IdleIsFree, Holds
<1>5. CASE tok[r] \in live
  <2>1. pc'[r] = "rotate" /\ tok[r] \notin deleted /\ raced \subseteq raced'
    BY <1>1, <1>2, <1>5 DEF Inv, DeletedIsDead
  <2>2. IdleIsFree' /\ ExchangedIsDeleted' /\ DoubledIsRaced'
    BY <1>1, <1>2, <1>3, <2>1
       DEF ExchangeInv, IdleIsFree, ExchangedIsDeleted, DoubledIsRaced
  <2>3. tok[r] \notin raced' => \A q \in Requests : pc[q] = "rotate" => tok[q] # tok[r]
    BY <1>1, <1>5 DEF Rotating
  <2>4. \A a \in Tokens : parent[a] # tok[r]
    <3>1. \A a \in Tokens : parent[a] = tok[r] => tok[r] = 0
      BY <2>1 DEF ExchangeInv, ExchangedIsDeleted
    <3>2. tok[r] # 0
      BY <1>5, TypeFacts
    <3> QED
      BY <3>1, <3>2
  <2>5. \A q \in Requests : pc[q] = "setex" => tok[q] # tok[r]
    <3>1. tok[r] # 0
      BY <1>5, TypeFacts
    <3> QED
      BY <2>1, <3>1 DEF ExchangeInv, ExchangedIsDeleted
  <2>6. \A q \in Requests : q # r => (Holds(q)' <=> Holds(q))
    BY <1>3 DEF Holds
  <2>7. HoldersAreAlone'
    BY <1>1, <1>2, <2>1, <2>3, <2>4, <2>5, <2>6 DEF ExchangeInv, HoldersAreAlone, Holds
  <2> QED
    BY <2>2, <2>7 DEF ExchangeInv
<1> QED
  BY <1>4, <1>5

(* The one that stores the successor held the token alone, or it was raced.  *)
LEMMA ExchangeSetex ==
  ASSUME Inv, ExchangeInv, NEW r \in Requests, Setex(r)
  PROVE  ExchangeInv'
<1> DEFINE n == Len(parent) + 1
<1>1. /\ pc[r] = "setex" /\ pc' = [pc EXCEPT ![r] = "lpush"]
      /\ parent' = Append(parent, tok[r])
      /\ UNCHANGED <<tok, deleted, raced>>
  BY DEF Setex, Goto
<1>2. parent \in Seq(Nat) /\ tok[r] \in Nat
  <2>1. tok[r] \in known \cup {0} /\ known \subseteq Nat
    BY TypeFacts
  <2>2. 0 \in Nat
    OBVIOUS
  <2>3. tok[r] \in Nat
    BY <2>1, <2>2, Zenon
  <2> QED
    BY <2>3 DEF Inv, TypeOK
<1>3. /\ Tokens' = Tokens \cup {n} /\ n \notin Tokens
      /\ parent'[n] = tok[r] /\ \A a \in Tokens : parent'[a] = parent[a]
  BY <1>1, <1>2 DEF Tokens, Minted
<1> HIDE DEF n
<1>4. \A q \in Requests : /\ q # r => pc'[q] = pc[q]
                          /\ pc'[r] = "lpush"
  BY <1>1, TypeFacts
<1>5. IdleIsFree'
  BY <1>1, <1>4 DEF ExchangeInv, IdleIsFree
<1>6. ExchangedIsDeleted'
  BY <1>1, <1>3, <1>4 DEF ExchangeInv, ExchangedIsDeleted
<1>7. HoldersAreAlone'
  <2>1. \A q \in Requests : Holds(q)' => q # r /\ Holds(q)
    BY <1>4 DEF Holds
  <2>2. Holds(r)
    BY <1>1 DEF Holds
  <2>3. \A q \in Requests : Holds(q)' /\ tok[q] # 0 /\ tok[q] \notin raced => tok[q] # tok[r]
    BY <2>1, <2>2 DEF ExchangeInv, HoldersAreAlone
  <2> QED
    BY <1>1, <1>3, <2>1, <2>3 DEF ExchangeInv, HoldersAreAlone
<1>8. DoubledIsRaced'
  <2>1. tok[r] # 0 /\ tok[r] \notin raced => \A a \in Tokens : parent[a] # tok[r]
    BY <1>1 DEF ExchangeInv, HoldersAreAlone, Holds
  <2> SUFFICES ASSUME NEW a \in Tokens', NEW b \in Tokens', a # b,
                      parent'[a] = parent'[b], parent'[a] # 0
               PROVE  parent'[a] \in raced
    BY <1>1 DEF DoubledIsRaced
  <2>2. CASE a = n \/ b = n
    <3>1. PICK c \in Tokens : parent[c] = tok[r]
      BY <1>3, <2>2
    <3> QED
      BY <1>3, <2>1, <2>2, <3>1
  <2>3. CASE a # n /\ b # n
    BY <1>3, <2>3 DEF ExchangeInv, DoubledIsRaced
  <2> QED
    BY <2>2, <2>3
<1> QED
  BY <1>5, <1>6, <1>7, <1>8 DEF ExchangeInv

LEMMA ExchangeStep == Inv /\ ExchangeInv /\ [Next]_vars => ExchangeInv'
<1> SUFFICES ASSUME Inv, ExchangeInv, [Next]_vars
             PROVE  ExchangeInv'
  OBVIOUS
<1>1. ASSUME NEW r \in Requests, Exists(r) \/ Setex(r)
      PROVE  ExchangeInv'
  BY <1>1, ExchangeExists, ExchangeSetex
<1>2. ASSUME NEW r \in Requests,
             \/ Login(r) \/ LogoutAll(r) \/ Rotate(r) \/ DelLogout(r) \/ Lpush(r) \/ Ltrim(r)
             \/ Expire(r) \/ Lrange(r) \/ DelKey(r) \/ DelList(r) \/ Fails(r)
             \/ \E t \in known : Refresh(r, t) \/ Logout(r, t)
      PROVE  ExchangeInv'
  <2>1. parent' = parent /\ raced' = raced /\ deleted \subseteq deleted'
    BY <1>2 DEF Login, LogoutAll, Rotate, DelLogout, DelPresented, Lpush, Ltrim, Expire, Lrange,
                DelKey, DelList, Fails, Refresh, Logout, tokenVars
  <2>2. /\ pc \in [Requests -> PCs] /\ tok \in [Requests -> known \cup {0}]
        /\ \A q \in Requests : pc[q] = "idle" => tok[q] = 0
    BY TypeFacts DEF ExchangeInv, IdleIsFree
  <2>3. \A q \in Requests : q # r => pc'[q] = pc[q] /\ tok'[q] = tok[q]
    BY <1>2, <2>2 DEF Login, LogoutAll, Rotate, DelLogout, Lpush, Ltrim, Expire, Lrange,
                DelKey, DelList, Fails, Refresh, Logout, Finish, Goto, taskVars
  <2>4. /\ pc'[r] = "idle" => tok'[r] = 0
        /\ Holds(r)' => \/ tok'[r] = 0
                        \/ /\ Holds(r) /\ tok'[r] = tok[r]
                           /\ pc'[r] = "setex" => pc[r] = "setex" \/ tok[r] \in deleted'
    <3>1. CASE Login(r) \/ LogoutAll(r) \/ \E t \in known : Refresh(r, t) \/ Logout(r, t)
      BY <3>1, <2>2 DEF Login, LogoutAll, Refresh, Logout, Goto, Holds, taskVars
    <3>2. CASE Rotate(r)
      BY <3>2, <2>2 DEF Rotate, DelPresented, Goto, Holds, taskVars
    <3>3. CASE DelLogout(r) \/ Expire(r) \/ DelList(r) \/ Fails(r)
      BY <3>3, <2>2 DEF DelLogout, Expire, DelList, Fails, Finish, Goto, Holds
    <3>4. CASE Lpush(r) \/ Ltrim(r) \/ Lrange(r) \/ DelKey(r)
      BY <3>4, <2>2 DEF Lpush, Ltrim, Lrange, DelKey, Goto, Holds, taskVars
    <3> QED
      BY <1>2, <3>1, <3>2, <3>3, <3>4
  <2> QED
    BY <2>1, <2>3, <2>4, ExchangeKept DEF ExchangeInv, IdleIsFree, Holds
<1>3. CASE KeyExpires \/ LeewayEnds \/ ListExpires \/ UNCHANGED vars
  BY <1>3, ExchangeKept DEF KeyExpires, LeewayEnds, ListExpires, vars, taskVars, tokenVars,
                            ExchangeInv, IdleIsFree, Holds
<1> QED
  BY <1>1, <1>2, <1>3 DEF Next, Serve

(* A token is exchanged for two only if two refreshes found it valid at once.*)
THEOREM DoublesAreRaced == Spec => []DoubledIsRaced
<1>1. ExchangeInv => DoubledIsRaced
  BY DEF ExchangeInv
<1> QED
  BY <1>1, InvInit, InvStep, ExchangeInit, ExchangeStep, PTL DEF Spec

(* An exchanged token is dead at once: the next refresh that presents it     *)
(* ends all sessions of the user (auth.rs:156-166).                          *)
THEOREM ExchangedTokensAreDead ==
  Spec => [](\A a \in Tokens : parent[a] # 0 => parent[a] \notin live)
<1>1. Inv /\ ExchangeInv => \A a \in Tokens : parent[a] # 0 => parent[a] \notin live
  BY DEF Inv, DeletedIsDead, ExchangeInv, ExchangedIsDeleted
<1> QED
  BY <1>1, InvInit, InvStep, ExchangeInit, ExchangeStep, PTL DEF Spec
=============================================================================
