-------------------------- MODULE ContactBookProofs --------------------------
(* What holds of ContactBook for any users, tasks and links. A row becomes   *)
(* accepted in one place only, so the proof is about the statements that end *)
(* a contact: each must take the rows of both directions. For the links, as  *)
(* long as one is not shared, its only claimant has seen its only use.       *)
EXTENDS ContactBook, TLAPS

(* A contact that is firm has an accepted row that no waiting request is     *)
(* going to write; a pair that is barred has a blocked row, no other kind of *)
(* row, and no request that is still to be written.                          *)
FirmRow(u, v) == row[<<u, v>>] = "accepted" /\ Waiting(u, v) = {}

BarredRow(u, v) == /\ row[<<u, v>>] = "blocked"
                   /\ row[<<v, u>>] \in {"none", "blocked"}
                   /\ Waiting(u, v) = {} /\ Waiting(v, u) = {}

FirmInv == \A p \in firm   : \E u, v \in Users : p = {u, v} /\ FirmRow(u, v)
BarInv  == \A p \in barred : \E u, v \in Users : p = {u, v} /\ BarredRow(u, v)

(* A link that two requests never redeemed at once has been used at most     *)
(* once, and its claimant, if there is one, will be the first.               *)
ClaimInv ==
  /\ \A r \in Requests : pc[r] = "decrement" => owner[link[r]] # NoUser
  /\ \A l \in Links \ shared :
        /\ uses[l] \in {0, 1}
        /\ \A r \in Claimants(l) : uses[l] = 1 /\ Claimants(l) = {r}

Inv == TypeOK /\ CallableIsAgreed /\ ClaimInv /\ FirmInv /\ BarInv

LEMMA InitInv == Init => Inv
<1> SUFFICES ASSUME Init PROVE Inv
  OBVIOUS
<1>1. TypeOK
  BY DEF Init, TypeOK, Statuses, PCs
<1>2. CallableIsAgreed
  BY DEF Init, CallableIsAgreed, CanCall
<1>3. ClaimInv
  BY DEF Init, ClaimInv, Claimants
<1>4. FirmInv /\ BarInv
  BY DEF Init, FirmInv, BarInv
<1> QED
  BY <1>1, <1>2, <1>3, <1>4 DEF Inv

-----------------------------------------------------------------------------
(* Types. *)

LEMMA StartTypes ==
  ASSUME TypeOK, NEW r \in Requests, NEW l \in PCs, NEW u \in Users, NEW v \in Users,
         Start(r, l, u, v)
  PROVE  /\ pc' \in [Requests -> PCs]
         /\ user' \in [Requests -> Users] /\ to' \in [Requests -> Users]
  BY DEF TypeOK, Start

LEMMA FinishTypes ==
  ASSUME TypeOK, NEW r \in Requests, Finish(r)
  PROVE  /\ pc' \in [Requests -> PCs]
         /\ user' \in [Requests -> Users] /\ to' \in [Requests -> Users]
         /\ link' \in [Requests -> Links]
  BY DEF TypeOK, Finish, PCs

LEMMA TypeStep == TypeOK /\ [Next]_vars => TypeOK'
<1> SUFFICES ASSUME TypeOK, [Next]_vars PROVE TypeOK'
  OBVIOUS
<1>1. ASSUME NEW r \in Requests, Handle(r)
      PROVE  TypeOK'
  <2>1. CASE InsertRequest(r)
    BY <2>1, FinishTypes DEF TypeOK, InsertRequest, inviteVars, pairVars, Statuses
  <2>2. CASE InsertBlock(r)
    BY <2>2, FinishTypes DEF TypeOK, InsertBlock, inviteVars, pairVars, Statuses
  <2>3. CASE Decrement(r)
    BY <2>3 DEF TypeOK, Decrement, PCs, pairVars
  <2>4. CASE AskOwner(r)
    BY <2>4, FinishTypes DEF TypeOK, AskOwner, inviteVars, pairVars, Statuses
  <2>5. CASE Fails(r)
    BY <2>5, FinishTypes DEF TypeOK, Fails, inviteVars, pairVars
  <2> QED
    BY <1>1, <2>1, <2>2, <2>3, <2>4, <2>5 DEF Handle
<1>2. ASSUME NEW r \in Requests, NEW u \in Users, NEW v \in Users,
             SendRequest(r, u, v)
      PROVE  TypeOK'
  <2>1. Start(r, "insert", u, v) /\ "insert" \in PCs
    BY <1>2 DEF SendRequest, PCs
  <2> QED
    BY <1>2, <2>1, StartTypes DEF TypeOK, SendRequest, inviteVars, pairVars
<1>3. ASSUME NEW r \in Requests, NEW u \in Users, NEW v \in Users, Block(r, u, v)
      PROVE  TypeOK'
  <2>1. Start(r, "block", u, v) /\ "block" \in PCs
    BY <1>3 DEF Block, PCs
  <2>2. /\ row' \in [Users \X Users -> Statuses] /\ agreed' \subseteq SUBSET Users
        /\ firm' \subseteq agreed' /\ barred' \subseteq SUBSET Users
    BY <1>3 DEF TypeOK, Block, Statuses
  <2> QED
    BY <1>3, <2>1, <2>2, StartTypes DEF TypeOK, Block, inviteVars, pairVars
<1>4. ASSUME NEW r \in Requests, NEW u \in Users, NEW l \in Links, UseInvite(r, u, l)
      PROVE  TypeOK'
  <2>1. /\ Start(r, "decrement", u, owner[l]) /\ "decrement" \in PCs
        /\ owner[l] \in Users
    BY <1>4 DEF UseInvite, PCs, TypeOK
  <2> QED
    BY <1>4, <2>1, StartTypes DEF TypeOK, UseInvite, pairVars
<1>5. ASSUME NEW u \in Users, NEW v \in Users,
             Accept(u, v) \/ Decline(u, v) \/ Remove(u, v)
      PROVE  TypeOK'
  <2>1. /\ row' \in [Users \X Users -> Statuses] /\ agreed' \subseteq SUBSET Users
        /\ firm' \subseteq agreed' /\ barred' = barred
    BY <1>5 DEF TypeOK, Accept, Decline, Remove, Statuses, pairVars
  <2> QED
    BY <1>5, <2>1 DEF TypeOK, Accept, Decline, Remove, inviteVars, taskVars, pairVars
<1>6. ASSUME NEW u \in Users, NEW l \in Links, GenerateLink(u, l)
      PROVE  TypeOK'
  BY <1>6 DEF TypeOK, GenerateLink, taskVars, pairVars
<1>7. ASSUME NEW l \in Links, LinkExpires(l)
      PROVE  TypeOK'
  BY <1>7 DEF TypeOK, LinkExpires, taskVars, pairVars
<1>8. CASE UNCHANGED vars
  BY <1>8 DEF TypeOK, vars
<1> QED
  BY <1>1, <1>2, <1>3, <1>4, <1>5, <1>6, <1>7, <1>8 DEF Next

-----------------------------------------------------------------------------
(* Contacts. *)

(* A step that makes no row accepted and forgets no agreement. *)
LEMMA AgreedKept ==
  ASSUME CallableIsAgreed, agreed \subseteq agreed',
         \A u, v \in Users : row'[<<u, v>>] = "accepted" => row[<<u, v>>] = "accepted"
  PROVE  CallableIsAgreed'
  BY DEF CallableIsAgreed, CanCall

(* A step that ends what is between two users, and touches no other row. *)
LEMMA AgreedEnded ==
  ASSUME CallableIsAgreed, NEW u \in Users, NEW v \in Users,
         agreed' = agreed \ {{u, v}},
         row'[<<u, v>>] # "accepted", row'[<<v, u>>] # "accepted",
         \A p \in (Users \X Users) \ {<<u, v>>, <<v, u>>} : row'[p] = row[p]
  PROVE  CallableIsAgreed'
<1> SUFFICES ASSUME NEW x \in Users, NEW y \in Users, CanCall(x, y)'
             PROVE  {x, y} \in agreed'
  BY DEF CallableIsAgreed
<1>1. <<x, y>> \notin {<<u, v>>, <<v, u>>}
  BY DEF CanCall
<1>2. <<y, x>> \notin {<<u, v>>, <<v, u>>}
  BY <1>1
<1>3. {x, y} # {u, v}
  BY <1>1
<1>4. CanCall(x, y)
  <2>1. row'[<<x, y>>] = row[<<x, y>>] /\ row'[<<y, x>>] = row[<<y, x>>]
    BY <1>1, <1>2
  <2> QED
    BY <2>1 DEF CanCall
<1> QED
  BY <1>3, <1>4 DEF CallableIsAgreed

LEMMA AgreedStep == TypeOK /\ CallableIsAgreed /\ [Next]_vars => CallableIsAgreed'
<1> SUFFICES ASSUME TypeOK, CallableIsAgreed, [Next]_vars PROVE CallableIsAgreed'
  OBVIOUS
<1>1. row \in [Users \X Users -> Statuses]
  BY DEF TypeOK
<1>2. ASSUME NEW r \in Requests, Handle(r)
      PROVE  CallableIsAgreed'
  <2>1. agreed' = agreed
    BY <1>2 DEF pairVars, Handle, InsertRequest, InsertBlock, Decrement, AskOwner, Fails
  <2>2. user[r] \in Users /\ to[r] \in Users
    BY DEF TypeOK
  <2>3. \/ row' = row
        \/ \E x \in Statuses \ {"accepted"} : row' = [row EXCEPT ![<<user[r], to[r]>>] = x]
    BY <1>2, <1>1, <2>2 DEF Handle, InsertRequest, InsertBlock, Decrement, AskOwner,
                            Fails, Statuses
  <2>4. \A u, v \in Users : row'[<<u, v>>] = "accepted" => row[<<u, v>>] = "accepted"
    BY <1>1, <2>2, <2>3
  <2> QED
    BY <2>1, <2>4, AgreedKept
<1>3. ASSUME NEW r \in Requests, NEW u \in Users, NEW v \in Users, Block(r, u, v)
      PROVE  CallableIsAgreed'
  BY <1>3, AgreedEnded DEF Block
<1>4. ASSUME NEW u \in Users, NEW v \in Users, Remove(u, v)
      PROVE  CallableIsAgreed'
  BY <1>4, AgreedEnded DEF Remove
<1>5. ASSUME NEW u \in Users, NEW v \in Users, Accept(u, v)
      PROVE  CallableIsAgreed'
  <2>1. \A x, y \in Users : row'[<<x, y>>] = "accepted" =>
            row[<<x, y>>] = "accepted" \/ (x = v /\ y = u)
    BY <1>1, <1>5 DEF Accept
  <2>2. agreed' = agreed \cup {{u, v}}
    BY <1>5 DEF Accept
  <2> QED
    BY <2>1, <2>2 DEF CallableIsAgreed, CanCall
<1>6. ASSUME NEW u \in Users, NEW v \in Users, Decline(u, v)
      PROVE  CallableIsAgreed'
  <2>1. agreed' = agreed /\ row' = [row EXCEPT ![<<v, u>>] = "none"]
    BY <1>6 DEF Decline, pairVars
  <2>2. \A x, y \in Users : row'[<<x, y>>] = "accepted" => row[<<x, y>>] = "accepted"
    BY <1>1, <2>1
  <2> QED
    BY <2>1, <2>2, AgreedKept
<1>7. ASSUME row' = row, agreed' = agreed
      PROVE  CallableIsAgreed'
  BY <1>7, AgreedKept
<1> QED
  BY <1>2, <1>3, <1>4, <1>5, <1>6, <1>7
     DEF Next, SendRequest, UseInvite, GenerateLink, LinkExpires, vars, pairVars

-----------------------------------------------------------------------------
(* Firm contacts and blocks that hold. *)

(* Who waits to insert a request, after a step. *)
LEMMA WaitingKept ==
  ASSUME TypeOK, [Next]_vars, NEW x \in Users, NEW y \in Users,
         row[<<x, y>>] # "none" \/ row[<<y, x>>] # "none"
  PROVE  Waiting(x, y)' \subseteq Waiting(x, y)
<1> SUFFICES ASSUME NEW r \in Requests,
                    pc'[r] = "insert", user'[r] = x, to'[r] = y,
                    ~(pc[r] = "insert" /\ user[r] = x /\ to[r] = y)
             PROVE  FALSE
  BY DEF Waiting
<1>1. pc \in [Requests -> PCs] /\ user \in [Requests -> Users] /\ to \in [Requests -> Users]
  BY DEF TypeOK
<1>2. ASSUME NEW q \in Requests, Handle(q)
      PROVE  FALSE
  BY <1>1, <1>2 DEF Handle, InsertRequest, InsertBlock, Decrement, AskOwner, Fails, Finish
<1>3. ASSUME NEW q \in Requests, NEW u \in Users, NEW v \in Users, SendRequest(q, u, v)
      PROVE  FALSE
  BY <1>1, <1>3 DEF SendRequest, Start, Unrelated
<1>4. ASSUME NEW q \in Requests, NEW u \in Users, NEW v \in Users, Block(q, u, v)
      PROVE  FALSE
  BY <1>1, <1>4 DEF Block, Start
<1>5. ASSUME NEW q \in Requests, NEW u \in Users, NEW l \in Links, UseInvite(q, u, l)
      PROVE  FALSE
  BY <1>1, <1>5 DEF UseInvite, Start
<1>6. ASSUME UNCHANGED taskVars
      PROVE  FALSE
  BY <1>6 DEF taskVars
<1> QED
  BY <1>2, <1>3, <1>4, <1>5, <1>6 DEF Next, Accept, Decline, Remove, GenerateLink,
     LinkExpires, vars, taskVars

(* What becomes of a row that is there. *)
LEMMA RowKept ==
  ASSUME TypeOK, [Next]_vars, NEW x \in Users, NEW y \in Users, Waiting(x, y) = {},
         \A u, v \in Users : Remove(u, v) => {u, v} # {x, y},
         \A r \in Requests, u, v \in Users : Block(r, u, v) => {u, v} # {x, y}
  PROVE  /\ row[<<x, y>>] \in {"accepted", "blocked"} => row'[<<x, y>>] = row[<<x, y>>]
         /\ (/\ row[<<x, y>>] = "none"
             /\ \A r \in Requests : AskOwner(r) => {user[r], to[r]} # {x, y})
              => row'[<<x, y>>] \in {"none", "blocked"}
<1> DEFINE Kept == row'[<<x, y>>] = row[<<x, y>>]
           Asks == \E r \in Requests : AskOwner(r) /\ user[r] = x /\ to[r] = y
<1>1. /\ row \in [Users \X Users -> Statuses]
      /\ user \in [Requests -> Users] /\ to \in [Requests -> Users]
  BY DEF TypeOK
<1>2. ASSUME NEW r \in Requests, InsertRequest(r)
      PROVE  Kept
  <2>1. <<user[r], to[r]>> # <<x, y>>
    BY <1>2 DEF InsertRequest, Waiting
  <2> QED
    BY <1>1, <1>2, <2>1 DEF InsertRequest
<1>3. ASSUME NEW r \in Requests, InsertBlock(r)
      PROVE  Kept \/ (row[<<x, y>>] = "none" /\ row'[<<x, y>>] = "blocked")
  BY <1>1, <1>3 DEF InsertBlock
<1>4. ASSUME NEW r \in Requests, AskOwner(r)
      PROVE  Kept \/ (row[<<x, y>>] = "none" /\ Asks)
  <2>1. CASE <<user[r], to[r]>> = <<x, y>>
    BY <1>1, <1>4, <2>1 DEF AskOwner
  <2>2. CASE <<user[r], to[r]>> # <<x, y>>
    BY <1>1, <1>4, <2>2 DEF AskOwner
  <2> QED
    BY <2>1, <2>2
<1>5. ASSUME NEW u \in Users, NEW v \in Users, Accept(u, v) \/ Decline(u, v)
      PROVE  Kept \/ row[<<x, y>>] = "pending"
  BY <1>1, <1>5 DEF Accept, Decline
<1>6. ASSUME NEW u \in Users, NEW v \in Users, Remove(u, v)
      PROVE  Kept
  <2>1. {u, v} # {x, y}
    BY <1>6
  <2>2. <<x, y>> \notin {<<u, v>>, <<v, u>>}
    BY <2>1
  <2> QED
    BY <1>1, <1>6, <2>2 DEF Remove
<1>7. ASSUME NEW r \in Requests, NEW u \in Users, NEW v \in Users, Block(r, u, v)
      PROVE  Kept
  <2>1. {u, v} # {x, y}
    BY <1>7
  <2>2. <<x, y>> \notin {<<u, v>>, <<v, u>>}
    BY <2>1
  <2> QED
    BY <1>1, <1>7, <2>2 DEF Block
<1>8. ASSUME row' = row
      PROVE  Kept
  BY <1>8
<1>9. Kept \/ row[<<x, y>>] = "pending"
      \/ (row[<<x, y>>] = "none" /\ (row'[<<x, y>>] = "blocked" \/ Asks))
  <2> HIDE DEF Kept, Asks
  <2> QED
    BY <1>2, <1>3, <1>4, <1>5, <1>6, <1>7, <1>8
       DEF Next, Handle, SendRequest, UseInvite, GenerateLink, LinkExpires, Decrement,
           Fails, vars
<1> QED
  BY <1>9

LEMMA FirmStep == TypeOK /\ FirmInv /\ [Next]_vars => FirmInv'
<1> SUFFICES ASSUME TypeOK, FirmInv, [Next]_vars, NEW p \in firm'
             PROVE  \E u, v \in Users : p = {u, v} /\ FirmRow(u, v)'
  BY DEF FirmInv
<1>1. CASE p \in firm
  <2>1. PICK x \in Users, y \in Users : p = {x, y} /\ FirmRow(x, y)
    BY <1>1 DEF FirmInv
  <2>2. /\ \A u, v \in Users : Remove(u, v) => {u, v} # {x, y}
        /\ \A r \in Requests, u, v \in Users : Block(r, u, v) => {u, v} # {x, y}
    BY <2>1 DEF Remove, Block
  <2>3. row'[<<x, y>>] = "accepted"
    BY <2>1, <2>2, RowKept DEF FirmRow
  <2>4. Waiting(x, y)' = {}
    BY <2>1, WaitingKept DEF FirmRow
  <2> QED
    BY <2>1, <2>3, <2>4 DEF FirmRow
<1>2. CASE p \notin firm
  <2>1. PICK u \in Users, v \in Users : Accept(u, v)
    BY <1>2 DEF Next, Handle, InsertRequest, InsertBlock, Decrement, AskOwner, Fails,
       SendRequest, Block, UseInvite, Decline, Remove, GenerateLink, LinkExpires,
       vars, pairVars
  <2>2. p = {v, u} /\ Waiting(v, u) = {}
    BY <1>2, <2>1 DEF Accept
  <2>3. row'[<<v, u>>] = "accepted" /\ Waiting(v, u)' = Waiting(v, u)
    BY <2>1 DEF Accept, TypeOK, taskVars, Waiting
  <2> QED
    BY <2>2, <2>3 DEF FirmRow
<1> QED
  BY <1>1, <1>2

LEMMA BarStep == TypeOK /\ BarInv /\ [Next]_vars => BarInv'
<1> SUFFICES ASSUME TypeOK, BarInv, [Next]_vars, NEW p \in barred'
             PROVE  \E u, v \in Users : p = {u, v} /\ BarredRow(u, v)'
  BY DEF BarInv
<1>1. CASE p \in barred
  <2>1. PICK x \in Users, y \in Users : p = {x, y} /\ BarredRow(x, y)
    BY <1>1 DEF BarInv
  <2>2. /\ \A r \in Requests, u, v \in Users : Block(r, u, v) => {u, v} # {x, y}
        /\ \A r \in Requests : AskOwner(r) => {user[r], to[r]} # {x, y}
    BY <2>1 DEF Block, AskOwner
  <2>3. CASE \E u, v \in Users : Remove(u, v) /\ {u, v} = {x, y}
    <3>1. PICK u \in Users, v \in Users : Remove(u, v)
      BY <2>3
    <3>2. row'[<<x, y>>] = row[<<x, y>>] /\ row'[<<y, x>>] = row[<<y, x>>]
      BY <2>1, <3>1 DEF Remove, BarredRow, TypeOK
    <3>3. UNCHANGED <<pc, user, to>>
      BY <3>1 DEF Remove, taskVars
    <3> QED
      BY <2>1, <3>2, <3>3 DEF BarredRow, Waiting
  <2>4. CASE \A u, v \in Users : Remove(u, v) => {u, v} # {x, y}
    <3>1. row'[<<x, y>>] = "blocked"
      BY <2>1, <2>2, <2>4, RowKept DEF BarredRow
    <3>2. row'[<<y, x>>] \in {"none", "blocked"}
      <4>1. /\ \A u, v \in Users : Remove(u, v) => {u, v} # {y, x}
            /\ \A r \in Requests, u, v \in Users : Block(r, u, v) => {u, v} # {y, x}
            /\ \A r \in Requests : AskOwner(r) => {user[r], to[r]} # {y, x}
        BY <2>2, <2>4
      <4>2. row[<<y, x>>] \in {"none", "blocked"} /\ Waiting(y, x) = {}
        BY <2>1 DEF BarredRow
      <4>3. row[<<y, x>>] = "blocked" => row'[<<y, x>>] = "blocked"
        BY <4>1, <4>2, RowKept
      <4>4. row[<<y, x>>] = "none" => row'[<<y, x>>] \in {"none", "blocked"}
        BY <4>1, <4>2, RowKept
      <4> QED
        BY <4>2, <4>3, <4>4
    <3>3. Waiting(x, y)' = {} /\ Waiting(y, x)' = {}
      BY <2>1, WaitingKept DEF BarredRow
    <3> QED
      BY <2>1, <3>1, <3>2, <3>3 DEF BarredRow
  <2> QED
    BY <2>3, <2>4
<1>2. CASE p \notin barred
  <2>1. PICK r \in Requests : InsertBlock(r)
    BY <1>2 DEF Next, Handle, InsertRequest, Decrement, AskOwner, Fails,
       SendRequest, Block, UseInvite, Accept, Decline, Remove, GenerateLink, LinkExpires,
       vars, pairVars
  <2>2. PICK u \in Users, v \in Users : u = user[r] /\ v = to[r]
    BY DEF TypeOK
  <2>3. /\ p = {u, v} /\ row[<<u, v>>] = "none"
        /\ row[<<v, u>>] \in {"none", "blocked"}
        /\ Waiting(u, v) = {} /\ Waiting(v, u) = {}
    BY <1>2, <2>1, <2>2 DEF InsertBlock
  <2>4. /\ pc' = [pc EXCEPT ![r] = "idle"] /\ UNCHANGED <<user, to>>
        /\ row' = [row EXCEPT ![<<u, v>>] = "blocked"]
    BY <2>1, <2>2, <2>3 DEF InsertBlock, Finish
  <2>5. row'[<<u, v>>] = "blocked" /\ row'[<<v, u>>] \in {"none", "blocked"}
    BY <2>2, <2>3, <2>4 DEF TypeOK
  <2>6. Waiting(u, v)' \subseteq Waiting(u, v) /\ Waiting(v, u)' \subseteq Waiting(v, u)
    BY <2>4 DEF Waiting, TypeOK
  <2> QED
    BY <2>2, <2>3, <2>5, <2>6 DEF BarredRow
<1> QED
  BY <1>1, <1>2

-----------------------------------------------------------------------------
(* Links. *)

(* A step that adds no claimant and leaves the links alone. *)
LEMMA ClaimKept ==
  ASSUME ClaimInv, uses' = uses, owner' = owner, shared' = shared, link' = link,
         \A r \in Requests : pc'[r] = "decrement" => pc[r] = "decrement"
  PROVE  ClaimInv'
  BY DEF ClaimInv, Claimants

LEMMA ClaimStep == TypeOK /\ ClaimInv /\ [Next]_vars => ClaimInv'
<1> SUFFICES ASSUME TypeOK, ClaimInv, [Next]_vars PROVE ClaimInv'
  OBVIOUS
<1>1. /\ pc \in [Requests -> PCs] /\ link \in [Requests -> Links]
      /\ uses \in [Links -> Int] /\ owner \in [Links -> Users \cup {NoUser}]
  BY DEF TypeOK
<1>2. ASSUME NEW r \in Requests, Decrement(r)
      PROVE  ClaimInv'
  <2>1. /\ pc' = [pc EXCEPT ![r] = "ask"] /\ pc[r] = "decrement"
        /\ uses' = [uses EXCEPT ![link[r]] = @ - 1]
        /\ UNCHANGED <<owner, shared, link>>
    BY <1>2 DEF Decrement
  <2>2. \A l \in Links : Claimants(l)' = Claimants(l) \ {r}
    BY <1>1, <2>1 DEF Claimants
  <2>3. ASSUME NEW l \in Links \ shared
        PROVE  /\ uses'[l] \in {0, 1}
               /\ \A q \in Claimants(l)' : uses'[l] = 1 /\ Claimants(l)' = {q}
    <3>1. CASE l = link[r]
      <4>1. uses[l] = 1 /\ Claimants(l) = {r}
        BY <2>1, <3>1 DEF ClaimInv, Claimants
      <4> QED
        BY <1>1, <2>1, <2>2, <3>1, <4>1
    <3>2. CASE l # link[r]
      <4>1. uses'[l] = uses[l] /\ r \notin Claimants(l)
        BY <1>1, <2>1, <3>2 DEF Claimants
      <4> QED
        BY <2>2, <4>1 DEF ClaimInv
    <3> QED
      BY <3>1, <3>2
  <2>4. \A q \in Requests : pc'[q] = "decrement" => owner'[link'[q]] # NoUser
    BY <1>1, <2>1 DEF ClaimInv
  <2> QED
    BY <2>1, <2>3, <2>4 DEF ClaimInv
<1>3. ASSUME NEW r \in Requests, NEW u \in Users, NEW l \in Links, UseInvite(r, u, l)
      PROVE  ClaimInv'
  <2>1. /\ pc' = [pc EXCEPT ![r] = "decrement"] /\ pc[r] = "idle"
        /\ link' = [link EXCEPT ![r] = l]
        /\ uses[l] # 0 /\ owner[l] # NoUser
        /\ UNCHANGED <<uses, owner>>
        /\ shared' = IF Claimants(l) = {} THEN shared ELSE shared \cup {l}
    BY <1>3 DEF UseInvite, Start
  <2>2. \A k \in Links \ {l} : Claimants(k)' = Claimants(k)
    BY <1>1, <2>1 DEF Claimants
  <2>3. Claimants(l)' = Claimants(l) \cup {r}
    BY <1>1, <2>1 DEF Claimants
  <2>4. ASSUME NEW k \in Links \ shared'
        PROVE  /\ uses'[k] \in {0, 1}
               /\ \A q \in Claimants(k)' : uses'[k] = 1 /\ Claimants(k)' = {q}
    <3>1. k \in Links \ shared
      BY <2>1
    <3>2. CASE k = l
      BY <2>1, <2>3, <3>1, <3>2 DEF ClaimInv
    <3>3. CASE k # l
      BY <2>1, <2>2, <3>1, <3>3 DEF ClaimInv
    <3> QED
      BY <3>2, <3>3
  <2>5. \A q \in Requests : pc'[q] = "decrement" => owner'[link'[q]] # NoUser
    BY <1>1, <2>1 DEF ClaimInv
  <2> QED
    BY <2>4, <2>5 DEF ClaimInv
<1>4. ASSUME NEW u \in Users, NEW l \in Links, GenerateLink(u, l)
      PROVE  ClaimInv'
  <2>1. /\ owner[l] = NoUser /\ owner' = [owner EXCEPT ![l] = u]
        /\ uses' = [uses EXCEPT ![l] = 1]
        /\ UNCHANGED <<pc, link, shared>>
    BY <1>4 DEF GenerateLink, taskVars
  <2>2. Claimants(l) = {}
    BY <2>1 DEF ClaimInv, Claimants
  <2>3. \A k \in Links : Claimants(k)' = Claimants(k)
    BY <2>1 DEF Claimants
  <2>4. u # NoUser
    BY NoUserAssumption
  <2> QED
    BY <1>1, <2>1, <2>2, <2>3, <2>4 DEF ClaimInv
<1>5. ASSUME NEW r \in Requests,
             InsertRequest(r) \/ InsertBlock(r) \/ AskOwner(r) \/ Fails(r)
      PROVE  ClaimInv'
  <2>1. /\ UNCHANGED <<uses, owner, shared, link>> /\ pc' = [pc EXCEPT ![r] = "idle"]
    BY <1>5 DEF InsertRequest, InsertBlock, AskOwner, Fails, Finish, inviteVars, pairVars
  <2> QED
    BY <1>1, <2>1, ClaimKept
<1>6. ASSUME NEW r \in Requests, NEW u \in Users, NEW v \in Users,
             SendRequest(r, u, v) \/ Block(r, u, v)
      PROVE  ClaimInv'
  <2>1. /\ UNCHANGED <<uses, owner, shared, link>>
        /\ pc' = [pc EXCEPT ![r] = "insert"] \/ pc' = [pc EXCEPT ![r] = "block"]
    BY <1>6 DEF SendRequest, Block, Start, inviteVars, pairVars
  <2> QED
    BY <1>1, <2>1, ClaimKept
<1>7. ASSUME UNCHANGED <<uses, owner, shared, link, pc>>
      PROVE  ClaimInv'
  BY <1>7, ClaimKept
<1> QED
  BY <1>2, <1>3, <1>4, <1>5, <1>6, <1>7
     DEF Next, Handle, Accept, Decline, Remove, LinkExpires, vars, inviteVars, taskVars, pairVars

-----------------------------------------------------------------------------
(* Theorems. *)

(* The inductive invariant holds in every reachable state. *)
THEOREM Invariance == Spec => []Inv
<1>1. Init => Inv
  BY InitInv
<1>2. Inv /\ [Next]_vars => Inv'
  BY TypeStep, AgreedStep, ClaimStep, FirmStep, BarStep DEF Inv
<1> QED
  BY <1>1, <1>2, PTL DEF Spec

(* The tables hold only statuses the schema knows, of users that exist.      *)
THEOREM TypeCorrect == Spec => []TypeOK
  BY Invariance, PTL DEF Inv

(* Nobody may call who has not been accepted since the last removal or block *)
(* by either of the two (contacts.rs:342-400).                               *)
THEOREM CallersAreAgreed == Spec => []CallableIsAgreed
  BY Invariance, PTL DEF Inv

(* A contact is not lost to a stale request, unless that had passed its      *)
(* check before the contact was accepted.                                    *)
THEOREM ContactsAreFirm == Spec => []FirmIsCallable
<1>1. Inv => FirmIsCallable
  <2> SUFFICES ASSUME Inv, NEW u \in Users, NEW v \in Users, {u, v} \in firm
               PROVE  CanCall(u, v)
    BY DEF FirmIsCallable
  <2>1. PICK x \in Users, y \in Users : {u, v} = {x, y} /\ FirmRow(x, y)
    BY DEF Inv, FirmInv
  <2>2. <<x, y>> = <<u, v>> \/ <<x, y>> = <<v, u>>
    BY <2>1
  <2> QED
    BY <2>1, <2>2 DEF FirmRow, CanCall
<1> QED
  BY <1>1, Invariance, PTL

(* A block that nothing disturbed keeps both users out until an invite is    *)
(* redeemed.                                                                 *)
THEOREM BlocksHold == Spec => []BarredStaysOut
<1>1. Inv => BarredStaysOut
  <2> SUFFICES ASSUME Inv, NEW u \in Users, NEW v \in Users, {u, v} \in barred
               PROVE  /\ {row[<<u, v>>], row[<<v, u>>]} \subseteq {"none", "blocked"}
                      /\ ~Unrelated(u, v)
    BY DEF BarredStaysOut
  <2>1. PICK x \in Users, y \in Users : {u, v} = {x, y} /\ BarredRow(x, y)
    BY DEF Inv, BarInv
  <2>2. (x = u /\ y = v) \/ (x = v /\ y = u)
    BY <2>1
  <2> QED
    BY <2>1, <2>2 DEF BarredRow, Unrelated
<1> QED
  BY <1>1, Invariance, PTL

(* An invite link is overdrawn only by requests that overlap.                *)
THEOREM SequentialClaims == Spec => []OverdrawnIsShared
<1>1. Inv => OverdrawnIsShared
  BY DEF Inv, ClaimInv, OverdrawnIsShared
<1> QED
  BY <1>1, Invariance, PTL
=============================================================================
