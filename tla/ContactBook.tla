----------------------------- MODULE ContactBook -----------------------------
(* Contacts and invite links of the Rust server: server-rust/src/routes/     *)
(* contacts.rs over the tables contacts and invite_links (db/mod.rs:248-269).*)
(* A handler is a sequence of SQL statements without a transaction. Each     *)
(* statement is atomic, and statements of concurrent requests interleave, so *)
(* a handler of one statement is one action and a longer one has a task.     *)
(* The notices sent to the other user are messages like any other (see       *)
(* SignalingHub); no row depends on them.                                    *)
EXTENDS Integers, FiniteSets

CONSTANTS Users,
          Requests,     \* tasks that serve requests of several statements
          Links,        \* invite links, past and future
          NoUser,       \* the owner of a link that does not exist
          MaxOverdraft  \* bound on how far below zero uses_left may go

ASSUME NoUserAssumption       == NoUser \notin Users
ASSUME MaxOverdraftAssumption == MaxOverdraft \in Nat

VARIABLES
  row,      \* contacts: (requester, target) -> status, "none" without a row
  owner,    \* invite_links: who generated the link, NoUser if nobody has
  uses,     \* invite_links: uses_left
  expired,  \* links whose expires_at has passed
  pc,       \* the SQL statement each task issues next
  user,     \* the user whose request it serves
  to,       \* the user the request is about
  link,     \* the link it redeems, if any
  agreed,   \* history: pairs of which one accepted the other's request and
            \*   neither has removed or blocked the other since
  firm,     \* history: those of them that no request was about to overwrite
  barred,   \* history: pairs of which one has blocked the other, undisturbed,
            \*   and no invite was redeemed between them since
  shared    \* history: links that two requests were redeeming at once

vars == <<row, owner, uses, expired, pc, user, to, link, agreed, firm, barred,
          shared>>
inviteVars == <<owner, uses, expired, shared>>
taskVars   == <<pc, user, to, link>>
pairVars   == <<agreed, firm, barred>>

Statuses == {"none", "pending", "accepted", "blocked"}
PCs      == {"idle", "insert", "block", "decrement", "ask"}

Unrelated(u, v) == row[<<u, v>>] = "none" /\ row[<<v, u>>] = "none"

(* can_call: either row will do. *)
CanCall(u, v) == row[<<u, v>>] = "accepted" \/ row[<<v, u>>] = "accepted"

Start(r, l, u, v) == /\ pc[r] = "idle"
                     /\ pc' = [pc EXCEPT ![r] = l]
                     /\ user' = [user EXCEPT ![r] = u]
                     /\ to' = [to EXCEPT ![r] = v]

Finish(r) == /\ pc' = [pc EXCEPT ![r] = "idle"]
             /\ UNCHANGED <<user, to, link>>

(* The requests from u to v that are past their check. *)
Waiting(u, v) == {r \in Requests : pc[r] = "insert" /\ user[r] = u /\ to[r] = v}

Claimants(l) == {r \in Requests : pc[r] = "decrement" /\ link[r] = l}

Init == /\ row = [p \in Users \X Users |-> "none"]
        /\ owner = [l \in Links |-> NoUser]
        /\ uses = [l \in Links |-> 0]
        /\ expired = {}
        /\ pc = [r \in Requests |-> "idle"]
        /\ user \in [Requests -> Users] /\ to = user
        /\ link \in [Requests -> Links]
        /\ agreed = {} /\ firm = {} /\ barred = {} /\ shared = {}

-----------------------------------------------------------------------------
(* Mutant of SendRequest: only the row of this direction is looked for. *)
SendRequestOneWay(r, u, v) ==
  /\ u # v /\ row[<<u, v>>] = "none"
  /\ Start(r, "insert", u, v)
  /\ UNCHANGED <<row, link, inviteVars, pairVars>>

(* send_request: the target exists and there is no row between the two ...   *)
SendRequest(r, u, v) ==
  /\ u # v /\ Unrelated(u, v)
  /\ Start(r, "insert", u, v)
  /\ UNCHANGED <<row, link, inviteVars, pairVars>>

(* ... a moment ago: on a conflict the row becomes pending, whatever it was. *)
InsertRequest(r) ==
  /\ pc[r] = "insert"
  /\ row' = [row EXCEPT ![<<user[r], to[r]>>] = "pending"]
  /\ Finish(r)
  /\ UNCHANGED <<inviteVars, pairVars>>

(* accept_request of user u, for the request of v. *)
Accept(u, v) ==
  /\ row[<<v, u>>] = "pending"
  /\ row' = [row EXCEPT ![<<v, u>>] = "accepted"]
  /\ agreed' = agreed \cup {{u, v}}
  /\ firm' = IF Waiting(v, u) = {} THEN firm \cup {{u, v}} ELSE firm
  /\ UNCHANGED <<barred, inviteVars, taskVars>>

Decline(u, v) ==
  /\ row[<<v, u>>] = "pending"
  /\ row' = [row EXCEPT ![<<v, u>>] = "none"]
  /\ UNCHANGED <<inviteVars, taskVars, pairVars>>

(* Mutant of Remove: only the row that the user itself requested goes. *)
RemoveOwn(u, v) ==
  /\ row' = [row EXCEPT ![<<u, v>>] = IF @ = "accepted" THEN "none" ELSE @]
  /\ agreed' = agreed \ {{u, v}}
  /\ firm' = firm \ {{u, v}}
  /\ UNCHANGED <<barred, inviteVars, taskVars>>

(* remove_contact deletes the accepted rows of both directions. *)
Remove(u, v) ==
  /\ row' = [p \in Users \X Users |->
               IF p \in {<<u, v>>, <<v, u>>} /\ row[p] = "accepted" THEN "none"
                                                                   ELSE row[p]]
  /\ agreed' = agreed \ {{u, v}}
  /\ firm' = firm \ {{u, v}}
  /\ UNCHANGED <<barred, inviteVars, taskVars>>

-----------------------------------------------------------------------------
(* block_user deletes every row between the two, *)

Block(r, u, v) ==
  /\ Start(r, "block", u, v)
  /\ row' = [p \in Users \X Users |->
               IF p \in {<<u, v>>, <<v, u>>} THEN "none" ELSE row[p]]
  /\ agreed' = agreed \ {{u, v}}
  /\ firm' = firm \ {{u, v}}
  /\ barred' = barred \ {{u, v}}
  /\ UNCHANGED <<link, inviteVars>>

(* then inserts its own; if there is one again by now, the INSERT fails.     *)
InsertBlock(r) ==
  LET u == user[r]
      v == to[r]
  IN /\ pc[r] = "block"
     /\ row' = [row EXCEPT ![<<u, v>>] = IF @ = "none" THEN "blocked" ELSE @]
     /\ barred' = IF /\ row[<<u, v>>] = "none" /\ row[<<v, u>>] \in {"none", "blocked"}
                     /\ Waiting(u, v) \cup Waiting(v, u) = {}
                  THEN barred \cup {{u, v}} ELSE barred
     /\ Finish(r)
     /\ UNCHANGED <<inviteVars, agreed, firm>>

-----------------------------------------------------------------------------
(* Invite links. *)

GenerateLink(u, l) ==
  /\ owner[l] = NoUser
  /\ owner' = [owner EXCEPT ![l] = u]
  /\ uses' = [uses EXCEPT ![l] = 1]
  /\ UNCHANGED <<row, expired, shared, taskVars, pairVars>>

(* Mutant of UseInvite: the link is refused only when it is overdrawn. *)
UseInviteOnce(r, u, l) ==
  /\ owner[l] # NoUser /\ l \notin expired
  /\ uses[l] > -1
  /\ uses[l] - Cardinality(Claimants(l)) > -MaxOverdraft
  /\ Start(r, "decrement", u, owner[l])
  /\ link' = [link EXCEPT ![r] = l]
  /\ shared' = IF Claimants(l) = {} THEN shared ELSE shared \cup {l}
  /\ UNCHANGED <<row, owner, uses, expired, pairVars>>

(* use_invite_link reads uses_left, and refuses a link whose count is zero.  *)
UseInvite(r, u, l) ==
  /\ owner[l] # NoUser /\ l \notin expired
  /\ uses[l] # 0
  /\ uses[l] - Cardinality(Claimants(l)) > -MaxOverdraft
  /\ Start(r, "decrement", u, owner[l])
  /\ link' = [link EXCEPT ![r] = l]
  /\ shared' = IF Claimants(l) = {} THEN shared ELSE shared \cup {l}
  /\ UNCHANGED <<row, owner, uses, expired, pairVars>>

Decrement(r) ==
  /\ pc[r] = "decrement"
  /\ uses' = [uses EXCEPT ![link[r]] = @ - 1]
  /\ pc' = [pc EXCEPT ![r] = "ask"]
  /\ UNCHANGED <<row, owner, expired, shared, user, to, link, pairVars>>

(* Mutants of AskOwner: a status that the table does not know, *)
AskOwnerInvites(r) ==
  /\ pc[r] = "ask"
  /\ row' = [row EXCEPT ![<<user[r], to[r]>>] = IF @ = "none" THEN "invited" ELSE @]
  /\ barred' = barred \ {{user[r], to[r]}}
  /\ Finish(r)
  /\ UNCHANGED <<inviteVars, agreed, firm>>

(* or the ON CONFLICT clause of send_request. *)
AskOwnerAgain(r) ==
  /\ pc[r] = "ask"
  /\ row' = [row EXCEPT ![<<user[r], to[r]>>] = "pending"]
  /\ barred' = barred \ {{user[r], to[r]}}
  /\ Finish(r)
  /\ UNCHANGED <<inviteVars, agreed, firm>>

(* The request to the owner of the link, unless there is a row already.      *)
AskOwner(r) ==
  /\ pc[r] = "ask"
  /\ row' = [row EXCEPT ![<<user[r], to[r]>>] = IF @ = "none" THEN "pending" ELSE @]
  /\ barred' = barred \ {{user[r], to[r]}}
  /\ Finish(r)
  /\ UNCHANGED <<inviteVars, agreed, firm>>

LinkExpires(l) == /\ owner[l] # NoUser /\ l \notin expired
                  /\ expired' = expired \cup {l}
                  /\ UNCHANGED <<row, owner, uses, shared, taskVars, pairVars>>

(* AppError::Database, or a client that goes away, between two statements.   *)
Fails(r) == /\ pc[r] # "idle"
            /\ Finish(r)
            /\ UNCHANGED <<row, inviteVars, pairVars>>

Handle(r) == \/ InsertRequest(r) \/ InsertBlock(r)
             \/ Decrement(r) \/ AskOwner(r) \/ Fails(r)

Next == \/ \E r \in Requests : \/ Handle(r)
                               \/ \E u, v \in Users : SendRequest(r, u, v) \/ Block(r, u, v)
                               \/ \E u \in Users, l \in Links : UseInvite(r, u, l)
        \/ \E u, v \in Users : Accept(u, v) \/ Decline(u, v) \/ Remove(u, v)
        \/ \E u \in Users, l \in Links : GenerateLink(u, l)
        \/ \E l \in Links : LinkExpires(l)

Spec == Init /\ [][Next]_vars

-----------------------------------------------------------------------------
(* Properties. *)

(* The type invariant. *)
TypeOK == /\ row \in [Users \X Users -> Statuses]
          /\ owner \in [Links -> Users \cup {NoUser}]
          /\ uses \in [Links -> Int]
          /\ expired \subseteq Links /\ shared \subseteq Links
          /\ pc \in [Requests -> PCs]
          /\ user \in [Requests -> Users] /\ to \in [Requests -> Users]
          /\ link \in [Requests -> Links]
          /\ agreed \subseteq SUBSET Users
          /\ firm \subseteq agreed /\ barred \subseteq SUBSET Users

(* contacts.rs:569, "only if the two parties are mutual accepted contacts":  *)
(* whoever may call has been accepted since the last removal or block by     *)
(* either, however stale the requests and invites are that arrive meanwhile. *)
CallableIsAgreed == \A u, v \in Users : CanCall(u, v) => {u, v} \in agreed

(* The other way round, "ALREADY_CONTACTS" (contacts.rs:250): who agreed and  *)
(* has not parted since may call, unless a request of the one who was        *)
(* accepted had passed its check before that: only then may the late INSERT  *)
(* ("DO UPDATE SET status", contacts.rs:261) take the contact away again.    *)
FirmIsCallable == \A u, v \in Users : {u, v} \in firm => CanCall(u, v)

(* "User blocked" (contacts.rs:397): a block that nothing disturbed between  *)
(* its DELETE and its INSERT leaves no request and no contact between the    *)
(* two, nor does any route make one later - but for an invite link, which is *)
(* redeemed without a look at the block (contacts.rs:538-545).               *)
BarredStaysOut ==
  \A u, v \in Users : {u, v} \in barred =>
     /\ {row[<<u, v>>], row[<<v, u>>]} \subseteq {"none", "blocked"}
     /\ ~Unrelated(u, v)

(* contacts.rs:507, "has uses left": a link is overdrawn only if two requests*)
(* were redeeming it at once; one after another, they use it once.           *)
OverdrawnIsShared == \A l \in Links : uses[l] < 0 => l \in shared
=============================================================================
