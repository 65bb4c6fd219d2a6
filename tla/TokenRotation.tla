--------------------------- MODULE TokenRotation ----------------------------
(* Refresh tokens of one user: server-rust/src/routes/auth.rs (login,        *)
(* refresh, logout) over server-rust/src/db/redis_store.rs:32-95. Users have *)
(* disjoint keys, so one user is the general case.                           *)
(*                                                                           *)
(* Each request is a task that awaits one Redis command at a time, so the    *)
(* commands of concurrent requests interleave; any command may fail, which   *)
(* ends the request with an error. A token is named by the order of the      *)
(* SETEX commands that store the tokens, hence by the order of their expiry. *)
EXTENDS Naturals, Sequences, FiniteSets, Functions

CONSTANTS Requests,     \* tasks that serve requests, one request at a time
          MaxSessions,  \* 10 in the code: LTRIM 0 9
          MaxTokens     \* bound on the tokens stored in one behaviour

ASSUME MaxSessionsAssumption == MaxSessions \in Nat \ {0}
ASSUME MaxTokensAssumption   == MaxTokens \in Nat

VARIABLES
  pc,       \* the Redis command each task issues next
  tok,      \* the token a refresh or a logout presented, 0 if none
  new,      \* the token a task is storing, 0 if none
  seen,     \* what LRANGE returned to a task that revokes all tokens
  live,     \* tokens whose key rt:{user}:{jti} exists
  list,     \* rt_list:{user}, newest first; an empty list is no key
  covers,   \* tokens stored when the TTL of the list was set, 0: no TTL
  parent,   \* per stored token, the token it replaces, 0 for a login
  aged,     \* tokens 1..aged have had their key expire
  rejected, \* tokens 1..rejected fail verify_refresh, as expired
  known,    \* tokens that were returned to a client
  deleted,  \* history: tokens whose key was deleted by a request
  trimmed,  \* history: live tokens that LTRIM dropped from the list
  overtaken,\* history: live tokens in a list that was dropped unseen
  raced     \* history: tokens that two refreshes found valid at once

vars == <<pc, tok, new, seen, live, list, covers, parent, aged, rejected,
          known, deleted, trimmed, overtaken, raced>>

taskVars    == <<tok, new, seen>>
clockVars   == <<aged, rejected>>
listVars    == <<list, covers, trimmed, overtaken>>
tokenVars   == <<live, parent, known, deleted, raced>>

Minted == Len(parent)
Tokens == 1..Minted
Listed == Range(list)
Goto(r, l) == pc' = [pc EXCEPT ![r] = l]

(* A request ends, and its locals with it. *)
Finish(r) == /\ Goto(r, "idle")
             /\ tok' = [tok EXCEPT ![r] = 0]
             /\ new' = [new EXCEPT ![r] = 0]
             /\ seen' = [seen EXCEPT ![r] = {}]

(* Tokens that are in the list, or were, while their store is not finished. *)
Storing == {new[r] : r \in {q \in Requests : pc[q] \in {"ltrim", "expire"}}}

Init == /\ pc = [r \in Requests |-> "idle"]
        /\ tok = [r \in Requests |-> 0]
        /\ new = [r \in Requests |-> 0]
        /\ seen = [r \in Requests |-> {}]
        /\ live = {} /\ list = <<>> /\ covers = 0 /\ parent = <<>>
        /\ aged = 0 /\ rejected = 0
        /\ known = {} /\ deleted = {}
        /\ trimmed = {} /\ overtaken = {} /\ raced = {}

-----------------------------------------------------------------------------
(* Requests. A client may present any token it was given, twice as well.     *)

(* The bound: every request that may store a token will find room for it. *)
Room == Minted + Cardinality({q \in Requests : pc[q] \in {"exists", "rotate", "setex"}})
           < MaxTokens

Login(r) == /\ pc[r] = "idle" /\ Room
            /\ Goto(r, "setex")
            /\ UNCHANGED <<taskVars, clockVars, listVars, tokenVars>>

(* refresh: verify_refresh accepts the token. *)
Refresh(r, t) == /\ pc[r] = "idle" /\ Room
                 /\ t > rejected
                 /\ tok' = [tok EXCEPT ![r] = t]
                 /\ Goto(r, "exists")
                 /\ UNCHANGED <<new, seen, clockVars, listVars, tokenVars>>

Logout(r, t) == /\ pc[r] = "idle"
                /\ t > rejected
                /\ tok' = [tok EXCEPT ![r] = t]
                /\ Goto(r, "logout")
                /\ UNCHANGED <<new, seen, clockVars, listVars, tokenVars>>

LogoutAll(r) == /\ pc[r] = "idle"
                /\ Goto(r, "lrange")
                /\ UNCHANGED <<taskVars, clockVars, listVars, tokenVars>>

-----------------------------------------------------------------------------
(* The Redis commands. *)

(* Who found the key of a token and has not deleted it yet. *)
Rotating(t) == {q \in Requests : pc[q] = "rotate" /\ tok[q] = t}

(* Mutant of Exists: the signature of the token is enough. *)
ExistsTrusts(r) ==
  /\ pc[r] = "exists"
  /\ Goto(r, "rotate")
  /\ raced' = IF tok[r] \in live /\ Rotating(tok[r]) # {} THEN raced \cup {tok[r]} ELSE raced
  /\ UNCHANGED <<taskVars, clockVars, listVars, live, parent, known, deleted>>

(* is_refresh_token_valid; a missing key is taken for reuse. *)
Exists(r) ==
  /\ pc[r] = "exists"
  /\ Goto(r, IF tok[r] \in live THEN "rotate" ELSE "lrange")
  /\ raced' = IF tok[r] \in live /\ Rotating(tok[r]) # {} THEN raced \cup {tok[r]} ELSE raced
  /\ UNCHANGED <<taskVars, clockVars, listVars, live, parent, known, deleted>>

(* revoke_refresh_token deletes the key and leaves the list alone. *)
DelPresented(r) ==
  /\ live' = live \ {tok[r]}
  /\ deleted' = deleted \cup {tok[r]}
  /\ UNCHANGED <<clockVars, listVars, parent, known, raced>>

Rotate(r) == /\ pc[r] = "rotate" /\ DelPresented(r)
             /\ Goto(r, "setex") /\ UNCHANGED taskVars

DelLogout(r) == pc[r] = "logout" /\ DelPresented(r) /\ Finish(r)

(* Mutant of Setex: the presented token's key is renewed as well. *)
SetexRenewsOld(r) ==
  /\ pc[r] = "setex"
  /\ parent' = Append(parent, tok[r])
  /\ live' = live \cup ({Minted + 1, tok[r]} \ {0})
  /\ new' = [new EXCEPT ![r] = Minted + 1]
  /\ Goto(r, "lpush")
  /\ UNCHANGED <<tok, seen, clockVars, listVars, known, deleted, raced>>

(* Mutant of Setex: the key is named after the user only. *)
SetexOneKey(r) ==
  /\ pc[r] = "setex"
  /\ parent' = Append(parent, tok[r])
  /\ live' = {Minted + 1}
  /\ new' = [new EXCEPT ![r] = Minted + 1]
  /\ Goto(r, "lpush")
  /\ UNCHANGED <<tok, seen, clockVars, listVars, known, deleted, raced>>

(* issue_tokens and store_refresh_token. *)
Setex(r) ==
  /\ pc[r] = "setex"
  /\ parent' = Append(parent, tok[r])
  /\ live' = live \cup {Minted + 1}
  /\ new' = [new EXCEPT ![r] = Minted + 1]
  /\ Goto(r, "lpush")
  /\ UNCHANGED <<tok, seen, clockVars, listVars, known, deleted, raced>>

(* Mutant of Lpush: the presented token goes into the list. *)
LpushOld(r) ==
  /\ pc[r] = "lpush"
  /\ list' = <<tok[r]>> \o list
  /\ Goto(r, "ltrim")
  /\ UNCHANGED <<taskVars, clockVars, tokenVars, covers, trimmed, overtaken>>

Lpush(r) ==
  /\ pc[r] = "lpush"
  /\ list' = <<new[r]>> \o list
  /\ Goto(r, "ltrim")
  /\ UNCHANGED <<taskVars, clockVars, tokenVars, covers, trimmed, overtaken>>

Ltrim(r) ==
  /\ pc[r] = "ltrim"
  /\ list' = IF Len(list) > MaxSessions THEN SubSeq(list, 1, MaxSessions) ELSE list
  /\ trimmed' = trimmed \cup (live \cap (Listed \ Range(list')))
  /\ Goto(r, "expire")
  /\ UNCHANGED <<taskVars, clockVars, tokenVars, covers, overtaken>>

(* Mutant of Expire: the list keeps the TTL it was created with. *)
ExpireOnce(r) ==
  /\ pc[r] = "expire"
  /\ covers' = IF list = <<>> \/ covers # 0 THEN covers ELSE Minted
  /\ known' = known \cup {new[r]}
  /\ Finish(r)
  /\ UNCHANGED <<clockVars, list, trimmed, overtaken, live, parent, deleted, raced>>

(* EXPIRE does nothing if the list is gone. The response carries the token.  *)
Expire(r) ==
  /\ pc[r] = "expire"
  /\ covers' = IF list = <<>> THEN 0 ELSE Minted
  /\ known' = known \cup {new[r]}
  /\ Finish(r)
  /\ UNCHANGED <<clockVars, list, trimmed, overtaken,
                 live, parent, deleted, raced>>

(* revoke_all_refresh_tokens: read the list, then, in a pipeline that is not *)
(* a transaction, delete each key it named and at last the list as it then is*)
Lrange(r) ==
  /\ pc[r] = "lrange"
  /\ seen' = [seen EXCEPT ![r] = Listed]
  /\ Goto(r, "wipe")
  /\ UNCHANGED <<tok, new, clockVars, listVars, tokenVars>>

DelKey(r) ==
  /\ pc[r] = "wipe"
  /\ \E t \in seen[r] \cap live : /\ live' = live \ {t}
                                 /\ deleted' = deleted \cup {t}
  /\ UNCHANGED <<pc, taskVars, clockVars, listVars, parent, known, raced>>

(* Mutant of DelList: the list goes first, and the keys stay. *)
DelListFirst(r) ==
  /\ pc[r] = "wipe"
  /\ list' = <<>>
  /\ covers' = 0
  /\ overtaken' = overtaken \cup (live \cap (Listed \ seen[r]))
  /\ Finish(r)
  /\ UNCHANGED <<clockVars, tokenVars, trimmed>>

DelList(r) ==
  /\ pc[r] = "wipe" /\ seen[r] \cap live = {}
  /\ list' = <<>>
  /\ covers' = 0
  /\ overtaken' = overtaken \cup (live \cap (Listed \ seen[r]))
  /\ Finish(r)
  /\ UNCHANGED <<clockVars, tokenVars, trimmed>>

(* AppError::Redis, or a client that goes away: nothing is undone. *)
Fails(r) == /\ pc[r] # "idle"
            /\ Finish(r)
            /\ UNCHANGED <<clockVars, listVars, tokenVars>>

-----------------------------------------------------------------------------
(* Time. Every key lives equally long, so keys expire in the order of their  *)
(* SETEX, and the list expires after every token that was stored before its  *)
(* EXPIRE. The decoder accepts a token for a minute after its expiry, the    *)
(* default leeway of the jsonwebtoken crate.                                 *)

KeyExpires == /\ aged < Minted
              /\ aged' = aged + 1
              /\ live' = live \ {aged + 1}
              /\ UNCHANGED <<pc, taskVars, rejected, listVars,
                             parent, known, deleted, raced>>

LeewayEnds == /\ rejected < aged
              /\ rejected' = rejected + 1
              /\ UNCHANGED <<pc, taskVars, aged, listVars, tokenVars>>

ListExpires == /\ list # <<>> /\ covers # 0 /\ covers <= aged
               /\ list' = <<>>
               /\ covers' = 0
               /\ overtaken' = overtaken \cup (live \cap Listed \cap Storing)
               /\ UNCHANGED <<pc, taskVars, clockVars, tokenVars, trimmed>>

Serve(r) == \/ Exists(r) \/ Rotate(r) \/ DelLogout(r)
            \/ Setex(r) \/ Lpush(r) \/ Ltrim(r) \/ Expire(r)
            \/ Lrange(r) \/ DelKey(r) \/ DelList(r)

Next == \/ \E r \in Requests : \/ Login(r) \/ LogoutAll(r) \/ Serve(r) \/ Fails(r)
                               \/ \E t \in known : Refresh(r, t) \/ Logout(r, t)
        \/ KeyExpires \/ LeewayEnds \/ ListExpires

Spec == Init /\ [][Next]_vars

-----------------------------------------------------------------------------
(* Properties. *)

PCs == {"idle", "exists", "rotate", "logout", "setex", "lpush", "ltrim",
        "expire", "lrange", "wipe"}

(* The type invariant. *)
TypeOK == /\ pc \in [Requests -> PCs]
          /\ tok \in [Requests -> known \cup {0}]
          /\ new \in [Requests -> Nat]
          /\ seen \in [Requests -> SUBSET Nat]
          /\ live \subseteq Tokens
          /\ list \in Seq(Nat) /\ Listed \subseteq Tokens
          /\ covers \in Nat
          /\ parent \in Seq(Nat)
          /\ aged \in Nat /\ rejected \in Nat
          /\ rejected <= aged /\ aged <= Minted
          /\ known \subseteq Tokens /\ deleted \subseteq Tokens

(* What "revoke all" can miss (redis_store.rs:81, "Revoke ALL refresh tokens *)
(* for a user"): a session that a client holds is in the list, unless LTRIM  *)
(* dropped it or the list was dropped while its token was being stored. The  *)
(* expiry of the list in particular never loses a session.                   *)
TrackedUnlessLost == known \cap live \subseteq Listed \cup trimmed \cup overtaken

(* After a revoke-all (logout_all, or a reused token) the sessions that are  *)
(* left are exactly such lost ones.                                          *)
RevokeAllLeavesLost ==
  [][\A r \in Requests : DelList(r) =>
        known' \cap live' \subseteq trimmed' \cup overtaken']_vars

(* A token that a request revoked is dead for good, whatever other requests  *)
(* with the same token are under way (Security.md:10, single-use).           *)
DeletedIsDead == deleted \cap live = {}

(* A missing key is taken for reuse (auth.rs:159) and ends every session of  *)
(* the user. It is missing because a request revoked the token, or because   *)
(* the token is presented within the leeway after its expiry - and for no    *)
(* other reason, although lists are trimmed and dropped and requests fail.   *)
AccusedIsSpent ==
  [][\A r \in Requests : pc[r] = "exists" /\ pc'[r] = "lrange"
        => tok[r] \in deleted \cup 1..aged]_vars

(* What is left of single use (Security.md:10): a token is exchanged for two *)
(* only if two refreshes found it valid at once, before either deleted it    *)
(* (auth.rs:154-169). One that was answered, or failed half way, or lost a   *)
(* race to a revocation, leaves nothing to exchange a second time.           *)
DoubledIsRaced ==
  \A a, b \in Tokens :
     parent[a] = parent[b] /\ parent[a] # 0 /\ a # b => parent[a] \in raced

-----------------------------------------------------------------------------
(* What the documents and comments say and the code does not do. *)

(* Security.md:10, "single-use with rotation": no token is exchanged for two.*)
SingleUse == \A a, b \in known : parent[a] = parent[b] /\ parent[a] # 0 => a = b
=============================================================================
