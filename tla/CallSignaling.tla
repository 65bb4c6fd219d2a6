---------------------------- MODULE CallSignaling ---------------------------
(* Direct calls in the Rust signaling server: the call, decline and hangup   *)
(* handlers of dispatch_message and the cleanup of handle_socket (server-    *)
(* rust/src/signaling/server.rs:143-264), with the busy marks they keep in   *)
(* Redis (redis_store.rs:124-149) and the contact check (contacts.rs:571).   *)
(* A session's task handles one frame at a time and awaits between the steps *)
(* below. SignalingHub models how a message reaches its recipient; here it   *)
(* is enough that it was sent. answer and ice only forward, they keep no     *)
(* state of their own.                                                       *)
EXTENDS Naturals, Sequences, FiniteSets

CONSTANTS Users,
          Instances,  \* server processes
          Sessions,   \* authenticated WebSocket sessions, past and future
          Presents,   \* [Sessions -> SUBSET Users]: whose tokens a client has
          Host,       \* [Sessions -> Instances]
          NoSession,  \* "no entry" in the connection map
          Faulty,     \* instances that may crash, or whose commands may fail
          Lapsing,    \* users whose busy mark may reach its TTL of 5 minutes
          MaxCalls    \* bound on the calls placed in one behaviour

ASSUME PresentsAssumption  == Presents \in [Sessions -> (SUBSET Users) \ {{}}]
ASSUME HostAssumption      == Host \in [Sessions -> Instances]
ASSUME NoSessionAssumption == NoSession \notin Sessions
ASSUME MaxCallsAssumption  == MaxCalls \in Nat

VARIABLES
  pc,       \* where each session's task is
  kind,     \* the frame it handles: "call", "end" (decline, hangup) or "none"
  who,      \* the user of the session: the one it authenticated as last
  peer,     \* the frame's "to"
  cur,      \* the call a call frame places, 0 before it has an id
  conns,    \* the hub's connection map, per instance
  contacts, \* pairs of users with an accepted contact row
  calls,    \* every call that got an id: [from, to, via]
  busy,     \* the Redis key busy:{user}: a call id, 0 if there is no key
  rung,     \* history: calls whose call-incoming was sent, until a party
            \*   declines, hangs up or leaves
  orphaned, \* history: calls whose session did not clean up after them
  unmarked, \* history: calls that lost one of their busy marks
  revoked   \* history: sessions whose frame was allowed, but no longer is

vars == <<pc, kind, who, peer, cur, conns, contacts, calls, busy, rung,
          orphaned, unmarked, revoked>>

frameVars == <<kind, peer, cur>>
connVars  == <<conns, who>>
markVars  == <<busy, unmarked>>
callVars  == <<calls, rung, orphaned>>

PCs == {"idle", "reading", "contact", "busy", "markFrom", "markTo", "lookup",
        "publish", "clearFrom", "clearTo", "cleanup", "gone"}

Goto(s, l)    == pc' = [pc EXCEPT ![s] = l]
Parties(c)    == {calls[c].from, calls[c].to}
CallIds       == 1..Len(calls)
Pairs         == {p \in SUBSET Users : \E u, v \in Users : u # v /\ p = {u, v}}
Pair(s)       == {who[s], peer[s]}
Reachable(s)  == conns[Host[s]][peer[s]] # NoSession
Between(u, v) == {c \in CallIds : Parties(c) = {u, v}}
Of(u)         == {c \in CallIds : u \in Parties(c)}

(* Every write of a busy key; whoever loses a mark is remembered. *)
SetBusy(b) == /\ busy' = b
              /\ unmarked' = unmarked \cup
                   {busy[u] : u \in {v \in Users : busy[v] # 0 /\ b[v] # busy[v]}}

(* The handler is done, with a reply or an error, and the task reads on. *)
Done(s) == /\ Goto(s, "reading")
           /\ kind' = [kind EXCEPT ![s] = "none"]
           /\ peer' = [peer EXCEPT ![s] = who[s]]
           /\ cur' = [cur EXCEPT ![s] = 0]
           /\ revoked' = revoked \ {s}

Init == /\ pc = [s \in Sessions |-> "idle"]
        /\ kind = [s \in Sessions |-> "none"]
        /\ who \in {f \in [Sessions -> Users] : \A s \in Sessions : f[s] \in Presents[s]}
        /\ peer = who
        /\ cur = [s \in Sessions |-> 0]
        /\ conns = [i \in Instances |-> [u \in Users |-> NoSession]]
        /\ contacts \in SUBSET Pairs
        /\ calls = <<>>
        /\ busy = [u \in Users |-> 0]
        /\ rung = {} /\ orphaned = {} /\ unmarked = {}
        /\ revoked = {}

-----------------------------------------------------------------------------
(* The life of a session; SignalingHub has the details of the first two. *)

Connect(s) == /\ pc[s] = "idle"
              /\ conns' = [conns EXCEPT ![Host[s]][who[s]] = s]
              /\ Goto(s, "reading")
              /\ UNCHANGED <<frameVars, who, contacts, callVars, markVars, revoked>>

(* Another auth frame on the same socket: register runs once more, and from  *)
(* here on the session is u's (server.rs:79-100).                            *)
Reauth(s, u) == /\ pc[s] = "reading" /\ u \in Presents[s]
                /\ who' = [who EXCEPT ![s] = u]
                /\ peer' = [peer EXCEPT ![s] = u]
                /\ conns' = [conns EXCEPT ![Host[s]][u] = s]
                /\ UNCHANGED <<pc, kind, cur, contacts, callVars, markVars, revoked>>

(* The loop ends; deregister, then set_offline is awaited. *)
Leave(s) == /\ pc[s] = "reading"
            /\ conns' = [conns EXCEPT ![Host[s]][who[s]] = NoSession]
            /\ rung' = rung \ Of(who[s])
            /\ Goto(s, "cleanup")
            /\ UNCHANGED <<frameVars, who, contacts, calls, orphaned, markVars, revoked>>

(* The calls a session placed as somebody else before its last auth.         *)
Estranged(s) == {c \in CallIds : calls[c].via = s /\ calls[c].from # who[s]}

(* Mutant of Cleanup: the mark is left to a session that is still connected. *)
CleanupIfLast(s) ==
  /\ pc[s] = "cleanup"
  /\ SetBusy(IF \A i \in Instances : conns[i][who[s]] = NoSession
             THEN [busy EXCEPT ![who[s]] = 0] ELSE busy)
  /\ orphaned' = orphaned \cup Estranged(s)
  /\ Goto(s, "gone")
  /\ UNCHANGED <<frameVars, connVars, contacts, calls, rung, revoked>>

(* clear_busy of the last user, for whatever call the mark names. *)
Cleanup(s) == /\ pc[s] = "cleanup"
              /\ SetBusy([busy EXCEPT ![who[s]] = 0])
              /\ orphaned' = orphaned \cup Estranged(s)
              /\ Goto(s, "gone")
              /\ UNCHANGED <<frameVars, connVars, contacts, calls, rung, revoked>>

(* An error of clear_busy is ignored. *)
CleanupFails(s) == /\ pc[s] = "cleanup" /\ Host[s] \in Faulty
                   /\ orphaned' = orphaned \cup {c \in CallIds : calls[c].via = s}
                   /\ Goto(s, "gone")
                   /\ UNCHANGED <<frameVars, connVars, contacts, calls, rung,
                                  markVars, revoked>>

-----------------------------------------------------------------------------
(* The call frame. *)

(* The bound: a frame that is being handled will find room for its call.     *)
Room == Len(calls) + Cardinality({s \in Sessions : pc[s] \in {"contact", "busy"}})
           < MaxCalls

CallFrame(s, u) ==
  /\ pc[s] = "reading" /\ u # who[s] /\ Room
  /\ kind' = [kind EXCEPT ![s] = "call"]
  /\ peer' = [peer EXCEPT ![s] = u]
  /\ Goto(s, "contact")
  /\ UNCHANGED <<cur, connVars, contacts, callVars, markVars, revoked>>

(* can_call is false, or its query failed (unwrap_or(false)). *)
Rejected(s) == /\ pc[s] = "contact"
               /\ Done(s)
               /\ UNCHANGED <<connVars, contacts, callVars, markVars>>

NotConnected(s) == /\ pc[s] = "contact" /\ Pair(s) \in contacts
                   /\ ~Reachable(s)
                   /\ Done(s)
                   /\ UNCHANGED <<connVars, contacts, callVars, markVars>>

Allowed(s) == /\ pc[s] = "contact" /\ Pair(s) \in contacts
              /\ Reachable(s)
              /\ Goto(s, "busy")
              /\ UNCHANGED <<frameVars, connVars, contacts, callVars, markVars, revoked>>

IsBusy(s) == /\ pc[s] = "busy" /\ busy[peer[s]] # 0
             /\ Done(s)
             /\ UNCHANGED <<connVars, contacts, callVars, markVars>>

(* Mutant of NotBusy: the call is not recorded under the id it gets. *)
NotBusyUnrecorded(s) ==
  /\ pc[s] = "busy" /\ busy[peer[s]] = 0
  /\ cur' = [cur EXCEPT ![s] = Len(calls) + 1]
  /\ Goto(s, "markFrom")
  /\ UNCHANGED <<kind, peer, connVars, contacts, callVars, markVars, revoked>>

(* The callee is free: the call gets its id. *)
NotBusy(s) == /\ pc[s] = "busy" /\ busy[peer[s]] = 0
              /\ calls' = Append(calls, [from |-> who[s], to |-> peer[s], via |-> s])
              /\ cur' = [cur EXCEPT ![s] = Len(calls) + 1]
              /\ Goto(s, "markFrom")
              /\ UNCHANGED <<kind, peer, connVars, contacts, rung, orphaned,
                             markVars, revoked>>

MarkFrom(s) == /\ pc[s] = "markFrom"
               /\ SetBusy([busy EXCEPT ![who[s]] = cur[s]])
               /\ Goto(s, "markTo")
               /\ UNCHANGED <<frameVars, connVars, contacts, callVars, revoked>>

(* Mutant of MarkTo: the callee is marked with the id of its older call. *)
MarkToIfFree(s) ==
  /\ pc[s] = "markTo"
  /\ SetBusy(IF busy[peer[s]] = 0 THEN [busy EXCEPT ![peer[s]] = cur[s]] ELSE busy)
  /\ Goto(s, "lookup")
  /\ UNCHANGED <<frameVars, connVars, contacts, callVars, revoked>>

MarkTo(s) == /\ pc[s] = "markTo"
             /\ SetBusy([busy EXCEPT ![peer[s]] = cur[s]])
             /\ Goto(s, "lookup")
             /\ UNCHANGED <<frameVars, connVars, contacts, callVars, revoked>>

(* The caller's name is known; call-incoming goes to a local session, *)
Ring(s) == /\ pc[s] = "lookup" /\ Reachable(s)
           /\ rung' = rung \cup {cur[s]}
           /\ Done(s)
           /\ UNCHANGED <<connVars, contacts, calls, orphaned, markVars>>

(* or is published, as the callee has left since. *)
RingRemote(s) == /\ pc[s] = "lookup" /\ ~Reachable(s)
                 /\ Goto(s, "publish")
                 /\ UNCHANGED <<frameVars, connVars, contacts, callVars, markVars, revoked>>

-----------------------------------------------------------------------------
(* The decline and hangup frames name a user, not a call: what is sent ends  *)
(* every call between the two, and both marks go, whatever call they name.   *)

EndLocal(s, u) ==
  /\ pc[s] = "reading" /\ conns[Host[s]][u] # NoSession
  /\ kind' = [kind EXCEPT ![s] = "end"]
  /\ peer' = [peer EXCEPT ![s] = u]
  /\ rung' = rung \ Between(who[s], u)
  /\ Goto(s, "clearFrom")
  /\ UNCHANGED <<cur, connVars, contacts, calls, orphaned, markVars, revoked>>

EndRemote(s, u) ==
  /\ pc[s] = "reading" /\ conns[Host[s]][u] = NoSession
  /\ kind' = [kind EXCEPT ![s] = "end"]
  /\ peer' = [peer EXCEPT ![s] = u]
  /\ Goto(s, "publish")
  /\ UNCHANGED <<cur, connVars, contacts, callVars, markVars, revoked>>

PublishRing(s) == /\ pc[s] = "publish" /\ kind[s] = "call"
                  /\ rung' = rung \cup {cur[s]}
                  /\ Done(s)
                  /\ UNCHANGED <<connVars, contacts, calls, orphaned, markVars>>

PublishEnd(s) == /\ pc[s] = "publish" /\ kind[s] = "end"
                 /\ rung' = rung \ Between(who[s], peer[s])
                 /\ Goto(s, "clearFrom")
                 /\ UNCHANGED <<frameVars, connVars, contacts, calls, orphaned,
                                markVars, revoked>>

ClearFrom(s) == /\ pc[s] = "clearFrom"
                /\ SetBusy([busy EXCEPT ![who[s]] = 0])
                /\ Goto(s, "clearTo")
                /\ UNCHANGED <<frameVars, connVars, contacts, callVars, revoked>>

ClearTo(s) == /\ pc[s] = "clearTo"
              /\ SetBusy([busy EXCEPT ![peer[s]] = 0])
              /\ Done(s)
              /\ UNCHANGED <<connVars, contacts, callVars>>

(* Redis or the database fails: the handler returns the error at once and    *)
(* what it has done so far stays.                                            *)
Fails(s) == /\ Host[s] \in Faulty
            /\ pc[s] \in {"busy", "markFrom", "markTo", "lookup", "publish",
                          "clearFrom", "clearTo"}
            /\ Done(s)
            /\ UNCHANGED <<connVars, contacts, callVars, markVars>>

-----------------------------------------------------------------------------
(* The surroundings. *)

BusyExpires(u) == /\ u \in Lapsing /\ busy[u] # 0
                  /\ SetBusy([busy EXCEPT ![u] = 0])
                  /\ UNCHANGED <<pc, frameVars, connVars, contacts, callVars, revoked>>

(* The accepted rows change: whose frame has passed the check with a pair    *)
(* that is no longer there is remembered.                                    *)
ContactsBecome(C) ==
  /\ contacts' = C
  /\ revoked' = revoked \cup
       {s \in Sessions : /\ kind[s] = "call" /\ pc[s] # "contact"
                         /\ Pair(s) \in contacts \ C}
  /\ UNCHANGED <<pc, frameVars, connVars, callVars, markVars>>

(* contacts.rs, one pair at a time; ContactCalls has the book itself. *)
ContactEnds(p)   == p \in contacts /\ ContactsBecome(contacts \ {p})
ContactBegins(p) == p \notin contacts /\ ContactsBecome(contacts \cup {p})

Crash(i) ==
  LET here == {s \in Sessions : Host[s] = i /\ pc[s] # "idle"} IN
  /\ i \in Faulty
  /\ pc' = [s \in Sessions |-> IF s \in here THEN "gone" ELSE pc[s]]
  /\ conns' = [conns EXCEPT ![i] = [u \in Users |-> NoSession]]
  /\ orphaned' = orphaned \cup {c \in CallIds : calls[c].via \in here}
  /\ rung' = rung \ UNION {Of(who[s]) : s \in here}
  /\ UNCHANGED <<frameVars, who, contacts, calls, markVars, revoked>>

Handle(s) == \/ Rejected(s) \/ NotConnected(s) \/ Allowed(s)
             \/ IsBusy(s) \/ NotBusy(s) \/ MarkFrom(s) \/ MarkTo(s)
             \/ Ring(s) \/ RingRemote(s) \/ PublishRing(s) \/ PublishEnd(s)
             \/ ClearFrom(s) \/ ClearTo(s) \/ Cleanup(s)

Frame(s) == \E u \in Users : CallFrame(s, u) \/ EndLocal(s, u) \/ EndRemote(s, u)

ServerStep == \/ \E s \in Sessions : \/ Connect(s) \/ Leave(s) \/ Frame(s) \/ Handle(s)
                                     \/ Fails(s) \/ CleanupFails(s)
                                     \/ \E u \in Users : Reauth(s, u)
              \/ \E u \in Users : BusyExpires(u)
              \/ \E i \in Instances : Crash(i)

Next == ServerStep \/ \E p \in Pairs : ContactEnds(p) \/ ContactBegins(p)

Spec == Init /\ [][Next]_vars

-----------------------------------------------------------------------------
(* Properties. *)

(* The type invariant; a mark names a call of the user it marks.             *)
TypeOK ==
  /\ pc \in [Sessions -> PCs]
  /\ kind \in [Sessions -> {"none", "call", "end"}]
  /\ who \in [Sessions -> Users] /\ peer \in [Sessions -> Users]
  /\ cur \in [Sessions -> CallIds \cup {0}]
  /\ conns \in [Instances -> [Users -> Sessions \cup {NoSession}]]
  /\ calls \in Seq([from : Users, to : Users, via : Sessions])
  /\ busy \in [Users -> CallIds \cup {0}]
  /\ \A u \in Users : busy[u] # 0 => u \in Parties(busy[u])
  /\ rung \subseteq CallIds
  /\ orphaned \subseteq CallIds /\ unmarked \subseteq CallIds
  /\ revoked \subseteq Sessions

(* server.rs:185, "Mark both busy": when a callee is rung, both parties are  *)
(* marked with this call, and stay so until someone removes a mark.          *)
RungIsMarked ==
  \A c \in rung : c \in unmarked \/ \A u \in Parties(c) : busy[u] = c

(* A caller's mark does not outlive the session it called from, on any way   *)
(* out of the read loop (server.rs:143-150), whatever other sessions of the  *)
(* same user do: only a crash, a failed clear_busy, or a session that has    *)
(* authenticated as somebody else since, leave it to the TTL.                *)
CallerMarkHasSession ==
  \A u \in Users : LET c == busy[u] IN
     c # 0 /\ c \notin orphaned /\ calls[c].from = u
       => pc[calls[c].via] \notin {"idle", "gone"}

(* server.rs:171, "caller must be an accepted contact of callee": a callee   *)
(* is rung by a contact, or by one that was a contact when its frame was     *)
(* checked, a few awaits earlier.                                            *)
RungByContact ==
  [][\A s \in Sessions : Ring(s) \/ PublishRing(s) =>
        Pair(s) \in contacts \/ s \in revoked]_vars
=============================================================================
