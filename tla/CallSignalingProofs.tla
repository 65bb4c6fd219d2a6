------------------------ MODULE CallSignalingProofs -------------------------
(* Proofs about CallSignaling, for any users, sessions, server processes and *)
(* any number of calls: types, the busy marks of a rung call, whose mark     *)
(* outlives what, and that only contacts ring; and about ContactCalls, where *)
(* the contacts are what the contact routes make of them.                    *)
EXTENDS ContactCalls, TLAPS

USE PresentsAssumption, HostAssumption, NoSessionAssumption

CallRecord == [from : Users, to : Users, via : Sessions]

-----------------------------------------------------------------------------
(* The inductive invariant. A handler past the busy check holds the id of a  *)
(* call that it alone placed; between the first mark and the ring, a mark    *)
(* that is no longer there has been removed by somebody; and the contact     *)
(* check either still holds or was overtaken.                                *)

Placing(s) == \/ pc[s] \in {"markFrom", "markTo", "lookup"}
              \/ pc[s] = "publish" /\ kind[s] = "call"

CallsAreTrue == \A c \in CallIds : calls[c].from # calls[c].to

FrameIsCall ==
  \A s \in Sessions :
     /\ pc[s] \in {"contact", "busy"} => kind[s] = "call" /\ peer[s] # who[s]
     /\ Placing(s) => /\ kind[s] = "call" /\ cur[s] \in CallIds
                      /\ calls[cur[s]] = [from |-> who[s], to |-> peer[s], via |-> s]

MarksAreMade ==
  \A s \in Sessions :
     /\ pc[s] = "markTo" => cur[s] \in unmarked \/ busy[who[s]] = cur[s]
     /\ pc[s] = "lookup" \/ (pc[s] = "publish" /\ kind[s] = "call")
          => cur[s] \in unmarked \/ \A u \in Parties(cur[s]) : busy[u] = cur[s]

StillAllowed ==
  \A s \in Sessions : pc[s] = "busy" \/ Placing(s) =>
                         Pair(s) \in contacts \/ s \in revoked

FlowInv == CallsAreTrue /\ FrameIsCall /\ MarksAreMade /\ StillAllowed /\ RungIsMarked

Inv == TypeOK /\ FlowInv /\ CallerMarkHasSession

LEMMA InvInit == Init => Inv
<1> SUFFICES ASSUME Init PROVE Inv
  OBVIOUS
<1>1. calls = <<>> /\ Len(calls) = 0 /\ CallIds = {}
  BY DEF Init, CallIds
<1>2. TypeOK
  BY <1>1 DEF Init, TypeOK, PCs
<1>3. FlowInv
  BY <1>1 DEF Init, FlowInv, CallsAreTrue, FrameIsCall, MarksAreMade, StillAllowed,
              RungIsMarked, Placing
<1>4. CallerMarkHasSession
  BY DEF Init, CallerMarkHasSession
<1> QED
  BY <1>2, <1>3, <1>4 DEF Inv

-----------------------------------------------------------------------------
(* Who loses a mark is remembered. *)
LEMMA MarksKept ==
  ASSUME TypeOK, NEW b \in [Users -> CallIds \cup {0}], SetBusy(b)
  PROVE  /\ busy' = b
         /\ unmarked \subseteq unmarked' /\ unmarked' \subseteq CallIds
         /\ \A u \in Users : busy[u] # 0 => busy[u] \in unmarked' \/ busy'[u] = busy[u]
  BY DEF SetBusy, TypeOK

(* Clearing a mark. *)
LEMMA ClearKept ==
  ASSUME TypeOK, NEW u \in Users, SetBusy([busy EXCEPT ![u] = 0])
  PROVE  /\ busy' = [busy EXCEPT ![u] = 0]
         /\ busy' \in [Users -> CallIds \cup {0}]
         /\ \A v \in Users : busy'[v] = busy[v] \/ busy'[v] = 0
         /\ unmarked \subseteq unmarked' /\ unmarked' \subseteq CallIds
         /\ \A v \in Users : busy[v] # 0 => busy[v] \in unmarked' \/ busy'[v] = busy[v]
<1> DEFINE S == CallIds \cup {0}
           b == [busy EXCEPT ![u] = 0]
<1>1. busy \in [Users -> S] /\ 0 \in S
  BY DEF TypeOK
<1> HIDE DEF S
<1>2. b \in [Users -> S] /\ \A v \in Users : b[v] = busy[v] \/ b[v] = 0
  BY <1>1
<1> USE DEF S
<1>3. b \in [Users -> CallIds \cup {0}] /\ SetBusy(b)
  BY <1>2
<1> HIDE DEF b
<1>4. /\ busy' = b
      /\ unmarked \subseteq unmarked' /\ unmarked' \subseteq CallIds
      /\ \A v \in Users : busy[v] # 0 => busy[v] \in unmarked' \/ busy'[v] = busy[v]
  BY <1>3, MarksKept
<1> QED
  BY <1>2, <1>3, <1>4 DEF b

LEMMA TypeFacts ==
  ASSUME TypeOK
  PROVE  /\ pc \in [Sessions -> PCs]
         /\ kind \in [Sessions -> {"none", "call", "end"}]
         /\ who \in [Sessions -> Users] /\ peer \in [Sessions -> Users]
         /\ cur \in [Sessions -> CallIds \cup {0}]
         /\ conns \in [Instances -> [Users -> Sessions \cup {NoSession}]]
         /\ busy \in [Users -> CallIds \cup {0}]
         /\ \A u \in Users : busy[u] # 0 => u \in Parties(busy[u])
  BY DEF TypeOK

(* Steps that place no call. *)
LEMMA TypeKept ==
  ASSUME TypeOK, UNCHANGED calls,
         pc' \in [Sessions -> PCs],
         who' \in [Sessions -> Users],
         kind' \in [Sessions -> {"none", "call", "end"}],
         peer' \in [Sessions -> Users],
         cur' \in [Sessions -> CallIds \cup {0}],
         conns' \in [Instances -> [Users -> Sessions \cup {NoSession}]],
         busy' \in [Users -> CallIds \cup {0}],
         \A u \in Users : busy'[u] # 0 => u \in Parties(busy'[u]),
         rung' \subseteq CallIds, orphaned' \subseteq CallIds,
         unmarked' \subseteq CallIds, revoked' \subseteq Sessions
  PROVE  TypeOK'
<1>1. CallIds' = CallIds /\ \A c : Parties(c)' = Parties(c)
  BY DEF CallIds, Parties
<1>2. \A u \in Users : busy'[u] # 0 => u \in Parties(busy[u])'
  BY DEF Parties
<1> QED
  BY <1>1, <1>2 DEF TypeOK

(* Forgetting the frame. *)
LEMMA DoneTypes ==
  ASSUME TypeOK, NEW s \in Sessions, Done(s)
  PROVE  /\ pc' \in [Sessions -> PCs]
         /\ kind' \in [Sessions -> {"none", "call", "end"}]
         /\ peer' \in [Sessions -> Users]
         /\ cur' \in [Sessions -> CallIds \cup {0}]
         /\ revoked' \subseteq Sessions
<1>1. /\ pc' = [pc EXCEPT ![s] = "reading"] /\ kind' = [kind EXCEPT ![s] = "none"]
      /\ peer' = [peer EXCEPT ![s] = who[s]] /\ cur' = [cur EXCEPT ![s] = 0]
      /\ revoked' = revoked \ {s}
  BY DEF Done, Goto
<1>2. pc' \in [Sessions -> PCs] /\ kind' \in [Sessions -> {"none", "call", "end"}]
  BY <1>1, TypeFacts DEF PCs
<1>3. peer' \in [Sessions -> Users] /\ revoked' \subseteq Sessions
  BY <1>1, TypeFacts DEF TypeOK
<1>4. cur' \in [Sessions -> CallIds \cup {0}]
  BY <1>1, TypeFacts
<1> QED
  BY <1>2, <1>3, <1>4


(* Steps that let every other handler be, and take no mark away unnoticed.   *)
Still(s) == /\ pc'[s] = pc[s] /\ kind'[s] = kind[s] /\ who'[s] = who[s]
            /\ peer'[s] = peer[s] /\ cur'[s] = cur[s]

Away(s) == \/ pc'[s] \in {"idle", "reading", "clearFrom", "clearTo", "cleanup", "gone"}
           \/ pc'[s] = "publish" /\ kind'[s] = "end"

MarksRemembered ==
  /\ unmarked \subseteq unmarked'
  /\ \A u \in Users : busy[u] # 0 => busy[u] \in unmarked' \/ busy'[u] = busy[u]

LEMMA MarkOfCallKept ==
  ASSUME TypeOK, MarksRemembered, UNCHANGED calls, NEW c \in CallIds, NEW u \in Users,
         c \in unmarked \/ busy[u] = c
  PROVE  c \in unmarked' \/ busy'[u] = c
<1>1. c # 0
  BY DEF CallIds, TypeOK
<1> QED
  BY <1>1 DEF MarksRemembered

LEMMA PartiesAreUsers ==
  ASSUME TypeOK, NEW c \in CallIds
  PROVE  /\ calls[c] \in CallRecord
         /\ Parties(c) \subseteq Users
<1>1. calls \in Seq(CallRecord) /\ c \in 1..Len(calls)
  BY DEF TypeOK, CallIds, CallRecord
<1>2. calls[c] \in CallRecord
  BY <1>1
<1> QED
  BY <1>2 DEF Parties, CallRecord

LEMMA RungKept ==
  ASSUME TypeOK, RungIsMarked, MarksRemembered, UNCHANGED calls, rung' \subseteq rung
  PROVE  RungIsMarked'
<1> SUFFICES ASSUME NEW c \in rung', c \notin unmarked', NEW u \in Parties(c)
             PROVE  busy'[u] = c
  BY DEF RungIsMarked, Parties
<1>1. c \in CallIds /\ c \in rung /\ u \in Users
  BY PartiesAreUsers DEF TypeOK
<1>2. c \in unmarked \/ busy[u] = c
  BY <1>1 DEF RungIsMarked
<1> QED
  BY <1>1, <1>2, MarkOfCallKept

LEMMA FlowKept ==
  ASSUME TypeOK, FlowInv, MarksRemembered, UNCHANGED calls, rung' \subseteq rung,
         \A s \in Sessions : Still(s) \/ Away(s),
         \A s \in Sessions : Still(s) /\ kind[s] = "call" /\ pc[s] # "contact"
                                /\ (Pair(s) \in contacts \/ s \in revoked)
                             => Pair(s) \in contacts' \/ s \in revoked'
  PROVE  FlowInv'
<1>1. CallIds' = CallIds /\ \A c : Parties(c)' = Parties(c)
  BY DEF CallIds, Parties
<1>2. \A s \in Sessions : (pc'[s] \in {"contact", "busy"} \/ Placing(s)') => Still(s)
  BY DEF Still, Away, Placing
<1>3. CallsAreTrue'
  BY <1>1 DEF FlowInv, CallsAreTrue
<1>4. FrameIsCall'
  BY <1>1, <1>2 DEF FlowInv, FrameIsCall, Still, Placing
<1>5. RungIsMarked'
  BY RungKept DEF FlowInv
<1>6. StillAllowed'
  <2> SUFFICES ASSUME NEW s \in Sessions, pc'[s] = "busy" \/ Placing(s)'
               PROVE  Pair(s)' \in contacts' \/ s \in revoked'
    BY DEF StillAllowed
  <2>1. Still(s) /\ Pair(s)' = Pair(s)
    BY <1>2 DEF Still, Pair
  <2>2. (pc[s] = "busy" \/ Placing(s)) /\ kind[s] = "call" /\ pc[s] # "contact"
    BY <2>1 DEF Still, Placing, FlowInv, FrameIsCall
  <2> QED
    BY <2>1, <2>2 DEF FlowInv, StillAllowed
<1>7. MarksAreMade'
  <2> SUFFICES ASSUME NEW s \in Sessions, Placing(s)'
               PROVE  /\ pc'[s] = "markTo" => cur'[s] \in unmarked' \/ busy'[who'[s]] = cur'[s]
                      /\ pc'[s] = "lookup" \/ (pc'[s] = "publish" /\ kind'[s] = "call")
                           => cur'[s] \in unmarked' \/ \A u \in Parties(cur[s])' : busy'[u] = cur'[s]
    BY DEF MarksAreMade, Placing
  <2>1. Still(s) /\ Placing(s) /\ cur[s] \in CallIds
    BY <1>2 DEF Still, Placing, FlowInv, FrameIsCall
  <2>2. Parties(cur[s])' = Parties(cur[s]) /\ Parties(cur[s]) \subseteq Users /\ who[s] \in Users
    BY <2>1, <1>1, PartiesAreUsers, TypeFacts DEF Still, Parties
  <2>3. ASSUME NEW u \in Users, cur[s] \in unmarked \/ busy[u] = cur[s]
        PROVE  cur[s] \in unmarked' \/ busy'[u] = cur[s]
    BY <2>1, <2>3, MarkOfCallKept
  <2>4. pc[s] = "markTo" => cur[s] \in unmarked \/ busy[who[s]] = cur[s]
    BY DEF FlowInv, MarksAreMade
  <2>5. pc[s] = "lookup" \/ (pc[s] = "publish" /\ kind[s] = "call")
           => cur[s] \in unmarked \/ \A u \in Parties(cur[s]) : busy[u] = cur[s]
    BY DEF FlowInv, MarksAreMade
  <2> QED
    BY <2>1, <2>2, <2>3, <2>4, <2>5 DEF Still
<1> QED
  BY <1>3, <1>4, <1>5, <1>6, <1>7 DEF FlowInv

(* A caller's mark, when no mark is set: a session that ends clears the mark *)
(* of its user, or its calls are counted as orphaned.                        *)
LEMMA CallerKept ==
  ASSUME TypeOK, CallerMarkHasSession, UNCHANGED calls,
         orphaned \subseteq orphaned',
         \A u \in Users : busy'[u] = busy[u] \/ busy'[u] = 0,
         \A s \in Sessions :
            \/ pc'[s] \in {"idle", "gone"} => pc[s] \in {"idle", "gone"}
            \/ \A c \in CallIds : calls[c].via = s =>
                  c \in orphaned' \/ busy'[calls[c].from] = 0
  PROVE  CallerMarkHasSession'
<1> SUFFICES ASSUME NEW u \in Users, busy'[u] # 0, busy'[u] \notin orphaned',
                    calls[busy'[u]].from = u
             PROVE  pc'[calls[busy'[u]].via] \notin {"idle", "gone"}
  BY DEF CallerMarkHasSession
<1>1. busy'[u] = busy[u] /\ busy[u] \in CallIds
  BY TypeFacts
<1>2. calls[busy[u]].via \in Sessions
  BY <1>1, PartiesAreUsers DEF CallRecord
<1>3. pc[calls[busy[u]].via] \notin {"idle", "gone"}
  BY <1>1 DEF CallerMarkHasSession
<1> QED
  BY <1>1, <1>2, <1>3

-----------------------------------------------------------------------------
(* Steps that only end a frame or ring. *)

LEMMA DoneSteps ==
  ASSUME Inv, NEW s \in Sessions,
         Rejected(s) \/ NotConnected(s) \/ IsBusy(s) \/ Fails(s)
  PROVE  Inv'
<1>1. /\ Done(s)
      /\ UNCHANGED <<who, conns, contacts, calls, rung, orphaned, busy, unmarked>>
  BY DEF Rejected, NotConnected, IsBusy, Fails, connVars, callVars, markVars
<1>2. TypeOK'
  BY <1>1, DoneTypes, TypeKept, TypeFacts DEF Inv, TypeOK
<1>3. /\ \A t \in Sessions : Still(t) \/ Away(t)
      /\ \A t \in Sessions : Still(t) /\ kind[t] = "call" => (t \in revoked => t \in revoked')
  BY <1>1, TypeFacts DEF Done, Goto, Still, Away, Inv
<1>4. MarksRemembered
  BY <1>1 DEF MarksRemembered
<1>5. FlowInv'
  BY <1>1, <1>3, <1>4, FlowKept DEF Inv
<1>6. CallerMarkHasSession'
  BY <1>1, TypeFacts, CallerKept DEF Inv, FlowInv, Done, Goto
<1> QED
  BY <1>2, <1>5, <1>6 DEF Inv

(* Ringing: the marks were made, and the caller is allowed. *)
LEMMA RingSteps ==
  ASSUME Inv, NEW s \in Sessions, Ring(s) \/ PublishRing(s)
  PROVE  /\ Inv'
         /\ Pair(s) \in contacts \/ s \in revoked
<1>1. /\ Done(s) /\ rung' = rung \cup {cur[s]}
      /\ UNCHANGED <<who, conns, contacts, calls, orphaned, busy, unmarked>>
      /\ pc[s] = "lookup" \/ (pc[s] = "publish" /\ kind[s] = "call")
  BY DEF Ring, PublishRing, connVars, markVars
<1>2. /\ cur[s] \in CallIds
      /\ cur[s] \in unmarked \/ \A u \in Parties(cur[s]) : busy[u] = cur[s]
      /\ Pair(s) \in contacts \/ s \in revoked
  BY <1>1 DEF Inv, FlowInv, FrameIsCall, MarksAreMade, StillAllowed, Placing
<1>3. TypeOK'
  BY <1>1, <1>2, DoneTypes, TypeKept, TypeFacts DEF Inv, TypeOK
<1>4. RungIsMarked'
  BY <1>1, <1>2 DEF Inv, FlowInv, RungIsMarked, Parties
<1>5. /\ \A t \in Sessions : t # s => Still(t)
      /\ \A t \in revoked : t # s => t \in revoked'
      /\ pc'[s] = "reading"
  BY <1>1, TypeFacts DEF Done, Goto, Still, Inv
<1>6. CallsAreTrue' /\ CallIds' = CallIds
  BY <1>1 DEF Inv, FlowInv, CallsAreTrue, CallIds
<1>7. \A t \in Sessions : pc'[t] \in {"contact", "busy"} \/ Placing(t)' => t # s /\ Still(t)
  BY <1>5 DEF Placing
<1>8. FrameIsCall'
  BY <1>1, <1>6, <1>7 DEF Inv, FlowInv, FrameIsCall, Still, Placing
<1>9. MarksAreMade'
  <2>1. \A t \in Sessions : pc'[t] \in {"markTo", "lookup", "publish"} => t # s /\ Still(t)
    BY <1>5
  <2> QED
    BY <1>1, <2>1 DEF Inv, FlowInv, MarksAreMade, Still, Parties
<1>10. StillAllowed'
  BY <1>1, <1>5, <1>7 DEF Inv, FlowInv, StillAllowed, Still, Placing, Pair
<1>11. CallerMarkHasSession'
  BY <1>1, TypeFacts, CallerKept DEF Inv, FlowInv, Done, Goto
<1> QED
  BY <1>2, <1>3, <1>4, <1>6, <1>8, <1>9, <1>10, <1>11 DEF Inv, FlowInv

-----------------------------------------------------------------------------
(* Steps that clear marks. *)

(* A cleared mark leaves the types as they are. *)
LEMMA ClearTypes ==
  ASSUME TypeOK, NEW u \in Users, SetBusy([busy EXCEPT ![u] = 0]),
         UNCHANGED <<who, conns, calls, rung>>, orphaned' \subseteq CallIds,
         pc' \in [Sessions -> PCs],
         kind' \in [Sessions -> {"none", "call", "end"}],
         peer' \in [Sessions -> Users],
         cur' \in [Sessions -> CallIds \cup {0}],
         revoked' \subseteq Sessions
  PROVE  TypeOK' /\ MarksRemembered /\ \A v \in Users : busy'[v] = busy[v] \/ busy'[v] = 0
<1>1. /\ busy' \in [Users -> CallIds \cup {0}] /\ unmarked' \subseteq CallIds
      /\ \A v \in Users : busy'[v] = busy[v] \/ busy'[v] = 0
      /\ MarksRemembered
  BY ClearKept DEF MarksRemembered
<1>2. \A v \in Users : busy'[v] # 0 => v \in Parties(busy'[v])
  BY <1>1, TypeFacts
<1> QED
  BY <1>1, <1>2, TypeKept DEF TypeOK

LEMMA CleanupStep ==
  ASSUME Inv, NEW s \in Sessions, Cleanup(s)
  PROVE  Inv'
<1>1. /\ SetBusy([busy EXCEPT ![who[s]] = 0]) /\ pc' = [pc EXCEPT ![s] = "gone"]
      /\ orphaned' = orphaned \cup Estranged(s) /\ Estranged(s) \subseteq CallIds
      /\ orphaned' \subseteq CallIds
      /\ UNCHANGED <<kind, peer, cur, who, conns, contacts, calls, rung, revoked>>
  BY DEF Inv, TypeOK, Cleanup, Goto, frameVars, connVars, Estranged
<1>2. TypeOK' /\ MarksRemembered /\ \A v \in Users : busy'[v] = busy[v] \/ busy'[v] = 0
  BY <1>1, ClearTypes, TypeFacts DEF Inv, PCs, TypeOK
<1>3. \A t \in Sessions : Still(t) \/ Away(t)
  BY <1>1, TypeFacts DEF Still, Away, Inv
<1>4. FlowInv'
  BY <1>1, <1>2, <1>3, FlowKept DEF Inv
<1>5. busy'[who[s]] = 0 /\ \A t \in Sessions : t # s => pc'[t] = pc[t]
  <2>1. who[s] \in Users /\ busy' = [busy EXCEPT ![who[s]] = 0]
    BY <1>1, ClearKept, TypeFacts DEF Inv
  <2> QED
    BY <1>1, <2>1, TypeFacts DEF Inv
<1>6. \A c \in CallIds : calls[c].via = s => c \in orphaned' \/ busy'[calls[c].from] = 0
  BY <1>1, <1>5 DEF Estranged
<1>7. CallerMarkHasSession'
  BY <1>1, <1>2, <1>5, <1>6, CallerKept DEF Inv
<1> QED
  BY <1>2, <1>4, <1>7 DEF Inv

LEMMA ClearSteps ==
  ASSUME Inv, NEW s \in Sessions, ClearFrom(s) \/ ClearTo(s)
  PROVE  Inv'
<1>1. /\ SetBusy([busy EXCEPT ![who[s]] = 0]) \/ SetBusy([busy EXCEPT ![peer[s]] = 0])
      /\ UNCHANGED <<who, conns, contacts, calls, rung, orphaned>>
      /\ \/ pc' = [pc EXCEPT ![s] = "clearTo"] /\ UNCHANGED <<kind, peer, cur, revoked>>
         \/ Done(s)
  BY DEF ClearFrom, ClearTo, Goto, frameVars, connVars, callVars
<1>2. /\ pc' \in [Sessions -> PCs]
      /\ kind' \in [Sessions -> {"none", "call", "end"}]
      /\ peer' \in [Sessions -> Users]
      /\ cur' \in [Sessions -> CallIds \cup {0}]
      /\ revoked' \subseteq Sessions
  BY <1>1, TypeFacts, DoneTypes DEF Inv, PCs, TypeOK
<1>3. TypeOK' /\ MarksRemembered /\ \A v \in Users : busy'[v] = busy[v] \/ busy'[v] = 0
  BY <1>1, <1>2, ClearTypes, TypeFacts DEF Inv, TypeOK
<1>4. /\ \A t \in Sessions : Still(t) \/ Away(t)
      /\ \A t \in Sessions : Still(t) /\ kind[t] = "call" => (t \in revoked => t \in revoked')
  BY <1>1, TypeFacts DEF Done, Goto, Still, Away, Inv
<1>5. FlowInv'
  BY <1>1, <1>3, <1>4, FlowKept DEF Inv, Still
<1>6. \A t \in Sessions : pc'[t] \in {"idle", "gone"} => pc[t] \in {"idle", "gone"}
  BY <1>1, TypeFacts DEF Done, Goto, Inv
<1>7. CallerMarkHasSession'
  BY <1>1, <1>3, <1>6, CallerKept DEF Inv, FlowInv
<1> QED
  BY <1>3, <1>5, <1>7 DEF Inv

LEMMA BusyExpiresStep ==
  ASSUME Inv, NEW u \in Users, BusyExpires(u)
  PROVE  Inv'
<1>1. /\ SetBusy([busy EXCEPT ![u] = 0])
      /\ UNCHANGED <<pc, kind, peer, cur, who, conns, contacts, calls, rung, orphaned, revoked>>
  BY DEF BusyExpires, frameVars, connVars, callVars
<1>2. TypeOK' /\ MarksRemembered /\ \A v \in Users : busy'[v] = busy[v] \/ busy'[v] = 0
  BY <1>1, ClearTypes, TypeFacts DEF Inv, TypeOK
<1>3. FlowInv'
  BY <1>1, <1>2, FlowKept DEF Inv, Still
<1>4. CallerMarkHasSession'
  BY <1>1, <1>2, CallerKept DEF Inv, FlowInv
<1> QED
  BY <1>2, <1>3, <1>4 DEF Inv

-----------------------------------------------------------------------------
(* Steps that touch no mark and place no call. *)

LEMMA QuietSteps ==
  ASSUME Inv, NEW s \in Sessions,
         \/ Connect(s) \/ Leave(s) \/ PublishEnd(s) \/ CleanupFails(s)
         \/ \E u \in Users : EndLocal(s, u) \/ EndRemote(s, u)
  PROVE  Inv'
<1>1. /\ UNCHANGED <<cur, contacts, calls, busy, unmarked, revoked>>
      /\ rung' \subseteq rung /\ orphaned \subseteq orphaned'
      /\ \A t \in Sessions : t # s => Still(t)
      /\ Away(s)
  <2>1. CASE Connect(s) \/ Leave(s) \/ PublishEnd(s) \/ CleanupFails(s)
    BY <2>1, TypeFacts DEF Inv, Connect, Leave, PublishEnd, CleanupFails, Goto,
       frameVars, connVars, callVars, markVars, Still, Away
  <2>2. CASE \E u \in Users : EndLocal(s, u) \/ EndRemote(s, u)
    BY <2>2, TypeFacts DEF Inv, EndLocal, EndRemote, Goto, connVars, callVars, markVars,
       Still, Away
  <2> QED
    BY <2>1, <2>2
<1>2. /\ pc' \in [Sessions -> PCs]
      /\ kind' \in [Sessions -> {"none", "call", "end"}]
      /\ peer' \in [Sessions -> Users]
  <2>1. CASE Connect(s) \/ Leave(s) \/ PublishEnd(s) \/ CleanupFails(s)
    BY <2>1, TypeFacts DEF Inv, Connect, Leave, PublishEnd, CleanupFails, Goto,
       frameVars, PCs
  <2>2. CASE \E u \in Users : EndLocal(s, u) \/ EndRemote(s, u)
    <3>1. PICK u \in Users : EndLocal(s, u) \/ EndRemote(s, u)
      BY <2>2
    <3>2. /\ pc' = [pc EXCEPT ![s] = "clearFrom"] \/ pc' = [pc EXCEPT ![s] = "publish"]
          /\ kind' = [kind EXCEPT ![s] = "end"] /\ peer' = [peer EXCEPT ![s] = u]
      BY <3>1 DEF EndLocal, EndRemote, Goto
    <3>3. pc' \in [Sessions -> PCs] /\ kind' \in [Sessions -> {"none", "call", "end"}]
      BY <3>2, TypeFacts DEF Inv, PCs
    <3> QED
      BY <3>2, <3>3, TypeFacts DEF Inv
  <2> QED
    BY <2>1, <2>2
<1>3. conns' \in [Instances -> [Users -> Sessions \cup {NoSession}]]
  <2>1. conns \in [Instances -> [Users -> Sessions \cup {NoSession}]]
    BY TypeFacts DEF Inv
  <2>2. \/ conns' = conns
        \/ conns' = [conns EXCEPT ![Host[s]][who[s]] = s]
        \/ conns' = [conns EXCEPT ![Host[s]][who[s]] = NoSession]
    BY DEF Connect, Leave, PublishEnd, CleanupFails, EndLocal, EndRemote, connVars
  <2>3. ASSUME NEW t \in Sessions \cup {NoSession}
        PROVE  [conns EXCEPT ![Host[s]][who[s]] = t]
                  \in [Instances -> [Users -> Sessions \cup {NoSession}]]
    BY <2>1
  <2> QED
    <3>1. CASE conns' = conns
      BY <3>1, <2>1
    <3>2. CASE conns' = [conns EXCEPT ![Host[s]][who[s]] = s]
      BY <3>2, <2>3
    <3>3. CASE conns' = [conns EXCEPT ![Host[s]][who[s]] = NoSession]
      BY <3>3, <2>3
    <3> QED
      BY <2>2, <3>1, <3>2, <3>3
<1>4. orphaned' \subseteq CallIds
  BY DEF Inv, TypeOK, Connect, Leave, PublishEnd, CleanupFails, EndLocal, EndRemote, callVars
<1>5. TypeOK'
  <2>1. who' \in [Sessions -> Users]
    BY TypeFacts DEF Inv, Connect, Leave, PublishEnd, CleanupFails, EndLocal, EndRemote, connVars
  <2> QED
    BY <1>1, <1>2, <1>3, <1>4, <2>1, TypeKept, TypeFacts DEF Inv, TypeOK
<1>6. FlowInv'
  <2>1. MarksRemembered /\ \A t \in Sessions : Still(t) \/ Away(t)
    BY <1>1 DEF MarksRemembered
  <2> QED
    BY <1>1, <2>1, FlowKept DEF Inv
<1>7. CallerMarkHasSession'
  <2>1. \/ pc'[s] \notin {"idle", "gone"}
        \/ \A c \in CallIds : calls[c].via = s => c \in orphaned'
    BY TypeFacts DEF Inv, Connect, Leave, PublishEnd, CleanupFails, EndLocal, EndRemote, Goto
  <2> QED
    BY <1>1, <2>1, CallerKept DEF Inv, FlowInv, Still
<1> QED
  BY <1>5, <1>6, <1>7 DEF Inv

LEMMA ReauthStep ==
  ASSUME Inv, NEW s \in Sessions, NEW u \in Users, Reauth(s, u)
  PROVE  Inv'
<1>1. /\ pc[s] = "reading"
      /\ who' = [who EXCEPT ![s] = u] /\ peer' = [peer EXCEPT ![s] = u]
      /\ conns' = [conns EXCEPT ![Host[s]][u] = s]
      /\ UNCHANGED <<pc, kind, cur, contacts, calls, rung, orphaned, busy, unmarked, revoked>>
  BY DEF Reauth, callVars, markVars
<1>2. /\ who' \in [Sessions -> Users] /\ peer' \in [Sessions -> Users]
      /\ conns' \in [Instances -> [Users -> Sessions \cup {NoSession}]]
  BY <1>1, TypeFacts DEF Inv
<1>3. TypeOK'
  BY <1>1, <1>2, TypeKept, TypeFacts DEF Inv, TypeOK
<1>4. \A t \in Sessions : Still(t) \/ Away(t)
  BY <1>1, TypeFacts DEF Inv, Still, Away
<1>5. FlowInv'
  BY <1>1, <1>4, FlowKept DEF Inv, MarksRemembered
<1>6. CallerMarkHasSession'
  BY <1>1, CallerKept DEF Inv
<1> QED
  BY <1>3, <1>5, <1>6 DEF Inv

LEMMA ContactsStep ==
  ASSUME Inv, NEW C, ContactsBecome(C)
  PROVE  Inv'
<1>1. /\ contacts' = C
      /\ revoked' = revoked \cup
           {s \in Sessions : /\ kind[s] = "call" /\ pc[s] # "contact"
                             /\ Pair(s) \in contacts \ C}
      /\ UNCHANGED <<pc, kind, peer, cur, who, conns, calls, rung, orphaned, busy, unmarked>>
  BY DEF ContactsBecome, frameVars, connVars, callVars, markVars
<1>2. TypeOK'
  BY <1>1, TypeKept, TypeFacts DEF Inv, TypeOK
<1>3. FlowInv'
  BY <1>1, FlowKept DEF Inv, Still, MarksRemembered
<1>4. CallerMarkHasSession'
  BY <1>1, CallerKept DEF Inv, FlowInv
<1> QED
  BY <1>2, <1>3, <1>4 DEF Inv

LEMMA CrashStep ==
  ASSUME Inv, NEW i \in Instances, Crash(i)
  PROVE  Inv'
<1> DEFINE here == {s \in Sessions : Host[s] = i /\ pc[s] # "idle"}
<1>1. /\ pc' = [s \in Sessions |-> IF s \in here THEN "gone" ELSE pc[s]]
      /\ conns' = [conns EXCEPT ![i] = [u \in Users |-> NoSession]]
      /\ orphaned' = orphaned \cup {c \in CallIds : calls[c].via \in here}
      /\ rung' \subseteq rung
      /\ UNCHANGED <<kind, who, peer, cur, contacts, calls, busy, unmarked, revoked>>
  BY DEF Crash, frameVars, markVars
<1> HIDE DEF here
<1>2. pc' \in [Sessions -> PCs]
  BY <1>1, TypeFacts DEF Inv, PCs
<1>3. conns' \in [Instances -> [Users -> Sessions \cup {NoSession}]]
  BY <1>1, TypeFacts DEF Inv
<1>4. TypeOK'
  BY <1>1, <1>2, <1>3, TypeKept, TypeFacts DEF Inv, TypeOK
<1>5. FlowInv'
  BY <1>1, FlowKept DEF Inv, Still, Away, MarksRemembered
<1>6. CallerMarkHasSession'
  <2>1. \A s \in Sessions : \/ pc'[s] = pc[s]
                            \/ \A c \in CallIds : calls[c].via = s => c \in orphaned'
    BY <1>1
  <2> QED
    BY <1>1, <2>1, CallerKept DEF Inv, FlowInv
<1> QED
  BY <1>4, <1>5, <1>6 DEF Inv

-----------------------------------------------------------------------------
(* Steps that lead a call frame to its ring. *)

LEMMA EarlySteps ==
  ASSUME Inv, NEW s \in Sessions, Allowed(s) \/ \E u \in Users : CallFrame(s, u)
  PROVE  Inv'
<1>1. PICK u \in Users : Allowed(s) \/ CallFrame(s, u)
  BY TypeFacts DEF Inv
<1>2. /\ UNCHANGED <<cur, who, conns, contacts, calls, rung, orphaned, busy, unmarked, revoked>>
      /\ \/ /\ pc' = [pc EXCEPT ![s] = "busy"] /\ UNCHANGED <<kind, peer>>
            /\ pc[s] = "contact" /\ Pair(s) \in contacts
         \/ /\ pc' = [pc EXCEPT ![s] = "contact"]
            /\ kind' = [kind EXCEPT ![s] = "call"] /\ peer' = [peer EXCEPT ![s] = u]
            /\ u # who[s] /\ pc[s] = "reading"
  BY <1>1 DEF Allowed, CallFrame, Goto, frameVars, connVars, callVars, markVars
<1>3. /\ pc' \in [Sessions -> PCs]
      /\ kind' \in [Sessions -> {"none", "call", "end"}]
      /\ peer' \in [Sessions -> Users]
  <2>1. pc' \in [Sessions -> PCs]
    BY <1>2, TypeFacts DEF Inv, PCs
  <2>2. kind' \in [Sessions -> {"none", "call", "end"}]
    BY <1>2, TypeFacts DEF Inv
  <2>3. peer' \in [Sessions -> Users]
    BY <1>2, TypeFacts DEF Inv
  <2> QED
    BY <2>1, <2>2, <2>3
<1>4. TypeOK'
  BY <1>2, <1>3, TypeKept, TypeFacts DEF Inv, TypeOK
<1>5. /\ \A t \in Sessions : t # s => Still(t)
      /\ pc'[s] \in {"contact", "busy"} /\ kind'[s] = "call" /\ peer'[s] # who[s]
      /\ pc'[s] = "busy" => Pair(s) \in contacts /\ peer'[s] = peer[s]
  <2>1. CASE /\ pc' = [pc EXCEPT ![s] = "busy"] /\ UNCHANGED <<kind, peer>>
             /\ pc[s] = "contact" /\ Pair(s) \in contacts
    <3>1. kind[s] = "call" /\ peer[s] # who[s]
      BY <2>1 DEF Inv, FlowInv, FrameIsCall
    <3> QED
      BY <1>2, <2>1, <3>1, TypeFacts DEF Inv, Still
  <2>2. CASE /\ pc' = [pc EXCEPT ![s] = "contact"]
             /\ kind' = [kind EXCEPT ![s] = "call"] /\ peer' = [peer EXCEPT ![s] = u]
             /\ u # who[s]
    BY <1>2, <2>2, TypeFacts DEF Inv, Still
  <2> QED
    BY <1>2, <2>1, <2>2
<1>6. CallIds' = CallIds /\ \A t \in Sessions : Placing(t)' => t # s /\ Still(t) /\ Placing(t)
  BY <1>2, <1>5 DEF CallIds, Placing, Still
<1>7. CallsAreTrue' /\ RungIsMarked'
  BY <1>2, <1>6 DEF Inv, FlowInv, CallsAreTrue, RungIsMarked, Parties
<1>8. FrameIsCall'
  BY <1>2, <1>5, <1>6 DEF Inv, FlowInv, FrameIsCall, Still
<1>9. MarksAreMade'
  BY <1>2, <1>5, <1>6 DEF Inv, FlowInv, MarksAreMade, Still, Placing, Parties
<1>10. StillAllowed'
  BY <1>2, <1>5, <1>6 DEF Inv, FlowInv, StillAllowed, Still, Pair
<1>11. CallerMarkHasSession'
  BY <1>2, <1>5, CallerKept DEF Inv, FlowInv, Still
<1> QED
  BY <1>4, <1>7, <1>8, <1>9, <1>10, <1>11 DEF Inv, FlowInv

(* The steps from the first mark to the ring that neither begin nor end the  *)
(* call: types and flow, given what they do to the marks.                    *)
LEMMA PlacingOn ==
  ASSUME Inv, NEW s \in Sessions, Placing(s),
         UNCHANGED <<kind, who, peer, cur, contacts, calls, rung, revoked>>,
         MarksRemembered,
         NEW l \in {"markTo", "lookup", "publish"}, pc' = [pc EXCEPT ![s] = l],
         l = "markTo" => cur[s] \in unmarked' \/ busy'[who[s]] = cur[s],
         l # "markTo" => cur[s] \in unmarked' \/ \A u \in Parties(cur[s]) : busy'[u] = cur[s]
  PROVE  FlowInv'
<1>1. /\ \A t \in Sessions : t # s => Still(t)
      /\ pc'[s] = l /\ Placing(s)' /\ kind[s] = "call" /\ cur[s] \in CallIds
  BY TypeFacts DEF Inv, FlowInv, FrameIsCall, Still, Placing
<1>2. CallIds' = CallIds /\ \A t \in Sessions : Placing(t)' => Placing(t)
  BY <1>1 DEF CallIds, Placing, Still
<1>3. CallsAreTrue'
  BY <1>2 DEF Inv, FlowInv, CallsAreTrue
<1>4. RungIsMarked'
  BY RungKept DEF Inv, FlowInv
<1>5. FrameIsCall'
  BY <1>1, <1>2 DEF Inv, FlowInv, FrameIsCall, Still
<1>6. StillAllowed'
  BY <1>1, <1>2 DEF Inv, FlowInv, StillAllowed, Still, Pair
<1>7. MarksAreMade'
  <2> SUFFICES ASSUME NEW t \in Sessions, Placing(t)'
               PROVE  /\ pc'[t] = "markTo" => cur[t] \in unmarked' \/ busy'[who[t]] = cur[t]
                      /\ pc'[t] = "lookup" \/ (pc'[t] = "publish" /\ kind[t] = "call")
                           => cur[t] \in unmarked' \/ \A u \in Parties(cur[t]) : busy'[u] = cur[t]
    BY DEF MarksAreMade, Placing, Parties
  <2>1. CASE t = s
    BY <2>1, <1>1
  <2>2. CASE t # s
    <3>1. Still(t) /\ Placing(t) /\ cur[t] \in CallIds
      BY <2>2, <1>1, <1>2 DEF Inv, FlowInv, FrameIsCall
    <3>2. Parties(cur[t]) \subseteq Users /\ who[t] \in Users
      BY <3>1, PartiesAreUsers, TypeFacts DEF Inv
    <3>3. ASSUME NEW u \in Users, cur[t] \in unmarked \/ busy[u] = cur[t]
          PROVE  cur[t] \in unmarked' \/ busy'[u] = cur[t]
      BY <3>1, <3>3, MarkOfCallKept DEF Inv
    <3>4. pc[t] = "markTo" => cur[t] \in unmarked \/ busy[who[t]] = cur[t]
      BY DEF Inv, FlowInv, MarksAreMade
    <3>5. pc[t] = "lookup" \/ (pc[t] = "publish" /\ kind[t] = "call")
             => cur[t] \in unmarked \/ \A u \in Parties(cur[t]) : busy[u] = cur[t]
      BY DEF Inv, FlowInv, MarksAreMade
    <3> QED
      BY <3>1, <3>2, <3>3, <3>4, <3>5 DEF Still
  <2> QED
    BY <2>1, <2>2
<1> QED
  BY <1>3, <1>4, <1>5, <1>6, <1>7 DEF FlowInv

LEMMA RingRemoteStep ==
  ASSUME Inv, NEW s \in Sessions, RingRemote(s)
  PROVE  Inv'
<1>1. /\ pc[s] = "lookup" /\ pc' = [pc EXCEPT ![s] = "publish"]
      /\ UNCHANGED <<kind, peer, cur, who, conns, contacts, calls, rung, orphaned, busy,
                     unmarked, revoked>>
  BY DEF RingRemote, Goto, frameVars, connVars, callVars, markVars
<1>2. TypeOK'
  BY <1>1, TypeKept, TypeFacts DEF Inv, TypeOK, PCs
<1>3. /\ Placing(s) /\ MarksRemembered
      /\ cur[s] \in unmarked \/ \A u \in Parties(cur[s]) : busy[u] = cur[s]
  BY <1>1 DEF Inv, FlowInv, MarksAreMade, Placing, MarksRemembered
<1>4. FlowInv'
  BY <1>1, <1>3, PlacingOn
<1>5. CallerMarkHasSession'
  BY <1>1, TypeFacts, CallerKept DEF Inv, FlowInv
<1> QED
  BY <1>2, <1>4, <1>5 DEF Inv

(* Setting a mark. *)
LEMMA SetKept ==
  ASSUME TypeOK, NEW u \in Users, NEW c \in CallIds, SetBusy([busy EXCEPT ![u] = c])
  PROVE  /\ busy' \in [Users -> CallIds \cup {0}] /\ busy'[u] = c
         /\ \A v \in Users : v # u => busy'[v] = busy[v]
         /\ MarksRemembered /\ unmarked' \subseteq CallIds
<1> DEFINE S == CallIds \cup {0}
           b == [busy EXCEPT ![u] = c]
<1>1. busy \in [Users -> S] /\ c \in S
  BY DEF TypeOK
<1> HIDE DEF S
<1>2. b \in [Users -> S] /\ b[u] = c /\ \A v \in Users : v # u => b[v] = busy[v]
  BY <1>1
<1> USE DEF S
<1>3. b \in [Users -> CallIds \cup {0}] /\ SetBusy(b)
  BY <1>2
<1> HIDE DEF b
<1>4. /\ busy' = b
      /\ unmarked \subseteq unmarked' /\ unmarked' \subseteq CallIds
      /\ \A v \in Users : busy[v] # 0 => busy[v] \in unmarked' \/ busy'[v] = busy[v]
  BY <1>3, MarksKept
<1> QED
  BY <1>2, <1>3, <1>4 DEF MarksRemembered

LEMMA MarkSteps ==
  ASSUME Inv, NEW s \in Sessions, MarkFrom(s) \/ MarkTo(s)
  PROVE  Inv'
<1> DEFINE u == IF pc[s] = "markFrom" THEN who[s] ELSE peer[s]
           l == IF pc[s] = "markFrom" THEN "markTo" ELSE "lookup"
<1>1. /\ pc[s] \in {"markFrom", "markTo"} /\ pc' = [pc EXCEPT ![s] = l]
      /\ SetBusy([busy EXCEPT ![u] = cur[s]])
      /\ UNCHANGED <<kind, peer, cur, who, conns, contacts, calls, rung, orphaned, revoked>>
  BY DEF MarkFrom, MarkTo, Goto, frameVars, connVars, callVars
<1>2. /\ Placing(s) /\ cur[s] \in CallIds
      /\ calls[cur[s]] = [from |-> who[s], to |-> peer[s], via |-> s]
  BY <1>1 DEF Inv, FlowInv, FrameIsCall, Placing
<1>3. u \in Users /\ u \in Parties(cur[s]) /\ Parties(cur[s]) = {who[s], peer[s]}
  BY <1>2, TypeFacts DEF Inv, Parties
<1>4. /\ l \in {"markTo", "lookup"}
      /\ l = "markTo" => u = who[s]
      /\ l = "lookup" => u = peer[s] /\ pc[s] = "markTo"
  BY <1>1
<1> HIDE DEF u, l
<1>5. /\ busy' \in [Users -> CallIds \cup {0}] /\ busy'[u] = cur[s]
      /\ \A v \in Users : v # u => busy'[v] = busy[v]
      /\ MarksRemembered /\ unmarked' \subseteq CallIds
  BY <1>1, <1>2, <1>3, SetKept DEF Inv
<1>6. TypeOK'
  <2>1. pc' \in [Sessions -> PCs]
    BY <1>1, <1>4, TypeFacts DEF Inv, PCs
  <2>2. \A v \in Users : busy'[v] # 0 => v \in Parties(busy'[v])
    BY <1>3, <1>5, TypeFacts DEF Inv
  <2> QED
    BY <1>1, <1>5, <2>1, <2>2, TypeKept, TypeFacts DEF Inv, TypeOK
<1>7. FlowInv'
  <2>1. l = "markTo" => busy'[who[s]] = cur[s]
    BY <1>4, <1>5
  <2>2. l = "lookup" => cur[s] \in unmarked' \/ busy'[who[s]] = cur[s]
    <3>1. l = "lookup" => cur[s] \in unmarked \/ busy[who[s]] = cur[s]
      BY <1>4 DEF Inv, FlowInv, MarksAreMade
    <3> QED
      BY <3>1, <1>2, <1>5, MarkOfCallKept, TypeFacts, <1>1 DEF Inv
  <2>3. l = "lookup" => cur[s] \in unmarked' \/ \A v \in Parties(cur[s]) : busy'[v] = cur[s]
    BY <2>2, <1>3, <1>4, <1>5
  <2> QED
    BY <1>1, <1>2, <1>4, <1>5, <2>1, <2>3, PlacingOn
<1>8. CallerMarkHasSession'
  <2> SUFFICES ASSUME NEW v \in Users, busy'[v] # 0, busy'[v] \notin orphaned,
                      calls[busy'[v]].from = v
               PROVE  pc'[calls[busy'[v]].via] \notin {"idle", "gone"}
    BY <1>1 DEF CallerMarkHasSession
  <2>1. \A t \in Sessions : pc'[t] \in {"idle", "gone"} => pc[t] \in {"idle", "gone"}
    BY <1>1, <1>4, TypeFacts DEF Inv
  <2>2. CASE v = u
    <3>1. calls[busy'[v]].via = s
      BY <2>2, <1>2, <1>5
    <3> QED
      BY <3>1, <1>1, <1>4, TypeFacts DEF Inv
  <2>3. CASE v # u
    <3>1. busy'[v] = busy[v] /\ busy[v] \in CallIds
      BY <2>3, <1>5, TypeFacts DEF Inv
    <3>2. calls[busy[v]].via \in Sessions
      BY <3>1, PartiesAreUsers DEF Inv, CallRecord
    <3> QED
      BY <3>1, <3>2, <2>1 DEF Inv, CallerMarkHasSession
  <2> QED
    BY <2>2, <2>3
<1> QED
  BY <1>6, <1>7, <1>8 DEF Inv

LEMMA NotBusyStep ==
  ASSUME Inv, NEW s \in Sessions, NotBusy(s)
  PROVE  Inv'
<1> DEFINE n == Len(calls) + 1
           e == [from |-> who[s], to |-> peer[s], via |-> s]
<1>1. /\ pc[s] = "busy" /\ pc' = [pc EXCEPT ![s] = "markFrom"]
      /\ calls' = Append(calls, e) /\ cur' = [cur EXCEPT ![s] = n]
      /\ UNCHANGED <<kind, peer, who, conns, contacts, rung, orphaned, busy, unmarked, revoked>>
  BY DEF NotBusy, Goto, connVars, markVars
<1>2. /\ kind[s] = "call" /\ peer[s] # who[s] /\ peer[s] \in Users
      /\ Pair(s) \in contacts \/ s \in revoked
  BY <1>1, TypeFacts DEF Inv, FlowInv, FrameIsCall, StillAllowed
<1>3. calls \in Seq(CallRecord) /\ e \in CallRecord
  BY <1>2 DEF Inv, TypeOK, CallRecord
<1>4. /\ calls' \in Seq(CallRecord) /\ calls'[n] = e
      /\ CallIds' = CallIds \cup {n} /\ n # 0
      /\ \A c \in CallIds : calls'[c] = calls[c]
  BY <1>1, <1>3 DEF CallIds
<1>5. \A c \in CallIds : Parties(c)' = Parties(c)
  BY <1>4 DEF Parties
<1>6. /\ \A t \in Sessions : t # s => Still(t)
      /\ pc'[s] = "markFrom" /\ cur'[s] = n /\ kind'[s] = "call"
  BY <1>1, <1>2, TypeFacts DEF Inv, Still
<1>7. TypeOK'
  <2>1. pc' \in [Sessions -> PCs]
    BY <1>1, TypeFacts DEF Inv, PCs
  <2>2. cur' \in [Sessions -> CallIds' \cup {0}]
    BY <1>1, <1>4, TypeFacts DEF Inv
  <2>3. /\ busy' \in [Users -> CallIds' \cup {0}]
        /\ \A u \in Users : busy'[u] # 0 => busy'[u] \in CallIds /\ u \in Parties(busy[u])
    BY <1>1, <1>4, TypeFacts DEF Inv
  <2>4. \A u \in Users : busy'[u] # 0 => u \in Parties(busy[u])'
    BY <2>3, <1>1, <1>4 DEF Parties
  <2>5. /\ rung' \subseteq CallIds' /\ orphaned' \subseteq CallIds'
        /\ unmarked' \subseteq CallIds' /\ revoked' \subseteq Sessions
    BY <1>1, <1>4 DEF Inv, TypeOK
  <2>6. calls' \in Seq([from : Users, to : Users, via : Sessions])
    BY <1>4 DEF CallRecord
  <2> QED
    BY <1>1, TypeFacts, <2>1, <2>2, <2>3, <2>4, <2>5, <2>6 DEF Inv, TypeOK
<1> HIDE DEF n, e
<1>8. CallsAreTrue'
  <2>1. e.from # e.to
    BY <1>2 DEF e
  <2> QED
    BY <2>1, <1>4 DEF Inv, FlowInv, CallsAreTrue
<1>9. FrameIsCall'
  <2>1. /\ kind'[s] = "call" /\ cur'[s] \in CallIds' /\ pc'[s] \notin {"contact", "busy"}
        /\ calls'[cur'[s]] = [from |-> who'[s], to |-> peer'[s], via |-> s]
    <3>1. peer' = peer /\ who' = who /\ calls'[cur'[s]] = e
      BY <1>1, <1>4, <1>6
    <3>2. e = [from |-> who'[s], to |-> peer'[s], via |-> s]
      BY <3>1 DEF e
    <3>3. kind'[s] = "call" /\ cur'[s] \in CallIds' /\ pc'[s] \notin {"contact", "busy"}
      BY <1>4, <1>6
    <3> QED
      BY <3>1, <3>2, <3>3
  <2>2. ASSUME NEW t \in Sessions, t # s
        PROVE  /\ pc'[t] \in {"contact", "busy"} => kind'[t] = "call" /\ peer'[t] # who'[t]
               /\ Placing(t)' =>
                    /\ kind'[t] = "call" /\ cur'[t] \in CallIds'
                    /\ calls'[cur'[t]] = [from |-> who'[t], to |-> peer'[t], via |-> t]
    <3>1. Still(t) /\ (Placing(t)' => Placing(t))
      BY <2>2, <1>6 DEF Still, Placing
    <3>2. /\ pc[t] \in {"contact", "busy"} => kind[t] = "call" /\ peer[t] # who[t]
          /\ Placing(t) => /\ kind[t] = "call" /\ cur[t] \in CallIds
                           /\ calls[cur[t]] = [from |-> who[t], to |-> peer[t], via |-> t]
      BY DEF Inv, FlowInv, FrameIsCall
    <3> QED
      BY <3>1, <3>2, <1>4 DEF Still
  <2>3. \A t \in Sessions :
          /\ pc'[t] \in {"contact", "busy"} => kind'[t] = "call" /\ peer'[t] # who'[t]
          /\ Placing(t)' =>
               /\ kind'[t] = "call" /\ cur'[t] \in CallIds'
               /\ calls'[cur'[t]] = [from |-> who'[t], to |-> peer'[t], via |-> t]
    BY <2>1, <2>2
  <2> QED
    BY <2>3, Zenon DEF FrameIsCall
<1>10. MarksAreMade'
  <2>1. \A t \in Sessions : pc'[t] \in {"markTo", "lookup", "publish"} => t # s /\ Still(t)
    BY <1>6
  <2>2. \A t \in Sessions : Placing(t) => cur[t] \in CallIds
    BY DEF Inv, FlowInv, FrameIsCall
  <2>3. \A t \in Sessions : Placing(t) /\ t # s => Parties(cur[t])' = Parties(cur[t])
    BY <2>2, <1>4, <1>6 DEF Parties, Still
  <2> QED
    BY <1>1, <2>1, <2>3 DEF Inv, FlowInv, MarksAreMade, Still, Placing
<1>11. StillAllowed'
  <2>1. Pair(s)' = Pair(s) /\ \A t \in Sessions : Pair(t)' = Pair(t)
    BY <1>1 DEF Pair
  <2> QED
    BY <1>1, <1>2, <1>6, <2>1 DEF Inv, FlowInv, StillAllowed, Still, Placing
<1>12. RungIsMarked'
  BY <1>1, <1>5 DEF Inv, TypeOK, FlowInv, RungIsMarked
<1>13. CallerMarkHasSession'
  <2> SUFFICES ASSUME NEW v \in Users, busy[v] # 0, busy[v] \notin orphaned,
                      calls'[busy[v]].from = v
               PROVE  pc'[calls'[busy[v]].via] \notin {"idle", "gone"}
    BY <1>1 DEF CallerMarkHasSession
  <2>1. busy[v] \in CallIds /\ calls'[busy[v]] = calls[busy[v]]
    BY <1>4, TypeFacts DEF Inv
  <2>2. calls[busy[v]].via \in Sessions
    BY <2>1, PartiesAreUsers DEF Inv, CallRecord
  <2>3. pc[calls[busy[v]].via] \notin {"idle", "gone"}
    BY <2>1 DEF Inv, CallerMarkHasSession
  <2> QED
    BY <2>1, <2>2, <2>3, <1>6 DEF Still
<1> QED
  BY <1>7, <1>8, <1>9, <1>10, <1>11, <1>12, <1>13 DEF Inv, FlowInv

-----------------------------------------------------------------------------
LEMMA InvStep == Inv /\ [Next]_vars => Inv'
<1> SUFFICES ASSUME Inv, [Next]_vars
             PROVE  Inv'
  OBVIOUS
<1>1. ASSUME NEW s \in Sessions, Handle(s)
      PROVE  Inv'
  BY <1>1, DoneSteps, EarlySteps, NotBusyStep, MarkSteps, RingSteps, RingRemoteStep,
     QuietSteps, ClearSteps, CleanupStep DEF Handle
<1>2. ASSUME NEW s \in Sessions, Connect(s) \/ Leave(s) \/ Frame(s) \/ Fails(s) \/ CleanupFails(s)
      PROVE  Inv'
  BY <1>2, QuietSteps, EarlySteps, DoneSteps DEF Frame
<1>3. ASSUME NEW u \in Users, BusyExpires(u) \/ \E s \in Sessions : Reauth(s, u)
      PROVE  Inv'
  BY <1>3, BusyExpiresStep, ReauthStep
<1>4. ASSUME NEW p \in Pairs, ContactEnds(p) \/ ContactBegins(p)
      PROVE  Inv'
  BY <1>4, ContactsStep DEF ContactEnds, ContactBegins
<1>5. ASSUME NEW i \in Instances, Crash(i)
      PROVE  Inv'
  BY <1>5, CrashStep
<1>6. CASE UNCHANGED vars
  BY <1>6 DEF vars, Inv, TypeOK, FlowInv, CallsAreTrue, FrameIsCall, MarksAreMade,
      StillAllowed, RungIsMarked, CallerMarkHasSession, Placing, Parties, CallIds, Pair
<1> QED
  BY <1>1, <1>2, <1>3, <1>4, <1>5, <1>6 DEF Next, ServerStep

THEOREM Invariance == Spec => []Inv
  BY InvInit, InvStep, PTL DEF Spec

(* The types, and that a busy mark names a call of the user it marks.        *)
THEOREM TypeCorrect == Spec => []TypeOK
<1>1. Inv => TypeOK
  BY DEF Inv
<1> QED
  BY <1>1, Invariance, PTL

(* Both parties of a call that is ringing are marked with it, unless someone *)
(* has removed a mark since ("Mark both busy").                              *)
THEOREM RungCallsAreMarked == Spec => []RungIsMarked
<1>1. Inv => RungIsMarked
  BY DEF Inv, FlowInv
<1> QED
  BY <1>1, Invariance, PTL

(* WebSocket Protocol.md:52, "Target user in another call": no user is in    *)
(* two ringing calls, unless a mark of one of them was removed, or           *)
(* overwritten by a caller that had read the key before (server.rs:180-188). *)
THEOREM OneMarkedRing ==
  Spec => [](\A c, d \in rung \ unmarked : Parties(c) \cap Parties(d) # {} => c = d)
<1>1. Inv => \A c, d \in rung \ unmarked : Parties(c) \cap Parties(d) # {} => c = d
  BY DEF Inv, FlowInv, RungIsMarked
<1> QED
  BY <1>1, Invariance, PTL

(* The mark of a caller goes with the session it called from, but for a      *)
(* crash or a clear_busy that fails.                                         *)
THEOREM CallerMarksGo == Spec => []CallerMarkHasSession
<1>1. Inv => CallerMarkHasSession
  BY DEF Inv
<1> QED
  BY <1>1, Invariance, PTL

(* Only who was a contact when the frame was checked rings a user.           *)
THEOREM ContactsRing == Spec => RungByContact
<1>1. ASSUME Inv, NEW s \in Sessions, Ring(s) \/ PublishRing(s)
      PROVE  Pair(s) \in contacts \/ s \in revoked
  BY <1>1, RingSteps
<1>2. Inv => [\A s \in Sessions : Ring(s) \/ PublishRing(s) =>
                Pair(s) \in contacts \/ s \in revoked]_vars
  BY <1>1
<1> QED
  BY <1>2, Invariance, PTL DEF RungByContact

-----------------------------------------------------------------------------
(* The composition. A request changes the rows between two users only, so    *)
(* each of its statements begins or ends at most one contact, as             *)
(* CallSignaling has it, and the accepted rows are all that calls see of it. *)

BookTheory == INSTANCE ContactBookProofs WITH pc <- step

BookOK == Book!TypeOK /\ Book!CallableIsAgreed

LEMMA BookInit == Book!Init => BookOK
<1>1. BookTheory!Init => BookTheory!Inv
  BY BookTheory!InitInv, NoUserAssumption, MaxOverdraftAssumption
<1>2. Book!Init => BookTheory!Init
  BY DEF Book!Init, BookTheory!Init
<1>3. BookTheory!Inv => BookOK
  BY DEF BookTheory!Inv, BookOK, Book!TypeOK, BookTheory!TypeOK,
         Book!CallableIsAgreed, BookTheory!CallableIsAgreed, Book!CanCall, BookTheory!CanCall,
         Book!Statuses, BookTheory!Statuses, Book!PCs, BookTheory!PCs
<1> QED
  BY <1>1, <1>2, <1>3

(* ContactBook and its theory have the same actions under two names. *)
LEMMA BookNext == Book!Next => BookTheory!Next
<1>1. ASSUME NEW r \in Requests, Book!Handle(r)
      PROVE  BookTheory!Handle(r)
  <2>1. CASE Book!InsertRequest(r) \/ Book!InsertBlock(r)
    BY <2>1 DEF Book!Waiting, BookTheory!Waiting, BookTheory!Handle, Book!InsertRequest, BookTheory!InsertRequest, Book!InsertBlock, BookTheory!InsertBlock, Book!Finish, BookTheory!Finish, Book!inviteVars, BookTheory!inviteVars, Book!pairVars, BookTheory!pairVars
  <2>2. CASE Book!Decrement(r)
    BY <2>2 DEF BookTheory!Handle, Book!Decrement, BookTheory!Decrement, Book!pairVars, BookTheory!pairVars
  <2>3. CASE Book!AskOwner(r) \/ Book!Fails(r)
    BY <2>3 DEF BookTheory!Handle, Book!AskOwner, BookTheory!AskOwner, Book!Fails, BookTheory!Fails, Book!Finish, BookTheory!Finish, Book!inviteVars, BookTheory!inviteVars, Book!pairVars, BookTheory!pairVars
  <2> QED
    BY <1>1, <2>1, <2>2, <2>3 DEF Book!Handle
<1>2. ASSUME NEW r \in Requests, NEW u \in Users, NEW v \in Users
      PROVE  /\ Book!SendRequest(r, u, v) => BookTheory!SendRequest(r, u, v)
             /\ Book!Block(r, u, v) => BookTheory!Block(r, u, v)
  BY DEF Book!SendRequest, BookTheory!SendRequest, Book!Block, BookTheory!Block, Book!Start, BookTheory!Start, Book!Unrelated, BookTheory!Unrelated, Book!inviteVars, BookTheory!inviteVars, Book!pairVars, BookTheory!pairVars
<1>3. ASSUME NEW r \in Requests, NEW u \in Users, NEW l \in Links, Book!UseInvite(r, u, l)
      PROVE  BookTheory!UseInvite(r, u, l)
  BY <1>3 DEF Book!pairVars, BookTheory!pairVars, Book!UseInvite, BookTheory!UseInvite, Book!Start, BookTheory!Start, Book!Claimants, BookTheory!Claimants, Book!Cardinality, BookTheory!Cardinality
<1>4. ASSUME NEW u \in Users, NEW v \in Users
      PROVE  /\ Book!Accept(u, v) => BookTheory!Accept(u, v)
             /\ Book!Decline(u, v) => BookTheory!Decline(u, v)
             /\ Book!Remove(u, v) => BookTheory!Remove(u, v)
  BY DEF Book!Waiting, BookTheory!Waiting, Book!Accept, BookTheory!Accept, Book!Decline, BookTheory!Decline, Book!Remove, BookTheory!Remove, Book!inviteVars, BookTheory!inviteVars, Book!pairVars, BookTheory!pairVars, Book!taskVars, BookTheory!taskVars
<1>5. ASSUME NEW l \in Links
      PROVE  /\ \A u \in Users : Book!GenerateLink(u, l) => BookTheory!GenerateLink(u, l)
             /\ Book!LinkExpires(l) => BookTheory!LinkExpires(l)
  BY DEF Book!pairVars, BookTheory!pairVars, Book!GenerateLink, BookTheory!GenerateLink, Book!LinkExpires, BookTheory!LinkExpires, Book!taskVars, BookTheory!taskVars
<1>6. SUFFICES ASSUME Book!Next PROVE BookTheory!Next
  OBVIOUS
<1>7. CASE \E r \in Requests :
             \/ Book!Handle(r)
             \/ \E u, v \in Users : Book!SendRequest(r, u, v) \/ Book!Block(r, u, v)
             \/ \E u \in Users, l \in Links : Book!UseInvite(r, u, l)
  BY <1>1, <1>2, <1>3, <1>7 DEF BookTheory!Next
<1>8. CASE \E u, v \in Users : Book!Accept(u, v) \/ Book!Decline(u, v) \/ Book!Remove(u, v)
  BY <1>4, <1>8 DEF BookTheory!Next
<1>9. CASE \/ \E u \in Users, l \in Links : Book!GenerateLink(u, l)
           \/ \E l \in Links : Book!LinkExpires(l)
  BY <1>5, <1>9 DEF BookTheory!Next
<1> QED
  BY <1>6, <1>7, <1>8, <1>9 DEF Book!Next

LEMMA BookKept == BookOK /\ [Book!Next]_bookVars => BookOK'
<1> SUFFICES ASSUME BookOK, [Book!Next]_bookVars PROVE BookOK'
  OBVIOUS
<1>1. BookTheory!TypeOK /\ BookTheory!CallableIsAgreed
  BY DEF BookOK, Book!TypeOK, BookTheory!TypeOK, Book!CallableIsAgreed,
         BookTheory!CallableIsAgreed, Book!CanCall, BookTheory!CanCall,
         Book!Statuses, BookTheory!Statuses, Book!PCs, BookTheory!PCs
<1>2. BookTheory!Next \/ UNCHANGED BookTheory!vars
  BY BookNext DEF bookVars, BookTheory!vars
<1>3. BookTheory!TypeOK' /\ BookTheory!CallableIsAgreed'
  BY <1>1, <1>2, BookTheory!TypeStep, BookTheory!AgreedStep, NoUserAssumption,
     MaxOverdraftAssumption
<1> QED
  BY <1>3 DEF BookOK, Book!TypeOK, BookTheory!TypeOK, Book!CallableIsAgreed,
              BookTheory!CallableIsAgreed, Book!CanCall, BookTheory!CanCall,
              Book!Statuses, BookTheory!Statuses, Book!PCs, BookTheory!PCs

(* Steps that leave all rows but those between two users as they are. *)
LEMMA OneFriendship ==
  ASSUME NEW u \in Users, NEW v \in Users,
         \A p \in (Users \X Users) \ {<<u, v>>, <<v, u>>} : row'[p] = row[p]
  PROVE  \A p \in Pairs \ {{u, v}} : p \in Friends' <=> p \in Friends
<1> SUFFICES ASSUME NEW x \in Users, NEW y \in Users, {x, y} # {u, v}
             PROVE  Book!CanCall(x, y)' <=> Book!CanCall(x, y)
  BY DEF Friends, Pairs
<1>1. <<x, y>> \notin {<<u, v>>, <<v, u>>} /\ <<y, x>> \notin {<<u, v>>, <<v, u>>}
  OBVIOUS
<1>2. row'[<<x, y>>] = row[<<x, y>>] /\ row'[<<y, x>>] = row[<<y, x>>]
  BY <1>1
<1> QED
  BY <1>2 DEF Book!CanCall

(* Every statement of the book concerns two users, at most. *)
LEMMA BookTouches ==
  ASSUME BookOK, [Book!Next]_bookVars
  PROVE  \/ Friends' = Friends
         \/ \E u, v \in Users :
              \A p \in Pairs \ {{u, v}} : p \in Friends' <=> p \in Friends
<1>1. row \in [Users \X Users -> Book!Statuses] /\ user \in [Requests -> Users] /\ to \in [Requests -> Users]
  BY DEF BookOK, Book!TypeOK
<1>2. CASE row' = row
  <2>1. Friends' = Friends
    BY <1>2 DEF Friends, Book!CanCall
  <2> QED
    BY <2>1
<1>3. ASSUME NEW r \in Requests, Book!InsertRequest(r) \/ Book!InsertBlock(r) \/ Book!AskOwner(r)
      PROVE  \E u, v \in Users :
                \A p \in Pairs \ {{u, v}} : p \in Friends' <=> p \in Friends
  <2>1. user[r] \in Users /\ to[r] \in Users
    BY <1>1
  <2>2. \A p \in (Users \X Users) \ {<<user[r], to[r]>>} : row'[p] = row[p]
    BY <1>1, <1>3 DEF Book!InsertRequest, Book!InsertBlock, Book!AskOwner
  <2>3. \A p \in Pairs \ {{user[r], to[r]}} : p \in Friends' <=> p \in Friends
    BY <2>1, <2>2, OneFriendship
  <2> QED
    BY <2>1, <2>3
<1>4. ASSUME NEW r, NEW u \in Users, NEW v \in Users,
             Book!Accept(u, v) \/ Book!Decline(u, v) \/ Book!Remove(u, v) \/ Book!Block(r, u, v)
      PROVE  \E x, y \in Users :
                \A p \in Pairs \ {{x, y}} : p \in Friends' <=> p \in Friends
  <2>1. \A p \in (Users \X Users) \ {<<u, v>>, <<v, u>>} : row'[p] = row[p]
    BY <1>1, <1>4 DEF Book!Accept, Book!Decline, Book!Remove, Book!Block
  <2>2. \A p \in Pairs \ {{u, v}} : p \in Friends' <=> p \in Friends
    BY <2>1, OneFriendship
  <2> QED
    BY <2>2
<1>5. \/ row' = row
      \/ \E r \in Requests : Book!InsertRequest(r) \/ Book!InsertBlock(r) \/ Book!AskOwner(r)
      \/ \E r \in Requests, u, v \in Users :
           Book!Accept(u, v) \/ Book!Decline(u, v) \/ Book!Remove(u, v) \/ Book!Block(r, u, v)
      \/ \E u, v \in Users : Book!Accept(u, v) \/ Book!Decline(u, v) \/ Book!Remove(u, v)
  <2>1. CASE UNCHANGED bookVars
    BY <2>1 DEF bookVars
  <2>2. ASSUME NEW r \in Requests, Book!Handle(r)
        PROVE  row' = row \/ Book!InsertRequest(r) \/ Book!InsertBlock(r) \/ Book!AskOwner(r)
    BY <2>2 DEF Book!Handle, Book!Decrement, Book!Fails
  <2>3. ASSUME NEW r \in Requests, NEW u \in Users
        PROVE  /\ \A v \in Users : Book!SendRequest(r, u, v) => row' = row
               /\ \A l \in Links : Book!UseInvite(r, u, l) => row' = row
    BY DEF Book!SendRequest, Book!UseInvite
  <2>4. ASSUME NEW l \in Links
        PROVE  /\ \A u \in Users : Book!GenerateLink(u, l) => row' = row
               /\ Book!LinkExpires(l) => row' = row
    BY DEF Book!pairVars, BookTheory!pairVars, Book!GenerateLink, Book!LinkExpires
  <2>5. CASE Book!Next
    BY <2>2, <2>3, <2>4, <2>5 DEF Book!Next
  <2> QED
    BY <2>1, <2>5
<1> QED
  BY <1>2, <1>3, <1>4, <1>5

LEMMA OneDiffers ==
  ASSUME NEW S, NEW A, NEW B, NEW x \in S, A \subseteq S, B \subseteq S, A # B,
         \A p \in S \ {x} : p \in B <=> p \in A
  PROVE  \/ x \in A /\ B = A \ {x}
         \/ x \notin A /\ B = A \cup {x}
<1>1. PICK y : ~(y \in A <=> y \in B)
  OBVIOUS
<1>2. y = x
  BY <1>1
<1> QED
  BY <1>1, <1>2

(* A step of the book is a step of the contacts, as CallSignaling has them.  *)
LEMMA BookIsContacts ==
  ASSUME BookOK, contacts = Friends, [Book!Next]_bookVars, ContactsBecome(Friends')
  PROVE  [Next]_vars
<1>1. contacts \subseteq Pairs /\ Friends' \subseteq Pairs
  BY DEF Friends, Pairs
<1>2. CASE Friends' = contacts
  BY <1>2 DEF ContactsBecome, vars, frameVars, connVars, callVars, markVars
<1>3. CASE Friends' # contacts
  <2>1. PICK u \in Users, v \in Users :
           \A p \in Pairs \ {{u, v}} : p \in Friends' <=> p \in Friends
    BY <1>3, BookTouches
  <2>2. {u, v} \in Pairs
    BY <1>1, <1>3, <2>1
  <2>3. \/ {u, v} \in contacts /\ Friends' = contacts \ {{u, v}}
        \/ {u, v} \notin contacts /\ Friends' = contacts \cup {{u, v}}
    <3> DEFINE A == contacts
               B == Friends'
               x == {u, v}
    <3>1. x \in Pairs /\ A \subseteq Pairs /\ B \subseteq Pairs /\ A # B
      BY <1>1, <1>3, <2>2
    <3>2. \A p \in Pairs \ {x} : p \in B <=> p \in A
      BY <2>1
    <3> HIDE DEF A, B, x
    <3>3. (x \in A /\ B = A \ {x}) \/ (x \notin A /\ B = A \cup {x})
      BY <3>1, <3>2, OneDiffers
    <3> QED
      BY <3>3 DEF A, B, x
  <2>4. ContactEnds({u, v}) \/ ContactBegins({u, v})
    BY <2>3 DEF ContactEnds, ContactBegins
  <2> QED
    BY <2>2, <2>4 DEF Next
<1> QED
  BY <1>2, <1>3

BothInv == BookOK /\ contacts = Friends

LEMMA BothStart == BothInit => Init /\ BothInv
BY BookInit DEF BothInit, BothInv

LEMMA BothStep == BothInv /\ [BothNext]_allVars => [Next]_vars /\ BothInv'
<1> SUFFICES ASSUME BothInv, [BothNext]_allVars PROVE [Next]_vars /\ BothInv'
  OBVIOUS
<1>1. CASE BookStep
  <2>1. [Next]_vars
    BY <1>1, BookIsContacts DEF BothInv, BookStep
  <2>2. contacts' = Friends'
    BY <1>1 DEF BookStep, ContactsBecome
  <2> QED
    BY <1>1, <2>1, <2>2, BookKept DEF BothInv, BookStep
<1>2. CASE CallStep \/ UNCHANGED allVars
  <2>1. UNCHANGED bookVars /\ [Next]_vars /\ UNCHANGED contacts
    BY <1>2 DEF CallStep, allVars, Next, vars, ServerStep, Handle, Frame,
      Connect, Reauth, Leave, Cleanup, CleanupFails, CallFrame, Rejected, NotConnected,
      Allowed, IsBusy, NotBusy, MarkFrom, MarkTo, Ring, RingRemote, EndLocal,
      EndRemote, PublishRing, PublishEnd, ClearFrom, ClearTo, Fails, BusyExpires, Crash
  <2>2. Friends' = Friends
    BY <2>1 DEF bookVars, Friends, Book!CanCall
  <2> QED
    BY <2>1, <2>2, BookKept DEF BothInv
<1> QED
  BY <1>1, <1>2 DEF BothNext

(* The server with its contact routes is what CallSignaling says of calls:   *)
(* everything proved above, for contacts that begin and end one at a time,   *)
(* holds of it.                                                              *)
THEOREM CallsWithContacts == BothSpec => Spec
  BY BothStart, BothStep, PTL DEF BothSpec, Spec

(* A user is rung by who has agreed on being a contact, unless one of them   *)
(* ended that while the handler of this call was past the check.             *)
THEOREM AgreedRing == BothSpec => RungByAgreement
<1>1. ASSUME Inv, BothInv, NEW s \in Sessions, Ring(s) \/ PublishRing(s)
      PROVE  Pair(s) \in agreed \/ s \in revoked
  <2>1. Pair(s) \in Friends \/ s \in revoked
    BY <1>1, RingSteps DEF BothInv
  <2>2. Friends \subseteq agreed
    BY <1>1 DEF BothInv, BookOK, Friends, Book!CallableIsAgreed
  <2> QED
    BY <2>1, <2>2
<1>2. Inv /\ BothInv => [\A s \in Sessions : Ring(s) \/ PublishRing(s) =>
                            Pair(s) \in agreed \/ s \in revoked]_allVars
  BY <1>1
<1>3. BothSpec => []BothInv
  BY BothStart, BothStep, PTL DEF BothSpec
<1> QED
  BY <1>2, <1>3, CallsWithContacts, Invariance, PTL DEF RungByAgreement
=============================================================================
