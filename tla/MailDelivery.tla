---------------------------- MODULE MailDelivery ----------------------------
(* What the signaling hub promises about a message, whatever the routing:    *)
(* a posted message is put into the outbox of clients of its recipient       *)
(* only, at most once per server instance, and two messages that one session *)
(* posts towards another instance are never swapped. Nothing promises that   *)
(* a message arrives: the recipient may be away, or Redis may fail.          *)
EXTENDS Naturals, Sequences

CONSTANTS Sockets,   \* WebSocket sessions, past and future
          Users,
          Presents,  \* [Sockets -> SUBSET Users]: whose tokens a client has
          Host       \* [Sockets -> Instances]: the process that serves it

VARIABLES posted,    \* sequence of [to, via]; a message is its position
          outbox     \* [Sockets -> Seq(Nat)]: what each session was sent

mailVars == <<posted, outbox>>

Holds(s, m) == \E k \in DOMAIN outbox[s] : outbox[s][k] = m

MailInit == /\ posted = <<>>
            /\ outbox = [s \in Sockets |-> <<>>]

(* A message is posted and not delivered yet. *)
Post(r, u) == /\ posted' = Append(posted, [to |-> u, via |-> r])
              /\ UNCHANGED outbox

(* Sender and recipient are on one instance: posting is delivering. *)
PostLocal(r, s, u) ==
  /\ Host[r] = Host[s] /\ u \in Presents[s]
  /\ posted' = Append(posted, [to |-> u, via |-> r])
  /\ outbox' = [outbox EXCEPT ![s] = Append(@, Len(posted) + 1)]

(* A posted message reaches a client of its recipient. *)
Deliver(s, m) ==
  /\ m \in DOMAIN posted
  /\ posted[m].to \in Presents[s]
  /\ \A t \in Sockets : Host[t] = Host[s] => ~Holds(t, m)
  /\ Host[posted[m].via] # Host[s] =>
       \A k \in DOMAIN outbox[s] :
          posted[outbox[s][k]].via = posted[m].via => outbox[s][k] < m
  /\ outbox' = [outbox EXCEPT ![s] = Append(@, m)]
  /\ UNCHANGED posted

MailNext == \/ \E r \in Sockets, u \in Users : Post(r, u)
            \/ \E r, s \in Sockets, u \in Users : PostLocal(r, s, u)
            \/ \E s \in Sockets : \E m \in DOMAIN posted : Deliver(s, m)

MailSpec == MailInit /\ [][MailNext]_mailVars
=============================================================================
