---------------------------- MODULE ContactCalls -----------------------------
(* CallSignaling and ContactBook together, as one server runs them on one    *)
(* database: the call handler asks can_call (server.rs:171, contacts.rs:571) *)
(* while the statements of the contact routes interleave with its awaits.    *)
(* What CallSignaling calls the contacts are the accepted rows of the book.  *)
EXTENDS CallSignaling

CONSTANTS Requests, Links, NoUser, MaxOverdraft   \* of ContactBook

ASSUME NoUserAssumption       == NoUser \notin Users
ASSUME MaxOverdraftAssumption == MaxOverdraft \in Nat

VARIABLES row, owner, uses, expired, step, user, to, link, agreed, firm, barred, shared

bookVars == <<row, owner, uses, expired, step, user, to, link, agreed, firm, barred, shared>>
allVars  == <<vars, bookVars>>

Book == INSTANCE ContactBook WITH pc <- step

Friends == {p \in Pairs : \E u, v \in Users : p = {u, v} /\ Book!CanCall(u, v)}

BothInit == Init /\ Book!Init /\ contacts = Friends

BookStep == Book!Next /\ ContactsBecome(Friends')

CallStep == ServerStep /\ UNCHANGED bookVars

BothNext == BookStep \/ CallStep

BothSpec == BothInit /\ [][BothNext]_allVars

-----------------------------------------------------------------------------
(* A user is rung only by one with whom it has agreed on being contacts, and *)
(* whom neither has removed or blocked since - on whatever route, by however *)
(* many stale requests and invites -, unless that happened while the handler *)
(* of this very call was past the contact check (server.rs:171-200,          *)
(* contacts.rs:342-400).                                                     *)
RungByAgreement ==
  [][\A s \in Sessions : Ring(s) \/ PublishRing(s) =>
        Pair(s) \in agreed \/ s \in revoked]_allVars
=============================================================================
