# Verification of VoiceCall

TLA+ modules, TLC configurations and TLAPS proofs about the calling service in
this repository: a Rust server (`server-rust/`), an older Node server with the
same protocol (`server/`), a Flutter client (`lib/`) and a web guest page
(`webclient/`). Source names and line numbers below refer to the repository;
every definition that models code is listed with its lines in `PROJECT.json`
under `map`.

## 1. Inventory

| Component | State | Operations | Interacts with |
|---|---|---|---|
| Rust signaling hub (`signaling/hub.rs`, `server.rs:32-153`) | per process: user -> outbox of one session; a Redis subscription | register, deregister, is_connected, send_to, subscriber task | sessions (shared map), other processes (Redis channel) |
| Rust call signaling (`server.rs:155-264`) | Redis `busy:{user}`, contact rows | call, answer, ice, decline, hangup, cleanup | hub, Redis, PostgreSQL |
| Rust room signaling (`server.rs:267-440`) | Redis `room_host`, `room_joiner`, room rows | create-room, room-host, join-room, room-answer, room-ice | hub, Redis |
| Rust SFU relay (`signaling/sfu_relay.rs`) | a map of rooms with their participants behind one async mutex | call-sfu, sfu-answer, sfu-ice, sfu-leave | hub; written, but not called by the server yet |
| Refresh tokens (`routes/auth.rs`, `db/redis_store.rs:32-95`, `auth/jwt.rs`) | Redis `rt:{user}:{jti}`, `rt_list:{user}` | login, refresh, logout, logout_all | Redis, clock |
| Contacts and invites (`routes/contacts.rs`) | `contacts`, `invite_links` rows | request, respond, block, delete, use invite | PostgreSQL |
| Node signaling (`server/src/signaling/signalingServer.js`) | `onlineClients`, `activeCalls`, `activeRooms`, `currentCallId` per socket | auth, call, answer, decline, hangup, rooms, ping sweep, close | MongoDB |
| Node REST (`server/src/routes`, `models`) | user documents with their refresh tokens | register, login, refresh, logout, rooms | MongoDB |
| Flutter signaling client (`signaling_service.dart`) | state, reconnect counter and timers | connect, authenticate, send, reconnect | servers, call services |
| Flutter calls (`webrtc_service.dart`, `video_call_service.dart`) | call state, peer connection, remote user | place, accept, decline, hang up, peer events | signaling client |
| Flutter ICE and SDP helpers (`rfc_webrtc.dart`) | candidate queue, restart counters | add, flush, restart | peer connection |
| Flutter API client (`api_service.dart`) | tokens, refreshing flag, queue of requests | request, refresh, retry | REST |
| Flutter transports (`livekit_service.dart`, `quic_noise_service.dart`) | chosen transport | select, fall back | SFU, QUIC relay |

What is hard in this system:

* **Interleaving.** The Rust server has one task per session and per request;
  every `.await` is a point where others run. The Redis and SQL commands of one
  handler are not atomic together, and no lock spans them.
* **Several processes.** Any session may be on any process; what is local
  (the connection map) and what is shared (Redis, PostgreSQL) differ.
* **Time.** Redis keys expire: refresh tokens, their list, busy marks.
* **Failure.** A handler that fails half-way leaves what it has done. A process
  that dies leaves its Redis keys.
* **Replacement.** A user who connects again replaces its own session, which
  goes on running. A session may also authenticate again, as another user.
* **Callbacks.** The Node server and the app run one callback at a time, and
  read their shared state again after each `await`: by then the call, the
  socket or the session they act on may be another one.

`PROJECT.json` lists the hazards of these kinds at their lines, with the
properties that cover them, or why none does.

What makes each component correct: the hub must deliver a message at most once
to the right user, in order, and must clear the entries of dead sessions; call
signaling must keep the busy marks in step with the calls and admit contacts
only; tokens that were revoked must stay dead and revoke-all must reach every
session; a room must send what its host says to a guest to that guest; the SFU
must keep its limits, and its clients must know who is there; a contact must
have been accepted and not ended since, and an invite must serve once; an app
must answer only what its user accepted, and must not be left calling, connecting,
with an open microphone or busy after a call is over; the clients must
reconnect once per loss and retry once per refresh.

## 2. Modules

| Module | What it is |
|---|---|
| `SignalingHub` | the hub and the session life cycle that drives it |
| `MailDelivery` | the abstract promise of the hub about messages |
| `SignalingHubProofs` | theorems about both |
| `CallSignaling` | direct calls, busy marks, contact check |
| `ContactCalls` | `CallSignaling` and `ContactBook` composed |
| `CallSignalingProofs` | theorems about both |
| `TokenRotation`, `TokenRotationProofs` | refresh tokens in Redis |
| `ContactBook`, `ContactBookProofs` | contact rows, blocks and invite links in PostgreSQL |
| `RoomSignaling`, `RoomSignalingProofs` | calls by a room link, the key `room_joiner` |
| `SfuRelay`, `SfuRelayProofs` | the rooms of the SFU relay |
| `SfuRooms` | the abstract promise of the relay: a join or leave with all its notices is one step |
| `CallClient`, `CallClientProofs` | direct calls in the Flutter app, at both ends |
| `NodeSignaling`, `NodeSignalingProofs` | sessions and direct calls of the Node server |
| `MC...` | instances for TLC: model values, owners, hosts, symmetry |

Operators whose comment says "Mutant of" are variants of the definition that
follows them, with a plausible mistake. They are no part of any specification;
`PROJECT.json` names, for each property, the one that breaks it.

### SignalingHub

One session is one element of `Sockets`, on a fixed process (`Host`). `Presents[s]`
is whose tokens its client has - two users' after a logout and a login on one device - and
`user[s]` who it is at the moment: `handle_socket` takes an `auth` frame at any
time, overwrites `user_id` and registers again. `pc` is where its task is; each label is an await or the gap
between two operations on the shared map. `conns[i]` is the DashMap of process
`i`; `outbox[s]` is what was put into the channel of session `s`; `inbox[i]` is
what Redis has for the subscriber of `i` and it has not handled.

| Code | Actions |
|---|---|
| `handle_socket`, up to auth | `Open`, `Auth`, `CheckFails`, `CheckPasses` |
| `register` (get, then insert: two steps) | `CheckPasses`, `Register` |
| leaving the read loop, `deregister` | `LeaveLoop`, `Deregister` |
| `send_to` | `SendLocal`, or `SendRemote` then `Publish` or `PublishFails` |
| `spawn_redis_subscriber` | `Subscriber`, `SubscriptionEnds` |
| a process dies and restarts | `Crash` |

Messages are numbered in the order in which they are sent and carry only their
recipient and the session that sent them. Replies a handler sends to its own
user go through `send_to` as well and are messages like any other.

`MailDelivery` has no processes, maps or channels: a message is posted and may
be delivered to a session of its recipient, at most once per process, in order
of posting among the messages of one remote sender. It does not promise arrival.

`crossed` and `robbed` are history that no guard reads: the sessions that
registered while another one of the user did on their process, and those whose entry
another one's cleanup removed.

Left out: the contents of messages, the reply frames that bypass the hub
(auth-success, error), the writing task (a message counts once it is accepted
by the channel), and the presence key.

### CallSignaling

A frame is handled in the steps between the awaits of its handler: contact
check, the local look-up and the busy check, the two busy marks, the name
look-up, the send (at once if the callee has a local session, or after a
PUBLISH). `decline` and `hangup` are one frame kind "end": they do the same
to the marks. The hub is reduced to its map; that the message arrives is the
business of `SignalingHub`. `who[s]` is the user of a session; `Reauth` is another `auth` frame,
in which the two steps of `register`, which interleave in `SignalingHub`, are one. A call that a
session placed before that is nobody's to clean up (`Estranged`).

`rung` is the set of calls whose callee was sent `call-incoming` and neither
party has since declined, hung up or left; `orphaned`, `unmarked` and `revoked`
remember who was not able to clean up, which calls lost a mark and which frames
lost their permission while they were handled. They are history: no guard reads
them.

`Faulty` names the processes that may crash and on which a command may fail;
a run that leaves it empty speaks of a healthy server. `ContactEnds` and
`ContactBegins` are what the contact routes do to a pair, reduced to the effect on the check.
`Lapsing` names the users whose busy key may reach its TTL. A run that leaves
it empty speaks of the five minutes before that.

`ContactCalls` removes that reduction. It runs the server's steps beside every
statement of `ContactBook`, with `contacts` the pairs for which `CanCall` holds of
the rows (`Friends`), and `CallsWithContacts` proves that the result is an instance of
`CallSignaling`: a statement changes the contacts by at most one pair.

Left out: `answer` and `ice`, which only forward; the ids, which are
(from, to, millisecond) in the code and distinct here - two calls of one pair
in one millisecond would share an id.

### TokenRotation

One user; users have disjoint keys. A request is a task that awaits one Redis
command at a time: `Exists`, `Rotate`, `Setex`, `Lpush`, `Ltrim`, `Expire`,
`DelLogout`, `Lrange`, and the pipeline of revoke-all (`DelKey` per token, then
`DelList`), which is not a transaction. `Fails` may end a request anywhere.

A token is named by the order of its SETEX. All keys live equally long, so
they expire in that order (`KeyExpires`); `aged` counts them. `raced` is history: the tokens that
two refreshes had found valid at once. The JWT of a token
expires with its key but is accepted for the decoder's leeway after that
(`LeewayEnds`). The list expires after every token that was stored before the
last EXPIRE on it (`ListExpires`); `covers` records which those are.

Left out: access tokens, password checks, `update_last_seen`, and the SQL
queries around them, which keep no state that refresh tokens depend on.

### ContactBook

`row` is the table `contacts`, with "none" where there is no row; the two
directions of a pair are two rows, because the table is unique on (requester,
target) only. `owner`, `uses` and `expired` are the table `invite_links`. A
handler of one statement is one action; `send_request`, `block_user` and
`use_invite_link` are tasks that issue one statement after another.

| Code | Actions |
|---|---|
| `send_request` | `SendRequest` (the checks), `InsertRequest` |
| `accept_request`, `decline_request`, `remove_contact` | `Accept`, `Decline`, `Remove` |
| `block_user` | `Block` (the DELETE), `InsertBlock` |
| `generate_invite_link`, the 24 hours | `GenerateLink`, `LinkExpires` |
| `use_invite_link` | `UseInvite` (SELECT and check), `Decrement`, `AskOwner` |
| an error or a lost client between two statements | `Fails` |

`agreed`, `firm`, `barred` and `shared` are history that no guard reads: which pairs have
agreed and not parted since, which of them did so while no request was about to overwrite
the row, which pairs a block has parted undisturbed, and which links two
requests were redeeming at once.

Left out: the searches and lists, which only read; the notices to the other
user, which are messages of `SignalingHub`; the existence of users (all of
`Users` exist).

### RoomSignaling

One room, because rooms share nothing. Each user has one session, whose task
awaits between the steps; `joiner` is the Redis key. What the server sends
arrives in no fixed order between senders (`SignalingHub`), so `offers` is a set.
One clock (`Tick`) runs for the database and for Redis. `roomLeft` is what is left of the room's
24 hours since it was created, `keyLeft` what is left of the key's 86400 seconds since it
was last stored: `RoomLife` and `KeyLife`, `Day` ticks each.

| Code | Actions |
|---|---|
| `create-room` | `CreateRoom` |
| `expires_at`, the TTL of the key | `Tick` |
| `join-room`: find the room, the name, SETEX, the notice | `JoinRoom`, `Named`, `StoreJoiner` or `StoreFails`, `NotifyHost`; `JoinFails` |
| the host's client answers (`webrtc_service.dart:248`) | `TakeOffer` |
| `room-answer` with a `joinerId` | `RoomAnswer` |
| `room-answer` without, and `room-ice` of the host | `RoomAnswerOrIce`, `FetchJoiner`, `FetchNothing` or `FetchFails`, `Forward` |

The server takes these frames from anybody and about anybody. The client of the host sends
them about guests whose offer it took up; the other clients in `Answering` send
them at will, and the properties of the host's frames hold beside them.

`later` and `unstored` are history: who stored the key after whom, and whose
SETEX failed unnoticed. Left out: `room-host` (its key is never read), and the
candidates of a guest, which go to the creator whatever the keys say.

### SfuRelay

The read loops of one process, which queue for the mutex of the room store.
`lock` is the session whose task keeps it over an await, `todo` whom that task has
yet to notify. The hub is reduced to the session it has for a user. A session
that is off may come back as the next connection of its client. A session has one
user here (`Owner`): what a second `auth` as another user does to the hub's entries is in
`SignalingHub`, and to the relay the session would be a client of that user from then on.

| Code | Actions |
|---|---|
| `register`, the cleanup of `handle_socket` | `Register`, `Disconnect` |
| the frames, up to the mutex | `CallSfu`, `SfuAnswer`, `SfuLeave` |
| `handle_sfu_join` | `Refuse`, or `Join`, `Announce` per participant, `Announced`; `Reply` |
| `handle_sfu_answer` | `Answer` |
| `handle_sfu_leave` | `LeaveNothing`, or `Leave`, `Part` per participant, `Parted` |

`seat` and `peers` are history: which session joined for a participant and has
been registered since, and whom its client knows from the notices.

`SfuRooms` has no mutex and no rounds. A room is a set of members with sessions; a join
introduces the newcomer to the members with a session at once, a leave removes it
from all. `SfuRelay` implements it with a round counted as sent from the moment
the mutex is taken: who is still to be told (`Owed`) is taken as told.

Left out:
`sfu-ice`, which changes nothing, and `SfuRegistry`, a second store that no
handler uses. The file says of itself that nothing calls it yet
(`sfu_relay.rs:37`); the module describes what would run if it were wired in as
its comments say.

### CallClient

An app is `WebRTCService`, with the buttons of the screens that use it, and
`VideoCallService`, which registers for the same messages although no screen
places, accepts or ends a call with it. `callUser` and `acceptCall` are
sequences of awaits (`place[c]`, `take[c]`); every other callback runs to its
end, except for the await of `_onCallAnswered` (`applying`). `link` has the peer connections
an app ever made, `cur` the one `_peerConnection` holds; `timers` are the ring
timers that run, `ring` the one `_ringTimer` holds. `page` is which screen is up, because
the buttons are on the screens and not on the calls: the incoming page stays when its call
ends, and the call page stays after an `acceptCall` that failed, so that its
hang-up button can be pressed while the next call rings. `Receive` takes one message
and lets both services handle it.

`form` is what the server makes of a description. The Node server forwards
the map that it was sent. The Rust server sends it encrypted, as a string, on which the casts of
both services throw: in `_onCallIncoming` after the state is `ringing` in the audio
service and before it is in the video service, in `_onCallAnswered` after the ring timer was
cancelled. Setting an answer may also fail by itself. Nothing catches these errors.

The server is an ordered channel to each app, which is what `SignalingHub`
gives for one remote sender, that may report a call unavailable or refuse it with a
frame no app listens to. `cut`, `late`, `answers`, `alone` and `failed` are history and
name the ways in which the promises below fail.

Left out: room calls; candidates, which keep no state of the app; mute, speaker and
fingerprints; the loss of the signaling connection; the system's back button, and links that open
the app on a page.

### NodeSignaling

`ready`, `user` and `current` are fields of a socket, `entry` is
`onlineClients`, `calls` `activeCalls`, with the sockets that were at the two
ends of a call when it was placed. The only await is the one of `auth`: `AuthFrame`, then
`AuthPasses` or `AuthFails`, whatever has become of the socket. A socket may
authenticate again, as any user whose token its client has (`Presents`), and several such
frames may be waiting at once (`validating`). `Closed`
is the close handler, which runs some time after the socket was terminated and
knows the last user only; `Sweep` is the heartbeat, to which any client may be dead. `Call`,
`Decline` and `Hangup` are handlers without an await.

`robbed`, `ghosts` and `stripped` are history. Left out: `answer` and `ice`, which
keep nothing; the rooms; that two calls of one pair in one
millisecond share an id.

## 3. Runs

| Run | Instance | Checks |
|---|---|---|
| `hub_replaced` | Alice has two sessions on one process, one of which may become Bob's, Bob one on another; 2 messages | `TypeOK`, `DeadEntryIsStray`, `UnreachableIsExplained`, `AtMostOnce`, `CrossInstanceOrder` |
| `hub_roaming` | Alice has a session on each process, one of which may become Bob's; both may crash or lose their subscription; 1 message, with fairness | `MailDelivered`, `PublishedArrives` |
| `call_roaming` | Alice on both processes, one session may become Bob's and Alice's again, process 1 may crash, marks expire, 2 calls | `TypeOK`, `CallerMarkHasSession`, `RungIsMarked` |
| `contact_calls` | Alice and Bob, one call; one task of the contact routes and one invite link | `RungByAgreement` |
| `token_race` | 2 concurrent requests, 3 tokens, list of 2 | `TypeOK`, `TrackedUnlessLost`, `DeletedIsDead`, `AccusedIsSpent`, `RevokeAllLeavesLost`, `DoubledIsRaced` |
| `contact_race` | two users, 3 overlapping requests, one link of either user | `TypeOK`, `CallableIsAgreed`, `FirmIsCallable`, `BarredStaysOut`, `OverdrawnIsShared` |
| `room_guests` | a host and two guests, any of whom joins, 3 joins; the host and one guest send the host's frames; a day of 2 ticks | `TypeOK`, `MisroutedIsOvertaken`, `AnsweredIsRouted` |
| `sfu_rooms` | Alice has two sessions, Bob one; a room for one, two or three; with fairness | `TypeOK`, `RoomSizes`, `PeersAgree`, `RequestsEnd`, `RoundsAreAtomic` |
| `client_calls` | two apps, a server of either kind, 2 calls in either direction, at most 2 messages ahead of a hang-up | `TypeOK`, `AnsweredIsAccepted`, `LeaksAreCut`, `StuckIsLate`, `BusyVideoIsLeft`, `CallingIsTimed` |
| `node_sessions` | Alice has two sockets, one with a token of Bob's as well, Bob one, 2 calls | `TypeOK`, `CallIsHeld`, `UnreachableIsRobbed`, `GhostsAreStray` |

Each property is explained where it is defined. `RouteInv`, `KeyInv`, `LifeInv` and `RoundInv`, which
explain why the properties of their modules hold, and `RightRecipient` and `RungByContact`, which
`MailDelivered` and `RungByAgreement` subsume, are proved and not run. What the runs show together:

* Replacement, crash and lost subscriptions lose messages but never double,
  misdirect or (between processes) reorder them. A session that has ended stays in
  a map in one case only: it had authenticated as another user, and the
  entry of the first one is left, so that what is sent to that user on this process goes
  nowhere until it connects there again. A session that reads frames but gets none of its user's messages was told
  so, or two sessions registered at once, or another one's cleanup took its entry.
* A callee is rung by a contact, or by one who was a contact when its frame was
  checked; a ringing call has both marks until somebody removes one; a
  caller's mark does not outlive its session unless the process died,
  the cleanup failed, or the session had become another user's. With the contact routes in the model, "was a contact" means
  that the two had agreed and neither had ended it.
* A revoked token stays dead. A revoke-all misses only sessions that LTRIM
  dropped or that were stored while the list was being dropped; the expiry of
  the list in particular loses none. A token is exchanged twice only if two
  refreshes are both between EXISTS and DEL.
* Whoever may call was accepted since the last removal or block by either,
  whatever requests and invites arrive late. The other way round, who was accepted may
  call until one of the two parts, unless the request that was accepted was on its way a second
  time. A block keeps the two apart unless a request or an invite fell between its
  two statements, or an invite is redeemed later. An invite that nobody else is
  redeeming is used once.
* What the host of a room sends for a guest reaches that guest or one who
  joined later, never one who was there before; as long as the room can be
  joined, it finds the key, unless the guest could not be stored.
* Between the rounds of notices of an SFU room, its registered participants know
  nobody who has left, and of any two at least one knows the other, although
  sessions come and go in the middle of a round. From outside, a round is one
  step. Every request ends, although all wait for one mutex.
* In the app, each thing that can go wrong has one cause. A call is answered
  without its user only by an `acceptCall` whose own call ended while it
  waited. A connection is leaked only if a call ended while it was being
  set up. A service claims to be on a call without a connection only then,
  or after an answer that came too late. The video service declines the next
  call only after the app ended one by itself. And somebody is left
  calling for ever only after an answer came that could not be set, because its handler
  cancels the ring timer first. (Through the Rust server no app gets that far: the callee rings without
  an offer, and the caller's timer ends the call.)
* In the Node server an open session is unreachable only if the end of another
  session of its user removed its entry, an entry of a closed socket
  was made after it closed or is of a user whom the socket was before, and a call that nobody can end was
  stripped of its socket by a hang-up or a second call.

The bounds. Every race here is between two tasks over one user's state, so two
sessions of one user, or two callers of one callee, or two requests are what a
step of one can fall between; a third adds no new kind of pair. Two messages
are what order needs (a single one suffices for `hub_roaming`, whose order
property is proved for any number), two calls what a stale mark needs. Three
tasks on two users let a block, a request and an invite overlap; in
`contact_calls` one such task beside the handler of a call, because the
races between two of them are those of `contact_race`. Three tokens and a list
of two let a list overflow once with one live token dropped. Three joins let a guest
join, another overtake it, and the first come back; a day of two ticks lets a join
fall into the first and the second half of the room's day, so that room and key run out together or apart.
Two tokens on one connection let it change its user, and in `call_roaming` change back; a socket of the
Node server sends a token again only after it was answered (`MayPresent`), and two different ones at once. A room of three for two users lets one join
again beside the other, which is what `PeersAgree` needs; a round has one recipient
there, and the theorems speak of any number. Two calls let a second one come in, or
be placed, while the functions of the first still wait. `MaxMsgs`,
`MaxCalls`, `MaxMail`, `MaxJoins`, `Day`, `Limits` (16 in the code), `MaxTokens` and `MaxOverdraft` (how far `uses_left` may go below
zero) are bounds of the models, `MaxSessions` is 10 in the
code. The theorems hold without any of these bounds being small.

Deadlock is not checked where the system may stop: a session that is gone does
not come back, and no client has to send anything. `contact_race` checks it.

### What the code does differently from its documents

Runs that expect a violation; each checks one property that states a document
or a comment, and `findings` in `PROJECT.json` quotes the line.

| Run | Property | What happens |
|---|---|---|
| `hub_unregistered` | `ConnectedIsRegistered` | a replaced session leaves and removes the entry of the session that replaced it |
| `token_twice` | `SingleUse` | two refreshes with one token both pass EXISTS |

Seen while modelling, without a run: a replaced session is told but not closed
although the comment at `hub.rs:50` says so; two sessions that register at the
same time do not see each other, so the displaced one is not told;
`docs/content/WebSocket Protocol.md:22` says that unauthenticated connections
are closed after five seconds, and no code does that; two callers who read the
callee's busy key before either sets it both ring it, although line 52 there
describes `user-busy` as "Target user in another call" (`OneMarkedRing` says when
this can happen).

The list of a user's tokens ("Track all JTIs", `redis_store.rs:47`) counts
rotated and logged-out tokens, so a live one can drop out of it although the
user has few; `TrackedUnlessLost` says exactly which. In `ContactBook`: a pair
can have two rows, by requesting each other at the same time or through
an invite; a late `INSERT ... ON CONFLICT` of `send_request` turns an accepted
row back to pending; blocking someone deletes the block that they had made;
two uses of one invite at once leave its count below zero, which
the check takes for unlimited; and one's own invite makes a request to oneself.

A second `auth` frame as another user leaves the first user's entry in `hub.rs` and, after a call, its
busy mark, because the cleanup knows the last user only (`DeadEntryIsStray`, `CallerMarkHasSession`).

Also: a callee connected to another process is reported offline
(`server.rs:176`), although `send_to` would reach it. A token presented within
the leeway after its expiry is taken for a reused one and ends all sessions
(`docs/content/REST API.md:74` speaks of used tokens only); `AccusedIsSpent`
says exactly who is accused. A blocked user can ask again through an invite
link, although `contacts.rs:539` says that the logic is the one of
`send_request`.

Rooms: `room-hangup`, which the app sends, has no arm in the Rust server, so the other
end is not told; `room-ice` without a `role` counts as the host's. In the SFU relay a participant
who rejoins a room that is full with itself in it is refused, and one whose
connection is lost stays for ever.

The app: a call placed is sent even if the user hung up during the awaits
before; `acceptCall` answers whatever offer is pending after its awaits;
`_onCallAnswered` cancels the ring timer, casts the answer and awaits `setRemoteDescription` without
a handler for a failure of either, which leaves the call `calling` for good (`CallingIsTimed`), and afterwards
sets `connecting` whatever has happened meanwhile; the video service, which
rang with the audio service, stays ringing when the app ends the call itself
and declines the next one as busy, which ends that call at the caller. The services expect the
session descriptions of the Node server; no code of the app decrypts what the Rust server forwards.

The Node server: `onlineClients.delete(ws.userId)` does not look which socket the entry
names (`UnreachableIsRobbed`); a token that is found good after the socket closed leaves
an entry of a closed socket, and so does one that is presented after another user's (`GhostsAreStray`); `hangup` clears the
`currentCallId` of whomever it names, and a record that loses both its sockets so
makes its users busy for good (`CallIsHeld`); a room that a guest opened first has no
`createdAt` and never expires.

## 4. Fairness

`hub_roaming` assumes weak fairness of each session's task past
an await, and of the subscriber task: the runtime polls every task that can
run, and a Redis or SQL command ends with an answer or an error, so the
fair choice includes the failing outcome. Nothing is assumed
about clients, crashes or failures. `sfu_rooms` assumes the same of a task
past an await, and strong fairness of a task that waits for the mutex: tokio's
mutex serves its waiters in the order in which they came, so it cannot be taken
past one of them for ever. The other runs check safety and assume no fairness.

## 5. Proofs

Checked by `tlapm` (SMT, Zenon, PTL), for all values of the constants that
satisfy the assumptions named in the modules: tokens and hosts are functions
from sessions to sets of users and to processes, the "no session" value is no session, the bounds are
natural numbers.

`SignalingHubProofs`. `Inv` has three parts. `TypeInv` is the type invariant
and `KnownIds`. `LiveInv` is `DeadEntryIsStray` and that a session only ever is a user
whose token its client has.
`DeliveryInv` is the properties of delivered messages and the three stages of
their way: what is being published is newest of its sender (`CurIsNewest`), each inbox
is in order per sender (`InboxInOrder`), and an inbox holds nothing delivered or older
than what was delivered (`InboxIsNew`). `AtMostOnce` and `CrossInstanceOrder` are not inductive
without the stages: the subscriber's step relies on the inbox, the publishing step on
the message in hand. `HubDeliversMail` shows that `SignalingHub` implements
`MailDelivery`: initial states map to initial states, and under `Inv` a send is a post
(delivered at once if local), a subscriber's step is a delivery or nothing.

`UnreachableIsExplained` needs `ReachInv`. `register` looks up the old entry and
tells its session one step before it overwrites whatever entry is there by
then. `OverwriteIsExplained` says who may be there while somebody is between the two
steps: a session that was told, or one that registered meanwhile. It is kept by
`Register` because any two sessions between the two steps have both crossed
(`RegistrationsCross`), and by `Deregister` because whoever takes an entry along is remembered in `robbed`.
Both speak of the user that a session is at the moment, so they survive a change of user.

`CallSignalingProofs`. `Inv` is `TypeOK`, `CallerMarkHasSession` and `FlowInv`:
a task past `NotBusy` handles a call of its own between its user and its peer (`CallsAreTrue`,
`FrameIsCall`), the marks it has set are there unless someone removed one (`MarksAreMade`), and
its pair is still a contact unless it is in `revoked` (`StillAllowed`).
`Reauth` keeps all of this because a session that reads frames handles none.
`RungIsMarked` follows at the ring from `MarksAreMade`, `RungByContact` from `StillAllowed`.
`OneMarkedRing` draws the conclusion: two ringing calls share a user only if a mark of
one of them was overwritten or removed.

`CallsWithContacts` is the composition: `BothSpec => Spec`. The initial
contacts are the pairs that may call (`Friends`); a step of the server is one of
`CallSignaling`; and a statement of the contact routes touches the rows between two
users only (`BookTouches`), so the pairs that may call stay or change by one, which
is `ContactBegins`, `ContactEnds` or a stutter. Every theorem about `CallSignaling` so holds of the
server with its contact routes. `AgreedRing` adds `CallersAreAgreed` of
`ContactBookProofs`, through an instance of it: contacts are pairs that have
agreed, so who rings has agreed, or lost the permission while the frame was handled.

`TokenRotationProofs`. `Inv` adds to the properties that a presented token was
given to a client, that a new token is fresh until it is listed, and that once
pushed it is tracked (`PushedIsTracked`), that the TTL of a list
covers what is in it and not being stored (`ListCovers`), and that aged tokens are dead
(`AgedIsDead`). `AccusedIsSpent` rests on `Spent`: what was
stored is alive, was deleted by a request, or has expired. `RevokeAllRevokes` is the action property: at the step
that deletes the list, what was seen is dead, what was not seen is `overtaken`.
`DoublesAreRaced` is an induction of its own (`ExchangeInv`): an exchanged token was deleted, by a
request that still holds it or is through, and two requests that hold one token
between EXISTS and SETEX have both found it valid, which makes it `raced`
(`HoldersAreAlone`). With `DeletedIsDead` it follows that an exchanged token is dead
(`ExchangedTokensAreDead`).

`RoomSignalingProofs`. The stored key is newest (`KeyInv`): whoever
the host may have heard of has stored the key or failed to, and nobody who stored it did
so after the user whom it names. `MisroutedIsOvertaken` follows at the fetch.
`LifeInv` is a separate induction on the clock: nobody joins before there is a room, so a stored key
has at least as long to live as the room, and both lose a tick at a time. With `KeyInv` it gives
`AnsweredIsRouted`. Only `KeyLife >= RoomLife` is used of the two lives; the mutant `ShortLife` breaks it.

`SfuRelayProofs`. `PeersAgree` speaks of the moments between rounds and is not
inductive; `RoundInv` is what holds during one. Whoever keeps the mutex
has put its user in or out already (`HolderInv`), a seat is a registered participant
(`SeatInv`), a participant who knows one who has left is still to be told (`PeersInv`),
and of two who do not know each other one is joining and the other still to be
told (`MeetInv`). When nobody keeps the mutex nobody is still to be told.

`RelayIsAtomic` maps what a client knows to what it knows once the round that is under
way is over. Taking the mutex is then the whole join or leave, a notice
changes nothing, because it moves its recipient from `Owed` to `peers`, and a
session that is replaced or lost is a `Detach`.

`CallClientProofs`. `Inv` is `TypeOK`; that a call has two parties and its offer is in
its callee's mail only (`PartyInv`, `MailInv`); that a function that
waits and was not cut holds the service, so there is at most one (`TaskInv`);
that no caller is remembered without an incoming call (`PendInv`); and, per user,
strengthened forms of the properties (`UserInv`). A step changes one user and leaves the others alone
(`Same`), and the six ways in which a call ends are one lemma (`Over`).

`NodeSignalingProofs`. `TypeOK` relates entries and calls to their owners. Given
it, `UnreachableIsRobbed` and `GhostsAreStray` are inductive, and `CallIsHeld` is
together with `GhostsAreStray`, because a callee's entry may name a closed socket.

`ContactBookProofs`. `Inv` is `TypeOK`, `CallableIsAgreed`, which is inductive
given the types because every statement that ends a contact takes both
directions, and `ClaimInv`: a link that was never shared has been used at most
once, and its one claimant, if any, has its use before it. `OverdrawnIsShared`
follows from `ClaimInv`. `FirmIsCallable` and `BarredStaysOut` are not inductive, because a request
past its check writes without looking. `FirmInv` and `BarInv` say which row the pair has and that no
request is waiting to write it; a pair with a row gets no new one waiting (`WaitingKept`), and
of the statements only few change a row that is there (`RowKept`).

Only model-checked: the two liveness properties, `PublishedArrives`
and `RequestsEnd` (fairness is out of the prover's reach here). Every invariant and every action property that a run
checks is stated by a theorem, except the two that a run refutes.

## 6. Not modelled, and what is next

* The rooms of the Node server (`activeRooms`): the same protocol as
  `RoomSignaling` with the sockets themselves in memory. They would come next, in
  `NodeSignaling`, with its sockets.
* Room calls in the app (`hostRoomCall`, `joinRoomCall`, `_onRoomJoined`): the
  same awaits as direct calls, without a guard on the state. They would extend `CallClient`.
* The connection of the signaling client and its back-off, and the retry of the API client
  after a refresh: small, and the second depends on what dio
  queues, which is not in this repository.
* The composition of `CallClient` with `CallSignaling`: whether the two ends and the busy marks
  agree. Both modules state what they rely on of the other (order, the
  refusals); a product of the two is beyond TLC at two calls.
* The refresh tokens of the Node routes: a document that is read, changed and saved.
* Cryptography, SDP text, screens, metrics, configuration, and the
  transports no screen uses. They have no state whose interleaving matters, or
  are data conversions that unit tests reach well.
