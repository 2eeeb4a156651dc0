# Verification of thing-rtc

TLA+ models of thing-rtc, the TLC configurations that check them on small
instances, and proofs checked by TLAPS. File names without a directory are in
this directory; `src/...` is the repository.

Contents: [the system](#1-the-system), [modules](#2-modules-and-the-code),
[runs](#3-runs), [what the runs found](#4-where-code-and-documentation-disagree),
[proofs](#5-proofs), [limits](#6-limits), [plan](#7-plan).

To repeat the checks:

    tlc -workers 2 -config SignallingSafety.cfg MCSignallingServer.tla
    tlapm SignallingServerProofs.tla

PROJECT.json lists the runs, the definitions with the source lines each one
models, the hazards with the properties that cover them, and for every checked
property a mutant of the code that breaks it.

## 1. The system

thing-rtc connects two devices over WebRTC. They are first *paired*, once, by a
short code that a user carries from one to the other; afterwards they find each
other through a *signalling server* whenever they want to connect, exchange
offer, answer and ICE candidates through it, and leave it when the peer
connection stands.

| Component | Source | State | Operations |
|---|---|---|---|
| Signalling server | `signalling-server/signalling-server.ts` | per socket: `authed`, timers, listeners | `handleSignalling`: authenticate, match, relay, close |
| Entry claimer | `signalling-server/kv.ts` | Deno KV: entries `(pairingId, channelId) -> nonce` with expiry | `createEntry`, `attemptClaim`, `clearEntry` |
| Connection channel | `signalling-server/connection-channel.ts` | BroadcastChannel per channel ID | `sendMessage`, `onMessage`, `close` |
| Pairing server | `pairing-server/src/*.ts` | in-memory channels by shortcode, a session with two message queues per call | `createPairingRequest`, `respondToPairingRequest` |
| Pairing storage (Go) | `peer-go/pairing/pairing_storage.go` | a JSON file (or a map in memory) | save, delete, get, list, clear |
| Pairing API, client (Go) | `peer-go/pairing/pairing.go`, `pairing_server.go` | none of its own | initiate, respond, list, delete |
| Keys and tokens (Go) | `peer-go/pairing/crypto.go`, `*token_generator.go` | none | key pairs, signatures, tokens |
| Peer (Go) | `peer-go/peer.go`, `peer_task.go` | `connected`, current task, its server and peer connection | `Connect`, `Disconnect`, `CreateDataChannel`, listeners |
| Signalling client (Go) | `peer-go/signalling_server.go` | `socket`, `connected`, `sendChan`, `remoteNonce` | `Connect`, `Disconnect`, send loop, read loop |
| Peer (web) | `peer-web/src/peer.ts` | `connected`, current tasks, data channels | `connect`, `disconnect`, `createDataChannel` |
| Signalling client (web) | `peer-web/src/signalling-server.ts` | `socket`, `messageQueue`, nonces | `connect`, queue, sign, verify, `disconnect` |
| Peer and server authentication | `peer-go/peer-config`, `peer-web/src/peer-config`, `server-auth`, `nonce-generator` | keys | sign, verify, nonces, tokens |
| Media sources, codecs, drivers (Go) | `peer-go/media_source.go`, `codec/`, `driver/` | configuration | set-up of third-party libraries |
| Retry (web) | `peer-web/src/retry.ts` | `retrying` | `retry`; used by nothing else (not modelled) |
| Data channels | `peer-go/data_channel.go`, in `peer.ts` | listeners | wrappers |
| Examples | `peer-go/examples`, `peer-web/example` | | |

How they interact:

- **Pairing.** The responder's device calls `createPairingRequest` over a
  websocket and shows the shortcode it gets; the initiator's device posts
  `respondToPairingRequest` with it. The two calls meet in the pairing server on
  a channel named by the shortcode: *response* (the initiator's key), then
  *confirm* (the pairing entry). Each side writes the result into its storage.
- **Signalling.** Both peers open a websocket to the signalling server and send
  `auth`. An initiator's handler opens a BroadcastChannel with a random ID and
  creates an entry; a responder's handler lists entries of its pairing and
  claims one by an atomic check-and-delete, posts `peerConnect` on its channel
  and sends `peerConnect` to its client. From then on each handler relays
  between its socket and the channel; a socket that closes posts
  `peerDisconnect`, on which the other end's socket is closed.
- **Connecting.** The clients run a loop of attempts. In each, callbacks of the
  signalling client drive the peer connection and callbacks of the peer
  connection drive the signalling client, and any of them ends the attempt.

What is hard in each, and what makes it correct:

- *Signalling server:* sockets are served concurrently, perhaps by several
  isolates that share only the database; handlers interleave at every database
  call; listeners are installed after the awaits of the set-up; sockets close,
  timers fire, entries expire and isolates die at any of those points. It is
  correct if a channel joins exactly one initiator with one responder of its
  pairing, messages reach only the other end and in order, waiting responders
  get the entries that exist, a disconnect reaches the other end, and nothing
  stays behind for ever.
- *Pairing server:* two calls and their timers race; a confirmation is broadcast
  to every session of the shortcode's channel; shortcodes may collide; listeners
  outlive their calls. It is correct if credentials go only to whoever presented
  the shortcode in time, at most one redeemer gets them, both sides are told the
  same and every call ends.
- *Pairing storage:* the file is rewritten whole, without a lock or an atomic
  replace. It is correct if it is a map, and if an interrupted change never
  turns it into a wrong one.
- *Peers and signalling clients:* goroutines (Go) or asynchronous callbacks (web)
  share the socket, the peer connection and the connect loop without
  synchronisation. They are correct if a task ends exactly once, a disconnect by
  the user is final, no goroutine is left blocked, and messages are handled in
  the order they arrive.

## 2. Modules and the code

### SignallingServer

One run of the authentication branch of the message listener is a *handler*. An
initiator's handler stands also for the random channel ID and the KV key it
makes up, so that `kv` is a set of handlers and `entry[r] = i` says that
responder `r` listed or claimed `i`'s entry.

| Variable | Code |
|---|---|
| `sock`, `elapsed`, `listener`, `got` | readyState of the websocket, whether its ten minutes (`SESSION_TIMEOUT`) are over, the handler whose listeners `socket.onMessage`/`onClose` hold, what its client was sent |
| `pc`, `owner` | the await a handler is in, and the socket it was started by |
| `entry` | `entry` of `attemptClaim`/`handleSignalling` |
| `bus` | events of each handler's BroadcastChannel that are yet to be dispatched |
| `posted` | number of messages relayed; only numbers the messages |
| `kv` | the entries of the database |

The server is JavaScript. Code between two awaits runs to completion, and an
await of a settled promise is a microtask that runs before the next event; so
the values of `pc` are the awaits that really take an event: the KV calls
(split at the commit, since the write is visible before the call returns), and
the listeners that wait for messages. Each action is the code from one of those
points to the next, including its exits through the catch block (`Fail`). The
second of `attemptClaim`'s delay is a stutter: it changes no state.

`OrderInv` is the invariant behind `RelayOrder`: it speaks also of the messages
that are still under way (`Pending`) and of those a socket has received (`Heard`).

A websocket goes from open to closing to closed. Sending on one that is not open
may throw or be dropped: `Join` allows both outcomes. `Resend` lets a client send
a second `auth` before the first is done, when `authed` is still false; `Faults`
lets KV calls reject (with or without the write having been committed) and
isolates die.

### Rendezvous

What a matching of initiators and responders promises, of which the server is an
implementation: an offer is absent, then offered, then taken by one responder or
withdrawn, and never comes back. Several may be withdrawn in one step.

### PairingServer

A creator is a call of `createPairingRequest`, a redeemer one of
`respondToPairingRequest`. `responses` and `confirms` are the message queues of
their channel sessions; `Listeners` and `Hearers` are the sessions that a message
on a shortcode's channel reaches. What an awaiting call does with a message that
arrived is a microtask: `Confirm` and `TakeConfirm` run before anything else
(`Quiet` guards every other action). Listeners stay after their calls have
ended, as in the code. A generated shortcode may be any, also one that is in use;
a redeemer may present any, also before its creator waits for it; and the initial
data may be sent at once or take until a later event, so that a response may be
queued before the creator waits for one. `missed` and `early` are history
variables: which creators had ended, or did not wait yet, when a redeemer began.

### PairingPromise

What the pairing server promises, without sessions, channels, queues and timers:
a creator is given a code, a redeemer presents one, a creator accepts one
redeemer that presented its code, or expires, and its client is told so once or
has left; only then are the credentials handed over, once to each redeemer, and
to another than the accepted one only of a creator in `guessed`. PairingServer
implements it (`KeepsPromise`), with `guessed` computed from `typed` and `early`.

### PairingClient

Extends PairingServer by the devices at the other ends of its calls, which are in
the Go Pairing API: a creator's in `InitiatePairing` and then the function
`PairingResult` it returns, a redeemer's in `RespondToPairing`. `client` is the
place of the device in its call and `key` whose public key it was given. A
pairing ID belongs to one creator, so that a device's storage (a `PairingMap`)
holds at most one entry of it, and "saved" says that it does. `Completed` does
not look at the status, as `PairingResult` does not: an 'expired' comes without a
key, and importing that fails. Connections, storages and devices may fail at each
step (`Fails`). `ClearAllPairings` does what `DeletePairing` does, to all.

### PairingStorage and PairingMap

`PairingStorage` has a step per system call of the file storage: open, write
"{}" into an empty file, read and parse, truncate, write. The file is *absent*,
*empty*, *json* (with its map in `content`), *torn* (anything that does not
parse) or *sealed* (`commitFile` creates a missing file with mode 0, after which
nobody but a superuser can open it). The variable `serial` never changes; it says
whether one operation ends before the next begins, so that one run has both
cases. `Crashes` says whether a client may die between two steps or in the middle
of a write; `Failures` whether a system call may fail. `ParseFails` is what each
operation does with an error of `parseFile`: a save returns it, a get returns
nothing and no error, a delete and a clear go on with a nil map and commit that.
A write that fails, after the truncation, leaves the file empty, torn or whole.
The read of a file is one step. `due` is a history variable: what gets have to
find. `PairingMap` is the map that the in-memory storage keeps, with a `Lose` that
resets all of it.

### ThingPeer

The web library on its event loop. A *loop* is the asynchronous function that a
call of `connect` schedules; a *task* is a `PeerTasks` with its websocket (`sock`)
and peer connection (`rtc`). Two loops run when `disconnect` and `connect` are
called within the second that a loop waits, which is what `hasty` records, as it
does a `disconnect` before the timer of `connect` has fired.

| Variable | Code |
|---|---|
| `connected`, `auto`, `active` | `connected`, `autoReconnect`, `peerTasks` of ThingPeer |
| `at`, `cur` | the await a loop is in (the timer of `connect`, the task, the second's wait) and the task it awaits |
| `sock`, `rtc`, `resolved` | readyState, connectionState, whether `completionResolver` was called |
| `opening`, `listed` | channels that were created and are not open yet, `dataChannels` |
| `told` | last argument of `connectionStateListener` |

`Shut` is `close`, which any of the listeners calls and the loop calls once more,
on the task that is active by then. What follows a resolved promise is a
microtask (`Resume`) that goes before the next timer or event (`Quiet`); calls of
the application may come in between. A task is used again when nothing of it is
left (`Free`): that bounds the model, not the number of attempts.

### Negotiation

Two peers, the signalling client (`signalling-server.ts`) of each, and the
signalling server as these see it: the module above in one attempt with one
match. Each message that is signed waits in `signing` and each that is verified
in `checking`; both are asynchronous, and nothing in the code waits for the one
before. The variable `orderly`, which never changes, says whether the crypto
library ends them in the order in which it was asked. A candidate that arrives
before the description it belongs to cannot be added and is remembered in `lost`.
The descriptions are created and set asynchronously, with the responder sending
its answer while it is being set. `Join` either introduces both or only the
responder: the initiator's *peerConnect* is lost if its handler does not listen
yet (see SignallingPeerConnect in section 4). A *peerDisconnect* lost in the same
window is left out: the session timeout, which is modelled, then ends the session.

### GoPeer

The goroutines that share a Go peer: the connect loop with `AttemptConnect`, the
signalling client's read and send loops, the callback for ICE candidates and the
calls of `Disconnect`. None of them takes a lock, so that every test of a pointer
and every use of it are steps of their own: `loop`, `user`, `reader`, `sender` and
`ice` say where each is. The set-up of an attempt is in five steps: creating the
objects and setting `p.server`, setting `p.peerConnection`, registering the state
callback, `setupListeners` (which uses the task's pointers, and panics if a
`Disconnect` has reset them) and `server.Connect` (which uses a variable of its
own). `SetUp` names the places between them. `sendChan` and the channels of `AttemptConnect` have no
buffer: a sender is in `sending` or `posts` until it is received. The use of a nil
pointer sets `panicked`, after which nothing happens. A variable that is read
without synchronisation is read as it is: the build may also see an older value
of it, which the model leaves out.

## 3. Runs

All runs use one to three actors of a kind: enough for two competitors and a
partner, which is what each race in the code needs. Sockets and responders are
interchangeable (`Symmetry`), used in the safety run of the signalling server.
Its liveness run gives the initiators one socket and the responder another
(`Home`, named `SocketPerRole` there), which keeps it small enough for a check
without symmetry and still has two handlers on a socket.

| Run | Instance | What it shows |
|---|---|---|
| SignallingSafety | 3 sockets, 2 initiators of 2 pairings, 2 responders, 2 messages relayed by each of these and 1 by their initiator, KV failures | the inductive invariant `IInv` with the types, `ClaimExclusive`, `PairIsolation`, `RelayOrder`, and that the server implements `Rendezvous` (`Matching`) |
| SignallingLive | 2 initiators, 1 responder, a second `auth` on a socket, crashes and KV failures | several handlers on a socket: `DisconnectPropagates`; `SessionEnds`; `Matching`, here under crashes |
| Pairing | 2 creators, 2 redeemers, 2 shortcodes | that the server implements `PairingPromise` (`KeepsPromise`), `NoLateRedemption`, `OneInitiator`, `Agreement`, the inductive invariant `IInv`, `PairedTogether`, `CallsEnd` |
| PairingClient | 1 creator, 2 redeemers and their devices, 2 shortcodes | what the storages hold after any failure: `KeysMatch`, `KeptAgreed`, `KeptTogether`; `ApiReturns`; the inductive invariant `ClientInv` |
| Storage | 2 clients that may die, system calls that may fail, 2 IDs, 2 values, taking turns or not | `ImplementsMap`: taking turns, the file implements `PairingMap` with `Lose`, so that everything or nothing is lost; `Durable`: gets, and saves that fail before they write, leave what others have to find; the inductive invariant |
| ThingPeer | 2 loops, 2 tasks, 2 data channels, reconnecting or not | `ToldOfTask`, `OneTask`, `DisconnectFinal`, `ListedOpen`, `AttemptSettles`, `LoopsEnd`, the inductive invariant (with `NeverIdle`) |
| Negotiation | 1 candidate each, signatures in order or not, failing connections, peers that leave, the session timeout, a lost *peerConnect* of the initiator | `MessagesUsed`, `AnswerFindsOffer`, `Settles`, `CloseTogether`, the inductive invariant |
| GoPeer | one loop, attempts without end, one `Disconnect` at a time | `SessionClosed`, `PanicFree`, `ServerEndNoticed`, `DisconnectEnds`, the inductive invariant |

SignallingPeerConnect, SignallingPeerTold, NegotiationRace and GoDial are in
section 4. The type invariants are conjuncts of the inductive ones. `OrderInv` of
the signalling server, `EntryByCode` of the pairing server, which `KeepsPromise`
implies, and `DescriptionsFinal` of Negotiation are proved and in no run.

**Bounds.** `Home` names the sockets on which a handler may be started: all of
them, but for the liveness run. `MaxRelay` and `Candidates` are the only bounds
on counters. The first is a number for each handler: in SignallingSafety
(`Relays`) 2 for a responder, so that `RelayOrder` compares its peerConnect and two
messages behind it at the initiator's client, and 1 for the initiator
(peerDisconnect is not passed on to a client and not compared); some messages may
still be lost, see below. With the second bound at 1 a candidate races the description that is sent before it; a
second one only adds more of the same (the run was repeated with 2 and passes). Loops, tasks and
channels of ThingPeer are bounds on how many exist at a time. GoPeer's `Connect`
waits until the previous loop has ended, its new attempt until the goroutines of
the last one have ended or wait for ever (`Stalled`).

**Fairness.** `EventLoop` of the signalling server is weak fairness of each thing
the runtime promises to do without help of a client: a KV call returns, an event
is dispatched, a closing websocket reports its close. It is per socket or handler,
since each has its own promise or event. Losing a claim and winning it are one
call, so they are fair together. Clients are not assumed to do anything, and the
session timer is not assumed to fire: otherwise the liveness properties would hold
only because everything times out after ten minutes. `SessionEnds` is about what
follows when it has fired.

- *PairingServer:* all awaits end by a message or by a timer; weak fairness of
  those. *PairingClient* adds that a device reads what was sent to it and stores
  it; it may fail instead, and it never has to be deleted.
- *ThingPeer:* a microtask runs (weak fairness of `Resume`); a loop's timer fires
  (strong fairness, since microtasks go first and disable it again and again); a
  task's socket ends at last, since the server's session timeout closes it
  (strong, for the same reason). Nothing makes a peer connection connect or fail.
- *Negotiation:* promises and events of a client take their turn, the server
  handles what it receives and its session timeout fires, and a peer connection
  whose other end has closed fails, as ICE consent expires. Peer connections are
  not assumed to connect.
- *GoPeer:* a goroutine that can go on does. What the reader sends on `sendChan`
  is received in the end (strong fairness) though the ICE callback sends on it,
  too: Go serves those that wait at a channel in their order. A dial, a message, a candidate, the
  end of the websocket and the states of the peer connection are not assumed.

**Conditions.** `OneInitiator`, `PairedTogether`, `KeysMatch` and `KeptTogether`
except a creator whose shortcode was presented before it waits for a response
(`Guessed`), the second and last also one that shares its shortcode (`Shared`).
This is what they need: with a code presented too early, a second response may
be queued behind the first, its session hears the same broadcast confirmation,
and two redeemers hold the credentials of one pairing; a creator that spends
more than ten seconds in sending its initial data reports a redeemer that has
given up; and of two creators with one shortcode both may report the redeemer
that only one of them got. The code relies on 36^6 shortcodes, and on nobody
presenting one that has not been shown, to exclude them. `OneTask`,
`DisconnectFinal` and `LoopsEnd` except calls that do not leave each other time
(`hasty`): these do break them, see section 4. What `MessagesUsed` says of
candidates needs a crypto library that answers in order (`orderly`). `PanicFree`
excepts a failed dial and, for the goroutines of an attempt until the loop lets
go of it, a `Disconnect` during its set-up or in its course; `SessionClosed`,
`ServerEndNoticed` and `DisconnectEnds` a `Disconnect` that comes while the attempt
is set up (`calledAt \in SetUp`), the last two also a panic. `Durable` is about a
pairing saved while no other operation ran, up to the first operation other than a
get that overlaps another, dies, fails in writing, or is a delete or clear that
cannot read the file; `ImplementsMap` is about operations that take turns, and
lets everything be lost whenever one dies or a call fails. `ToldOfTask` allows
'disconnected' at any time. `NeverIdle` is about peers that reconnect.

## 4. Where code and documentation disagree

Each is a run whose property states the quoted sentence and that TLC refutes.

- **SignallingPeerConnect** (`signalling-server.test.ts:133`: "both peers receive
  peerConnect once claimed"). The entry can be claimed as soon as the write has
  committed, but the initiator listens on its channel only after `createEntry`
  has returned. A responder that claims in between posts a `peerConnect` that
  nobody hears. The connection attempt then hangs until a socket closes.
- **SignallingPeerTold** (`signalling-server.ts:81`: "Notify the peer that we have
  disconnected"). The close listener is installed at the end of the set-up; if the
  socket closes before, the close event has passed and the other peer is never
  told.
- **NegotiationRace** (`peer.ts:165`: "there may be a race condition between us and
  the other peer reaching a "connected" RTC state, after which they disconnect").
  The message `peerDisconnect` is ignored for that reason, but the server closes
  the socket along with it (`signalling-server.ts:71`), and the listener of 'close'
  (`peer.ts:179`) closes a peer connection that is not connected yet. The peer
  that is first then fails, too, and both try again.
- **GoDial** (`peer-go/signalling_server.go:18`: "If there are any failures in the
  connection [...] it will report these and return to a disconnected state"). After
  a failed dial `s.socket` is nil; the error reaches `AttemptConnect`, which
  disconnects, and `s.socket.Close()` panics.

More observations that no run of their own shows:

- *Signalling server.* A second `auth` sent before the first is done takes over
  the socket's listeners, so that the partner of the first handler is not told of
  a disconnect (`DisconnectPropagates` excepts it); one sent after the set-up is
  passed on to the peer, whereas `signalling-server.test.ts:228` expects "a silent
  no-op". An initiator whose socket closes during `createEntry` leaves its entry
  to be claimed; `peerDisconnect` is sent before the entry is cleared, so that a
  responder may claim the entry of one that has just left. The claim's ten minutes
  end after the session's, so that its 'error' goes to a closed socket.
- *Pairing storage.* Two changes that overlap lose one of them, or tear the file,
  and so may a get that found the file empty and writes "{}" into what a change has
  written since. A delete or clear that cannot open or read the file, for whatever
  passing reason, ignores the error and commits an empty map, by which the
  pairings of an intact file are gone (`pairing_storage.go:78`, `:109`). A write
  that fails leaves an empty or torn file, of which a delete is not told (`:80`).
  A file that was deleted between the read and the commit is created with mode 0
  (`:226`), and can then be opened by nobody.
  Of a file that does not parse, `getPairing` returns an empty pairing and a nil
  error (`pairing_storage.go:97`; `pairing_storage_test.go:189` expects an error
  for an ID that does not exist).
- *Pairing API.* An 'expired' is recognised only because an empty key cannot be
  imported. A base URL that is neither http nor https makes `createPairingRequest`
  return nil and no error (`pairing_server.go:48`), which its caller dereferences.
- *Web peer.* `disconnect` before the timer of `connect` has fired closes nothing,
  and one attempt is made all the same; `disconnect` and `connect` within the
  second's wait leave two loops, each of which closes the active task whoever
  started it. A candidate that is signed or verified before the description ahead
  of it cannot be added and is lost. The close event of a socket whose task was shut down already tells
  'disconnected' again, while the next task may be connecting. With
  `autoReconnect` false the flag `connected` stays set, so that a second `connect`
  does nothing.
- *Go peer.* `Disconnect` while an attempt runs may use a nil socket, server or
  peer connection, in its own goroutine or in another. One that comes while the
  attempt is set up can make `setupListeners` panic; or the attempt goes on without
  the task's pointers, with nobody to end it but the server, and a peer connection
  that was closed before its callback was registered reports nothing; or a session
  with the server stays open. Goroutines that wait
  to send to a channel of an attempt that is over wait for ever, and a failed peer
  connection is not closed. The application's listeners run in goroutines of their
  own and may be out of order.

## 5. Proofs

| Module | Theorems | For any |
|---|---|---|
| SignallingServerProofs | `Invariance` (`IInv`), `TypeCorrect`, `ClaimsExclusive` (`ClaimExclusive`), `PairsIsolated` (`PairIsolation`), `MatchesKept`, `ImplementsRendezvous` (`Matching`) | sockets, handlers, pairings, message types, `MaxRelay`, failures |
| SignallingServerOrder | `Ordered` (`OrderInv`), `RelayOrdered` (`RelayOrder`) | the same |
| PairingServerProofs | `Inductive` (`IInv`), `TypeCorrect`, `EntryByCodeHolds`, `NoLateRedemptionHolds`, `OneInitiatorHolds`, `AgreementHolds`, `OutcomesKept`, `ImplementsPromise` (`KeepsPromise`) | creators, redeemers, shortcodes |
| PairingClientProofs | `ClientInductive` (`ClientInv`), `KeysMatchHolds`, `KeptAgreedHolds` | the same |
| PairingStorageProofs | `Inductive` (`IInv`), `TypeCorrect`, `DurableHolds`, `Refinement` (`ImplementsMap`) | clients, IDs, data, with or without crashes and failing system calls |
| ThingPeerProofs | `Inductive` (`IInv`), `TypeCorrect`, `ToldOfTaskHolds`, `OneTaskHolds`, `DisconnectFinalHolds`, `NeverIdleHolds`, `ListedOpenHolds` | loops, tasks, data channels |
| NegotiationProofs | `Inductive` (`IInv`), `TypeCorrect`, `MessagesUsedHolds`, `AnswerFindsOfferHolds`, `DescriptionsFinalHolds` | number of candidates, with or without failures, signatures in order or not |
| GoPeerProofs | `Inductive` (`IInv`), `TypeCorrect`, `SessionClosedHolds`, `PanicFreeHolds` | behaviour of the one loop and its attempts: the module has no other parameter |

Assumptions: initiators and responders are different handlers, creators and
redeemers different calls, there is some pairing ID, `NONE` is none of the other
values, and `MaxRelay` and `Candidates` are natural numbers. TLC evaluates them in every run.

**The inductive invariant of the signalling server.** `ClaimExclusive` is not inductive: a responder that
has listed an entry claims it when it is in `kv`, so one has to know that nobody
holds what is in `kv` (`Unclaimed`). That in turn is kept when an initiator
commits its entry because a listed entry was really written (`Found`: nobody can
hold an initiator that has not created its entry). `PairIsolation` speaks of
what clients have received, which came off the channel: `Routed` says that every
pending event comes from the handler's partner. That follows, when a message is
posted, from the fact that a handler hears a channel only if it is its creator or
has claimed it and from `ClaimExclusive`: otherwise a second responder on
the channel would hear the first. `Owned`, `Roles` and `Installed` say which
handler a socket's listeners belong to.

**The inductive invariant of the pairing server.** What a redeemer holds it took
from its queue, so the properties must already hold of what is queued (`Held`, of
all that is `Promised`). When a creator confirms, it names the head of its queue,
and everyone who presented its shortcode hears it. That these are one and the same
redeemer is `Offered`: no event happens while a creator that waits has a response
(`Quiet`), so the first to present the shortcode after it began to wait finds an
empty queue and ends the wait before a second can come; whoever presented it
before is in `early` (`Remembered`). `Answered` says that only those who presented
the shortcode are in the queue, and `Concluded` that a creator takes one response
and how its call then ended, which is what `Agreement` compares.

**The promise of the pairing server.** `Opening` maps to `Choose`, `Redeem` to
`Present`, `Confirm` to `Accept`, `Expire` to itself if there is a client to tell,
`TakeConfirm` to `Hand`; everything else is a stutter. Each mapping needs a
conjunct of the invariant: the head of the queue presented the code (`Answered`);
a creator whose call goes on is undecided (`Concluded`), so that it can become
guessed only before it decides; a redeemer that waits has got nothing yet
(`Presented`), and what is at the head of its queue is for it to have (`Held`).

**The order of messages.** `RelayOrder` compares what a client has received of its
peer, so it has to hold of what is still on the channel: the numbers pending on a
channel ascend (`Ascending`), none of them has been received by the socket that
will get it (`Fresh`), none exceeds what its sender has posted (`Bounded`), and a
socket with messages of a handler belongs to a handler matched with it
(`Unheard`, with `IInv`).

**The inductive invariant of the pairing clients.** A device keeps what the server
told it (`Given`), a creator is told 'paired' only together with the redeemer that
presented its code (`Named`), and a redeemer is handed the entry of some creator
(`Handed`). With `OneInitiator` that makes two devices that keep the same pairing
keep each other's keys.

**The inductive invariant of the storage.** While something is due, either only
gets run, and find it in the file (`GetsFind`), or a single change does that
brings it (`ChangeBrings`); `Called` says which operation a client is in. Taking
turns, the one that runs has the file to itself (`Undisturbed`), so that what it
truncates and writes is what it has read with its change applied, or the nil map
of a delete or clear that could not read. The refinement maps `Truncate` to the
operation or, of a nil map, to `Lose` (the map is in the writer's `view` from
there on), a crash or a failure in "writing" to `Lose` or a stutter, and all other
steps to stutters.

**The inductive invariant of the web peer.** As long as the application leaves its
calls time there is one loop (`OneLoop`), and a task that is alive is active and
awaited by a loop of a peer that is connected (`AliveAwaited`); that needs that a
scheduled loop belongs to a connected peer (`ScheduledConnected`) and that
whoever awaits has made a task active (`AwaitedActive`). `OneTask` and
`DisconnectFinal` follow. `ChannelsApart` gives the second half of `ListedOpen`.

**The inductive invariant of the negotiation.** `MessagesUsed` says that nothing
is dropped for want of an introduction or a description, which is a question of
what is ahead of it on its way through `signing`, `sent`, `inbox` and `checking`.
`Spoken` says what can be on the way at all; `IntroducedOnce` and
`IntroducedFirst` that the server's *peerConnect* comes once and before anything
the other says; to the initiator it may not come at all, but then the other has
nothing to answer to. `OfferFirst`: until the initiator has set its offer, nothing was
said, which with `Spoken` gives `AnswerFindsOffer`. With signatures in order,
`DescriptionLeads` says that at every stage the description is ahead of the
candidates, has gone on to a later stage, or will not be missed because an end of
the session has closed. `DescribedOnce` says that a description is at one place at
most; it gives `DescriptionsFinal`.

**The inductive invariant of the Go peer.** `SessionClosed` needs to know who is
to close the session: `ClosedFirst` says that `server` is given up only once the
session is closed, and that a goroutine past its close has closed it, unless it
panicked there. It relies on `Fresh` (a task that is not set up has nothing to
close, and no goroutine of its own), on `LetGo` (a connected task has no server
any more) and on `Dialing` (who dials has no socket yet). `PanicFree` follows from
`Undisturbed`: as long as the user leaves an attempt alone, what the loop is about
to use is there, and while there is no socket neither the read nor the send loop
runs. `Calls` ties `calledAt`, the history variable of the exceptions, to where
the loop is.

**How the proofs are laid out.** Each lemma `...Step` shows that any step from a
state of `IInv` keeps one group of its conjuncts, with one case per action:
`TypeStep`; `KeptStep` (what a step can never undo: owners, claims, and `pc` only
leaves "idle" or "creating" for good); `MatchedStep` for `Owned`, `Roles`,
`Found`, `Unclaimed`, `ClaimExclusive`; `InstalledStep`; `RoutedStep`; `GotStep`.
The refinement maps each action to `Offer`, `Take`, `Withdraw` or a stutter:
`CommitEntry` is an offer, `ClaimWon` takes it, clearing and expiry withdraw; a
crash or failure that takes a handler out of "creating" before the write withdraws
an absent offer.

In PairingServerProofs, NegotiationProofs and GoPeerProofs the layout is the same;
what most actions do to the variables of a conjunct is stated once
(`QueuesStep`, `PresentStep`, `ClientMoves`, `NetworkMoves`) and cited in each.

`MatchesKept` and `OutcomesKept` are about steps (`Kept`): what neither server
ever takes back.

Only model-checked: all liveness properties, since fairness is outside of the
prover's reach (`DisconnectPropagates`, `SessionEnds`,
`PairedTogether`, `CallsEnd`, `KeptTogether`, `ApiReturns`, `AttemptSettles`,
`LoopsEnd`, `Settles`, `CloseTogether`, `ServerEndNoticed`, `DisconnectEnds`).
Every safety and action property of the passing runs, and each of the three
implementations, is proved.

## 6. Limits

- Abstracted: the contents of messages (a type, the handler they come from and a
  number), nonces (the handler or peer that made them up), tokens (the role and
  pairing they carry), keys and signatures, wall-clock time (only the order of
  timers that the code fixes), parsing (a valid message or not).
- External: Deno KV (atomic commits), BroadcastChannel (reliable and in order
  while the endpoint is open), websockets, the JavaScript event loop, the peer
  connections of the browser and of pion (what the code sees of their states).
- The unhandled rejection of a send on a closed socket in a listener is only
  represented by the loss of the message.
- That a responder which loses races for entries gets one in the end (kv.ts:23)
  is checked in no run: such a race takes two initiators and two responders, with
  whose states the other liveness properties cannot be checked.
- Concurrent reads of the pairing file in chunks are not modelled.
- The application's listeners are assumed not to call back into the library from
  within a notification.
- Peers agree on their roles, and their messages are those of the library:
  Negotiation has no third party.

Not modelled:

- *Retry (web)*: nothing uses it.
- *Data channel wrappers*: those of `data_channel.go` only forward calls; in
  `peer.ts` creation, opening and closing are modelled, sending is not (it polls
  until the buffer has room, so that messages sent meanwhile can overtake).
- *CreateDataChannel of the Go peer*: appends to a list that nothing reads.
- Nothing to interleave: cryptography and encoding, token checks, the HTTP entry
  points, configuration of media libraries, examples.

## 7. Plan

Proofs: the steps behind the liveness properties that need no fairness, such as
that an attempt of GoPeer or ThingPeer never goes back to an earlier place.

Model: two connect loops of GoPeer; sends on a data channel of `peer.ts`.
