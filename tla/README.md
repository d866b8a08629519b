# A TLA+ development for xcesp-l2tpv3d

xcesp-l2tpv3d is an L2TPv3 (RFC 3931) control-plane daemon: it negotiates
control connections (tunnels) and sessions with peer routers over UDP, and has
the Linux kernel forward the session payload with `ip l2tp` commands. This
directory models it in TLA+, from the configuration file to the bytes of a
datagram and the netdevs in the kernel, checks the models with TLC on small
instances, and proves with TLAPS, for all values of the parameters, the
reliable-delivery layer, what a tunnel guarantees against any peer, the tunnel's
handshake between two daemons, and that
messages are decoded without loss and verified only if they are what was signed.

## 1. Inventory

| Component | State | Operations | Properties that make it correct |
|---|---|---|---|
| Sequence arithmetic (`messages.py`: `seq_delta`, `seq_advance`) | none; 16-bit numbers | difference within half the number space, advance with wrap | recovers the distance of two counts below half the space, across wraps |
| Reliable delivery (`transport.py`: `Peer`) | `ns_send`, `nr_expect`, send queue with retry counts, reorder buffer, dead flag, CCIDs | `send`, `ack_only`, `receive` (with `_consume_acks`), `tick` | exactly once, in order; nothing unacknowledged is dropped; every message is acknowledged or the peer is declared dead |
| AVP codec (`avp.py`) | none | factories and decoders of typed values, `encode`, `decode_one`, `decode_sequence`, hiding | decoding inverts encoding, stays inside the buffer, and loses nothing |
| Control messages (`messages.py`) | none | builders, header, parsers | parsers find what builders put there; malformed messages are refused |
| Tunnel state machine (`tunnel_fsm.py`) | one of five states | one handler per event; returns actions | handshake completes; HELLO timer runs exactly while established; teardown from every state |
| Session state machine (`session_fsm.py`) | state, peer session ID, learned cookie | one handler per event; returns actions | kernel parameters match at both ends; netdev exactly while established |
| Dataplane (`dataplane.py`: `IpCommandDataplane`) | what it has added; the kernel (external) | add/delete tunnel and session, link up, any of which may fail | object and kernel stay in step |
| Tunnel (`main.py`: `Tunnel`) | Peer, FSMs, HELLO handle, index by remote session ID, `_tunnel_dp_added` | `start`, `close`, `handle_datagram`, `tick`, HELLO callback; executes actions | what was acknowledged was acted upon; both ends agree |
| Daemon (`main.py`: `Daemon`) | table of tunnels by CCID | `start`, `stop`, receive loop with demultiplexing, tick loop | tunnels come up; dead ones are removed; one tunnel does not disturb another |
| Authentication (`auth.py`, `messages.py`) | password | sign, verify | every datagram that must be accepted is signed; what passes is what was signed |
| Configuration (`config.py`) | none | validate a TOML document | what is accepted can work |
| UDP and loopback transports, logging, `sd_notify` | none that anything reads | I/O | |

Interaction. Everything runs in one asyncio event loop. A callback (datagram
received, tick every half second, HELLO timer, signal) runs to completion and calls downwards
only: `Daemon` finds the `Tunnel`, `Tunnel` calls `Peer`, then one FSM handler,
then executes the list of actions that handler returned, which may call every
`SessionFSM` and the dataplane. There are no threads. The concurrency is between
two daemons, the network between them, their timers and the process supervisor.

What is hard. Wrapping sequence numbers compared over half a window. A
reorder buffer that can release several messages at once. Retransmission timers
that race with acknowledgements. Crossing opens. A restarted peer that numbers from 0
again. Sessions that outlive their tunnel. `ip` commands that fail in the
middle. A digest that is compared over a new encoding of what was decoded. Lengths
and ranges at the limits of their fields. `PROJECT.json` lists these as hazards, each at its line, with the
properties that cover it.

## 2. Modules

    SeqArith --- Peer --- ReliableChannel (refines FifoChannel) --- MCReliableChannel
                   \
    Messages --- TunnelFsm, SessionFsm --- Tunnel --- L2tpPair --- MCL2tpPair
            \--- Dataplane ---------------/      \--- AnyPeer ---- MCAnyPeer

    SeqArithProofs --- ReliableChannelProofs
                  \--- PeerProofs --- TunnelProofs --- L2tpPairProofs
                                                  \--- AnyPeerProofs

    Avp --- ControlMessage --- Config --- Wire --- MCWire
       \--- AvpProofs ----------------------\--- WireProofs

The two halves meet in `RoundTrip` (module `Wire`): a message that is sent as
bytes is read with the fields it was built from. That is what lets `Messages`, and
everything above it, treat a message as a record of fields.

`SeqArith` has `seq_delta` and `seq_advance` with the width as the constant `Modulus`.

`Peer` has one operator per method of `transport.Peer`, from the record of its
attributes to the record after the call, and operators for what the call
returns (`delivered`, `responses`, `resends`). Clock values are abstracted: a
call of `tick` is given the set of queue positions whose timer has expired. All
messages follow the same retransmission schedule and are queued in the order of
sending, so a message is never further on in it than an earlier one; `Expiries`
says so. `ReliableChannel` does not need that fact and allows every set.

`ReliableChannel` composes two Peers with a network that is a set of datagrams:
it loses, delivers again and reorders at will. `FifoChannel` is what that
promises: each direction is a sequence that grows at one end and is taken, in
order, at the other; a message counts as acknowledged only after it was taken.

`Messages` reduces a control message to the attributes that handlers read.
`Merged` is what `find_avp` sees when the AVPs of several messages are in one
list: the first occurrence of every attribute. It assumes of a peer's messages that they have every AVP that
the parser of their type insists on, though perhaps of a length its decoder refuses (`ok`); a message that lacks one
is a matter for `Wire`.

`TunnelFsm` and `SessionFsm` have one operator per event handler. The list of
actions is a record: next state, message to send, timer command, signal to the
sessions, dataplane command. The order of the actions is fixed by the
executing operator, as it is in the code.

`Dataplane` is `IpCommandDataplane` and the kernel behind it (marked external).
Every operator takes the set of commands that fail during the call.

`Tunnel` is `main.Tunnel`: one operator per entry point, each the whole call
including the execution of all actions. Datagrams collect in the field `out`.

`L2tpPair` is two daemons with a tunnel each, as a state machine with one action
per event-loop callback (`Receive`, `Tick`, `HelloTimer`), the operator (`CloseSession`),
the supervisor (`Start`, `Stop`, `Crash`) and the network. Here the network is a
FIFO queue in each direction with a bounded number of faults (a datagram lost,
duplicated, or overtaken by a later one): what the transport
does under arbitrary faults is settled by `ReliableChannel`, and this module
asks what the layers above make of it. A behaviour plays one of the `Scenario`s: the
configurations of the two ends; the ends that open the tunnel when they start (the
integration tests open one; `Daemon.start` opens every tunnel); whether
`Daemon._dispatch_datagram` stands before the tunnel; the `ip` commands that may fail; and
the bounds. `MCL2tpPair` defines the scenarios.

`AnyPeer` is one tunnel against a peer that need not follow the protocol: it sends
any message of a set, well-formed or not, in order, ahead of order or again, until it
falls silent. Two correct daemons never reach most error paths of the handlers; this peer
does. An `ip` command may fail in any callback, and the history variable `failed` says which
did, so that the properties can state what a failure costs and what it does not. The history variable `offer`
holds what the peer's part in the latest handshake of each session carried (and the cookies of earlier ones), so that
a netdev is compared with the messages and not with what the session remembers. A message for which `handle_datagram` raises
ends the daemon (`handle_datagram_raises`, status `ended`): the receive loop's task fails, and `Daemon.stop` closes the
tunnel; the model takes that as one step. A message without a Message Type AVP, which the code ignores, is not among the peer's.

`Avp` has the operators of `avp.py` on sequences of bytes. What raises an exception in the
code is a condition of its own (`builds`, `encodes`, `decodes_one`, `decodes`, `unhides`). Numbers
have up to 64 bits, which TLC's integers do not: a number is the sequence of its 16-bit
digits. The MD5 keystream of hidden AVPs is the constant operator `Keystream`; hiding
needs of it only that both ends compute the same.

`ControlMessage` has the builders as the state machines call them, the header, the parsers
and the digest. The HMAC is perfect: a digest matches exactly if it was computed
with the same secret and algorithm over the same bytes, and these are kept beside the
datagram. Which bytes they are, at the sender (the encoding with a zeroed digest at the end) and at the receiver (a
new encoding of the decoded AVPs with every digest zeroed), is modelled as the code does it.

`Config` says which documents `config.py` accepts and what it makes of them. A TOML value
is a record of what Python's conversions (`isinstance`, `int`, `str.lower`, `bytes.fromhex`,
`ipaddress`) return for it, because these are the library's and not the loader's.

`Wire` takes one message along the whole way: `Load` (loader and `Daemon.start`, which fills
the table of tunnels), a `Send*` action for every kind of message, `Flip` and `Truncate` (the network
damages the datagram), `DecodeHeader`, `DecodeAvp` once for each AVP, `Verify` and `Parse`. `MCWire` has the
configuration files. The operators were compared with the Python code: of the
212 files both accept the same 112, and the encodings of all nine kinds of message are equal byte for byte.

Operators with a comment `Mutant:` are deliberately wrong variants of the
definition that follows. No specification uses them; `PROJECT.json` lists which property
notices which of them.

## 3. Runs

| Run | Expect | What it shows |
|---|---|---|
| `channel` | pass | Two Peers over a network that loses, repeats, delays and reorders: exactly-once delivery, nothing forgotten, buffer inside the window, the inductive invariant of the proofs, refinement of `FifoChannel`; under fairness of the tick loop alone every message is acknowledged or the peer is declared dead |
| `bringup` | pass | Tunnel and sessions come up, with HELLOs, late answers and closes at any moment, one or two pseudowires; a tunnel comes up despite two faults and an answering end that starts late; no peer is given up without a cause; both ends agree when everything is acknowledged |
| `lifetime` | pass | A fault, an early timeout, a HELLO and a close in any order, up to dead peers; two pseudowires opened from different ends with clashing session IDs, a stop, a crash, a fault and failing `ip` commands: timer, FSMs and kernel stay in step, the ends go through the tunnel's handshake together (the invariant of the proofs), netdevs are connected only if they belong together, with matching cookies |
| `anypeer` | pass | Whatever the peer sends and whichever `ip` command fails: the HELLO timer follows the tunnel's state; a netdev has the session ID and the cookie that the latest handshake carried, where it carried no cookie the configured or an earlier one; it outlives its session or is missing only for the failures named in the properties; and a peer that falls silent, with up to two messages unacknowledged, is noticed |
| `wire` | pass | Every field of every message arrives as configured; decoding stays in the buffer and loses nothing; with a password nothing but what was sent passes; only the values the loader does not check make a message fail to be built; no single flipped bit and no truncation raises an exception that nothing catches |
| `reordered`, `both_open`, `signed`, `peer_restart`, `late_session`, `old_cookie`, `config` | violation | The findings of section 5 |

Bounds of `ReliableChannel`. Sequence numbers wrap, so exactly-once delivery
needs two facts about the environment, which `ChannelAssumption` states:
an end has fewer than half the number space unacknowledged (`MaxOutstanding < Half`),
and a datagram does not survive half a turn of the numbers (`MaxAge <= Half`). The
code enforces neither. With 65536 numbers, a few messages per handshake and one
HELLO a minute they hold with a very wide margin. The instance has ten numbers. Either
one end sends eleven messages, which makes every counter wrap, or both ends send two, and
acknowledgements ride on messages. Four unacknowledged messages
against a window of two reach the branch that drops beyond the window and
a drain of two buffered messages. `MaxInFlight` bounds datagrams at one moment;
since a received datagram stays in the network, two are enough to deliver
any of them again, late and out of order. The retry budget is explored down to exhaustion.

Bounds of `L2tpPair`. A scenario bounds each of the `Events`: faults of the network,
retransmission timers that expire `early`, while something is under way, HELLO timers,
session closes, stops and crashes. A timer that
expires when nothing is under way is free, so retransmission to the end of the budget is always
explored. A handshake has three messages per layer, so one fault, one early timeout and one
event reach every pairing of a disturbance with a protocol step; two faults on
the shorter tunnel handshake (`bringup`) reach pairs of faults. `MaxRetries` is 1 in
most runs, so that a dead peer is reached within the bounds, and 3 in `bringup`, where the
budget must outlast the faults. `Modulus` is 16, above the number of messages in a run: wrapping is
the business of `channel`. While an end is off (not started yet, or between stop and restart), the other one's timers expire only
as often as the bound on early timeouts allows (`Quiet`). So the runs, and `TunnelComesUp` in particular, assume that an end
starts within the retry budget of the other; if it does not, `tick` gives the tunnel up and nothing reopens it.

Bounds of `AnyPeer`. A behaviour has one of the `Bounds`. In one, five datagrams suffice for a handshake, a teardown and a
second handshake of the session, with one failure of a command anywhere in it; retransmissions, HELLOs and ZLBs
of the tunnel come on top. What the peer sends then acknowledges everything the tunnel has sent (`queue` is 1).
In the other, with three datagrams, each acknowledges all messages or leaves one or two (`queue` is 3), so that silence
begins with queues of different lengths and retry counts. In both the peer's numbers are the expected one, the one after it
(`ReceiveWindow` is 1), one already taken, one beyond the window and one half a turn away; and a ZLB may acknowledge what was never sent.

Bounds of `Wire`. Every key of the configuration takes the values absent, of the wrong type, at,
below and beyond each of its limits, one key at a time, and pairs of tunnels and of sessions share name
or ID or do not. The lengths 249/250, 1017/1018 and 14/15 of names are where the AVP length takes a
second byte, where it overflows, and where a hidden value fills an MD5 block. The
messages of three files (without password, MD5, SHA-1) are damaged in every bit and at every length.

Deadlock is not checked: a system in which everything is acknowledged, and the
bounds on operator and timers are used up, has nothing left to do; and a message on its way
through `Wire` arrives or is dropped.

Fairness. `ReliableChannel` assumes weak fairness of `Tick` only: `_tick_loop`
runs for as long as the process does. `L2tpPair` assumes that daemons are
started (systemd, `Restart=on-failure`), that an event loop takes
what has arrived, and that the tick loop runs. The last two are weak fairness of the steps that use up no
bound; it is written as `[]<>~Busy \/ []<><<UNCHANGED used>>_vars`, with the enabling condition spelled
out, because TLC evaluates `ENABLED` of these steps a hundred times more slowly. Nothing is assumed of the network's
faults, early timeouts, the operator or the HELLO timers; as faults are bounded, what is not lost arrives.
`AnyPeer` assumes, written in the same way, weak fairness of the tick loop and of an armed HELLO timer (`call_later`) taken together, and nothing of the peer.

Conditional properties. `NetdevIffEstablished` and `NetdevInLiveTunnel` speak of processes that run since the
start, commands that succeed, and configured cookies that are not empty (`ip l2tp` refuses those): after a crash the kernel keeps what the process left, and a failing
`ip` command is logged and otherwise ignored, by design. What exactly it costs is said by
`NetdevOfHandshake`, `NetdevOutlives` and `NetdevMissing` of `AnyPeer`: each exception in them names the failed command, and one
the cookie of an earlier handshake, without which it would be `NetdevIsCurrent`, the property that `old_cookie` refutes. Between two daemons
that run, sessions that are up go down by a CDN, a local close or a dead peer only, and a tunnel with netdevs by a dead peer only; StopCCN, an SCCRQ while
up and the end of the process are the business of `AnyPeer` (`NetdevOutlives`). With a restart
of the peer `NetdevInTunnel` fails, which is the finding
`late_session`. `SettledSessionsAgree` is checked on a network that does not
reorder; if it does the property fails, which is the finding `reordered`.
`SignedMeansSent` excepts the M bit of the digest AVP itself, which the receiver's new encoding does not keep.

## 4. Proofs

`SeqArithProofs` proves `DeltaLemma`: for counts whose distance is within half
the number space, `seq_delta` of the reduced numbers is the distance of the counts.

`ReliableChannelProofs` proves, for every even width, window, retry budget, set of senders and
bounds that meet `ModulusAssumption`, `PeerAssumption` and `ChannelAssumption`:

* `IndInvHolds`: `Spec => []IndInv`
* `TypeCorrect`, `ExactlyOnceInOrderHolds`, `NothingForgottenHolds`, `BufferInWindowHolds`
* `Refinement`: `Spec => Fifo!Spec`, the abstract channel's specification

The argument. None of the properties is inductive: that a message with the
expected number is the next one holds only because no datagram is
old enough for its number to mean a different message. `IndInv` therefore ties every
reduced number to a full count. `PeerShape` says that `ns_send` and `nr_expect` are the
counts of messages sent and taken, reduced; that the send queue holds exactly
the messages from the first unacknowledged one on, with their numbers; and that an
occupied slot of the reorder buffer holds the message of that number within the
window. `DatagramInv` says that the numbers in a datagram are reduced counts
no older than `MaxAge`. With that, `DeltaLemma` turns
every comparison in `receive` and `_consume_acks` into a comparison of counts.
One lemma per method of `Peer` (`SendShape`, `ConsumeShape`, `AcceptShape`,
`ReceiveShape`, `TickShape`) shows that it preserves `PeerShape`, without the
network; one per action lifts it to the composition; the
refinement then only needs that `Send`, `Receive` and everything else map
to sending, taking and acknowledging, or stuttering.

`PeerProofs` has one lemma per method of `Peer` that assumes nothing of the other end: numbers stay in
range, the slot of the expected message is free (so the drain loop of `receive` ends), and the retry
budget is exceeded only by a dead Peer (`PeerOK`).

`TunnelProofs` has one lemma per entry point of `main.Tunnel` (`StartOK`, `CloseOK`, `HandleDatagramOK`,
`HelloTimerOK`, `TunnelTickOK`, `SessionCloseOK`), for every configuration with the loader's guarantees
(`ConfigOK`: no session ID is 0, and the order of the sessions lists configured ones), every datagram whatsoever and every
set of failing `ip` commands. Each says `CallOK`: the call preserves `TunnelOK` (types), `HelloOK`
(timer and state agree) and `KernelOK`. They rest on one lemma for every event of the two state
machines (`MessageStep`, `FsmSteps`), one for every dataplane operation, and one for `_execute_actions` (`ExecuteOK`).

`AnyPeerProofs` concludes, for every configuration, set of messages, set of failing commands and all bounds that
meet `AnyPeerAssumption`:

* `TypeCorrect`, `HelloTimerFollowsState` (`HelloIffEstablished`)
* `NetdevNegotiated` (`NetdevOfHandshake`), `NetdevWithdrawn` (`NetdevOutlives`), `NetdevPresent` (`NetdevMissing`)

`L2tpPairProofs` concludes, for all scenarios that meet `PairAssumption`, with any number of faults, stops,
crashes and restarts: `TypeCorrect`, `HelloTimerFollowsState` and `NetdevFollowsSession` (`NetdevIffEstablished`); and about both
ends together

* `HandshakeHolds`: `Spec /\ []Unwrapped => []Handshake`
* `NoNetdevWithoutTunnel` (`NetdevInLiveTunnel`), `SettledEndsAgree` (`SettledTunnelsAgree`), under the same hypothesis

The argument for one end. The three netdev properties are not inductive: whether a session that comes up finds
the netdev of its former life depends on the dataplane's dictionaries, which none of the properties mentions.
`KernelOK` adds them. A tunnel that counts as added is recorded, and recorded means
present in the kernel; a recorded session is in the kernel; and a session of the kernel is recorded unless `link_up`
failed for it (`NetdevOK`). What the failures so far explain is a parameter of it, the history variable `failed`, and a
lemma (`NetdevFrame`) says that more failures explain more. `KernelOK` speaks of the parameters that the session remembers; `OfferOK` relates
these to the messages: in a handshake the session ID is the one it carried, and so is the cookie if it carried one; otherwise the cookie is none or comes from an
earlier handshake. It is kept because a session enters a handshake only by learning from an ICRQ or ICRP (`SessMoves`, proved of every handler by `MessageMoves` and
of `handle_datagram` by `HandleDatagramSess`), and no other call teaches it anything (`CallsKeep`). In `L2tpPair` the same
invariant with no failure (`KernelExact`) is an equivalence; it is
kept while no process has ended (`Undisturbed`), since a process that starts on the kernel of another one
knows nothing of it. No step looks at the contents of a datagram beyond the conditions of the code, nor at the bounds: so loss,
duplication, reordering and arbitrary senders are covered.

The argument for both ends. That the ends agree once everything is acknowledged says nothing of the states
before, so it is not inductive; nor is it enough to know the two states, because a message may be queued, under way,
buffered, or merged with a later one. `Handshake` relates them by counts: `Phase` gives the number of messages an end
has sent, and the states it can be in, by the number it has taken; `Kinds` the types that a message of a number can have; `Traffic`
says that what is queued, under way or buffered has such a type and acknowledges no more than was taken; `InStep` and
`HandshakeAcked` tie the counts of one end to those of the other. TLC checks `Handshake` in `lifetime`. The induction adds
only that queues and networks are sequences (`Pairing`). One end's part is in `PeerProofs` and `TunnelProofs`: `PeerMoves` and `Moves` say of a
call what it may send, queue and drop, in terms of a function from numbers to types, and are
proved for every method of `Peer` and entry point of `Tunnel` (`SendMoves` to `DispatchedMoves`). `PairMoves` then lifts a call of one end to the pair; what is left for each
action is the end that acts. The delicate one is `Receive`: a datagram that closes a gap releases several messages, which are
dispatched as one. The proof goes through the stage the end is in (`Arriving`, `TakePaired`): the first message of a batch is the one the end waits for, and what can
be merged into it is of a kind that only a session would have acted upon. That is why the tunnel survives reordering, while a session may not (`reordered`).

`Unwrapped` says that no end is within a step of the last sequence number. With 65536 numbers that is the case for
more than a month of HELLOs after the handshake; TLC finds it true in `lifetime`, with 16 numbers. Beyond it the
counts are no longer the sequence numbers: telling them apart is what `ReliableChannel` does, by history variables that `L2tpPair` has not.
`Handshake` is about the first lifetime of both processes: after a restart it is false, as `peer_restart` and `late_session` show.

`AvpProofs` and `WireProofs` are about the bytes. They assume `NotNumbers` (None and a negative integer are
not among the numbers) and `WireAssumption`: the documents are built of the values that `IsToml` describes, sequence numbers
have 16 bits and the session ID that a message names 32 (it was read from an AVP of that width), the Random Vector has the 16 bytes that its factory asks for; `AbsentAssumption`, that None is no value of a kind that messages are made of (number,
list, result code, AVP, receiver's record); `KeystreamAssumption`, that `_generate_keystream` returns bytes. Masks and files are arbitrary, so are the bytes of the keystream and the number
of AVPs, tunnels and sessions.

* `DecodeEncoded`: `decode_one` inverts `encode`, wherever the bytes stand (and `EncodeDecoded` the reverse, `PackUnpack` and
  `UnpackPack` the same for numbers)
* `DecodeHidden`: `decode_one`, given the random vector that an AVP was hidden with, finds the AVP
* `MessageInjective`: `encode_message` is injective on headers in range and lists of AVPs that are not hidden
* `TypeCorrect`, `DecodingIsCanonical` (`Canonical`), `VerifiedIsSent` (`SignedMeansSent`)
* `RoundTripHolds` (`RoundTrip`): an undamaged message is never refused by an end that agrees on the secret, and each field that its parser reads is the one that
  configuration and state machine gave, for all nine kinds of message, ZLBs, and messages with a hidden AVP
* `UncheckedRaises` (`OnlyUncheckedRaise`): for every accepted file, a message that cannot be built or encoded has a name of more than 1017 bytes or a speed
  outside 64 bits in its configuration; and an end with a password reads every datagram, however damaged, without an exception that nothing catches

The argument. `FlattenSeq`, which joins the encodings, is a recursive function; `JoinsExists` and `JoinsUnique` show by induction on its domain that there is
exactly one, and from then on only `FlattenAppend` and `FlattenPrefix` are used. `EncodeBytes` and `HeaderBytes` write
encodings down byte by byte. `Canonical` alone is not inductive: that the next AVP has the bytes `decode_one` read
needs the position inside the buffer and every AVP in range, and that the sender's bytes are bytes needs the ranges of the
loaded configuration. `DecodeInv` has both: `LoadType` gives `TunnelTyped` to every accepted file, `FieldsType` carries that to what the builders
are given and `BuildType` to AVPs; `DecodeRound` is the step of `decode_sequence`. For `SignedMeansSent`, `SignInv` adds that
a digest was computed over a list of built AVPs with a zeroed digest after it, none of them a digest itself, and that without a secret no hidden
AVP is decoded. At verification both encodings are equal, so by `MessageInjective` both lists are: the digest is the last AVP of what was
received, the only one, and the others are those sent (`DigestCovers`). Two different lists have a first difference; up to it their encodings agree, so
`decode_one` would have to return both AVPs there (`EncodeAllInjective`).

For `RoundTrip`, `RoundInv` adds what is true of every message when it is sent (`MessageSent`: it is short enough for its length field, its AVPs can be read back, and it
carries the digest of its own bytes when it is signed) and that what has been decoded of an undamaged datagram is where that message begins (`Along`). `NextFollows`
and `NextReadsBack` are the round of `decode_sequence`: it reads the next AVP; a hidden one because the Random Vector
stands before it and has become the receiver's, and because masking twice with one keystream is the identity (`XorTwice`, `HideUnhide`). At the end
of the buffer the whole message has been read (`AlongEnds`), its header too (`HeaderReadsBack`), and the digest that
an agreeing end computes is the one it carries (`SignedVerifies`). What is left is about values: that each builder is given what its
parser insists on (`FieldsComplete`), and that each field, packed by the one, is what the other unpacks (`BuiltReadsBack`, `CompleteUnderstood`).

For `OnlyUncheckedRaise`, the typing of an accepted file is not enough: it needs the limits that the loader checks (`TunnelRanged` and `SessionRanged`, parts of
`TunnelTyped`). With them, and nothing `Unchecked` among the tunnels, every field of every message is one that its factory takes and at most 1017 bytes long
(`Sound`, `FieldsSound`); a message has at most a dozen AVPs, which fit its length field (`FlattenBound`, `ShortEncodes`), so sending does not raise
(`SendRaises`). For the receiver, `RaiseInv` puts `SignInv` and `RoundInv` together: a datagram that gets past verification is the one sent, and its
Message Type decodes (`VerifiedDecodes`, `ParseRaises`).

Only model-checked: liveness (`EventuallySettled`, `TunnelComesUp`,
`SessionsComeUp`, `SilentPeerNoticed`), because TLAPS does not handle fairness;
`SettledSessionsAgree`, `CrossConnected` and `DeadOnlyAfterFault` of `L2tpPair`, which are true of the scenarios of their runs and not of
all: `reordered` and `signed` refute two of them, and `CrossConnected` needs that the two configurations belong together; and `DamageCaught` of `Wire`, which
depends on the damage where there is no password: a mask that turns the length of the Message Type AVP and of its successor into another pair that fits
would be an exception, and only the bits and lengths of `MCWire` are claimed.

## 5. Findings

* `reordered`: `handle_datagram` dispatches all AVPs that `receive` delivers as
  one message. When a datagram overtakes another (ICRQ before SCCCN), the second message is acknowledged
  and never acted upon, and its session waits for ever.
* `both_open`: two daemons as in the example configuration both open the tunnel;
  the SCCRQs cross, both tear down, and nothing opens the tunnel again. (`config.py:81`
  documents complementary initiator flags for sessions, so two session initiators are
  outside the contract; for tunnels there is no such flag.)
* `signed`: with a password, retransmissions and ZLBs are sent unsigned and
  dropped by the other end. The tunnel is given up on a perfect network: with the default
  timing 1+2+4+8+16+16 = 47 s after the first message that nothing but a ZLB
  acknowledges, before the first HELLO at 60 s.
* `peer_restart`: a restarted opener's SCCRQ has Ns 0, which the other end takes for a
  duplicate. It is acknowledged and not delivered, so the documented handling of a peer's
  restart is never reached.
* `late_session`: session messages are acted upon whatever the tunnel's state, so a netdev
  can appear in a tunnel that is not established.
* `old_cookie`: the cookie learned from a peer is never reset. When a session is opened with a cookie, closed and opened again
  without one, its netdev gets the cookie of the earlier handshake and not the configured one.
* `config`: the loader, which promises that the daemon "never sees malformed input", accepts
  two tunnels with one `local_ccid` (the daemon serves the second only), names of more than 1017 bytes and
  session speeds that are negative or beyond 64 bits (an exception when the first message is built, which
  nothing catches), and empty cookies, which `ip l2tp` refuses. It also accepts, and has for a default, `remote_ccid` 0, "learned
  dynamically": the SCCRQ is then addressed to control connection 0, `Daemon._dispatch_datagram` finds no tunnel of that ID (the
  loader refuses 0 for `local_ccid`), so the other daemon never answers and there is nothing to learn from. `UncheckedRaises` proves that of the exceptions there are no others.

Observations without a run. Twenty of the rejected files end in a `ValueError` or `TypeError` of a conversion
instead of a `ConfigError`, which is all `main` catches. `tx_connect_speed` and `rx_connect_speed` of a tunnel are
read and never used. A message whose Message Type AVP has not two bytes is not dropped like other malformed ones: `get_message_type`
raises outside of the `try` block of `handle_datagram`, which ends the daemon, with status 0 (so that systemd's `Restart=on-failure` does not start it again).
`AnyPeer` has that step, and its properties hold of it: the tunnel is closed and the netdevs are removed.

## 6. Not modelled, and the plan

Not modelled: `UdpTransport` and `LoopbackTransport`, `MockDataplane`, logging and `sd_notify`,
which are I/O or test doubles; the computation of MD5 and HMAC, which are taken as functions with the properties
above; TOML syntax; netdev names and `l2spec` options of the `ip` commands. Several tunnels in one daemon
are modelled as far as the table goes (`Load` in `Wire`): apart from it they share only the socket and dictionaries with
the tunnel's ID in every key, so a joint state space would be a product. Nothing in the code reopens a tunnel that has
gone back to `IDLE`, so there is no property of recovery beyond `SilentPeerNoticed`.

What could come next: an invariant of the session handshake as there is one of the tunnel's, for networks that do not reorder.
