# Streamix RTS in TLA+

The Streamix runtime system (RTS) runs a program of *nets*, one thread each, that exchange
messages through *channels*. This directory specifies its concurrent core and its configuration
in TLA+, checks the specifications with TLC on small instances, and proves with TLAPS, for every
instance, safety properties of channels and their rings, of routing nodes, of networks of nets, of
temporal firewalls and of the start of nets. All modules are translated from the code under `src/`; code
is cited as `file:line`, with `smxch.c` for `src/src/smxch.c` and so on.

## The system

| Component | State | Operations | Talks to |
|---|---|---|---|
| channel, FIFO, guard (`smxch.c`) | ring of messages, backup, counters `overwrite` and `copy`, the guard's timer; for each end a state (UNINITIALISED, PENDING, READY, END), an error, a condition variable, a timeout, filters; one mutex | `smx_channel_read`, `smx_channel_write`, `smx_channel_set_backup`, filters and timeouts, `smx_channel_terminate_sink/_source` | the two nets it connects; the collector of a routing node |
| collector and routing node (`box_smx_rn.c`, `smxnet.c:25-77`, `smxch.c:245-260`, `582-593`, `635-652`) | count of messages, count of producers, state, mutex and condition variable; the index read last | `smx_net_collector_read`, `smx_rn`, `smx_collector_terminate` | its inputs and their producers, its outputs |
| temporal firewalls (`box_smx_tf.c`) | a timer and a list of (input, output) channels in one net | `smx_tf_propagate_msgs`, `smx_tf_wait` | producers and consumers of all its pairs, partly around the channel functions |
| start of the nets (`smxnet.c:475-627`, `smxrts.c:340-352`) | the net mutex and the list of shared states, two barriers, each net's configurations | `smx_net_start_routine_with_shared_state` | all nets, through barriers, mutex and configuration ports |
| main loop and termination (`smxnet.c:629-747`) | the state of the loop | `smx_net_update_state`, `smx_net_terminate` | neighbours, by the states of shared channels |
| program (`smxrts.c`) | configuration, arguments, nets, channels | init with its map files, run, cleanup | sequential, in the main thread |
| net properties (`smxnet.c:176-376`) | none: reads of the configuration | `smx_net_get_*_prop`, `smx_net_get_json_doc` | `smx_net_create` |
| configuration data maps (`smxconfig.c`) | a list of maps with their source iterators, payloads and fallbacks; the target and the mapped payload | init, apply (basic or extended), prefix, look-up by key, cleanup | the program's init; boxes |
| messages (`smxmsg.c`) | id, type, payload, `prevent_backup` | create, copy, destroy | owned by one net or channel at a time |
| profiler, tracepoints, logging, test stubs, utilities | none that is read back | | |

A consumer reads from a channel's `source`, a producer writes to its `sink`. The state of the
source is what the consumer waits for, and is changed by the producer; the state of the sink the
other way round. Four channel types combine a blocking or a decoupled ("lossy") input with a
blocking or a decoupled ("repeating") output.

What is hard here:

* **interleaving**: two threads of a channel, with sleeping, signalling, timeouts and
  termination; producers that raise a collector while the routing node looks at it without locks;
* **ordering**: the several places that look at the state and the fill of a channel one after the
  other without its mutex (`smxnet.c:44`, `smxnet.c:718`, `box_smx_tf.c:143`);
* **failure during the start**: six ways to give up, each of which must pass the right barriers;
* **liveness**: nobody is left asleep when a neighbour ends, and the end of one net has to reach
  all that depend on it, in both directions and whatever the shape of the network;
* **stale state**: data maps are applied again and again, in place, by iterators and payloads that
  earlier rounds have set;
* no persistence and no network: nothing crashes and restarts, and messages are lost only where a
  channel discards them.

What makes each component correct: a *channel* is a bounded queue that delivers what it accepted,
in order and once, and tells its end last, with no thread left asleep and no message leaked or
freed twice; the *collector* counts the messages in its channels and the *routing node* drains,
serves fairly and treats all outputs alike; a *firewall* keeps the order of the stream and lets
each pair end on its own; the *start* keeps its phases apart and lets everybody through; a *net* ends when all the producers it waits for or all its consumers
have, with its inputs read, and not before; a *mapped payload* is what each map of the list makes of the last payload, and
a *net's properties* are those of the most specific place that has them.

## Modules

| Module | Models | How |
|---|---|---|
| `SmxFifo` | the channel record and the functions that run with `ch_mutex` held | pure operators from channel to channel: `FifoRead` is `smx_fifo_read`, `DFifoWrite` is `smx_d_fifo_write`, `SetState` the change of an end's state with its signal, ... `XMsg` is the message that function `X` returns |
| `BoundedChannel` | *abstract*: what a channel promises | a queue that accepts, replaces (lossy only), delivers, closes, is abandoned, tells its end |
| `SmxChannel` | one channel, its producer and its consumer | one action per stretch of `smx_channel_write` and `smx_channel_read` between two releases of the mutex |
| `SmxChannelRing` | the ring of slots beneath a channel, from its creation until it is freed | beside `SmxChannel`: each write and read changes both, the ring by its own links and counter |
| `SmxNet` | the main loop and the end of the nets of a network of any shape | one action per port of each loop: box, `smx_net_update_state`, `smx_net_terminate` |
| `SmxBson` | libbson, as far as `src/` uses it (external) | documents as sets of nodes |
| `SmxConfigMap` | data maps | pure operators: `InitMaps`, `Apply`, ...; `Expected` says the same of the list node by node, without the code's loops and kept payloads |
| `SmxProgram` | a program from its files to its nets and its end, and a box that uses maps | one action per file, net and call |
| `SmxRoutingNode` | a routing node, its inputs, producers and outputs | the same, with the write split where the routing node can look: message stored, collector raised, reader notified; one action per unlocked look |
| `SmxTempFirewall` | the pairs of one timer, their producers and consumers | one action per look of `smx_tf_propagate_msgs` and per critical section |
| `SmxStartup` | all nets from their start to their main loop | one action per way from one blocking call to the next |
| `SmxFifoProofs` | lemmas about the operators of `SmxFifo` | TLAPS |
| `SmxChannelProofs` | theorems about `SmxChannel`: types, fill, wake-ups, errors, ends; it implements `BoundedChannel`; the order, loss, owners and copies of its messages | TLAPS |
| `SmxChannelRingProofs` | the ring holds the sequence | TLAPS |
| `SmxNetProofs` | theorems about `SmxNet`: types, causes of an end, messages left | TLAPS |
| `SmxRoutingNodeProofs` | theorems about `SmxRoutingNode`: types, fairness, outputs, collector, what is routed | TLAPS |
| `SmxTempFirewallProofs` | theorems about `SmxTempFirewall`: types, ends, the window of loss, order | TLAPS |
| `SmxStartupProofs` | theorems about `SmxStartup`: types, phases, shared states, configurations | TLAPS |
| `SmxProgramProofs` | theorems about `SmxProgram`: what applying data maps gives, shapes, types, properties of nets | TLAPS |
| `MC...` | the instances TLC checks | definitions for the constants only |

`SmxFifo` is shared: `SmxChannel`, `SmxRoutingNode`, `SmxTempFirewall` and `SmxNet` build their critical
sections from the same operators, so that what is checked of a channel on its own holds of the
channels of the others. `SmxChannel` implements `BoundedChannel` under the refinement mapping
in its instance `Promise`.

Operators called *Mutant* in a comment are not part of the specification. Each is a plausible
mistake in the definition that follows it; replacing that definition by it makes TLC find a
violation of the property `PROJECT.json` names, which shows that the property depends on the code.

### State and actions

*Messages* are their position in the producer's stream and the flag `prevent_backup`; payload, type
and id are left out. The *ring* of fifo items is the sequence of its messages, oldest first: writing at
`tail` appends, reading takes from `head`, and writing to a full ring, whose `tail` is its `head`,
replaces the first element; `SmxChannelRing` has the slots themselves. The counters `overwrite` and `copy` are only ever compared with 0, and
are Booleans. A *condition variable* is the flag `waiting` of its one possible sleeper: a signal and a
spurious wake-up clear it, and the thread goes on, testing its condition again, when it gets the mutex. A
*timeout* may strike whenever its thread sleeps, also between a signal and the thread's
wake-up, and a timed wait may be refused at once (`EINVAL`). A *guard* is armed or expired; its
expiry is an action.

*SmxChannel.* The mutex is held from the first look to the return except during a wait on a
condition variable, so each such stretch is atomic. The one exception is `smx_guard_write`, which sleeps
*with* the mutex: while `writer.pc = "guard"` the consumer can neither read, wake up nor terminate. Looks
before the mutex (filters, `msg == NULL`) touch only what the producer's own thread changes, the
content filter aside, which is set before the nets start. `got` and `dropped` are history
variables: the messages the consumer got, and those freed, with what the write returned.

*SmxRoutingNode.* `rn` walks through `smx_net_collector_read`, `smx_rn`, `smx_net_update_state` and
`smx_net_terminate`. `ChLocked(i)` is the mutex of input `i`, taken by its producer between storing and
notifying. `CollectorLeave` and `CollectorTerminate` are the two critical sections of
`smx_collector_terminate` with the unlocked test between them. A write to an output is one step that
delivers, or drops because the consumer has terminated, as `SmxChannel` shows; that an output may
block for a while is not repeated here.

*SmxTempFirewall.* `TfLookCount`, `TfLookState` and `TfLookOut` are the three unlocked operands of the
condition at `box_smx_tf.c:143-145`. Inputs have a decoupled output and outputs are `D_FIFO`s, as
`box_smx_tf.h` demands (`box_smx_tf.h:128` says of the outputs just "decoupled": a `D_FIFO_D`, which its
consumer reads with repetition, is left out). `smx_tf_wait` only paces the rounds, and any pace is allowed.

*SmxChannelRing.* Slots are numbered as they are allocated, `prev` and `next` are functions on them. The
ring decides by `ring.count` where the channel decides by the length of its sequence. `DestroySlot` is a
turn of the loop of `smx_fifo_destroy`, possible when both nets have ended.

*SmxNet.* `graph` gives each net its ports, some of them open, each channel its type and length, the
nets that are disabled, and those whose box ends by itself after a number of loops. A net walks through its
ports: those of the box (`read`, `write`), of `smx_net_update_state` (`ins`, `outs`, with the ports counted
as done in `doneIn` and `doneOut`) and of `smx_net_terminate` (`termIn`, `termOut`). The two looks of
`smxnet.c:718-719` are one step: once the state is END nobody but the net itself changes the fill. The box is
the user's; the one modelled reads every input once, and writes a message to every output when it got one
or has no inputs. Messages are all alike. `doomed` and `why` are history variables; `Doomed` is the least
set of nets that have to end, by the code's rule.

*SmxConfigMap, SmxProgram.* A BSON document is the set of its nodes, each with its path, type and value; values
are integers (a double counts halves, so that the loss of a fraction is visible). An iterator of a source is the
number of the round in which it was set. Where the code leaves `type` uninitialised (`smxconfig.c:702`) the model
takes any value of `Garbage`. A loop over a list and the recursion of the extended mode (`ApplyExtIter`, over the paths of the
target) are recursive functions. `Document`, `MapList` and `Program` say what is given: a document has each key
once, its nodes below containers; a target of a map has at most one `path` and one `type`. `SmxProgram` runs through
`smx_program_init`, `smx_net_create` for each net in any order, and a box that makes maps of its net's configuration, gives
them payloads and prefixes and applies them to the payloads of messages. Boxes are not in `src/`: theirs are the
calls `smxconfig.h` offers. Files are given: readable, broken off or missing.

`Expected` reads the list of maps as a person would: each map has its own payload or else the message's, and what it gives its target
is said for each node of the target alone. The code does otherwise in one place, and the model follows it: once a map has a payload of its own,
all maps behind it are fed with that (`smxconfig.c:35-37`, and lines 348-353 in the extended mode), and not with the message. No document says
which payload they should have, so `MappedByLastPayload` is stated for the lists in which such maps come last (`OwnPayloadsLast`); for the others
it would not hold, and the hazard is listed as covered by no property. And in the basic mode a map without any payload is skipped
before its target is reset (line 39), so its target keeps the value it had: `ExpectedBase` says so in the open, with `before`.

`NetsFollowFiles` includes broken files: `smxnet.c:317-325` leaves what was read of a file in `static_conf` and looks at the less specific
levels. A level that loads wins over what a broken one left; where none loads, the net is created with the rest of the least specific broken file.

*SmxStartup.* A `Role` says what a net is configured to do and which of its steps fail. `arrived`
counts the threads at each barrier; a barrier opens when all nets have come. A net keeps `net_mutex`
when its `init_shared` fails, as the code does. A net's `init` may write to its output ports, and also when it
fails in the end: then any of the configurations it was to send may be out before. The configuration port is assumed to block, and
`smx_channel_set_filter` on it is two steps, so that a message sent in between may be rejected. The comparison
with memory not yet written could also crash; that outcome is left out.

## Runs

| Run | Constants | Shows |
|---|---|---|
| `channel_safety` | all 4 types, lengths 1 and 2, guarded or not, timeouts on, 3 writes, 3 reads, both values of `prevent_backup`, filters | `TypeOK`, `StateAgreesWithFill`, `NeverUnexpected`, `NoLostWakeup`, `OneOwner`, `OrderedDelivery`, `NoSilentLoss`, `EndOfStreamIsTrue`, `CopyIsLatest`, `EndIsFinal`, and the refinement `ImplementsQueue` |
| `channel_live` | the same channels without timeouts, with their rings | `RingHoldsFifo`, `EveryReadReturns`, `EveryWriteReturns`, `EveryMessageIsRead`, `ImplementsFairQueue` |
| `channel_order`, `channel_error` | a `D_FIFO` of length 2; all timed channels | *violated*: `FifoOrder`, `FailedWriteHasCause` |
| `network` | 4 nets and 4 channels of length 1: a pipeline with a side input, a fork that is joined, a loop with two open ports, a chain in which one net has an open output beside the connected one; each net as the one that ends or is disabled | `EndHasCause`, `NothingLeftUnread`, `EndSpreads` |
| `rn` | 2 inputs (`FIFO`, `D_FIFO`), 2 outputs, 2 writes each | `CollectorAgrees`, `ReadNeverFails`, `CollectorWakeup`, `DrainsBeforeEnd`, `AllRouted`, `OutputsAgree`, `BoundedBypass`, `EverybodyEnds` |
| `rn_decoupled` | inputs may be `FIFO_D` | *violated*: `DrainsBeforeEnd` |
| `tf` | 2 pairs with 1 message each; a stream of 2 or 3 messages through one of them, with and without duplication, input lengths 1 and 2 | `NeverOlder`, `LossOnlyBetweenLooks`, `EndsIndividually`, `EverybodyEnds` |
| `tf_end` | 1 pair | *violated*: `EndAfterLastMessage` |
| `startup` | 3 nets, 1 key; every program of nets that share a state, and of nets that wait for configurations | `PhasesApart`, `OneSharedState`, `RunsConfigured`, `StartupCompletes` |
| `startup_mutex` | 2 nets with one key, `init_shared` may fail | *violated*: `EveryNetThrough` |
| `config` | sequences of up to 3 map files, broken ones too; 2 nets; a box with up to 2 maps out of 12, 2 rounds, 4 payloads; a third net that has no place in the array of nets; files of nets that break off, with and without a level that loads | `MappedByLastPayload`, `ShapeKept`, `SrcIterFresh`, `ExplicitTypeWins`, `NetsFollowFiles` |

The
violated properties are quotations: each states what a comment or the changelog says, next to which
`PROJECT.json` ("findings") says what the code does instead. The passing properties beside them say
what does hold: `OrderedDelivery` where `FifoOrder` does not, `DrainsBeforeEnd` for coupled inputs,
`StartupCompletes` where no wait depends on a failure, `LossOnlyBetweenLooks` for the one window in which
`EndAfterLastMessage` fails.

**Bounds.** `MaxWrites` bounds the messages a producer creates and `MaxReads` the reads the
consumer starts; nothing else is bounded, and all counters depend on these. Three messages through a ring of
at most two places fill it, wrap it and make the third one wait or overwrite; three reads take all of
them, or find the end, a copy or nothing. Two inputs are enough for one to be passed over, for
both producers to leave at once, and for the collector's count to differ from what the scan finds; two outputs
for one to be ahead. Three nets are needed for a chain of configurations and for a third net that
is held up by the other two; there is at most one failing net and one net with a type filter among
programs with configurations. Two firewalls are needed for one pair to outlive the other. Four nets are
enough for an end to travel over a net in between, to arrive on two ways at different times, to be held back
by an open port (the net of the chain whose only consumer has ended goes on for its open output, `smxnet.c:740`), and to come back to where it started; channels of length 1 block soonest. Boxes that end by
themselves do so after one or two loops, so that the end finds channels empty, full and in use. Two maps in a
list are enough for one to overwrite, to hide or to leave something to the other, and two rounds
for a value, an iterator or a payload to be stale; lists of three exceed `MaxMapItems`, the bound of 2 that stands for 1000
(`SMX_CONFIG_MAX_MAP_ITEMS`, `smxtypes.h:20`), and a third net exceeds `MaxNets`, which stands for `SMX_MAX_NETS`, and is not made. `MaxRounds` bounds the rounds. In `channel_safety` all channels have both timeouts: since a timeout may always
come later than what the thread waits for, those channels do whatever channels without timeouts do. The ring runs
beside the channels of `channel_live`: a timeout touches no slot, and three writes and reads take `head` and `tail`
round a ring of one or two.

**Fairness.** Weak fairness of each thread: the code blocks only on condition variables and on mutexes that
are held for finite stretches, and the threads are scheduled by the operating system. In `SmxNet` each net is a
thread that goes on when it can; whether a box with a limit ends before it is reached is left open. In `SmxStartup` weak fairness suffices for
the net mutex as each net takes it once. `GuardExpires` is fair because a timer is. Fairness says nothing of spurious
wake-ups or of consumers that decide to terminate. `WF_vars(WriterRuns)` makes a net go on to write, read
or end: a box implementation that never returns promises nothing.

**Deadlock** is checked in all runs but `config`, a sequential program that comes to its end, and the two of `SmxStartup`, where a program may stop
for the reasons its findings and hazards give, and where all nets end without a further step.

## Proofs

`SmxChannelProofs` and `SmxChannelRingProofs` prove, for any set of channel shapes (any lengths), any bounds, any values of
`Prevent` and `Filters`, from the assumptions `NoMsgAssumption`, `ShapesAssumption` and
`BoundsAssumption` only:

* `TypeCorrect`: `Spec => []TypeOK`;
* `FillSafety`: `Spec => []StateAgreesWithFill`;
* `WakeupSafety`: `Spec => []NoLostWakeup`;
* `NoUnexpectedError`: `Spec => []NeverUnexpected`;
* `EndOfStreamSafety`: `Spec => []EndOfStreamIsTrue`;
* `EndFinality`: `Spec => EndIsFinal`;
* `Refinement`: `Spec => ImplementsQueue`, the channel implements the bounded queue;
* `Ownership`: `Spec => []OneOwner`;
* `OrderSafety`: `Spec => []OrderedDelivery`;
* `LossReported`: `Spec => []NoSilentLoss`;
* `CopySafety`: `Spec => []CopyIsLatest`;
* `RingSafety` (in `SmxChannelRingProofs`): `RSpec => []RingHoldsFifo`.

`SmxNetProofs` proves, for any set of networks (any nets, channels, ports and types) with
`NetworkAssumption` and `ConnectionAssumption`, that a channel connects one port to one port:

* `TypeCorrect`: `Spec => []TypeOK`;
* `CauseOfEnd`: `Spec => []EndHasCause`;
* `NothingLeft`: `Spec => []NothingLeftUnread`.

`SmxStartupProofs` proves, for any finite set of nets, any keys and any roles (`StartupAssumption`):

* `TypeCorrect`: `Spec => []TypeOK`;
* `PhasesKeptApart`: `Spec => []PhasesApart`;
* `StateShared`: `Spec => []OneSharedState`;
* `RunningConfigured`: `Spec => []RunsConfigured`.

`SmxTempFirewallProofs` proves, for any number of firewalls with channels of any length and producers of any number of messages
(`FirewallAssumption`, `NoMsgAssumption`):

* `TypeCorrect`: `Spec => []TypeOK`;
* `IndividualEnds`: `Spec => []EndsIndividually`;
* `LossWindow`: `Spec => []LossOnlyBetweenLooks`;
* `OrderSafety`: `Spec => []NeverOlder`, for timers with `Orderly`: rings that overwrite (all outputs and the `D_FIFO_D`
  inputs) have length 1. A longer one reorders when it overwrites, as `channel_order` shows of a single channel, so
  without `Orderly` the property is not to be expected; all timers of the run have it. Inputs that block may have any length.

`SmxRoutingNodeProofs` proves, for any number of inputs and outputs, channels of any length and producers of any number of
messages (`RoutingAssumption`, `KindsAssumption`, `NoMsgAssumption`), of all four channel types:

* `TypeCorrect`: `Spec => []TypeOK`;
* `BypassBound`: `Spec => []BoundedBypass`;
* `OutputSafety`: `Spec => []OutputsAgree`;

and, where no input has a decoupled read end (`Coupled`: the inputs are `FIFO`s and `D_FIFO`s, in any mixture):

* `CollectorSafety`: `Spec => []CollectorAgrees`;
* `ReadSafety`: `Spec => []ReadNeverFails`;
* `WakeupSafety`: `Spec => []CollectorWakeup`;
* `DrainSafety`: `Spec => []DrainsBeforeEnd`;
* `RoutingSafety`: `Spec => []AllRouted`.

`Coupled` is needed: `rn_decoupled` shows a node with one `FIFO_D` input that ends with messages left, because a read that finds the
input empty lowers the collector's count. It is the hypothesis under which `rn` runs.

`SmxProgramProofs` proves, for any programs, documents, lists of maps, payloads, prefixes and nets, any number of map files and
of rounds (`ProgramAssumption`: all of them are what the code can be given, with the keys of a document unique):

* `ProgramInductive`: `Spec => []IInv`, the inductive invariant;
* `MappedPayload`: `Spec => []MappedByLastPayload`;
* `ShapesKept`: `Spec => []ShapeKept`;
* `IteratorsFresh`: `Spec => []SrcIterFresh`;
* `TypesExplicit`: `Spec => []ExplicitTypeWins`;
* `NetsFollow`: `Spec => []NetsFollowFiles`.

The argument. `TypeOK` alone is not inductive: `WriteStore` puts `writer.msg` into the ring, which is a
message only because a writer inside a write holds one. `Typed` is `TypeOK` and `WriterHoldsMessage`.
`StateAgreesWithFill` needs in addition that a thread that has left its wait loop (at "guard") has
space, and `NoLostWakeup` that a sleeper's end is `PENDING`: a state change signals (`SetState`), so whoever still
has `waiting` set has seen none. That both never sleep at once follows from the fill: one would need an
empty ring, the other a full one, and the length is positive. `Inv` is the conjunction. One lemma for each operator of `SmxFifo`
(`FillRead`, `FillWrite`, `ReadFrame`, ...) says what it does to a channel, and one lemma for each
kind of step uses them. `EndInv` adds that an error `NO_DATA`, `NO_SPACE` or `NO_TARGET` at an
end implies what the two theorems need, and that a source in state END means that the producer has ended.

The refinement needs two facts more, in `RefInv`. `Numbered`: what is in the ring or has been read is
older than the message being written (the queue accepts only newer ones). `Ends`: the sink's state is END
exactly when the consumer has ended, and a consumer that has been told the end does not sleep any more, so
that no later timeout replaces the error `NO_TARGET` and the queue's `ended` stays true. `StorePromise`,
`FetchPromise` and `EndPromise` map the steps: `WriteStore` is `Accept` or `Replace`, `ReadFetch` is
`Deliver`, `TellEnd` or a stutter (a copy, a missing default), the terminations are `Close` and `Abandon`,
and every other step, the `Quiet` ones, is a stutter.

The messages. `MessagesMove` reduces the steps to six things that happen to a message: none (`Rests`), it is made
(`Makes`) or taken by a filter (`Filtered`), given up (`GivesUp`), comes into the ring (`Comes`) or leaves it (`Leaves`).
`OneOwner` counts, so a message freed must not have been freed before: `Apart` says that freed messages are older than
the one being written and not in the ring, in which each message is once. `Ordered` is `FifoOrder` in three parts, so that reading
moves one message from one part to the next. `Latest` says of an empty ring what the backup is; of a ring with messages in it
nothing need be known, since the read of the last of them settles it.

The ring. `RingHoldsFifo` says nothing of the links, nor of the ring while it is being freed. `RingInv` adds
that `prev` and `next` are steps round the ring (`Linked`) and that the slots behind `head` are the ones freed
(`Freeing`). `Back(s, k, length)` is the slot `k` steps along `prev`; `BackSteps` and `BackReaches` are the arithmetic
modulo the length it rests on, `ReadHolds`, `WriteHolds` and `DestroyHolds` what each operation does to
`Agrees` and `Freeing`. That the ring's counter and the channel's sequence decide alike needs the channel's own invariant
`RefInv`, which `RingImplementsChannel` (the ring only runs beside the channel) carries over.

The end of nets. `EndHasCause` is not inductive: a net decides by what it counted a while ago. `Seen` says that a
port counted as done is done still (END is final, nobody writes to a channel with that state), `Told` that a
channel's END was set by the net at its other end, which is ending, and, for producers, past its inputs.
So a net that decides to end has neighbours that are ending, which by induction are all in `Doomed`, and
`Closed` takes it in (`CausedStep`). `NetMoves` says once what a step of any kind does to the net, `TerminateFrame` and
`NetCarries` what it does to the channels; `Reasons` relates the reason of an end to the ports counted.

The start. A barrier is a counter, so `Counted` says what is counted: each net that is behind the place from which it
comes to the barrier, once. Then an open barrier means that nobody is before it (`OpenAll`, cardinalities of finite
sets), and `Phases` that nobody is behind one that is closed. `Locked` says that the mutex is with the net that
allocates, or, for good, with one whose `init_shared` failed; `Listed` that a key is in the list of shared states once,
since a net that adds one has found none and holds the mutex since, and that a NULL state is the last; `Promised` that what a net has is in the list.
`Sourced` says that who sends has its own configuration and is at its init or behind it; a circle of nets that wait for one another is then
closed under "has not sent", so that none of them gets its configuration and runs.
`Moves`, `SentMoves`, `LookUpMoves` and `InitSharedMoves` say once what the steps do to each of these.

The firewalls. `Closed` ties the states of the channels to the threads that set them; the net terminates only when all
consumers have ended. `Told` follows a look to what is done with it: at the look at the state the input was empty a moment ago, or a message came
since (`between`); a net about to tell a consumer the end has `Settled` that its producer has ended, after which nothing comes any more, or that the
consumer has itself. `ProducerMoves`, `ConsumerMoves` and `TfMoves` (`Goes`, `Leaves`) say once what a step does to each firewall.

The order behind a firewall. `NeverOlder` compares neighbours in the pipeline from the consumer back to the producer; the
invariant compares all pairs, part by part, so that a step moves one message from one part to the next. `Passed` are the
positions that have left the input. `Ordered` says that each is before what is in the input, one by one, and none is newer than
`Sent`, so that the next message of the producer is newer than all of them. The backup of a duplicating input needs most: it is read
only from an empty input, and then it is the newest of `Passed` (when the input was emptied it was the message taken, and
nothing has passed since but itself). `Shaped` has what keeps an overwriting ring in order: it holds one message, so that a write
leaves only the new one. `OrderProducer`, `OrderRead`, `OrderTfWrite` and `OrderConsumer` are the four steps that move
messages, `OrderFrame` all others; `RisingConcat` puts the four parts of the pipeline together again.

The routing node. Two invariants. `FairInv` is for all channels: `Waited` trades how often an input was passed over for
its distance from the index read last, round the inputs (`Turns` is the arithmetic modulo `N`), and `Alike` says of each two
outputs which of them has the message in hand already. `CoupledInv` has six parts, each of which needs the ones before it.
`Typed` has the ranges of the loops. `Fits` is what `SmxChannel` shows of a channel alone, as far as it is needed between the split steps of a
write: an end that is not PENDING has space, a source that is PENDING is empty or about to be made READY. `Counts` ties the collector to the
rings: `CollectorAgrees`, its state to its count, and its number of producers to those that have left. `CollectorAgrees` is
about the cardinality of `Stored`, the places in all rings together; `StoredMore` and `StoredLess` say that a write adds one and a read removes one. `Finds`
follows the routing node from its look at the collector to the read: once it has seen a message, only it can take one away, so in what is left
of its scan there is an input that has one, and at the read there is one where it stopped. `Counts` and `Finds` need each other, for
only a read that finds something keeps the count. `Drains` does the same for the loop of `smx_net_update_state`: an input whose end was seen, and that was
empty afterwards, stays so. `Streams` follows each input's messages to each output, with what is in the ring and in hand between
them: for an input that blocks, ring, hand and output hold exactly the numbers 1 to `Accepted`, in order; for one
that overwrites, the last of them is among these. With `Drains`, nothing is in ring or hand at the end.

Data maps and programs. None of the five properties is inductive. `MapsInv` keeps the data maps tied to their list: `Sound` says
that they are typed, with sources and targets that are there (a box only changes payloads and prefixes, `ItemChanged`), and
that in the basic mode the mapped payload has the target's shape; `OfList` what each option has done and when the extended mode is
needed. `ConfInv` says that `conf` is `FilesConf`, what the files so far make of the application's, and `NetsInv` that each net follows `conf`;
`OrderInv` when there are nets and who has the maps. `IInv` is these, `TypeInv`, `MappedByLastPayload` and `SrcIterFresh`; TLC has been run
with all its parts as invariants on the instance of `config`.

What the code computes by a loop or by recursion is a recursive function of the model. The prover has no induction rule it can
use, so `SetInduction` gives one from the well-foundedness of the numbers: a set that has 0 and with each number the next has all numbers. It is
used twice for each function: to show that there is a sequence with the function's equation (`InitTgtLoop`, `InitMapsLoop`,
`ApplyAllBaseLoop`, `GetJsonDocLoop`, `FilesConfLoop`, `WalkExists`), and then that what it computes after `k` steps is what is
claimed: `OptionRead` and `MapsMade` for reading a list, `BaseStep` and `BaseApplied` for the basic mode, where `Written` is the value of a
node after the first `k` maps, and `WalkBuilds` for the extended mode, by the depth below a node: the walk builds, for the
children of a path, the union of the `Piece`s of those nodes that no replaced node hides, which at the root is `AppliedExt`. That
the result is a document again (`AppliedDocument`) needs that what is appended stays at its path and below (`Graft`) and that two
pieces meet nowhere. `Applied` is what both modes give an action (`AppliedBase` and `AppliedExt`, which have the code's choice of maps and payloads), and `AppliedAgain`
that applying changes nothing this depends on. What is expected is a different matter: `AppliedExpected` shows that with the payloads of
their own last the two agree. `FedByPayload` says that then each map is fed as it would be alone, `GivenIs` that what `Written` has of a
node after the last map is what the last map that is fed gives it (for which `Sound` has the fallback and the nodes no map touches), and
`ReplacedIs` that the extended mode replaces the same nodes.

Only model-checked: all liveness properties, `EveryReadReturns`, `EveryWriteReturns`, `EveryMessageIsRead`, `ImplementsFairQueue`,
`StartupCompletes`, `EndSpreads` and both `EverybodyEnds` (fairness and `ENABLED` are out of the prover's reach). Every invariant and
every action property of a passing run, and the refinement of the bounded queue, is proved.

## Not modelled

The profiler, tracepoints, logging and test stubs: output, or replacements for tests. Of the modelled parts: failing system calls
other than the refused timed wait, memory exhaustion, NULL channels and channel types outside the enum, the arithmetic of
deadlines, message ids, wrap-around of the counters, parsing of JSON (a file is whole, broken or missing), the
readers `smx_config_get_*` and `smx_config_init_*` (a look at one value without state), property paths with a dot in a
name. The types of routing nodes, firewalls and starts are proved and checked by no run.
Hazards that no property covers are listed in `PROJECT.json` with the reason.

## Plan

Done, in the order of importance: channel, routing node, firewall, start, ring, network, configuration. Next:

1. A firewall composed with a routing node (the collector is not told a single pair's end).
2. `SmxDeadline`: the arithmetic of `smxch.c:198-208` on bounded nanoseconds.
3. Message ids with the unlocked counter.
