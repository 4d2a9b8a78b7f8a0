# ElarmS / ShakeAlert in TLA+

This directory specifies the programs of this repository on the way from a
packet of samples to an alert: the waveform processor (`ElarmSWP2`, `datapkt`)
with its feeder and its sender; EPIC (`E2`), which makes events of triggers and
decides about their alerts; and the Decision Module (`decimod`), which groups
the messages of EPIC and other algorithms into events and publishes them.  The
modules are checked with TLC on small instances; theorems about seven of them are
proved with TLAPS.

## 1. The system

    seismic network --> waveform processors (ElarmSWP2, datapkt)
                             | triggers, ground-motion peaks (topics)
                             v
                        EPIC (E2)      FinDer, other algorithms
                             |              |
                             v              v
                        Decision Module "sa" --> Decision Module "dm" --> users
                                                      ^
                                                  DMReview (a person)

All programs are separate processes joined by ActiveMQ topics (`libamq`,
`dmlib`): non-persistent messages, which may be lost, come twice or be
reordered between publishers.

| Part | State it keeps | Operations | What makes it hard | What makes it correct |
|---|---|---|---|---|
| Decision Module, `decimod/DecisionModule.cpp` | `algo_messages` (last message of each source event), `delete_messages` (tombstones), `free_algo_messages`, `dm_events`, `next_event_id` | one loop: receive, expire events, expire tombstones, associate, publish, expire messages | messages in any order, three timeouts measured against clocks of others, expiry between a deletion and its publication | each message in one event; no dangling member; versions without gap; what is published is current, unless this very message was held before; a deleted event stays away |
| DM event, `decimod/DMEvent.cpp` | keys of the members, combined attributes, version, publish flag, last published values | add, remove, update, trial association, threshold | the trial changes the event it tests; two memories of "last published" | a trial leaves members and mean alone; limits hold where they are tested |
| EPIC alerts, `E2/E2Alert.cc`, `E2ModuleManager.cc`, `E2EventManager.cc`, `E2Event.cc` | events with a history of versions and flags that `incrementVersion` resets | loop: read, associate, alert, update, delayed alerts, remove old | three places alert the same event; throttling; verdicts that stand | first alert never withheld, alerts spaced, versions without gap |
| Event ids, both programs | a file with the next id | read and rewrite at start, rewrite per event | stop between `fopen("w")` and the write; disk full, then a stop | no id twice, but for those a failure or a stop has put at risk |
| EPIC associator, `E2/E2Associator.cc` | one array of triggers, in which also the group of a new event is built; the triggers of each event, a flag of split events | join an event, multi-station search forward and backward, two stations, one station | the array is written while it is read; a trigger may be reserved without being in an event; times of triggers are changed by another trigger | a trigger in one event at most, one per channel, stations of a new event go together, the search ends |
| EPIC triggers, `E2/E2TriggerManager.cc`, `E2AMQReader.cc` | `trig_buffer` between two threads, `trigmap`, updated triggers | arrive, insert or update, expire, delete with the event | two functions delete triggers that three containers point to | no trigger is used after removal |
| Waveform buffer, `datapkt/wp.cc`, `ElarmSWP2/ProcessBuffer.cc` | per channel: time of the last packet, a deque of packets, the index of the next sample | gap check, put, get | lost, repeated and overlapping packets; the front of the deque goes while an index points into it | every sample once, in order |
| Packet feeder, `datapkt/ewfeeder.cc`, `LockedQueue.h`, `DataChannel.cc` | a queue and a thread per group of stations, the map of processors, which is replaced when the channel file changes | read, push, pop, refresh, end of a replay | `if` around a condition wait; processors replaced while packets are in flight; shutdown order | no lost wake-up, the replay ends, and after its last packet |
| Sender of the waveform processor, `ElarmSWP2/EWP2Sender.cc` | two queues for each kind of message, packet id, send lock, shutdown counter | put, move, send, fail, monitor, stop | sends that fail half-way through a queue; stop at any time; three threads | nothing lost, repeated or reordered; flushed at stop; the null message last |
| Messages and senders, `dmlib` | one lock for all senders, message counters, heartbeat threads | send, heartbeat, forward, stop | exception while the lock is held, shared stop flag | lock released, ids distinct |
| Bridges, database, message bus client, utilities, vendored libraries | - | I/O | - | not modelled |

`PROJECT.json` lists every component with its sources and what is left out, and
the hazards at the line where they bite.

## 2. Modules

| Module | Models | Uses |
|---|---|---|
| `DMEvent` | one DM event as a record; the operators of `DMEvent.cpp` | |
| `DecisionModule` | the loop and all handlers of `DecisionModule.cpp` | `DMEvent`, `AlertStream` |
| `AlertStream` | the promise to subscribers: NEW, UPDATE..., DELETE per id | |
| `E2Alert` | the loop of EPIC from associated trigger to alert | `AlertStream` |
| `E2Associator` | triggers from the bus thread to their event and their end | |
| `EventIdFile` | the id and its file, with stops and failing disks | |
| `WaveformBuffer` | gap check and buffer of one channel, as operators | |
| `PacketFeeder` | the feeder: main thread, queues, workers, channels | `WaveformBuffer` |
| `WaveformSender` | the sender: queues, send thread, monitor, stop | |
| `MCDecisionModule` | instances after `sa.conf` and `dm.conf` | `DecisionModule` |
| `MCDeleteRetained` | a history variable: when a DELETE was received | `MCDecisionModule` |
| `MCE2Associator`, `MCPacketFeeder`, `MCWaveformSender` | the constants of the instances | |
| `DecisionModule_proofs`, `E2Alert_proofs`, `E2Associator_proofs`, `EventIdFile_proofs`, `PacketFeeder_proofs`, `WaveformSender_proofs` | theorems | |
| `WaveformBuffer_proofs` | lemmas on one buffer | used by `PacketFeeder_proofs` |

Operators marked "Mutant of ..." belong to no behaviour: each is a plausible
error in the definition it precedes, and shows that a property notices it.

### Decision Module

State and code correspond by name.  A map from keys to message objects is a
function whose domain is the set of stored keys; a key is what
`AlgorithmEvent::operator==` compares (source, id, category).  `phase` says
which call of `DecisionModule::run` comes next, so a behaviour is a sequence of
iterations, each of them six steps, with `Tick` between any two (every step
calls `time()` for itself).  `sent` is what subscribers saw last for each id.

| Action | Code |
|---|---|
| `ReceiveNothing` | `receive` timed out, or `processMessage` refused the message |
| `ReceiveNew`, `ReceiveUpdate` | `processMessage`, `handleAlgoMsg`, `associateAlgorithmEvent`, `updateFreeAlgoList` |
| `ReceiveDelete` | `handleDeleteMsg`, from an algorithm |
| `ReviewCurrent`, `ReviewUnknown` | `handleDeleteMsg`, from DMReview |
| `DiscardOldDMEvents` | `discardOldDMEvents`, `deleteDMEvent` |
| `DiscardOldDeleteEvents`, `DiscardOldAlgoEvents` | the functions of these names |
| `UpdateAssociations` | `while(updateAssociations()) updateFreeAlgoList()` |
| `PublishDMEvents` | `publishDMEvents`, `publishDMEvent`, `filter`, `publishAloneOk`, `messageChanged` |

Abstractions.

* Latitude, longitude and depth are one integer `loc`; distance and time
  difference are absolute differences; the misfit is scaled to stay integer.
  Regions are sets of places.
* The combination of contributors is `Combine`, a constant operator about which
  the proofs assume only that its result is a value of each attribute
  (`CombineAssumption`).  TLC uses the plain mean, exact for one instance per
  system with equal uncertainties.
* `std::map` order decides ties in the best fit, and which member of an event a
  reviewed event loses last; the model allows any.
* Sources send any payload with an origin not in the future, in any order: loss,
  repetition and reordering need no actions of their own.
* Configuration fixed in the model: `CompareNumContrib` true,
  `republish_interval` 0 ("not implemented yet" in `DecisionModule.h`),
  `UseGMContour` false, no EQINFO2GM messages.  `loadAlgExtra` returns false,
  as in the code: changed observations alone never republish.
* Not modelled: `forwardContributors` (it sends to other topics and keeps its
  own record), event state beyond what is compared, the log.

### EPIC alerts

`E2Alert` keeps what decides about alerts; `phase` is the next call in the loop
of `E2ModuleManager::run`.

| Action | Code |
|---|---|
| `Read` | `tm->read`, `checkTeleseisms`: what the criteria will find changes |
| `AssociateTrigger`, `InsertEvent` | `associateTriggers`: an event, a new one, none |
| `AlertAssociated` | the magnitude and the alert of that event |
| `UpdateEvents` | `updateEvents` |
| `SendDelayedAlerts` | `sendDelayedAlerts` |
| `RemoveOldEvents` | `removeOldEvents` |

`AlertStep` is `E2Alert::alert` with `checkAlertCriteria`, `sendAlert`,
`checkSendCancel` and `incrementVersion`.  `sound` stands for the criteria on
triggers, stations, location, azimuth and taup, `vote` for what the triggers'
filter bands say; `Read` lets both change freely for every event, because new
packets change triggers and clusters.  Magnitudes are chosen where `calcMag` is
called.  `history` holds the entries of `E2Event::history` with `alert_sent`,
the only ones the code reads back; the origin time is the time of association,
and the reader's clock is the wall clock.  `tele_fbands` has no value 3: the
statement that would set `bad_distance` is commented out (`E2Alert.cc:283`).
With cancel messages an id may be alerted again after its DELETE, which is the
constant `Reopens` of `AlertStream`.

### EPIC triggers and association

`E2Associator` has one variable for each container: `trig_buffer`, `trigmap`,
`eventlist`, `updated_trigs`, and the member array `trigs`.  That array is both
the list `associateTriggers` collects and the group that `multiStationEvent`
builds, as in the code, where the parameter `triggers` and the member `trigs` are
the same memory.  `group` holds the locals of the search, so each look at a
candidate is a step; `old` is the set of triggers past
`UnassocTriggerTimeout`.

| Action | Code |
|---|---|
| `Arrive` | `processTrigPacket`, `newTrigParam`, in the bus thread |
| `Read` | `E2AMQReader::read`, `readNormal`, `insertTrigger`, `updateMeasurements` |
| `Collect` | the start of `associateTriggers` |
| `Join` | `associateToEvent`, with splits and reservations |
| `StartSeed`, `ConsiderNext`, `ScanAgain`, `NextSeed`, `NextPass` | the loops of `multiStationEvent` |
| `NewMultiStation`, `NewTwoStation`, `NewSingleStation` | the event that is found, `insertEvent`, `addTrigger` |
| `UpdateEvents`, `Expire` | `updateEvents`; `removeOldEvents`, `deleteEventTriggers`, `removeOldTriggers` |

What `locate`, `countNeighbors` and the magnitude find, and which triggers near
an event join it, is chosen from outside within the guards the code has
(channels, split flag, number of stations).  `Arrive` happens only while the main
thread is about to read: the buffer is looked at nowhere else, and under its
lock, so an arrival during another step is the same behaviour with the arrival
moved.  Stations lie on a line within `MultiStaMaxDist`.

### Event ids

`EventIdFile` separates `fopen(..., "w")`, which empties the file, from the
write and close.  `Stop` may come between any two steps, and every open, read and
write may fail at any time, in any combination and number.  Two history variables
say which ids that puts at risk: `unsaved` has the ids given since the disk began
to fail, or all if the failure left the file empty, until a write succeeds; `exposed` has those that were unsaved when the
program was stopped, and all if it was stopped while the file was empty, or
could not read it.

### Waveform processor

`WaveformBuffer` gives the state of one channel and what a packet does to it:
`CheckGap` (`wp.cc`), `Reset` (`EWP2.cc`), `PutPacket`, `Data` (`ProcessBuffer.cc`).
A sample is the number of its period; its value is left out.

`PacketFeeder` has the main thread (`main`) and one thread for each queue
(`thread`), with their shared queues, wait flags and processors.

| Action | Code |
|---|---|
| `EnterInner`, `ReadPacket`, `PushPacket`, `NoMorePackets`, `Terminate` | the loops of `ewfeeder::start` |
| `ReadChannelData` | `readChannels`, `removeChannelsFromWPMap` |
| `Drain`, `Release`, `Released`, `Join` | the end of a replay |
| `TestRocknRoll`, `PopOrWait`, `PopWoken`, `GetWPHandle`, `Ignore`, `Process` | `process_packet`, `LockedQueue::pop` |

`getWPHandle` returns a processor after it has released its lock, and the refresh
may delete it before it is used; `Process` then does nothing to the state, and
what becomes of the freed memory is left out.  A processor has one channel.

`WaveformSender` has the send thread (`step`), the monitor, the caller of `stop`
and the feeder's threads (`Put`).

| Action | Code |
|---|---|
| `Put` | `send`: append, drop what is too old |
| `Connect`, `Take`, `BeginSend`, `Sent`, `NotSent`, `AllSent`, `Turn` | `sendData`, `sendPacket`, `sendTrigParams`, `sendGMPeaks`, `sendTriggers` |
| `MonitorTest`, `MonitorLocks`, `SendTakesTooLong` | `sendMonitor` |
| `Stop`, `Join` | `stop` |
| `TransportChanges` | `transportInterrupted`, `transportResumed` |

A send that throws has sent nothing.  The channel list and the text messages are
left out: `sendChannelList` and `sendTextMessages` send on `log_producer` without
`sendPacket`, its lock, its test of the transport or its catch.  So an exception
there, which nothing catches, a send there that hangs and is not seen by the
monitor, and a channel list that is cleared before it is sent are not in the
model.  `ids`, `wire`, `removed`, `due` and
`failed` are history.

## 3. Checks

| Run | Instance | Shows |
|---|---|---|
| `dm_sa` | EPIC and FinDer with two ids each, two places more than `MaxDistToEvent` apart, FinDer confined to one, two versions, three events, clock to 3; symmetric in the ids | `TypeOK`, `MembersKnown`, `NoEmptyEventAtReceive`, `DeletedStaysAway`, `OneEventPerMessage`, `OneMessagePerSource`, `UpToDateUnlessHeld`, `ImplementsAlertStream` |
| `e2_epic` | two events, with cancel messages, clock to 2 | `TypeOK`, `AlertsSpaced`, `NoFirstAlertOutstanding`, `VerdictStands`, `ImplementsAlertStream` |
| `id_files` | both programs, five ids | `TypeOK`, `IdsUnique`, `FileIsCurrent` |
| `e2_assoc` | four triggers of three stations, one of which triggers twice on its channel, two events, every search | `TypeOK`, `TriggersOwned`, `UpdatedAlive`, `OneTriggerPerChannel`, `EventsFit`, `WorkEnds` |
| `feeder` | two stations with a queue each, one whose packets are lost or repeated, one with gaps, overlaps and a late packet, three packets, one change of the channel file; live and replay | `TypeOK`, `HandedOutInOrder`, `HandedOutOnce`, `GapOnlyInFront`, `NoLostWakeUp`, `ReplayComplete`, `ReplayEnds` |
| `wp_sender` | three kinds of messages, two messages, packets of one or two, clock to 1; every failure and a stop at any time | `TypeOK`, `InOnePlaceInOrder`, `IdsConsecutive`, `Flushed`, `NullLast`, `StopEnds` |

Each property is stated with the code behaviour it is about where it is
defined; `PROJECT.json` gives for each a mutation of the code that breaks it.

Bounds and why they suffice.  `EventIds`, `MaxVersion`, `MaxTime`, `MaxId`,
`MaxSamples`, `MaxBuffer`, `MaxPackets`, `MaxLoads` and `MaxMessages` stop the
environment, never a step of the program that is under way; all are named and
appear in guards only.

* Decision Module: two sources are the smallest number with a core majority and
  a conflict; two places make messages that fit together and messages that do
  not; a clock of 3 with timeouts of 1 lets events, tombstones and messages expire
  before, after and between deliveries; three events let two that exist compete
  for a message and a third be created; with two ids per source an event can be
  asked to take a second message of a source.  Here every change of the mean
  counts; thresholds, for any values, are in the proof of `UpToDateUnlessHeld`.
  In `dm_held_update`, with thresholds, a mean of 50 is past the threshold of 7
  and one of 45 within it; no change is just the threshold, about which the
  comments of the code differ (below).
* Event ids: five ids are enough for a run that ends, one whose disk fails and a
  third that gives their ids again.
* EPIC alerts: two events reach the limit of `updateEvents` (one event, ten in
  the code); a clock of 2 with a duration and a timeout of 1 has alerts that are
  refused for coming within the second, ones that are too late, and events that
  expire; the spacing of a third alert is what the proof adds.
* Association: the two triggers of one channel make a replacement; the third
  station goes with one of them better than with the other; the fourth trigger
  goes with neither, and comes to an event only by the other searches.  A message
  of two samples and one of one make an update.
* Feeder: three packets are a gap between the first and the second and a third
  that follows, overlaps or comes late; a late one restarts the modules at the
  next.  With a queue limit of 0 the replay slows down.
* Sender: two messages are one packet that is full and one that waits, two kinds,
  or one that is too old; a failing send may be followed by one that succeeds, in
  the same turn or in the next.  Longer queues are covered by the proofs.

Fairness.  Safety needs none.

* `WorkEnds`: `WF_vars(Main)`; the main thread of EPIC waits a second at most.
  Messages may go on arriving.
* `ReplayEnds`: weak fairness of the main thread and of each worker; they wait
  for nothing but each other.
* `StopEnds`: weak fairness of the send thread, the monitor and the caller; a
  send returns or throws, and the library reconnects after an interruption.  With
  `EWP2Sender.Restart` the monitor may end the process instead.

Nothing obliges a source to send, a message to arrive or the clock to advance.

Deadlock is checked except in `id_files`, where EPIC gives up when it cannot
open its file and a behaviour ends at `MaxId`; in `feeder`, which may be
terminated; and in `wp_sender`, which may be stopped.

### Where the code differs from what is written about it

Each of these runs checks a sentence of the repository and TLC refutes it.

| Run | Sentence | What the code does |
|---|---|---|
| `dm_lost_cancel` | removing all contributors "will cause the event to be cancelled by publishDMEvents()" (`DecisionModule.cpp:416`) | `discardOldDMEvents` runs in between and may drop the event silently |
| `dm_held_update` | an event is not published if there were no changes past the threshold "since the last publishment" (`DMEvent.h:110-114`; `DecisionModule.h:360-361` has "since the last time that it was published") | `messageChanged` stores the message it is shown before `filter` and `publishAloneOk` can hold it (`DecisionModule.cpp:967`, `:1133`): an update past the threshold that was held, and is formed again when nothing holds it, is no change and is never published |
| `dm_two_alg` | the two-algorithm test is for the first alert only (`DMEvent.cpp:759`) | the version compared is the one already sent, so the first update is held as well |
| `dm_delete_forgotten` | a DELETE is retained for `ALGOEVENT_TIMEOUT` seconds, its other fields ignored (`DecisionModule.h:370-372`) | it ages by the origin time it carries |
| `e2_update_mag` | updates only for magnitude changes (`epic.conf:151`) | `mag_checked` is 0 again after each alert |
| `e2_overwritten` | `MultiStaMinTrigs` is the "Required number of triggers to create an event" (`epic.conf:11`) | the group is built in the array that is being read: a trigger of noise that comes first overwrites one that the real group needs, and no event is made |

Seen while modelling and not asserted:

* The outline in `DecisionModule.h:185-190` speaks of removing the messages of
  an event with a large misfit, which no code does.
* `DecisionModule.cpp:599-604` speaks of a distance to the event; an event without
  core contributors is moved to the core candidate first and then measured.
* `epic.conf:108`: "Send a cancel message if the alert criteria are not passed after
  an alert has already been issued".  EPIC may alert a cancelled event again, and
  `checkSendCancel` (`E2Alert.cc:342`) sends a cancel once only: when the criteria
  fail again subscribers keep the alert.  `e2_epic` reaches this; no property says
  that one cancel is right, and `AlertStream` with `Reopens` allows several.
* What EPIC sends after its own cancel is an UPDATE with the next version, not a
  NEW (`E2Alert.cc:395`); `Reopens` allows it.
* An update within a second of the last alert is dropped: `sendDelayedUpdates` is
  commented out in `run` (`E2ModuleManager.cc:246`).
* `DMEvent.h:124-127` and `DecisionModule.cpp:157-159` say that a change of the
  threshold or more is published, `DMEvent.h:110-114` and
  `DecisionModule.h:360-361` that it must be larger.  The code (`DMEvent.cpp:548`)
  and the model test for larger.
* `E2Associator.cc:348` and `E2Event.cc:161` read `alert_sent` of the current
  version, which `incrementVersion` has always reset there.
* An update of a trigger does not make the main loop associate again; it is looked
  at when another trigger comes.
* `wp.h` says of `reset` that it is "called if gaps found"; the packet after a gap
  is then taken for the first, so the one after that is not checked
  (`GapOnlyInFront`).
* A packet that ends before the one read before it sets `lastsamptime` back
  (`wp.cc:151`), so that the next one in order is taken for the end of a gap:
  `EWP2::reset` restarts the picker and its samples are handed out again.
  `HandedOutOnce` is about the channels without such packets, `HandedOutInOrder`
  about all.
* A stop between `fopen` and the write of the id file starts the ids at 1 again,
  and one after a failed write gives the unsaved ids again (`exposed` has these
  ids, `IdsUnique` is about all others).

## 4. Proofs

`DecisionModule_proofs` proves, for all sources, ids, categories, payloads,
regions, limits and bounds, from `DecisionModuleAssumption` and the assumptions
of `DMEvent`:

| Theorem | States |
|---|---|
| `Invariance` | `Spec => []IndInv` |
| `TypeCorrect`, `MembersAreKnown`, `EachMessageInOneEvent`, `NoEventToReuse`, `DeletedIsNotStored` | `TypeOK`, `MembersKnown`, `OneEventPerMessage`, `NoEmptyEventAtReceive`, `DeletedStaysAway`, always |
| `SourcesDistinct` | `[]OneMessagePerSource` |
| `Refinement` | `Spec => ImplementsAlertStream` |
| `PublishedUnlessHeld` | `[]UpToDateUnlessHeld` |
| `ChangesPublishedWithoutMemory` | `[]ChangesPublished` without `PublishChangesOnly`: what may be published is always published as it is, within the threshold; with it, `dm_held_update` refutes this |

`OneMessagePerSource` rests on the test of `Associate` for a message of the same
source, and on an update finding the event by the key it replaces.  The other
properties are not inductive one by one.  That no message is free rests on
each being in exactly one event; that rests on `Conflicts` being tested on keys
that are all stored; storage of members rests on every removal visiting every
event, and the tombstones must be disjoint from the stored keys or a deleted
message could return to an event.  For the refinement the version kept in an
event has to equal the version last sent for its id, closed ids have to lie
below `next_event_id`, and emptied events may exist only between reception and
publication.  `IndInv` is the conjunction; the proof has a lemma per action and
lemmas for what `Recalculate`, `AddAlgoEvent`, `RemoveAlgoEvent`, the trials and
`Associate` do to membership, category, version and attributes.

`UpToDateUnlessHeld` speaks of all events after publication; between a message and
its publication it fails, and what holds instead is `PubInv`: an event whose flag
is clear is settled, that is, published or shown as it stands.  So every function
that changes what publication looks at has to raise the flag: an update of a
member, a removal, an association.  The trials of `associateAlgorithmEvent`
change the attributes of events they do not flag and form them anew afterwards.
That this restores them needs that the attributes are always the mean of the
messages that count (`Averaged`); when none counts they are not restored, but
then the event has no core contributor and is not published.  A message that is
replaced or removed matters to its members' events alone, for which `IndInv` says
that there is one.  At publication `ThresholdAssumption` is used: thresholds are
not negative, or what was just published would be above its own.  About `Combine`
nothing is assumed but its range.

`EventIdFile_proofs` proves `TypeCorrect`, `NoIdTwice` (`Spec => []IdsUnique`)
and `FileCurrent` for every `MaxId` and garbage, and any stops and failures.  The
strengthening says that the file, whenever it is read or has been written, is
above every id that is neither unsaved nor exposed, and the counter of a running
program above every id that is not exposed: an id that was given while the disk
failed repeats only through a stop, and a stop moves it to `exposed`.

`E2Alert_proofs` proves, for any events, magnitudes, limits and settings, from
`E2AlertAssumption`:

| Theorem | States |
|---|---|
| `TypeCorrect`, `Spaced`, `FirstAlertNotWithheld` | `TypeOK`, `AlertsSpaced`, `NoFirstAlertOutstanding`, always |
| `VerdictsStand` | `VerdictStands` |
| `Refinement` | `Spec => ImplementsAlertStream` |

`AlertsSpaced` alone is not inductive: it needs that `alert_sent` is false
between steps, for an entry is added whenever it is true.  The refinement needs
that the version last sent of an event is the number of its entries less one, and
that ids not below `next_eventid` have never been sent; `NoFirstAlertOutstanding`
that the test of an event that was just tested comes out the same.

`E2Associator_proofs` proves, for any triggers, stations, travel times and limits,
from `E2AssociatorAssumption` (a channel belongs to one station, ids are not 0):

| Theorem | States |
|---|---|
| `TypeCorrect`, `OneOwner`, `NoDeletedTriggerUpdated`, `ChannelsDistinct` | `TypeOK`, `TriggersOwned`, `UpdatedAlive`, `OneTriggerPerChannel`, always |
| `GroupsGoTogether` | `EventsFit`: a multi-station event starts with `MinTrigs` stations that go together |

`Owned` adds to the invariants about triggers and events that the ids in use lie
below `next_eventid` (a new event takes the triggers of no other), that a reserved
trigger counts as associated (no search looks at it again), and that
`updated_trigs` is empty when triggers are deleted.  `GroupOk` is about the search
in the array it writes to: the entries that the group overwrote are marked used,
so a candidate that belongs to the group lies behind them, the group grows
within the array, and replacing its entry of a channel leaves one entry of each; `sta_trigs` is
part of the group, still unassociated, of one trigger a station, and any two of
them fit.  Replacing may raise the times of all members to that of the new one;
raising times to a common bound does not increase their differences, so they still
fit.

`WaveformSender_proofs` proves, for any packet sizes, waits and bounds, from
`WaveformSenderAssumption`:

| Theorem | States |
|---|---|
| `TypeCorrect`, `PacketIds` | `TypeOK`, `IdsConsecutive`, always |
| `NothingLost` | `[]InOnePlaceInOrder`: over any failures each message is in one place, in order |
| `StopFlushes` | `[]Flushed`: what was put in before `stop` is on the wire, or had grown too old, when the send thread ends, provided that no send failed after `stop` |
| `NullIsLast` | `[]NullLast` |

The strengthening says for each step of the send thread what the queues may hold.
After `stop` a kind whose turn is over in the last round has an empty second queue
unless a send failed; what was put in before `stop` is therefore on the wire when
the round ends; and the null message can be in the second queue or on the wire
only in the last round, after which nothing of its kind is moved.  The lemmas are
about sequences: concatenation, cutting, and order.

`PacketFeeder_proofs` proves, for any threads, channels, hashes, packets and bounds,
from `PacketFeederAssumption`, `NullPacketAssumption` (the null packet is none of
a channel) and `MaxDurationAssumption`:

| Theorem | States |
|---|---|
| `WakeUps`, `AllProcessed` | `NoLostWakeUp`, `ReplayComplete`, always |
| `TypeCorrect` | `[]TypeOK` |
| `BuffersFollow` | `[]GapOnlyInFront` |
| `InOrder` | `[]HandedOutInOrder`: between two restarts each sample once and in order, for any packets |
| `NoneTwice` | `[]HandedOutOnce`: over restarts too, for channels read in order |

`count` is the number of packets in flight: one in the hand of the main thread, and
the cardinality of a set of places, a place of a queue or the hand of a worker.
A push adds a place, a pop maps the places of a queue one to one to what is left
of it and the hand of the worker, and a worker that is done removes its hand.
When a replay has drained the queues only null packets follow, and a queue without
a thread has no packet, so none is left when all threads are done.  A woken
thread finds a packet because its queue has one consumer.

For the buffers (`Buffers`, with the lemmas of `WaveformBuffer_proofs`), a
processor that takes the next packet for the first has one packet at most, and any
other expects no packet later than right after its data: only then does a packet
that passes the gap check follow the data in the deque, which overlaps and stale
packets leave behind the time that is expected.  The index `next_sample` is the
number of all samples in the deque whenever no packet is being processed, so what
is handed out of a packet is exactly its part later than the data, and the last
sample handed out is the last one of the deque.  For `HandedOutOnce` the proof
follows the packets through the queues: those of a channel are in one queue, in
the order in which they were read, and behind all that was handed out.

`Samples` joins the packets of the deque by a recursive function.  What it returns
for a deque that grows at the end, or loses its front, is proved by taking the
least counterexample, which the well-foundedness of the naturals gives; the same
gives that packets dropped in front leave one.

All invariants and action properties of the passing runs are proved.  Model-checked
only: `WorkEnds`, `ReplayEnds` and `StopEnds`, which are liveness
under fairness, out of the prover's reach, and the violation runs, which are
counterexamples.

## 5. Not modelled, and what could follow

* `dmlib` (encoding, senders, receivers, heartbeats) and `libamq`: the models take
  messages as records and the topics as a medium that loses, repeats and reorders.
* `calculateComboValues` with uncertainties and several instances per system is
  real arithmetic; its result is the constant operator `Combine`.
* `locate`, `countNeighbors`, magnitudes, filter bands, the picker and the filters
  are real arithmetic over samples and stations; their results are chosen from
  outside.  The threads of `countNeighbors` share nothing but their inputs.
* `forwardContributors` sends to other topics and keeps its own record.
* The ground-motion contour filter, `republish_interval` ("not implemented yet") and
  mail to subscribers.
* Earthworm and multicast bridges, the database, logs, tests and command-line
  senders: I/O or drivers.
* `src/dm` is a second copy of `decimod`; `OTL`, `oracle`, `qlib2`, `activemq`, the
  `libtn*` and `librtseis` libraries are third-party or support code, which is most
  of the lines of the repository.

What could follow: EPIC and the Decision Module joined by a lossy topic, with an
UPDATE after EPIC's own DELETE; the senders of `dmlib` with exceptions of the
broker.

## 6. Running

Each violation run (section 3) ends with a counterexample, all others without an
error.

    tlc -config dm_sa.cfg MCDecisionModule
    tlc -config dm_held_update.cfg MCDecisionModule
    tlc -config dm_lost_cancel.cfg MCDecisionModule
    tlc -config dm_two_alg.cfg MCDecisionModule
    tlc -config dm_delete_forgotten.cfg MCDeleteRetained
    tlc -config e2_epic.cfg E2Alert
    tlc -config e2_update_mag.cfg E2Alert
    tlc -config e2_assoc.cfg MCE2Associator
    tlc -config e2_overwritten.cfg MCE2Associator
    tlc -config id_files.cfg EventIdFile
    tlc -config feeder.cfg MCPacketFeeder
    tlc -config wp_sender.cfg MCWaveformSender
    tlapm DecisionModule_proofs.tla
    tlapm E2Alert_proofs.tla
    tlapm E2Associator_proofs.tla
    tlapm EventIdFile_proofs.tla
    tlapm PacketFeeder_proofs.tla
    tlapm WaveformBuffer_proofs.tla
    tlapm WaveformSender_proofs.tla
