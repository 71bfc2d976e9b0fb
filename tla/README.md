# Omnet: geographic routing, verified

The repository is an OMNeT++ workspace.  Its own code is three generations of a
geographic routing layer for sensor networks (`GeoRouting`, `Greedy`, `Greedy1`).
They run on two vendored frameworks (`MiXiM`, `inet`); `tictoc` is the OMNeT++
tutorial.  This directory models the routing layers and the MAC below them in TLA+,
checks the models with TLC and proves the main results with TLAPS.

## Inventory

Every host of a simulation is a stack of modules: `SensorApplLayer` hands packets to
the network layer (`handleUpperMsg`), which sends to the CSMA MAC (`sendDown`) and
receives from it (`handleLowerMsg`).  All the network layers have one timer
(`handleSelfMsg`).  Handlers are atomic: the simulation kernel runs one event at a
time.  What interleaves are the events of different hosts and the receptions of one
broadcast at its several receivers.

| part | state | operations | what is hard | what makes it correct |
|---|---|---|---|---|
| beacons and tables (`updateNbTable`, `findNextNode`, `handleSelfMsg`, in every layer) | `nbTable`, `nbUpdateCnt`, `timerMsg` | beacon timer, beacon received | lost and repeated beacons; tables that change under a packet | tables hold what was heard, once; the choice moves only to closer hosts; tables become complete |
| `Greedy/GeoBasic.cc` (= `Greedy1/GeoBasic.cc`) | the above, packets on the air | application packet, GreedyPkt received, `endSimulation` | several hosts with partial tables decide one path; the destination overhears | no loop, one custodian, sound verdicts, delivery without voids |
| `Greedy1/GeoPlus.cc` | the above and `baseLineFactor` | the same, along a line carried in the packet | one line field for all packets; a sending window; a message read after `delete` | each packet follows its own line and stays greedy; lines hide no neighbour |
| `Greedy/GeoPlus.cc` | `couple`, `node1`, `node2`, angle arrays | beacon received: find gaps, send one packet per gap; GreedyPlusPkt relayed around the hole | gaps computed from the table before the beacon; clones multiply; no hop limit; packets never deleted at the base | a boundary walk visits gaps only, ends, and is not multiplied |
| `GeoRouting/GeoBasic.cc` | as `Greedy/GeoBasic.cc`, packets without route or length | the same, nothing ends the simulation | several packets in one run; every overheard copy is counted received | per packet: no loop, one custodian, at most one end |
| `GeoNode.cc` | position, id | distance, line, angle, circle intersections | division by zero, NaN comparisons | ordering of distances |
| generated `*_m.cc` | message fields | getters, setters | none | - |
| `omnetpp.ini` files | parameters | - | schedules: beacons at once or every 20 s, application at 0 s or after 1 min | - |
| `tictoc/txc*.cc` (tutorial) | a counter, a timeout, one stored message | send, acknowledge, time out | unnumbered acknowledgements (txc8, txc9) | nothing skipped as long as the timeout exceeds the round trip |
| MiXiM `csma` (`CSMA802154` of the hosts) | state, queue, timers, counters, sequence numbers, prepared acknowledgement | packet handed down, four timers, frame received, frame transmitted | acknowledgements and timeouts cross; attempts are interrupted; frames are repeated | acknowledgements are right, packets are taken once and in order, each one ends |
| MiXiM `SensorApplLayer`, `Aggregation`, `SimpleBattery`, `BaseNetwLayer` | a counter, bundles, charge, nothing | per layer | - | outside this project's own code |
| rest of MiXiM, INET | - | - | - | vendored |

`PROJECT.json` lists the same parts with their status, and every hazard at its line.

## Modules

    GeoNeighbors                 beacons, tables, next hop
      +-- GeoBasic               packets of Greedy/GeoBasic.cc
      |     +-- GeoPlusLine      packets of Greedy1/GeoPlus.cc
      |     +-- GreedyPath       what both promise (abstract; refined by both)
      +-- GeoRouting             packets of GeoRouting/GeoBasic.cc (refines GreedyPath
      |                          once per packet)
      +-- GeoPlusHole            boundary walks of Greedy/GeoPlus.cc
    Csma                         the MAC of the hosts and the medium
      +-- MacService             what it promises (abstract; refined by Csma)
    GeoNeighborsProofs <- GeoBasicProofs <- GeoPlusLineProofs
    GeoNeighborsProofs <- GeoRoutingProofs, GeoPlusHoleProofs
    CsmaProofs <- CsmaQueueProofs <- CsmaServiceProofs
    MCNetworks, MCGeoBasic, MCGeoPlusLine, MCGeoRouting, MCGeoPlusHole, MCCsma

**GeoNeighbors** models the part every layer has.  `nbTable[n]` is the vector of the
code with host ids for entries (`GeoNode::operator==` compares ids only),
`nbUpdateCnt[n]` and `timer[n]` the counter and whether `timerMsg` is scheduled.
`beacons[m][n]` counts the NbBroadcast copies of `m` on their way to `n`: they are
all alike (the positions in them never change), so that a count is enough, and copies
may be received in any order.  `FindNextNode` is the loop of `findNextNode` written
as what it finds, the first of the nearest strictly closer entries; `LoopChoice` is
the loop entry by entry, and `ChoiceIsLoop` says they agree.

**GeoBasic** adds the packets.  A GreedyPkt is broadcast; `air` has one copy for each
host the transmission reaches, with the fields `interNode`, `route`, `length` of the
message.  A copy's sender `from` is not a field of the message: it is there for the
properties and for nothing else.  `HandleUpperMsg` and `HandleGreedyPkt` are whole handlers; the
four branches of the second are `Discard`, `Arrive`, `GiveUp` and `Forward`.
`outcome` is what was logged before `endSimulation()`; after it no handler runs, so
`Next` requires `outcome = Running`.  `trail[p]` is the sequence of hosts that logged
a transmission of `p`.

**GeoPlusLine** extends GeoBasic with `baseLine[n]`, the packet whose line is in
`baseLineFactor` of `n`, and takes another next hop.  Three points of the code show
in it: `handleUpperMsg` sends only while `nbUpdateCnt == 5`; it does not ask for
`isSourceNode`; and the beacon handler reads `msg->getKind()` after
`delete (netwMsg)` (lines 201 and 296).  The deleted memory holds either a kind that is not
DATA_MESSAGE, and nothing happens, or anything else, and the handler goes on to take
control information from a dead object; `failed` records the second.

**GeoRouting** is the same forwarding without route, length and `endSimulation()`.
Each packet goes on until its copies are used up, so that packets of several sources
are under way together, and the ends are logs only: `stuck[p]` and `received[p]` are
the hosts and the copies of the two log lines, in order.  Nothing in the
protocol says that a packet has ended; `EndsOnce` says it all the same.  `PathOf(pk)`
is `GreedyPath` with the packet `pk` alone, its variables mapped to the trail and the verdict
of that packet; `ImplementsGreedyPath` is about every packet.

**GeoPlusHole** is the search for the boundary of holes.  `Order` is the table arranged
by angle, hosts in the same direction as they were heard; `LoopOrder` is the sort of
`findBaseNode`, swap by swap (`SwapNext`, `SortPass`), and `OrderIsLoop` compares them.
`NextPairs` is the set of pairs that follow each other in it, `Gaps` those with a gap between them, and
`RelayOf` the side a packet is sent to.  `HandleBeacon` is the whole beacon branch; its gaps are those of the
table as it was before the beacon, because `findBaseNode` runs first; `LogBoundary` and `RelayWalk` are the two
branches for a packet that reaches its `interNode`.  `turns`, the
pair of neighbours each sender cloned the packet for, is not a field of the message: it
tells the clones of one packet apart, for `NoRepeats`.  `handleUpperMsg` of this layer is empty.

**Csma** is the state machine of `csma.cc` with acknowledgements, and the medium.
`mac[n]` holds the fields of one module under the names of the code; the set `timers` is
which of the four self messages are scheduled.  There is one action per timer
(`TransmitFrame` and `ChannelBusy` are the two results of the channel assessment), one for the
packet handed down, one for the end of a transmission (`EndOfFrame`: TX_OVER at the sender,
arrival at any of the hosts in reception) and one for `handleLowerMsg`.  Arrival and handler are two steps,
because other events of the same instant may come between them: a host that begins
to transmit there (`Transmitting`) loses the frame in `fsmError`, after its number has been counted.
`taken[n]` are the packets `handleLowerMsg` counts as new, `passedUp[n]` those of them that `sendUp`
gives to the network layer; `Take` is the step that tells the two apart.

**MacService** is the promise without the machine: a packet is refused or queued, taken
at most once by a host it is for, in the order of its source, and ends once, with success
only if it was taken.  A packet taken is passed up at once or never.  A packet given up may have
been taken, and one that succeeded may never have been passed up.

**GreedyPath** is the promise without tables, beacons, radio or packets: trails grow
to closer hosts in range, and a verdict comes from a host that heard its trail.

A definition named `...Bug` is a wrong variant of its neighbour.  No specification
uses one; each shows that some property would notice that mistake.

### Abstractions

- Distances are natural numbers given by constants; the properties depend on their
  order and their sums.  `DistToDest[p][n]` is the distance to the point (`destX`,
  `destY`), which need not be the position of host `destId`: nothing ties the two
  parameters together, and in `Greedy/omnetpp.ini` they differ.
- For the network layers the MAC, the physical layer and `sendDown` are `Reach`: a
  transmission reaches any subset of the hosts in range (`Lossy`) or all of them, with
  arbitrary delays.  `Csma` says why: the layers send everything to the L2 broadcast
  address, and a broadcast is transmitted at most once (`BroadcastsOnce`), acknowledged by
  nobody (`AckIsExpectedCorrect`) and taken at most once by each host (`CsmaImplementsMacService`).  A broadcast the queue or the channel
  assessment drops is one that reaches nobody.
- Which pairs of neighbours leave a gap is the constant `Gap` and the directions are the constant
  `Angle`, both from positions and the radius of 48 in the code: circle intersections and degrees are
  floating point.  The walks neither change nor wait for tables, so that the model
  follows `MaxStarts` of them, any, and copies overheard by other hosts, which are deleted, are left out.
- In `Csma` the durations are left out but for two facts: an acknowledgement comes
  within `macAckWaitDuration` (192 us and 352 us of 560 us, `csma.ned:62-70`), so that
  the timeout does not fire while one is under way (`AckUnderWay`), and no frame ends
  between the arrival of another and its handler.  Backoff durations, statistics and the machine with
  `useMACAcks = false` are left out.  `EndOfFrame` is the physical layer (`BasePhyLayer`): TX_OVER to the
  sender, and the decoded frame to any of the hosts in reception; which ones, its signals decide.
- Time is abstracted: the timer may fire at any moment it is scheduled.  `Tx_interval` is
  0 s or 20 s by configuration; the specifications named `Warm` add what the slower schedule means.
- Energy, recorded scalars and the angles printed by `Greedy1/GeoPlus.cc` are left out.

## Runs

| run | question | network and bounds |
|---|---|---|
| `GeoBasic_lossy` | is every path greedy and loop-free, with one custodian, under any loss and interleaving? | diamond: source, two relays equally far from the destination of which one is a void; one beacon each |
| `GeoBasic_fair` | are tables sound and complete, do packets tell their history, is a packet that reaches its next hop reported? | chain of three hosts, two beacons each, nothing lost |
| `GeoBasic_warm_void` | is a stuck verdict a real void? is the choice the loop's? | diamond |
| `GeoBasic_warm_line` | does a packet arrive when no host is a void? | line of four hosts, packets from two origins, of which `SourceNodes` send |
| `GeoBasic_overheard` | does the logged length fit the logged path? (it does not) | triangle |
| `GeoPlusLine_fan` | does every packet follow its own line, and stay greedy? | fan: two lines cross at a host where they choose different neighbours; any loss |
| `GeoPlusLine_warm` | does a transmitted packet arrive when no host is a void? | line, two beacons each |
| `GeoPlusLine_void` | does the line ever hide the closer neighbours? is the choice the loop's? | diamond, both relays equally far from the line |
| `GeoRouting_crossing` | does each of two packets that cross end once, as a greedy path of its own, while nothing ends the run? | triangle, packets both ways, one beacon each, nothing lost |
| `GeoPlusHole_ring` | are boundary walks walks, never repeated, and recognised in time? | ring of three hosts with one spur, two beacons each in rounds, one start followed, nothing lost |
| `Csma_pair` | is a MAC without numbered acknowledgements exact, does every packet end, and how many does `fsmError` cost? | two hosts; one sends a packet, a broadcast and another packet, the other a packet at any time |
| `Csma_retries` | is a packet retransmitted `macMaxFrameRetries` times at most? (it is not) | the same, without retries or backoffs |

`NbUpdateLimit` is 5 in the code.  Nothing tells one number of beacons from another
beyond "not the first" and "the last", so 0 and 1 (one and two beacons) show the same
interleavings.  Routes cannot exceed the number of hosts because trails never repeat
one (`Bounded`), so no bound on packets or routes is needed: every run explores the whole
reachable state graph.  Four hosts are the fewest with a choice of relay on the way and
with a void; three with an overheard destination.

In `GeoRouting_crossing` the beacons race both packets, so that hosts with empty tables are
voids for one packet and relays for the other, and the destination overhears.  In `GeoPlusHole_ring`
walks start from the last beacon but one of a host on, the fifth of six in the code and the first of two
here (`NbUpdateLimit` 1).  Starts in the first round are from partial tables, as when beacons
were lost in the code; those of the second round are from full ones, where a host with two gaps
sends two packets and relays clone.  The four hosts are placed so that a gap has its relay on either side, a clone takes a spur
and a hole has fewer hosts than `RouterLimit` (5, as in the code), which makes the walk pass
its base once; `MaxRouters` is 9, three more than the first length that can be
recognised, and stops no walk of the run.  In `Csma_pair` the queue has room for two packets and is offered three;
`MaxBackoffs` is 1 and `MaxRetries` 0 (one retransmission), which takes both branches of
either test; two packets for one host need two sequence numbers.  `Order` fixes the order in which
one host's packets are handed down, and no order between hosts.

`CHECK_DEADLOCK FALSE`: the simulation really stops, by `endSimulation()` or because
its event list is empty.

**Fairness.**  `WF_vars(Next)` (and `WarmNext`, `PlusWarmNext`, `RoundNext`): the kernel executes
the event list until it is empty.  Every run of the model is finite (finitely many
beacons and packets, and strictly decreasing distances), so that nothing stronger is
needed for each scheduled event to happen.  Liveness is claimed only for a radio that loses
nothing in the network layers; under losses these have no acknowledgement or retry and
promise nothing.  The MAC does: `EveryPacketEnds` holds whatever the medium loses.  Walks
of `GeoPlusHole` have no hop limit in the code; its runs are finite by `MaxRouters`.

**Schedules.**  `Spec` lets the application send at any time, as
`initializationTime = 0s` of the Greedy configuration does.  `WarmSpec` sends when the
beacons are over, the default of `SensorApplLayer.ned` (a minute).
`PlusWarmSpec` sends while all hosts are between their last two beacons, as equal timers do,
with all beacons so far received.  With the default `Tx_interval` of 0 s of GeoPlus there is no
such moment: every packet is deleted.  `RoundSpec` of GeoPlusHole is the schedule of equal timers for the
beacons themselves: those of a round are all sent at one instant, and received before the next.

### What was found

`GeoBasic_overheard`: a destination logs the list of hosts of the path and then
"Do dai duong di la" (the length of the path is).  The length in the packet already
includes the hop to the next hop named in it; a destination that hears the packet
on its way to another next hop logs itself as end of the path, and the length of another.

`Csma_retries`: `csma.ned:59` documents `macMaxFrameRetries` as the maximum number of
retransmissions; `csma.cc:504` compares the attempts with one more.  In the same way the queue
holds one packet more than `queueLength` (`csma.cc:218`, `csma.ned:43`), which `QueueIsUnfinished` states as it is.

`fsmError` (`csma.cc:655`): a source can be told of success for a packet that the network layer of its
destination never gets.  TLC reaches that state in `Csma_pair`.  No document promises
otherwise; `LossPerTransmission` bounds the loss, and `ListenersPassUp` says who is safe from it.

Boundary walks: a hole with fewer than six hosts around it is passed once without being
recognised, and logged as twice its boundary (`RecognisedInTime`); a clone that takes a
spur ends without a word, because the host at its end has no gap.  `BoundaryIsRecognised` is
therefore about packets on the ring.

## Proofs

Every safety property of the passing runs, the action properties and the refinements
included, is a theorem, with the exception of `LossPerTransmission`.  The theorems hold for every set of hosts and packets, finite or not, all distances, ranges,
angles and limits, any number of beacons, lossy or not, under the named assumptions on
the constants.  These give their shapes, and four facts of the code:

- no host is in range of itself (`GeoNeighborsAssumption`);
- a line of `p` ends at the destination point of `p`, so that no host is
  farther from the line than from that point (`GeoPlusLineAssumption`);
- no application sends a packet to its own host, and the broadcast address and `NoHost` are no hosts
  (`CsmaAssumption`);
- angles are whole degrees (`GeoPlusHoleAssumption`).

Three theorems assume more, as part of their statement.  `StuckGenuine` and
`PlusStuckGenuine` are about the warm schedules and a radio that loses nothing (`~ Lossy`), the second with
more than one beacon per host: with one, no host is ever between its last two.  `Overheard` is about destinations that stand alone at
the point their packets are sent to, as `node2` does in `GeoRouting/omnetpp.ini` (lines 72-74 and 83-84).

| theorem | result |
|---|---|
| **`GeoBasicProofs`**: `TypeCorrect` | type invariant; no host sends more than `NbUpdateLimit + 1` beacons |
| `Tables` | `TableFromBeacons` |
| `NextHops` | `NextHopImproves` |
| `Choice` | `ChoiceIsLoop`: the next hop is what the loop computes |
| `PathInvariant` | the inductive invariant `PathInv` |
| `LoopFreedom`, `Custodian` | its parts `LoopFree` and `SingleCustody` |
| `Refinement` | GeoBasic implements `GreedyPath` |
| `RouteHistory` | `RouteIsHistory` |
| `PathLengths` | `LengthIsPath` |
| `Bounded` | no table, route or trail is longer than the number of hosts, if that is finite |
| `StuckGenuine` | `StuckIsGenuine`, for `WarmSpec` |
| **`GeoPlusLineProofs`**: `PlusTypeCorrect`, `PlusPathInvariant`, `PlusRefinement` | types, `PathInv` and the refinement, for GeoPlus |
| `OwnLine` | `FollowsLine` |
| `LineChoice` | `LineChoiceIsLoop` |
| `PlusStuckGenuine` | `StuckIsGenuine`, for `PlusWarmSpec` |
| **`GeoRoutingProofs`**: `TypeCorrect`, `PathInvariant` | types, and `PathInv` of `GeoRouting` |
| `Ends` | `EndsOnce` |
| `Receptions` | `ReceivedPerTransmission` |
| `Refinement` | each packet implements `GreedyPath` |
| `Overheard` | `OverheardFromUnaware` |
| **`GeoPlusHoleProofs`**: `OrderIsSorted` | `OrderIsLoop`: the sort is correct and stable |
| `Walks` | `RoutersAreWalk` |
| `InTime` | `RecognisedInTime` |
| `NeverRepeated` | `NoRepeats` |
| **`CsmaProofs`**: `TypeCorrect`, `StateIsHardwareCorrect` | `TypeOK` and `StateIsHardware` |
| **`CsmaQueueProofs`**: `QueueIsUnfinishedCorrect` | `QueueIsUnfinished` |
| `AttemptsBoundedCorrect` | `AttemptsBounded` |
| `BroadcastsOnce` | a broadcast goes on the air once at most |
| **`CsmaServiceProofs`**: `DuplicateMeansTakenCorrect` | `DuplicateMeansTaken` |
| `AckIsExpectedCorrect` | `AckIsExpected` |
| `CsmaImplementsMacService` | Csma implements `MacService` |
| `ListenersPassUp` | a host that has transmitted no packet of its own passes up all it takes |

*Types.*  The counter needs a strengthening: a host whose timer is scheduled has sent
at most `NbUpdateLimit` beacons (`NbTypeInv`).

*Paths.*  `LoopFree` is not inductive: a copy for a next hop could be anywhere.
`PathInv` adds that such a copy was sent by the last host of the trail to a closer one
(`CustodyAtHolder`), that copies come from the trail to a host in range
(`HeardOnTrail`), and that a packet not handed down has no trail (`FreshPending`).
When the addressed host forwards, its distance is below the last of the trail and so
below all of them.  `SingleCustody` belongs to the induction: a second custodian
would be left behind with a stale sender.

*What the induction needs of a layer* is `CloserNext`: the next hop is the host itself
or strictly closer.  The lemmas on `SendFirst` and `Receive` take the next hop as a
parameter with this hypothesis, so that GeoPlus, which chooses along a line, reuses
them: a line never has to be right for a path to be loop-free, although hosts
overwrite their line with that of every packet they hear.

*Next hops.*  `NextHopImproves` and `FollowsLine` rest on lemmas about the two loops:
a non-empty set of entries has a first, and a last, nearest one (from the
well-foundedness of < on the naturals), it is unique, and one more entry at the end
replaces it only when strictly closer.  `FollowsLine` needs that the loop's
starting bound, the distance to the destination, excludes no closer neighbour.

*Loops.*  The loops of the code are recursive functions over `0..Len`.  `LoopExists` proves that such a
definition has a solution, for a step that is a function of the index and the value, and `Induct`
is induction over the indices with the property given as a set; both take values
where the library's theorems take operators.  What a loop leaves then follows index by
index: the best entry so far (`ChosenIsChoice`, and the same along a line), or the sum of
the hops so far (`PathLengths`, where a path with one more host has the sum of the first
hosts and one hop).

*The sort.*  A swap keeps an arrangement of the table and never brings a later host before an earlier one in the
same direction (`SwapKeeps`, `SwapSorts`); a pass of the inner loop settles one more place
(`PassSorts`); the outer loop settles them all (`LoopSorts`).  Only one arrangement is sorted and
stable (`OneOrder`), so that it is `Order`.

*Void means void.*  Over a radio that loses nothing, every beacon sent is in the table or still on its way
to it (`Announced`).  A warm schedule sends only when none is on its way, so that tables are full
(`TablesFull`) from the first packet on, and a host without a closer neighbour in
its table has none in range.  For GeoPlus the tables are full in the window, and stay so while the last
beacons arrive.

*What packets carry.*  `RouteIsHistory` is inductive beside `PathInv`: only the copy for the next
hop is ever sent on, and that one has the whole trail, overheard ones a beginning of it.

*Refinement.*  Starting, forwarding, arriving and giving up map to the actions of
`GreedyPath`; beacons, losses, discarded copies and deleted packets to stutters.

*Several packets* (`GeoRoutingProofs`).  The induction for paths is the same for each
packet; what one packet's handler leaves of the others is one lemma (`ForwardEffect`).
`EndsOnce` is inductive once packets not handed down have not ended (`FreshEnds`): a host
that could end a packet is its only custodian, so nothing ended it before
and nothing can afterwards.  The refinement needs the same: a packet whose custodian
acts has not ended.  `ReceivedPerTransmission` needs that the sender tells the copies of a packet
to one host apart, in the air and logged (`LogInv`); that a forwarder is
not yet on the trail, so that its copies are new, follows from `LoopFree`.

*Walks.*  `WalkInv` holds of the packets on their way and of those logged: their routers are a walk
over the tables as they are now, which the walk found when it passed and which never shrink.
`StepEffect` says what a step may do to these sets: follow new starts, or replace one packet
by its clones.  For `NoRepeats`, the clones of one start form a tree in which `turns` is the
path from the root, and the packets held are leaves of it: none is an
ancestor of another, and a step replaces a leaf by its children.

*The MAC: one host.*  For each action one lemma (`UpperEffect` to `AckEffect`) says what it makes of
the fields of its host, and everything after rests on these alone.  `HwInv`, types and
`HostInv`, is inductive by itself: the state decides timers, radio and frame on the air, and bounds `NB` and
`txAttempts`.

*The MAC: queues.*  To a queue a step does one of four things: nothing, append the
packet handed down, refuse it, or remove the first with an outcome (`EveryQueueStep`).  `QInv` follows by
these cases.  `AttemptsInv` relates the counter to the transmissions of the first packet: equal while it
waits, one more while it is on the air or awaits its acknowledgement, and none for all behind it.

*The MAC: two hosts.*  `DuplicateMeansTaken` and `AckIsExpected` need each other.  `SInv`
follows a frame from the queue to the host it is for and its acknowledgement back: the numbers in
a queue rise and are below the sender's next one (`SeqInv`), what was taken comes before what is still to be sent (`TakenInv`),
whoever prepares or sends an acknowledgement has taken the first packet of a host that waits for it (`AckInv`), and
a frame that arrives is that of a waiting host or a broadcast that is over (`ArrivalInv`).  That the
timeout cannot fire while the frame or its acknowledgement is under way (`AckUnderWay`) is used
just there; without it the acknowledgement of a packet given up would
end the next one.

*The MAC service.*  Appending maps to `Accept`, refusing to `Refuse`, removing to `Finish` or
`GiveUp`, and `handleLowerMsg` with a new packet to `Take`; all other steps stutter.  Only the step that takes a packet passes
it up.  `Take` asks that
a host takes the packets of a source in the order in which they were queued, which is `TakenInv`, and `Finish` that the packet was
taken, which is `AckInv`.

*Losses inside a host.*  `fsmError` deletes an arrival in two states.  A host that sends an acknowledgement has
none to handle (`ArrivalInv`: its radio was in TX long before), and one that sends a packet has transmitted one
(`TransmittingHasSent`, from `AttemptsInv`).  So a host without a transmission of its own never enters
`FsmError`, and its `taken` and `passedUp` stay equal.

Only model-checked: `LossPerTransmission`, a sum over the packets of a host; liveness (`CustodyIsReported`, `TablesComplete`,
`GreedyDelivers`, `PlusDelivers`, `PacketEnds`, `DeliversOnceSettled`, `BoundaryIsRecognised`,
`EveryPacketEnds`), which no installed prover handles, and the two claims of the source's own words that
TLC refutes (`LoggedLengthIsPath`, `RetransmissionsAsDocumented`).

## Plan

Done, in this order because everything else rests on them: `GeoNeighbors`, `GeoBasic`
with `GreedyPath`, `GeoPlusLine`, `GeoRouting`, `GeoPlusHole`, `Csma` with `MacService`; then
their proofs, in the same order.

Left: the measures behind the liveness properties, as safety: each step makes the number of
beacons to come, the custodian's distance or the attempts left smaller.

## Not modelled

- `tictoc`: the tutorial that came with the simulator.  Its stop-and-wait examples (`txc8.cc`,
  `txc9.cc`) have no numbers at all and work because of their timeouts; the same question is asked of
  `csma`, which the hosts use.
- `SensorApplLayer` and `Aggregation`: traffic; the network layers see a packet at any time.
- `SimpleBattery` and the recorded energies: floating point over elapsed time.
- The arithmetic of `GeoNode.cc`: floating point; its results are constants.
- Generated message classes, signal propagation, mobility (positions are read once, in `initialize`), and the
  vendored frameworks beyond the interface described under Abstractions.  INET is not used by the
  projects at all; it makes up most of the lines of the repository.
