# A TLA+ model of RIOT_playground

RIOT_playground is a collection of demos and experiments around the RIOT
operating system. This directory models the ones whose logic is more than
straight-line code, checks them with TLC on small instances, and proves their
safety with TLAPS for every value of their constants.

- [The system](#the-system): its parts, their state, how they interact
- [The modules](#the-modules): what stands for what in the code
- [The runs](#the-runs): what TLC shows, with which bounds
- [Fairness and priorities](#fairness-and-priorities)
- [The proofs](#the-proofs)
- [Where code and words disagree](#where-code-and-words-disagree)
- [What is not modelled](#what-is-not-modelled)
- [Plan](#plan)

Run a check with `tlc -config MCButtonNode.cfg ButtonNode` (each run's module and
configuration are in `PROJECT.json`), a proof with `tlapm ButtonNode_proofs.tla`.

## The system

### The luke demo (`lndw18_luke`)

Visitors press a button as fast as they can; a display drains the points they
make; who keeps it at the top makes a dinosaur roar. The nodes find each other
through a resource directory, observed by a web service that a web page talks to.

| Part | State | Operations | Talks to |
|---|---|---|---|
| controller | two atomic counters, two timers, a message queue of one | button interrupt, debounce timer, send timer, client thread | posts points to its target |
| common | target address and path, time of the last post, reboot timer | `luke_set_target`, `luke_reboot`, `post_points_to_target` | used by every node, from two threads |
| display | points, difficulty, streak, a mutex, a thread flag | two gcoap handlers with observers, difficulty interrupt, draining main thread | receives points, posts a victory |
| dino | LED, motor pin, a timer that clears both | one gcoap handler, main, button interrupt, timers | receives a victory |
| coap_service | one CoAP client, one observer per web socket, `main_observer` | web sockets, observation tasks, `main`, reboot | observes the directory, tells nodes their targets |
| webfrontend | nodes, resources, charts | web sockets per observed resource | coap_service |

What is hard here: the controller's interrupt and thread share nothing but two
atomics; a post races the handler that changes its target; the display relies on
thread priorities as much as on its mutex, and its interrupt respects neither; the dino's interrupts hit its
threads between two writes that belong together;
the tasks of the web service share a client that one of them shuts down.

### The others

| Part | State | What is hard |
|---|---|---|
| `wand` | light, clock, mode, one handler per button, two channels of one timer | two buttons pushed, held and released in any order re-register each other's handlers |
| `lndw22_doc/websniffer` | fragments by source and tag, one timer per fragment, web sockets, a file | timers that can no longer be cancelled; duplicated, reordered, lost fragments; a file written, read and emptied at the same time; tasks that outlive their socket |
| `lndw22_doc/client` | switch, LED, event queue; static buffers of shell commands | interrupt, event thread and main; commands that fail half-way |
| `lndw22_doc/webterminal` | one shell shared by all web sockets | a global looked at before an await |
| `stack_comparison` | fragments of a datagram, a semaphore, a window of time stamps | one lost wake-up and the experiment stops |
| `jugend-hackt-2018-10` | a button and a dino, forerunners of the luke nodes | an unsigned clock; a path copied over another; no queue behind the button |
| `gcoap_obs_test`, `udp_test`, `gnrc_host` | a paused generator; a server started and stopped | little |
| the rest | none worth the name | programs that exist to be measured |

What makes each part correct, in one line: the controller loses no press and
keeps exactly one send under way; a post goes to the configured target; the
display never sleeps on points, and leaves an observer with an old value only where a notification
failed or a POST undid the button's points; the
wand's buttons always do what its mode says; the sniffer keeps no datagram for ever, mixes two
only where one comes upon the remains of the other, and skips no packet without a reason; the dino comes to
rest; the DoC client reports and shows where its switch is;
the web service observes exactly for the browsers that are there; the experiment sends whole datagrams and measures each by its own time.

`PROJECT.json` lists the hazards line by line, with the properties that cover
them.

## The modules

Names of variables and actions are those of the code where TLA+ allows it. A
definition marked as a *mutant* is a deliberately wrong variant of the definition
below it; no specification uses it. It shows which mistake its property catches.
Variables under *History* record what happened and influence nothing.

**PointTally** is the abstract promise of a counting node: presses come in, batches
go out, none early, none twice, all in the end.

**Controller** (`controller/main.c`) has one action per interrupt, per timer, and
per piece of the client thread between two accesses to shared state:
`ReceiveMsg`, `TakeCounter` (the `atomic_exchange`), `CountSend` (the
`atomic_fetch_sub` and its test), `ScheduleSend`, `PostPoints`. The interrupt may
hit between any two. The outcome of a post is left open. `Controller` implements
`PointTally`, liveness included.

**PostPoints** (`common/common.c`) has the target, its handler and
`post_points_to_target` step by step, as nothing locks what it reads: the read of the clock into `now`,
the test of the address, the test of the path with the throttle's, the copy of the path, and the
send, which reads the address again. The gcoap thread may run between any two. The payload of a target request is abstracted to
what the handler tells apart: refused, refused after the address was parsed
half-way, an empty address, a good one with or without a port. The clock counts
modulo `ClockMod`.

**ButtonNode** composes the two: where `Controller` leaves a post open it runs
`PostPoints` step by step against presses, timers, target requests and the
reboot, which forgets everything. Requests are served from the registration of the
listener on, while main still registers the node at the resource directory.

**Dino** (`lndw18_luke/dino/main.c`) has the three writes of `_set_dino` (LED, motor,
timer) as steps of the gcoap thread and of main, the button's and the timer's interrupts
between any two of them, and the reboot. What display promises with a victory ends here.

**Display** (`display/main.c`) has the gcoap thread and the main thread, each a
program counter with a register between its read and its write of `_points`, and
the interrupt that writes them without the mutex. `Runs(t)` is the priority rule.
A notification may fail, which nobody looks at: its points count as notified all the same. A POST may
carry any number, since `sscanf` reads negative ones too; the sum is taken in 16 bits. The
history variables `missed`, `lowered`, `meddled` and `unfair` say which of this happened. Who observes
the difficulty is left open. Colours are left out; of the strip it is kept whether anything is lit. `MCDisplay` gives
the run a negative number, which a configuration cannot hold.

**Wand** (`wand/main.c`) is all interrupts: an edge runs the handler that is
registered for it, a timer channel that is armed may expire whenever the timer
runs. The battery level and the time of day are chosen whenever they are read.
`timer_clear` acts on timer 0 in `_return_to_blink`, the channels belong to timer
1: the model does what the code does. `MCWand` gives it three hours.

**Reassembly** (`sixlowpan.py`, and `send_pkts` of `main.py`) has the entries of
the reassembly buffer and one timer per fragment; only the latest one can be
cancelled. Arrival in any order, twice or never is the air's choice. A tag may be used again at any
time, since every page that is opened reads the whole file at once: `sent` and `heard` are what the
properties need to know of the uses before.

**Websniffer** (`sniffer.py`, `main.py`) is what surrounds it: the thread that writes
a line per packet to a file, with what is buffered and what is flushed; the page's
`/empty`, which truncates the file under the thread's offset and leaves a hole; and
for each web socket the task that reads the file, in a thread of its own, with the bytes it
has read ahead. `on_close` drops the reassembly at once and has the file closed later. Of a
packet the file has a header and the lines of its dump; `send_pkts` hands
on what looks like a packet, and `Reassembly` takes over for the fragments.

**DocClient** (`client/main.c`) has the switch's interrupt, the event thread and
main, at the granularity of reading the switch, setting the LED and printing; and
every command that changes what the client keeps (`server`, `uri`, `proxy`, `creds`,
`userctx`, `resp`), each with its failures and what they
leave behind. A bad address may leave the old one or clear it. A credential is handed over as pointers to the two
buffers, ID and PSK, that all of them are copied to, and lengths of its own. `behind` says which of the buffers directly
follows the other in memory, if any: that is the linker's choice, and where the end of a string
goes that is as long as its buffer. The commands of different topics share no
variables, so that a behaviour takes up one set of topics at a time (`Sessions`).

**CoapService** (`coap_service.py`) has an action for what a task does up to its
next await: opening and closing of web sockets, the two halves of
`get_coap_client`, the stages of `Observer.request`, `main` with its shutdown and
restart, and the reboot. Observers are objects of their own, because two mains
can come to share one. `Fail` is a request that fails, which ends its observation, or
`incoming_observation` that raises for the answer, which does not: the task ends, and the
observation goes on with nobody left to cancel it (`LeftOn`). What becomes of it then, and of the
one of a main that died so, is not followed any further. That `get_coap_client` may fail is left out.

**TimeRx** (`stack_comparison/time_rx/gnrc/exp.c`) has the two loops of `exp_run`
with an action per stage (prepare, fill, raise the interrupt, wait on the
semaphore, reset), the stack as it calls the test device, and the receiver with its
window of time stamps. Of a fragment it keeps the offset its header claims,
the first byte it holds and its length, with the code's arithmetic on
all three; contents and checksums are left out. It is the variant without
`MODULE_LWIP` and without delays. `Offset` has the copying loop's offset: the sum of what the fragments
before have room for (`RoomBefore`), up to the datagram's end.

**Jugend** (`jugend-hackt-2018-10`) composes the forerunners: the button, whose main has
no message queue, with its target copied byte by byte, its post check by check, and its clock that
wraps; the air, which delivers a request, a copy of it as well, or nothing; and the dino, which toggles LED and motor per
request, in two steps, and by hand. A path may be longer than its buffer. One that fills it leaves no
end, so that whoever reads it goes on with whatever is behind (`Behind`). A longer one is written over the
statics that follow (`Overran`): from then on the target's address and the time of the last send may be anything,
and presses may go nowhere. `MCJugend` has the paths, one shorter than the buffer, one that fills it and one that
is longer.

External to the repository, and modelled by what the code can meet: RIOT's timers,
queues, event queues, flags, mutexes and its priority scheduler; gcoap's sending, which
may fail; tornado's `on_close` after `close`; the IP stack under `TimeRx`, which reads, refuses or drops a frame; aiocoap, whose requests are answered
or fail, and whose observations may end at any time until they are cancelled.

## The runs

| Run | Shows | Bounds |
|---|---|---|
| `button_node` | one send under way, no press stranded, a full series after each press; presses accounted for across refused posts and reboots, and each handed over in the end (`PointTally`, liveness included); a torn request only by a target request in between | 2 presses, series of 3, one address and path, a clock of 2 ticks with 1 to the second |
| `throttle` | see [below](#where-code-and-words-disagree) | 2 presses, series of 2, a clock of 4 ticks with 2 to the second |
| `display` | no lost wake-up; nothing left lit or unreported, and a victory only from the top, but for failed notifications and lowered points; settling | 4 points dropping by 1, 16 values of the counter, difficulty up to 2, posts of 3 and -2, difficulties 0 and 3 posted |
| `wand` | handlers fit the mode, set mode never dies, no timeout after a release, display fits the mode, time set is time shown | 3 hours, all 8 half-quarters, 3 times of day, 2 battery levels |
| `wand_light` | see below | as `wand` |
| `reassembly` | entries expire in time, datagrams mixed only with remains, complete when in time unless an earlier use's timer strikes | 1 key used 3 times, 3 fragments, 4 ticks of age |
| `dino` | nothing left on without a timer, LED and motor agree, the dino stops | none needed |
| `websniffer` | no packet repeated, none missed without a reason, nothing left of a closed socket | one socket, 3 packets of 2 lines, the second a fragment, one lost port or one emptying |
| `doc_client` | last move reported and shown, a server usable but for a bad address, response is what was said, a credential whole until the next, the usage of `userctx` suffices | one address, 2 byte values, a buffer of 3 and pieces of up to 2, 2 tags, IDs and PSKs of 1 or 2 characters in buffers of 2, in either order or apart |
| `jugend` | path as given but for what a full buffer or a longer path leaves, throttle wrong around the wrap only, a press is one request at most and a request one move, LED and motor agree | 2 presses, 1 copy of a request, paths of 1, 2 and 3 bytes in a buffer of 2, a clock of 3 ticks with 1 to the second |
| `time_rx` | fragments tile the datagram, a measurement uses its own time stamp, the experiment ends unless the stack has no room | the code's sizes, payloads from 8 to 1232 in steps of 36, 2 datagrams each, a window of one slot |
| `coap_service` | kept alive exactly while there are sockets, nothing observed for a closed socket unless its answer raised an exception, sockets closed when their observation is over | 2 web sockets, 1 reboot (so 2 mains) |

Why the bounds are enough:

- *Controller.* The interesting races are of one press with one send; the
  second press can restart a series at any point of it. `SendsDefault` is at least 2 in the
  assumption because a series of one send would stop before a press that hits
  between the thread's two atomic operations; the code's value is 10. `UIntMax`
  is larger than anything counted, and the type invariant shows it is not reached. The proofs
  have any number of presses and any series.
- *PostPoints.* One address and one path differ from the unset ones, which is
  all a torn request needs; the clock must be able to come round, and does after 2 ticks (4 in `throttle`, where a second must be longer than a tick). With 2 the throttle lets a
  post out or refuses it as the ticks since the last are odd or even.
- *Display.* 64 points, a drop of 2 and 10 levels of difficulty are scaled to 4,
  1 and 2 such that a press of the button still sets more points than one drain
  takes (`PointsMax \div DifficultyMax > DropValue`; in the code 6 > 2). Where it
  would not, a press could reach zero points by itself and the argument for the
  main thread's sleep would be another. A post of 3 stays below the scale or exceeds it, one of -2 lowers the points, also
  to none, or wraps around zero and exceeds the scale; difficulties 0 and 3 are below and above the
  valid range, and the button gives those in it. The
  8 bits of `_in_victory_cond` are three values here: it wraps.
- *Wand.* Three hours wrap in both directions; the half-quarters are the code's,
  since the rounding is about exactly these numbers.
- *Reassembly.* A second use of a key is what stale timers can hurt, and a third sees what the
  second left; with three fragments one can be missing and another repeated. Keys share nothing, and the proofs have any number
  of them. A tick is so short that no two fragments of a datagram fall into one; a timer that is due fires before
  the next tick. All uses of a tag are cut at the same offsets.
- *DocClient.* The third byte of the buffer is the one that may not be filled. Two tags are one
  credential rewriting another's. What can go wrong with the credential copied last is an end
  written over a character of it, for which one character will do; the proof has any.
- *Websniffer.* Sockets share nothing but the file they read, so one is enough. Two lines per packet
  are one place to meet it half written; three packets are one that is hit by a fault, one that
  is glued to it, and one that must come through. Two faults in one behaviour were tried for the
  invariants and are too many for the liveness property.
- *Dino.* The code's state is finite.
- *Jugend.* One path leaves room for its end, one fills the buffer and one overruns it; each leaves
  a tail to a shorter one. Behind the buffer is the end of a string, or the very byte that is missing from the longest
  path. The clock wraps within a behaviour, more than once. One copy is a request that moves the dino twice.
- *TimeRx.* Frame, header and payload sizes are the code's. The step of 36 has payloads that are and that are not multiples of eight
  and reaches the largest, of 13 fragments. With one slot in the
  window and two datagrams of each size the second would take the slot of the first at once.
- *CoapService.* Two sockets overlap or follow each other, one reboot makes a second main
  that meets the first in any of its stages. Sockets open in the order of their numbers.

`TypeOK`, where no theorem proves it, is a conjunct of one of its module's invariants.

`CHECK_DEADLOCK FALSE` is set where the model can stop because the bounded
input is used up, or because the code itself has nothing left to do: `time_rx` (the end of
the experiment, and main waiting for a frame the stack dropped), `coap_service` (sockets,
reboots; a `main` that died of an exception) and `websniffer` (the last socket closed, no
packet left).

## Fairness and priorities

- *Controller*: the timers fire and the main thread runs (weak fairness). Presses need not come.
  RIOT schedules the highest ready thread, and nothing of a higher priority runs
  for ever here. With it every press is offered in the end.
- *ButtonNode* has the controller's fairness for the composition: its timers, and every step of
  main, those within a post included.
- *Dino*: threads run, and armed timers expire. `Stops` supposes that presses and requests stop.
- *Websniffer*: the event loop and its worker threads run what is ready for a socket. The serial
  thread, the page and the browser need do nothing.
- *Display*: both threads run; a thread that waits for the mutex gets it when it
  is free. gcoap has the higher priority: main moves only while gcoap is idle or blocked on
  main. `Settles` supposes that requests and presses stop; while they keep coming
  points need not drain.
- *DocClient*: no liveness is stated. An interrupt preempts the event thread, and
  that preempts main, where the shell runs.
- *TimeRx*: the stack runs before the receiver and the receiver before main, and each runs
  when it can. What the stack does with a frame is its choice; `Finishes` supposes that it
  never runs out of room, for then main does wait for ever.
- *CoapService*: the event loop runs what is ready for a web socket, aiocoap answers or fails each
  request of one, tornado calls `on_close` for each that was closed. Nothing is asked of the mains: a web
  socket must learn of the end of its observation without them. No
  observation has to end, no browser has to leave, nobody has to reboot.
- `Wand`, `Reassembly` and `Jugend` are checked for safety only. In `Reassembly` time passes a
  timer's due moment only after it fired, which makes "in time" a safety property.

## The proofs

Each `*_proofs` module extends the module it is about. It states an inductive invariant `IInv`
(checked by TLC on the run's instance before it was proved), proves `Init => IInv`, proves in one lemma per
action, or group of actions with the same reason, that a step keeps it (`StepIInv`), and
concludes `Spec => []IInv` (`Invariance`); the theorems below follow from it, an action
property with one more step. Two of these modules are about two components that share no variables,
and there the smaller one's names begin with its own: `DinoSpec` and `DinoInv`, `ReassemblySpec` and
`ReassemblyInv` (next to `SnifferInv`). Each constant is arbitrary within the
assumption its module names (`ControllerAssumption`, `DisplayAssumption`, ...); nothing else is
assumed. Lemmas about the operators come first.

| Module | Theorem | States |
|---|---|---|
| `ButtonNode_proofs`: `Controller` by itself | `TypeCorrect` | types, and that no counter wraps |
| | `OneSend` | exactly one send under way while a series runs |
| | `NoPressStranded` | presses counted have a later send that takes them |
| | `Conservation` | each press in exactly one place |
| | `SeriesLength` | a full series after each press |
| | `RefinesTally` | initial states and steps map to those of `PointTally` |
| `ButtonNode_proofs`: the whole node | `NodeKeepsSends` | `OneSendOutstanding`, `NoStrandedPress` and `SendsPerPress` survive the composition |
| | `NodeAccountsForPoints` | `PointsAccounted`, and that no counter wraps |
| | `NodeTearsOnlyByRetarget` | `TornOnlyByRetarget`: a request is for the target of that moment unless that changed during the call |
| | `NodeRefinesTally` | the safety part of `ImplementsTally` |
| `Display_proofs` | `SleepsOnlySettled` | `AsleepMeansSettled`: asleep on the flag, nothing is left to do but for what failed or was lowered |
| | `VictoriesComeFromTheTop` | `VictoryFromTheTop`: likewise unless the points were lowered since the last drain |
| `Display_proofs`: the dino | `DinoStops`, `LedShows` | `NeverLeftOn`, `LedShowsMotor` |
| `Wand_proofs` | `HandlersAlwaysFit`, `SetModeStaysAlive`, `TimeoutsNeedButtons`, `DisplayAlwaysFits` | `HandlersFitMode`, `SetModeBlinks`, `ArmedMeansHeld`, `DisplayFitsMode` |
| | `SetTimeIsShown` | `TimeSetIsTimeShown` |
| `Websniffer_proofs`: file and sockets | `OrderOnce` | `InOrderOnce`: packets in order, none twice |
| | `NoneMissed` | `MissedForAReason`: none in the file skipped without a reason |
| `Websniffer_proofs`: the reassembly | `TypeCorrect` | types; no timer runs longer than `MAX_AGE` |
| | `EntriesExpire` | some timer drops each entry in time |
| | `NeverMixed` | `NoMixedDatagram`: two datagrams are put together only if one finds remains of the other |
| | `InTimeIsWhole` | `AllInTimeMeansWhole`: a datagram that arrives in time is found complete, unless it found remains or the timer of an earlier use struck |
| `DocClient_proofs` | `RestIsReported`, `LedShowsRest` | `SwitchReported`, `LedFollowsSwitch` |
| | `ServerAlwaysUsable`, `CredentialKept`, `UsageAlwaysSuffices`, `MockIsSaid` | `ServerUsable`, `CredentialUntilNext`, `UsageSuffices`, `MockIsWhatWasSaid` |
| `CoapService_proofs` | `RequestsOfTheirTasks`, `KeeperIsRight`, `CancelEndsObservation` | `RequestOfItsTask`, `KeeperFitsSockets`, `ClosedMeansCancelled` |
| `TimeRx_proofs` | `TilesAlways` | `FragmentsTile` |
| | `StampsFit` | `StampFits` |
| `Jugend_proofs` | `PathIsAsGiven`, `EachPressIsOne`, `LedShows` | `PathAsGiven`, `EachPressOnce`, `LedShowsMotor` |
| | `ThrottleErrsOnlyAtWrap` | `ThrottleErrsAtWrapOnly` |

*Controller.* `IInv` is the conjunction of the properties checked and
nothing more, but none of its parts is inductive alone. That `_sends_remaining`
is not decremented below zero (types) needs `OneSendOutstanding`: a message in the
thread's hands means that a series runs. That arming the timer in the interrupt keeps it
the only send needs the converse: no series, no send. A press that finds a series
running relies on `NoStrandedPress` for the case that the thread has already taken the
counter, and that a post hands over no more than was pressed, which
makes the step one of `PointTally`, needs `PressesConserved`.
The two lemmas about `Inc` and `Dec` are the only places where wrapping arithmetic occurs.

*ButtonNode.* Every step of the node is a step of `Controller`, leaves its variables
alone or starts over, so that the controller's lemmas are used again. `NodeIInv` adds that the
points offered are those posted and those rejected (`OfferedByOutcome`), from which
with `PressesConserved` each press has one outcome; and that what each of the two tests and `InitRequest`
read of the target is still true unless the target was set since the call (`CheckedTarget`). The
refinement maps `offered` to `posted + rejected`.

*Display.* Two arguments meet. `Quiet`: while the flag is not set, neither the button nor a POST has touched
the points since main woke, since both set it, so that what main last drained, lit and noted still stands. This
is where the priority rule is used: a POST sets the flag before it stores, and main cannot run in
between. `Notified`: the observers of a zero were sent it (`SawZero`), unless the latest change was `missed`. A thread skips the
notification when `_last_notified` is zero already, though the interrupt may have changed
the points after they were noted; that is harmless as far as the
interrupt and a drain go, which never reach zero from where it leaves the points. A POST of a negative
number does, and counts as `missed`. This
argument needs two facts about the constants, both in `DisplayAssumption`: the button sets more points
than one drain takes (6 > 2 in the code), and the victory light is put out by
a drain before the last one (5 < 64), for else main would sleep with the light on.
`Streak` is the same for victories: a streak above zero means that the points are at the top unless
the button or a POST `meddled`, and more than one drain takes unless a POST `lowered` them. The latter is why
the victory light is out when main sleeps, or was lit while the points were lowered (`unfair`).

*Dino.* That the LED shows the motor is not inductive: a thread that is about to switch the
motor on must find the LED on, unless an interrupt hit it (`LedOnAtMove`), and no handler may run
before main has registered it (`BootsAlone`), since the step that starts the handlers starts them idle.

*Wand.* Almost all the wand knows is in its two registered handlers. `IInv`
says what each stands for: a handler of a release that its button is held (`ReleaseMeansHeld`), in normal
mode which channel may be armed (`ArmedByHandler`) and what may be lit (`LitByHandler`), in set mode
that the LEDs blink if no button waits for its release (`BlinksUnlessPushed`). The arithmetic of the
clock is proved for every number of half-quarters that divides an hour into multiples of half a
minute, and of more than one minute (`WandAssumption`; the code's 8 are seven and a half each): `QuarterKept` shows that
rounding up in one direction undoes rounding down in the other. For others, 25 or 60 for example, it does not.

*Reassembly.* The properties are about entries, and what can go wrong is
about the timers the code has forgotten. The invariant adds, for each key, that each timer is that of
a fragment heard (`TimersOfFragments`), so that it ends when that turns `MAX_AGE` old; that nothing is left
of a datagram that was sent (`SentIsGone`), which with the former leaves nothing to a generation that begins
`fresh`; that a fragment which turned `MAX_AGE` old before the generation's own first did is told by `echoed`
(`EchoesTold`); and that without such a one what arrived in time is
still there unless the datagram was complete (`InTimeIsKept`). `OtherKeys` deals with all keys an action
leaves alone. Time is a step of all keys at once (`TickKeepsIInv`).

*Websniffer.* The properties speak of what a task did; that it cannot do otherwise is a matter of where it stands
in a file that grows, is emptied and begins with a hole afterwards. The proof therefore gives each item the task
has not come to a position that never changes (`At`): below `pos` it is among the bytes read
ahead, from there on in the file. Whatever the thread flushes comes behind all positions there were, or behind zeros
(`FlushView`), and reading takes positions from the front and changes no other (`ReadView`). With that, `SnifferInv` has
three parts for each socket that is not closed. `InOrder`: the headers before a task, the one in its line
and the packets it handed on are in the order in which they were printed, and older than those in the thread's
buffer. `Intact`: a packet that was not cut, torn or emptied is before the task in one piece, begins at the begin of a line
(`ToCome`), and is not left half-read; or the task has it as its line or handed it on (`Taken`). It holds
for the packet that is being printed as well, up to what is written of it (`Written`), with the header in the buffer or in the file.
`Clean`, as long as no line is open: what the thread writes next begins a line for this task. Without `Clean` a header could be glued
to what a broken line left, and without the facts about the thread alone (`BufferOK`, `PacketsOK`)
a line could be ended too early or too late: unless the packet was cut, the lines it waits for are exactly those to
come. `FileOK`, that the file ends at the thread's offset unless it was emptied, is why only an emptied
file can have a hole.

*TimeRx.* Of the fragments the copying loop sums what each has room for, and `prepare_sixlowpan` computes the offsets in the
headers apart from it. `RoomBeforeIs` shows that both are linear in the fragment's number. The sum is a
recursive function, and there is no induction: a least fragment at which the two differ would
have one before it at which they agree. That the rounding does not part them uses that the headers which are
compressed away are 48 bytes, a multiple of eight (`Rooms`). `Lengths` carries what
`prepare_sixlowpan` set through `reset_frag_buf` to the next datagram of the size. `TimeRxAssumption` asks that
`MaxFragments` suffice for `MaxPayload`; in the code they have room for 1720 bytes, and 1232 is the largest payload.
For the time stamps, `Turns` says who may be at work (the stack only while main waits) and `Stamped` that
at most one datagram waits for the receiver, main's current one, whose slot is its own from its first fragment
on. So a window of any size will do, down to one slot.

*DocClient.* The switch and the four topics of the shell share no variables, so that `IInv` has a
part for each. `SwitchInv`: as long as no edge is waiting and no event is in the queue, what each thread has read of the
switch is true. `ServerInv`: only a bad address takes a configured server's. `CredsInv`: the buffers start with the
PSK copied last and, unless the PSK fills its own and its end falls on the other, with the ID; and `gcoap_dns` knows
their lengths for each credential. So a credential is whole as long as it is the one copied last. The ID
never harms the PSK, for it is copied first (the mutant `PskFirst` turns that round).
`RespInv`: what was said is what the buffer starts with, up to `mock_len`. `CtxInv` counts the
parts given in order.

*CoapService.* All hangs on requests being kept under their own observer
(`UnderOwnObserver`), for a task that ends forgets `_pr` of its observer, and if that were another task's
an observation could no longer be cancelled (`CancelReaches`). The one way to that there is in the code, an exception for
the answer, is left to `LeftOn`: the task is done then, and stays so. Two mains come to share an observer, but
the second then finds it observing and makes no request. That main finds an unused observer at all
(`UnusedObserver`) is a counting argument about the names the model gives them.

*Jugend.* Five independent parts. `HoldsGiven`: the buffer begins with the path given last, as far as it goes, and
everything beyond the longest path since boot is still the end of a string; `GivenBack` concludes what a reader of the buffer finds,
with an end in it or with none, for which `Least` shows that a set of positions has a first one. `ClockInv`: clock, time of
the last request and age differ by at most one round, while nothing was written over that time. `PressInv` says where a press
is, `MoveInv` that requests in the air and moves together are no more than were sent and copied, and
`DinoInv` where the second toggle is.

Only model-checked:

- liveness, which the proof system does not reach: the fairness part of `ImplementsTally`,
  `Settles`, `EndedMeansClosed`, `Finishes`, `Stops` and `ClosedEnds`. Every invariant and every
  action property of the passing runs is a theorem.

## Where code and words disagree

Two runs are expected to end in a counterexample.

- `throttle`: `common.c:72` subtracts the wrong way round, so that requests less
  than a second apart go out although line 73 has a message for that case.
- `wand_light`: `main.c:611` turns the status of the light over to keep it "as it
  was", which it does after a push in normal mode but not when the same timeout
  leaves set mode.

Seen while modelling, without a run of their own:

- The luke demo's README says that the points posted are the presses since the last POST
  request; the presses of a post that was refused are in none.
- `client/main.c:302` says that a context is set in three steps "in that order"; the code accepts
  any order, and steps that failed. `UsageSuffices` states what does hold.
- `client/main.c:237` copies every credential to the same buffers: one added before is
  rewritten by the next `creds`, even by one that is refused (`CredentialUntilNext` states how long
  it is whole). A PSK or ID as long as its buffer, which lines 228 and 232 accept, has its end
  written behind it: if ID follows PSK in memory, a full PSK empties the ID.
- `client/main.c:164` parses an address straight into the server in use: a bad one may clear it and leave the
  port, which is what `sock_dns` takes for a configured server.
- `main.py:121` and `143` of the websniffer read the file from its begin for every page, as fast as
  it can be read: the `MAX_AGE` of the buffer is not counted in the time of the capture, datagrams that used
  the same tag hours apart may be put together, and timers of an earlier one may drop a later one.
- `coap_service.py:111-120`: when `incoming_observation` raises for the answer, the observation goes on, `finally` has
  forgotten the request, and nothing cancels it.
- `display/main.c:97-114` notes points as notified when notifying failed; observers keep the old
  value until the points change again. A POST to `/dsp/points` may carry a negative number (118): it lowers the
  points behind a streak's back, or wraps around zero and counts as one more step to victory.
- A task of the websniffer that reads the file's end in the middle of a line takes what is there
  for the line: a header with part of its dump matches and is sent as a packet cut short, and the
  rest is ignored. After `/empty` the first packet is missed by whoever had not
  read everything, and by every page opened later (`MissedForAReason` states what is not missed).
- `sniffer.py:49` raises an `AssertionError` that `run` does not catch: the page stays silent.
- The README of `jugend-hackt-2018-10` (31-33) calls the key of a target's path `pfad`, the code
  reads `path`; its throttle, around the wrap of its clock, refuses presses for more than an hour
  or lets two through within a second. `button/main.c:195` copies a path without its end and however long it is:
  one of 16 bytes has no end, a longer one is written over what follows.

Also: the controller sends every 100 ms only
during the second after a press, not always as the demo's README has it; a victory needs the scale
to be exceeded five times, not reached; a comment speaks of a reboot after 5
seconds where the timer takes 8; the two directions of the wand's conversion of minutes
(`main.c:202-203` and `494`) round differently, which is right, since the one undoes the other
(`TimeSetIsTimeShown`). In `coap_service.py` `main` restarts after an observation
has ended but not after a request that raised an exception (`339`), the `sleep`
of 50 s (`117-118`) is never reached because the request is forgotten in the line before, and a
reboot while `main` awaits its client leaves two mains observing.

## What is not modelled

- Output, colours, page layout, JSON and link-format text: a payload is what its
  handler tells apart.
- The radio and the IP stacks, beyond that a send may fail.
- What `doc` and `dns` of the DoC client ask and print; what gcoap_dns does with a URI, a proxy,
  a credential or a context.
- How the sniffer configures its node, and how a packet becomes JSON.
- What a notification of the resource directory makes the web service register.
- Build files, workflows, images, third-party scripts, and the programs that are only
  there to be measured for size (`empty`, `sizeof_pktsnip`, `bitfield_test`,
  `at86rf2xx_rng`, `lwip_tcp_raw`), which have no state to speak of.
- The luke page (`luke.js`): it opens and closes the web sockets of `CoapService`, which has them
  opened and closed in any order anyway, and draws charts.
- The web terminal: its shell blocks the event loop for each command, which leaves no interleavings
  but those of its log file, and these are `Websniffer`'s.
- `time_tx`, the sending twin of `TimeRx`, whose loop has neither fragments nor a semaphore;
  `power_rx` and `power_tx`, loops without state; `run.py`, a script.
- `gcoap_obs_test`, `udp_test`, `gnrc_host`, `msg_send_receive`, `sixlowpan_sender`: shell commands
  around one call each, or a few lines around the kernel's primitives.

## Plan

What exists: `PointTally`, `Controller`, `PostPoints`, `ButtonNode`, `Display`, `Dino`, `Wand`,
`Reassembly`, `Websniffer`, `DocClient`, `CoapService`, `TimeRx`, `Jugend`, and proofs of what is safety
in all of them.

Modules that would come after: a composition of `Websniffer` with `Reassembly`, whose
interface is one call; and of `Display` with `Dino`, a victory sent once.
