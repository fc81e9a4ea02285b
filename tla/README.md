# TLA+ models of ISG_Console

ISG_Console is the program that runs on an inspection machine of a cigarette
production line: cameras take images of packets or boxes, algorithms inspect
them, and a defective packet is kicked off the line or a machine is stopped.
This directory holds TLA+ modules of its control logic, the configurations
under which TLC checks them, and proofs that TLAPS checks. All paths below are
relative to `src/ISG_Console/`.

    tlc -config MCBoxResult.cfg MCBoxResult      # one run
    tlapm PacketResultProofs.tla                 # one module of proofs

Contents: 1. the system; 2. what can go wrong; 3. the modules; 4. the runs;
5. where code and comments disagree; 6. proofs; 7. what is not modelled;
8. plan.

## 1. The system

The program is a set of Qt objects, most of them on a thread of their own. An
object calls another one by a signal or by `QMetaObject::invokeMethod`, which
posts an event to the queue of the object's thread; a thread empties its queue
in order and runs one handler at a time. Two posts by one thread to one queue
stay in order, and nothing orders the posts of two threads. There are three
exceptions: cameras *wait* for `preInferAsync` (`BlockingQueuedConnection`),
the traditional channel hands each image to the global thread pool, and
counters, flags and attributes are read by other threads directly.

| Component | State it keeps | Operations | Hard part |
|---|---|---|---|
| Packet grouping, `Multipler/PacketResult.cpp`, `AbstractObject.cpp` | the open packets with their images, results and times; sampling index; counters | an image asks for its packet (`preInferAsync`), a result arrives (`onImageResult`), the timer judges old packets (`onTimeout`), statistics are read and cleared | images of several cameras in any order; late results; cameras that go off line while a packet is open; unsigned ages |
| Results of an image, `Multipler/ImageMultipler.cpp` | one record per image being inspected and the number of results it has had; counters | image opened (`onImageData`), result merged (`onImageIasResult`), image given up (`onTimeout`) | several algorithms on several threads; names that are used again (spot check); answers after the timeout |
| Box line, `Multipler/BoxResult.cpp` | the queue of boxes between two stations, the box at the last one, whether a reader is in use | image of a shaping, stacking or outer camera; bar code; result | the queue mirrors a physical line; a code that is missed shifts it |
| AI channel, `IasAgent/AICtrl.cpp`, `imageGroup.cpp`, `batchInfer.cpp` | groups that wait for their images; the model | image, 10 ms timer, inference of a group, adding a model | the number of cameras on line changes while a group waits; a model may be absent or broken |
| Traditional channel, `IasAgent/channelInfer.cpp` | locators and detectors of a camera | load, release, add, remove, update, inspect on the thread pool | inspections and their parts share one pool; the channel changes under an inspection |
| Cameras, `ImgSrc/*` | connection, capture parameters, on-line flag, image names | connect, lose, capture, trigger | loss and reconnection; vendor callbacks on foreign threads |
| Software camera, `ImgSrc/SoftCamera.cpp` | list of images to replay; a global count of unfinished spot checks | start, next image, end | several cameras and the TCP thread share the count |
| Project object, `BaseLib/EngineProject.cpp` | run type, enabled flag, parameters, list of objects | start, stop, change of run type, load and save of parameters | read by all threads; order of start and subscriptions |
| Attributes, `BaseLib/Attribute.cpp` | a value with a setter | get, set | value and setter are not one critical section |
| Parameter file and helper thread, `AssistLib/AuxTask.cpp` | three files; queue of images to save | save, repair at start, save image, clean | power is cut at any moment |
| Policy store, `IopAgent/TcpClient.cpp` | connection, registration, spot check | connect, register, CTRL messages | refused, lost and late answers; requests during a spot check |
| Image report, `IopAgent/TcpImageReport.cpp` | connection to the media server, a bounded queue of reports | connect, append (any thread), send | limit tested and counted apart; room for reports that cannot be sent |
| Alarms, `IopAgent/RealAlarm.cpp` | alarms raised | raise, report, clear | an alarm that comes while there is no session |
| IO board, `IOCtrl/PCPUdpCtrl.cpp` | switches that the board has to know, count of kicks | kick, start, stop, messages of the board, statistics | datagrams; restarts of the board; counter read and cleared on another thread |
| Other IO controllers, `IOCtrl/*` | connection | kick, heartbeat | reconnection |
| Bar code reader, `Sensor/BarCoder.cpp` | connection, received bytes | connect, receive | framing |
| Message framing, `BaseLib/ProtocolStream.cpp` | bytes received | append, cut into frames | partial frames |
| Image algorithms, `IasCore/*` | network weights, thresholds | load, infer | numeric |
| Program start, `main.cpp` | none | repair, load, create, enable, console | order |

`PROJECT.json` lists the components with their files and how much of each is
modelled.

The way of an image (in parentheses the thread):

1. The camera's SDK callback gives a frame to `CImageSrcDev`, which posts it to
   the camera's own queue (`sendImageDataAsync`).
2. (Camera) `preInfer` asks the object, packet or box, for the name of the image
   and waits for the answer. (Object) `preInferAsync` joins an open packet or
   opens one.
3. (Camera) `imageDataSignal` posts the image to its multipler, to the
   AI channel and to the traditional channel, in the order in which they
   subscribed.
4. (Algorithms) Each posts its result to the image's multipler.
5. (Multipler) When all have answered, or at the timeout, it posts the image's
   result to the object and to the reports.
6. (Object) When all images of a packet have results, or at the timeout, the
   packet is judged and, if defective, kicked by an IO controller.

The properties that make each component correct:

* *Packets*: an image is in one packet, a packet has at most one image of a
  camera; a result is entered into the packet of its image and nowhere else;
  each kick has a reason in its own packet and no image is kicked twice; a
  defect that was found is acted upon unless the code says why not; every
  packet ends; counters never exceed what they count.
* *Images*: an NG is never overwritten; an image concludes when each algorithm
  has answered, once; results of one image never reach another; every image ends.
* *AI channel*: no image is lost or inspected twice; images of one call belong
  to one packet; every image is answered, with or without a model.
* *Boxes*: an image belongs to the box it shows; mistakes of the reader do not
  shift the queue for good; a defective box is counted once.
* *Parameter file*: whatever the moment of a power loss, a complete version is
  on disk; a completed save is never forgotten.
* *Traditional channel*: an image is OK only if every locator and detector of a
  group has passed; detectors follow their locators; every image is answered.
* *Start, stop and spot check*: the cameras that run are those of the run type;
  a check is reported finished only when its images were gone through, and ends.
* *Policy store*: the program registers whatever is lost or refused; the channel
  of reports comes on line; its queue keeps order and limit and drains; no alarm
  is forgotten.
* *IO board*: the board runs and kicks as the program says, after restarts too;
  no kick is reported twice.

## 2. What can go wrong

`PROJECT.json` lists under "hazards" what is hard to test here, each at its line
and with the properties that watch it. The themes:

* *orders of events between threads*: an answer before the record it belongs to
  (`ImageMultipler.cpp:94`), an image after its group was sent
  (`imageGroup.cpp:47`), a switch read while it is being set (`Attribute.cpp:56`);
* *values read again later*: cameras on line (`PacketResult.cpp:182`,
  `imageGroup.cpp:44`), the clock as a name (`PacketResult.cpp:98`,
  `ImageSrcDev.cpp:187`);
* *timers against answers*: packets, images, groups;
* *mirrors of a physical process*: the queue of boxes against the line;
* *crashes*: the parameter file, restarts of the IO board;
* *connections that come and go*: registration, media server, alarms; datagrams
  that nobody repeats (`PCPUdpCtrl.cpp:103`);
* *counters shared without a lock*: statistics, queue limits, spot checks, kicks;
* *waiting inside the pool one waits for*: `channelInfer.cpp:151`;
* *long sequences of operations*: locators and detectors added, removed and
  updated (`channelInfer.cpp:187`, `:470`), spot checks started, stopped and
  started again (`TcpClient.cpp:217`).

## 3. The modules

| Module | Models | Checked by | Proofs |
|---|---|---|---|
| `AbstractObject` | sampling of reports, `AbstractObject.cpp` | with `PacketResult` | with `PacketResult` |
| `PacketResult` | `PacketResult.cpp`, image sources up to `preInfer` | `MCPacketResult` | `PacketResultProofs` |
| `Rejection` | abstract: what grouping and kicking promise to the line | as a property of `PacketResult` | with `PacketResult` |
| `ImageMultipler` | `ImageMultipler.cpp`, subscriptions, algorithms as an environment | `MCImageMultipler` | `ImageMultiplerProofs` |
| `AIConstants` | constants of the next two | with `AIChannel` | |
| `AICtrl` | `imageGroup.cpp`, `batchInfer.cpp` | with `AIChannel` | with `ChannelInfer` |
| `AIChannel` | an instance of `AICtrl` with variables of its own, and its properties | `MCAICtrl` | with `ChannelInfer` |
| `Answering` | abstract: what a part that inspects images promises to the part before it | as a specification that `AIChannel` and `ImageMultipler` implement | with both |
| `ConfigStore` | saving and repairing `product_params.json` | `MCConfigStore` | `ConfigStoreProofs` |
| `ParameterRegister` | abstract: what storing the parameters promises | as a property of `ConfigStore` | with `ConfigStore` |
| `BoxResult` | `BoxResult.cpp`, the line as an environment | `MCBoxResult` | `BoxResultProofs` |
| `ChannelInfer` | `channelInfer.cpp`: operations and inspection, Qt's thread pool as an environment | `MCChannelInfer` | `ChannelInferProofs`, with the AI channel |
| `SpotCheck` | run type, switches and spot check: `TcpClient.cpp`, `EngineObject.cpp`, `EngineProject.cpp`, `Attribute.cpp`, `SoftCamera.cpp` | `MCSpotCheck` | `SpotCheckProofs` |
| `ReportConstants` | constants of the next two | with `PolicySession` | |
| `ReportChannel` | `TcpImageReport.cpp`: connection and queue of reports | with `PolicySession` | with `PolicySession` |
| `BoundedQueue` | abstract: what a queue between threads promises | as a property of `PolicySession` | with `PolicySession` |
| `RealAlarm` | `RealAlarm.cpp`: alarms of kicks and boxes | with `PolicySession` | with `PolicySession` |
| `PolicySession` | `TcpClient.cpp`: connection and registration, composed with `ReportChannel` and `RealAlarm` | `MCPolicySession` | `PolicySessionProofs` |
| `IoBoard` | `PCPUdpCtrl.cpp`, the board and the network as an environment | `MCIoBoard` | `IoBoardProofs` |

The `MC*` modules extend a module and define the constants that a `.cfg` file
cannot write. Ghost variables, mostly inside one record `history`, remember what
properties speak about (images taken, kicks done) and bound the environment. An
action of the program never reads a ghost; an action of the environment does, to
keep a bound or to take no image and give no result twice.

An operator whose comment begins with *Fault:* is not part of the model: it is
the definition below or beside it with a plausible programming error seeded in,
such as a dropped guard, an entry that is not removed, or operands exchanged.
Putting it in place of the definition must make TLC report a property as
violated; "mutants" in `PROJECT.json` pairs them. So each property is known to
depend on the code it is about.

### PacketResult

| Model | Code |
|---|---|
| `packetHash` | `m_packetHash`; a packet has `images` (`imageCameraIdHash`), `results`, `firstImageTime` |
| `frames[c]` | events `sendImageDataAsync` that camera c has not handled |
| `calls` | images that have a name and whose camera's thread waits in `preInfer` |
| `awaited` | images that the multiplers still owe a result |
| `online`, `enabled`, `now` | `m_online` of each camera, the attribute "enabled", the clock in ms |
| `SendImageData`, `TakeFrame` | capture; naming of the image on the camera's thread |
| `JoinPacket`, `OpenPacket` | `preInferAsync` on the packet thread, later: the two ways through it |
| `SpotImage` | the branch of `sendImageDataAsync` for spot mode, which asks no packet |
| `ResultIgnored`, `ResultStored`, `ResultConcludes` | `onImageResult`: unknown packet, not the last result, last result |
| `TimeoutDrops`, `TimeoutJudges` | `onTimeout`: nothing answered, or something |
| `GetStatistic`, `ClearStatistic` | `getObjectStatistic` on the TCP thread: read, later clear |

An image is named on its camera's thread and gets its packet in a later step, on the
packet thread, perhaps in a later millisecond; the camera waits in between and takes
no other frame. The run type may be spot mode at any image, the first or the last of
a packet. Ages are computed `% Word`, as `uint64_t` does: the capture time is
corrected by `capture_compensation_ms`, may lie in the future, and then the age
is huge. The rest of the pipeline is an environment that answers an image at
most once, in any order, with any result; `ImageMultipler` is what shows that
this environment is right (`ReportedOnceForItself`).

Images and packets are named after the clock in milliseconds, and nothing in the code
keeps a name from being given twice: two frames of one camera that are taken in one
millisecond have one name, two packets opened in one have one, and the second packet
replaces the first. Both happen in the model. The ghosts `imagesTwice` and
`packetsTwice` collect the names that were given while they were in use, and the
properties say exactly what such a collision may break: an image of a name given twice
may be in two packets and take the result of the other, a packet may be replaced by one
that begins in the same millisecond. Everything else holds with collisions around.

`SampledAlike` is about the decision to report a packet's images. It is made once, when
the packet is opened, while the indices go on with every packet; a later image of the
packet has to take it from the packet, and the images that wait for inference have to
agree however many packets were opened in between.

What all this is for is stated by `Rejection`, without hash, clock, timer or
executor: an image arrives once and in one packet; defects are found in its images;
a packet ends once. Its exceptions are the two collisions: an image of a `reused` name
arrives again and takes a defect back, a packet begins in the place of one of this
millisecond. It is rejected only with a defect, and passes with one only if
images of cameras on line are missing. `KicksTheDefective` says that `PacketResult`
implements it: a packet is mapped to its images and those with an NG result
(`Outline`), the rejected packets are those whose kick was asked for, and the cameras
on line, the time and the reused names are inputs that `Rejection` does not control.
So, but for the exceptions, a defect is never forgotten between its result and the end
of its packet, and no order of images, results, ticks and camera losses lets one packet
be judged by another one's images.

### ImageMultipler

| Model | Code |
|---|---|
| `imageResultRecord`, `imageIasIdRecord` | the maps of the same name, without `m_` |
| `mailbox` | event queue of the multipler's thread |
| `emitting` | an `imageDataSignal` whose subscribers are not all served yet |
| `working` | images that the algorithms hold |
| `Algorithms` | the objects connected to this camera: any number of AI channels, and `"DT"`, the traditional channel |
| `TakeImage`, `EmitImageData` | the camera: post to one subscriber after the other |
| `OtherImage` | an image of another camera of some of the AI channels, whose results `BatchInfer` broadcasts |
| `Infer`, `InferSkips` | an algorithm answers or skips the image silently |
| `OnImageData`, `OnResultDropped`, `OnResultMerged`, `OnResultConcludes`, `OnTimeout` | the handlers |

`MayServe` is the order in which `EngineProject` connects objects: multipler first,
then the AI channels in the order of a map, modelled as any, and the traditional channel
last. That the multipler is first makes `DroppedOnlyWhenReported` hold; with the
multipler last (`MayServeLate`) it fails. The record of an image contains the frame it
was opened for (a ghost), so that mixing of two images of one name can be seen.

### AICtrl

| Model | Code |
|---|---|
| `images`, `groups` | event queues of the two threads |
| `groupHash` | `m_groupHash`: groups that wait for images |
| `aiInference` | `m_aiInference` and `m_bInitOK`: none, failed or loaded |
| `answers` | `imageIasResultSignal` |
| `AddToGroupSends`, `AddToGroupWaits`, `SendAlone`, `OpenGroup` | the four ways through `onImageData` |
| `OnTimeout` | the 10 ms timer of `ImageGroup` |
| `OnImageGroup`, `AddInference` | `BatchInfer` |

There is no clock: a waiting group has an age that `Tick` advances, and no group
grows older than the timer allows before the timer is served, since only ages
below and at `MaxInterval` are told apart. `OnTimeout` sends expired groups in
any order, because it walks a hash table.

`AIChannel` exists for the proofs: its variables have names of their own, so that one
module can speak of it and of the traditional channel. It adds no behaviour to `AICtrl`.

### Answering

The pipeline is modelled component by component: `ImageMultipler` takes for granted
that an algorithm answers an image at most once, `PacketResult` that a multipler
does. `Answering` states this as a specification of two variables: the images
*asked* for, a set that grows, and the images *answered*, a sequence to which only
entries are added that were asked for and that no other entry equals. `AIChannel`
maps the images it took and its answers to them (`AnswersWhatIsAsked`),
`ImageMultipler` the frames taken and its reports (`ReportsWhatIsTaken`, if names
are used once). Both are proved (section 6), so each of these environments is what
the component before it really does. The traditional channel has it by its shape: an
inspection ends once, where its thread returns.

### ConfigStore

The parameters are abstracted to a version number, files to *complete version*
or *empty*. Each file operation of `saveConfigFileAsync`, `checkConfigFile` and
`loadParams` is one action, in the order of the code, with `pc` between them; a
power loss, a kill or a failing operation may come between any two. A failure ends the
save (`OperationFails`), except that nobody looks at the result of `write`, so that
the save goes on with an empty file (`WriteFails`), nor at those of the removal and the
copy of a repair (`RepairFails`). The file
system is external and assumed to do what a journalling file system such as ext4
in its default mode promises at least: the directory operations reach the disk
in the order in which they were made but at any later time; a file whose data
have not been written back may come back empty; `sync` writes everything.
`dirs` is the sequence of directories that a power loss may leave, `dirty` the
set of files that may come back empty.

Outside, the parameters are a register: versions are handed in, one is stored in
one step, what is stored is made durable later, and a power loss takes back what
is not durable and nothing else. `ParameterRegister` says this in four actions, and
`IsRegister` that `ConfigStore` is one: `Stored`, the version that the next start
finds in the file or repairs from the backup, changes at one of the four file
operations of a save and at none of the others, nor in a repair.

The properties hold under `Calm`: no file operation has failed, and no save has
begun while data of an earlier save or start were not on disk. The second part
is a real limit of the code: a save that begins before the data of a repair or
of a killed save have been written back removes the only other copy.

### BoxResult

| Model | Code |
|---|---|
| `boxQueue`, `boxPoped`, `boxFound` | `m_box_queue`, `m_boxPoped`, `m_boxFoundFromQueue` |
| `recent` | less than 3 s since `m_WaiguanFirstTime` |
| `Shape`, `Stack`, `OuterFirst`, `OuterNext` | `preInferAsync` for each kind of camera |
| `OnBarCode`, `Dequeue` | a code that was read |
| `NgInQueue`, `NgInPoped`, `NgUnknown` | `onImageResult` with an NG (an OK result changes nothing) |
| `line`, `station`, `ripe`, `Ripen`, `Leave` | the physical line |
| `SetConnected` | the reader's connection changes |
| `MissCode`, `ReadTwice`, `ImageIsLate`, `SetConnectedAtBox` | mishaps; the last one is that the connection changes between the dequeueing of a box and its first outer image |

The line is external and assumed orderly: boxes keep their order, at most
`QueueLen` of them are between the shaping camera and the reader, each stays
longer than `m_minElapsed`. Mishaps break exactly one of these rules each, and a
property says which of them it tolerates. Fields that no constructor sets are a
nondeterministic choice in `Init`.

### ChannelInfer

| Model | Code |
|---|---|
| `locators`, `detectors`, `bInitOK`, `bGroup` | `m_locators`, `m_detectors`, `m_bInitOK`, `m_bGroup` |
| `points` of a detector | `m_locate_root`, a copy of the static points of the locators that it uses |
| `job[i]` | `inferImage` of image i: group, feature, locating or detecting, the futures it waits for, `result` |
| `Add...`, `Remove...`, `Update...` | the operations of `onOperateInfer` that change something |
| `OnImageData`, `Start` | the image is handed to the pool; a thread of the pool takes it |
| `RunMember`, `StartDetectors`, `NextFeature`, `NextGroup`, `Answer` | the steps of `inferImage` |
| `MayRun` | who executes a future: a free thread of the pool, or the one that waits for it |

Qt's `waitForFinished` executes a task that no thread has begun in the waiting
thread. This is what keeps inspections from waiting for each other, so the pool
has one thread in the run; `MayRunPolled`, which only polls, gets stuck.
An update of a detector takes the new locators and their points before anything
in it can fail (`IasCore/dt/*Detector.cpp`, `load`), a locator's point changes
only when its `load` succeeds.
Nothing locks the two tables. An inspection during which they change is *torn*:
what it does is undefined, and the model lets it end with either answer.

### SpotCheck

| Model | Code |
|---|---|
| `enabled`, `camEnabled` | values of the attributes "enabled" of the project and of each camera |
| `setting[t]` | thread t in the middle of a command: inside `Attribute::setValue` of the project's switch, or before or after it |
| `BeginSet`, `ReadSwitch` | `setValue` reads the old value |
| `GoThrough` | `EngineProject::onStarted`, `onStopped`: the run type, asked for Spot and then for Infer, picks the cameras |
| `SetCamera`, `WriteCamera` | setter of each camera; its value stored |
| `StoreSwitch`, `Conclude` | the project's value stored; then, in a step of its own, the run type or the status of the check |
| `PostPath` | the directory of one camera, set by `PsCmd_SpotEnable` before the switch |
| `SetWorkMode`, `SpotStart`, `SpotStop`, `Inquire`, `Enable` | the commands of the policy store |
| `OtherSets` | the console, or the packet thread that stops the line |
| `events[c]`, `timer[c]` | event queue and `QTimer` of a camera's thread |
| `SetImageSrcPath`, `LeaveStartStage`, `NextImage`, `FinishList` | `setImageSrcPathAsync`; the three parts of `onTimeout` |
| `waitFinish`; `ReadCounter`, `WriteCounter` | `s_spotDetectWaitFinishCount` and the two halves of its decrement |

The counter is a plain `int` that several threads decrement: a decrement may undo
another one, or the setting of the counter. A lost decrement leaves the counter
too high, so a check that has ended may never look finished, but none looks
finished too early. `CounterCoversUnfinished` says so of the counter; `FinishedMeansChecked`
of the images: at 0, no camera has a directory before it, and each image found was
sent or passed over (`played`). An image is passed over if the file holds none, or
if the camera's switch is off when its turn comes (`ImageSrcDev.cpp:144`): the stop
of the timer is queued, so it may fire once more.
A check started over another one is part of both properties, as long as the
cameras of the earlier check get a new directory before they end. If one ends after
the counter was set, its decrement counts for the new check; nothing in the
code prevents this, and only these histories are left out (`overlapped`).

### PolicySession, ReportChannel, RealAlarm

| Model | Code |
|---|---|
| `link`, `online`, `registered`, `timer` | socket, `m_policyStoreOnline`, `m_registeredState`, timer of `TcpClient` |
| `requests` | registrations that may still be answered, the last one or earlier ones |
| `OnTimeout`, `OnConnected`, `OnDisconnected`, `Refused`, `Accepted` | the handlers of `TcpClient` |
| `mediaSocket`, `mediaTimer`, `isOnline`, `mediaOn`, `hostName` | the same for `TcpImageReport` |
| `TestRoom`, `CountReport`, `PostReport` | `sendImageResultToPolicyStore` and `sendImageDataToPolicyStore`, the three steps of a producer |
| `SendAsync` | the sender, on the channel's thread |
| `kickStatus`, `boxStatus`, `Heartbeat`, `OnAlarm`, `OnHeardBeat`, `OnTimeout`, `OnTriggerReport` | `RealAlarm` |

`PolicySession` instantiates the two other modules on variables of its own: an
accepted registration is `Channel!Establish`, and `RealAlarm` reads `registered`.
`BoundedQueue` is an abstract specification (put at the end, take from the
front, never more than a capacity) and the event queue of `TcpImageReport`
implements it under the mapping `items <- queue`,
`Capacity <- QueueSize + Cardinality(Producers) - 1`: the code tests and counts
in two steps, so each producer but one may pass the limit by one.

### IoBoard

| Model | Code |
|---|---|
| `value`, `setting` | values of "enabled", "abnormal_kick" and "connected", and the one that is being set |
| `outbox` | `sendDataAsync` calls in the event queue |
| `connected` | the static flag in `onReadyRead` |
| `BeginSet`, `EndSet`, `SendKick` | setters with their commands; a kick of the packet thread |
| `SendDataAsync`, `Write` | a datagram, which may be lost |
| `OnReboot`, `OnBeat`, `OnKicked` | `onReadyRead` by type of message |
| `ReadCount`, `ClearCount` | `getNGCount` |
| `board`, `inbox`, `BoardStarts`, `BoardBeats`, `BoardKicks` | the board, external |

## 4. The runs

"v" marks a run in which TLC must find the property violated; section 5 says
why.

| Run | Question | Properties |
|---|---|---|
| `packet_grouping` | are packets grouped and kicked soundly, whatever the order of images, results, timeouts and camera losses? | `KickInvariant`, `KicksTheDefective`, `NgNotForgotten`, `NoPacketDroppedEarly` |
| `packet_service` | are sampling and counters exact, and do packets end? | `ReportSampling`, `SampledAlike`, `StatisticsNeverExceed`, `PacketsReclaimed` |
| `image_results` | are the results of one image merged soundly? | `NgWins`, `CountsMatch`, `AllAlgorithmsAnswered`, `ReportedOnceForItself`, `DroppedOnlyWhenReported` |
| `image_spot` | the same with names used again; do images end? | `StatisticsNeverExceed`, `ImagesReclaimed` |
| `ai_groups` | is every image of a channel inspected once, with its packet, and answered? | `NoImageLostOrDoubled`, `SentTogether`, `ImagesAnswered` |
| `channel_infer` | is an OK of the traditional channel earned, do detectors follow their locators, is every image answered? | `OkIsEarned`, `PointsFollowLocators`, `EveryImageAnswered` |
| `config_saves` | do the parameters survive power losses and kills? | `IsRegister`, `SavedIsNotForgotten` |
| `config_power_loss` v | does the program start with parameters after a power loss? | `StartsWithParameters` |
| `box_line` | do images and defects find their box, also after mishaps? | `ImagesOfTheirBox`, `RecoversWhenFull`, `NgCountedOnce`, `DefectFindsBox`, `YoungBoxesStay` |
| `spot_checks` | do the right cameras run, and does a check end when and only when its images were gone through? | `RunsAsEnabled`, `CounterCoversUnfinished`, `FinishedMeansChecked`, `LastCameraFinishes` |
| `policy_session` | does the program register, report and raise alarms whatever connections are lost? | `Registers`, `MediaFollows`, `AlarmsReported`, `CountMatchesQueue`, `ImplementsBoundedQueue`, `QueueDrains` |
| `io_board` | does the board do what the program says, and are its kicks counted? | `BoardFollows`, `KicksNeverOvercounted` |

The type invariants (`TypeOK` of each module) hold in these runs too; the runs list
the properties that say more than a type.

### Bounds, and why they are enough

* *Packets*: two cameras, one of which is compensated by a millisecond into the
  past, so that images of one packet have different capture times; two frames suffice for a whole packet, three for a
  packet and a stray image. `InferTimeout` 2 and five instants leave room for
  images before, at and after the timeout. One camera flaps once: before,
  between or after the images and the judgement. `Word` 1024 lies far above the
  clock, so that only a negative age wraps. Two images may be named in one
  millisecond, by two cameras or by one, which gives one name to two images or to
  two packets.
* *Images*: `image_results` has three algorithms, two AI channels and the traditional
  one: the least that takes the count of a record through all its steps
  (`ImageMultipler.cpp:163-180`: created, inserted again, complete). Two images are the least that can be
  confused. An answer comes while at most two events
  wait, so that answers meet each other and an image in every order. Images, and AI
  channels, are interchangeable (symmetry). `image_spot` has
  one name for two images, the smallest case of colliding names.
* *AI channel*: the channel has cameras 1 and 3 of three, so that counting
  cameras on line and walking ids differ; three images of two packets let one
  packet be complete while another waits.
* *Parameter file*: a fault needs one save that completed, one that is cut, and
  one after the restart; a second loss can strike the repair of the first.
* *Traditional channel*: two locators, one of them the default one, and a detector
  give every shape of a group, with and without features; two images on one
  thread are the smallest case in which inspections could wait for each other;
  three operations let a locator be removed, added again and updated.
* *Spot checks*: two virtual cameras are the least that race for the counter,
  one camera of the line tells the run types apart, one unknown channel is
  counted and never finishes; directories are empty or not. Three commands
  suffice for a check that is started over another one, or for a change of the
  run type in between.
* *Policy store*: two producers and a queue for two let the limit be passed by
  the number that is proved; one media server, since a second one is only
  another name. Nothing else is bounded: the run covers sessions of any length.
* *IO board*: three settings, two starts, two kicks and queues of two give late
  starts, restarts during a setting, and a kick between read and clear.
* *Boxes*: three boxes on a line for two are the smallest number in which the
  queue is cut; three images besides those of the shaping camera; two defects,
  one of which may come before and one after the box was dequeued; one mishap
  of each sort.

`CHECK_DEADLOCK FALSE` is set in every configuration since the environment is
bounded: once all frames were taken and the clock stands still, a finished
system has no step left. Properties about ending are stated as liveness
instead.

### Fairness

* `PacketResult`, `FairSpec`: the clock advances and the packet timer is served.
  The timer is a `QTimer` on a thread whose handlers do not wait for anything.
  Nothing is assumed of algorithms, cameras or results.
* `ImageMultipler`, `FairSpec`: the clock, the event loop, the timer and the
  posting of an image that was begun. Algorithms may hang for ever.
* `AICtrl`, `FairSpec`: ages grow, both event loops and the timer are served. An
  inference that begins ends (it is one action); a hanging one is the
  multipler's business.

* `ChannelInfer`, `FairSpec`: the threads of the pool run. Nothing is assumed of
  images and operations.
* `SpotCheck`, `FairSpec`: the thread of a virtual camera handles its events and an
  active timer fires (one weak fairness for each thread, since a thread does one
  or the other). Nothing is assumed of commands or of the threads that execute
  them.
* `PolicySession`, `FairSpec`: threads and timers run (weak); if the program keeps
  trying to connect or to register, it succeeds at last (strong, since losses and
  timeouts disable it again and again); the timer of alarms gets to run while
  the program is registered (strong). Without the last two nothing can be said:
  a store that never accepts, or drops each session within two seconds, is never
  told anything. Losses, refusals, alarms and reports are unconstrained.

Safety properties are checked under `Spec` or `FairSpec`, which have the same
reachable states. `ConfigStore`, `BoxResult` and `IoBoard` have no fairness: a
loss may always come, the line may stop, the board may be off.

## 5. Where code and comments disagree

**A power loss between two renames** (run `config_power_loss`). `AuxTask.h:32`
presents the backup file as the answer to power losses. The condition at
`AuxTask.cpp:209` covers an empty parameter file, not a missing one, which is
what a loss between `AuxTask.cpp:186` and `:194` leaves.

Further observations, made while modelling; the models follow the code.

*Packets and images.*
A kicked packet is counted twice: `AbstractObject.h:23` calls `m_detectNgCount`
the total of defective objects, but `onImageResult` and `onTimeout` count a
packet and then call `doKickFinal`, which counts it again
(`PacketResult.cpp:204`).
A fast NG does not wait for the other cameras: the comment at
`PacketResult.cpp:123` says that all results have arrived; the test at `:125`
compares results with the images so far, and the second image opens a packet
of its own.
The comment at `ImageMultipler.cpp:101` says that the last `]` is removed before
new data are appended; it is not.
The condition `cameraId >= 1 || cameraId <= 3` at `BoxResult.cpp:223` is always
true, so a defect seen by the outer cameras stops machine 1 (`PCPUdpCtrl.h:60`).

*Traditional channel.*
`m_bGroup` ("left and right channels are inspected", `channelInfer.h:102`) is
never reset: when the last locator and detector of the second group are removed,
an object that fails the features of the first group is OK. `OkIsEarned` leaves
this case out.
The result of the default locator is kept "for each group"
(`channelInfer.cpp:156`); it belongs to the non-features of the first group, and
the second group is inspected only if those were skipped.
`addDetector` returns true when loading throws (`:397`).
A locator that is removed and added again gives its point to no detector until
the next update; `PointsFollowLocators` leaves these detectors out until then.

*Spot check.*
The counter of unfinished cameras (`ImageSrcDev.h:44`) stays above 0 for ever if
two cameras finish at once, or if the store names a channel that does not exist.
A camera that ends the previous check after the counter was set for the next one
(`TcpClient.cpp:217`) counts for the next one, which may then be reported finished
while images are played; `FinishedMeansChecked` leaves this out (`overlapped`).
Two threads that throw the same switch at once may leave a camera running in a
disabled project, since `Attribute::setValue` is not one critical section, and so
may one that throws it between the store of the switch and the store of the run
type (`TcpClient.cpp:201-207`). `RunsAsEnabled` says nothing of the cameras
concerned (`astray`) until a later throw that meets no other has turned them.

*IO board.*
A datagram with a body is sent without its head (`PCPUdpCtrl.cpp:104-110`,
`PCPUdpCtrl.h:14`).
The first message of the board makes the program send one of the two parameters
again that `init` sends (`:151-153`, `:53-54`); a board that started late does not
learn the other one, and `BoardFollows` says so.
Lost datagrams are not repeated, and a switch read while it is being set may send
the old value after the new one; `BoardFollows` leaves both out (`lost`, `raced`).

*Policy store and alarms.*
The report interval is documented in seconds and counted in ticks of two seconds.
`RealAlarm.cpp:139` and `:170` use the board's object although there may be none.
A registration that names another media server is ignored by a channel that is on
line. An alarm report that is lost with the connection before it is written is
not repeated.

## 6. Proofs

TLC checks the properties on the small instances of section 4; the theorems below
hold for any values of the constants and bounds that `ConstantsOK` of a module
admits: cameras, compensations, timeouts, rates and word size; algorithms, names
and images; boxes and the length of the line; versions of the parameters and
losses of power; locators, detectors and images; commands and threads; producers
and queue size; settings, starts and kicks.

| Module | Theorem | Assumption beyond `ConstantsOK` |
|---|---|---|
| `PacketResultProofs` | `TypeCorrect`: `[]TypeOK` | none |
| | `PacketsAreWellFormed`: `[]PacketsWellFormed` | none |
| | `KickInvariantHolds`: `[]KickInvariant` | none |
| | `KicksAreSound`: `[]KickSound` | none |
| | `PacketsReject`: `KicksTheDefective` | none |
| | `AwaitedImagesAreKnown`: `[]AwaitedImagesKnown` | none |
| | `DefectsAreNotForgotten`: `NgNotForgotten` | none |
| | `CaptureTimesArePast`: `[]NothingFromTheFuture` | `Compensation[c] <= 0` for every camera |
| | `PacketsAreNotDroppedEarly`: `NoPacketDroppedEarly` | `Compensation[c] <= 0` for every camera |
| | `StatisticsAreBounded`: `[]StatisticsNeverExceed` | none |
| | `SamplingIsExact`: `[]ReportSampling` | none |
| | `PacketsAreSampledAlike`: `[]SampledAlike` | none |
| `ImageMultiplerProofs` | `TypesStay`: `[]TypeOK` | none |
| | `NgIsDecisive`: `[]NgWins` | none |
| | `CountsAreRight`: `[]CountsMatch` | none |
| | `DefectsAreNotOvercounted`: `[]StatisticsNeverExceed` | none |
| | `ReportsAreItsOwn`: `[]ReportedOnceForItself` | `UniqueNames` |
| | `MultiplerAnswers`: `ReportsWhatIsTaken` | `UniqueNames` |
| | `DropsAreLate`: `DroppedOnlyWhenReported` | `UniqueNames` |
| | `ConcludedIsComplete`: `[]AllAlgorithmsAnswered` | `UniqueNames`, `Compensation <= 0` |
| `ConfigStoreProofs` | `TypesStay`: `[]TypeOK` | none |
| | `CompleteCopyRemains`: `[]CompleteCopySurvives` | none |
| | `SavesAreNotForgotten`: `[]SavedIsNotForgotten` | none |
| | `SavesAreAtomic`: `IsRegister` | none |
| `BoxResultProofs` | `TypesStay`: `[]TypeOK` | none |
| | `YoungAreKept`: `[]YoungBoxesStay` | none |
| | `QueueRecovers`: `[]RecoversWhenFull` | none |
| | `ImagesKeepTheirBox`: `[]ImagesOfTheirBox` | none |
| | `DefectsAreRecorded`: `[]DefectFindsBox` | none |
| | `NgIsCountedOnce`: `[]NgCountedOnce` | none |
| `ChannelInferProofs` | `TypesHold`: `[]TypeOK` | none |
| | `PointsAreFollowed`: `[]PointsFollowLocators` | none |
| | `AnswersAreEarned`: `OkIsEarned` | none |
| | `AITypesHold`: `[]AI!TypeOK` | none |
| | `ImagesAreConserved`: `[]NoImageLostOrDoubled` | none |
| | `ChannelAnswers`: `AnswersWhatIsAsked` | none |
| | `GroupsAreSentTogether`: `SentTogether` | `EndsEnclose` |
| `SpotCheckProofs` | `TypesStay`: `[]TypeOK` | none |
| | `CounterIsNeverTooLow`: `[]CounterCoversUnfinished` | none |
| | `FinishedIsChecked`: `[]FinishedMeansChecked` | none |
| | `CamerasRunAsEnabled`: `[]RunsAsEnabled` | none |
| `PolicySessionProofs` | `CountIsQueue`: `[]CountMatchesQueue` | none |
| | `QueueIsImplemented`: `ImplementsBoundedQueue` | none |
| | `AlarmsAreRemembered`: `[]Alarm!OwedIsRemembered` | none |
| `IoBoardProofs` | `TypesAreKept`: `[]TypeOK` | none |
| | `KicksAreNotOvercounted`: `[]KicksNeverOvercounted` | none |
| | `TheBoardFollows`: `BoardFollows` | none |

Where a property itself leaves histories out (`Calm`, `overlapped`, `astray`,
`lost`, `raced`, `missed`, `others`), the theorem does too: these are the limits of
the code that sections 3 and 5 name. The inductive invariants were model-checked
before they were proved.

### Packets

*Names given twice.* No theorem assumes how many images come in a millisecond. Names
collide, and a collision puts the name into `imagesTwice` or `packetsTwice` for good;
each part of the invariant speaks of all names or of those that are in neither.

*The assumption on compensations.* `onTimeout` subtracts unsigned numbers; the
age of a packet whose first image lies in the future wraps to a huge number and
the packet is given up at once. If `capture_compensation_ms` is never positive,
`NothingFromTheFuture` is inductive (frames that wait and packets have capture
times that have passed), and an unsigned age is at most the real one
(`ModuloAtMost`), so that whatever the timer gives up is really old.

*Kicks.* `KickSound` (a kicked packet contained an NG image of its own; kicked
packets share no image but those named twice) is not inductive: a result could be entered into a later
packet that has the same name. `KickInvariant` adds

* `CallsAreNew`: an image whose camera waits in `preInfer` is in no packet, not awaited
  and in no kick; a camera has one such image;
* `PacketsDisjoint`: open packets share no image;
* `AwaitedOnce`: an image is awaited once, and has no result until then;
* `AwaitedImagesKnown`: while the packet of an awaited image is open, it is one of its
  images;
* `PacketsWellFormed` and `TypeOK`.

The first three except images of names given twice, the fourth packets of such names.
The step that gives a name in use (`TakeFrame`, `OpenPacket`, `SpotImage`) also makes it
an exception, so the proof of no step depends on the time.

The lemmas follow what a step does with packets and images: nothing (`QuietPreserves`),
name an image (`TakingPreserves`), put it into a packet (`ArrivalPreserves`) or past the
packets (`SpotPreserves`), store a result (`StorePreserves`), remove a packet, kicked or
not (`RemovalPreserves`). `NgNotForgotten` is an action property and follows from the
invariant action by action.

*Implementing `Rejection`.* With `KickInvariant` each action is a step of the
abstract packet or changes neither open nor kicked packets (`RejectionStep`). An
image arrives anew, or its name is `reused` (`CallsAreNew`). A result adds at most its
own defect and takes none back, since its image has no result yet (`AwaitedOnce`), or
its name is reused. A packet that ends by its last result is kicked with that defect or
one that was recorded. A packet that passes has no NG result or is one that the timer
gives up with too few images: one image of a camera at most (`PacketsWellFormed`)
makes the number of its cameras that of its images (`ImagesAreCounted`).

*Statistics and sampling.* The counters are read by one call and cleared by a
later one. What has been read is never more than what the counter holds, since
only the clearing call takes away; with that, what was reported and what is
still counted never exceed what was judged or kicked. For sampling the index
that wraps at the rate is tied to the number of packets opened
(`opened = rate * sampled + index`), for every positive rate. `SampledAlike` is
inductive: a packet's decision never changes while its name stands for it alone, and an
image takes it from there.

### Images

`NgWins` and `CountsMatch` hold with names that collide: `MergeInv` says of each
record, open or reported, that it is NG exactly if a part is.

The others are about one image, and a name used again makes two images one.
Under `UniqueNames`, `NamesInv` says that there is one function from names to
frames that every record, event and task agrees with. `PlaceInv` follows an image:
it is still to be posted, in the mailbox, open, or reported, in one of these
places at most and there once (`OnePlace`), and it is ahead of the results of its
algorithms wherever these are (`DataFirst`). This is where the order of the
subscribers is used. `AnswerInv` does the same for an image and an algorithm: to
be inspected, being inspected, answered, or merged (`AnswersOnce`, `MergedOnce`). The
parts of a record are therefore of different algorithms, and the code counts them only:
that as many different algorithms as there are connections are all of them
(`AllDifferent`, for any finite set) is why an image that concludes by number has
one part from each. `MultiplerAnswers` follows from
`NamesInv` (a report is of a frame that was taken) and `ReportedOnceForItself`.

### Parameter file

`CompleteCopySurvives` speaks of the directory that the program sees; a power loss
may bring back any earlier one that `dirs` lists, with empty files. `RecoveryInv`
therefore says of *every* directory in `dirs` that it is recoverable: it has a
fresh parameter file whose data are on disk, or a fresh backup with its data on
disk and a parameter file that `checkConfigFile` would replace (`Recoverable`).
*Fresh* is not older than the last synced save. `PlaceInv` adds what the program
knows between two file operations: that the file it is going to remove has a
solid copy, that the temporary file holds the version that is being saved.
`VersionsInOrder` and `Session` bound the versions in queue and files.
`CompleteCopySurvives` and `SavedIsNotForgotten` follow; both hold under `Calm`.
The first is no property of a run of its own, since a directory without a complete
version makes `IsRegister` fail too.

`IsRegister` needs to know what a power loss brings back. `RegisterInv` compares
every directory of `dirs` with the one the program sees: what it holds (`Latest`) is
not newer than `Stored`, and its backup not newer than its parameter file (`Sorted`),
so that losing the data of files leads to an older version and never to one that
was not stored yet. `QueueAhead` says that the versions in the queue increase and are
newer than `Stored`, except for the first between its second rename and `sync`; so
a save stores a newer version, and only the rename of the temporary file does.
Each step of `ConfigStore` is then a step of the register or changes none of its
variables (`RegisterStep`).

### Boxes

The boxes of the line have consecutive numbers and the queue holds the last ones
that were shaped, in their order; neither says which of the two is longer.

* `YoungBoxesStay`, under all mishaps: a box that is too young to be taken has a
  larger number than whatever was taken (`YoungInv`).
* `RecoversWhenFull`, with codes missed: the queue is at least as long as the line
  (`AlignedInv`), and no longer than it may be, so they are equal when the line is full.
* `ImagesOfTheirBox` and `DefectFindsBox`, without mishaps: queue and line are
  equally long, the record taken last is that of the box at the outer cameras, and
  every image is in the record of its box if this record is still there (`Mapped`).
* `NgCountedOnce`, under all mishaps: the result in a record tells whether the box
  has been counted (`Marks`), for the copy `m_boxPoped` too. A box has one
  record, since numbers in the queue differ and the record taken last is an older one.

### Traditional channel

`PointsFollowLocators` is inductive together with the types of the two tables; the
ghost `stale` names the detectors whose locator was removed.

`OkIsEarned` follows from what is known of an inspection in between: what it has
still to wait for belongs to its group, feature and phase, and everything before
that has run (`Progress`); its result is false exactly if a member of the group it
is at has failed, and before the second group nobody else has (`Verdict`). That
the two groups share no member is a lemma about the tables. Every operation
either finds an inspection that has not begun, or tears it.

### AI channel

`PlaceInv` says where an image is: in the queue, in one waiting group, in one group
that was sent, or answered; in one of these places and there once, and every image
taken is in one of them. The timer is the step that needs work: it empties several
waiting groups at once, and the lemmas about it count what it sends against what it
removes. `NoImageLostOrDoubled` is a part of the invariant, and so is what
`ChannelAnswers` needs: every answer belongs to an image that was taken and to no
other answer, before and after the step that adds those of a group.

`SentTogether` compares a group that was sent complete with the cameras that were
on line. `onImageData` counts the cameras on line whose ids are between those of
the first and the last camera of the list (`imageGroup.cpp:44`); this is the list's
own number of cameras on line only if all ids of the list are between its ends.
`EndsEnclose` says so. The ids come from the algorithm file in its order, and
nothing sorts them: with another order, a group can be complete by number with
cameras that do not belong to it. `TakenOnline` keeps that an image comes from a camera on
line, and an injection from images to cameras does the counting.

### Start, stop and spot check

`CounterCoversUnfinished` needs that a camera is in at most one stage of a check:
its directory is queued, it has images left, or it is counting itself off
(`OneStage`). Then each decrement belongs to one camera that has just finished, and
a value read before is still at least the number of those that have not.
`FinishedMeansChecked` takes from it that a counter at zero leaves no camera with
images, and from `PlayedInv`, which holds of each camera whatever the counter says,
that a camera without images has been through all it found: what it sent and
passed over is its index while it has a list.

`RunsAsEnabled` speaks of the moments in which no thread throws the switch. In
between, `Throwing` says which cameras have the old value and which the new one,
and `TimersFollow` that the last start or stop in a camera's queue, or its
timer if there is none, agrees with the value that the camera has or is about to have.
Both are about the cameras that are not astray; while two threads throw the switch
all of them are, and a throw that meets no other turns a camera back. `Course`
carries a command to its end: a run type is stored only after a disabling, when no
camera of which anything is known runs.

### Policy store and alarms

*The queue of reports.* The counter is bounded only together with the producers
that are on their way: `QueueInv` says that it equals the reports in the queue
plus the producers that have counted, and that, with the producers that have
seen room, it is at most the limit. A producer sees room only while the counter
is below `QueueSize`, and all the others may be on their way, hence the limit.
`QueueIsImplemented` maps each step to a step of `BoundedQueue` or a stutter;
`PostReport` is its `Put`, whose guard follows from `QueueInv`. The proof is about
the composed session, in which the accepted registration, the only step of the
session that touches the channel, starts its link.

*Alarms.* What is owed is in the status that the next report tells: the status of
kicks is cleared by a report only, and a report tells all that is set.

### IO board

*Kicks.* `KicksNeverOvercounted` is nearly inductive; the proof adds that a value
which was read and not yet cleared is at most the counter (`ReadIsCounted`), since
only the reader clears.

*What the board will have.* `BoardFollows` speaks of an empty outbox. The proof
follows, for each switch, the value that the board *will* have: that of the last
command for it in the outbox, or its own if there is none (`Ends`). `FollowInv`
compares it with the value that the switch has or is about to have (`Target`).
Posting a command changes it for one switch, sending the oldest one changes
nothing. For "enabled" it holds only once the message about a restart has been
handled; until then at least the board does not run against the program's will.
The attempt showed that `NoValue` has to differ from every setting, which
`ConstantsOK` of `IoBoard` now says.

### Only model-checked

* All liveness (`PacketsReclaimed`, `ImagesReclaimed`, `ImagesAnswered`,
  `EveryImageAnswered`, `LastCameraFinishes`, `Registers`, `MediaFollows`,
  `AlarmsReported`, `QueueDrains`): fairness and `ENABLED` are out of the prover's
  reach.
* `StartsWithParameters`, which the code does not satisfy (section 5).

## 7. What is not modelled

* *Image algorithms* (`IasCore`): numeric computations on pixels and the GPU.
  Models take their verdicts as nondeterministic.
* *`ThirdParty`*: nearly all lines of the repository are headers and sources of
  vendors and libraries (Basler, Dahua, OpenCV, breakpad), which the program
  calls and which hold none of its logic.
* *Vendor SDKs, Qt, the file system, the line*: external, modelled where the code
  depends on what they do, and marked as such.
* *Logs, wording, layout of messages*: data that no property is about.
* *Report rates changed at run time*: constants of a run in `PacketResult`.
* *Memory*: queues of events are bounded by the environment, not by the code.
* *Disused code*: the Modbus controller and the TCP server, which nothing creates.
* *Hardware cameras, other IO controllers*: wrappers of vendor SDKs and device
  protocols without state beyond a connection. Their effects, a camera that goes
  on and off line and a kick, are actions of `PacketResult` and `AICtrl`.
* *Framing of messages and bar codes*: sequential cutting of a byte stream, one
  reader per socket; sessions are modelled message by message.
* *Use of released objects*: an inspection that meets a removal in the traditional
  channel may crash the program; the model gives it either answer.
* *The board's light, continuous kick and version*: passed on without state.
* *Saving images, cleaning directories, statistic timer*: best-effort work on the
  helper thread that nothing waits for.
* *Creation of objects from the parameter file, end of the program*: sequential, on
  the main thread, before and after everything that is modelled.

## 8. Plan

Done: packets, images, AI channel, parameter file, boxes, traditional channel,
spot checks, session with reports and alarms, IO board; proofs of the safety
properties of all of them; abstract specifications of a queue between threads, of
storing the parameters, of answering images and of rejecting packets, each
implemented by the components that build on it. What is left, in order of importance:

1. *Pipeline*: `ImageMultipler` composed with `PacketResult`, and what the two
   timeouts (of an image and of a packet) mean together.
2. *Order of the cameras of a list*: what the count of `onImageData` means for a
   list that is not sorted, which `EndsEnclose` leaves out.
