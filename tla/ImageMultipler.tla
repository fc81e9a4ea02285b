--------------------------- MODULE ImageMultipler ---------------------------
(***************************************************************************)
(* CImageMultipler (Multipler/ImageMultipler.cpp): one per camera.  It     *)
(* opens a record for every image of its camera, merges the results of the *)
(* algorithms that inspect the image, and reports the image once all of    *)
(* them have answered or the image has become too old.                     *)
(*                                                                         *)
(* Threads: the camera's thread emits imageDataSignal, which posts the     *)
(* image to its subscribers one after the other; the algorithms work on    *)
(* their own threads and post their results to the multipler's event queue *)
(* (mailbox), which the multipler's thread empties in order; its 20 ms     *)
(* timer runs on the same thread; the TCP thread reads the counters.       *)
(***************************************************************************)
EXTENDS Integers, FiniteSets, Sequences

CONSTANTS
  ImageIds,       \* image names
  UniqueNames,    \* are names used once (a real camera, not a spot camera)?
  Algorithms,     \* algorithms subscribed for this camera: AI channels and "DT"
  InferTimeout,   \* m_inferTimeout: age at which an image is given up
  Compensation,   \* capture_compensation_ms of the camera
  Word,           \* modulus of uint64_t arithmetic
  StartTime,      \* clock value at start-up
  MaxFrames,      \* bound: images taken, of this camera and of others
  MaxTime,        \* bound: the clock stops here, InferTimeout after the last image
  MaxSwitches,    \* bound: changes of the run type
  MaxBacklog,     \* bound: events that wait when an algorithm answers
  MaxStatistics   \* bound: statistics reports

ASSUME ConstantsOK ==
  /\ IsFiniteSet(ImageIds) /\ UniqueNames \in BOOLEAN
  /\ IsFiniteSet(Algorithms) /\ "Multipler" \notin Algorithms
  /\ InferTimeout \in Nat /\ Compensation \in Int /\ Word \in Nat \ {0}
  /\ StartTime \in Nat /\ StartTime + Compensation >= 0
  /\ MaxFrames \in Nat /\ MaxTime \in Nat /\ MaxSwitches \in Nat
  /\ MaxBacklog \in Nat /\ MaxStatistics \in Nat

VARIABLES
  now,                \* QDateTime::currentMSecsSinceEpoch()
  runType,            \* EngineProject::getRunType()
  emitting,           \* the image being emitted, or << >>
  working,            \* images the algorithms are working on
  mailbox,            \* the event queue of the multipler's thread
  imageResultRecord,  \* m_imageResultRecord: imageId -> IMAGE_RESULT_RECORD
  imageIasIdRecord,   \* m_imageIasIdRecord: imageId -> results received
  detectTotal,        \* m_detectTotalCount
  detectNg,           \* m_detectNgCount
  statistic,          \* what a running getStatistic has read, or << >>
  reports,            \* images reported, oldest first
  history             \* ghost totals: see HistoryInit

vars == <<now, runType, emitting, working, mailbox, imageResultRecord,
          imageIasIdRecord, detectTotal, detectNg, statistic, reports, history>>

recordVars == <<imageResultRecord, imageIasIdRecord>>
statVars == <<detectTotal, detectNg, statistic>>
cameraVars == <<emitting, working>>

-----------------------------------------------------------------------------
RunTypes == {"Infer", "Spot"}

(* RESULT_INIT, RESULT_NG, RESULT_OK, RESULT_TIMEOUT *)
ImageResults == {"INIT", "NG", "OK", "TIMEOUT"}

IasCount == Cardinality(Algorithms)

(* The channels of AICtrls whose group has this camera; channelInfers is "DT". *)
AIChannels == Algorithms \ {"DT"}

Subscribers == {"Multipler"} \cup Algorithms

(* Fault: the algorithms subscribe first. *)
MayServeLate(s, todo) == s \in todo /\ (s = "Multipler" => todo = {"Multipler"})

(* The connections of imageDataSignal are served in the order they were made, s
   the next of those in todo: EngineProject::init lets the multiplers subscribe
   before the algorithms, and the AI channels, in the order of a map (here in
   any), before DT. *)
MayServe(s, todo) ==
  /\ s \in todo
  /\ "Multipler" \in todo => s = "Multipler"
  /\ s = "DT" => todo = {"DT"}

(* An image (frame is a ghost that tells images of one name apart, own whether
   it is of this camera) at an algorithm, and that algorithm's result. *)
Work == [frame : Nat, imageId : ImageIds, own : BOOLEAN, alg : Algorithms]
IasResult == [frame : Nat, imageId : ImageIds, own : BOOLEAN,
              alg : Algorithms, result : ImageResults]
Image == [frame : Nat, imageId : ImageIds, gen : Int]

(* An image being emitted, to the subscribers in todo. *)
Emission == [frame : Nat, imageId : ImageIds, gen : Int,
             todo : (SUBSET Subscribers) \ {{}}]

Event == [type : {"data"}, body : Image] \cup
         [type : {"result"}, body : IasResult]

(* An IMAGE_RESULT_RECORD; parts, a ghost, are the results merged into it. *)
Record == [frame : Nat, gen : Int, result : ImageResults, parts : Seq(IasResult)]

(* What sendImageResultToPolicyStore, and in an inspection run the packet
   (emitted), are told of an image, and its age at that moment. *)
Report == [imageId : ImageIds, record : Record, age : Int, emitted : BOOLEAN]

(* Ghosts: images taken, switches of the run type, names used, and what the TCP
   thread has reported. *)
History == [frames : Nat, switches : Nat, names : SUBSET ImageIds,
            reportedTotal : Nat, reportedNg : Nat, reports : Nat]

HistoryInit == [frames |-> 0, switches |-> 0, names |-> {},
                reportedTotal |-> 0, reportedNg |-> 0, reports |-> 0]

(* Fault: the entry is not removed. *)
WithoutNothing(f, id) == f

Without(f, id) == [i \in DOMAIN f \ {id} |-> f[i]]
With(f, id, x) == [i \in DOMAIN f \cup {id} |-> IF i = id THEN x ELSE f[i]]

Init ==
  /\ now = StartTime /\ runType = "Infer"
  /\ emitting = << >> /\ working = {} /\ mailbox = << >>
  /\ imageResultRecord = << >> /\ imageIasIdRecord = << >>
  /\ detectTotal = 0 /\ detectNg = 0 /\ statistic = << >>
  /\ reports = << >>
  /\ history = HistoryInit

-----------------------------------------------------------------------------
(* Environment: the clock, the run type and the algorithms. *)
Tick ==
  /\ now < MaxTime
  /\ now' = now + 1
  /\ UNCHANGED <<runType, cameraVars, mailbox, recordVars, statVars, reports,
                 history>>

SetRunType ==
  /\ history.switches < MaxSwitches
  /\ runType' = IF runType = "Infer" THEN "Spot" ELSE "Infer"
  /\ history' = [history EXCEPT !.switches = @ + 1]
  /\ UNCHANGED <<now, cameraVars, mailbox, recordVars, statVars, reports>>

(* A name for the next image.  Real cameras name images after camera and
   clock; a spot camera after a file, whose name may come again. *)
NameImage(id) ==
  /\ history.frames < MaxFrames /\ now + InferTimeout <= MaxTime
  /\ UniqueNames => id \notin history.names
  /\ history' = [history EXCEPT !.frames = @ + 1, !.names = @ \cup {id}]

(* sendImageDataAsync of this camera reaches emit imageDataSignal. *)
TakeImage(id) ==
  /\ emitting = << >>
  /\ NameImage(id)
  /\ emitting' = [frame |-> history.frames, imageId |-> id,
                  gen |-> now + Compensation, todo |-> Subscribers]
  /\ UNCHANGED <<now, runType, working, mailbox, recordVars, statVars, reports>>

(* The signal posts the image to the next subscriber. *)
EmitImageData(s) ==
  /\ emitting # << >> /\ MayServe(s, emitting.todo)
  /\ IF s = "Multipler"
     THEN /\ mailbox' = Append(mailbox, [type |-> "data",
               body |-> [frame |-> emitting.frame, imageId |-> emitting.imageId,
                         gen |-> emitting.gen]])
          /\ working' = working
     ELSE /\ working' = working \cup
               {[frame |-> emitting.frame, imageId |-> emitting.imageId,
                 own |-> TRUE, alg |-> s]}
          /\ mailbox' = mailbox
  /\ emitting' = IF emitting.todo = {s} THEN << >>
                 ELSE [emitting EXCEPT !.todo = @ \ {s}]
  /\ UNCHANGED <<now, runType, recordVars, statVars, reports, history>>

(* Another camera, which shares the AI channels gs with this one, takes an image:
   its results will be broadcast to this multipler too. *)
OtherImage(id, gs) ==
  /\ NameImage(id)
  /\ working' = working \cup
       {[frame |-> history.frames, imageId |-> id, own |-> FALSE, alg |-> g] : g \in gs}
  /\ UNCHANGED <<now, runType, emitting, mailbox, recordVars, statVars, reports>>

(* BatchInfer::onImageGroup answers every image, with RESULT_TIMEOUT while no
   model is loaded; ChannelInfer::inferImage answers NG or OK. *)
Infer(w, r) ==
  /\ Len(mailbox) < MaxBacklog
  /\ r \in (IF w.alg = "DT" THEN {"NG", "OK"} ELSE {"NG", "OK", "TIMEOUT"})
  /\ working' = working \ {w}
  /\ mailbox' = Append(mailbox, [type |-> "result",
       body |-> [frame |-> w.frame, imageId |-> w.imageId, own |-> w.own,
                 alg |-> w.alg, result |-> r]])
  /\ UNCHANGED <<now, runType, emitting, recordVars, statVars, reports, history>>

(* ChannelInfer::onImageData returns without an answer before its locators
   are loaded. *)
InferSkips(w) ==
  /\ w.alg = "DT"
  /\ working' = working \ {w}
  /\ UNCHANGED <<now, runType, emitting, mailbox, recordVars, statVars, reports,
                 history>>

-----------------------------------------------------------------------------
(* The multipler's thread takes the next event of type t. *)
Take(t) ==
  /\ mailbox # << >>
  /\ Head(mailbox).type = t
  /\ mailbox' = Tail(mailbox)
  /\ UNCHANGED <<now, runType, cameraVars, statistic, history>>

NewRecord(image) == [frame |-> image.frame, gen |-> image.gen,
                     result |-> "INIT", parts |-> << >>]

OnImageData ==
  /\ Take("data")
  /\ LET image == Head(mailbox).body IN
     IF image.imageId \in DOMAIN imageResultRecord
     THEN UNCHANGED <<imageResultRecord, detectTotal>>
     ELSE /\ detectTotal' = detectTotal + 1
          /\ imageResultRecord' =
               With(imageResultRecord, image.imageId, NewRecord(image))
  /\ UNCHANGED <<imageIasIdRecord, detectNg, reports>>

(* Fault: the latest result always wins. *)
MergeLatest(rec, ias) ==
  [rec EXCEPT !.result = ias.result, !.parts = Append(@, ias)]

(* The first result is taken over, after it only NG counts. *)
Merge(rec, ias) ==
  [rec EXCEPT
     !.result = IF @ = "INIT" \/ ias.result = "NG" THEN ias.result ELSE @,
     !.parts = Append(@, ias)]

HasRecord(ias) == ias.own /\ ias.imageId \in DOMAIN imageResultRecord

(* onImageIasResult up to the lookup: the result is for another camera, or
   there is no record (any more). *)
OnResultDropped ==
  /\ Take("result")
  /\ ~HasRecord(Head(mailbox).body)
  /\ UNCHANGED <<recordVars, detectTotal, detectNg, reports>>

(* m_imageIasIdRecord: results merged so far, none without an entry. *)
Received(id) == IF id \in DOMAIN imageIasIdRecord THEN imageIasIdRecord[id] ELSE 0

(* Fault: the result is counted before it is compared and again after it. *)
IsLastResultEarly(id) == IasCount <= 1 \/ Received(id) + 2 >= IasCount

(* Does the next result complete the image?  The first of several never does. *)
IsLastResult(id) ==
  \/ IasCount <= 1
  \/ id \in DOMAIN imageIasIdRecord /\ Received(id) + 1 >= IasCount

(* onImageIasResult, the image still waits for another algorithm. *)
OnResultMerged ==
  /\ Take("result")
  /\ LET ias == Head(mailbox).body
         id == ias.imageId IN
     /\ HasRecord(ias)
     /\ ~IsLastResult(id)
     /\ imageResultRecord' =
          [imageResultRecord EXCEPT ![id] = Merge(@, ias)]
     /\ imageIasIdRecord' = With(imageIasIdRecord, id, Received(id) + 1)
  /\ UNCHANGED <<detectTotal, detectNg, reports>>

(* Fault: the count of results is not removed. *)
ConcludeKeepingCount(id, rec) ==
  /\ detectNg' = IF rec.result = "NG" THEN detectNg + 1 ELSE detectNg
  /\ reports' = Append(reports, [imageId |-> id, record |-> rec,
       age |-> now - rec.gen, emitted |-> runType = "Infer"])
  /\ imageResultRecord' = Without(imageResultRecord, id)
  /\ UNCHANGED <<imageIasIdRecord, detectTotal>>

(* The image is counted, reported and, in an inspection run, handed to the
   packet. *)
Conclude(id, rec) ==
  /\ detectNg' = IF rec.result = "NG" THEN detectNg + 1 ELSE detectNg
  /\ reports' = Append(reports, [imageId |-> id, record |-> rec,
       age |-> now - rec.gen, emitted |-> runType = "Infer"])
  /\ imageResultRecord' = Without(imageResultRecord, id)
  /\ imageIasIdRecord' = Without(imageIasIdRecord, id)
  /\ detectTotal' = detectTotal

(* onImageIasResult, all the algorithms have answered. *)
OnResultConcludes ==
  /\ Take("result")
  /\ LET ias == Head(mailbox).body IN
     /\ HasRecord(ias)
     /\ IsLastResult(ias.imageId)
     /\ Conclude(ias.imageId, Merge(imageResultRecord[ias.imageId], ias))

(* uint64_t arithmetic: an image from the future is very old. *)
Expired(rec) == (now - rec.gen) % Word >= InferTimeout

(* Fault: an image none of whose results came is kept. *)
OnTimeoutAnswered ==
  /\ \E id \in DOMAIN imageResultRecord :
       /\ Expired(imageResultRecord[id]) /\ imageResultRecord[id].parts # << >>
       /\ Conclude(id, imageResultRecord[id])
  /\ UNCHANGED <<now, runType, cameraVars, mailbox, statistic, history>>

(* onTimeout: one expired image, the first in the order of the hash. *)
OnTimeout ==
  /\ \E id \in DOMAIN imageResultRecord :
       /\ Expired(imageResultRecord[id])
       /\ Conclude(id, imageResultRecord[id])
  /\ UNCHANGED <<now, runType, cameraVars, mailbox, statistic, history>>

-----------------------------------------------------------------------------
(* getStatistic on the TCP thread: read, then clear. *)
GetStatistic ==
  /\ statistic = << >> /\ history.reports < MaxStatistics
  /\ statistic' = <<detectTotal, detectNg>>
  /\ UNCHANGED <<now, runType, cameraVars, mailbox, recordVars, detectTotal,
                 detectNg, reports, history>>

(* Fault: only the total is cleared. *)
ClearTotalOnly ==
  /\ statistic # << >>
  /\ detectTotal' = 0 /\ detectNg' = detectNg /\ statistic' = << >>
  /\ history' = [history EXCEPT !.reportedTotal = @ + statistic[1],
                   !.reportedNg = @ + statistic[2], !.reports = @ + 1]
  /\ UNCHANGED <<now, runType, cameraVars, mailbox, recordVars, reports>>

ClearStatistic ==
  /\ statistic # << >>
  /\ detectTotal' = 0 /\ detectNg' = 0 /\ statistic' = << >>
  /\ history' = [history EXCEPT !.reportedTotal = @ + statistic[1],
                   !.reportedNg = @ + statistic[2], !.reports = @ + 1]
  /\ UNCHANGED <<now, runType, cameraVars, mailbox, recordVars, reports>>

OnEvent == OnImageData \/ OnResultDropped \/ OnResultMerged \/ OnResultConcludes

Next ==
  \/ Tick \/ SetRunType
  \/ \E id \in ImageIds : TakeImage(id)
  \/ \E s \in Subscribers : EmitImageData(s)
  \/ \E id \in ImageIds : \E gs \in (SUBSET AIChannels) \ {{}} : OtherImage(id, gs)
  \/ \E w \in working : \E r \in ImageResults : Infer(w, r)
  \/ \E w \in working : InferSkips(w)
  \/ OnImageData \/ OnResultDropped \/ OnResultMerged \/ OnResultConcludes
  \/ OnTimeout
  \/ GetStatistic \/ ClearStatistic

Spec == Init /\ [][Next]_vars

(* The clock, the emitting camera thread, the multipler's event loop and its
   timer go on; the algorithms may hang for ever. *)
FairSpec ==
  Spec /\ WF_vars(Tick) /\ WF_vars(\E s \in Subscribers : EmitImageData(s))
       /\ WF_vars(OnEvent) /\ WF_vars(OnTimeout)

-----------------------------------------------------------------------------
(* Type invariant. *)
TypeOK ==
  /\ now \in Nat /\ runType \in RunTypes
  /\ emitting = << >> \/ emitting \in Emission
  /\ working \subseteq Work
  /\ mailbox \in Seq(Event)
  /\ DOMAIN imageResultRecord \subseteq ImageIds
  /\ \A id \in DOMAIN imageResultRecord : imageResultRecord[id] \in Record
  /\ DOMAIN imageIasIdRecord \subseteq ImageIds
  /\ \A id \in DOMAIN imageIasIdRecord : imageIasIdRecord[id] \in Nat
  /\ detectTotal \in Nat /\ detectNg \in Nat
  /\ statistic \in {<< >>} \cup (Nat \X Nat)
  /\ reports \in Seq(Report)
  /\ history \in History

(* Merging (onImageIasResult): whatever the order of the algorithms' answers, a
   reported image is NG exactly if one of its algorithms said NG. *)
NgWins ==
  \A k \in DOMAIN reports :
    LET rec == reports[k].record IN
    rec.result = "NG" <=> \E j \in DOMAIN rec.parts : rec.parts[j].result = "NG"

(* Counting (m_imageIasIdRecord): the count kept for an image is the number of
   results merged into its record; no count outlives its record. *)
CountsMatch ==
  /\ DOMAIN imageIasIdRecord \subseteq DOMAIN imageResultRecord
  /\ \A id \in DOMAIN imageResultRecord :
       Received(id) = Len(imageResultRecord[id].parts)

(* What the comment in onImageIasResult says of a concluded image (all the
   algorithms' results have been received): every algorithm has answered it,
   unless the image is as old as the timeout. *)
AllAlgorithmsAnswered ==
  \A k \in DOMAIN reports :
    LET rec == reports[k].record IN
    \/ reports[k].age >= InferTimeout
    \/ {rec.parts[j].alg : j \in DOMAIN rec.parts} = Algorithms

(* No image is reported twice, and only with results that the algorithms gave
   for this very image: none of another camera, none of an earlier image. *)
ReportedOnceForItself ==
  \A k \in DOMAIN reports :
    LET rec == reports[k].record IN
    /\ \A j \in DOMAIN reports : reports[j].record.frame = rec.frame => j = k
    /\ \A j \in DOMAIN rec.parts : rec.parts[j].frame = rec.frame
    /\ rec.frame \notin {imageResultRecord[id].frame :
                           id \in DOMAIN imageResultRecord}

(* Subscription order (EngineProject::init): a result of one of its images that
   the multipler drops is always too late, never too early: the image has been
   reported before. *)
DroppedOnlyWhenReported ==
  [][OnResultDropped /\ Head(mailbox).body.own =>
       \E k \in DOMAIN reports :
         reports[k].record.frame = Head(mailbox).body.frame]_vars

(* Statistics: a defect is reported to the policy store at most once. *)
StatisticsNeverExceed ==
  history.reportedNg + detectNg <=
    Cardinality({k \in DOMAIN reports : reports[k].record.result = "NG"})

(* Liveness: every image the multipler has opened a record for is reported,
   even if its algorithms never answer. *)
ImagesReclaimed ==
  \A id \in ImageIds :
    (id \in DOMAIN imageResultRecord) ~> (id \notin DOMAIN imageResultRecord)

Served == INSTANCE Answering
            WITH asked <- 0..history.frames - 1,
                 answered <- [k \in DOMAIN reports |-> reports[k].record.frame]

(* The multipler keeps the promise of Answering, which PacketResult builds on: if
   names are used once, it reports to packet and policy store only images that
   were taken, each once, whoever concludes them, the last algorithm or the
   timer. *)
ReportsWhatIsTaken == Served!Spec
=============================================================================
