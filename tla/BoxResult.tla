------------------------------ MODULE BoxResult ------------------------------
(***************************************************************************)
(* Multipler/BoxResult.cpp: cigarette boxes on a production line.  A box   *)
(* is enqueued by its first image (shaping camera 1), images of the        *)
(* stacking cameras 2 and 3 belong to the newest box of the queue; when a  *)
(* bar code is read, or without a reader when the first image of the outer *)
(* cameras comes, the oldest box is dequeued, and the images of the outer  *)
(* cameras belong to it.  Results of the images are recorded in the boxes. *)
(*                                                                         *)
(* All handlers run one after the other on the thread ObjectResult; the    *)
(* cameras wait for preInferAsync.  The line with its boxes is external:   *)
(* at most QueueLen boxes are between the shaping camera and the reader.   *)
(* A record's name is the number of the box that made it.                  *)
(*                                                                         *)
(* Left out: the command that stops a machine, sent for every NG result.   *)
(***************************************************************************)
EXTENDS Integers, FiniteSets, Sequences

CONSTANTS
  QueueLen,      \* m_queueLen: 2 or 3
  UseBarCoder,   \* m_useBarCoder: is a bar code reader configured?
  OuterCameras,  \* camera ids of the outer cameras, more than 3
  Garbage,       \* value of a field that no constructor sets
  NotFound,      \* object id -1
  MaxBoxes,      \* bound: boxes on the line in all
  MaxMishaps,    \* bound: codes missed, read twice, images that come late
  MaxImages,     \* bound: images of the stacking and outer cameras
  MaxDefects,    \* bound: images with an NG result
  MaxReconnects  \* bound: connections of the reader lost or restored

ASSUME ConstantsOK ==
  /\ QueueLen \in {2, 3} /\ UseBarCoder \in BOOLEAN
  /\ OuterCameras \subseteq Nat \ (0..3) /\ MaxDefects \in Nat
  /\ Garbage \notin Nat /\ NotFound \notin Nat /\ Garbage # NotFound
  /\ MaxBoxes \in Nat /\ MaxMishaps \in Nat /\ MaxReconnects \in Nat /\ MaxImages \in Nat

VARIABLES
  boxQueue,     \* m_box_queue, newest first
  boxPoped,     \* m_boxPoped
  boxFound,     \* m_boxFoundFromQueue
  recent,       \* less than 3 s since m_WaiguanFirstTime
  isConnected,  \* BarCoder::isConnected()
  counts,       \* m_detectTotalCount, m_detectNgCount
  line,         \* boxes between the shaping camera and the reader, oldest first
  station,      \* the box at the outer cameras
  ripe,         \* boxes made at least m_minElapsed ago
  history       \* ghost totals: see HistoryInit

vars == <<boxQueue, boxPoped, boxFound, recent, isConnected, counts, line, station, ripe, history>>

queueVars == <<boxQueue, boxPoped, boxFound>>
lineVars == <<line, station, ripe>>

-----------------------------------------------------------------------------
Boxes == 1..MaxBoxes
ObjectIds == Boxes \cup {Garbage, NotFound}
StackCamera == 2                 \* stands for both stacking cameras
Cameras == {1, StackCamera} \cup OuterCameras

(* An image of a box by a camera, and the object it was made an image of. *)
Image == [box : Boxes, cameraId : Cameras, objectId : ObjectIds]

(* A BoxObject_S: images stands for imageCameraIdHash. *)
Box == [objectId : ObjectIds, result : BOOLEAN, images : SUBSET Image]

(* Ghosts: shaped boxes, images taken, those whose result has come as NG, the
   objects in which that is recorded, mishaps by kind, changes of the reader's
   connection. *)
History == [shaped : 0..MaxBoxes, images : SUBSET Image, defects : SUBSET Image,
            ng : SUBSET ObjectIds,
            missed : 0..MaxMishaps, others : 0..MaxMishaps, reconnects : 0..MaxReconnects]

HistoryInit == [shaped |-> 0, images |-> {}, defects |-> {}, ng |-> {}, missed |-> 0,
                others |-> 0, reconnects |-> 0]

(* The constructor leaves m_boxFoundFromQueue and the numbers of m_boxPoped
   unset. *)
Init ==
  /\ boxQueue = << >> /\ boxFound \in BOOLEAN
  /\ boxPoped \in [objectId : {Garbage}, result : BOOLEAN, images : {{}}]
  /\ recent = FALSE /\ isConnected \in BOOLEAN
  /\ counts = [total |-> 0, ng |-> 0]
  /\ line = << >> /\ station = 0 /\ ripe = {}
  /\ history = HistoryInit

NewImage(b, c, o) == [box |-> b, cameraId |-> c, objectId |-> o]

MayTakeImage(b, c) ==
  /\ Cardinality(history.images) < history.shaped + MaxImages
  /\ ~\E i \in history.images : i.box = b /\ i.cameraId = c

(* preInfer returns; the image goes to its multipler and will have a result. *)
Emit(image) == history' = [history EXCEPT !.images = @ \cup {image}]

-----------------------------------------------------------------------------
(* Fault: the queue is not cut to its length. *)
EnqueuedUncut(box) == <<box>> \o boxQueue

Enqueued(box) == SubSeq(<<box>> \o boxQueue, 1,
                        IF Len(boxQueue) < QueueLen THEN Len(boxQueue) + 1 ELSE QueueLen)

(* preInferAsync for the shaping camera: the next box enters the line. *)
Shape ==
  /\ history.shaped < MaxBoxes /\ Len(line) < QueueLen
  /\ LET b == history.shaped + 1
         image == NewImage(b, 1, b)
     IN /\ boxQueue' = Enqueued([objectId |-> b, result |-> TRUE, images |-> {image}])
        /\ line' = Append(line, b)
        /\ history' = [history EXCEPT !.shaped = b, !.images = @ \cup {image}]
  /\ counts' = [counts EXCEPT !.total = @ + 1]
  /\ UNCHANGED <<boxPoped, boxFound, recent, isConnected, station, ripe>>

(* preInferAsync for a stacking camera, which sees the newest box of the line. *)
Stack ==
  /\ line # << >>
  /\ LET b == line[Len(line)] IN
     /\ MayTakeImage(b, StackCamera)
     /\ IF boxQueue # << >>
        THEN LET image == NewImage(b, StackCamera, boxQueue[1].objectId) IN
             /\ boxQueue' = [boxQueue EXCEPT ![1].images = @ \cup {image}]
             /\ Emit(image)
        ELSE /\ boxQueue' = boxQueue
             /\ Emit(NewImage(b, StackCamera, NotFound))
  /\ UNCHANGED <<boxPoped, boxFound, recent, isConnected, counts, lineVars>>

(* Fault: the dequeued box loses the list of its images. *)
OldestBare == [boxQueue[Len(boxQueue)] EXCEPT !.images = {}]

Oldest == boxQueue[Len(boxQueue)]

(* Fault: the oldest box is dequeued however short its stay. *)
MayDequeueEarly == boxQueue # << >>

MayDequeue == boxQueue # << >> /\ Oldest.objectId \in ripe

Dequeue ==
  /\ boxFound' = MayDequeue
  /\ IF MayDequeue
     THEN /\ boxPoped' = Oldest
          /\ boxQueue' = SubSeq(boxQueue, 1, Len(boxQueue) - 1)
     ELSE UNCHANGED <<boxPoped, boxQueue>>

ReaderInUse == UseBarCoder /\ isConnected

(* The oldest box of the line leaves it for the outer cameras, after m_minElapsed
   and 3 s after the last image of the box before. *)
Arrive ==
  /\ line # << >> /\ Head(line) \in ripe /\ station = 0 /\ ~recent
  /\ line' = Tail(line) /\ station' = Head(line) /\ ripe' = ripe

(* onBarCode: its code is read as it leaves. *)
OnBarCode ==
  /\ Arrive /\ ReaderInUse
  /\ Dequeue
  /\ UNCHANGED <<recent, isConnected, counts, history>>

(* Fault: every outer image counts as the first of its box. *)
IsFirstAlways == ~ReaderInUse

(* m_isWaiguanFirst counts, as no reader is in use. *)
IsFirst == ~recent /\ ~ReaderInUse

(* preInferAsync for outer camera c that sees box b. *)
OuterImage(b, c) ==
  /\ MayTakeImage(b, c)
  /\ recent' = TRUE
  /\ LET popped == IF IsFirst /\ MayDequeue THEN Oldest ELSE boxPoped
         found == IF IsFirst THEN MayDequeue ELSE boxFound
         image == NewImage(b, c, IF found THEN popped.objectId ELSE NotFound)
     IN /\ boxFound' = found
        /\ boxQueue' = IF IsFirst /\ MayDequeue
                       THEN SubSeq(boxQueue, 1, Len(boxQueue) - 1) ELSE boxQueue
        /\ boxPoped' = IF found THEN [popped EXCEPT !.images = @ \cup {image}] ELSE popped
        /\ Emit(image)
  /\ UNCHANGED <<isConnected, counts>>

(* Without a reader the first outer image of a box finds it leaving the line. *)
OuterFirst(c) == Arrive /\ ~ReaderInUse /\ OuterImage(Head(line), c)

OuterNext(c) == station # 0 /\ OuterImage(station, c) /\ UNCHANGED lineVars

-----------------------------------------------------------------------------
(* findBox and findCameraId: the record of the object that knows the image, in
   the queue before the one dequeued. *)
InQueue(image) == {i \in DOMAIN boxQueue : boxQueue[i].objectId = image.objectId}

Knows(box, image) == box.objectId = image.objectId /\ image \in box.images

(* The boxes' copies of a record after an NG result. *)
WithNg(box) == [box EXCEPT !.result = FALSE]

(* Fault: every NG result counts. *)
CountNgAlways(box) == counts' = [counts EXCEPT !.ng = @ + 1]

CountNg(box) ==
  counts' = IF box.result THEN [counts EXCEPT !.ng = @ + 1] ELSE counts

(* The result of an image comes and is NG. *)
Defect(image) ==
  /\ image \in history.images \ history.defects
  /\ Cardinality(history.defects) < MaxDefects
  /\ UNCHANGED <<boxFound, recent, isConnected, lineVars>>

Recorded(image) ==
  history' = [history EXCEPT
    !.defects = @ \cup {image}, !.ng = @ \cup {image.objectId}]

(* onImageResult: the box is in the queue ... *)
NgInQueue(image) ==
  /\ Defect(image)
  /\ \E i \in InQueue(image) :
       /\ Knows(boxQueue[i], image)
       /\ boxQueue' = [boxQueue EXCEPT ![i] = WithNg(@)]
       /\ CountNg(boxQueue[i])
  /\ Recorded(image)
  /\ boxPoped' = boxPoped

(* ... or the one dequeued last ... *)
NgInPoped(image) ==
  /\ Defect(image)
  /\ InQueue(image) = {} /\ Knows(boxPoped, image)
  /\ boxPoped' = WithNg(boxPoped)
  /\ CountNg(boxPoped)
  /\ Recorded(image)
  /\ boxQueue' = boxQueue

IsKnown(image) ==
  IF InQueue(image) # {} THEN \E i \in InQueue(image) : Knows(boxQueue[i], image)
  ELSE Knows(boxPoped, image)

(* ... or known no more.  (A result that is not NG changes nothing but a hash
   that is never read.) *)
NgUnknown(image) ==
  /\ Defect(image) /\ ~IsKnown(image)
  /\ history' = [history EXCEPT !.defects = @ \cup {image}]
  /\ UNCHANGED <<boxQueue, boxPoped, counts>>

-----------------------------------------------------------------------------
(* The box at the head of the line has been on it for m_minElapsed. *)
Ripen(b) ==
  /\ \E i \in DOMAIN line : line[i] = b
  /\ b \notin ripe /\ (b = 1 \/ b - 1 \in ripe)
  /\ ripe' = ripe \cup {b}
  /\ UNCHANGED <<queueVars, recent, isConnected, counts, line, station, history>>

(* The box leaves the outer cameras, and 3 s pass. *)
Leave ==
  /\ station # 0 /\ station' = 0
  /\ recent' = FALSE
  /\ UNCHANGED <<queueVars, isConnected, counts, line, ripe, history>>

(* The reader fails to read the code of the box. *)
MissCode ==
  /\ history.missed < MaxMishaps
  /\ Arrive /\ ReaderInUse
  /\ history' = [history EXCEPT !.missed = @ + 1]
  /\ UNCHANGED <<queueVars, recent, isConnected, counts>>

(* The code of the box at the outer cameras is read once more. *)
ReadTwice ==
  /\ history.others < MaxMishaps
  /\ ReaderInUse /\ station # 0
  /\ Dequeue
  /\ history' = [history EXCEPT !.others = @ + 1]
  /\ UNCHANGED <<recent, isConnected, counts, lineVars>>

(* 3 s pass before the last of the outer cameras' images of a box. *)
ImageIsLate ==
  /\ history.others < MaxMishaps
  /\ recent /\ recent' = FALSE
  /\ history' = [history EXCEPT !.others = @ + 1]
  /\ UNCHANGED <<queueVars, isConnected, counts, lineVars>>

(* The reader's connection changes. *)
ConnectionChanges ==
  /\ history.reconnects < MaxReconnects
  /\ UseBarCoder
  /\ isConnected' = ~isConnected
  /\ UNCHANGED <<queueVars, recent, counts, lineVars>>

SetConnected ==
  /\ ConnectionChanges /\ (station = 0 \/ recent)
  /\ history' = [history EXCEPT !.reconnects = @ + 1]

(* A mishap is that it changes between the dequeueing of a box and its first
   outer image, which then dequeues the next one. *)
SetConnectedAtBox ==
  /\ ConnectionChanges /\ station # 0 /\ ~recent
  /\ history.others < MaxMishaps
  /\ history' = [history EXCEPT !.reconnects = @ + 1, !.others = @ + 1]

Next ==
  \/ Shape \/ Stack \/ OnBarCode
  \/ \E c \in OuterCameras : OuterFirst(c) \/ OuterNext(c)
  \/ \E image \in history.images : NgInQueue(image) \/ NgInPoped(image) \/ NgUnknown(image)
  \/ \E b \in Boxes : Ripen(b)
  \/ Leave \/ MissCode \/ ReadTwice \/ ImageIsLate
  \/ SetConnected \/ SetConnectedAtBox

Spec == Init /\ [][Next]_vars

-----------------------------------------------------------------------------
(* Type invariant. *)
TypeOK ==
  /\ boxQueue \in Seq(Box) /\ Len(boxQueue) <= QueueLen
  /\ boxPoped \in Box /\ boxFound \in BOOLEAN
  /\ recent \in BOOLEAN /\ isConnected \in BOOLEAN
  /\ counts \in [total : Nat, ng : Nat]
  /\ line \in Seq(Boxes) /\ station \in Boxes \cup {0} /\ ripe \subseteq Boxes
  /\ history \in History

(* Mapping: as long as no code is missed or read twice and no image comes late,
   every image is reported for the box it shows, whichever cameras, boxes and
   results come between. *)
ImagesOfTheirBox ==
  history.missed + history.others = 0 =>
    \A image \in history.images : image.objectId = image.box

QueueIds == [i \in DOMAIN boxQueue |-> boxQueue[i].objectId]
LineNewestFirst == [i \in DOMAIN line |-> line[Len(line) + 1 - i]]

(* Recovery (BoxResult.h: a lost code shifts the queue against the line, "the
   queue recovers by itself"): however many codes have been missed, the queue
   starts with the boxes of the line, and holds nothing else as soon as the line
   is full. *)
RecoversWhenFull ==
  history.others = 0 =>
    /\ SubSeq(QueueIds, 1, Len(line)) = LineNewestFirst
    /\ Len(line) = QueueLen => QueueIds = LineNewestFirst

(* m_minElapsed: whatever is read twice, missed or late, a box that has been on
   the line for less than m_minElapsed is not given away to another box's code:
   it stays in the queue. *)
YoungBoxesStay ==
  \A i \in DOMAIN line : line[i] \notin ripe => line[i] \in {QueueIds[k] : k \in DOMAIN QueueIds}

(* Statistics: a defective box is counted once, however many of its images are
   NG, whether the results come while it is in the queue, after it has been
   dequeued, or both.  (The box that no constructor sets may count as one.) *)
NgCountedOnce ==
  counts.ng - Cardinality(history.ng \ {Garbage}) \in 0..Cardinality(history.ng \cap {Garbage})

(* A defect seen on a box that is still on the line or at the outer cameras is
   recorded in the box, as long as there is no mishap: the record is found. *)
DefectFindsBox ==
  history.missed + history.others = 0 =>
    \A image \in history.images :
      (image.box = station \/ \E i \in DOMAIN line : line[i] = image.box) => IsKnown(image)
=============================================================================
