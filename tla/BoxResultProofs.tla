--------------------------- MODULE BoxResultProofs ---------------------------
(***************************************************************************)
(* Boxes on the line and the queue of their records, for any number of     *)
(* boxes, images, results, mishaps and changes of the reader's connection: *)
(* types, the queue against the line, and the count of defective boxes.    *)
(***************************************************************************)
EXTENDS BoxResult, FiniteSetTheorems, SequenceTheorems, TLAPS

-----------------------------------------------------------------------------
(* The queue of records and the line. *)

LEMMA QueueParts ==
  ASSUME TypeOK
  PROVE  /\ boxQueue \in Seq(Box) /\ Len(boxQueue) \in Nat /\ Len(boxQueue) <= QueueLen
         /\ DOMAIN boxQueue = 1..Len(boxQueue)
         /\ \A i \in DOMAIN boxQueue : boxQueue[i] \in Box
         /\ boxQueue # << >> <=> Len(boxQueue) # 0
<1>1. boxQueue \in Seq(Box) /\ Len(boxQueue) <= QueueLen
  BY DEF TypeOK
<1>2. QED BY <1>1, EmptySeq, LenProperties, ElementOfSeq

LEMMA LineParts ==
  ASSUME TypeOK
  PROVE  /\ line \in Seq(Boxes) /\ Len(line) \in Nat /\ DOMAIN line = 1..Len(line)
         /\ \A i \in DOMAIN line : line[i] \in Boxes /\ line[i] \in Nat
         /\ line # << >> <=> Len(line) # 0
<1>1. line \in Seq(Boxes)
  BY DEF TypeOK
<1>2. \A b \in Boxes : b \in Nat
  BY DEF Boxes
<1>3. QED BY <1>1, <1>2, EmptySeq, LenProperties, ElementOfSeq

(* A new record comes first; the last one goes if there is no room. *)
LEMMA EnqueuedParts ==
  ASSUME TypeOK, NEW box \in Box
  PROVE  /\ Enqueued(box) \in Seq(Box)
         /\ Len(Enqueued(box)) = IF Len(boxQueue) < QueueLen THEN Len(boxQueue) + 1
                                 ELSE QueueLen
         /\ Len(Enqueued(box)) \in 1..QueueLen
         /\ DOMAIN Enqueued(box) = 1..Len(Enqueued(box))
         /\ Enqueued(box)[1] = box
         /\ \A i \in DOMAIN Enqueued(box) : i # 1 =>
              i - 1 \in DOMAIN boxQueue /\ Enqueued(box)[i] = boxQueue[i - 1]
<1> DEFINE s == <<box>> \o boxQueue
           n == IF Len(boxQueue) < QueueLen THEN Len(boxQueue) + 1 ELSE QueueLen
<1>1. boxQueue \in Seq(Box) /\ Len(boxQueue) \in Nat /\ Len(boxQueue) <= QueueLen
      /\ DOMAIN boxQueue = 1..Len(boxQueue)
  BY QueueParts
<1>2. <<box>> \in Seq(Box) /\ Len(<<box>>) = 1 /\ <<box>>[1] = box
  OBVIOUS
<1>3. /\ s \in Seq(Box) /\ Len(s) = 1 + Len(boxQueue)
      /\ \A i \in 1..(1 + Len(boxQueue)) :
           s[i] = IF i <= 1 THEN <<box>>[i] ELSE boxQueue[i - 1]
  BY <1>1, <1>2, ConcatProperties
<1>4. /\ n \in 1..QueueLen /\ n <= Len(boxQueue) + 1 /\ n \in Nat
  BY <1>1, ConstantsOK
<1> HIDE DEF s
<1>5. \A i \in 1..n : s[i] \in Box
  BY <1>1, <1>3, <1>4, ElementOfSeq
<1>6. Enqueued(box) = SubSeq(s, 1, n)
  BY DEF Enqueued, s
<1> HIDE DEF n
<1>7. /\ Enqueued(box) \in Seq(Box)
      /\ Len(Enqueued(box)) = n
      /\ \A i \in 1..n : Enqueued(box)[i] = s[i]
  <2>1. /\ SubSeq(s, 1, n) \in Seq(Box)
        /\ Len(SubSeq(s, 1, n)) = IF 1 <= n THEN n - 1 + 1 ELSE 0
        /\ \A i \in 1..(n - 1 + 1) : SubSeq(s, 1, n)[i] = s[1 + i - 1]
    BY <1>4, <1>5, SubSeqProperties
  <2>2. n - 1 + 1 = n /\ 1 <= n
    BY <1>4
  <2>3. \A i \in 1..n : 1 + i - 1 = i
    BY <1>4
  <2>4. QED BY <1>6, <2>1, <2>2, <2>3
<1>8. DOMAIN Enqueued(box) = 1..n
  BY <1>7, LenProperties
<1>9. Enqueued(box)[1] = box
  BY <1>1, <1>2, <1>3, <1>4, <1>7
<1>10. ASSUME NEW i \in 1..n, i # 1
       PROVE  i - 1 \in DOMAIN boxQueue /\ Enqueued(box)[i] = boxQueue[i - 1]
  <2>1. i \in 1..(1 + Len(boxQueue)) /\ ~(i <= 1) /\ i - 1 \in 1..Len(boxQueue)
    BY <1>1, <1>4, <1>10
  <2>2. QED BY <1>1, <1>3, <1>7, <1>10, <2>1
<1>11. QED BY <1>4, <1>7, <1>8, <1>9, <1>10 DEF n

(* The oldest record goes, the others stay where they are. *)
Shortened == SubSeq(boxQueue, 1, Len(boxQueue) - 1)

LEMMA ShortenedParts ==
  ASSUME TypeOK, boxQueue # << >>
  PROVE  /\ Shortened \in Seq(Box) /\ Len(Shortened) = Len(boxQueue) - 1
         /\ DOMAIN Shortened = 1..(Len(boxQueue) - 1)
         /\ \A i \in DOMAIN Shortened : i \in DOMAIN boxQueue /\ Shortened[i] = boxQueue[i]
         /\ Len(boxQueue) \in DOMAIN boxQueue /\ Oldest = boxQueue[Len(boxQueue)]
         /\ Oldest \in Box
<1>1. /\ boxQueue \in Seq(Box) /\ Len(boxQueue) \in Nat \ {0}
      /\ DOMAIN boxQueue = 1..Len(boxQueue)
      /\ \A i \in DOMAIN boxQueue : boxQueue[i] \in Box
  BY QueueParts
<1>2. PICK n \in Nat : n = Len(boxQueue) - 1
  <2>1. Len(boxQueue) - 1 \in Nat
    BY <1>1
  <2>2. QED BY <2>1
<1>3. 1..n \subseteq DOMAIN boxQueue /\ Len(boxQueue) \in DOMAIN boxQueue
  BY <1>1, <1>2
<1>4. /\ SubSeq(boxQueue, 1, n) \in Seq(Box)
      /\ Len(SubSeq(boxQueue, 1, n)) = IF 1 <= n THEN n - 1 + 1 ELSE 0
      /\ \A i \in 1..(n - 1 + 1) : SubSeq(boxQueue, 1, n)[i] = boxQueue[1 + i - 1]
  <2>1. \A i \in 1..n : boxQueue[i] \in Box
    BY <1>1, <1>3
  <2>2. QED BY <2>1, SubSeqProperties
<1>5. n - 1 + 1 = n /\ (~(1 <= n) => n = 0) /\ \A i \in 1..n : 1 + i - 1 = i
  BY <1>2
<1>6. /\ Shortened \in Seq(Box) /\ Len(Shortened) = n
      /\ \A i \in 1..n : Shortened[i] = boxQueue[i]
  BY <1>2, <1>4, <1>5 DEF Shortened
<1>7. QED BY <1>1, <1>2, <1>3, <1>6, LenProperties DEF Oldest

-----------------------------------------------------------------------------
(* Types. *)

LEMMA ImageType ==
  ASSUME NEW b \in Boxes, NEW c \in Cameras, NEW o \in ObjectIds
  PROVE  NewImage(b, c, o) \in Image
BY DEF NewImage, Image

LEMMA BoxType ==
  ASSUME NEW box \in Box, NEW image \in Image
  PROVE  /\ [box EXCEPT !.images = @ \cup {image}] \in Box
         /\ WithNg(box) \in Box
BY DEF Box, WithNg

(* The totals after an image has been taken or an NG result has come. *)
LEMMA HistoryType ==
  ASSUME NEW h \in History, NEW image \in Image, NEW o \in ObjectIds, NEW b \in 0..MaxBoxes
  PROVE  /\ [h EXCEPT !.images = @ \cup {image}] \in History
         /\ [h EXCEPT !.shaped = b, !.images = @ \cup {image}] \in History
         /\ [h EXCEPT !.defects = @ \cup {image}] \in History
         /\ [h EXCEPT !.defects = @ \cup {image}, !.ng = @ \cup {o}] \in History
<1>1. /\ [h EXCEPT !.images = @ \cup {image}] \in History
      /\ [h EXCEPT !.defects = @ \cup {image}] \in History
      /\ [h EXCEPT !.shaped = b] \in History
  BY DEF History
<1> DEFINE h1 == [h EXCEPT !.defects = @ \cup {image}]
           h2 == [h EXCEPT !.shaped = b]
<1> HIDE DEF h1, h2
<1>2. [h1 EXCEPT !.ng = @ \cup {o}] \in History
  BY <1>1 DEF h1, History
<1>3. [h2 EXCEPT !.images = @ \cup {image}] \in History
  BY <1>1 DEF h2, History
<1>4. QED BY <1>1, <1>2, <1>3 DEF h1, h2

LEMMA HistoryFields ==
  ASSUME TypeOK
  PROVE  /\ history \in History /\ history.shaped \in 0..MaxBoxes /\ history.shaped \in Nat
         /\ history.missed \in Nat /\ history.others \in Nat /\ history.reconnects \in Nat
         /\ history.images \subseteq Image /\ history.ng \subseteq ObjectIds
BY DEF TypeOK, History

(* The box that leaves the line. *)
LEMMA ArriveParts ==
  ASSUME TypeOK, Arrive
  PROVE  /\ line # << >> /\ Len(line) \in Nat \ {0} /\ 1 \in DOMAIN line
         /\ station' = line[1] /\ station' \in Boxes /\ line[1] \in ripe /\ Head(line) = line[1]
         /\ line' \in Seq(Boxes) /\ Len(line') = Len(line) - 1
         /\ \A i \in DOMAIN line' : i + 1 \in DOMAIN line /\ line'[i] = line[i + 1]
         /\ ripe' = ripe /\ station = 0 /\ ~recent
<1>1. line \in Seq(Boxes) /\ line # << >> /\ line' = Tail(line)
  BY DEF TypeOK, Arrive
<1>2. Len(line) \in Nat \ {0} /\ DOMAIN line = 1..Len(line)
  BY <1>1, LineParts
<1>3. Head(line) = line[1] /\ 1 \in DOMAIN line /\ line[1] \in Boxes
  BY <1>1, <1>2, LineParts
<1>4. /\ line' \in Seq(Boxes) /\ Len(line') = Len(line) - 1
      /\ \A i \in 1..Len(line') : line'[i] = line[i + 1]
  BY <1>1, HeadTailProperties
<1>5. DOMAIN line' = 1..Len(line')
  BY <1>4, LenProperties
<1>6. \A i \in DOMAIN line' : i + 1 \in DOMAIN line
  BY <1>2, <1>4, <1>5
<1>7. QED BY <1>1, <1>2, <1>3, <1>4, <1>5, <1>6 DEF Arrive

(* Reading a code takes the oldest record, if it has been there long enough. *)
LEMMA DequeueType ==
  ASSUME TypeOK, Dequeue
  PROVE  /\ boxQueue' \in Seq(Box) /\ Len(boxQueue') <= QueueLen
         /\ boxPoped' \in Box /\ boxFound' \in BOOLEAN
<1>1. Len(boxQueue) \in Nat /\ Len(boxQueue) <= QueueLen /\ boxQueue \in Seq(Box)
      /\ QueueLen \in Nat
  BY QueueParts, ConstantsOK
<1>2. MayDequeue \in BOOLEAN
  BY DEF MayDequeue
<1>3. CASE MayDequeue
  <2>1. boxQueue # << >> /\ boxQueue' = Shortened /\ boxPoped' = Oldest
    BY <1>3 DEF Dequeue, MayDequeue, Shortened
  <2>2. QED BY <1>1, <1>2, <1>3, <2>1, ShortenedParts DEF Dequeue
<1>4. CASE ~MayDequeue
  BY <1>1, <1>2, <1>4 DEF Dequeue, TypeOK
<1>5. QED BY <1>3, <1>4

(* What an image of the outer cameras does: the oldest record is taken first if
   the image is the first of its box and no reader is in use. *)
Found == IF IsFirst THEN MayDequeue ELSE boxFound
Popped == IF IsFirst /\ MayDequeue THEN Oldest ELSE boxPoped

OuterNew(b, c) == NewImage(b, c, IF Found THEN Popped.objectId ELSE NotFound)

LEMMA OuterParts ==
  ASSUME TypeOK, NEW b \in Boxes, NEW c \in Cameras, OuterImage(b, c)
  PROVE  /\ MayTakeImage(b, c) /\ recent' = TRUE
         /\ boxFound' = Found /\ Found \in BOOLEAN
         /\ boxQueue' = IF IsFirst /\ MayDequeue THEN Shortened ELSE boxQueue
         /\ boxPoped' = IF Found THEN [Popped EXCEPT !.images = @ \cup {OuterNew(b, c)}]
                        ELSE Popped
         /\ Emit(OuterNew(b, c)) /\ UNCHANGED <<isConnected, counts>>
         /\ Popped \in Box /\ OuterNew(b, c) \in Image
         /\ boxQueue' \in Seq(Box) /\ Len(boxQueue') <= QueueLen /\ boxPoped' \in Box
<1>1. Popped \in Box
  BY ShortenedParts DEF Popped, MayDequeue, TypeOK
<1>2. Found \in BOOLEAN
  BY DEF Found, MayDequeue, TypeOK
<1>3. OuterNew(b, c) \in Image
  <2>1. (IF Found THEN Popped.objectId ELSE NotFound) \in ObjectIds
    BY <1>1 DEF Box, ObjectIds
  <2>2. QED BY <2>1, ImageType DEF OuterNew
<1>4. /\ MayTakeImage(b, c) /\ recent' = TRUE /\ boxFound' = Found
      /\ boxQueue' = IF IsFirst /\ MayDequeue THEN Shortened ELSE boxQueue
      /\ boxPoped' = IF Found THEN [Popped EXCEPT !.images = @ \cup {OuterNew(b, c)}]
                     ELSE Popped
      /\ Emit(OuterNew(b, c)) /\ UNCHANGED <<isConnected, counts>>
  BY DEF OuterImage, Found, Popped, OuterNew, Shortened
<1>5. boxPoped' \in Box
  BY <1>1, <1>3, <1>4, BoxType
<1>6. boxQueue' \in Seq(Box) /\ Len(boxQueue') <= QueueLen
  <2>1. CASE IsFirst /\ MayDequeue
    <3>1. boxQueue # << >> /\ boxQueue' = Shortened
      BY <1>4, <2>1 DEF MayDequeue
    <3>2. QED BY <3>1, QueueParts, ShortenedParts, ConstantsOK
  <2>2. CASE ~(IsFirst /\ MayDequeue)
    BY <1>4, <2>2, QueueParts
  <2>3. QED BY <2>1, <2>2
<1>7. QED BY <1>1, <1>2, <1>3, <1>4, <1>5, <1>6

(* The record of a new box. *)
ShapedImage == NewImage(history.shaped + 1, 1, history.shaped + 1)

ShapedBox == [objectId |-> history.shaped + 1, result |-> TRUE, images |-> {ShapedImage}]

LEMMA ShapeParts ==
  ASSUME TypeOK, Shape
  PROVE  /\ history.shaped + 1 \in Boxes /\ Len(line) < QueueLen
         /\ ShapedImage \in Image /\ ShapedBox \in Box
         /\ boxQueue' = Enqueued(ShapedBox)
         /\ line' = Append(line, history.shaped + 1) /\ line' \in Seq(Boxes)
         /\ Len(line') = Len(line) + 1 /\ line'[Len(line) + 1] = history.shaped + 1
         /\ \A i \in DOMAIN line : line'[i] = line[i]
         /\ \A i \in DOMAIN line' : i \in DOMAIN line \/ i = Len(line) + 1
         /\ history' = [history EXCEPT !.shaped = history.shaped + 1,
                                       !.images = @ \cup {ShapedImage}]
<1>1. history.shaped + 1 \in Boxes
  BY HistoryFields, ConstantsOK DEF Shape, Boxes
<1>2. 1 \in Cameras /\ history.shaped + 1 \in ObjectIds
  BY <1>1 DEF Cameras, ObjectIds
<1>3. ShapedImage \in Image
  BY <1>1, <1>2, ImageType DEF ShapedImage
<1>4. ShapedBox \in Box
  BY <1>2, <1>3 DEF ShapedBox, Box
<1>5. line \in Seq(Boxes) /\ Len(line) \in Nat /\ DOMAIN line = 1..Len(line)
  BY LineParts
<1>6. line' = Append(line, history.shaped + 1)
  BY DEF Shape
<1>7. PICK b \in Boxes : b = history.shaped + 1
  BY <1>1
<1>8. /\ line' \in Seq(Boxes) /\ Len(line') = Len(line) + 1 /\ line'[Len(line) + 1] = b
      /\ \A i \in DOMAIN line : line'[i] = line[i]
  BY <1>5, <1>6, <1>7
<1>9. \A i \in DOMAIN line' : i \in DOMAIN line \/ i = Len(line) + 1
  BY <1>5, <1>8, LenProperties
<1>10. /\ boxQueue' = Enqueued(ShapedBox)
       /\ history' = [history EXCEPT !.shaped = history.shaped + 1,
                                     !.images = @ \cup {ShapedImage}]
  BY DEF Shape, ShapedBox, ShapedImage
<1>11. QED BY <1>1, <1>3, <1>4, <1>6, <1>7, <1>8, <1>9, <1>10 DEF Shape

(* An image of a stacking camera. *)
LEMMA StackParts ==
  ASSUME TypeOK, Stack
  PROVE  \E image \in Image :
           /\ line # << >> /\ image.box = line[Len(line)] /\ Len(line) \in DOMAIN line
           /\ Emit(image)
           /\ \/ /\ boxQueue # << >> /\ image.objectId = boxQueue[1].objectId
                 /\ 1 \in DOMAIN boxQueue
                 /\ boxQueue' = [boxQueue EXCEPT
                                   ![1] = [boxQueue[1] EXCEPT !.images = @ \cup {image}]]
              \/ boxQueue = << >> /\ boxQueue' = boxQueue
<1>1. line # << >> /\ Len(line) \in DOMAIN line /\ line[Len(line)] \in Boxes
  BY LineParts DEF Stack
<1>2. StackCamera \in Cameras
  BY DEF Cameras
<1>3. PICK b \in Boxes : b = line[Len(line)]
  BY <1>1
<1>4. CASE boxQueue # << >>
  <2>1. 1 \in DOMAIN boxQueue /\ boxQueue[1] \in Box
    BY <1>4, QueueParts
  <2>2. PICK o \in ObjectIds : o = boxQueue[1].objectId
    BY <2>1 DEF Box
  <2>3. /\ boxQueue' = [boxQueue EXCEPT ![1].images = @ \cup {NewImage(b, StackCamera, o)}]
        /\ Emit(NewImage(b, StackCamera, o))
    BY <1>3, <1>4, <2>2 DEF Stack
  <2>4. PICK image \in Image : image = NewImage(b, StackCamera, o)
    BY <1>2, ImageType
  <2>5. image.box = b /\ image.objectId = o
    BY <2>4 DEF NewImage
  <2>6. QED BY <1>1, <1>3, <1>4, <2>1, <2>2, <2>3, <2>4, <2>5
<1>5. CASE boxQueue = << >>
  <2>1. boxQueue' = boxQueue /\ Emit(NewImage(b, StackCamera, NotFound))
    BY <1>3, <1>5 DEF Stack
  <2>2. PICK image \in Image : image = NewImage(b, StackCamera, NotFound)
    BY <1>2, ImageType DEF ObjectIds
  <2>3. image.box = b
    BY <2>2 DEF NewImage
  <2>4. QED BY <1>1, <1>3, <1>5, <2>1, <2>2, <2>3
<1>6. QED BY <1>4, <1>5

(* A record marked as defective, in the queue or dequeued. *)
LEMMA NgParts ==
  ASSUME TypeOK, NEW image \in history.images, NgInQueue(image) \/ NgInPoped(image)
  PROVE  /\ image \in Image /\ image.objectId \in ObjectIds
         /\ UNCHANGED <<boxFound, recent, isConnected, line, station, ripe>>
         /\ Recorded(image) /\ history' \in History
         /\ \/ /\ boxPoped' = boxPoped
               /\ \E i \in DOMAIN boxQueue :
                    /\ boxQueue[i].objectId = image.objectId /\ image \in boxQueue[i].images
                    /\ boxQueue' = [boxQueue EXCEPT ![i] = WithNg(boxQueue[i])]
                    /\ CountNg(boxQueue[i])
            \/ /\ boxQueue' = boxQueue
               /\ \A i \in DOMAIN boxQueue : boxQueue[i].objectId # image.objectId
               /\ boxPoped.objectId = image.objectId /\ image \in boxPoped.images
               /\ boxPoped' = WithNg(boxPoped) /\ CountNg(boxPoped)
<1>1. image \in Image /\ image.objectId \in ObjectIds
  BY HistoryFields DEF Image
<1>2. /\ UNCHANGED <<boxFound, recent, isConnected, line, station, ripe>>
      /\ Recorded(image)
  BY DEF NgInQueue, NgInPoped, Defect, lineVars
<1>3. history' \in History
  <2>1. PICK o \in ObjectIds : o = image.objectId
    BY <1>1
  <2>2. history' = [history EXCEPT !.defects = @ \cup {image}, !.ng = @ \cup {o}]
    BY <1>2, <2>1 DEF Recorded
  <2>3. QED BY <1>1, <2>2, HistoryType, HistoryFields, ConstantsOK
<1>4. CASE NgInQueue(image)
  BY <1>1, <1>2, <1>3, <1>4 DEF NgInQueue, InQueue, Knows
<1>5. CASE NgInPoped(image)
  BY <1>1, <1>2, <1>3, <1>5 DEF NgInPoped, InQueue, Knows
<1>6. QED BY <1>4, <1>5

LEMMA CountNgType ==
  ASSUME TypeOK, NEW box \in Box, CountNg(box)
  PROVE  counts' \in [total : Nat, ng : Nat]
BY DEF CountNg, TypeOK, Box

(* Taking an image keeps the totals well typed. *)
LEMMA EmitType ==
  ASSUME TypeOK, NEW image \in Image, Emit(image)
  PROVE  history' \in History
<1>1. 0 \in 0..MaxBoxes /\ Garbage \in ObjectIds
  BY ConstantsOK DEF ObjectIds
<1>2. QED BY <1>1, HistoryType, HistoryFields DEF Emit

LEMMA TypeStep == TypeOK /\ [Next]_vars => TypeOK'
<1> SUFFICES ASSUME TypeOK, [Next]_vars PROVE TypeOK'
  OBVIOUS
<1>1. \A c \in OuterCameras : c \in Cameras
  BY DEF Cameras
<1>2. CASE Shape
  <2>1. boxQueue' \in Seq(Box) /\ Len(boxQueue') <= QueueLen
    BY <1>2, ShapeParts, EnqueuedParts, ConstantsOK
  <2>2. history' \in History
    <3>1. PICK b \in 0..MaxBoxes : b = history.shaped + 1
      BY <1>2, ShapeParts, ConstantsOK DEF Boxes
    <3>2. PICK image \in Image : image = ShapedImage
      BY <1>2, ShapeParts
    <3>3. history' = [history EXCEPT !.shaped = b, !.images = @ \cup {image}]
      BY <1>2, <3>1, <3>2, ShapeParts
    <3>4. Garbage \in ObjectIds
      BY DEF ObjectIds
    <3>5. QED BY <3>3, <3>4, HistoryType, HistoryFields
  <2>3. line' \in Seq(Boxes)
    BY <1>2, ShapeParts
  <2>4. counts' \in [total : Nat, ng : Nat]
    <3>1. counts \in [total : Nat, ng : Nat]
      BY DEF TypeOK
    <3>2. counts' = [counts EXCEPT !.total = @ + 1]
      BY <1>2 DEF Shape
    <3>3. QED BY <3>1, <3>2
  <2>5. QED BY <1>2, <2>1, <2>2, <2>3, <2>4 DEF Shape, TypeOK
<1>3. CASE Stack
  <2>1. PICK image \in Image :
          /\ Emit(image)
          /\ \/ /\ 1 \in DOMAIN boxQueue
                /\ boxQueue' = [boxQueue EXCEPT
                                  ![1] = [boxQueue[1] EXCEPT !.images = @ \cup {image}]]
             \/ boxQueue' = boxQueue
    BY <1>3, StackParts
  <2>2. boxQueue' \in Seq(Box) /\ Len(boxQueue') <= QueueLen
    <3>1. CASE boxQueue' = boxQueue
      BY <3>1, QueueParts
    <3>2. CASE /\ 1 \in DOMAIN boxQueue
               /\ boxQueue' = [boxQueue EXCEPT
                                 ![1] = [boxQueue[1] EXCEPT !.images = @ \cup {image}]]
      <4>1. PICK box \in Box : box = [boxQueue[1] EXCEPT !.images = @ \cup {image}]
        BY <3>2, QueueParts, BoxType
      <4>2. boxQueue' = [boxQueue EXCEPT ![1] = box]
        BY <3>2, <4>1
      <4>3. boxQueue \in Seq(Box) /\ Len(boxQueue) <= QueueLen /\ 1 \in 1..Len(boxQueue)
        BY <3>2, QueueParts
      <4>4. QED BY <4>2, <4>3, ExceptSeq
    <3>3. QED BY <2>1, <3>1, <3>2
  <2>3. history' \in History
    BY <2>1, EmitType
  <2>4. QED BY <1>3, <2>2, <2>3 DEF Stack, TypeOK, lineVars
<1>4. CASE OnBarCode
  BY <1>4, ArriveParts, DequeueType DEF OnBarCode, TypeOK
<1>5. ASSUME NEW c \in OuterCameras, OuterFirst(c) \/ OuterNext(c) PROVE TypeOK'
  <2>1. PICK b \in Boxes :
          /\ OuterImage(b, c)
          /\ \/ UNCHANGED lineVars
             \/ Arrive
    <3>1. CASE OuterFirst(c)
      BY <3>1, ArriveParts DEF OuterFirst
    <3>2. CASE OuterNext(c)
      BY <3>2 DEF OuterNext, TypeOK
    <3>3. QED BY <1>5, <3>1, <3>2
  <2>2. line' \in Seq(Boxes) /\ station' \in Boxes \cup {0} /\ ripe' \subseteq Boxes
    BY <2>1, ArriveParts DEF TypeOK, lineVars
  <2>3. /\ recent' = TRUE /\ boxFound' \in BOOLEAN /\ UNCHANGED <<isConnected, counts>>
        /\ boxQueue' \in Seq(Box) /\ Len(boxQueue') <= QueueLen /\ boxPoped' \in Box
        /\ Emit(OuterNew(b, c)) /\ OuterNew(b, c) \in Image
    BY <1>1, <2>1, OuterParts
  <2>4. history' \in History
    BY <2>3, EmitType
  <2>5. QED BY <2>2, <2>3, <2>4 DEF TypeOK
<1>6. ASSUME NEW image \in history.images, NgInQueue(image) \/ NgInPoped(image)
      PROVE  TypeOK'
  <2>1. CASE /\ boxPoped' = boxPoped
             /\ \E i \in DOMAIN boxQueue :
                  /\ boxQueue' = [boxQueue EXCEPT ![i] = WithNg(boxQueue[i])]
                  /\ CountNg(boxQueue[i])
    <3>1. PICK i \in DOMAIN boxQueue :
            /\ boxQueue' = [boxQueue EXCEPT ![i] = WithNg(boxQueue[i])]
            /\ CountNg(boxQueue[i])
      BY <2>1
    <3>2. PICK box \in Box : box = WithNg(boxQueue[i])
      <4>1. boxQueue[i] \in Box
        BY QueueParts
      <4>2. QED BY <1>6, <4>1, BoxType, NgParts
    <3>3. boxQueue' \in Seq(Box) /\ Len(boxQueue') <= QueueLen
      BY <3>1, <3>2, QueueParts, ExceptSeq
    <3>4. counts' \in [total : Nat, ng : Nat]
      BY <3>1, CountNgType, QueueParts
    <3>5. QED BY <1>6, <2>1, <3>3, <3>4, NgParts DEF TypeOK
  <2>2. CASE boxQueue' = boxQueue /\ boxPoped' = WithNg(boxPoped) /\ CountNg(boxPoped)
    <3>1. boxPoped' \in Box /\ counts' \in [total : Nat, ng : Nat]
      <4>1. boxPoped \in Box
        BY DEF TypeOK
      <4>2. QED BY <1>6, <2>2, <4>1, CountNgType, BoxType, NgParts
    <3>2. QED BY <1>6, <2>2, <3>1, NgParts DEF TypeOK
  <2>3. QED BY <1>6, <2>1, <2>2, NgParts
<1>7. ASSUME NEW image \in history.images, NgUnknown(image) PROVE TypeOK'
  <2>1. history' \in History
    <3>1. image \in Image /\ 0 \in 0..MaxBoxes /\ Garbage \in ObjectIds
      BY HistoryFields, ConstantsOK DEF ObjectIds
    <3>2. QED BY <1>7, <3>1, HistoryType, HistoryFields DEF NgUnknown
  <2>2. QED BY <1>7, <2>1 DEF NgUnknown, Defect, TypeOK, lineVars
<1>8. ASSUME NEW b \in Boxes, Ripen(b) PROVE TypeOK'
  BY <1>8 DEF Ripen, TypeOK, queueVars
<1>9. CASE Leave
  BY <1>9 DEF Leave, TypeOK, queueVars
<1>10. history.missed \in 0..MaxMishaps /\ history.others \in 0..MaxMishaps
       /\ history.reconnects \in 0..MaxReconnects /\ history \in History
  BY DEF TypeOK, History
<1>11. CASE MissCode
  <2>1. history' \in History
    <3>1. history.missed + 1 \in 0..MaxMishaps
      BY <1>10, <1>11, ConstantsOK DEF MissCode
    <3>2. QED BY <1>10, <1>11, <3>1 DEF MissCode, History
  <2>2. QED BY <1>11, <2>1, ArriveParts DEF MissCode, TypeOK, queueVars
<1>12. CASE ReadTwice \/ ImageIsLate
  <2>1. history' \in History
    <3>1. history.others + 1 \in 0..MaxMishaps
      BY <1>10, <1>12, ConstantsOK DEF ReadTwice, ImageIsLate
    <3>2. QED BY <1>10, <1>12, <3>1 DEF ReadTwice, ImageIsLate, History
  <2>2. QED BY <1>12, <2>1, DequeueType
            DEF ReadTwice, ImageIsLate, TypeOK, queueVars, lineVars
<1>13. CASE SetConnected \/ SetConnectedAtBox
  <2>1. ConnectionChanges
    BY <1>13 DEF SetConnected, SetConnectedAtBox
  <2>2. history' \in History
    <3>1. history.reconnects + 1 \in 0..MaxReconnects
      BY <1>10, <2>1, ConstantsOK DEF ConnectionChanges
    <3>2. CASE SetConnected
      BY <1>10, <3>1, <3>2 DEF SetConnected, History
    <3>3. CASE SetConnectedAtBox
      <4>1. history.others + 1 \in 0..MaxMishaps
        BY <1>10, <3>3, ConstantsOK DEF SetConnectedAtBox
      <4> QED BY <1>10, <3>1, <3>3, <4>1 DEF SetConnectedAtBox, History
    <3> QED BY <1>13, <3>2, <3>3
  <2>3. isConnected' \in BOOLEAN
    BY <2>1 DEF ConnectionChanges
  <2>4. QED BY <2>1, <2>2, <2>3 DEF ConnectionChanges, TypeOK, queueVars, lineVars
<1>14. CASE UNCHANGED vars
  BY <1>14 DEF vars, TypeOK
<1>15. QED BY <1>2, <1>3, <1>4, <1>5, <1>6, <1>7, <1>8, <1>9, <1>11, <1>12, <1>13,
              <1>14 DEF Next

LEMMA TypeInit == Init => TypeOK
<1> SUFFICES ASSUME Init PROVE TypeOK
  OBVIOUS
<1>1. boxPoped \in Box
  BY DEF Init, Box, ObjectIds
<1>2. history \in History
  BY ConstantsOK DEF Init, HistoryInit, History
<1>3. boxQueue \in Seq(Box) /\ Len(boxQueue) <= QueueLen /\ line \in Seq(Boxes)
  BY ConstantsOK DEF Init
<1>4. QED BY <1>1, <1>2, <1>3 DEF Init, TypeOK

(* The types of the records, of the line and of the counters. *)
THEOREM TypesStay == Spec => []TypeOK
<1>1. QED BY TypeInit, TypeStep, PTL DEF Spec

-----------------------------------------------------------------------------
(* What a step does to the records and to the line: a box is shaped, a record
   is marked as defective, or the queue keeps its records or gives away the
   oldest. *)
IdsKept ==
  /\ Len(boxQueue') = Len(boxQueue) /\ boxPoped'.objectId = boxPoped.objectId
  /\ \A i \in DOMAIN boxQueue : boxQueue'[i].objectId = boxQueue[i].objectId

ResultsKept ==
  /\ boxPoped'.result = boxPoped.result
  /\ \A i \in DOMAIN boxQueue : boxQueue'[i].result = boxQueue[i].result

OldestTaken ==
  /\ MayDequeue /\ boxQueue' = Shortened
  /\ boxPoped'.objectId = Oldest.objectId /\ boxPoped'.result = Oldest.result

LineMoves ==
  \/ UNCHANGED <<line, station>> /\ ripe \subseteq ripe'
  \/ Arrive
  \/ UNCHANGED <<line, ripe>> /\ station' = 0

Marked == \E image \in history.images : NgInQueue(image) \/ NgInPoped(image)

Quiet ==
  /\ history'.shaped = history.shaped /\ history'.ng = history.ng /\ counts' = counts
  /\ (IdsKept /\ ResultsKept) \/ OldestTaken
  /\ LineMoves

LEMMA QuietStack == TypeOK /\ Stack => Quiet /\ IdsKept
<1> SUFFICES ASSUME TypeOK, Stack PROVE Quiet /\ IdsKept
  OBVIOUS
<1>1. PICK image \in Image :
        /\ Emit(image)
        /\ \/ /\ 1 \in DOMAIN boxQueue
              /\ boxQueue' = [boxQueue EXCEPT
                                ![1] = [boxQueue[1] EXCEPT !.images = @ \cup {image}]]
           \/ boxQueue' = boxQueue
  BY StackParts
<1>2. history'.shaped = history.shaped /\ history'.ng = history.ng
  BY <1>1, HistoryFields DEF Emit, History
<1>3. boxPoped' = boxPoped /\ counts' = counts /\ LineMoves
  BY DEF Stack, lineVars, LineMoves
<1>4. IdsKept /\ ResultsKept
  <2>1. CASE boxQueue' = boxQueue
    BY <1>3, <2>1 DEF IdsKept, ResultsKept
  <2>2. CASE /\ 1 \in DOMAIN boxQueue
             /\ boxQueue' = [boxQueue EXCEPT
                               ![1] = [boxQueue[1] EXCEPT !.images = @ \cup {image}]]
    <3>1. boxQueue \in Seq(Box) /\ 1 \in 1..Len(boxQueue) /\ boxQueue[1] \in Box
          /\ DOMAIN boxQueue = 1..Len(boxQueue)
      BY <2>2, QueueParts
    <3>2. PICK box \in Box : box = [boxQueue[1] EXCEPT !.images = @ \cup {image}]
      BY <3>1, BoxType
    <3>3. box.objectId = boxQueue[1].objectId /\ box.result = boxQueue[1].result
      BY <3>1, <3>2 DEF Box
    <3>4. boxQueue' = [boxQueue EXCEPT ![1] = box]
      BY <2>2, <3>2
    <3>5. Len(boxQueue') = Len(boxQueue)
      BY <3>1, <3>4, ExceptSeq
    <3>6. \A i \in DOMAIN boxQueue : boxQueue'[i] = IF i = 1 THEN box ELSE boxQueue[i]
      BY <3>1, <3>4
    <3>7. QED BY <1>3, <3>3, <3>5, <3>6 DEF IdsKept, ResultsKept
  <2>3. QED BY <1>1, <2>1, <2>2
<1>5. QED BY <1>2, <1>3, <1>4 DEF Quiet

LEMMA QuietDequeue ==
  ASSUME TypeOK, Dequeue
  PROVE  (IdsKept /\ ResultsKept) \/ OldestTaken
BY DEF Dequeue, IdsKept, ResultsKept, OldestTaken, Shortened

LEMMA QuietOuter ==
  ASSUME TypeOK, NEW b \in Boxes, NEW c \in OuterCameras, OuterImage(b, c)
  PROVE  /\ history'.shaped = history.shaped /\ history'.ng = history.ng
         /\ history'.missed = history.missed /\ history'.others = history.others
         /\ counts' = counts
         /\ IF IsFirst /\ MayDequeue THEN OldestTaken ELSE IdsKept /\ ResultsKept
<1>1. c \in Cameras
  BY DEF Cameras
<1>2. /\ Emit(OuterNew(b, c)) /\ counts' = counts /\ Popped \in Box
      /\ boxQueue' = IF IsFirst /\ MayDequeue THEN Shortened ELSE boxQueue
      /\ boxPoped' = IF Found THEN [Popped EXCEPT !.images = @ \cup {OuterNew(b, c)}]
                     ELSE Popped
  BY <1>1, OuterParts
<1>3. /\ history'.shaped = history.shaped /\ history'.ng = history.ng
      /\ history'.missed = history.missed /\ history'.others = history.others
  BY <1>2, HistoryFields DEF Emit, History
<1>4. boxPoped'.objectId = Popped.objectId /\ boxPoped'.result = Popped.result
  BY <1>2 DEF Box
<1>5. CASE IsFirst /\ MayDequeue
  BY <1>2, <1>3, <1>4, <1>5 DEF OldestTaken, Popped
<1>6. CASE ~(IsFirst /\ MayDequeue)
  BY <1>2, <1>3, <1>4, <1>6 DEF IdsKept, ResultsKept, Popped
<1>7. QED BY <1>5, <1>6

LEMMA StepKinds == TypeOK /\ [Next]_vars => Shape \/ Marked \/ Quiet
<1> SUFFICES ASSUME TypeOK, [Next]_vars, ~Shape, ~Marked PROVE Quiet
  OBVIOUS
<1>1. CASE Stack
  BY <1>1, QuietStack
<1>2. CASE OnBarCode
  BY <1>2, QuietDequeue DEF OnBarCode, Quiet, LineMoves
<1>3. ASSUME NEW c \in OuterCameras, OuterFirst(c) PROVE Quiet
  <2>1. PICK b \in Boxes : OuterImage(b, c)
    BY <1>3, ArriveParts DEF OuterFirst
  <2>2. QED BY <1>3, <2>1, QuietOuter DEF OuterFirst, Quiet, LineMoves
<1>4. ASSUME NEW c \in OuterCameras, OuterNext(c) PROVE Quiet
  <2>1. PICK b \in Boxes : OuterImage(b, c)
    BY <1>4 DEF OuterNext, TypeOK
  <2>2. QED BY <1>4, <2>1, QuietOuter DEF OuterNext, Quiet, LineMoves, lineVars
<1>5. ASSUME NEW image \in history.images, NgUnknown(image) PROVE Quiet
  <2>1. history'.shaped = history.shaped /\ history'.ng = history.ng
    BY <1>5, HistoryFields DEF NgUnknown, History
  <2>2. QED BY <1>5, <2>1
            DEF NgUnknown, Defect, lineVars, Quiet, LineMoves, IdsKept, ResultsKept
<1>6. ASSUME NEW b \in Boxes, Ripen(b) PROVE Quiet
  BY <1>6 DEF Ripen, queueVars, Quiet, LineMoves, IdsKept, ResultsKept
<1>7. CASE Leave
  BY <1>7 DEF Leave, queueVars, Quiet, LineMoves, IdsKept, ResultsKept
<1>8. CASE MissCode
  <2>1. history'.shaped = history.shaped /\ history'.ng = history.ng
    BY <1>8, HistoryFields DEF MissCode, History
  <2>2. QED BY <1>8, <2>1 DEF MissCode, queueVars, Quiet, LineMoves, IdsKept, ResultsKept
<1>9. CASE ReadTwice
  <2>1. history'.shaped = history.shaped /\ history'.ng = history.ng
    BY <1>9, HistoryFields DEF ReadTwice, History
  <2>2. QED BY <1>9, <2>1, QuietDequeue DEF ReadTwice, lineVars, Quiet, LineMoves
<1>10. CASE ImageIsLate
  <2>1. history'.shaped = history.shaped /\ history'.ng = history.ng
    BY <1>10, HistoryFields DEF ImageIsLate, History
  <2>2. QED BY <1>10, <2>1
            DEF ImageIsLate, queueVars, lineVars, Quiet, LineMoves, IdsKept, ResultsKept
<1>11. CASE SetConnected \/ SetConnectedAtBox
  <2>1. history'.shaped = history.shaped /\ history'.ng = history.ng
    BY <1>11, HistoryFields DEF SetConnected, SetConnectedAtBox, History
  <2>2. ConnectionChanges
    BY <1>11 DEF SetConnected, SetConnectedAtBox
  <2>3. QED BY <2>1, <2>2 DEF ConnectionChanges, queueVars, lineVars, Quiet, LineMoves,
            IdsKept, ResultsKept
<1>12. CASE UNCHANGED vars
  BY <1>12 DEF vars, Quiet, LineMoves, IdsKept, ResultsKept
<1>13. QED BY <1>1, <1>2, <1>3, <1>4, <1>5, <1>6, <1>7, <1>8, <1>9, <1>10, <1>11, <1>12
           DEF Next, Marked

LEMMA MarkedParts ==
  ASSUME TypeOK, Marked
  PROVE  /\ history'.shaped = history.shaped /\ history'.missed = history.missed
         /\ history'.others = history.others /\ history'.images = history.images
         /\ IdsKept /\ UNCHANGED <<line, station, ripe, boxFound, recent, isConnected>>
<1>1. PICK image \in history.images : NgInQueue(image) \/ NgInPoped(image)
  BY DEF Marked
<1>2. /\ UNCHANGED <<line, station, ripe, boxFound, recent, isConnected>> /\ Recorded(image)
      /\ \/ boxPoped' = boxPoped /\ \E i \in DOMAIN boxQueue :
              boxQueue' = [boxQueue EXCEPT ![i] = WithNg(boxQueue[i])]
         \/ boxQueue' = boxQueue /\ boxPoped' = WithNg(boxPoped)
  BY <1>1, NgParts
<1>3. /\ history'.shaped = history.shaped /\ history'.missed = history.missed
      /\ history'.others = history.others /\ history'.images = history.images
  BY <1>2, HistoryFields DEF Recorded, History
<1>4. ASSUME NEW box \in Box PROVE WithNg(box).objectId = box.objectId
  BY DEF WithNg, Box
<1>5. CASE boxQueue' = boxQueue /\ boxPoped' = WithNg(boxPoped)
  <2>1. boxPoped \in Box
    BY DEF TypeOK
  <2>2. boxPoped'.objectId = boxPoped.objectId
    BY <1>4, <1>5, <2>1
  <2>3. QED BY <1>2, <1>3, <1>5, <2>2 DEF IdsKept
<1>6. CASE boxPoped' = boxPoped /\ \E i \in DOMAIN boxQueue :
             boxQueue' = [boxQueue EXCEPT ![i] = WithNg(boxQueue[i])]
  <2>1. PICK i \in DOMAIN boxQueue : boxQueue' = [boxQueue EXCEPT ![i] = WithNg(boxQueue[i])]
    BY <1>6
  <2>2. boxQueue \in Seq(Box) /\ i \in 1..Len(boxQueue) /\ boxQueue[i] \in Box
    BY QueueParts
  <2>3. PICK box \in Box : box = WithNg(boxQueue[i])
    BY <2>2, BoxType, <1>1, NgParts
  <2>4. boxQueue' = [boxQueue EXCEPT ![i] = box]
    BY <2>1, <2>3
  <2>5. Len(boxQueue') = Len(boxQueue)
    BY <2>2, <2>4, ExceptSeq
  <2>6. \A k \in DOMAIN boxQueue : boxQueue'[k] = IF k = i THEN box ELSE boxQueue[k]
    BY <2>4
  <2>7. box.objectId = boxQueue[i].objectId
    BY <1>4, <2>2, <2>3
  <2>8. boxPoped' = boxPoped
    BY <1>6
  <2>9. \A k \in DOMAIN boxQueue : boxQueue'[k].objectId = boxQueue[k].objectId
    BY <2>6, <2>7
  <2>10. QED BY <1>2, <1>3, <2>5, <2>8, <2>9 DEF IdsKept
<1>7. QED BY <1>2, <1>3, <1>5, <1>6

LEMMA ShapeHistory ==
  ASSUME TypeOK, Shape
  PROVE  /\ history'.shaped = history.shaped + 1 /\ history'.ng = history.ng
         /\ history'.missed = history.missed /\ history'.others = history.others
         /\ history'.images = history.images \cup {ShapedImage}
         /\ UNCHANGED <<boxPoped, boxFound, recent, isConnected, station, ripe>>
         /\ counts'.ng = counts.ng
<1>1. history' = [history EXCEPT !.shaped = history.shaped + 1, !.images = @ \cup {ShapedImage}]
  BY ShapeParts
<1>2. counts \in [total : Nat, ng : Nat] /\ counts' = [counts EXCEPT !.total = @ + 1]
  BY DEF Shape, TypeOK
<1>3. counts'.ng = counts.ng
  BY <1>2
<1>4. QED BY <1>1, <1>3, HistoryFields DEF Shape, History

-----------------------------------------------------------------------------
(* The line: its boxes have consecutive numbers, the newest last, and the box at
   the outer cameras was shaped before them. *)
LineInv ==
  /\ Len(line) <= QueueLen /\ Len(line) <= history.shaped
  /\ \A i \in DOMAIN line : line[i] = history.shaped - Len(line) + i
  /\ station <= history.shaped - Len(line)

LEMMA LineStep == TypeOK /\ LineInv /\ [Next]_vars => LineInv'
<1> SUFFICES ASSUME TypeOK, LineInv, [Next]_vars PROVE LineInv'
  OBVIOUS
<1>1. /\ Len(line) \in Nat /\ history.shaped \in Nat /\ QueueLen \in Nat
      /\ station \in Nat /\ DOMAIN line = 1..Len(line)
  BY LineParts, HistoryFields, ConstantsOK DEF TypeOK, Boxes
<1>2. CASE Shape
  <2>1. /\ history'.shaped = history.shaped + 1 /\ station' = station
        /\ Len(line') = Len(line) + 1 /\ line'[Len(line) + 1] = history.shaped + 1
        /\ \A i \in DOMAIN line : line'[i] = line[i]
        /\ \A i \in DOMAIN line' : i \in DOMAIN line \/ i = Len(line) + 1
        /\ Len(line) < QueueLen
    BY <1>2, ShapeParts, ShapeHistory
  <2>2. \A i \in DOMAIN line' : line'[i] = history'.shaped - Len(line') + i
    <3>1. TAKE i \in DOMAIN line'
    <3>2. CASE i \in DOMAIN line
      <4>1. line'[i] = history.shaped - Len(line) + i /\ i \in Nat
        BY <1>1, <2>1, <3>2 DEF LineInv
      <4>2. QED BY <1>1, <2>1, <4>1
    <3>3. CASE i = Len(line) + 1
      BY <1>1, <2>1, <3>3
    <3>4. QED BY <2>1, <3>2, <3>3
  <2>3. QED BY <1>1, <2>1, <2>2 DEF LineInv
<1>3. CASE history'.shaped = history.shaped /\ LineMoves
  <2>1. CASE UNCHANGED <<line, station>>
    BY <1>3, <2>1 DEF LineInv
  <2>2. CASE Arrive
    <3>1. /\ Len(line) # 0 /\ station' = line[1] /\ 1 \in DOMAIN line
          /\ Len(line') = Len(line) - 1
          /\ \A i \in DOMAIN line' : i + 1 \in DOMAIN line /\ line'[i] = line[i + 1]
      BY <2>2, ArriveParts
    <3>2. \A i \in DOMAIN line' : line'[i] = history.shaped - Len(line) + (i + 1)
      BY <3>1 DEF LineInv
    <3>3. \A i \in DOMAIN line' : i \in Nat
      BY <1>1, <3>1, LenProperties, ArriveParts, <2>2
    <3>4. \A i \in DOMAIN line' : line'[i] = history'.shaped - Len(line') + i
      <4>1. TAKE i \in DOMAIN line'
      <4>2. line'[i] = history.shaped - Len(line) + (i + 1) /\ i \in Nat
        BY <3>2, <3>3
      <4>3. QED BY <1>1, <1>3, <3>1, <4>2
    <3>5. line[1] = history.shaped - Len(line) + 1
      BY <3>1 DEF LineInv
    <3>6. station' = history'.shaped - Len(line')
      BY <1>1, <1>3, <3>1, <3>5
    <3>7. Len(line') \in Nat /\ Len(line') <= Len(line) /\ Len(line) <= history.shaped
          /\ Len(line) <= QueueLen
      BY <1>1, <3>1 DEF LineInv
    <3>8. QED BY <1>1, <1>3, <3>4, <3>6, <3>7 DEF LineInv
  <2>3. CASE UNCHANGED line /\ station' = 0
    BY <1>1, <1>3, <2>3 DEF LineInv
  <2>4. QED BY <1>3, <2>1, <2>2, <2>3 DEF LineMoves
<1>4. CASE Marked
  BY <1>4, MarkedParts DEF LineInv
<1>5. QED BY <1>2, <1>3, <1>4, StepKinds DEF Quiet

(* The queue: its records are those of the boxes shaped last, the newest first,
   and the record taken last is an older one, or the one no constructor sets. *)
QueueInv ==
  /\ Len(boxQueue) <= history.shaped
  /\ \A i \in DOMAIN boxQueue : boxQueue[i].objectId = history.shaped + 1 - i
  /\ boxPoped.objectId \in Nat \cup {Garbage}
  /\ boxPoped.objectId # Garbage => boxPoped.objectId <= history.shaped - Len(boxQueue)

LEMMA QueueStep == TypeOK /\ QueueInv /\ [Next]_vars => QueueInv'
<1> SUFFICES ASSUME TypeOK, QueueInv, [Next]_vars PROVE QueueInv'
  OBVIOUS
<1>1. /\ Len(boxQueue) \in Nat /\ history.shaped \in Nat /\ QueueLen \in Nat
      /\ Len(boxQueue) <= QueueLen /\ DOMAIN boxQueue = 1..Len(boxQueue)
  BY QueueParts, HistoryFields, ConstantsOK
<1>2. boxQueue' \in Seq(Box)
  BY TypeStep DEF TypeOK
<1>3. DOMAIN boxQueue' = 1..Len(boxQueue')
  BY <1>2, LenProperties
<1>4. CASE Shape
  <2>1. /\ history'.shaped = history.shaped + 1 /\ boxPoped' = boxPoped
        /\ boxQueue' = Enqueued(ShapedBox) /\ ShapedBox \in Box
    BY <1>4, ShapeParts, ShapeHistory
  <2>2. /\ Len(boxQueue') = IF Len(boxQueue) < QueueLen THEN Len(boxQueue) + 1 ELSE QueueLen
        /\ boxQueue'[1] = ShapedBox
        /\ \A i \in DOMAIN boxQueue' : i # 1 =>
             i - 1 \in DOMAIN boxQueue /\ boxQueue'[i] = boxQueue[i - 1]
    BY <2>1, EnqueuedParts
  <2>3. ShapedBox.objectId = history.shaped + 1
    BY DEF ShapedBox
  <2>4. \A i \in DOMAIN boxQueue' : boxQueue'[i].objectId = history'.shaped + 1 - i
    <3>1. TAKE i \in DOMAIN boxQueue'
    <3>2. CASE i = 1
      BY <1>1, <2>1, <2>2, <2>3, <3>2
    <3>3. CASE i # 1
      <4>1. i - 1 \in DOMAIN boxQueue /\ boxQueue'[i] = boxQueue[i - 1]
        BY <2>2, <3>3
      <4>2. boxQueue[i - 1].objectId = history.shaped + 1 - (i - 1)
        BY <4>1 DEF QueueInv
      <4>3. i \in Int /\ Len(boxQueue') \in Int
        BY <1>3, <2>2, <1>1
      <4>4. QED BY <1>1, <2>1, <4>1, <4>2, <4>3
    <3>4. QED BY <3>2, <3>3
  <2>5. Len(boxQueue') \in Nat /\ Len(boxQueue') <= Len(boxQueue) + 1
    BY <1>1, <2>2
  <2>6. QED BY <1>1, <2>1, <2>4, <2>5 DEF QueueInv
<1>5. CASE history'.shaped = history.shaped /\ IdsKept
  BY <1>1, <1>3, <1>5 DEF IdsKept, QueueInv
<1>6. CASE history'.shaped = history.shaped /\ OldestTaken
  <2>1. boxQueue # << >> /\ boxQueue' = Shortened /\ boxPoped'.objectId = Oldest.objectId
    BY <1>6 DEF OldestTaken, MayDequeue
  <2>2. /\ Len(boxQueue') = Len(boxQueue) - 1 /\ Len(boxQueue) \in DOMAIN boxQueue
        /\ \A i \in DOMAIN boxQueue' : i \in DOMAIN boxQueue /\ boxQueue'[i] = boxQueue[i]
        /\ Oldest = boxQueue[Len(boxQueue)]
    BY <2>1, ShortenedParts
  <2>3. boxPoped'.objectId = history.shaped + 1 - Len(boxQueue)
    BY <2>1, <2>2 DEF QueueInv
  <2>4. QED BY <1>1, <1>6, <2>2, <2>3 DEF QueueInv
<1>7. QED BY <1>4, <1>5, <1>6, StepKinds, MarkedParts DEF Quiet

(* A box that is too young to be taken is still in the queue. *)
YoungInv == \A i \in DOMAIN line :
  line[i] \notin ripe => line[i] > history.shaped - Len(boxQueue)

LEMMA YoungStep == TypeOK /\ LineInv /\ QueueInv /\ YoungInv /\ [Next]_vars => YoungInv'
<1> SUFFICES ASSUME TypeOK, LineInv, QueueInv, YoungInv, [Next]_vars PROVE YoungInv'
  OBVIOUS
<1>1. /\ Len(boxQueue) \in Nat /\ history.shaped \in Nat /\ QueueLen \in Nat
      /\ Len(boxQueue) <= QueueLen /\ DOMAIN boxQueue = 1..Len(boxQueue)
      /\ Len(line) \in Nat /\ DOMAIN line = 1..Len(line)
      /\ \A i \in DOMAIN line : line[i] \in Nat
  BY QueueParts, LineParts, HistoryFields, ConstantsOK
<1>2. CASE Shape
  <2>1. /\ history'.shaped = history.shaped + 1 /\ ripe' = ripe
        /\ boxQueue' = Enqueued(ShapedBox) /\ ShapedBox \in Box
        /\ Len(line') = Len(line) + 1 /\ line'[Len(line) + 1] = history.shaped + 1
        /\ \A i \in DOMAIN line : line'[i] = line[i]
        /\ \A i \in DOMAIN line' : i \in DOMAIN line \/ i = Len(line) + 1
        /\ Len(line) < QueueLen
    BY <1>2, ShapeParts, ShapeHistory
  <2>2. Len(boxQueue') = IF Len(boxQueue) < QueueLen THEN Len(boxQueue) + 1 ELSE QueueLen
    BY <2>1, EnqueuedParts
  <2>3. Len(boxQueue') \in Nat \ {0}
    BY <1>1, <2>2, ConstantsOK
  <2>4. SUFFICES ASSUME NEW i \in DOMAIN line', line'[i] \notin ripe
                 PROVE  line'[i] > history'.shaped - Len(boxQueue')
    BY <2>1 DEF YoungInv
  <2>5. CASE i = Len(line) + 1
    BY <1>1, <2>1, <2>3, <2>5
  <2>6. CASE i \in DOMAIN line
    <3>1. line'[i] = line[i] /\ line[i] > history.shaped - Len(boxQueue)
          /\ line[i] = history.shaped - Len(line) + i
      BY <2>1, <2>4, <2>6 DEF YoungInv, LineInv
    <3>2. CASE Len(boxQueue) < QueueLen
      BY <1>1, <2>1, <2>2, <2>6, <3>1, <3>2
    <3>3. CASE ~(Len(boxQueue) < QueueLen)
      <4>1. Len(boxQueue') = QueueLen
        BY <2>2, <3>3
      <4>2. QED BY <1>1, <2>1, <2>6, <3>1, <4>1
    <3>4. QED BY <3>2, <3>3
  <2>7. QED BY <2>1, <2>5, <2>6
<1>3. CASE history'.shaped = history.shaped /\ LineMoves /\ (IdsKept \/ OldestTaken)
  <2>1. \/ Len(boxQueue') = Len(boxQueue)
        \/ /\ Len(boxQueue') = Len(boxQueue) - 1
           /\ history.shaped + 1 - Len(boxQueue) \in ripe
    <3>1. CASE IdsKept
      BY <3>1 DEF IdsKept
    <3>2. CASE OldestTaken
      <4>1. boxQueue # << >> /\ boxQueue' = Shortened /\ Oldest.objectId \in ripe
        BY <3>2 DEF OldestTaken, MayDequeue
      <4>2. /\ Len(boxQueue') = Len(boxQueue) - 1 /\ Len(boxQueue) \in DOMAIN boxQueue
            /\ Oldest = boxQueue[Len(boxQueue)]
        BY <4>1, ShortenedParts
      <4>3. Oldest.objectId = history.shaped + 1 - Len(boxQueue)
        BY <4>2 DEF QueueInv
      <4>4. QED BY <4>1, <4>2, <4>3
    <3>3. QED BY <1>3, <3>1, <3>2
  <2>2. \A i \in DOMAIN line : line[i] \notin ripe => line[i] > history.shaped - Len(boxQueue')
    <3>1. SUFFICES ASSUME NEW i \in DOMAIN line, line[i] \notin ripe
                   PROVE  line[i] > history.shaped - Len(boxQueue')
      OBVIOUS
    <3>2. line[i] > history.shaped - Len(boxQueue) /\ line[i] \in Nat
      BY <1>1, <3>1 DEF YoungInv
    <3>3. CASE Len(boxQueue') = Len(boxQueue)
      BY <3>2, <3>3
    <3>4. CASE /\ Len(boxQueue') = Len(boxQueue) - 1
               /\ history.shaped + 1 - Len(boxQueue) \in ripe
      <4>1. line[i] # history.shaped + 1 - Len(boxQueue)
        BY <3>1, <3>4
      <4>2. QED BY <1>1, <3>2, <3>4, <4>1
    <3>5. QED BY <2>1, <3>3, <3>4
  <2>3. ASSUME NEW i \in DOMAIN line' PROVE \E k \in DOMAIN line : line'[i] = line[k]
    BY <1>3, ArriveParts DEF LineMoves
  <2>4. ripe \subseteq ripe'
    BY <1>3 DEF LineMoves, Arrive
  <2>5. QED BY <1>3, <2>2, <2>3, <2>4 DEF YoungInv
<1>4. CASE Marked
  BY <1>4, MarkedParts DEF YoungInv, IdsKept
<1>5. QED BY <1>2, <1>3, <1>4, StepKinds DEF Quiet

LEMMA LinesInit == Init => LineInv /\ QueueInv /\ YoungInv
<1> SUFFICES ASSUME Init PROVE LineInv /\ QueueInv /\ YoungInv
  OBVIOUS
<1>1. /\ Len(line) = 0 /\ DOMAIN line = {} /\ Len(boxQueue) = 0 /\ DOMAIN boxQueue = {}
      /\ history.shaped = 0 /\ station = 0 /\ boxPoped.objectId = Garbage
  BY DEF Init, HistoryInit
<1>2. QED BY <1>1, ConstantsOK DEF LineInv, QueueInv, YoungInv

LEMMA YoungIsInQueue ==
  ASSUME TypeOK, LineInv, QueueInv, YoungInv
  PROVE  YoungBoxesStay
<1>1. /\ Len(boxQueue) \in Nat /\ history.shaped \in Nat /\ DOMAIN boxQueue = 1..Len(boxQueue)
      /\ Len(line) \in Nat /\ DOMAIN line = 1..Len(line)
      /\ \A i \in DOMAIN line : line[i] \in Nat
  BY QueueParts, LineParts, HistoryFields
<1>2. SUFFICES ASSUME NEW i \in DOMAIN line, line[i] \notin ripe
               PROVE  \E k \in DOMAIN QueueIds : QueueIds[k] = line[i]
  BY DEF YoungBoxesStay
<1>3. line[i] > history.shaped - Len(boxQueue) /\ line[i] <= history.shaped
  BY <1>1, <1>2 DEF YoungInv, LineInv
<1>4. PICK k \in 1..Len(boxQueue) : k = history.shaped + 1 - line[i]
  BY <1>1, <1>3
<1>5. DOMAIN QueueIds = DOMAIN boxQueue /\ QueueIds[k] = boxQueue[k].objectId
  BY <1>1 DEF QueueIds
<1>6. boxQueue[k].objectId = line[i]
  BY <1>1, <1>4 DEF QueueInv
<1>7. QED BY <1>1, <1>5, <1>6

(* A box that has been on the line for less than m_minElapsed is in the queue,
   whatever codes are missed, read twice or late. *)
THEOREM YoungAreKept == Spec => []YoungBoxesStay
<1> DEFINE Inv == TypeOK /\ LineInv /\ QueueInv /\ YoungInv
<1>1. Init => Inv
  BY TypeInit, LinesInit
<1>2. Inv /\ [Next]_vars => Inv'
  BY TypeStep, LineStep, QueueStep, YoungStep
<1>3. Inv => YoungBoxesStay
  BY YoungIsInQueue
<1>4. QED BY <1>1, <1>2, <1>3, PTL DEF Spec

-----------------------------------------------------------------------------
(* Recovery: unless a code is read twice or an image comes late, the queue keeps
   the records of all boxes of the line, and none is taken for an image of the
   box at the outer cameras. *)
AlignedInv ==
  history.others = 0 =>
    /\ Len(line) <= Len(boxQueue)
    /\ station # 0 /\ ~ReaderInUse => recent

LEMMA QueueShrinks ==
  ASSUME TypeOK, IdsKept \/ OldestTaken
  PROVE  /\ Len(boxQueue') = Len(boxQueue) \/ Len(boxQueue') = Len(boxQueue) - 1
         /\ Len(boxQueue) \in Nat
<1>1. CASE IdsKept
  BY <1>1, QueueParts DEF IdsKept
<1>2. CASE OldestTaken
  <2>1. boxQueue # << >> /\ boxQueue' = Shortened
    BY <1>2 DEF OldestTaken, MayDequeue
  <2>2. QED BY <2>1, QueueParts, ShortenedParts
<1>3. QED BY <1>1, <1>2

(* The steps that touch neither the line nor the order of the records. *)
Aside ==
  /\ IdsKept /\ boxFound' = boxFound
  /\ UNCHANGED <<line, station, recent, isConnected>>
  /\ history'.shaped = history.shaped /\ history'.missed = history.missed
  /\ history'.others = history.others

LEMMA AsideSteps ==
  ASSUME TypeOK,
         \/ Stack \/ Marked \/ UNCHANGED vars
         \/ \E image \in history.images : NgUnknown(image)
         \/ \E b \in Boxes : Ripen(b)
  PROVE  Aside
<1>1. CASE Stack
  <2>1. PICK image \in Image : Emit(image)
    BY <1>1, StackParts
  <2>2. /\ history'.shaped = history.shaped /\ history'.missed = history.missed
        /\ history'.others = history.others
    BY <2>1, HistoryFields DEF Emit, History
  <2>3. IdsKept
    BY <1>1, QuietStack
  <2>4. QED BY <1>1, <2>2, <2>3 DEF Aside, Stack, lineVars
<1>2. CASE Marked
  BY <1>2, MarkedParts DEF Aside
<1>3. CASE UNCHANGED vars
  BY <1>3 DEF vars, Aside, IdsKept
<1>4. ASSUME NEW image \in history.images, NgUnknown(image) PROVE Aside
  <2>1. /\ history'.shaped = history.shaped /\ history'.missed = history.missed
        /\ history'.others = history.others
    BY <1>4, HistoryFields DEF NgUnknown, History
  <2>2. QED BY <1>4, <2>1 DEF NgUnknown, Defect, lineVars, Aside, IdsKept
<1>5. ASSUME NEW b \in Boxes, Ripen(b) PROVE Aside
  BY <1>5 DEF Ripen, queueVars, Aside, IdsKept
<1>6. QED BY <1>1, <1>2, <1>3, <1>4, <1>5

LEMMA AlignedStep == TypeOK /\ LineInv /\ AlignedInv /\ [Next]_vars => AlignedInv'
<1> SUFFICES ASSUME TypeOK, LineInv, AlignedInv, [Next]_vars, history'.others = 0
             PROVE  Len(line') <= Len(boxQueue') /\ (station' # 0 /\ ~ReaderInUse' => recent')
  BY DEF AlignedInv
<1>1. /\ Len(boxQueue) \in Nat /\ Len(line) \in Nat /\ history.others \in Nat
      /\ Len(boxQueue) <= QueueLen /\ QueueLen \in Nat
  BY QueueParts, LineParts, HistoryFields, ConstantsOK
<1>2. isConnected' = isConnected => ReaderInUse' = ReaderInUse
  BY DEF ReaderInUse
<1>3. CASE Aside
  BY <1>2, <1>3 DEF Aside, IdsKept, AlignedInv
<1>4. CASE Shape
  <2>1. /\ history'.others = history.others
        /\ boxQueue' = Enqueued(ShapedBox) /\ ShapedBox \in Box
        /\ Len(line') = Len(line) + 1 /\ Len(line) < QueueLen
        /\ UNCHANGED <<recent, isConnected, station>>
    BY <1>4, ShapeParts, ShapeHistory
  <2>2. Len(boxQueue') = IF Len(boxQueue) < QueueLen THEN Len(boxQueue) + 1 ELSE QueueLen
    BY <2>1, EnqueuedParts
  <2>3. Len(line) <= Len(boxQueue)
    BY <2>1 DEF AlignedInv
  <2>4. Len(line') <= Len(boxQueue')
    BY <1>1, <2>1, <2>2, <2>3
  <2>5. QED BY <1>2, <2>1, <2>4 DEF AlignedInv
<1>5. CASE OnBarCode
  <2>1. /\ history' = history /\ ReaderInUse /\ isConnected' = isConnected
        /\ Len(line') = Len(line) - 1
    BY <1>5, ArriveParts DEF OnBarCode
  <2>2. IdsKept \/ OldestTaken
    BY <1>5, QuietDequeue DEF OnBarCode
  <2>3. Len(line) <= Len(boxQueue)
    BY <2>1 DEF AlignedInv
  <2>4. Len(line') <= Len(boxQueue')
    BY <1>1, <2>1, <2>2, <2>3, QueueShrinks
  <2>5. QED BY <1>2, <2>1, <2>4
<1>6. ASSUME NEW c \in OuterCameras, OuterFirst(c)
      PROVE  Len(line') <= Len(boxQueue') /\ recent'
  <2>1. PICK b \in Boxes : OuterImage(b, c)
    BY <1>6, ArriveParts DEF OuterFirst
  <2>2. /\ history'.others = history.others /\ (IdsKept \/ OldestTaken)
        /\ Len(line') = Len(line) - 1 /\ recent' = TRUE
    BY <1>6, <2>1, QuietOuter, ArriveParts DEF OuterFirst, OuterImage
  <2>3. Len(line) <= Len(boxQueue)
    BY <2>2 DEF AlignedInv
  <2>4. QED BY <1>1, <2>2, <2>3, QueueShrinks
<1>7. ASSUME NEW c \in OuterCameras, OuterNext(c)
      PROVE  Len(line') <= Len(boxQueue') /\ recent'
  <2>1. station \in Boxes /\ OuterImage(station, c) /\ station # 0 /\ line' = line
    BY <1>7 DEF OuterNext, TypeOK, lineVars
  <2>2. history'.others = history.others /\ recent' = TRUE
    BY <2>1, QuietOuter DEF OuterImage
  <2>3. ~IsFirst /\ Len(line) <= Len(boxQueue)
    BY <2>1, <2>2 DEF AlignedInv, IsFirst
  <2>4. IdsKept
    BY <2>1, <2>3, QuietOuter
  <2>5. QED BY <2>1, <2>2, <2>3, <2>4 DEF IdsKept
<1>8. CASE Leave \/ SetConnected
  <2>1. /\ boxQueue' = boxQueue /\ line' = line
        /\ station' # 0 => recent'
        /\ history'.others = history.others
    BY <1>8, HistoryFields
       DEF Leave, SetConnected, ConnectionChanges, queueVars, lineVars, History
  <2>2. QED BY <2>1 DEF AlignedInv
<1>9. CASE MissCode
  <2>1. history'.others = history.others
    BY <1>9, HistoryFields DEF MissCode, History
  <2>2. boxQueue' = boxQueue /\ Len(line') = Len(line) - 1 /\ ReaderInUse
        /\ isConnected' = isConnected
    BY <1>9, ArriveParts DEF MissCode, queueVars
  <2>3. Len(line) <= Len(boxQueue)
    BY <2>1 DEF AlignedInv
  <2>4. Len(line') <= Len(boxQueue')
    BY <1>1, <2>2, <2>3
  <2>5. QED BY <1>2, <2>2, <2>4
<1>10. ~ReadTwice /\ ~ImageIsLate /\ ~SetConnectedAtBox
  <2>1. ASSUME ReadTwice \/ ImageIsLate \/ SetConnectedAtBox PROVE FALSE
    <3>1. history'.others = history.others + 1
      BY <2>1, HistoryFields DEF ReadTwice, ImageIsLate, SetConnectedAtBox, History
    <3>2. QED BY <1>1, <3>1
  <2>2. QED BY <2>1
<1>11. QED BY <1>3, <1>4, <1>5, <1>6, <1>7, <1>8, <1>9, <1>10, AsideSteps DEF Next, Marked

LEMMA AlignedRecovers ==
  ASSUME TypeOK, LineInv, QueueInv, AlignedInv
  PROVE  RecoversWhenFull
<1> SUFFICES ASSUME history.others = 0
             PROVE  /\ SubSeq(QueueIds, 1, Len(line)) = LineNewestFirst
                    /\ Len(line) = QueueLen => QueueIds = LineNewestFirst
  BY DEF RecoversWhenFull
<1>1. PICK q \in Nat : q = Len(boxQueue)
  BY QueueParts
<1>2. PICK n \in Nat : n = Len(line)
  BY LineParts
<1>3. PICK s \in Nat : s = history.shaped
  BY HistoryFields
<1>4. n <= q /\ q <= QueueLen /\ QueueLen \in Nat /\ n <= s
  BY <1>1, <1>2, <1>3, QueueParts, ConstantsOK DEF AlignedInv, LineInv
<1>5. QueueIds = [i \in 1..q |-> s + 1 - i]
  <2>1. DOMAIN boxQueue = 1..q /\ \A i \in 1..q : boxQueue[i].objectId = s + 1 - i
    BY <1>1, <1>3, QueueParts DEF QueueInv
  <2>2. QED BY <2>1 DEF QueueIds
<1>6. LineNewestFirst = [i \in 1..n |-> s + 1 - i]
  <2>1. DOMAIN line = 1..n /\ \A i \in 1..n : line[i] = s - n + i
    BY <1>2, <1>3, LineParts DEF LineInv
  <2>2. \A i \in 1..n : line[n + 1 - i] = s + 1 - i
    <3>1. TAKE i \in 1..n
    <3>2. n + 1 - i \in 1..n
      BY <1>2
    <3>3. line[n + 1 - i] = s - n + (n + 1 - i)
      BY <2>1, <3>2
    <3>4. QED BY <1>2, <1>3, <3>3
  <2>3. LineNewestFirst = [i \in 1..n |-> line[n + 1 - i]]
    BY <1>2, <2>1 DEF LineNewestFirst
  <2>4. QED BY <2>2, <2>3
<1>7. SubSeq(QueueIds, 1, n) = [i \in 1..n |-> s + 1 - i]
  <2>1. \A i \in 1..n : i \in 1..q /\ QueueIds[i] = s + 1 - i /\ QueueIds[i] \in Int
    BY <1>1, <1>2, <1>3, <1>4, <1>5
  <2>2. /\ SubSeq(QueueIds, 1, n) \in Seq(Int)
        /\ Len(SubSeq(QueueIds, 1, n)) = IF 1 <= n THEN n - 1 + 1 ELSE 0
        /\ \A i \in 1..(n - 1 + 1) : SubSeq(QueueIds, 1, n)[i] = QueueIds[1 + i - 1]
    BY <1>2, <2>1, SubSeqProperties
  <2>3. Len(SubSeq(QueueIds, 1, n)) = n /\ n - 1 + 1 = n /\ \A i \in 1..n : 1 + i - 1 = i
    BY <1>2, <2>2
  <2>4. DOMAIN SubSeq(QueueIds, 1, n) = 1..n
    BY <2>2, <2>3, LenProperties
  <2>5. \A i \in 1..n : SubSeq(QueueIds, 1, n)[i] = s + 1 - i
    BY <2>1, <2>2, <2>3
  <2>6. SubSeq(QueueIds, 1, n) = [i \in DOMAIN SubSeq(QueueIds, 1, n) |-> SubSeq(QueueIds, 1, n)[i]]
    BY <2>2
  <2>7. QED BY <2>4, <2>5, <2>6
<1>8. QED BY <1>2, <1>4, <1>5, <1>6, <1>7

(* However many codes are missed, the queue starts with the records of the line,
   and holds nothing else when the line is full. *)
THEOREM QueueRecovers == Spec => []RecoversWhenFull
<1> DEFINE Inv == TypeOK /\ LineInv /\ QueueInv /\ AlignedInv
<1>1. Init => Inv
  <2>1. Init => AlignedInv
    BY DEF Init, AlignedInv
  <2>2. QED BY <2>1, TypeInit, LinesInit
<1>2. Inv /\ [Next]_vars => Inv'
  BY TypeStep, LineStep, QueueStep, AlignedStep
<1>3. Inv => RecoversWhenFull
  BY AlignedRecovers
<1>4. QED BY <1>1, <1>2, <1>3, PTL DEF Spec

-----------------------------------------------------------------------------
(* The mapping: without mishaps the queue and the line are in step, the record
   taken last is that of the box at the outer cameras, and every image is kept
   in the record of its box. *)
Filed(image) ==
  /\ image.objectId = image.box /\ image.box <= history.shaped
  /\ \A i \in DOMAIN boxQueue : boxQueue[i].objectId = image.box => image \in boxQueue[i].images
  /\ image.box = station => image \in boxPoped.images

Mapped ==
  /\ Len(boxQueue) = Len(line)
  /\ station # 0 => boxFound /\ boxPoped.objectId = station
  /\ \A image \in history.images : Filed(image)

MappedInv == history.missed + history.others = 0 => Mapped

(* In a clean step nothing is missed, read twice or late. *)
Clean(h) == h.missed = 0 /\ h.others = 0

LEMMA CleanSum ==
  ASSUME NEW h \in History
  PROVE  h.missed + h.others = 0 <=> Clean(h)
<1>1. h.missed \in Nat /\ h.others \in Nat
  BY DEF History
<1>2. QED BY <1>1 DEF Clean

(* Records keep their images. *)
ImagesKept ==
  /\ history'.images = history.images
  /\ boxPoped.images \subseteq boxPoped'.images
  /\ \A i \in DOMAIN boxQueue : boxQueue[i].images \subseteq boxQueue'[i].images

LEMMA MarkedImages == TypeOK /\ Marked => ImagesKept
<1> SUFFICES ASSUME TypeOK, Marked PROVE ImagesKept
  OBVIOUS
<1>1. PICK image \in history.images : NgInQueue(image) \/ NgInPoped(image)
  BY DEF Marked
<1>2. \/ boxPoped' = boxPoped /\ \E i \in DOMAIN boxQueue :
            boxQueue' = [boxQueue EXCEPT ![i] = WithNg(boxQueue[i])]
      \/ boxQueue' = boxQueue /\ boxPoped' = WithNg(boxPoped)
  BY <1>1, NgParts
<1>3. history'.images = history.images
  BY MarkedParts
<1>4. ASSUME NEW box \in Box PROVE WithNg(box).images = box.images
  BY DEF WithNg, Box
<1>5. CASE boxQueue' = boxQueue /\ boxPoped' = WithNg(boxPoped)
  <2>1. boxPoped \in Box
    BY DEF TypeOK
  <2>2. boxPoped'.images = boxPoped.images
    BY <1>4, <1>5, <2>1
  <2>3. QED BY <1>3, <1>5, <2>2 DEF ImagesKept
<1>6. CASE boxPoped' = boxPoped /\ \E i \in DOMAIN boxQueue :
             boxQueue' = [boxQueue EXCEPT ![i] = WithNg(boxQueue[i])]
  <2>1. PICK i \in DOMAIN boxQueue : boxQueue' = [boxQueue EXCEPT ![i] = WithNg(boxQueue[i])]
    BY <1>6
  <2>2. boxQueue[i] \in Box
    BY QueueParts
  <2>3. PICK box : box = WithNg(boxQueue[i])
    OBVIOUS
  <2>4. box.images = boxQueue[i].images
    BY <1>4, <2>2, <2>3
  <2>5. \A k \in DOMAIN boxQueue : boxQueue'[k] = IF k = i THEN box ELSE boxQueue[k]
    BY <2>1, <2>3
  <2>6. \A k \in DOMAIN boxQueue : boxQueue[k].images \subseteq boxQueue'[k].images
    BY <2>4, <2>5
  <2>7. boxPoped' = boxPoped
    BY <1>6
  <2>8. QED BY <1>3, <2>6, <2>7 DEF ImagesKept
<1>7. QED BY <1>2, <1>5, <1>6

LEMMA MappedAside ==
  ASSUME TypeOK, Mapped, ImagesKept, IdsKept, history'.shaped = history.shaped,
         line' = line, boxFound' = boxFound,
         station' = station \/ station' = 0, boxQueue' \in Seq(Box)
  PROVE  Mapped'
<1>1. DOMAIN boxQueue' = DOMAIN boxQueue
  BY QueueParts, LenProperties DEF IdsKept
<1>2. ASSUME NEW image \in history.images PROVE Filed(image)'
  <2>1. Filed(image)
    BY <1>2 DEF Mapped
  <2>2. image.box # 0
    BY <1>2, HistoryFields DEF Image, Boxes
  <2>3. QED BY <1>1, <2>1, <2>2 DEF Filed, IdsKept, ImagesKept
<1>3. QED BY <1>2 DEF Mapped, IdsKept, ImagesKept

(* The box that leaves the line is the one of the oldest record. *)
LEMMA HeadIsOldest ==
  ASSUME TypeOK, LineInv, QueueInv, Mapped, Arrive
  PROVE  /\ MayDequeue /\ Oldest.objectId = line[1] /\ Oldest \in Box
         /\ Len(boxQueue) \in DOMAIN boxQueue /\ Oldest = boxQueue[Len(boxQueue)]
         /\ \A i \in DOMAIN Shortened : boxQueue[i].objectId # line[1]
<1>1. /\ Len(line) \in Nat \ {0} /\ 1 \in DOMAIN line /\ line[1] \in ripe
  BY ArriveParts
<1>2. Len(boxQueue) = Len(line) /\ boxQueue # << >> /\ history.shaped \in Nat
  BY <1>1, QueueParts, HistoryFields DEF Mapped
<1>3. line[1] = history.shaped - Len(line) + 1
  BY <1>1 DEF LineInv
<1>4. /\ Len(boxQueue) \in DOMAIN boxQueue /\ Oldest = boxQueue[Len(boxQueue)] /\ Oldest \in Box
      /\ DOMAIN Shortened = 1..(Len(boxQueue) - 1)
      /\ \A i \in DOMAIN Shortened : i \in DOMAIN boxQueue
  BY <1>2, ShortenedParts
<1>5. Oldest.objectId = history.shaped + 1 - Len(boxQueue)
  BY <1>4 DEF QueueInv
<1>6. Oldest.objectId = line[1]
  BY <1>1, <1>2, <1>3, <1>5
<1>7. \A i \in DOMAIN Shortened : boxQueue[i].objectId # line[1]
  <2>1. TAKE i \in DOMAIN Shortened
  <2>2. boxQueue[i].objectId = history.shaped + 1 - i
    BY <1>4 DEF QueueInv
  <2>3. QED BY <1>1, <1>2, <1>3, <1>4, <2>2
<1>8. QED BY <1>1, <1>2, <1>4, <1>6, <1>7 DEF MayDequeue

LEMMA MappedTaken ==
  ASSUME TypeOK, LineInv, QueueInv, Mapped, Arrive,
         boxQueue' = Shortened, boxFound' = TRUE, boxPoped'.objectId = Oldest.objectId,
         Oldest.images \subseteq boxPoped'.images, history'.shaped = history.shaped,
         \A image \in history'.images :
            \/ image \in history.images
            \/ /\ image.box = line[1] /\ image.objectId = line[1]
               /\ image \in boxPoped'.images
  PROVE  Mapped'
<1>1. /\ Oldest.objectId = line[1] /\ Len(boxQueue) \in DOMAIN boxQueue
      /\ Oldest = boxQueue[Len(boxQueue)] /\ boxQueue # << >>
      /\ \A i \in DOMAIN boxQueue' : boxQueue[i].objectId # line[1]
  BY HeadIsOldest DEF MayDequeue
<1>2. /\ Len(boxQueue') = Len(boxQueue) - 1
      /\ \A i \in DOMAIN boxQueue' : i \in DOMAIN boxQueue /\ boxQueue'[i] = boxQueue[i]
  BY <1>1, ShortenedParts
<1>3. /\ station' = line[1] /\ Len(line') = Len(line) - 1 /\ 1 \in DOMAIN line
      /\ Len(line) \in Nat \ {0}
  BY ArriveParts
<1>4. line[1] <= history.shaped
  <2>1. line[1] = history.shaped - Len(line) + 1
    BY <1>3 DEF LineInv
  <2>2. QED BY <1>3, <2>1, HistoryFields
<1>5. ASSUME NEW image \in history'.images PROVE Filed(image)'
  <2>1. CASE image \in history.images
    <3>1. Filed(image)
      BY <2>1 DEF Mapped
    <3>2. image.box = station' => image \in Oldest.images
      BY <1>1, <1>3, <3>1 DEF Filed
    <3>3. QED BY <1>2, <3>1, <3>2 DEF Filed
  <2>2. CASE image.box = line[1] /\ image.objectId = line[1] /\ image \in boxPoped'.images
    BY <1>1, <1>2, <1>4, <2>2 DEF Filed
  <2>3. QED BY <2>1, <2>2
<1>6. Len(boxQueue') = Len(line')
  BY <1>2, <1>3 DEF Mapped
<1>7. QED BY <1>1, <1>3, <1>5, <1>6 DEF Mapped

LEMMA MappedShape ==
  ASSUME TypeOK, LineInv, QueueInv, Mapped, Shape
  PROVE  Mapped'
<1>1. /\ Len(boxQueue) \in Nat /\ Len(boxQueue) = Len(line) /\ history.shaped \in Nat
      /\ DOMAIN boxQueue = 1..Len(boxQueue) /\ QueueLen \in Nat /\ station \in Nat
      /\ station <= history.shaped
  <2>1. station \in Nat /\ history.shaped \in Nat /\ Len(line) \in Nat
    BY LineParts, HistoryFields DEF TypeOK, Boxes
  <2>2. QED BY <2>1, QueueParts, ConstantsOK DEF Mapped, LineInv
<1>2. /\ boxQueue' = Enqueued(ShapedBox) /\ ShapedBox \in Box /\ Len(line) < QueueLen
      /\ Len(line') = Len(line) + 1 /\ history'.shaped = history.shaped + 1
      /\ history'.images = history.images \cup {ShapedImage}
      /\ UNCHANGED <<boxPoped, boxFound, station>>
  BY ShapeParts, ShapeHistory
<1>3. /\ Len(boxQueue') = Len(boxQueue) + 1 /\ boxQueue'[1] = ShapedBox
      /\ DOMAIN boxQueue' = 1..Len(boxQueue')
      /\ \A i \in DOMAIN boxQueue' : i # 1 =>
           i - 1 \in DOMAIN boxQueue /\ boxQueue'[i] = boxQueue[i - 1]
  BY <1>1, <1>2, EnqueuedParts
<1>4. /\ ShapedBox.objectId = history.shaped + 1 /\ ShapedBox.images = {ShapedImage}
      /\ ShapedImage.box = history.shaped + 1 /\ ShapedImage.objectId = history.shaped + 1
  BY DEF ShapedBox, ShapedImage, NewImage
<1>5. ASSUME NEW image \in history.images PROVE Filed(image)'
  <2>1. Filed(image) /\ image.box <= history.shaped /\ image.box \in Nat
    BY <1>5, HistoryFields DEF Mapped, Filed, Image, Boxes
  <2>2. image.box # history.shaped + 1 /\ image.box <= history.shaped + 1
    BY <1>1, <2>1
  <2>3. QED BY <1>2, <1>3, <1>4, <2>1, <2>2 DEF Filed
<1>6. PICK new : new = ShapedImage
  OBVIOUS
<1>7. Filed(new)'
  <2>1. /\ new.box = history'.shaped /\ new.objectId = new.box /\ new.box # station'
        /\ new.box <= history'.shaped
    BY <1>1, <1>2, <1>4, <1>6
  <2>2. ASSUME NEW i \in DOMAIN boxQueue', i # 1
        PROVE  boxQueue'[i].objectId # history.shaped + 1
    <3>1. i - 1 \in DOMAIN boxQueue /\ boxQueue'[i] = boxQueue[i - 1]
      BY <1>3, <2>2
    <3>2. boxQueue[i - 1].objectId = history.shaped + 1 - (i - 1)
      BY <3>1 DEF QueueInv
    <3>3. QED BY <1>1, <1>3, <2>2, <3>1, <3>2
  <2>3. \A i \in DOMAIN boxQueue' : boxQueue'[i].objectId = new.box => new \in boxQueue'[i].images
    BY <1>2, <1>3, <1>4, <1>6, <2>1, <2>2
  <2>4. QED BY <2>1, <2>3 DEF Filed
<1>8. Len(boxQueue') = Len(line')
  BY <1>1, <1>2, <1>3
<1>9. QED BY <1>2, <1>5, <1>6, <1>7, <1>8 DEF Mapped

LEMMA MappedStack ==
  ASSUME TypeOK, LineInv, QueueInv, Mapped, Stack
  PROVE  Mapped'
<1>1. PICK image \in Image :
        /\ line # << >> /\ image.box = line[Len(line)] /\ Len(line) \in DOMAIN line
        /\ Emit(image)
        /\ \/ /\ boxQueue # << >> /\ image.objectId = boxQueue[1].objectId
              /\ 1 \in DOMAIN boxQueue
              /\ boxQueue' = [boxQueue EXCEPT
                                ![1] = [boxQueue[1] EXCEPT !.images = @ \cup {image}]]
           \/ boxQueue = << >> /\ boxQueue' = boxQueue
  BY StackParts
<1>2. /\ Len(boxQueue) \in Nat /\ Len(boxQueue) = Len(line) /\ history.shaped \in Nat
      /\ DOMAIN boxQueue = 1..Len(boxQueue) /\ station \in Nat /\ Len(line) # 0
  BY <1>1, QueueParts, LineParts, HistoryFields DEF Mapped, TypeOK, Boxes
<1>3. boxQueue # << >> /\ 1 \in DOMAIN boxQueue /\ boxQueue[1] \in Box
  BY <1>2, QueueParts
<1>4. PICK box \in Box : box = [boxQueue[1] EXCEPT !.images = @ \cup {image}]
  BY <1>3, BoxType
<1>5. box.images = boxQueue[1].images \cup {image} /\ box.objectId = boxQueue[1].objectId
  BY <1>3, <1>4 DEF Box
<1>6. \A i \in DOMAIN boxQueue : boxQueue'[i] = IF i = 1 THEN box ELSE boxQueue[i]
  BY <1>1, <1>3, <1>4
<1>7. /\ history'.shaped = history.shaped /\ history'.images = history.images \cup {image}
      /\ UNCHANGED <<line, station, boxFound, boxPoped>>
  BY <1>1, HistoryFields DEF Emit, History, Stack, lineVars
<1>8. IdsKept /\ DOMAIN boxQueue' = DOMAIN boxQueue
  <2>1. IdsKept
    BY QuietStack
  <2>2. boxQueue' \in Seq(Box)
    BY TypeStep DEF TypeOK, Next
  <2>3. QED BY <1>2, <2>1, <2>2, LenProperties DEF IdsKept
<1>9. ASSUME NEW other \in history.images PROVE Filed(other)'
  <2>1. Filed(other)
    BY <1>9 DEF Mapped
  <2>2. QED BY <1>5, <1>6, <1>7, <1>8, <2>1 DEF Filed, IdsKept
<1>10. Filed(image)'
  <2>1. image.box = history.shaped /\ image.objectId = history.shaped
    <3>1. line[Len(line)] = history.shaped - Len(line) + Len(line)
      BY <1>1 DEF LineInv
    <3>2. boxQueue[1].objectId = history.shaped + 1 - 1
      BY <1>3 DEF QueueInv
    <3>3. QED BY <1>1, <1>2, <1>3, <3>1, <3>2
  <2>2. image.box # station
    BY <1>2, <2>1 DEF LineInv
  <2>3. ASSUME NEW i \in DOMAIN boxQueue, i # 1 PROVE boxQueue[i].objectId # history.shaped
    <3>1. boxQueue[i].objectId = history.shaped + 1 - i
      BY DEF QueueInv
    <3>2. QED BY <1>2, <2>3, <3>1
  <2>4. ASSUME NEW i \in DOMAIN boxQueue', boxQueue'[i].objectId = image.box
        PROVE  image \in boxQueue'[i].images
    <3>1. boxQueue[i].objectId = history.shaped
      BY <1>8, <2>1, <2>4 DEF IdsKept
    <3>2. i = 1
      BY <1>8, <2>3, <3>1
    <3>3. QED BY <1>3, <1>5, <1>6, <3>2
  <2>5. image.box <= history'.shaped /\ image.box # station'
    BY <1>2, <1>7, <2>1, <2>2
  <2>6. QED BY <2>1, <2>4, <2>5 DEF Filed
<1>11. QED BY <1>7, <1>8, <1>9, <1>10 DEF Mapped, IdsKept

(* An image of the box at the outer cameras that is not its first. *)
LEMMA MappedOuter ==
  ASSUME TypeOK, LineInv, QueueInv, Mapped, station # 0, ~IsFirst,
         NEW c \in OuterCameras, OuterImage(station, c), UNCHANGED lineVars
  PROVE  Mapped'
<1>1. station \in Boxes /\ c \in Cameras /\ station \in Nat
  BY DEF TypeOK, Cameras, Boxes
<1>2. PICK image \in Image : image = OuterNew(station, c)
  BY <1>1, OuterParts
<1>3. Found = TRUE /\ Popped = boxPoped /\ boxPoped.objectId = station /\ boxPoped \in Box
  BY DEF Found, Popped, Mapped, TypeOK
<1>4. image.box = station /\ image.objectId = station
  BY <1>2, <1>3 DEF OuterNew, NewImage
<1>5. /\ boxQueue' = boxQueue /\ boxFound' = TRUE
      /\ boxPoped' = [boxPoped EXCEPT !.images = @ \cup {image}] /\ Emit(image)
  BY <1>1, <1>2, <1>3, OuterParts
<1>6. boxPoped'.images = boxPoped.images \cup {image} /\ boxPoped'.objectId = station
  BY <1>3, <1>5 DEF Box
<1>7. /\ history'.shaped = history.shaped /\ history'.images = history.images \cup {image}
      /\ line' = line /\ station' = station
  BY <1>5, HistoryFields DEF Emit, History, lineVars
<1>8. ASSUME NEW other \in history.images PROVE Filed(other)'
  <2>1. Filed(other)
    BY <1>8 DEF Mapped
  <2>2. QED BY <1>5, <1>6, <1>7, <2>1 DEF Filed
<1>9. Filed(image)'
  <2>1. /\ Len(boxQueue) \in Nat /\ Len(boxQueue) = Len(line) /\ history.shaped \in Nat
        /\ DOMAIN boxQueue = 1..Len(boxQueue)
    BY QueueParts, HistoryFields DEF Mapped
  <2>2. station <= history.shaped - Len(boxQueue)
    BY <2>1 DEF LineInv
  <2>3. ASSUME NEW i \in DOMAIN boxQueue PROVE boxQueue[i].objectId # station
    <3>1. boxQueue[i].objectId = history.shaped + 1 - i
      BY DEF QueueInv
    <3>2. QED BY <1>1, <2>1, <2>2, <3>1
  <2>4. station <= history.shaped
    BY <1>1, <2>1, <2>2
  <2>5. QED BY <1>4, <1>5, <1>6, <1>7, <2>3, <2>4 DEF Filed
<1>10. QED BY <1>3, <1>5, <1>6, <1>7, <1>8, <1>9 DEF Mapped

LEMMA MappedStep ==
  TypeOK /\ LineInv /\ QueueInv /\ AlignedInv /\ MappedInv /\ [Next]_vars => MappedInv'
<1> SUFFICES ASSUME TypeOK, LineInv, QueueInv, AlignedInv, MappedInv, [Next]_vars,
                    history'.missed + history'.others = 0
             PROVE  Mapped'
  BY DEF MappedInv
<1>1. TypeOK' /\ history \in History /\ history' \in History /\ boxQueue' \in Seq(Box)
  BY TypeStep DEF TypeOK
<1>2. Clean(history')
  BY <1>1, CleanSum
<1>3. Clean(history) => Mapped
  BY <1>1, CleanSum DEF MappedInv
<1>4. CASE Shape
  BY <1>2, <1>3, <1>4, MappedShape, ShapeHistory DEF Clean
<1>5. CASE Stack
  <2>1. Aside
    BY <1>5, AsideSteps
  <2>2. QED BY <1>2, <1>3, <1>5, <2>1, MappedStack DEF Clean, Aside
<1>6. CASE OnBarCode
  <2>1. history' = history /\ Arrive /\ Dequeue
    BY <1>6 DEF OnBarCode
  <2>2. Mapped
    BY <1>2, <1>3, <2>1
  <2>3. MayDequeue
    BY <2>1, <2>2, HeadIsOldest
  <2>4. boxQueue' = Shortened /\ boxPoped' = Oldest /\ boxFound' = TRUE
    BY <2>1, <2>3 DEF Dequeue, Shortened
  <2>5. QED BY <2>1, <2>2, <2>4, MappedTaken
<1>7. ASSUME NEW c \in OuterCameras, OuterFirst(c) PROVE Mapped'
  <2>1. PICK b \in Boxes : b = line[1] /\ Arrive /\ ~ReaderInUse /\ ~recent /\ OuterImage(b, c)
    BY <1>7, ArriveParts DEF OuterFirst
  <2>2. c \in Cameras
    BY DEF Cameras
  <2>3. history'.shaped = history.shaped /\ Clean(history)
    BY <1>2, <2>1, QuietOuter DEF Clean
  <2>4. Mapped
    BY <1>3, <2>3
  <2>5. MayDequeue /\ Oldest.objectId = line[1] /\ Oldest \in Box /\ IsFirst
    BY <2>1, <2>4, HeadIsOldest DEF IsFirst
  <2>6. Found = TRUE /\ Popped = Oldest
    BY <2>5 DEF Found, Popped
  <2>7. PICK image \in Image : image = OuterNew(b, c)
    BY <2>1, <2>2, OuterParts
  <2>8. image.box = line[1] /\ image.objectId = line[1]
    BY <2>1, <2>5, <2>6, <2>7 DEF OuterNew, NewImage
  <2>9. /\ boxQueue' = Shortened /\ boxFound' = TRUE /\ Emit(image)
        /\ boxPoped' = [Oldest EXCEPT !.images = @ \cup {image}]
    BY <2>1, <2>2, <2>5, <2>6, <2>7, OuterParts
  <2>10. boxPoped'.images = Oldest.images \cup {image} /\ boxPoped'.objectId = Oldest.objectId
    BY <2>5, <2>9 DEF Box
  <2>11. history'.images = history.images \cup {image}
    BY <2>9, HistoryFields DEF Emit, History
  <2>12. QED BY <2>1, <2>3, <2>4, <2>8, <2>9, <2>10, <2>11, MappedTaken
<1>8. ASSUME NEW c \in OuterCameras, OuterNext(c) PROVE Mapped'
  <2>1. station \in Boxes /\ OuterImage(station, c) /\ station # 0 /\ UNCHANGED lineVars
    BY <1>8 DEF OuterNext, TypeOK
  <2>2. Clean(history)
    BY <1>2, <2>1, QuietOuter DEF Clean
  <2>3. ~IsFirst
    BY <2>1, <2>2 DEF Clean, AlignedInv, IsFirst
  <2>4. QED BY <1>3, <2>1, <2>2, <2>3, MappedOuter
<1>9. CASE Marked
  <2>1. Clean(history)
    BY <1>2, <1>9, MarkedParts DEF Clean
  <2>2. QED BY <1>1, <1>3, <1>9, <2>1, MarkedParts, MarkedImages, MappedAside
<1>10. ASSUME \/ \E image \in history.images : NgUnknown(image)
              \/ \E b \in Boxes : Ripen(b)
              \/ Leave \/ SetConnected \/ UNCHANGED vars
       PROVE  Mapped'
  <2>1. /\ boxQueue' = boxQueue /\ boxPoped' = boxPoped /\ boxFound' = boxFound
        /\ line' = line /\ (station' = station \/ station' = 0)
    BY <1>10 DEF NgUnknown, Defect, Ripen, Leave, SetConnected, ConnectionChanges, vars,
       queueVars, lineVars
  <2>2. /\ history'.shaped = history.shaped /\ history'.images = history.images
        /\ history'.missed = history.missed /\ history'.others = history.others
    BY <1>10, HistoryFields DEF NgUnknown, Ripen, Leave, SetConnected, vars, History
  <2>3. IdsKept /\ ImagesKept
    BY <2>1, <2>2 DEF IdsKept, ImagesKept
  <2>4. Clean(history)
    BY <1>2, <2>2 DEF Clean
  <2>5. QED BY <1>1, <1>3, <2>1, <2>2, <2>3, <2>4, MappedAside
<1>11. ~MissCode /\ ~ReadTwice /\ ~ImageIsLate /\ ~SetConnectedAtBox
  <2>1. ASSUME MissCode PROVE FALSE
    <3>1. history'.missed = history.missed + 1
      BY <2>1, HistoryFields DEF MissCode, History
    <3>2. QED BY <1>2, <3>1, HistoryFields DEF Clean
  <2>2. ASSUME ReadTwice \/ ImageIsLate \/ SetConnectedAtBox PROVE FALSE
    <3>1. history'.others = history.others + 1
      BY <2>2, HistoryFields DEF ReadTwice, ImageIsLate, SetConnectedAtBox, History
    <3>2. QED BY <1>2, <3>1, HistoryFields DEF Clean
  <2>3. QED BY <2>1, <2>2
<1>12. QED BY <1>4, <1>5, <1>6, <1>7, <1>8, <1>9, <1>10, <1>11 DEF Next, Marked

LEMMA MappedFinds ==
  ASSUME TypeOK, LineInv, QueueInv, MappedInv
  PROVE  ImagesOfTheirBox /\ DefectFindsBox
<1>1. ImagesOfTheirBox
  BY DEF ImagesOfTheirBox, MappedInv, Mapped, Filed
<1>2. ASSUME history.missed + history.others = 0, NEW image \in history.images,
             image.box = station \/ \E i \in DOMAIN line : line[i] = image.box
      PROVE  IsKnown(image)
  <2>1. Mapped /\ Filed(image) /\ image.box \in Nat /\ image.box # 0
    BY <1>2, HistoryFields DEF MappedInv, Mapped, Image, Boxes
  <2>2. /\ Len(boxQueue) \in Nat /\ Len(boxQueue) = Len(line) /\ history.shaped \in Nat
        /\ DOMAIN boxQueue = 1..Len(boxQueue) /\ DOMAIN line = 1..Len(line)
    BY <2>1, QueueParts, LineParts, HistoryFields DEF Mapped
  <2>3. CASE InQueue(image) # {}
    <3>1. PICK i \in DOMAIN boxQueue : boxQueue[i].objectId = image.objectId
      BY <2>3 DEF InQueue
    <3>2. i \in InQueue(image) /\ Knows(boxQueue[i], image)
      BY <2>1, <3>1 DEF InQueue, Filed, Knows
    <3>3. QED BY <2>3, <3>2 DEF IsKnown
  <2>4. CASE InQueue(image) = {}
    <3>1. ~\E i \in DOMAIN line : line[i] = image.box
      <4>1. SUFFICES ASSUME NEW i \in DOMAIN line, line[i] = image.box PROVE FALSE
        OBVIOUS
      <4>2. line[i] = history.shaped - Len(line) + i
        BY DEF LineInv
      <4>3. PICK k \in DOMAIN boxQueue : k = Len(line) + 1 - i
        BY <2>2
      <4>4. boxQueue[k].objectId = history.shaped + 1 - k
        BY DEF QueueInv
      <4>5. boxQueue[k].objectId = image.box
        BY <2>2, <4>1, <4>2, <4>3, <4>4
      <4>6. QED BY <2>1, <2>4, <4>3, <4>5 DEF InQueue, Filed
    <3>2. image.box = station
      BY <1>2, <3>1
    <3>3. Knows(boxPoped, image)
      BY <2>1, <3>2 DEF Mapped, Filed, Knows
    <3>4. QED BY <2>4, <3>3 DEF IsKnown
  <2>5. QED BY <2>3, <2>4
<1>3. QED BY <1>1, <1>2 DEF DefectFindsBox

MappingInv == TypeOK /\ LineInv /\ QueueInv /\ AlignedInv /\ MappedInv

LEMMA MappingIsInvariant == Spec => []MappingInv
<1>1. Init => MappingInv
  <2>1. SUFFICES ASSUME Init PROVE AlignedInv /\ MappedInv
    BY TypeInit, LinesInit DEF MappingInv
  <2>2. history = HistoryInit /\ station = 0 /\ line = << >> /\ boxQueue = << >>
    BY <2>1 DEF Init
  <2>3. history.images = {}
    BY <2>2 DEF HistoryInit
  <2>4. QED BY <2>2, <2>3 DEF AlignedInv, MappedInv, Mapped
<1>2. MappingInv /\ [Next]_vars => MappingInv'
  BY TypeStep, LineStep, QueueStep, AlignedStep, MappedStep DEF MappingInv
<1>3. QED BY <1>1, <1>2, PTL DEF Spec

(* Without mishaps every image is reported for the box it shows. *)
THEOREM ImagesKeepTheirBox == Spec => []ImagesOfTheirBox
<1>1. MappingInv => ImagesOfTheirBox
  BY MappedFinds DEF MappingInv
<1>2. QED BY <1>1, MappingIsInvariant, PTL

(* Without mishaps a defect of a box that is still there is recorded in it. *)
THEOREM DefectsAreRecorded == Spec => []DefectFindsBox
<1>1. MappingInv => DefectFindsBox
  BY MappedFinds DEF MappingInv
<1>2. QED BY <1>1, MappingIsInvariant, PTL

-----------------------------------------------------------------------------
(* Counting: a record's result tells whether the NG results of its box have been
   counted.  The one no constructor sets may say so without it. *)
Marks(box) ==
  /\ box.objectId # Garbage => (box.result <=> box.objectId \notin history.ng)
  /\ box.objectId = Garbage /\ Garbage \in history.ng => ~box.result

NgInv ==
  /\ history.ng \subseteq {Garbage} \cup 1..history.shaped
  /\ \A i \in DOMAIN boxQueue : Marks(boxQueue[i])
  /\ Marks(boxPoped)
  /\ NgCountedOnce

LEMMA CountSteps ==
  ASSUME NEW S, IsFiniteSet(S), NEW o
  PROVE  /\ Cardinality(S \ {Garbage}) \in Nat /\ Cardinality(S \cap {Garbage}) \in Nat
         /\ o \in S => S \cup {o} = S
         /\ o # Garbage /\ o \notin S =>
              /\ Cardinality((S \cup {o}) \ {Garbage}) = Cardinality(S \ {Garbage}) + 1
              /\ (S \cup {o}) \cap {Garbage} = S \cap {Garbage}
         /\ Garbage \notin S =>
              /\ Cardinality((S \cup {Garbage}) \ {Garbage}) = Cardinality(S \ {Garbage})
              /\ Cardinality((S \cup {Garbage}) \cap {Garbage}) = 1
              /\ Cardinality(S \cap {Garbage}) = 0
<1>1. /\ IsFiniteSet(S \ {Garbage}) /\ IsFiniteSet(S \cap {Garbage})
      /\ Cardinality(S \ {Garbage}) \in Nat /\ Cardinality(S \cap {Garbage}) \in Nat
  <2>1. S \ {Garbage} \subseteq S /\ S \cap {Garbage} \subseteq S
    OBVIOUS
  <2>2. IsFiniteSet(S \ {Garbage}) /\ IsFiniteSet(S \cap {Garbage})
    BY <2>1, FS_Subset
  <2>3. QED BY <2>2, FS_CardinalityType
<1>2. ASSUME o # Garbage, o \notin S
      PROVE  /\ Cardinality((S \cup {o}) \ {Garbage}) = Cardinality(S \ {Garbage}) + 1
             /\ (S \cup {o}) \cap {Garbage} = S \cap {Garbage}
  <2>1. (S \cup {o}) \ {Garbage} = (S \ {Garbage}) \cup {o} /\ o \notin S \ {Garbage}
    BY <1>2
  <2>2. Cardinality((S \ {Garbage}) \cup {o}) = Cardinality(S \ {Garbage}) + 1
    BY <1>1, <2>1, FS_AddElement
  <2>3. QED BY <1>2, <2>1, <2>2
<1>3. ASSUME Garbage \notin S
      PROVE  /\ Cardinality((S \cup {Garbage}) \ {Garbage}) = Cardinality(S \ {Garbage})
             /\ Cardinality((S \cup {Garbage}) \cap {Garbage}) = 1
             /\ Cardinality(S \cap {Garbage}) = 0
  <2>1. /\ (S \cup {Garbage}) \ {Garbage} = S \ {Garbage}
        /\ (S \cup {Garbage}) \cap {Garbage} = {Garbage} /\ S \cap {Garbage} = {}
    BY <1>3
  <2>2. Cardinality({Garbage}) = 1 /\ Cardinality({}) = 0
    BY FS_Singleton, FS_EmptySet
  <2>3. QED BY <2>1, <2>2
<1>4. o \in S => S \cup {o} = S
  OBVIOUS
<1>5. QED BY <1>1, <1>2, <1>3, <1>4

LEMMA NgIsFinite ==
  ASSUME TypeOK, NgInv
  PROVE  IsFiniteSet(history.ng)
<1>1. IsFiniteSet(1..history.shaped)
  <2>1. PICK n \in Int : n = history.shaped
    BY HistoryFields
  <2>2. IsFiniteSet(1..n)
    BY FS_Interval
  <2>3. QED BY <2>1, <2>2
<1>2. IsFiniteSet((1..history.shaped) \cup {Garbage})
  BY <1>1, FS_AddElement
<1>3. history.ng \subseteq (1..history.shaped) \cup {Garbage}
  BY DEF NgInv
<1>4. QED BY <1>2, <1>3, FS_Subset

LEMMA CountedAgain ==
  ASSUME TypeOK, NgInv, NEW box \in Box, Marks(box), CountNg(box),
         history'.ng = history.ng \cup {box.objectId}
  PROVE  NgCountedOnce'
<1>1. counts.ng \in Nat /\ counts'.ng = IF box.result THEN counts.ng + 1 ELSE counts.ng
  <2>1. counts \in [total : Nat, ng : Nat]
    BY DEF TypeOK
  <2>2. QED BY <2>1 DEF CountNg
<1>2. PICK S : S = history.ng
  OBVIOUS
<1>3. PICK o : o = box.objectId
  OBVIOUS
<1>4. PICK c \in Nat : c = Cardinality(S \ {Garbage})
  BY <1>2, NgIsFinite, CountSteps
<1>5. PICK d \in Nat : d = Cardinality(S \cap {Garbage})
  BY <1>2, NgIsFinite, CountSteps
<1>6. counts.ng - c \in 0..d
  BY <1>2, <1>4, <1>5 DEF NgInv, NgCountedOnce
<1>7. CASE o \in S
  <2>1. ~box.result /\ history'.ng = S
    BY <1>2, <1>3, <1>7 DEF Marks
  <2>2. counts'.ng = counts.ng
    BY <1>1, <2>1
  <2>3. QED BY <1>4, <1>5, <1>6, <2>1, <2>2 DEF NgCountedOnce
<1>8. CASE o \notin S /\ o # Garbage
  <2>1. box.result
    BY <1>2, <1>3, <1>8 DEF Marks
  <2>2. /\ Cardinality((S \cup {o}) \ {Garbage}) = c + 1
        /\ Cardinality((S \cup {o}) \cap {Garbage}) = d
    BY <1>2, <1>4, <1>5, <1>8, NgIsFinite, CountSteps
  <2>3. counts'.ng - (c + 1) \in 0..d
    BY <1>1, <1>6, <2>1
  <2>4. QED BY <1>2, <1>3, <2>2, <2>3 DEF NgCountedOnce
<1>9. CASE o \notin S /\ o = Garbage
  <2>1. /\ Cardinality((S \cup {o}) \ {Garbage}) = c
        /\ Cardinality((S \cup {o}) \cap {Garbage}) = 1 /\ d = 0
    BY <1>2, <1>4, <1>5, <1>9, NgIsFinite, CountSteps
  <2>2. counts'.ng - c \in 0..1
    BY <1>1, <1>6, <2>1
  <2>3. QED BY <1>2, <1>3, <2>1, <2>2 DEF NgCountedOnce
<1>10. QED BY <1>7, <1>8, <1>9

(* Which objects the records of the queue and the one taken last are of. *)
LEMMA RecordIds ==
  ASSUME TypeOK, QueueInv
  PROVE  /\ \A i \in DOMAIN boxQueue :
              /\ boxQueue[i].objectId \in 1..history.shaped
              /\ boxQueue[i].objectId # Garbage /\ boxQueue[i].objectId # boxPoped.objectId
              /\ \A k \in DOMAIN boxQueue :
                   boxQueue[i].objectId = boxQueue[k].objectId => i = k
         /\ boxPoped.objectId \in {Garbage} \cup 1..history.shaped
<1>1. /\ Len(boxQueue) \in Nat /\ DOMAIN boxQueue = 1..Len(boxQueue) /\ history.shaped \in Nat
      /\ Len(boxQueue) <= history.shaped
  BY QueueParts, HistoryFields DEF QueueInv
<1>2. boxPoped.objectId # Garbage =>
        boxPoped.objectId \in Nat \ {0} /\ boxPoped.objectId <= history.shaped - Len(boxQueue)
  <2>1. boxPoped.objectId \in ObjectIds
    BY DEF TypeOK, Box
  <2>2. QED BY <2>1, ConstantsOK DEF QueueInv, ObjectIds, Boxes
<1>3. ASSUME NEW i \in DOMAIN boxQueue
      PROVE  /\ boxQueue[i].objectId \in 1..history.shaped
             /\ boxQueue[i].objectId # Garbage /\ boxQueue[i].objectId # boxPoped.objectId
             /\ \A k \in DOMAIN boxQueue : boxQueue[i].objectId = boxQueue[k].objectId => i = k
  <2>1. \A k \in DOMAIN boxQueue : boxQueue[k].objectId = history.shaped + 1 - k
    BY DEF QueueInv
  <2>2. boxQueue[i].objectId \in 1..history.shaped
    BY <1>1, <2>1
  <2>3. boxQueue[i].objectId # Garbage
    BY <2>2, ConstantsOK
  <2>4. boxQueue[i].objectId # boxPoped.objectId
    BY <1>1, <1>2, <2>1, <2>3
  <2>5. \A k \in DOMAIN boxQueue : boxQueue[i].objectId = boxQueue[k].objectId => i = k
    BY <1>1, <2>1
  <2>6. QED BY <2>2, <2>3, <2>4, <2>5
<1>4. boxPoped.objectId \in {Garbage} \cup 1..history.shaped
  BY <1>1, <1>2
<1>5. QED BY <1>3, <1>4

LEMMA NgMarked == TypeOK /\ QueueInv /\ NgInv /\ Marked => NgInv'
<1> SUFFICES ASSUME TypeOK, QueueInv, NgInv, Marked PROVE NgInv'
  OBVIOUS
<1>1. PICK image \in history.images : NgInQueue(image) \/ NgInPoped(image)
  BY DEF Marked
<1>2. PICK o : o = image.objectId
  OBVIOUS
<1>3. Recorded(image) /\ history'.shaped = history.shaped /\ IdsKept
  BY <1>1, NgParts, MarkedParts
<1>4. history'.ng = history.ng \cup {o}
  BY <1>2, <1>3, HistoryFields DEF Recorded, History
<1>5. \A box \in Box : /\ WithNg(box).objectId = box.objectId /\ ~WithNg(box).result
                      /\ WithNg(box) \in Box
  BY DEF WithNg, Box
<1>6. boxQueue' \in Seq(Box) /\ DOMAIN boxQueue' = DOMAIN boxQueue /\ boxPoped \in Box
  <2>1. boxQueue' \in Seq(Box)
    BY TypeStep, <1>1 DEF TypeOK, Next
  <2>2. QED BY <1>3, <2>1, QueueParts, LenProperties DEF IdsKept, TypeOK
<1>7. CASE boxPoped' = boxPoped /\ \E i \in DOMAIN boxQueue :
             /\ boxQueue[i].objectId = image.objectId
             /\ boxQueue' = [boxQueue EXCEPT ![i] = WithNg(boxQueue[i])]
             /\ CountNg(boxQueue[i])
  <2>1. PICK i \in DOMAIN boxQueue :
          /\ boxQueue[i].objectId = o
          /\ boxQueue' = [boxQueue EXCEPT ![i] = WithNg(boxQueue[i])]
          /\ CountNg(boxQueue[i])
    BY <1>2, <1>7
  <2>2. boxQueue[i] \in Box /\ Marks(boxQueue[i])
    BY QueueParts DEF NgInv
  <2>3. /\ o \in 1..history.shaped /\ o # Garbage /\ o # boxPoped.objectId
        /\ \A k \in DOMAIN boxQueue : k # i => boxQueue[k].objectId # o
    BY <2>1, RecordIds
  <2>4. PICK box \in Box : box = WithNg(boxQueue[i])
    BY <1>5, <2>2
  <2>5. box.objectId = o /\ ~box.result
    BY <1>5, <2>1, <2>2, <2>4
  <2>6. \A k \in DOMAIN boxQueue : boxQueue'[k] = IF k = i THEN box ELSE boxQueue[k]
    BY <2>1, <2>4
  <2>7. boxPoped' = boxPoped
    BY <1>7
  <2>8. Marks(boxPoped)'
    BY <1>4, <2>3, <2>7 DEF NgInv, Marks
  <2>9. ASSUME NEW k \in DOMAIN boxQueue PROVE Marks(boxQueue[k])'
    <3>1. CASE k = i
      BY <1>4, <2>3, <2>5, <2>6, <3>1 DEF Marks
    <3>2. CASE k # i
      <4>1. Marks(boxQueue[k]) /\ boxQueue'[k] = boxQueue[k] /\ boxQueue[k].objectId # o
        BY <2>3, <2>6, <3>2 DEF NgInv
      <4>2. QED BY <1>4, <2>3, <4>1 DEF Marks
    <3>3. QED BY <3>1, <3>2
  <2>10. NgCountedOnce'
    BY <1>4, <2>1, <2>2, CountedAgain
  <2>11. QED BY <1>3, <1>4, <1>6, <2>3, <2>8, <2>9, <2>10 DEF NgInv
<1>8. CASE /\ boxQueue' = boxQueue /\ boxPoped.objectId = image.objectId
           /\ \A i \in DOMAIN boxQueue : boxQueue[i].objectId # image.objectId
           /\ boxPoped' = WithNg(boxPoped) /\ CountNg(boxPoped)
  <2>1. boxPoped'.objectId = o /\ ~boxPoped'.result /\ Marks(boxPoped) /\ boxPoped.objectId = o
    BY <1>2, <1>5, <1>6, <1>8 DEF NgInv
  <2>2. Marks(boxPoped)'
    BY <1>4, <2>1 DEF Marks
  <2>3. ASSUME NEW k \in DOMAIN boxQueue PROVE Marks(boxQueue[k])'
    <3>1. /\ Marks(boxQueue[k]) /\ boxQueue'[k] = boxQueue[k] /\ boxQueue[k].objectId # o
          /\ boxQueue[k].objectId # Garbage
      BY <1>2, <1>8, RecordIds DEF NgInv
    <3>2. QED BY <1>4, <3>1 DEF Marks
  <2>4. NgCountedOnce'
    BY <1>4, <1>6, <1>8, <2>1, CountedAgain
  <2>5. o \in {Garbage} \cup 1..history.shaped
    BY <2>1, RecordIds
  <2>6. QED BY <1>3, <1>4, <1>6, <2>2, <2>3, <2>4, <2>5 DEF NgInv
<1>9. QED BY <1>1, <1>7, <1>8, NgParts

LEMMA NgStep == TypeOK /\ QueueInv /\ NgInv /\ [Next]_vars => NgInv'
<1> SUFFICES ASSUME TypeOK, QueueInv, NgInv, [Next]_vars PROVE NgInv'
  OBVIOUS
<1>1. CASE Shape
  <2>1. /\ history'.shaped = history.shaped + 1 /\ history'.ng = history.ng
        /\ counts'.ng = counts.ng /\ boxPoped' = boxPoped
        /\ boxQueue' = Enqueued(ShapedBox) /\ ShapedBox \in Box
    BY <1>1, ShapeParts, ShapeHistory
  <2>2. /\ boxQueue'[1] = ShapedBox
        /\ \A i \in DOMAIN boxQueue' : i # 1 =>
             i - 1 \in DOMAIN boxQueue /\ boxQueue'[i] = boxQueue[i - 1]
    BY <2>1, EnqueuedParts
  <2>3. /\ history.shaped \in Nat /\ history.shaped + 1 \notin history.ng
        /\ history.shaped + 1 # Garbage
        /\ history'.ng \subseteq {Garbage} \cup 1..history'.shaped
    BY <2>1, HistoryFields, ConstantsOK DEF NgInv
  <2>4. ASSUME NEW i \in DOMAIN boxQueue' PROVE Marks(boxQueue[i])'
    <3>1. CASE i = 1
      <4>1. ShapedBox.objectId = history.shaped + 1 /\ ShapedBox.result
        BY DEF ShapedBox
      <4>2. QED BY <2>1, <2>2, <2>3, <3>1, <4>1 DEF Marks
    <3>2. CASE i # 1
      <4>1. PICK box \in Box : box = boxQueue[i - 1] /\ Marks(box) /\ boxQueue'[i] = box
        BY <2>2, <2>4, <3>2, QueueParts DEF NgInv
      <4>2. QED BY <2>1, <4>1 DEF Marks
    <3>3. QED BY <3>1, <3>2
  <2>5. Marks(boxPoped)' /\ NgCountedOnce'
    BY <2>1 DEF NgInv, Marks, NgCountedOnce
  <2>6. QED BY <2>3, <2>4, <2>5 DEF NgInv
<1>2. CASE Quiet
  <2>1. /\ history'.shaped = history.shaped /\ history'.ng = history.ng /\ counts' = counts
    BY <1>2 DEF Quiet
  <2>2. boxQueue' \in Seq(Box)
    BY TypeStep DEF TypeOK
  <2>3. NgCountedOnce' /\ history'.ng \subseteq {Garbage} \cup 1..history'.shaped
    BY <2>1 DEF NgInv, NgCountedOnce
  <2>4. CASE IdsKept /\ ResultsKept
    <3>1. DOMAIN boxQueue' = DOMAIN boxQueue
      BY <2>2, <2>4, QueueParts, LenProperties DEF IdsKept
    <3>2. Marks(boxPoped)'
      BY <2>1, <2>4 DEF NgInv, Marks, IdsKept, ResultsKept
    <3>3. ASSUME NEW i \in DOMAIN boxQueue PROVE Marks(boxQueue[i])'
      <4>1. Marks(boxQueue[i])
        BY DEF NgInv
      <4>2. QED BY <2>1, <2>4, <4>1 DEF Marks, IdsKept, ResultsKept
    <3>4. QED BY <2>3, <3>1, <3>2, <3>3 DEF NgInv
  <2>5. CASE OldestTaken
    <3>1. /\ boxQueue # << >> /\ boxQueue' = Shortened
          /\ boxPoped'.objectId = Oldest.objectId /\ boxPoped'.result = Oldest.result
      BY <2>5 DEF OldestTaken, MayDequeue
    <3>2. /\ Len(boxQueue) \in DOMAIN boxQueue /\ Oldest = boxQueue[Len(boxQueue)]
          /\ \A i \in DOMAIN boxQueue' : i \in DOMAIN boxQueue /\ boxQueue'[i] = boxQueue[i]
      BY <3>1, ShortenedParts
    <3>3. Marks(Oldest)
      BY <3>2 DEF NgInv
    <3>4. Marks(boxPoped)'
      BY <2>1, <3>1, <3>3 DEF Marks
    <3>5. ASSUME NEW i \in DOMAIN boxQueue' PROVE Marks(boxQueue[i])'
      <4>1. Marks(boxQueue[i]) /\ boxQueue'[i] = boxQueue[i]
        BY <3>2, <3>5 DEF NgInv
      <4>2. QED BY <2>1, <4>1 DEF Marks
    <3>6. QED BY <2>3, <3>4, <3>5 DEF NgInv
  <2>6. QED BY <1>2, <2>4, <2>5 DEF Quiet
<1>3. CASE Marked
  BY <1>3, NgMarked
<1>4. QED BY <1>1, <1>2, <1>3, StepKinds

(* A defective box is counted once, however many of its images are NG. *)
THEOREM NgIsCountedOnce == Spec => []NgCountedOnce
<1> DEFINE Inv == TypeOK /\ QueueInv /\ NgInv
<1>1. Init => Inv
  <2>1. SUFFICES ASSUME Init PROVE NgInv
    BY TypeInit, LinesInit
  <2>2. history = HistoryInit /\ boxQueue = << >> /\ counts = [total |-> 0, ng |-> 0]
    BY <2>1 DEF Init
  <2>3. history.ng = {} /\ counts.ng = 0
    BY <2>2 DEF HistoryInit
  <2>4. boxPoped.objectId = Garbage
    BY <2>1 DEF Init
  <2>5. NgCountedOnce
    <3>1. {} \ {Garbage} = {} /\ {} \cap {Garbage} = {} /\ Cardinality({}) = 0
      BY FS_EmptySet
    <3>2. QED BY <2>3, <3>1 DEF NgCountedOnce
  <2>6. QED BY <2>2, <2>3, <2>4, <2>5 DEF NgInv, Marks
<1>2. Inv /\ [Next]_vars => Inv'
  BY TypeStep, QueueStep, NgStep
<1>3. Inv => NgCountedOnce
  BY DEF NgInv
<1>4. QED BY <1>1, <1>2, <1>3, PTL DEF Spec

=============================================================================
