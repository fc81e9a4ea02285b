------------------------ MODULE ImageMultiplerProofs ------------------------
(***************************************************************************)
(* The results of an image: merging, counting and reporting, for any       *)
(* names, timeouts, clocks and numbers of images.                          *)
(***************************************************************************)
EXTENDS ImageMultipler, FiniteSetTheorems, SequenceTheorems, TLAPS

-----------------------------------------------------------------------------
(* The inductive invariants. *)

(* What holds of a record, open or reported. *)
WellMerged(rec) ==
  rec.result = "NG" <=> \E j \in DOMAIN rec.parts : rec.parts[j].result = "NG"

MergeInv ==
  /\ CountsMatch
  /\ \A id \in DOMAIN imageResultRecord : WellMerged(imageResultRecord[id])
  /\ \A k \in DOMAIN reports : WellMerged(reports[k].record)

(* A running getStatistic has read no more than there still is. *)
ReadIsCounted == statistic # << >> => statistic[2] <= detectNg

StatisticInv == StatisticsNeverExceed /\ ReadIsCounted

(* If names are used once, a name stands for one frame, wherever it occurs. *)
Named(fo, id, frame) == id \in history.names /\ frame = fo[id]

RecordNamed(fo, id, rec) ==
  Named(fo, id, rec.frame) /\ \A j \in DOMAIN rec.parts : Named(fo, id, rec.parts[j].frame)

NamedBy(fo) ==
  /\ \A a, b \in history.names : fo[a] = fo[b] => a = b
  /\ \A a \in history.names : fo[a] < history.frames
  /\ emitting # << >> => Named(fo, emitting.imageId, emitting.frame)
  /\ \A w \in working : Named(fo, w.imageId, w.frame)
  /\ \A i \in DOMAIN mailbox : Named(fo, mailbox[i].body.imageId, mailbox[i].body.frame)
  /\ \A id \in DOMAIN imageResultRecord : RecordNamed(fo, id, imageResultRecord[id])
  /\ \A k \in DOMAIN reports : RecordNamed(fo, reports[k].imageId, reports[k].record)

NamesInv == \E fo \in [ImageIds -> Nat] : NamedBy(fo)

(* Is event e the image named a, posted to the multipler (k), or the result of
   algorithm k for it? *)
EventOf(e, a, k) ==
  /\ e.body.imageId = a
  /\ IF k = "Multipler" THEN e.type = "data"
     ELSE e.type = "result" /\ e.body.own /\ e.body.alg = k

Queued(a, k) == \E i \in DOMAIN mailbox : EventOf(mailbox[i], a, k)

QueuedOnce(a, k) ==
  \A i, j \in DOMAIN mailbox : EventOf(mailbox[i], a, k) /\ EventOf(mailbox[j], a, k) => i = j

(* Where the image named a is on its way through the multipler. *)
Emitting(a) == emitting # << >> /\ emitting.imageId = a
Unposted(a) == Emitting(a) /\ "Multipler" \in emitting.todo
Posted(a) == Queued(a, "Multipler")
Open(a) == a \in DOMAIN imageResultRecord
Reported(a) == \E k \in DOMAIN reports : reports[k].imageId = a

ReportedOnce(a) ==
  \A j, k \in DOMAIN reports : reports[j].imageId = a /\ reports[k].imageId = a => j = k

(* It is at one of these places at most, and there once. *)
OnePlace(a) ==
  /\ Unposted(a) => ~Posted(a) /\ ~Open(a) /\ ~Reported(a)
  /\ Posted(a) => ~Open(a) /\ ~Reported(a)
  /\ Open(a) => ~Reported(a)
  /\ QueuedOnce(a, "Multipler")
  /\ ReportedOnce(a)

(* The image comes before whatever the algorithms do with it. *)
DataBefore(a) ==
  \A i \in DOMAIN mailbox : \A g \in Algorithms : EventOf(mailbox[i], a, g) =>
    \/ Open(a) \/ Reported(a)
    \/ \E j \in DOMAIN mailbox : j < i /\ EventOf(mailbox[j], a, "Multipler")

DataFirst(a) ==
  /\ Emitting(a) => Unposted(a) \/ Posted(a) \/ Open(a) \/ Reported(a)
  /\ \A w \in working : w.own /\ w.imageId = a => Posted(a) \/ Open(a) \/ Reported(a)
  /\ DataBefore(a)

(* Where the inspection of image a by algorithm g is. *)
ToDo(a, g) == Emitting(a) /\ g \in emitting.todo
Working(a, g) == \E w \in working : w.own /\ w.imageId = a /\ w.alg = g
Answered(a, g) == Queued(a, g)
Merged(a, g) ==
  Open(a) /\ \E j \in DOMAIN imageResultRecord[a].parts : imageResultRecord[a].parts[j].alg = g

MergedOnce(a, g) ==
  Open(a) => \A i, j \in DOMAIN imageResultRecord[a].parts :
    imageResultRecord[a].parts[i].alg = g /\ imageResultRecord[a].parts[j].alg = g => i = j

(* It is at one of these places at most, and there once. *)
AnswersOnce(a, g) ==
  /\ ToDo(a, g) => ~Working(a, g) /\ ~Answered(a, g) /\ ~Merged(a, g)
  /\ Working(a, g) => ~Answered(a, g) /\ ~Merged(a, g)
  /\ Answered(a, g) => ~Merged(a, g)
  /\ QueuedOnce(a, g)
  /\ MergedOnce(a, g)

PlaceInv ==
  /\ NamesInv
  /\ \A a \in ImageIds : OnePlace(a) /\ DataFirst(a)

AnswerInv ==
  \A a \in ImageIds : \A g \in Algorithms : AnswersOnce(a, g)

(* If no compensation lies in the future, no image does. *)
NothingFromTheFuture ==
  /\ emitting # << >> => emitting.gen <= now
  /\ \A i \in DOMAIN mailbox : mailbox[i].type = "data" => mailbox[i].body.gen <= now
  /\ \A id \in DOMAIN imageResultRecord : imageResultRecord[id].gen <= now

-----------------------------------------------------------------------------
(* Types. *)

LEMMA NameImageType ==
  ASSUME TypeOK, NEW id \in ImageIds, NameImage(id)
  PROVE  /\ history' \in History /\ history.frames \in Nat
         /\ history'.frames = history.frames + 1
         /\ history'.names = history.names \cup {id}
         /\ history'.reportedNg = history.reportedNg
<1> DEFINE h == [history EXCEPT !.frames = @ + 1]
<1>1. history \in History
  BY DEF TypeOK
<1>2. /\ h \in History /\ history.frames \in Nat /\ h.frames = history.frames + 1
      /\ h.names = history.names /\ h.reportedNg = history.reportedNg
  BY <1>1 DEF History
<1>3. history' = [h EXCEPT !.names = @ \cup {id}]
  BY <1>1 DEF NameImage, History
<1> HIDE DEF h
<1> QED BY <1>2, <1>3 DEF History

LEMMA MergeType ==
  ASSUME NEW rec \in Record, NEW ias \in IasResult
  PROVE  /\ Merge(rec, ias) \in Record
         /\ Merge(rec, ias).parts = Append(rec.parts, ias)
         /\ Merge(rec, ias).frame = rec.frame /\ Merge(rec, ias).gen = rec.gen
         /\ Merge(rec, ias).result
              = IF rec.result = "INIT" \/ ias.result = "NG" THEN ias.result ELSE rec.result
<1> DEFINE r == IF rec.result = "INIT" \/ ias.result = "NG" THEN ias.result ELSE rec.result
<1>1. r \in ImageResults /\ Append(rec.parts, ias) \in Seq(IasResult)
  BY DEF Record, IasResult
<1>2. Merge(rec, ias) = [[rec EXCEPT !.result = r] EXCEPT !.parts = Append(@, ias)]
  BY DEF Merge
<1> HIDE DEF r
<1>3. [rec EXCEPT !.result = r] \in Record
  BY <1>1 DEF Record
<1> QED BY <1>1, <1>2, <1>3 DEF r, Record

(* The event that the multipler's thread takes. *)
LEMMA TakeType ==
  ASSUME TypeOK, NEW t \in {"data", "result"}, Take(t)
  PROVE  /\ mailbox' \in Seq(Event)
         /\ t = "data" => Head(mailbox).body \in Image
         /\ t = "result" => Head(mailbox).body \in IasResult
<1>1. mailbox \in Seq(Event) /\ mailbox # << >>
  BY DEF TypeOK, Take
<1>2. Head(mailbox) \in Event /\ Tail(mailbox) \in Seq(Event)
  BY <1>1
<1> QED BY <1>2 DEF Take, Event

LEMMA ConcludeType ==
  ASSUME TypeOK, NEW id \in DOMAIN imageResultRecord, NEW rec \in Record,
         Conclude(id, rec)
  PROVE  /\ DOMAIN imageResultRecord' = DOMAIN imageResultRecord \ {id}
         /\ \A i \in DOMAIN imageResultRecord' : imageResultRecord'[i] = imageResultRecord[i]
         /\ DOMAIN imageIasIdRecord' = DOMAIN imageIasIdRecord \ {id}
         /\ \A i \in DOMAIN imageIasIdRecord' : imageIasIdRecord'[i] = imageIasIdRecord[i]
         /\ DOMAIN imageResultRecord' \subseteq ImageIds
         /\ \A i \in DOMAIN imageResultRecord' : imageResultRecord'[i] \in Record
         /\ DOMAIN imageIasIdRecord' \subseteq ImageIds
         /\ \A i \in DOMAIN imageIasIdRecord' : imageIasIdRecord'[i] \in Nat
         /\ detectNg' \in Nat /\ detectTotal' \in Nat
         /\ reports' \in Seq(Report)
<1>1. imageResultRecord' = Without(imageResultRecord, id)
      /\ imageIasIdRecord' = Without(imageIasIdRecord, id)
  BY DEF Conclude
<1> DEFINE r == [imageId |-> id, record |-> rec, age |-> now - rec.gen,
                 emitted |-> runType = "Infer"]
<1>2. r \in Report
  <2>1. id \in ImageIds /\ now - rec.gen \in Int
    BY DEF TypeOK, Record
  <2> QED BY <2>1 DEF Report
<1>3. reports' = Append(reports, r)
  BY DEF Conclude
<1> HIDE DEF r
<1>4. reports' \in Seq(Report)
  BY <1>2, <1>3 DEF TypeOK
<1>5. detectNg' \in Nat /\ detectTotal' \in Nat
  BY DEF Conclude, TypeOK
<1> QED BY <1>1, <1>4, <1>5 DEF Without, TypeOK

LEMMA ClearType ==
  ASSUME TypeOK, ClearStatistic
  PROVE  /\ history' \in History
         /\ history'.reportedNg = history.reportedNg + statistic[2]
         /\ history.reportedNg \in Nat /\ statistic[2] \in Nat
<1> DEFINE h1 == [history EXCEPT !.reportedTotal = @ + statistic[1]]
           h2 == [h1 EXCEPT !.reportedNg = @ + statistic[2]]
<1>1. history \in History /\ statistic[1] \in Nat /\ statistic[2] \in Nat
  BY DEF ClearStatistic, TypeOK
<1>2. /\ h1 \in History /\ h1.reportedNg = history.reportedNg
      /\ history.reportedNg \in Nat
  BY <1>1 DEF History
<1>3. history' = [h2 EXCEPT !.reports = @ + 1]
  BY <1>1 DEF ClearStatistic, History
<1> HIDE DEF h1
<1>4. h2 \in History /\ h2.reportedNg = history.reportedNg + statistic[2]
  BY <1>1, <1>2 DEF History
<1> HIDE DEF h2
<1> QED BY <1>1, <1>2, <1>3, <1>4 DEF History

LEMMA TypeInit == Init => TypeOK
<1> SUFFICES ASSUME Init PROVE TypeOK
  OBVIOUS
<1>1. DOMAIN imageResultRecord = {} /\ DOMAIN imageIasIdRecord = {}
  BY DEF Init
<1>2. mailbox \in Seq(Event) /\ reports \in Seq(Report)
  BY DEF Init
<1>3. history \in History /\ now \in Nat
  BY ConstantsOK DEF Init, HistoryInit, History
<1> QED BY <1>1, <1>2, <1>3 DEF Init, TypeOK, RunTypes

LEMMA TypeStep == TypeOK /\ [Next]_vars => TypeOK'
<1> SUFFICES ASSUME TypeOK, [Next]_vars PROVE TypeOK'
  OBVIOUS
<1> USE DEF cameraVars, recordVars, statVars
<1>1. CASE Tick
  BY <1>1 DEF Tick, TypeOK
<1>2. CASE SetRunType
  <2>1. history' \in History /\ runType' \in RunTypes
    <3>1. history \in History
      BY DEF TypeOK
    <3>2. history' = [history EXCEPT !.switches = @ + 1]
      BY <1>2 DEF SetRunType
    <3>3. history' \in History
      BY <3>1, <3>2 DEF History
    <3> QED BY <1>2, <3>3 DEF SetRunType, RunTypes
  <2>2. UNCHANGED <<now, emitting, working, recordVars, mailbox, statVars, reports>>
    BY <1>2 DEF SetRunType
  <2> QED BY <2>1, <2>2 DEF TypeOK
<1>3. ASSUME NEW id \in ImageIds, TakeImage(id) PROVE TypeOK'
  <2>1. history' \in History /\ history.frames \in Nat
    BY <1>3, NameImageType DEF TakeImage
  <2>2. emitting' \in Emission
    BY <1>3, <2>1, ConstantsOK DEF TakeImage, TypeOK, Emission, Subscribers
  <2> QED BY <1>3, <2>1, <2>2 DEF TakeImage, TypeOK
<1>4. ASSUME NEW s \in Subscribers, EmitImageData(s) PROVE TypeOK'
  <2>1. emitting \in Emission /\ s \in emitting.todo
    BY <1>4 DEF EmitImageData, MayServe, TypeOK
  <2>2. emitting' = << >> \/ emitting' \in Emission
    BY <1>4, <2>1 DEF EmitImageData, Emission
  <2> DEFINE e == [type |-> "data", body |-> [frame |-> emitting.frame,
                     imageId |-> emitting.imageId, gen |-> emitting.gen]]
             w == [frame |-> emitting.frame, imageId |-> emitting.imageId,
                   own |-> TRUE, alg |-> s]
  <2>3. e \in Event
    BY <2>1 DEF Emission, Event, Image
  <2>4. s # "Multipler" => w \in Work
    BY <2>1 DEF Emission, Work, Subscribers
  <2>5. \/ mailbox' = Append(mailbox, e) /\ working' = working
        \/ s # "Multipler" /\ working' = working \cup {w} /\ mailbox' = mailbox
    BY <1>4 DEF EmitImageData
  <2> HIDE DEF e, w
  <2>6. mailbox \in Seq(Event) /\ working \subseteq Work
    BY DEF TypeOK
  <2>7. mailbox' \in Seq(Event) /\ working' \subseteq Work
    BY <2>3, <2>4, <2>5, <2>6
  <2> QED BY <1>4, <2>2, <2>7 DEF EmitImageData, TypeOK
<1>5. ASSUME NEW id \in ImageIds, NEW gs \in SUBSET AIChannels, OtherImage(id, gs)
      PROVE  TypeOK'
  <2>1. history' \in History /\ history.frames \in Nat
    BY <1>5, NameImageType DEF OtherImage
  <2>2. \A g \in gs :
          [frame |-> history.frames, imageId |-> id, own |-> FALSE, alg |-> g] \in Work
    BY <2>1 DEF Work, AIChannels
  <2>3. working' \subseteq Work
    BY <1>5, <2>2 DEF OtherImage, TypeOK
  <2> QED BY <1>5, <2>1, <2>3 DEF OtherImage, TypeOK
<1>6. ASSUME NEW w \in working, NEW r \in ImageResults, Infer(w, r) PROVE TypeOK'
  <2> DEFINE e == [type |-> "result",
                   body |-> [frame |-> w.frame, imageId |-> w.imageId, own |-> w.own,
                             alg |-> w.alg, result |-> r]]
  <2>1. w \in Work
    BY DEF TypeOK
  <2>2. e \in Event
    BY <2>1 DEF Event, IasResult, Work
  <2>3. mailbox' = Append(mailbox, e)
    BY <1>6 DEF Infer
  <2> HIDE DEF e
  <2>4. mailbox' \in Seq(Event) /\ working' \subseteq Work
    BY <1>6, <2>2, <2>3 DEF TypeOK, Infer
  <2> QED BY <1>6, <2>4 DEF Infer, TypeOK
<1>7. ASSUME NEW w \in working, InferSkips(w) PROVE TypeOK'
  BY <1>7 DEF InferSkips, TypeOK
<1>8. CASE OnImageData
  <2> DEFINE image == Head(mailbox).body
  <2>1. image \in Image /\ mailbox' \in Seq(Event)
    BY <1>8, TakeType DEF OnImageData
  <2>2. NewRecord(image) \in Record /\ image.imageId \in ImageIds
    BY <2>1 DEF NewRecord, Record, Image, ImageResults
  <2>3. /\ detectTotal' \in Nat /\ DOMAIN imageResultRecord' \subseteq ImageIds
        /\ \A id \in DOMAIN imageResultRecord' : imageResultRecord'[id] \in Record
    <3> DEFINE r == NewRecord(image)
    <3>1. \/ UNCHANGED <<imageResultRecord, detectTotal>>
          \/ /\ detectTotal' = detectTotal + 1
             /\ imageResultRecord' = With(imageResultRecord, image.imageId, r)
      BY <1>8 DEF OnImageData
    <3>2. r \in Record
      BY <2>2
    <3> HIDE DEF r, image
    <3> QED BY <2>2, <3>1, <3>2 DEF With, TypeOK
  <2> QED BY <1>8, <2>1, <2>3 DEF OnImageData, Take, TypeOK
<1>9. CASE OnResultDropped
  BY <1>9, TakeType DEF OnResultDropped, Take, TypeOK
<1>10. CASE OnResultMerged
  <2> DEFINE ias == Head(mailbox).body
             id == ias.imageId
  <2>1. ias \in IasResult /\ mailbox' \in Seq(Event)
    BY <1>10, TakeType DEF OnResultMerged
  <2>2. id \in DOMAIN imageResultRecord
    BY <1>10 DEF OnResultMerged, HasRecord
  <2>3. Merge(imageResultRecord[id], ias) \in Record
    BY <2>1, <2>2, MergeType DEF TypeOK
  <2>4. Received(id) \in Nat
    BY DEF Received, TypeOK
  <2>5. imageResultRecord' = [imageResultRecord EXCEPT ![id] = Merge(@, ias)]
        /\ imageIasIdRecord' = With(imageIasIdRecord, id, Received(id) + 1)
    BY <1>10 DEF OnResultMerged
  <2> HIDE DEF ias, id
  <2>6. /\ DOMAIN imageResultRecord' \subseteq ImageIds
        /\ \A i \in DOMAIN imageResultRecord' : imageResultRecord'[i] \in Record
    BY <2>2, <2>3, <2>5 DEF TypeOK
  <2>7. /\ DOMAIN imageIasIdRecord' \subseteq ImageIds
        /\ \A i \in DOMAIN imageIasIdRecord' : imageIasIdRecord'[i] \in Nat
    BY <2>2, <2>4, <2>5 DEF TypeOK, With
  <2> QED BY <1>10, <2>1, <2>6, <2>7 DEF OnResultMerged, Take, TypeOK
<1>11. CASE OnResultConcludes
  <2> DEFINE ias == Head(mailbox).body
             rec == Merge(imageResultRecord[ias.imageId], ias)
  <2>1. ias \in IasResult /\ mailbox' \in Seq(Event)
    BY <1>11, TakeType DEF OnResultConcludes
  <2>2. ias.imageId \in DOMAIN imageResultRecord /\ Conclude(ias.imageId, rec)
    BY <1>11 DEF OnResultConcludes, HasRecord
  <2>3. rec \in Record
    BY <2>1, <2>2, MergeType DEF TypeOK
  <2> HIDE DEF rec
  <2> QED BY <1>11, <2>1, <2>2, <2>3, ConcludeType DEF OnResultConcludes, Take, TypeOK
<1>12. CASE OnTimeout
  <2>1. PICK id \in DOMAIN imageResultRecord : Conclude(id, imageResultRecord[id])
    BY <1>12 DEF OnTimeout
  <2>2. imageResultRecord[id] \in Record
    BY DEF TypeOK
  <2> QED BY <1>12, <2>1, <2>2, ConcludeType DEF OnTimeout, TypeOK
<1>13. CASE GetStatistic
  BY <1>13 DEF GetStatistic, TypeOK
<1>14. CASE ClearStatistic
  <2>1. statistic[1] \in Nat /\ statistic[2] \in Nat
    BY <1>14 DEF ClearStatistic, TypeOK
  <2>2. history' \in History
    BY <1>14, ClearType
  <2> QED BY <1>14, <2>2 DEF ClearStatistic, TypeOK
<1>15. CASE UNCHANGED vars
  BY <1>15 DEF vars, TypeOK
<1> QED BY <1>1, <1>2, <1>3, <1>4, <1>5, <1>6, <1>7, <1>8, <1>9, <1>10, <1>11, <1>12,
          <1>13, <1>14, <1>15 DEF Next

(* Every variable keeps its type: records, queue, counters, reports. *)
THEOREM TypesStay == Spec => []TypeOK
  BY TypeInit, TypeStep, PTL DEF Spec

-----------------------------------------------------------------------------
(* Merging and counting. *)

(* A step that leaves records and reports alone. *)
LEMMA QuietMerge ==
  ASSUME MergeInv, UNCHANGED <<recordVars, reports>> PROVE MergeInv'
  BY DEF MergeInv, CountsMatch, Received, recordVars

LEMMA MergeKeeps ==
  ASSUME NEW rec \in Record, WellMerged(rec), NEW ias \in IasResult
  PROVE  WellMerged(Merge(rec, ias))
<1> DEFINE new == Merge(rec, ias)
<1>1. /\ new.parts = Append(rec.parts, ias) /\ rec.parts \in Seq(IasResult)
      /\ new.result = IF rec.result = "INIT" \/ ias.result = "NG" THEN ias.result ELSE rec.result
  <2>1. rec.parts \in Seq(IasResult)
    BY DEF Record
  <2> QED BY <2>1, MergeType
<1> HIDE DEF new
<1>2. /\ DOMAIN new.parts = 1..(Len(rec.parts) + 1) /\ DOMAIN rec.parts = 1..Len(rec.parts)
      /\ Len(rec.parts) \in Nat
      /\ new.parts[Len(rec.parts) + 1] = ias
      /\ \A j \in DOMAIN rec.parts : new.parts[j] = rec.parts[j]
  BY <1>1
<1>3. (\E j \in DOMAIN new.parts : new.parts[j].result = "NG")
        <=> ias.result = "NG" \/ \E j \in DOMAIN rec.parts : rec.parts[j].result = "NG"
  BY <1>2
<1>4. new.result = "NG" <=> \E j \in DOMAIN new.parts : new.parts[j].result = "NG"
  BY <1>1, <1>3 DEF WellMerged
<1>5. WellMerged(new)
  BY <1>4 DEF WellMerged
<1> QED BY <1>5 DEF new

LEMMA ConcludeKeeps ==
  ASSUME TypeOK, MergeInv, NEW id \in DOMAIN imageResultRecord, NEW rec \in Record,
         WellMerged(rec), Conclude(id, rec)
  PROVE  MergeInv'
<1>1. /\ DOMAIN imageResultRecord' = DOMAIN imageResultRecord \ {id}
      /\ \A i \in DOMAIN imageResultRecord' : imageResultRecord'[i] = imageResultRecord[i]
      /\ DOMAIN imageIasIdRecord' = DOMAIN imageIasIdRecord \ {id}
      /\ \A i \in DOMAIN imageIasIdRecord' : imageIasIdRecord'[i] = imageIasIdRecord[i]
  BY ConcludeType
<1>2. CountsMatch'
  BY <1>1 DEF CountsMatch, MergeInv, Received
<1>3. \A i \in DOMAIN imageResultRecord' : WellMerged(imageResultRecord'[i])
  BY <1>1 DEF MergeInv
<1>4. \A k \in DOMAIN reports' : WellMerged(reports'[k].record)
  <2> DEFINE r == [imageId |-> id, record |-> rec, age |-> now - rec.gen,
                   emitted |-> runType = "Infer"]
  <2>1. reports' = Append(reports, r) /\ reports \in Seq(Report) /\ r.record = rec
    BY DEF Conclude, TypeOK
  <2> HIDE DEF r
  <2>2. ASSUME NEW k \in DOMAIN reports' PROVE WellMerged(reports'[k].record)
    <3>1. CASE k = Len(reports) + 1
      BY <2>1, <3>1
    <3>2. CASE k # Len(reports) + 1
      <4>1. k \in DOMAIN reports /\ reports'[k] = reports[k]
        BY <2>1, <2>2, <3>2
      <4> QED BY <4>1 DEF MergeInv
    <3> QED BY <3>1, <3>2
  <2> QED BY <2>2
<1> QED BY <1>2, <1>3, <1>4 DEF MergeInv

LEMMA MergeStep ==
  ASSUME TypeOK, MergeInv, [Next]_vars PROVE MergeInv'
<1> USE DEF cameraVars, statVars
<1>1. CASE \/ Tick \/ SetRunType \/ (\E s \in Subscribers : EmitImageData(s))
           \/ OnResultDropped \/ GetStatistic \/ ClearStatistic \/ UNCHANGED vars
  BY <1>1, QuietMerge
     DEF Tick, SetRunType, EmitImageData, OnResultDropped, GetStatistic, ClearStatistic,
         vars, recordVars
<1>2. ASSUME NEW id \in ImageIds,
             TakeImage(id) \/ \E gs \in SUBSET AIChannels : OtherImage(id, gs)
      PROVE  MergeInv'
  BY <1>2, QuietMerge DEF TakeImage, OtherImage
<1>3. ASSUME NEW w \in working, InferSkips(w) \/ \E r \in ImageResults : Infer(w, r)
      PROVE  MergeInv'
  BY <1>3, QuietMerge DEF InferSkips, Infer
<1>4. CASE OnImageData
  <2> DEFINE image == Head(mailbox).body
             new == NewRecord(image)
  <2>1. \/ UNCHANGED imageResultRecord
        \/ /\ image.imageId \notin DOMAIN imageResultRecord
           /\ imageResultRecord' = With(imageResultRecord, image.imageId, new)
    BY <1>4 DEF OnImageData
  <2>2. UNCHANGED <<imageIasIdRecord, reports>>
    BY <1>4 DEF OnImageData
  <2>3. new.parts = << >> /\ WellMerged(new)
    BY DEF NewRecord, WellMerged
  <2> HIDE DEF new, image
  <2>4. CASE UNCHANGED imageResultRecord
    BY <2>2, <2>4, QuietMerge DEF recordVars
  <2>5. CASE /\ image.imageId \notin DOMAIN imageResultRecord
             /\ imageResultRecord' = With(imageResultRecord, image.imageId, new)
    <3>1. /\ DOMAIN imageResultRecord' = DOMAIN imageResultRecord \cup {image.imageId}
          /\ imageResultRecord'[image.imageId] = new
          /\ \A i \in DOMAIN imageResultRecord : imageResultRecord'[i] = imageResultRecord[i]
      BY <2>5 DEF With
    <3>2. image.imageId \notin DOMAIN imageIasIdRecord
      BY <2>5 DEF MergeInv, CountsMatch
    <3>3. CountsMatch'
      BY <2>2, <2>3, <3>1, <3>2 DEF MergeInv, CountsMatch, Received
    <3> QED BY <2>2, <2>3, <3>1, <3>3 DEF MergeInv
  <2> QED BY <2>1, <2>4, <2>5
<1>5. CASE OnResultMerged
  <2> DEFINE ias == Head(mailbox).body
             id == ias.imageId
  <2>1. ias \in IasResult /\ id \in DOMAIN imageResultRecord /\ ias.own
    BY <1>5, TakeType DEF OnResultMerged, HasRecord
  <2>2. imageResultRecord[id] \in Record
    BY <2>1 DEF TypeOK
  <2> DEFINE new == Merge(imageResultRecord[id], ias)
  <2>3. imageResultRecord' = [imageResultRecord EXCEPT ![id] = new]
        /\ imageIasIdRecord' = With(imageIasIdRecord, id, Received(id) + 1)
        /\ reports' = reports
    BY <1>5 DEF OnResultMerged
  <2>4. WellMerged(new)
    BY <2>1, <2>2, MergeKeeps DEF MergeInv
  <2>5. new.parts = Append(imageResultRecord[id].parts, ias)
        /\ imageResultRecord[id].parts \in Seq(IasResult)
    <3>1. imageResultRecord[id].parts \in Seq(IasResult)
      BY <2>2 DEF Record
    <3>2. \A x \in Record, y \in IasResult : Merge(x, y).parts = Append(x.parts, y)
      BY MergeType
    <3> QED BY <2>1, <2>2, <3>1, <3>2
  <2>6. Len(new.parts) = Len(imageResultRecord[id].parts) + 1
    BY <2>1, <2>5
  <2>7. Received(id) = Len(imageResultRecord[id].parts)
    BY <2>1 DEF MergeInv, CountsMatch
  <2> HIDE DEF new, ias, id
  <2>8. /\ DOMAIN imageResultRecord' = DOMAIN imageResultRecord
        /\ imageResultRecord'[id] = new
        /\ \A i \in DOMAIN imageResultRecord : i # id => imageResultRecord'[i] = imageResultRecord[i]
        /\ DOMAIN imageIasIdRecord' = DOMAIN imageIasIdRecord \cup {id}
        /\ imageIasIdRecord'[id] = Received(id) + 1
        /\ \A i \in DOMAIN imageIasIdRecord : i # id => imageIasIdRecord'[i] = imageIasIdRecord[i]
    BY <2>1, <2>3 DEF With
  <2>9. CountsMatch'
    <3>1. DOMAIN imageIasIdRecord' \subseteq DOMAIN imageResultRecord'
      BY <2>1, <2>8 DEF MergeInv, CountsMatch
    <3>2. ASSUME NEW i \in DOMAIN imageResultRecord', i = id
          PROVE  Received(i)' = Len(imageResultRecord'[i].parts)
      BY <2>6, <2>7, <2>8, <3>2 DEF Received
    <3>3. ASSUME NEW i \in DOMAIN imageResultRecord', i # id
          PROVE  Received(i)' = Len(imageResultRecord'[i].parts)
      BY <2>8, <3>3 DEF MergeInv, CountsMatch, Received
    <3> QED BY <3>1, <3>2, <3>3 DEF CountsMatch
  <2> QED BY <2>3, <2>4, <2>8, <2>9 DEF MergeInv
<1>6. CASE OnResultConcludes
  <2> DEFINE ias == Head(mailbox).body
             rec == Merge(imageResultRecord[ias.imageId], ias)
  <2>1. /\ ias \in IasResult /\ ias.own /\ ias.imageId \in DOMAIN imageResultRecord
        /\ Conclude(ias.imageId, rec)
    BY <1>6, TakeType DEF OnResultConcludes, HasRecord
  <2>2. imageResultRecord[ias.imageId] \in Record
    BY <2>1 DEF TypeOK
  <2>3. rec \in Record /\ WellMerged(rec)
    BY <2>1, <2>2, MergeType, MergeKeeps DEF MergeInv
  <2> HIDE DEF rec
  <2> QED BY <2>1, <2>3, ConcludeKeeps
<1>7. CASE OnTimeout
  <2>1. PICK id \in DOMAIN imageResultRecord : Conclude(id, imageResultRecord[id])
    BY <1>7 DEF OnTimeout
  <2>2. imageResultRecord[id] \in Record /\ WellMerged(imageResultRecord[id])
    BY DEF TypeOK, MergeInv
  <2> QED BY <2>1, <2>2, ConcludeKeeps
<1> QED BY <1>1, <1>2, <1>3, <1>4, <1>5, <1>6, <1>7 DEF Next

LEMMA MergeInvHolds == Spec => [](TypeOK /\ MergeInv)
<1>1. Init => MergeInv
  <2> SUFFICES ASSUME Init PROVE MergeInv
    OBVIOUS
  <2>1. DOMAIN imageResultRecord = {} /\ DOMAIN imageIasIdRecord = {} /\ DOMAIN reports = {}
    BY DEF Init
  <2> QED BY <2>1 DEF MergeInv, CountsMatch
<1> QED BY <1>1, TypeInit, TypeStep, MergeStep, PTL DEF Spec

(* A reported image is NG exactly if one of its algorithms said so, in whatever
   order they answered. *)
THEOREM NgIsDecisive == Spec => []NgWins
<1>1. MergeInv => NgWins
  BY DEF MergeInv, WellMerged, NgWins
<1> QED BY <1>1, MergeInvHolds, PTL

(* The count kept for an image is the number of its merged results, and goes
   with its record. *)
THEOREM CountsAreRight == Spec => []CountsMatch
<1>1. MergeInv => CountsMatch
  BY DEF MergeInv
<1> QED BY <1>1, MergeInvHolds, PTL

-----------------------------------------------------------------------------
(* Statistics. *)

NgReports == {k \in DOMAIN reports : reports[k].record.result = "NG"}

LEMMA NgReportsFinite ==
  ASSUME TypeOK PROVE IsFiniteSet(NgReports) /\ Cardinality(NgReports) \in Nat
<1>1. DOMAIN reports = 1..Len(reports) /\ Len(reports) \in Nat
  BY DEF TypeOK
<1>2. IsFiniteSet(DOMAIN reports)
  BY <1>1, FS_Interval
<1>3. NgReports \subseteq DOMAIN reports
  BY DEF NgReports
<1> QED BY <1>2, <1>3, FS_Subset, FS_CardinalityType

LEMMA NeverExceedIs ==
  /\ StatisticsNeverExceed <=>
       history.reportedNg + detectNg <= Cardinality(NgReports)
  /\ StatisticsNeverExceed' <=>
       history'.reportedNg + detectNg' <= Cardinality(NgReports')
  BY DEF StatisticsNeverExceed, NgReports

LEMMA QuietStatistic ==
  ASSUME StatisticInv, UNCHANGED <<detectNg, statistic, reports>>,
         history'.reportedNg = history.reportedNg
  PROVE  StatisticInv'
  BY DEF StatisticInv, StatisticsNeverExceed, ReadIsCounted

LEMMA ConcludeStatistic ==
  ASSUME TypeOK, StatisticInv, NEW id \in DOMAIN imageResultRecord, NEW rec \in Record,
         Conclude(id, rec), UNCHANGED <<statistic, history>>
  PROVE  StatisticInv'
<1> DEFINE r == [imageId |-> id, record |-> rec, age |-> now - rec.gen,
                 emitted |-> runType = "Infer"]
<1>1. /\ reports' = Append(reports, r) /\ r.record = rec /\ reports \in Seq(Report)
      /\ detectNg' = IF rec.result = "NG" THEN detectNg + 1 ELSE detectNg
      /\ detectNg \in Nat /\ history.reportedNg \in Nat
  BY DEF Conclude, TypeOK, History
<1> HIDE DEF r
<1>2. /\ DOMAIN reports = 1..Len(reports) /\ DOMAIN reports' = 1..(Len(reports) + 1)
      /\ Len(reports) \in Nat /\ reports'[Len(reports) + 1] = r
      /\ \A k \in DOMAIN reports : reports'[k] = reports[k]
  BY <1>1
<1>3. NgReports' = IF rec.result = "NG" THEN NgReports \cup {Len(reports) + 1} ELSE NgReports
  BY <1>1, <1>2 DEF NgReports
<1>4. /\ IsFiniteSet(NgReports) /\ Cardinality(NgReports) \in Nat
      /\ Len(reports) + 1 \notin NgReports
  <2>1. Len(reports) + 1 \notin NgReports
    BY <1>2 DEF NgReports
  <2> QED BY <2>1, NgReportsFinite
<1>5. Cardinality(NgReports') = IF rec.result = "NG" THEN Cardinality(NgReports) + 1
                                ELSE Cardinality(NgReports)
  BY <1>3, <1>4, FS_AddElement
<1>6. StatisticsNeverExceed'
  BY <1>1, <1>4, <1>5, NeverExceedIs DEF StatisticInv
<1>7. ReadIsCounted'
  <2>1. statistic # << >> => statistic[2] \in Nat
    BY DEF TypeOK
  <2> QED BY <1>1, <2>1 DEF StatisticInv, ReadIsCounted
<1> QED BY <1>6, <1>7 DEF StatisticInv

LEMMA StatisticStep ==
  ASSUME TypeOK, StatisticInv, [Next]_vars PROVE StatisticInv'
<1> USE DEF cameraVars, statVars
<1>1. CASE \/ Tick \/ (\E s \in Subscribers : EmitImageData(s)) \/ OnImageData
           \/ OnResultDropped \/ OnResultMerged \/ UNCHANGED vars
  BY <1>1, QuietStatistic
     DEF Tick, EmitImageData, OnImageData, OnResultDropped, OnResultMerged, Take, vars
<1>2. CASE SetRunType
  <2>1. history'.reportedNg = history.reportedNg
    BY <1>2 DEF SetRunType, TypeOK, History
  <2> QED BY <1>2, <2>1, QuietStatistic DEF SetRunType
<1>3. ASSUME NEW id \in ImageIds,
             TakeImage(id) \/ \E gs \in SUBSET AIChannels : OtherImage(id, gs)
      PROVE  StatisticInv'
  BY <1>3, NameImageType, QuietStatistic DEF TakeImage, OtherImage
<1>4. ASSUME NEW w \in working, InferSkips(w) \/ \E r \in ImageResults : Infer(w, r)
      PROVE  StatisticInv'
  BY <1>4, QuietStatistic DEF InferSkips, Infer
<1>5. CASE OnResultConcludes
  <2> DEFINE ias == Head(mailbox).body
             rec == Merge(imageResultRecord[ias.imageId], ias)
  <2>1. /\ ias \in IasResult /\ ias.imageId \in DOMAIN imageResultRecord
        /\ Conclude(ias.imageId, rec) /\ UNCHANGED <<statistic, history>>
    BY <1>5, TakeType DEF OnResultConcludes, HasRecord, Take
  <2>2. rec \in Record
    BY <2>1, MergeType DEF TypeOK
  <2> HIDE DEF rec
  <2> QED BY <2>1, <2>2, ConcludeStatistic
<1>6. CASE OnTimeout
  <2>1. PICK id \in DOMAIN imageResultRecord : Conclude(id, imageResultRecord[id])
    BY <1>6 DEF OnTimeout
  <2>2. imageResultRecord[id] \in Record
    BY DEF TypeOK
  <2> QED BY <1>6, <2>1, <2>2, ConcludeStatistic DEF OnTimeout
<1>7. CASE GetStatistic
  <2>1. statistic'[2] <= detectNg'
    BY <1>7 DEF GetStatistic, TypeOK
  <2> QED BY <1>7, <2>1 DEF GetStatistic, StatisticInv, StatisticsNeverExceed, ReadIsCounted
<1>8. CASE ClearStatistic
  <2>1. /\ history'.reportedNg = history.reportedNg + statistic[2]
        /\ history.reportedNg \in Nat /\ statistic[2] \in Nat
    BY <1>8, ClearType
  <2>2. /\ statistic # << >> /\ detectNg' = 0 /\ statistic' = << >> /\ reports' = reports
        /\ detectNg \in Nat
    BY <1>8 DEF ClearStatistic, TypeOK
  <2>3. statistic[2] <= detectNg
    BY <2>2 DEF StatisticInv, ReadIsCounted
  <2>4. Cardinality(NgReports) \in Nat
    BY NgReportsFinite
  <2>5. StatisticsNeverExceed'
    BY <2>1, <2>2, <2>3, <2>4 DEF StatisticInv, StatisticsNeverExceed, NgReports
  <2> QED BY <2>2, <2>5 DEF StatisticInv, ReadIsCounted
<1> QED BY <1>1, <1>2, <1>3, <1>4, <1>5, <1>6, <1>7, <1>8 DEF Next

(* A defect is reported to the policy store at most once, although the counters
   are read and cleared in two steps. *)
THEOREM DefectsAreNotOvercounted == Spec => []StatisticsNeverExceed
<1>1. Init => StatisticInv
  <2> SUFFICES ASSUME Init PROVE StatisticInv
    OBVIOUS
  <2>1. NgReports = {} /\ history.reportedNg = 0 /\ detectNg = 0 /\ statistic = << >>
    BY DEF Init, HistoryInit, NgReports
  <2> QED BY <2>1, FS_EmptySet DEF StatisticInv, StatisticsNeverExceed, ReadIsCounted, NgReports
<1>2. StatisticInv => StatisticsNeverExceed
  BY DEF StatisticInv
<1> QED BY <1>1, <1>2, TypeInit, TypeStep, StatisticStep, PTL DEF Spec

-----------------------------------------------------------------------------
(* Names and frames. *)

LEMMA SeqAppend ==
  ASSUME NEW S, NEW s \in Seq(S), NEW e \in S
  PROVE  /\ Len(s) \in Nat /\ DOMAIN s = 1..Len(s)
         /\ DOMAIN Append(s, e) = 1..(Len(s) + 1)
         /\ Append(s, e)[Len(s) + 1] = e
         /\ \A i \in DOMAIN s : Append(s, e)[i] = s[i]
  OBVIOUS

LEMMA SeqTail ==
  ASSUME NEW S, NEW s \in Seq(S), s # << >>
  PROVE  /\ 1 \in DOMAIN s /\ s[1] = Head(s)
         /\ \A i \in DOMAIN Tail(s) :
              i \in Nat \ {0} /\ i + 1 \in DOMAIN s /\ Tail(s)[i] = s[i + 1]
         /\ \A i \in DOMAIN s : /\ i \in Nat
                                /\ i # 1 => /\ i - 1 \in DOMAIN Tail(s)
                                            /\ Tail(s)[i - 1] = s[i]
<1>1. /\ Len(s) \in Nat \ {0} /\ DOMAIN s = 1..Len(s) /\ s[1] = Head(s)
      /\ DOMAIN Tail(s) = 1..(Len(s) - 1)
      /\ \A i \in DOMAIN Tail(s) : Tail(s)[i] = s[i + 1]
  OBVIOUS
<1>2. \A i \in DOMAIN s : i # 1 => i - 1 \in DOMAIN Tail(s) /\ (i - 1) + 1 = i
  BY <1>1
<1> QED BY <1>1, <1>2

(* What concluding an image adds to the reports. *)
LEMMA ConcludeReports ==
  ASSUME TypeOK, NEW id \in DOMAIN imageResultRecord, NEW rec \in Record,
         Conclude(id, rec)
  PROVE  /\ Len(reports) \in Nat /\ DOMAIN reports = 1..Len(reports)
         /\ DOMAIN reports' = 1..(Len(reports) + 1)
         /\ \A k \in DOMAIN reports : reports'[k] = reports[k]
         /\ reports'[Len(reports) + 1].imageId = id
         /\ reports'[Len(reports) + 1].record = rec
         /\ reports'[Len(reports) + 1].age = now - rec.gen
<1> DEFINE r == [imageId |-> id, record |-> rec, age |-> now - rec.gen,
                 emitted |-> runType = "Infer"]
<1>1. reports' = Append(reports, r) /\ reports \in Seq(Report)
  BY DEF Conclude, TypeOK
<1>2. r.imageId = id /\ r.record = rec /\ r.age = now - rec.gen
  OBVIOUS
<1>3. r \in Report
  <2>1. id \in ImageIds /\ now - rec.gen \in Int
    BY DEF TypeOK, Record
  <2> QED BY <2>1 DEF Report
<1> HIDE DEF r
<1> QED BY <1>1, <1>2, <1>3, SeqAppend

(* A new name, and a new frame for it. *)
LEMMA NewName ==
  ASSUME UniqueNames, TypeOK, NEW id \in ImageIds, NameImage(id),
         NEW fo \in [ImageIds -> Nat], NamedBy(fo)
  PROVE  \E f2 \in [ImageIds -> Nat] :
           /\ id \notin history.names
           /\ \A a, b \in history'.names : f2[a] = f2[b] => a = b
           /\ \A a \in history'.names : f2[a] < history'.frames
           /\ id \in history'.names /\ f2[id] = history.frames
           /\ \A a, x : Named(fo, a, x) => a \in history'.names /\ x = f2[a]
<1> DEFINE f2 == [fo EXCEPT ![id] = history.frames]
<1>1. /\ history.frames \in Nat /\ history'.frames = history.frames + 1
      /\ history'.names = history.names \cup {id} /\ id \notin history.names
      /\ history.names \subseteq ImageIds
  BY NameImageType DEF NameImage, TypeOK, History
<1>2. /\ f2 \in [ImageIds -> Nat] /\ f2[id] = history.frames
      /\ \A a \in history.names : f2[a] = fo[a]
  BY <1>1
<1> HIDE DEF f2
<1>3. \A a \in history.names : fo[a] \in Nat /\ fo[a] < history.frames
  BY <1>1 DEF NamedBy
<1>4. \A a, b \in history'.names : f2[a] = f2[b] => a = b
  <2> SUFFICES ASSUME NEW a \in history'.names, NEW b \in history'.names, f2[a] = f2[b]
               PROVE  a = b
    OBVIOUS
  <2> QED BY <1>1, <1>2, <1>3 DEF NamedBy
<1>5. \A a \in history'.names : f2[a] < history'.frames
  BY <1>1, <1>2, <1>3
<1>6. \A a, x : Named(fo, a, x) => a \in history'.names /\ x = f2[a]
  BY <1>1, <1>2 DEF Named
<1> QED BY <1>1, <1>2, <1>4, <1>5, <1>6

(* Steps that take no image keep the same names. *)
LEMMA SameNames ==
  ASSUME NEW fo \in [ImageIds -> Nat], NamedBy(fo),
         history'.names = history.names, history'.frames = history.frames,
         \/ UNCHANGED emitting
         \/ emitting' = << >>
         \/ emitting' # << >> => /\ emitting # << >>
                                 /\ emitting'.imageId = emitting.imageId
                                 /\ emitting'.frame = emitting.frame,
         \A w \in working' : Named(fo, w.imageId, w.frame),
         \A i \in DOMAIN mailbox' : Named(fo, mailbox'[i].body.imageId, mailbox'[i].body.frame),
         \A id \in DOMAIN imageResultRecord' : RecordNamed(fo, id, imageResultRecord'[id]),
         \A k \in DOMAIN reports' : RecordNamed(fo, reports'[k].imageId, reports'[k].record)
  PROVE  NamesInv'
<1>1. NamedBy(fo)'
  BY DEF NamedBy, Named, RecordNamed
<1> QED BY <1>1 DEF NamesInv

LEMMA ConcludeNames ==
  ASSUME TypeOK, NEW fo, NamedBy(fo), NEW id \in DOMAIN imageResultRecord, NEW rec \in Record,
         RecordNamed(fo, id, rec), Conclude(id, rec)
  PROVE  /\ \A i \in DOMAIN imageResultRecord' : RecordNamed(fo, i, imageResultRecord'[i])
         /\ \A k \in DOMAIN reports' : RecordNamed(fo, reports'[k].imageId, reports'[k].record)
<1>1. \A i \in DOMAIN imageResultRecord' : RecordNamed(fo, i, imageResultRecord'[i])
  BY ConcludeType DEF NamedBy
<1>2. ASSUME NEW k \in DOMAIN reports'
      PROVE  RecordNamed(fo, reports'[k].imageId, reports'[k].record)
  <2>1. CASE k = Len(reports) + 1
    BY <2>1, ConcludeReports
  <2>2. CASE k # Len(reports) + 1
    <3>1. k \in DOMAIN reports /\ reports'[k] = reports[k]
      BY <1>2, <2>2, ConcludeReports
    <3> QED BY <3>1 DEF NamedBy
  <2> QED BY <2>1, <2>2
<1> QED BY <1>1, <1>2

(* Merging keeps the names. *)
LEMMA MergeNames ==
  ASSUME NEW fo, NEW id, NEW rec \in Record, RecordNamed(fo, id, rec),
         NEW ias \in IasResult, ias.imageId = id, Named(fo, ias.imageId, ias.frame)
  PROVE  RecordNamed(fo, id, Merge(rec, ias))
<1>1. rec.parts \in Seq(IasResult)
  BY DEF Record
<1>2. Merge(rec, ias).parts = Append(rec.parts, ias) /\ Merge(rec, ias).frame = rec.frame
  BY MergeType
<1>3. \A j \in DOMAIN Append(rec.parts, ias) : Named(fo, id, Append(rec.parts, ias)[j].frame)
  <2> SUFFICES ASSUME NEW j \in DOMAIN Append(rec.parts, ias)
               PROVE  Named(fo, id, Append(rec.parts, ias)[j].frame)
    OBVIOUS
  <2>1. \/ j \in DOMAIN rec.parts /\ Append(rec.parts, ias)[j] = rec.parts[j]
        \/ Append(rec.parts, ias)[j] = ias
    BY <1>1, SeqAppend
  <2> QED BY <2>1 DEF RecordNamed
<1> QED BY <1>2, <1>3 DEF RecordNamed

LEMMA NamesStep ==
  ASSUME UniqueNames, TypeOK, NamesInv, [Next]_vars PROVE NamesInv'
<1> USE DEF cameraVars, statVars, recordVars
<1>1. PICK fo \in [ImageIds -> Nat] : NamedBy(fo)
  BY DEF NamesInv
<1>2. CASE \/ Tick \/ SetRunType \/ GetStatistic \/ ClearStatistic \/ UNCHANGED vars
  <2>1. /\ UNCHANGED <<emitting, working, mailbox, imageResultRecord, reports>>
        /\ history'.names = history.names /\ history'.frames = history.frames
    BY <1>2 DEF Tick, SetRunType, GetStatistic, ClearStatistic, vars, TypeOK, History
  <2> QED BY <1>1, <2>1, SameNames DEF NamedBy
<1>3. ASSUME NEW id \in ImageIds, TakeImage(id) PROVE NamesInv'
  <2>1. PICK f2 \in [ImageIds -> Nat] :
           /\ id \notin history.names
           /\ \A a, b \in history'.names : f2[a] = f2[b] => a = b
           /\ \A a \in history'.names : f2[a] < history'.frames
           /\ id \in history'.names /\ f2[id] = history.frames
           /\ \A a, x : Named(fo, a, x) => a \in history'.names /\ x = f2[a]
    BY <1>1, <1>3, NewName DEF TakeImage
  <2>2. emitting'.imageId = id /\ emitting'.frame = history.frames
        /\ UNCHANGED <<working, mailbox, imageResultRecord, reports>>
    BY <1>3 DEF TakeImage
  <2>3. NamedBy(f2)'
    BY <1>1, <2>1, <2>2 DEF NamedBy, Named, RecordNamed
  <2> QED BY <2>3 DEF NamesInv
<1>4. ASSUME NEW id \in ImageIds, NEW gs \in SUBSET AIChannels, OtherImage(id, gs)
      PROVE  NamesInv'
  <2>1. PICK f2 \in [ImageIds -> Nat] :
           /\ id \notin history.names
           /\ \A a, b \in history'.names : f2[a] = f2[b] => a = b
           /\ \A a \in history'.names : f2[a] < history'.frames
           /\ id \in history'.names /\ f2[id] = history.frames
           /\ \A a, x : Named(fo, a, x) => a \in history'.names /\ x = f2[a]
    BY <1>1, <1>4, NewName DEF OtherImage
  <2>2. /\ \A w \in working' : w \in working \/ (w.imageId = id /\ w.frame = history.frames)
        /\ UNCHANGED <<emitting, mailbox, imageResultRecord, reports>>
    BY <1>4 DEF OtherImage
  <2>3. NamedBy(f2)'
    BY <1>1, <2>1, <2>2 DEF NamedBy, Named, RecordNamed
  <2> QED BY <2>3 DEF NamesInv
<1>5. ASSUME NEW s \in Subscribers, EmitImageData(s) PROVE NamesInv'
  <2> DEFINE e == [type |-> "data", body |-> [frame |-> emitting.frame,
                     imageId |-> emitting.imageId, gen |-> emitting.gen]]
             w == [frame |-> emitting.frame, imageId |-> emitting.imageId,
                   own |-> TRUE, alg |-> s]
  <2>1. /\ emitting # << >> /\ emitting \in Emission
        /\ UNCHANGED <<imageResultRecord, reports, history>>
    BY <1>5 DEF EmitImageData, TypeOK
  <2>2. \/ mailbox' = Append(mailbox, e) /\ working' = working
        \/ working' = working \cup {w} /\ mailbox' = mailbox
    BY <1>5 DEF EmitImageData
  <2>3. Named(fo, emitting.imageId, emitting.frame)
    BY <1>1, <2>1 DEF NamedBy
  <2>4. e.body.imageId = emitting.imageId /\ e.body.frame = emitting.frame
        /\ w.imageId = emitting.imageId /\ w.frame = emitting.frame
    OBVIOUS
  <2>5. e \in Event
    BY <2>1 DEF Emission, Event, Image
  <2>6. emitting' # << >> => /\ emitting'.imageId = emitting.imageId
                             /\ emitting'.frame = emitting.frame
    <3>1. \A x : /\ [emitting EXCEPT !.todo = x].imageId = emitting.imageId
                /\ [emitting EXCEPT !.todo = x].frame = emitting.frame
      BY <2>1 DEF Emission
    <3>2. emitting' = << >> \/ emitting' = [emitting EXCEPT !.todo = @ \ {s}]
      BY <1>5 DEF EmitImageData
    <3> QED BY <3>1, <3>2
  <2> HIDE DEF e, w
  <2>7. \A x \in working' : Named(fo, x.imageId, x.frame)
    BY <1>1, <2>2, <2>3, <2>4 DEF NamedBy
  <2>8. ASSUME NEW i \in DOMAIN mailbox'
        PROVE  Named(fo, mailbox'[i].body.imageId, mailbox'[i].body.frame)
    <3>1. (i \in DOMAIN mailbox /\ mailbox'[i] = mailbox[i]) \/ mailbox'[i] = e
      BY <2>2, <2>5, <2>8, SeqAppend DEF TypeOK
    <3> QED BY <1>1, <2>3, <2>4, <3>1 DEF NamedBy
  <2> QED BY <1>1, <2>1, <2>6, <2>7, <2>8, SameNames DEF NamedBy
<1>6. ASSUME NEW w \in working, NEW r \in ImageResults, Infer(w, r) PROVE NamesInv'
  <2> DEFINE e == [type |-> "result",
                   body |-> [frame |-> w.frame, imageId |-> w.imageId, own |-> w.own,
                             alg |-> w.alg, result |-> r]]
  <2>1. /\ e \in Event /\ e.body.imageId = w.imageId /\ e.body.frame = w.frame
    BY DEF Event, IasResult, Work, TypeOK
  <2>2. /\ mailbox' = Append(mailbox, e) /\ working' \subseteq working
        /\ UNCHANGED <<emitting, imageResultRecord, reports, history>>
    BY <1>6 DEF Infer
  <2> HIDE DEF e
  <2>3. ASSUME NEW i \in DOMAIN mailbox'
        PROVE  Named(fo, mailbox'[i].body.imageId, mailbox'[i].body.frame)
    <3>1. (i \in DOMAIN mailbox /\ mailbox'[i] = mailbox[i]) \/ mailbox'[i] = e
      BY <2>1, <2>2, <2>3, SeqAppend DEF TypeOK
    <3> QED BY <1>1, <2>1, <3>1 DEF NamedBy
  <2> QED BY <1>1, <2>2, <2>3, SameNames DEF NamedBy
<1>7. ASSUME NEW w \in working, InferSkips(w) PROVE NamesInv'
  <2>1. /\ working' \subseteq working
        /\ UNCHANGED <<emitting, mailbox, imageResultRecord, reports, history>>
    BY <1>7 DEF InferSkips
  <2> QED BY <1>1, <2>1, SameNames DEF NamedBy
<1>8. ASSUME NEW t \in {"data", "result"}, Take(t)
      PROVE  /\ \A i \in DOMAIN mailbox' :
                  Named(fo, mailbox'[i].body.imageId, mailbox'[i].body.frame)
             /\ Named(fo, Head(mailbox).body.imageId, Head(mailbox).body.frame)
             /\ UNCHANGED <<emitting, working, history>>
  <2>1. mailbox \in Seq(Event) /\ mailbox # << >> /\ mailbox' = Tail(mailbox)
    BY <1>8 DEF Take, TypeOK
  <2>2. 1 \in DOMAIN mailbox /\ mailbox[1] = Head(mailbox)
        /\ \A i \in DOMAIN mailbox' : i + 1 \in DOMAIN mailbox /\ mailbox'[i] = mailbox[i + 1]
    BY <2>1, SeqTail
  <2> QED BY <1>1, <1>8, <2>2 DEF NamedBy, Take
<1>9. CASE OnImageData
  <2> DEFINE image == Head(mailbox).body
             new == NewRecord(image)
  <2>1. Named(fo, image.imageId, image.frame) /\ Take("data") /\ reports' = reports
    BY <1>8, <1>9 DEF OnImageData
  <2>2. RecordNamed(fo, image.imageId, new)
    BY <2>1 DEF RecordNamed, NewRecord
  <2>3. \/ UNCHANGED imageResultRecord
        \/ imageResultRecord' = With(imageResultRecord, image.imageId, new)
    BY <1>9 DEF OnImageData
  <2> HIDE DEF new, image
  <2>4. \A id \in DOMAIN imageResultRecord' : RecordNamed(fo, id, imageResultRecord'[id])
    BY <1>1, <2>2, <2>3 DEF With, NamedBy
  <2> QED BY <1>1, <1>8, <2>1, <2>4, SameNames DEF NamedBy
<1>10. CASE OnResultDropped
  <2>1. Take("result") /\ UNCHANGED <<imageResultRecord, reports>>
    BY <1>10 DEF OnResultDropped
  <2> QED BY <1>1, <1>8, <2>1, SameNames DEF NamedBy
<1>11. CASE OnResultMerged
  <2> DEFINE ias == Head(mailbox).body
             id == ias.imageId
             new == Merge(imageResultRecord[id], ias)
  <2>1. /\ Take("result") /\ ias \in IasResult /\ id \in DOMAIN imageResultRecord
        /\ Named(fo, ias.imageId, ias.frame) /\ reports' = reports
    BY <1>8, <1>11, TakeType DEF OnResultMerged, HasRecord
  <2>2. imageResultRecord[id] \in Record /\ RecordNamed(fo, id, imageResultRecord[id])
    BY <1>1, <2>1 DEF TypeOK, NamedBy
  <2>3. RecordNamed(fo, id, new)
    BY <2>1, <2>2, MergeNames
  <2>4. imageResultRecord' = [imageResultRecord EXCEPT ![id] = new]
    BY <1>11 DEF OnResultMerged
  <2> HIDE DEF new, id, ias
  <2>5. \A i \in DOMAIN imageResultRecord' : RecordNamed(fo, i, imageResultRecord'[i])
    BY <1>1, <2>1, <2>3, <2>4 DEF NamedBy
  <2> QED BY <1>1, <1>8, <2>1, <2>5, SameNames DEF NamedBy
<1>12. CASE OnResultConcludes
  <2> DEFINE ias == Head(mailbox).body
             id == ias.imageId
             rec == Merge(imageResultRecord[id], ias)
  <2>1. /\ Take("result") /\ ias \in IasResult /\ id \in DOMAIN imageResultRecord
        /\ Named(fo, ias.imageId, ias.frame) /\ Conclude(id, rec)
    BY <1>8, <1>12, TakeType DEF OnResultConcludes, HasRecord
  <2>2. imageResultRecord[id] \in Record /\ RecordNamed(fo, id, imageResultRecord[id])
    BY <1>1, <2>1 DEF TypeOK, NamedBy
  <2>3. RecordNamed(fo, id, rec) /\ rec \in Record
    BY <2>1, <2>2, MergeNames, MergeType
  <2> HIDE DEF rec, id, ias
  <2>4. /\ \A i \in DOMAIN imageResultRecord' : RecordNamed(fo, i, imageResultRecord'[i])
        /\ \A k \in DOMAIN reports' : RecordNamed(fo, reports'[k].imageId, reports'[k].record)
    BY <1>1, <2>1, <2>3, ConcludeNames
  <2> QED BY <1>1, <1>8, <2>1, <2>4, SameNames DEF NamedBy
<1>13. CASE OnTimeout
  <2>1. PICK id \in DOMAIN imageResultRecord : Conclude(id, imageResultRecord[id])
    BY <1>13 DEF OnTimeout
  <2>2. imageResultRecord[id] \in Record /\ RecordNamed(fo, id, imageResultRecord[id])
    BY <1>1 DEF TypeOK, NamedBy
  <2>3. UNCHANGED <<emitting, working, mailbox, history>>
    BY <1>13 DEF OnTimeout
  <2> QED BY <1>1, <2>1, <2>2, <2>3, ConcludeNames, SameNames DEF NamedBy
<1> QED BY <1>2, <1>3, <1>4, <1>5, <1>6, <1>7, <1>9, <1>10, <1>11, <1>12, <1>13 DEF Next

-----------------------------------------------------------------------------
(* The way of an image through the multipler. *)

LEMMA NamesInit == Init => NamesInv
<1> SUFFICES ASSUME Init PROVE NamesInv
  OBVIOUS
<1>1. [a \in ImageIds |-> 0] \in [ImageIds -> Nat]
  OBVIOUS
<1>2. /\ emitting = << >> /\ working = {} /\ DOMAIN mailbox = {} /\ DOMAIN reports = {}
      /\ DOMAIN imageResultRecord = {} /\ history.names = {}
  BY DEF Init, HistoryInit
<1>3. NamedBy([a \in ImageIds |-> 0])
  BY <1>2 DEF NamedBy
<1> QED BY <1>1, <1>3 DEF NamesInv

(* An event is posted to the multipler. *)
LEMMA EventAdded ==
  ASSUME TypeOK, NEW e \in Event, mailbox' = Append(mailbox, e), NEW a, NEW k
  PROVE  /\ Queued(a, k)' <=> Queued(a, k) \/ EventOf(e, a, k)
         /\ QueuedOnce(a, k) /\ ~(Queued(a, k) /\ EventOf(e, a, k)) => QueuedOnce(a, k)'
<1>1. /\ Len(mailbox) \in Nat /\ DOMAIN mailbox = 1..Len(mailbox)
      /\ DOMAIN mailbox' = 1..(Len(mailbox) + 1) /\ mailbox'[Len(mailbox) + 1] = e
      /\ \A i \in DOMAIN mailbox : mailbox'[i] = mailbox[i]
  BY SeqAppend DEF TypeOK
<1>2. \A i \in DOMAIN mailbox' :
        \/ i \in DOMAIN mailbox /\ mailbox'[i] = mailbox[i]
        \/ i = Len(mailbox) + 1 /\ mailbox'[i] = e
  BY <1>1
<1>3. DOMAIN mailbox \subseteq DOMAIN mailbox' /\ Len(mailbox) + 1 \in DOMAIN mailbox'
  BY <1>1
<1>4. Queued(a, k)' <=> Queued(a, k) \/ EventOf(e, a, k)
  BY <1>1, <1>2, <1>3 DEF Queued, EventOf
<1>5. QueuedOnce(a, k) /\ ~(Queued(a, k) /\ EventOf(e, a, k)) => QueuedOnce(a, k)'
  BY <1>2 DEF Queued, QueuedOnce, EventOf
<1> QED BY <1>4, <1>5

(* The multipler takes the next event. *)
LEMMA EventTaken ==
  ASSUME TypeOK, mailbox # << >>, mailbox' = Tail(mailbox), NEW a, NEW k, QueuedOnce(a, k)
  PROVE  /\ Queued(a, k)' <=> Queued(a, k) /\ ~EventOf(Head(mailbox), a, k)
         /\ QueuedOnce(a, k)'
         /\ EventOf(Head(mailbox), a, k) => Queued(a, k)
<1>1. /\ 1 \in DOMAIN mailbox /\ mailbox[1] = Head(mailbox)
      /\ \A i \in DOMAIN mailbox' :
           i \in Nat \ {0} /\ i + 1 \in DOMAIN mailbox /\ mailbox'[i] = mailbox[i + 1]
      /\ \A i \in DOMAIN mailbox : /\ i \in Nat
                                   /\ i # 1 => /\ i - 1 \in DOMAIN mailbox'
                                               /\ mailbox'[i - 1] = mailbox[i]
  BY SeqTail DEF TypeOK
<1>2. Queued(a, k)' => Queued(a, k) /\ ~EventOf(Head(mailbox), a, k)
  <2> SUFFICES ASSUME NEW i \in DOMAIN mailbox', EventOf(mailbox'[i], a, k)
               PROVE  Queued(a, k) /\ ~EventOf(mailbox[1], a, k)
    BY <1>1 DEF Queued, EventOf
  <2>1. i + 1 \in DOMAIN mailbox /\ EventOf(mailbox[i + 1], a, k) /\ i + 1 # 1
    BY <1>1
  <2> QED BY <1>1, <2>1 DEF Queued, QueuedOnce
<1>3. Queued(a, k) /\ ~EventOf(Head(mailbox), a, k) => Queued(a, k)'
  <2> SUFFICES ASSUME NEW i \in DOMAIN mailbox, EventOf(mailbox[i], a, k),
                      ~EventOf(mailbox[1], a, k)
               PROVE  Queued(a, k)'
    BY <1>1 DEF Queued
  <2>1. i - 1 \in DOMAIN mailbox' /\ mailbox'[i - 1] = mailbox[i]
    BY <1>1
  <2> QED BY <2>1 DEF Queued, EventOf
<1>4. QueuedOnce(a, k)'
  <2> SUFFICES ASSUME NEW i \in DOMAIN mailbox', NEW j \in DOMAIN mailbox',
                      EventOf(mailbox'[i], a, k), EventOf(mailbox'[j], a, k)
               PROVE  i = j
    BY DEF QueuedOnce, EventOf
  <2>1. i + 1 = j + 1
    BY <1>1 DEF QueuedOnce
  <2> QED BY <1>1, <2>1
<1> QED BY <1>1, <1>2, <1>3, <1>4 DEF Queued

(* An image is known once the multipler has opened a record for it. *)
LEMMA BeforeAdded ==
  ASSUME TypeOK, NEW e \in Event, mailbox' = Append(mailbox, e), NEW a, DataBefore(a),
         Open(a) \/ Reported(a) => Open(a)' \/ Reported(a)',
         \A g \in Algorithms :
           EventOf(e, a, g) => Posted(a) \/ Open(a)' \/ Reported(a)'
  PROVE  DataBefore(a)'
<1>1. /\ Len(mailbox) \in Nat /\ DOMAIN mailbox = 1..Len(mailbox)
      /\ DOMAIN mailbox' = 1..(Len(mailbox) + 1) /\ mailbox'[Len(mailbox) + 1] = e
      /\ \A i \in DOMAIN mailbox : mailbox'[i] = mailbox[i]
  BY SeqAppend DEF TypeOK
<1> SUFFICES ASSUME NEW i \in DOMAIN mailbox', NEW g \in Algorithms,
                    EventOf(mailbox'[i], a, g), ~(Open(a)' \/ Reported(a)')
             PROVE  \E j \in DOMAIN mailbox' : j < i /\ EventOf(mailbox'[j], a, "Multipler")
  BY DEF DataBefore, EventOf
<1>2. CASE i \in DOMAIN mailbox
  <2>1. PICK j \in DOMAIN mailbox : j < i /\ EventOf(mailbox[j], a, "Multipler")
    BY <1>1, <1>2 DEF DataBefore
  <2> QED BY <1>1, <2>1
<1>3. CASE i = Len(mailbox) + 1
  <2>1. PICK j \in DOMAIN mailbox : EventOf(mailbox[j], a, "Multipler")
    BY <1>1, <1>3 DEF Posted, Queued
  <2> QED BY <1>1, <1>3, <2>1
<1> QED BY <1>1, <1>2, <1>3

LEMMA BeforeTaken ==
  ASSUME TypeOK, mailbox # << >>, mailbox' = Tail(mailbox), NEW a, DataBefore(a),
         Open(a) \/ Reported(a) => Open(a)' \/ Reported(a)',
         EventOf(Head(mailbox), a, "Multipler") => Open(a)' \/ Reported(a)'
  PROVE  DataBefore(a)'
<1>1. /\ 1 \in DOMAIN mailbox /\ mailbox[1] = Head(mailbox)
      /\ \A i \in DOMAIN mailbox' :
           i \in Nat \ {0} /\ i + 1 \in DOMAIN mailbox /\ mailbox'[i] = mailbox[i + 1]
      /\ \A i \in DOMAIN mailbox : /\ i \in Nat
                                   /\ i # 1 => /\ i - 1 \in DOMAIN mailbox'
                                               /\ mailbox'[i - 1] = mailbox[i]
  BY SeqTail DEF TypeOK
<1> SUFFICES ASSUME NEW i \in DOMAIN mailbox', NEW g \in Algorithms,
                    EventOf(mailbox'[i], a, g), ~(Open(a)' \/ Reported(a)')
             PROVE  \E j \in DOMAIN mailbox' : j < i /\ EventOf(mailbox'[j], a, "Multipler")
  BY DEF DataBefore, EventOf
<1>2. i + 1 \in DOMAIN mailbox /\ EventOf(mailbox[i + 1], a, g)
  BY <1>1
<1>3. PICK j \in DOMAIN mailbox : j < i + 1 /\ EventOf(mailbox[j], a, "Multipler")
  BY <1>2 DEF DataBefore
<1>4. j # 1
  BY <1>1, <1>3
<1>5. j - 1 \in DOMAIN mailbox' /\ mailbox'[j - 1] = mailbox[j] /\ j - 1 < i
  BY <1>1, <1>3, <1>4
<1> QED BY <1>3, <1>5

(* A name not used yet is nowhere. *)
LEMMA Fresh ==
  ASSUME NamesInv, NEW a, a \notin history.names
  PROVE  /\ ~Emitting(a) /\ ~Open(a) /\ ~Reported(a) /\ \A k : ~Queued(a, k)
         /\ \A w \in working : w.imageId # a
<1>1. PICK fo \in [ImageIds -> Nat] : NamedBy(fo)
  BY DEF NamesInv
<1>2. ~Emitting(a) /\ \A w \in working : w.imageId # a
  BY <1>1 DEF NamedBy, Named, Emitting
<1>3. ~Open(a) /\ ~Reported(a)
  BY <1>1 DEF NamedBy, Named, RecordNamed, Open, Reported
<1>4. \A k : ~Queued(a, k)
  BY <1>1 DEF NamedBy, Named, Queued, EventOf
<1> QED BY <1>2, <1>3, <1>4

(* An image is posted to one more subscriber, first of all to the multipler. *)
LEMMA Emitted ==
  ASSUME TypeOK, NEW s \in Subscribers, EmitImageData(s)
  PROVE  /\ \A a : Emitting(a)' => Emitting(a) /\ ~Unposted(a)'
         /\ \A a, g : ToDo(a, g)' => ToDo(a, g) /\ g # s
         /\ \A a : Emitting(a) => ToDo(a, s) /\ (Unposted(a) <=> s = "Multipler")
<1>1. /\ emitting # << >> /\ emitting \in Emission /\ s \in emitting.todo
      /\ "Multipler" \in emitting.todo => s = "Multipler"
  BY DEF EmitImageData, MayServe, TypeOK
<1>2. /\ emitting' # << >> => /\ emitting'.imageId = emitting.imageId
                              /\ emitting'.todo = emitting.todo \ {s}
  BY <1>1 DEF EmitImageData, Emission
<1> QED BY <1>1, <1>2 DEF Emitting, Unposted, ToDo

(* What is posted. *)
LEMMA EmittedWhat ==
  ASSUME TypeOK, NEW s \in Subscribers, EmitImageData(s)
  PROVE  /\ emitting # << >>
         /\ \/ /\ s = "Multipler" /\ working' = working
               /\ \E e \in Event : /\ mailbox' = Append(mailbox, e) /\ e.type = "data"
                                   /\ e.body.imageId = emitting.imageId
                                   /\ e.body.gen = emitting.gen
            \/ /\ s # "Multipler" /\ mailbox' = mailbox
               /\ \E w \in Work : /\ working' = working \cup {w} /\ w.own
                                  /\ w.imageId = emitting.imageId
                                  /\ w.alg = s
         /\ UNCHANGED <<now, imageResultRecord, reports>>
<1> DEFINE e == [type |-> "data", body |-> [frame |-> emitting.frame,
                   imageId |-> emitting.imageId, gen |-> emitting.gen]]
           w == [frame |-> emitting.frame, imageId |-> emitting.imageId,
                 own |-> TRUE, alg |-> s]
<1>1. /\ emitting # << >> /\ emitting \in Emission
      /\ UNCHANGED <<now, imageResultRecord, reports>>
  BY DEF EmitImageData, TypeOK, recordVars
<1>2. \/ s = "Multipler" /\ mailbox' = Append(mailbox, e) /\ working' = working
      \/ s # "Multipler" /\ working' = working \cup {w} /\ mailbox' = mailbox
  BY DEF EmitImageData
<1>3. /\ e.body.imageId = emitting.imageId /\ e.body.gen = emitting.gen /\ e.type = "data"
      /\ w.imageId = emitting.imageId /\ w.own /\ w.alg = s
  OBVIOUS
<1>4. e \in Event
  BY <1>1 DEF Emission, Event, Image
<1>5. s # "Multipler" => w \in Work
  BY <1>1 DEF Emission, Work, Subscribers
<1> HIDE DEF e, w
<1> QED BY <1>1, <1>2, <1>3, <1>4, <1>5

(* What an algorithm answers. *)
LEMMA InferAnswers ==
  ASSUME TypeOK, NEW w \in working, NEW r \in ImageResults, Infer(w, r)
  PROVE  /\ \E e \in Event : /\ mailbox' = Append(mailbox, e) /\ e.type = "result"
                             /\ e.body.alg = w.alg
                             /\ \A a : ~EventOf(e, a, "Multipler")
                             /\ \A a : \A g \in Algorithms :
                                  EventOf(e, a, g) <=> w.own /\ w.imageId = a /\ w.alg = g
         /\ working' = working \ {w}
         /\ UNCHANGED <<now, emitting, imageResultRecord, reports>>
<1> DEFINE e == [type |-> "result",
                 body |-> [frame |-> w.frame, imageId |-> w.imageId, own |-> w.own,
                           alg |-> w.alg, result |-> r]]
<1>1. /\ e \in Event /\ e.body.imageId = w.imageId /\ e.body.own = w.own
      /\ e.body.alg = w.alg /\ e.type = "result"
  BY DEF Event, IasResult, Work, TypeOK
<1>2. /\ mailbox' = Append(mailbox, e) /\ working' = working \ {w}
      /\ UNCHANGED <<now, emitting, imageResultRecord, reports>>
  BY DEF Infer, recordVars
<1> HIDE DEF e
<1>3. /\ \A a : ~EventOf(e, a, "Multipler")
      /\ \A a : \A g \in Algorithms :
           EventOf(e, a, g) <=> w.own /\ w.imageId = a /\ w.alg = g
  BY <1>1, ConstantsOK DEF EventOf
<1> QED BY <1>1, <1>2, <1>3

(* What concluding an image does to it and to the others. *)
LEMMA Concluded ==
  ASSUME TypeOK, NEW id \in DOMAIN imageResultRecord, NEW rec \in Record,
         Conclude(id, rec), NEW a
  PROVE  /\ Open(a)' <=> Open(a) /\ a # id
         /\ Reported(a)' <=> Reported(a) \/ a = id
         /\ ReportedOnce(a) /\ ~(Reported(a) /\ a = id) => ReportedOnce(a)'
<1>1. /\ Len(reports) \in Nat /\ DOMAIN reports = 1..Len(reports)
      /\ DOMAIN reports' = 1..(Len(reports) + 1)
      /\ \A k \in DOMAIN reports : reports'[k] = reports[k]
      /\ reports'[Len(reports) + 1].imageId = id
  BY ConcludeReports
<1>2. \A k \in DOMAIN reports' :
        \/ k \in DOMAIN reports /\ reports'[k] = reports[k]
        \/ k = Len(reports) + 1 /\ reports'[k].imageId = id
  BY <1>1
<1>3. DOMAIN reports \subseteq DOMAIN reports' /\ Len(reports) + 1 \in DOMAIN reports'
  BY <1>1
<1>4. Open(a)' <=> Open(a) /\ a # id
  BY ConcludeType DEF Open
<1>5. Reported(a)' <=> Reported(a) \/ a = id
  BY <1>1, <1>2, <1>3 DEF Reported
<1>6. ReportedOnce(a) /\ ~(Reported(a) /\ a = id) => ReportedOnce(a)'
  BY <1>1, <1>2 DEF Reported, ReportedOnce
<1> QED BY <1>4, <1>5, <1>6

LEMMA PlaceStep ==
  ASSUME UniqueNames, TypeOK, PlaceInv, [Next]_vars, NEW a \in ImageIds
  PROVE  OnePlace(a)' /\ DataFirst(a)'
<1> USE DEF cameraVars, statVars, recordVars
<1>1. OnePlace(a) /\ DataFirst(a) /\ NamesInv
  BY DEF PlaceInv
<1>2. CASE \/ Tick \/ SetRunType \/ GetStatistic \/ ClearStatistic \/ UNCHANGED vars
  <2>1. UNCHANGED <<emitting, working, mailbox, imageResultRecord, reports>>
    BY <1>2 DEF Tick, SetRunType, GetStatistic, ClearStatistic, vars
  <2> QED BY <1>1, <2>1 DEF OnePlace, DataFirst, DataBefore, QueuedOnce, Posted, Queued,
             EventOf, Open, Reported, ReportedOnce, Unposted, Emitting
<1>3. ASSUME NEW id \in ImageIds, TakeImage(id) PROVE OnePlace(a)' /\ DataFirst(a)'
  <2>1. UNCHANGED <<working, mailbox, imageResultRecord, reports>> /\ id \notin history.names
    BY <1>3 DEF TakeImage, NameImage
  <2>2. Emitting(a)' => a = id /\ Unposted(a)'
    <3>1. emitting'.imageId = id /\ emitting'.todo = Subscribers
      BY <1>3 DEF TakeImage
    <3> QED BY <3>1 DEF Emitting, Unposted, Subscribers
  <2>3. a = id => ~Open(a) /\ ~Reported(a) /\ ~Posted(a)
    BY <1>1, <2>1, Fresh DEF Posted
  <2>4. /\ Posted(a)' <=> Posted(a)
        /\ Open(a)' <=> Open(a)
        /\ Reported(a)' <=> Reported(a)
        /\ QueuedOnce(a, "Multipler") => QueuedOnce(a, "Multipler")'
        /\ ReportedOnce(a) => ReportedOnce(a)'
        /\ DataBefore(a) => DataBefore(a)'
    BY <2>1 DEF DataBefore, QueuedOnce, Posted, Queued, EventOf, Open, Reported, ReportedOnce
  <2>5. OnePlace(a)'
    BY <1>1, <2>2, <2>3, <2>4 DEF OnePlace, Unposted
  <2> QED BY <1>1, <2>1, <2>2, <2>4, <2>5 DEF DataFirst
<1>4. ASSUME NEW id \in ImageIds, NEW gs \in SUBSET AIChannels, OtherImage(id, gs)
      PROVE  OnePlace(a)' /\ DataFirst(a)'
  <2>1. /\ UNCHANGED <<emitting, mailbox, imageResultRecord, reports>>
        /\ \A w \in working' : w \in working \/ ~w.own
    BY <1>4 DEF OtherImage
  <2> QED BY <1>1, <2>1 DEF OnePlace, DataFirst, DataBefore, QueuedOnce, Posted, Queued,
             EventOf, Open, Reported, ReportedOnce, Unposted, Emitting
<1>5. ASSUME NEW s \in Subscribers, EmitImageData(s) PROVE OnePlace(a)' /\ DataFirst(a)'
  <2>1. /\ UNCHANGED <<imageResultRecord, reports>> /\ emitting # << >>
        /\ Emitting(a)' => Emitting(a)
        /\ ~Unposted(a)'
    BY <1>5, Emitted, EmittedWhat DEF Unposted
  <2>2. /\ Open(a)' <=> Open(a)
        /\ Reported(a)' <=> Reported(a)
        /\ ReportedOnce(a) => ReportedOnce(a)'
    BY <2>1 DEF Open, Reported, ReportedOnce
  <2>3. CASE s = "Multipler"
    <3>1. PICK e \in Event : /\ mailbox' = Append(mailbox, e) /\ e.type = "data"
                             /\ e.body.imageId = emitting.imageId
      BY <1>5, <2>3, EmittedWhat
    <3>2. working' = working
      BY <1>5, <2>3, EmittedWhat
    <3>3. /\ EventOf(e, a, "Multipler") <=> a = emitting.imageId
          /\ \A g \in Algorithms : ~EventOf(e, a, g)
      BY <3>1, ConstantsOK DEF EventOf
    <3>4. a = emitting.imageId <=> Unposted(a)
      BY <1>5, <2>1, <2>3, Emitted DEF Unposted, Emitting
    <3>5. /\ Posted(a)' <=> Posted(a) \/ Unposted(a)
          /\ QueuedOnce(a, "Multipler") /\ ~(Posted(a) /\ Unposted(a)) => QueuedOnce(a, "Multipler")'
      BY <3>1, <3>3, <3>4, EventAdded DEF Posted
    <3>6. DataBefore(a) => DataBefore(a)'
      BY <2>2, <3>1, <3>3, BeforeAdded
    <3>7. OnePlace(a)'
      BY <1>1, <2>1, <2>2, <3>5 DEF OnePlace
    <3> QED BY <1>1, <2>1, <2>2, <3>2, <3>5, <3>6, <3>7 DEF DataFirst
  <2>4. CASE s # "Multipler"
    <3>1. PICK w \in Work : /\ working' = working \cup {w} /\ w.own
                            /\ w.imageId = emitting.imageId
      BY <1>5, <2>4, EmittedWhat
    <3>2. mailbox' = mailbox
      BY <1>5, <2>4, EmittedWhat
    <3>3. ~Unposted(a)
      BY <1>5, <2>4, Emitted DEF Unposted
    <3>4. /\ Posted(a)' <=> Posted(a)
          /\ QueuedOnce(a, "Multipler") => QueuedOnce(a, "Multipler")'
          /\ DataBefore(a) => DataBefore(a)'
      BY <2>2, <3>2 DEF QueuedOnce, Posted, Queued, EventOf, DataBefore
    <3>5. OnePlace(a)'
      BY <1>1, <2>1, <2>2, <3>4 DEF OnePlace
    <3>6. w.imageId = a => Emitting(a)
      BY <2>1, <3>1 DEF Emitting
    <3> QED BY <1>1, <2>1, <2>2, <3>1, <3>3, <3>4, <3>5, <3>6 DEF DataFirst
  <2> QED BY <2>3, <2>4
<1>6. ASSUME NEW w \in working, NEW r \in ImageResults, Infer(w, r)
      PROVE  OnePlace(a)' /\ DataFirst(a)'
  <2>1. /\ UNCHANGED <<emitting, imageResultRecord, reports>> /\ working' \subseteq working
    BY <1>6, InferAnswers
  <2>2. PICK e \in Event : /\ mailbox' = Append(mailbox, e)
                           /\ ~EventOf(e, a, "Multipler")
                           /\ \A g \in Algorithms :
                                EventOf(e, a, g) <=> w.own /\ w.imageId = a /\ w.alg = g
    BY <1>6, InferAnswers
  <2>3. /\ Open(a)' <=> Open(a)
        /\ Reported(a)' <=> Reported(a)
        /\ ReportedOnce(a) => ReportedOnce(a)'
        /\ Unposted(a)' <=> Unposted(a)
        /\ Emitting(a)' <=> Emitting(a)
    BY <2>1 DEF Open, Reported, ReportedOnce, Unposted, Emitting
  <2>4. /\ Posted(a)' <=> Posted(a)
        /\ QueuedOnce(a, "Multipler") => QueuedOnce(a, "Multipler")'
    BY <2>2, EventAdded DEF Posted
  <2>5. w.own /\ w.imageId = a => Posted(a) \/ Open(a) \/ Reported(a)
    BY <1>1 DEF DataFirst
  <2>6. DataBefore(a)'
    BY <1>1, <2>2, <2>3, <2>5, BeforeAdded DEF DataFirst
  <2>7. OnePlace(a)'
    BY <1>1, <2>3, <2>4 DEF OnePlace
  <2> QED BY <1>1, <2>1, <2>3, <2>4, <2>6, <2>7 DEF DataFirst
<1>7. ASSUME NEW w \in working, InferSkips(w) PROVE OnePlace(a)' /\ DataFirst(a)'
  <2>1. /\ UNCHANGED <<emitting, mailbox, imageResultRecord, reports>>
        /\ working' \subseteq working
    BY <1>7 DEF InferSkips
  <2> QED BY <1>1, <2>1 DEF OnePlace, DataFirst, DataBefore, QueuedOnce, Posted, Queued,
             EventOf, Open, Reported, ReportedOnce, Unposted, Emitting
<1>8. ASSUME NEW t \in {"data", "result"}, Take(t)
      PROVE  /\ mailbox # << >> /\ mailbox' = Tail(mailbox) /\ UNCHANGED <<emitting, working>>
             /\ EventOf(Head(mailbox), a, "Multipler")
                  <=> t = "data" /\ Head(mailbox).body.imageId = a
             /\ Posted(a)' <=> Posted(a) /\ ~EventOf(Head(mailbox), a, "Multipler")
             /\ QueuedOnce(a, "Multipler")'
             /\ EventOf(Head(mailbox), a, "Multipler") => Posted(a)
             /\ Unposted(a)' <=> Unposted(a)
             /\ Emitting(a)' <=> Emitting(a)
  <2>1. /\ mailbox # << >> /\ mailbox' = Tail(mailbox) /\ UNCHANGED <<emitting, working>>
        /\ Head(mailbox).type = t
    BY <1>8 DEF Take
  <2>2. EventOf(Head(mailbox), a, "Multipler") <=> t = "data" /\ Head(mailbox).body.imageId = a
    BY <2>1 DEF EventOf
  <2>3. /\ Posted(a)' <=> Posted(a) /\ ~EventOf(Head(mailbox), a, "Multipler")
        /\ QueuedOnce(a, "Multipler")'
        /\ EventOf(Head(mailbox), a, "Multipler") => Posted(a)
    BY <1>1, <2>1, EventTaken DEF Posted, OnePlace
  <2> QED BY <2>1, <2>2, <2>3 DEF Unposted, Emitting
<1>9. CASE OnImageData
  <2> DEFINE image == Head(mailbox).body
  <2>1. Take("data") /\ reports' = reports
    BY <1>9 DEF OnImageData
  <2>2. \/ image.imageId \in DOMAIN imageResultRecord /\ UNCHANGED imageResultRecord
        \/ imageResultRecord' = With(imageResultRecord, image.imageId, NewRecord(image))
    BY <1>9 DEF OnImageData
  <2>3. Open(a)' <=> Open(a) \/ image.imageId = a
    BY <2>2 DEF With, Open
  <2>4. /\ Reported(a)' <=> Reported(a)
        /\ ReportedOnce(a) => ReportedOnce(a)'
    BY <2>1 DEF Reported, ReportedOnce
  <2>5. EventOf(Head(mailbox), a, "Multipler") <=> image.imageId = a
    BY <1>8, <2>1
  <2> HIDE DEF image
  <2>6. DataBefore(a)'
    BY <1>1, <1>8, <2>1, <2>3, <2>4, <2>5, BeforeTaken DEF DataFirst
  <2>7. OnePlace(a)'
    BY <1>1, <1>8, <2>1, <2>3, <2>4, <2>5 DEF OnePlace
  <2> QED BY <1>1, <1>8, <2>1, <2>3, <2>4, <2>5, <2>6, <2>7 DEF DataFirst
<1>10. CASE OnResultDropped \/ OnResultMerged
  <2>1. /\ Take("result") /\ reports' = reports
        /\ DOMAIN imageResultRecord' = DOMAIN imageResultRecord
    BY <1>10 DEF OnResultDropped, OnResultMerged
  <2>2. /\ Open(a)' <=> Open(a)
        /\ Reported(a)' <=> Reported(a)
        /\ ReportedOnce(a) => ReportedOnce(a)'
    BY <2>1 DEF Open, Reported, ReportedOnce
  <2>3. ~EventOf(Head(mailbox), a, "Multipler")
    BY <1>8, <2>1
  <2>4. DataBefore(a)'
    BY <1>1, <1>8, <2>1, <2>2, <2>3, BeforeTaken DEF DataFirst
  <2>5. OnePlace(a)'
    BY <1>1, <1>8, <2>1, <2>2, <2>3 DEF OnePlace
  <2> QED BY <1>1, <1>8, <2>1, <2>2, <2>3, <2>4, <2>5 DEF DataFirst
<1>11. CASE OnResultConcludes
  <2> DEFINE ias == Head(mailbox).body
             id == ias.imageId
             rec == Merge(imageResultRecord[id], ias)
  <2>1. /\ Take("result") /\ ias \in IasResult /\ id \in DOMAIN imageResultRecord
        /\ Conclude(id, rec)
    BY <1>11, TakeType DEF OnResultConcludes, HasRecord
  <2>2. rec \in Record
    BY <2>1, MergeType DEF TypeOK
  <2> HIDE DEF rec, id, ias
  <2>3. /\ Open(a)' <=> Open(a) /\ a # id
        /\ Reported(a)' <=> Reported(a) \/ a = id
        /\ ReportedOnce(a) /\ ~(Reported(a) /\ a = id) => ReportedOnce(a)'
    BY <2>1, <2>2, Concluded
  <2>4. a = id => Open(a)
    BY <2>1 DEF Open
  <2>5. ~EventOf(Head(mailbox), a, "Multipler")
    BY <1>8, <2>1
  <2>6. DataBefore(a)'
    BY <1>1, <1>8, <2>1, <2>3, <2>5, BeforeTaken DEF DataFirst
  <2>7. OnePlace(a)'
    BY <1>1, <1>8, <2>1, <2>3, <2>4, <2>5 DEF OnePlace
  <2> QED BY <1>1, <1>8, <2>1, <2>3, <2>5, <2>6, <2>7 DEF DataFirst
<1>12. CASE OnTimeout
  <2>1. PICK id \in DOMAIN imageResultRecord : Conclude(id, imageResultRecord[id])
    BY <1>12 DEF OnTimeout
  <2>2. imageResultRecord[id] \in Record
    BY DEF TypeOK
  <2>3. UNCHANGED <<emitting, working, mailbox>>
    BY <1>12 DEF OnTimeout
  <2>4. /\ Open(a)' <=> Open(a) /\ a # id
        /\ Reported(a)' <=> Reported(a) \/ a = id
        /\ ReportedOnce(a) /\ ~(Reported(a) /\ a = id) => ReportedOnce(a)'
    BY <2>1, <2>2, Concluded
  <2>5. a = id => Open(a)
    BY DEF Open
  <2>6. /\ Posted(a)' <=> Posted(a)
        /\ QueuedOnce(a, "Multipler") => QueuedOnce(a, "Multipler")'
        /\ Unposted(a)' <=> Unposted(a)
        /\ Emitting(a)' <=> Emitting(a)
    BY <2>3 DEF QueuedOnce, Posted, Queued, EventOf, Unposted, Emitting
  <2>7. DataBefore(a)'
    BY <1>1, <2>3, <2>4 DEF DataFirst, DataBefore, EventOf
  <2>8. OnePlace(a)'
    BY <1>1, <2>4, <2>5, <2>6 DEF OnePlace
  <2> QED BY <1>1, <2>3, <2>4, <2>6, <2>7, <2>8 DEF DataFirst
<1> QED BY <1>2, <1>3, <1>4, <1>5, <1>6, <1>7, <1>9, <1>10, <1>11, <1>12 DEF Next

-----------------------------------------------------------------------------
(* The way of an inspection through its algorithm to the record. *)

(* The parts of a merged record are the parts of the record, and the result. *)
LEMMA MergedParts ==
  ASSUME NEW rec \in Record, NEW ias \in IasResult
  PROVE  \A j \in DOMAIN Merge(rec, ias).parts :
           \/ j \in DOMAIN rec.parts /\ Merge(rec, ias).parts[j] = rec.parts[j]
           \/ j = Len(rec.parts) + 1 /\ Merge(rec, ias).parts[j] = ias
<1>1. rec.parts \in Seq(IasResult)
  BY DEF Record
<1>2. Merge(rec, ias).parts = Append(rec.parts, ias)
  BY MergeType
<1> QED BY <1>1, <1>2, SeqAppend

(* Two inspections of one image by one algorithm are the same. *)
LEMMA SameWork ==
  ASSUME TypeOK, NamesInv, NEW v \in working, NEW w \in working,
         v.own, w.own, v.imageId = w.imageId, v.alg = w.alg
  PROVE  v = w
<1>1. PICK fo \in [ImageIds -> Nat] : NamedBy(fo)
  BY DEF NamesInv
<1>2. v.frame = w.frame /\ v \in Work /\ w \in Work
  BY <1>1 DEF NamedBy, Named, TypeOK
<1> QED BY <1>2 DEF Work

LEMMA AnswerStep ==
  ASSUME UniqueNames, TypeOK, NamesInv, AnswerInv, [Next]_vars,
         NEW a \in ImageIds, NEW g \in Algorithms
  PROVE  AnswersOnce(a, g)'
<1> USE DEF cameraVars, statVars, recordVars
<1>1. AnswersOnce(a, g) /\ g # "Multipler"
  BY ConstantsOK DEF AnswerInv
<1>2. CASE \/ Tick \/ SetRunType \/ GetStatistic \/ ClearStatistic \/ UNCHANGED vars
  <2>1. UNCHANGED <<emitting, working, mailbox, imageResultRecord>>
    BY <1>2 DEF Tick, SetRunType, GetStatistic, ClearStatistic, vars
  <2> QED BY <1>1, <2>1 DEF AnswersOnce, ToDo, Working, Answered, Merged, MergedOnce, QueuedOnce, Queued,
             EventOf, Open, Emitting
<1>3. ASSUME NEW id \in ImageIds, TakeImage(id) PROVE AnswersOnce(a, g)'
  <2>1. /\ UNCHANGED <<working, mailbox, imageResultRecord>> /\ id \notin history.names
        /\ emitting'.imageId = id
    BY <1>3 DEF TakeImage, NameImage
  <2>2. ToDo(a, g)' => a = id
    BY <2>1 DEF ToDo, Emitting
  <2>3. a = id => ~Working(a, g) /\ ~Answered(a, g) /\ ~Merged(a, g)
    BY <2>1, Fresh DEF Working, Answered, Merged
  <2>4. /\ Working(a, g)' <=> Working(a, g)
        /\ Answered(a, g)' <=> Answered(a, g)
        /\ Merged(a, g)' <=> Merged(a, g)
        /\ MergedOnce(a, g) => MergedOnce(a, g)'
        /\ QueuedOnce(a, g) => QueuedOnce(a, g)'
    BY <2>1 DEF Working, Answered, Merged, MergedOnce, QueuedOnce, Queued, EventOf, Open
  <2> QED BY <1>1, <2>2, <2>3, <2>4 DEF AnswersOnce
<1>4. ASSUME NEW id \in ImageIds, NEW gs \in SUBSET AIChannels, OtherImage(id, gs)
      PROVE  AnswersOnce(a, g)'
  <2>1. /\ UNCHANGED <<emitting, mailbox, imageResultRecord>>
        /\ working \subseteq working'
        /\ \A w \in working' : w \in working \/ ~w.own
    BY <1>4 DEF OtherImage
  <2>2. Working(a, g)' <=> Working(a, g)
    BY <2>1 DEF Working
  <2> QED BY <1>1, <2>1, <2>2 DEF AnswersOnce, ToDo, Answered, Merged, MergedOnce, QueuedOnce, Queued,
             EventOf, Open, Emitting
<1>5. ASSUME NEW s \in Subscribers, EmitImageData(s) PROVE AnswersOnce(a, g)'
  <2>1. /\ UNCHANGED imageResultRecord /\ emitting # << >>
        /\ ToDo(a, g)' => ToDo(a, g) /\ g # s
    BY <1>1, <1>5, Emitted, EmittedWhat
  <2>2. /\ Merged(a, g)' <=> Merged(a, g)
        /\ MergedOnce(a, g) => MergedOnce(a, g)'
    BY <2>1 DEF Merged, MergedOnce, Open
  <2>3. CASE s = "Multipler"
    <3>1. PICK e \in Event : mailbox' = Append(mailbox, e) /\ e.type = "data"
      BY <1>5, <2>3, EmittedWhat
    <3>2. ~EventOf(e, a, g)
      BY <1>1, <3>1 DEF EventOf
    <3>3. /\ Answered(a, g)' <=> Answered(a, g)
          /\ QueuedOnce(a, g) => QueuedOnce(a, g)'
      BY <3>1, <3>2, EventAdded DEF Answered
    <3>4. Working(a, g)' <=> Working(a, g)
      <4>1. working' = working
        BY <1>5, <2>3, EmittedWhat
      <4> QED BY <4>1 DEF Working
    <3> QED BY <1>1, <2>1, <2>2, <3>3, <3>4 DEF AnswersOnce
  <2>4. CASE s # "Multipler"
    <3>1. PICK w \in Work : /\ working' = working \cup {w} /\ w.own
                            /\ w.imageId = emitting.imageId /\ w.alg = s
      BY <1>5, <2>4, EmittedWhat
    <3>2. Working(a, g)' =>
            Working(a, g) \/ (emitting.imageId = a /\ g = s)
      BY <3>1 DEF Working
    <3>3. emitting.imageId = a /\ g = s => ToDo(a, g)
      BY <1>5, <2>1, Emitted DEF Emitting
    <3>4. /\ Answered(a, g)' <=> Answered(a, g)
          /\ QueuedOnce(a, g) => QueuedOnce(a, g)'
      <4>1. mailbox' = mailbox
        BY <1>5, <2>4, EmittedWhat
      <4> QED BY <4>1 DEF Answered, Queued, QueuedOnce, EventOf
    <3>5. ToDo(a, g)' /\ Working(a, g)' => Working(a, g)
      BY <2>1, <3>2
    <3> QED BY <1>1, <2>1, <2>2, <3>2, <3>3, <3>4, <3>5 DEF AnswersOnce
  <2> QED BY <2>3, <2>4
<1>6. ASSUME NEW w \in working, NEW r \in ImageResults, Infer(w, r) PROVE AnswersOnce(a, g)'
  <2>1. UNCHANGED <<emitting, imageResultRecord>> /\ working' = working \ {w}
    BY <1>6, InferAnswers
  <2>2. PICK e \in Event : /\ mailbox' = Append(mailbox, e)
                           /\ EventOf(e, a, g) <=> w.own /\ w.imageId = a /\ w.alg = g
    BY <1>1, <1>6, InferAnswers
  <2>3. /\ ToDo(a, g)' <=> ToDo(a, g)
        /\ Merged(a, g)' <=> Merged(a, g)
        /\ MergedOnce(a, g) => MergedOnce(a, g)'
    BY <2>1 DEF ToDo, Merged, MergedOnce, Open, Emitting
  <2>4. /\ Answered(a, g)' <=> Answered(a, g) \/ EventOf(e, a, g)
        /\ QueuedOnce(a, g) /\ ~(Answered(a, g) /\ EventOf(e, a, g)) => QueuedOnce(a, g)'
    BY <2>2, EventAdded DEF Answered
  <2>5. EventOf(e, a, g) => Working(a, g)
    BY <2>2 DEF Working
  <2>6. Working(a, g)' => Working(a, g) /\ ~EventOf(e, a, g)
    <3>1. ASSUME NEW v \in working', v.own, v.imageId = a, v.alg = g
          PROVE  Working(a, g) /\ ~EventOf(e, a, g)
      BY <2>1, <2>2, <3>1, SameWork DEF Working
    <3> QED BY <3>1 DEF Working
  <2> QED BY <1>1, <2>3, <2>4, <2>5, <2>6 DEF AnswersOnce
<1>7. ASSUME NEW w \in working, InferSkips(w) PROVE AnswersOnce(a, g)'
  <2>1. /\ UNCHANGED <<emitting, mailbox, imageResultRecord>> /\ working' \subseteq working
    BY <1>7 DEF InferSkips
  <2>2. Working(a, g)' => Working(a, g)
    BY <2>1 DEF Working
  <2> QED BY <1>1, <2>1, <2>2 DEF AnswersOnce, ToDo, Answered, Merged, MergedOnce, QueuedOnce, Queued,
             EventOf, Open, Emitting
<1>8. ASSUME NEW t \in {"data", "result"}, Take(t)
      PROVE  /\ ToDo(a, g)' <=> ToDo(a, g)
             /\ Working(a, g)' <=> Working(a, g)
             /\ Answered(a, g)' <=> Answered(a, g) /\ ~EventOf(Head(mailbox), a, g)
             /\ QueuedOnce(a, g)'
             /\ EventOf(Head(mailbox), a, g) => Answered(a, g)
  <2>1. mailbox # << >> /\ mailbox' = Tail(mailbox) /\ UNCHANGED <<emitting, working>>
    BY <1>8 DEF Take
  <2>2. /\ Answered(a, g)' <=> Answered(a, g) /\ ~EventOf(Head(mailbox), a, g)
        /\ QueuedOnce(a, g)'
        /\ EventOf(Head(mailbox), a, g) => Answered(a, g)
    BY <1>1, <2>1, EventTaken DEF Answered, AnswersOnce
  <2> QED BY <2>1, <2>2 DEF ToDo, Working, Emitting
<1>9. CASE OnImageData
  <2> DEFINE image == Head(mailbox).body
             new == NewRecord(image)
  <2>1. Take("data") /\ DOMAIN new.parts = {}
    BY <1>9 DEF OnImageData, NewRecord
  <2>2. \/ UNCHANGED imageResultRecord
        \/ imageResultRecord' = With(imageResultRecord, image.imageId, new)
    BY <1>9 DEF OnImageData
  <2> HIDE DEF new, image
  <2>3. /\ Merged(a, g)' => Merged(a, g)
        /\ MergedOnce(a, g) => MergedOnce(a, g)'
    BY <2>1, <2>2 DEF Merged, MergedOnce, Open, With
  <2> QED BY <1>1, <1>8, <2>1, <2>3 DEF AnswersOnce
<1>10. CASE OnResultDropped
  <2>1. Take("result") /\ UNCHANGED imageResultRecord
    BY <1>10 DEF OnResultDropped
  <2>2. /\ Merged(a, g)' <=> Merged(a, g)
        /\ MergedOnce(a, g) => MergedOnce(a, g)'
    BY <2>1 DEF Merged, MergedOnce, Open
  <2> QED BY <1>1, <1>8, <2>1, <2>2 DEF AnswersOnce
<1>11. CASE OnResultMerged
  <2> DEFINE ias == Head(mailbox).body
             id == ias.imageId
             new == Merge(imageResultRecord[id], ias)
  <2>1. /\ Take("result") /\ ias \in IasResult /\ id \in DOMAIN imageResultRecord /\ ias.own
        /\ imageResultRecord' = [imageResultRecord EXCEPT ![id] = new]
    BY <1>11, TakeType DEF OnResultMerged, HasRecord
  <2>2. imageResultRecord[id] \in Record
    BY <2>1 DEF TypeOK
  <2>4. \A j \in DOMAIN new.parts :
          \/ /\ j \in DOMAIN imageResultRecord[id].parts
             /\ new.parts[j] = imageResultRecord[id].parts[j]
          \/ j = Len(imageResultRecord[id].parts) + 1 /\ new.parts[j] = ias
    BY <2>1, <2>2, MergedParts
  <2>5. EventOf(Head(mailbox), a, g) <=> id = a /\ ias.alg = g
    BY <1>1, <2>1 DEF EventOf, Take
  <2> HIDE DEF new, id
  <2>6. Merged(a, g)' => Merged(a, g) \/ EventOf(Head(mailbox), a, g)
    BY <2>1, <2>4, <2>5 DEF Merged, Open
  <2>7. MergedOnce(a, g)'
    <3>1. CASE a # id
      BY <1>1, <2>1, <3>1 DEF AnswersOnce, MergedOnce, Open
    <3>2. CASE a = id
      <4>1. ias.alg = g => ~Merged(a, g)
        BY <1>1, <1>8, <2>1, <2>5, <3>2 DEF AnswersOnce
      <4>2. imageResultRecord'[a] = new
        BY <2>1, <3>2
      <4> QED BY <1>1, <2>1, <2>4, <3>2, <4>1, <4>2 DEF AnswersOnce, MergedOnce, Merged, Open
    <3> QED BY <3>1, <3>2
  <2> QED BY <1>1, <1>8, <2>1, <2>6, <2>7 DEF AnswersOnce
<1>12. ASSUME NEW id \in DOMAIN imageResultRecord, NEW rec \in Record, Conclude(id, rec)
       PROVE  /\ Merged(a, g)' => Merged(a, g)
              /\ MergedOnce(a, g) => MergedOnce(a, g)'
  BY <1>12, ConcludeType DEF Merged, MergedOnce, Open
<1>13. CASE OnResultConcludes
  <2> DEFINE ias == Head(mailbox).body
             id == ias.imageId
             rec == Merge(imageResultRecord[id], ias)
  <2>1. /\ Take("result") /\ ias \in IasResult /\ id \in DOMAIN imageResultRecord
        /\ Conclude(id, rec)
    BY <1>13, TakeType DEF OnResultConcludes, HasRecord
  <2>2. rec \in Record
    BY <2>1, MergeType DEF TypeOK
  <2> HIDE DEF rec, id, ias
  <2>3. /\ Merged(a, g)' => Merged(a, g)
        /\ MergedOnce(a, g) => MergedOnce(a, g)'
    BY <1>12, <2>1, <2>2
  <2> QED BY <1>1, <1>8, <2>1, <2>3 DEF AnswersOnce
<1>14. CASE OnTimeout
  <2>1. PICK id \in DOMAIN imageResultRecord : Conclude(id, imageResultRecord[id])
    BY <1>14 DEF OnTimeout
  <2>2. imageResultRecord[id] \in Record /\ UNCHANGED <<emitting, working, mailbox>>
    BY <1>14 DEF TypeOK, OnTimeout
  <2>3. /\ Merged(a, g)' => Merged(a, g)
        /\ MergedOnce(a, g) => MergedOnce(a, g)'
    BY <1>12, <2>1, <2>2
  <2> QED BY <1>1, <2>2, <2>3 DEF AnswersOnce, ToDo, Working, Answered, QueuedOnce, Queued,
             EventOf, Emitting
<1> QED BY <1>2, <1>3, <1>4, <1>5, <1>6, <1>7, <1>9, <1>10, <1>11, <1>13, <1>14 DEF Next

-----------------------------------------------------------------------------
(* What is reported, if names are used once. *)

LEMMA PlaceHolds == UniqueNames => (Spec => [](TypeOK /\ PlaceInv))
<1> SUFFICES ASSUME UniqueNames PROVE Spec => [](TypeOK /\ PlaceInv)
  OBVIOUS
<1>1. Init => PlaceInv
  <2> SUFFICES ASSUME Init PROVE PlaceInv
    OBVIOUS
  <2>1. /\ emitting = << >> /\ working = {} /\ DOMAIN mailbox = {} /\ DOMAIN reports = {}
        /\ DOMAIN imageResultRecord = {}
    BY DEF Init
  <2>2. \A a \in ImageIds : OnePlace(a) /\ DataFirst(a)
    BY <2>1 DEF OnePlace, DataFirst, DataBefore, QueuedOnce, Posted, Queued, Open, Reported,
           ReportedOnce, Unposted, Emitting
  <2> QED BY <2>1, <2>2, NamesInit DEF PlaceInv
<1>2. TypeOK /\ PlaceInv /\ [Next]_vars => (TypeOK /\ PlaceInv)'
  <2> SUFFICES ASSUME TypeOK, PlaceInv, [Next]_vars
               PROVE  TypeOK' /\ PlaceInv'
    OBVIOUS
  <2>1. NamesInv'
    BY NamesStep DEF PlaceInv
  <2>2. \A a \in ImageIds : OnePlace(a)' /\ DataFirst(a)'
    BY PlaceStep
  <2> QED BY <2>1, <2>2, TypeStep DEF PlaceInv
<1> QED BY <1>1, <1>2, TypeInit, PTL DEF Spec

(* If names are used once, no image is reported twice, and only with results that
   the algorithms gave for this very image. *)
THEOREM ReportsAreItsOwn == UniqueNames => (Spec => []ReportedOnceForItself)
<1>1. TypeOK /\ PlaceInv => ReportedOnceForItself
  <2> SUFFICES ASSUME TypeOK, PlaceInv, NEW k \in DOMAIN reports
               PROVE  LET rec == reports[k].record IN
                      /\ \A j \in DOMAIN reports : reports[j].record.frame = rec.frame => j = k
                      /\ \A j \in DOMAIN rec.parts : rec.parts[j].frame = rec.frame
                      /\ rec.frame \notin {imageResultRecord[id].frame :
                                             id \in DOMAIN imageResultRecord}
    BY DEF ReportedOnceForItself
  <2>1. PICK fo \in [ImageIds -> Nat] : NamedBy(fo)
    BY DEF PlaceInv, NamesInv
  <2> DEFINE a == reports[k].imageId
             rec == reports[k].record
  <2>2. a \in ImageIds
    <3>1. reports[k] \in Report
      BY DEF TypeOK
    <3> QED BY <3>1 DEF Report
  <2>3. RecordNamed(fo, a, rec) /\ OnePlace(a) /\ Reported(a)
    BY <2>1, <2>2 DEF NamedBy, PlaceInv, Reported
  <2>4. ASSUME NEW j \in DOMAIN reports, reports[j].record.frame = rec.frame PROVE j = k
    <3>1. Named(fo, reports[j].imageId, rec.frame)
      BY <2>1, <2>4 DEF NamedBy, RecordNamed
    <3>2. reports[j].imageId = a
      BY <2>1, <2>3, <3>1 DEF NamedBy, Named, RecordNamed
    <3> QED BY <2>3, <3>2 DEF OnePlace, ReportedOnce
  <2>5. \A j \in DOMAIN rec.parts : rec.parts[j].frame = rec.frame
    BY <2>3 DEF RecordNamed, Named
  <2>6. ASSUME NEW id \in DOMAIN imageResultRecord, imageResultRecord[id].frame = rec.frame
        PROVE  FALSE
    <3>1. id = a
      BY <2>1, <2>3, <2>6 DEF NamedBy, Named, RecordNamed
    <3> QED BY <2>3, <3>1 DEF OnePlace, Open
  <2> HIDE DEF rec, a
  <2>7. rec.frame \notin {imageResultRecord[id].frame : id \in DOMAIN imageResultRecord}
    BY <2>6
  <2> QED BY <2>4, <2>5, <2>7 DEF rec
<1> QED BY <1>1, PlaceHolds, PTL

(* If names are used once, the multipler drops a result of one of its images only
   after it has reported the image. *)
THEOREM DropsAreLate == UniqueNames => (Spec => DroppedOnlyWhenReported)
<1> SUFFICES ASSUME UniqueNames PROVE Spec => DroppedOnlyWhenReported
  OBVIOUS
<1>1. ASSUME TypeOK, PlaceInv, OnResultDropped, Head(mailbox).body.own
      PROVE  \E k \in DOMAIN reports : reports[k].record.frame = Head(mailbox).body.frame
  <2>1. PICK fo \in [ImageIds -> Nat] : NamedBy(fo)
    BY <1>1 DEF PlaceInv, NamesInv
  <2> DEFINE e == Head(mailbox)
             a == e.body.imageId
             g == e.body.alg
  <2>2. /\ mailbox \in Seq(Event) /\ mailbox # << >> /\ e.type = "result" /\ e.body.own
        /\ a \notin DOMAIN imageResultRecord
    BY <1>1 DEF OnResultDropped, Take, HasRecord, TypeOK
  <2>3. e.body \in IasResult
    BY <1>1, TakeType DEF OnResultDropped
  <2>4. g \in Algorithms /\ g # "Multipler" /\ a \in ImageIds
    BY <2>3, ConstantsOK DEF IasResult
  <2>5. EventOf(e, a, g)
    BY <2>2, <2>4 DEF EventOf
  <2>6. 1 \in DOMAIN mailbox /\ mailbox[1] = e /\ \A j \in DOMAIN mailbox : ~(j < 1)
    <3>1. DOMAIN mailbox = 1..Len(mailbox) /\ Len(mailbox) \in Nat
      BY <2>2
    <3> QED BY <2>2, <3>1, SeqTail
  <2> HIDE DEF e
  <2>7. DataBefore(a)
    BY <1>1, <2>4 DEF PlaceInv, DataFirst
  <2>8. Reported(a)
    BY <2>2, <2>4, <2>5, <2>6, <2>7 DEF DataBefore, Open
  <2>9. PICK k \in DOMAIN reports : reports[k].imageId = a
    BY <2>8 DEF Reported
  <2>10. Named(fo, a, reports[k].record.frame) /\ Named(fo, a, e.body.frame)
    BY <2>1, <2>6, <2>9 DEF NamedBy, RecordNamed
  <2> QED BY <2>10 DEF Named, e
<1>2. TypeOK /\ PlaceInv /\ [Next]_vars =>
        [OnResultDropped /\ Head(mailbox).body.own =>
           \E k \in DOMAIN reports :
             reports[k].record.frame = Head(mailbox).body.frame]_vars
  BY <1>1
<1> QED BY <1>2, PlaceHolds, PTL DEF Spec, DroppedOnlyWhenReported

-----------------------------------------------------------------------------
(* What is concluded, if moreover no capture time lies in the future. *)

LEMMA FutureStep ==
  ASSUME Compensation <= 0, TypeOK, NothingFromTheFuture, [Next]_vars
  PROVE  NothingFromTheFuture'
<1> USE DEF cameraVars, statVars, recordVars
<1>1. CASE \/ Tick \/ SetRunType \/ GetStatistic \/ ClearStatistic \/ UNCHANGED vars
           \/ \E id \in ImageIds : \E gs \in SUBSET AIChannels : OtherImage(id, gs)
           \/ \E w \in working : InferSkips(w)
  <2>1. UNCHANGED <<emitting, mailbox, imageResultRecord>> /\ (now' = now \/ now' = now + 1)
    BY <1>1 DEF Tick, SetRunType, GetStatistic, ClearStatistic, OtherImage, InferSkips, vars
  <2>2. /\ now \in Nat
        /\ emitting # << >> => emitting.gen \in Int
        /\ \A i \in DOMAIN mailbox : mailbox[i].type = "data" => mailbox[i].body.gen \in Int
        /\ \A id \in DOMAIN imageResultRecord : imageResultRecord[id].gen \in Int
    BY DEF TypeOK, Emission, Event, Image, Record
  <2> QED BY <2>1, <2>2 DEF NothingFromTheFuture
<1>2. ASSUME NEW id \in ImageIds, TakeImage(id) PROVE NothingFromTheFuture'
  <2>1. /\ UNCHANGED <<now, mailbox, imageResultRecord>> /\ now \in Nat
        /\ emitting'.gen = now + Compensation
    BY <1>2 DEF TakeImage, TypeOK
  <2>2. now + Compensation <= now
    BY <2>1, ConstantsOK
  <2> QED BY <2>1, <2>2 DEF NothingFromTheFuture
<1>3. ASSUME NEW s \in Subscribers, EmitImageData(s) PROVE NothingFromTheFuture'
  <2>1. UNCHANGED <<now, imageResultRecord>> /\ emitting # << >>
    BY <1>3, EmittedWhat
  <2>2. emitting' # << >> => emitting'.gen = emitting.gen
    <3>1. \A x : [emitting EXCEPT !.todo = x].gen = emitting.gen
      BY <2>1 DEF TypeOK, Emission
    <3>2. emitting' = << >> \/ emitting' = [emitting EXCEPT !.todo = @ \ {s}]
      BY <1>3 DEF EmitImageData
    <3> QED BY <3>1, <3>2
  <2>3. \A i \in DOMAIN mailbox' : mailbox'[i].type = "data" => mailbox'[i].body.gen <= now
    <3>1. CASE mailbox' = mailbox
      BY <3>1 DEF NothingFromTheFuture
    <3>2. CASE \E e \in Event : mailbox' = Append(mailbox, e) /\ e.body.gen = emitting.gen
      <4>1. PICK e \in Event : mailbox' = Append(mailbox, e) /\ e.body.gen = emitting.gen
        BY <3>2
      <4>2. \A i \in DOMAIN mailbox' :
              (i \in DOMAIN mailbox /\ mailbox'[i] = mailbox[i]) \/ mailbox'[i] = e
        BY <4>1, SeqAppend DEF TypeOK
      <4> QED BY <2>1, <4>1, <4>2 DEF NothingFromTheFuture
    <3> QED BY <1>3, <3>1, <3>2, EmittedWhat
  <2> QED BY <2>1, <2>2, <2>3 DEF NothingFromTheFuture
<1>4. ASSUME NEW w \in working, NEW r \in ImageResults, Infer(w, r)
      PROVE  NothingFromTheFuture'
  <2>1. PICK e \in Event : mailbox' = Append(mailbox, e) /\ e.type = "result"
    BY <1>4, InferAnswers
  <2>2. \A i \in DOMAIN mailbox' :
          (i \in DOMAIN mailbox /\ mailbox'[i] = mailbox[i]) \/ mailbox'[i] = e
    BY <2>1, SeqAppend DEF TypeOK
  <2>3. UNCHANGED <<now, emitting, imageResultRecord>>
    BY <1>4, InferAnswers
  <2> QED BY <2>1, <2>2, <2>3 DEF NothingFromTheFuture
<1>5. ASSUME NEW t \in {"data", "result"}, Take(t),
             \A id \in DOMAIN imageResultRecord' : imageResultRecord'[id].gen <= now
      PROVE  NothingFromTheFuture'
  <2>1. mailbox # << >> /\ mailbox' = Tail(mailbox) /\ UNCHANGED <<now, emitting>>
    BY <1>5 DEF Take
  <2>2. \A i \in DOMAIN mailbox' : i + 1 \in DOMAIN mailbox /\ mailbox'[i] = mailbox[i + 1]
    BY <2>1, SeqTail DEF TypeOK
  <2> QED BY <1>5, <2>1, <2>2 DEF NothingFromTheFuture
<1>6. CASE OnImageData
  <2> DEFINE image == Head(mailbox).body
             new == NewRecord(image)
  <2>1. Take("data") /\ new.gen = image.gen
    BY <1>6 DEF OnImageData, NewRecord
  <2>2. \/ UNCHANGED imageResultRecord
        \/ imageResultRecord' = With(imageResultRecord, image.imageId, new)
    BY <1>6 DEF OnImageData
  <2>3. image.gen <= now
    <3>1. mailbox \in Seq(Event) /\ mailbox # << >> /\ Head(mailbox).type = "data"
      BY <2>1 DEF Take, TypeOK
    <3>2. 1 \in DOMAIN mailbox /\ mailbox[1] = Head(mailbox)
      BY <3>1, SeqTail
    <3> QED BY <3>1, <3>2 DEF NothingFromTheFuture
  <2> HIDE DEF new, image
  <2>4. \A id \in DOMAIN imageResultRecord' : imageResultRecord'[id].gen <= now
    BY <2>1, <2>2, <2>3 DEF With, NothingFromTheFuture
  <2> QED BY <1>5, <2>1, <2>4
<1>7. CASE OnResultDropped
  <2>1. Take("result") /\ UNCHANGED imageResultRecord
    BY <1>7 DEF OnResultDropped
  <2> QED BY <1>5, <2>1 DEF NothingFromTheFuture
<1>8. CASE OnResultMerged
  <2> DEFINE ias == Head(mailbox).body
             id == ias.imageId
             new == Merge(imageResultRecord[id], ias)
  <2>1. /\ Take("result") /\ ias \in IasResult /\ id \in DOMAIN imageResultRecord
        /\ imageResultRecord' = [imageResultRecord EXCEPT ![id] = new]
    BY <1>8, TakeType DEF OnResultMerged, HasRecord
  <2>2. imageResultRecord[id] \in Record
    BY <2>1 DEF TypeOK
  <2>3. new.gen = imageResultRecord[id].gen
    BY <2>1, <2>2, MergeType
  <2> HIDE DEF new, id, ias
  <2>4. \A i \in DOMAIN imageResultRecord' : imageResultRecord'[i].gen <= now
    BY <2>1, <2>3 DEF NothingFromTheFuture
  <2> QED BY <1>5, <2>1, <2>4
<1>9. ASSUME NEW id \in DOMAIN imageResultRecord, NEW rec \in Record, Conclude(id, rec)
      PROVE  \A i \in DOMAIN imageResultRecord' : imageResultRecord'[i].gen <= now
  BY <1>9, ConcludeType DEF NothingFromTheFuture
<1>10. CASE OnResultConcludes
  <2> DEFINE ias == Head(mailbox).body
             id == ias.imageId
             rec == Merge(imageResultRecord[id], ias)
  <2>1. /\ Take("result") /\ ias \in IasResult /\ id \in DOMAIN imageResultRecord
        /\ Conclude(id, rec)
    BY <1>10, TakeType DEF OnResultConcludes, HasRecord
  <2>2. rec \in Record
    BY <2>1, MergeType DEF TypeOK
  <2> HIDE DEF rec, id, ias
  <2> QED BY <1>5, <1>9, <2>1, <2>2
<1>11. CASE OnTimeout
  <2>1. PICK id \in DOMAIN imageResultRecord : Conclude(id, imageResultRecord[id])
    BY <1>11 DEF OnTimeout
  <2>2. imageResultRecord[id] \in Record /\ UNCHANGED <<now, emitting, mailbox>>
    BY <1>11 DEF TypeOK, OnTimeout
  <2> QED BY <1>9, <2>1, <2>2 DEF NothingFromTheFuture
<1> QED BY <1>1, <1>2, <1>3, <1>4, <1>6, <1>7, <1>8, <1>10, <1>11 DEF Next

(* As many different elements of a finite set as it has are all of them. *)
LEMMA AllDifferent ==
  ASSUME NEW S, IsFiniteSet(S), NEW n \in Nat, n >= Cardinality(S),
         NEW f \in [1..n -> S], \A i, j \in 1..n : f[i] = f[j] => i = j
  PROVE  \A x \in S : \E i \in 1..n : f[i] = x
<1>1. f \in Injection(1..n, S)
  BY DEF Injection, IsInjective
<1>2. Cardinality(1..n) = n
  BY FS_Interval
<1>3. Cardinality(S) \in Nat
  BY FS_CardinalityType
<1>4. Cardinality(1..n) <= Cardinality(S)
      /\ (Cardinality(1..n) = Cardinality(S) <=> f \in Surjection(1..n, S))
  BY <1>1, FS_Injection
<1>5. f \in Surjection(1..n, S)
  BY <1>2, <1>3, <1>4
<1> QED BY <1>5 DEF Surjection

(* The algorithms whose results are merged in a record. *)
MergedIn(rec) == {rec.parts[j].alg : j \in DOMAIN rec.parts}

(* The last result completes the record: none came twice, so none is missing. *)
LEMMA LastResultCompletes ==
  ASSUME TypeOK, CountsMatch, AnswerInv, Take("result"),
         NEW ias, ias = Head(mailbox).body, HasRecord(ias), IsLastResult(ias.imageId),
         NEW old, old = imageResultRecord[ias.imageId],
         NEW rec, rec = Merge(old, ias)
  PROVE  MergedIn(rec) = Algorithms
<1> DEFINE id == ias.imageId
           g == ias.alg
<1>1. /\ ias \in IasResult /\ id \in DOMAIN imageResultRecord /\ ias.own /\ old \in Record
  BY TakeType DEF HasRecord, TypeOK
<1>2. old.parts \in Seq(IasResult) /\ rec.parts = Append(old.parts, ias)
  <2>1. old.parts \in Seq(IasResult)
    BY <1>1 DEF Record
  <2> QED BY <1>1, <2>1, MergeType
<1>3. PICK n \in Nat :
        /\ n = Len(old.parts) /\ DOMAIN old.parts = 1..n /\ DOMAIN rec.parts = 1..(n + 1)
        /\ rec.parts[n + 1] = ias
        /\ \A j \in DOMAIN old.parts : rec.parts[j] = old.parts[j]
  <2>1. PICK parts \in Seq(IasResult) : parts = old.parts
    BY <1>2
  <2>2. /\ Len(parts) \in Nat /\ DOMAIN parts = 1..Len(parts)
        /\ DOMAIN Append(parts, ias) = 1..(Len(parts) + 1)
        /\ Append(parts, ias)[Len(parts) + 1] = ias
        /\ \A j \in DOMAIN parts : Append(parts, ias)[j] = parts[j]
    BY <1>1, SeqAppend
  <2>3. rec.parts = Append(parts, ias)
    BY <1>2, <2>1
  <2> QED BY <2>1, <2>2, <2>3, Zenon
<1>5. 1 \in DOMAIN mailbox /\ mailbox[1] = Head(mailbox) /\ Head(mailbox).type = "result"
  <2>1. mailbox \in Seq(Event) /\ mailbox # << >> /\ Head(mailbox).type = "result"
    BY DEF Take, TypeOK
  <2> QED BY <2>1, SeqTail
<1>6. g \in Algorithms /\ g # "Multipler" /\ id \in ImageIds
  BY <1>1, ConstantsOK DEF IasResult
<1>7. ~Merged(id, g)
  <2>1. EventOf(mailbox[1], id, g)
    BY <1>1, <1>5, <1>6 DEF EventOf
  <2>2. Answered(id, g)
    BY <1>5, <2>1 DEF Answered, Queued
  <2> QED BY <1>6, <2>2 DEF AnswerInv, AnswersOnce
<1>8. \A j \in 1..n : old.parts[j].alg \in Algorithms /\ old.parts[j].alg # g
  <2> SUFFICES ASSUME NEW j \in 1..n
               PROVE  old.parts[j].alg \in Algorithms /\ old.parts[j].alg # g
    OBVIOUS
  <2>1. PICK parts \in Seq(IasResult) : parts = old.parts
    BY <1>2
  <2>2. DOMAIN parts = 1..Len(parts) /\ Len(parts) = n
    BY <1>3, <2>1
  <2>3. parts[j] \in IasResult
    BY <2>2
  <2>4. old.parts[j].alg \in Algorithms
    BY <2>1, <2>3 DEF IasResult
  <2>5. j \in DOMAIN old.parts
    BY <1>3
  <2> QED BY <1>1, <1>7, <2>4, <2>5 DEF Merged, Open
<1>9. \A i, j \in 1..n : old.parts[i].alg = old.parts[j].alg => i = j
  <2> SUFFICES ASSUME NEW i \in 1..n, NEW j \in 1..n,
                      old.parts[i].alg = old.parts[j].alg
               PROVE  i = j
    OBVIOUS
  <2> DEFINE h == old.parts[i].alg
  <2>1. h \in Algorithms /\ old.parts[j].alg = h
    BY <1>8
  <2>2. i \in DOMAIN old.parts /\ j \in DOMAIN old.parts
    BY <1>3
  <2>3. AnswersOnce(id, h)
    BY <1>6, <2>1 DEF AnswerInv
  <2> HIDE DEF h
  <2>4. \A p, q \in DOMAIN imageResultRecord[id].parts :
          imageResultRecord[id].parts[p].alg = h /\ imageResultRecord[id].parts[q].alg = h
            => p = q
    BY <1>1, <2>3 DEF AnswersOnce, MergedOnce, Open
  <2>5. old.parts[i].alg = h /\ old.parts[j].alg = h
    BY <2>1 DEF h
  <2> QED BY <2>2, <2>4, <2>5
<1>10. IsFiniteSet(Algorithms) /\ n + 1 >= Cardinality(Algorithms)
  <2>1. IsFiniteSet(Algorithms) /\ Cardinality(Algorithms) \in Nat
    BY ConstantsOK, FS_CardinalityType
  <2>2. Received(id) = n
    BY <1>1, <1>3 DEF CountsMatch
  <2> QED BY <2>1, <2>2 DEF IsLastResult, IasCount
<1> DEFINE f == [j \in 1..(n + 1) |-> rec.parts[j].alg]
<1> HIDE DEF g
<1>11. \A j \in 1..(n + 1) : \/ /\ j \in 1..n /\ f[j] = old.parts[j].alg
                                /\ f[j] \in Algorithms /\ f[j] # g
                             \/ j = n + 1 /\ f[j] = g
  <2> SUFFICES ASSUME NEW j \in 1..(n + 1)
               PROVE  \/ /\ j \in 1..n /\ f[j] = old.parts[j].alg
                         /\ f[j] \in Algorithms /\ f[j] # g
                      \/ j = n + 1 /\ f[j] = g
    OBVIOUS
  <2>1. j \in 1..n \/ j = n + 1
    OBVIOUS
  <2> QED BY <1>3, <1>8, <2>1 DEF g
<1> HIDE DEF f
<1>12. f \in [1..(n + 1) -> Algorithms]
  BY <1>6, <1>11 DEF f
<1>13. ASSUME NEW i \in 1..(n + 1), NEW j \in 1..(n + 1), f[i] = f[j] PROVE i = j
  <2>1. CASE i \in 1..n /\ j \in 1..n
    <3>1. i # n + 1 /\ j # n + 1
      BY <2>1
    <3> QED BY <1>9, <1>11, <1>13, <2>1, <3>1
  <2>2. CASE i = n + 1 \/ j = n + 1
    <3>1. ~(n + 1 \in 1..n)
      OBVIOUS
    <3> QED BY <1>11, <1>13, <2>2, <3>1
  <2> QED BY <2>1, <2>2
<1>14. \A x \in Algorithms : \E j \in 1..(n + 1) : f[j] = x
  <2>1. n + 1 \in Nat
    OBVIOUS
  <2>2. \A i, j \in 1..(n + 1) : f[i] = f[j] => i = j
    BY <1>13
  <2> QED BY <1>10, <1>12, <2>1, <2>2, AllDifferent
<1>15. \A j \in 1..(n + 1) : f[j] = rec.parts[j].alg
  BY DEF f
<1>16. DOMAIN rec.parts = 1..(n + 1)
  BY <1>3
<1>17. ASSUME NEW x \in MergedIn(rec) PROVE x \in Algorithms
  <2>1. PICK j \in 1..(n + 1) : x = rec.parts[j].alg
    BY <1>16, <1>17 DEF MergedIn
  <2>2. x = f[j]
    BY <1>15, <2>1
  <2> QED BY <1>12, <2>2
<1>18. ASSUME NEW x \in Algorithms PROVE x \in MergedIn(rec)
  <2>1. PICK j \in 1..(n + 1) : f[j] = x
    BY <1>14
  <2>2. j \in DOMAIN rec.parts /\ rec.parts[j].alg = x
    BY <1>15, <1>16, <2>1
  <2> QED BY <2>2 DEF MergedIn
<1> QED BY <1>17, <1>18

LEMMA AnswerHolds == UniqueNames => (Spec => [](TypeOK /\ CountsMatch /\ AnswerInv))
<1> SUFFICES ASSUME UniqueNames PROVE Spec => [](TypeOK /\ CountsMatch /\ AnswerInv)
  OBVIOUS
<1>1. Init => AnswerInv
  <2> SUFFICES ASSUME Init PROVE AnswerInv
    OBVIOUS
  <2>1. /\ emitting = << >> /\ working = {} /\ DOMAIN mailbox = {}
        /\ DOMAIN imageResultRecord = {}
    BY DEF Init
  <2> QED BY <2>1 DEF AnswerInv, AnswersOnce, ToDo, Working, Answered, Merged, MergedOnce,
             QueuedOnce, Queued, Open, Emitting
<1>2. TypeOK /\ PlaceInv /\ AnswerInv /\ [Next]_vars => AnswerInv'
  <2> SUFFICES ASSUME TypeOK, PlaceInv, AnswerInv, [Next]_vars PROVE AnswerInv'
    OBVIOUS
  <2>1. \A a \in ImageIds : \A g \in Algorithms : AnswersOnce(a, g)'
    BY AnswerStep DEF PlaceInv
  <2> QED BY <2>1 DEF AnswerInv
<1>3. MergeInv => CountsMatch
  BY DEF MergeInv
<1> QED BY <1>1, <1>2, <1>3, PlaceHolds, MergeInvHolds, PTL DEF Spec

(* An age that wraps around is never more than the age. *)
LEMMA WrappedAge == \A x \in Nat : x % Word <= x
<1> SUFFICES ASSUME NEW x \in Nat PROVE x % Word <= x
  OBVIOUS
<1>1. Word \in Nat /\ Word > 0
  BY ConstantsOK
<1>2. CASE x < Word
  BY <1>1, <1>2
<1>3. CASE ~(x < Word)
  BY <1>1, <1>3
<1> QED BY <1>2, <1>3

(* If names are used once and the compensation is not negative, every algorithm
   has answered a reported image unless it is as old as the timeout. *)
THEOREM ConcludedIsComplete ==
  UniqueNames /\ Compensation <= 0 => (Spec => []AllAlgorithmsAnswered)
<1> SUFFICES ASSUME UniqueNames, Compensation <= 0 PROVE Spec => []AllAlgorithmsAnswered
  OBVIOUS
<1> DEFINE Complete(rec, age) ==
      age >= InferTimeout \/ {rec.parts[j].alg : j \in DOMAIN rec.parts} = Algorithms
<1>1. Init => NothingFromTheFuture /\ AllAlgorithmsAnswered
  <2> SUFFICES ASSUME Init PROVE NothingFromTheFuture /\ AllAlgorithmsAnswered
    OBVIOUS
  <2>1. /\ emitting = << >> /\ DOMAIN mailbox = {} /\ DOMAIN imageResultRecord = {}
        /\ DOMAIN reports = {}
    BY DEF Init
  <2> QED BY <2>1 DEF NothingFromTheFuture, AllAlgorithmsAnswered
<1>2. TypeOK /\ NothingFromTheFuture /\ [Next]_vars => NothingFromTheFuture'
  BY FutureStep
<1>3. TypeOK /\ CountsMatch /\ AnswerInv /\ NothingFromTheFuture /\ AllAlgorithmsAnswered
        /\ [Next]_vars => AllAlgorithmsAnswered'
  <2> SUFFICES ASSUME TypeOK, CountsMatch, AnswerInv, NothingFromTheFuture,
                      AllAlgorithmsAnswered, [Next]_vars
               PROVE  AllAlgorithmsAnswered'
    OBVIOUS
  <2>1. CASE UNCHANGED reports
    BY <2>1 DEF AllAlgorithmsAnswered
  <2>2. ASSUME NEW id \in DOMAIN imageResultRecord, NEW rec \in Record, Conclude(id, rec),
               Complete(rec, now - rec.gen)
        PROVE  AllAlgorithmsAnswered'
    <3> SUFFICES ASSUME NEW k \in DOMAIN reports'
                 PROVE  Complete(reports'[k].record, reports'[k].age)
      BY DEF AllAlgorithmsAnswered
    <3>1. CASE k \in DOMAIN reports /\ reports'[k] = reports[k]
      BY <3>1 DEF AllAlgorithmsAnswered
    <3>2. CASE reports'[k].record = rec /\ reports'[k].age = now - rec.gen
      BY <2>2, <3>2
    <3> QED BY <2>2, <3>1, <3>2, ConcludeReports
  <2>3. CASE OnResultConcludes
    <3>1. /\ Take("result") /\ HasRecord(Head(mailbox).body)
          /\ IsLastResult(Head(mailbox).body.imageId)
          /\ Conclude(Head(mailbox).body.imageId,
                      Merge(imageResultRecord[Head(mailbox).body.imageId], Head(mailbox).body))
      BY <2>3 DEF OnResultConcludes
    <3>2. PICK ias : ias = Head(mailbox).body
      OBVIOUS
    <3>3. PICK rec : rec = Merge(imageResultRecord[ias.imageId], ias)
      OBVIOUS
    <3>4. /\ ias \in IasResult /\ ias.imageId \in DOMAIN imageResultRecord
          /\ Conclude(ias.imageId, rec)
      BY <3>1, <3>2, <3>3, TakeType DEF HasRecord
    <3>5. rec \in Record
      BY <3>3, <3>4, MergeType DEF TypeOK
    <3>6. Complete(rec, now - rec.gen)
      <4>1. Take("result") /\ HasRecord(ias) /\ IsLastResult(ias.imageId)
        BY <3>1, <3>2
      <4>2. PICK old : old = imageResultRecord[ias.imageId]
        OBVIOUS
      <4>3. rec = Merge(old, ias)
        BY <3>3, <4>2
      <4>4. MergedIn(rec) = Algorithms
        BY <3>2, <4>1, <4>2, <4>3, LastResultCompletes
      <4> QED BY <4>4 DEF MergedIn
    <3> QED BY <2>2, <3>4, <3>5, <3>6
  <2>4. CASE OnTimeout
    <3>1. PICK id \in DOMAIN imageResultRecord :
            Expired(imageResultRecord[id]) /\ Conclude(id, imageResultRecord[id])
      BY <2>4 DEF OnTimeout
    <3>2. imageResultRecord[id] \in Record
      BY DEF TypeOK
    <3>3. now - imageResultRecord[id].gen \in Nat
      BY <3>2 DEF TypeOK, Record, NothingFromTheFuture
    <3>4. now - imageResultRecord[id].gen >= InferTimeout
      <4>1. (now - imageResultRecord[id].gen) % Word >= InferTimeout
        BY <3>1 DEF Expired
      <4>2. (now - imageResultRecord[id].gen) % Word <= now - imageResultRecord[id].gen
        BY <3>3, WrappedAge
      <4>3. /\ (now - imageResultRecord[id].gen) % Word \in Nat /\ InferTimeout \in Nat
        BY <3>3, ConstantsOK
      <4> QED BY <3>3, <4>1, <4>2, <4>3
    <3> QED BY <2>2, <3>1, <3>2, <3>4
  <2>5. \/ UNCHANGED reports \/ OnResultConcludes \/ OnTimeout
    BY DEF Next, vars, Tick, SetRunType, TakeImage, EmitImageData, OtherImage, Infer,
           InferSkips, OnImageData, OnResultDropped, OnResultMerged, GetStatistic,
           ClearStatistic
  <2> QED BY <2>1, <2>3, <2>4, <2>5
<1> QED BY <1>1, <1>2, <1>3, AnswerHolds, PTL DEF Spec

-----------------------------------------------------------------------------
(* The promise of Answering. *)

(* A frame that is reported has been taken. *)
LEMMA ReportedWasTaken ==
  ASSUME TypeOK, PlaceInv, NEW k \in DOMAIN reports
  PROVE  reports[k].record.frame \in 0..history.frames - 1
<1>1. PICK fo \in [ImageIds -> Nat] : NamedBy(fo)
  BY DEF PlaceInv, NamesInv
<1>2. RecordNamed(fo, reports[k].imageId, reports[k].record)
  BY <1>1 DEF NamedBy
<1>3. /\ reports[k].record.frame \in Nat /\ reports[k].record.frame < history.frames
      /\ history.frames \in Nat
  <2>1. reports[k].imageId \in ImageIds /\ history.frames \in Nat
    <3>1. reports[k] \in Report
      BY DEF TypeOK
    <3> QED BY <3>1 DEF Report, TypeOK, History
  <2> QED BY <1>1, <1>2, <2>1 DEF RecordNamed, Named, NamedBy
<1> QED BY <1>3

LEMMA ReportsAreOwn ==
  TypeOK /\ PlaceInv /\ ReportedOnceForItself =>
    \A k \in DOMAIN reports :
      /\ reports[k].record.frame \in 0..history.frames - 1
      /\ \A j \in DOMAIN reports :
           reports[j].record.frame = reports[k].record.frame => j = k
  BY ReportedWasTaken DEF ReportedOnceForItself

LEMMA NextReportsAreOwn ==
  (TypeOK /\ PlaceInv /\ ReportedOnceForItself)' =>
    (\A k \in DOMAIN reports :
       /\ reports[k].record.frame \in 0..history.frames - 1
       /\ \A j \in DOMAIN reports :
            reports[j].record.frame = reports[k].record.frame => j = k)'
  BY ReportsAreOwn, PTL

(* A step reports nothing, or concludes one image and takes none. *)
LEMMA ReportsGrow ==
  ASSUME TypeOK, [Next]_vars
  PROVE  \/ reports' = reports /\ history'.frames \in {history.frames, history.frames + 1}
         \/ /\ history' = history
            /\ DOMAIN reports \subseteq DOMAIN reports'
            /\ \A k \in DOMAIN reports : reports'[k] = reports[k]
<1> USE DEF cameraVars, statVars, recordVars
<1>1. CASE \/ Tick \/ SetRunType \/ GetStatistic \/ ClearStatistic
           \/ (\E s \in Subscribers : EmitImageData(s))
           \/ (\E w \in working : \E r \in ImageResults : Infer(w, r))
           \/ (\E w \in working : InferSkips(w))
           \/ OnImageData \/ OnResultDropped \/ OnResultMerged \/ UNCHANGED vars
  <2>1. reports' = reports
    BY <1>1 DEF Tick, SetRunType, GetStatistic, ClearStatistic, EmitImageData, Infer,
           InferSkips, OnImageData, OnResultDropped, OnResultMerged, vars
  <2>2. history'.frames = history.frames
    BY <1>1 DEF Tick, SetRunType, GetStatistic, ClearStatistic, EmitImageData, Infer,
           InferSkips, OnImageData, OnResultDropped, OnResultMerged, Take, vars, TypeOK,
           History
  <2> QED BY <2>1, <2>2
<1>2. ASSUME NEW id \in ImageIds,
             TakeImage(id) \/ \E gs \in SUBSET AIChannels : OtherImage(id, gs)
      PROVE  reports' = reports /\ history'.frames = history.frames + 1
  BY <1>2 DEF TakeImage, OtherImage, NameImage, TypeOK, History
<1>3. ASSUME NEW id \in DOMAIN imageResultRecord, NEW rec \in Record, Conclude(id, rec),
             history' = history
      PROVE  /\ history' = history
             /\ DOMAIN reports \subseteq DOMAIN reports'
             /\ \A k \in DOMAIN reports : reports'[k] = reports[k]
  BY <1>3, ConcludeReports
<1>4. CASE OnResultConcludes
  <2>1. /\ HasRecord(Head(mailbox).body) /\ history' = history
        /\ Conclude(Head(mailbox).body.imageId,
             Merge(imageResultRecord[Head(mailbox).body.imageId], Head(mailbox).body))
    BY <1>4 DEF OnResultConcludes, Take
  <2>2. Head(mailbox).body.imageId \in DOMAIN imageResultRecord
    BY <2>1 DEF HasRecord
  <2>3. Merge(imageResultRecord[Head(mailbox).body.imageId], Head(mailbox).body) \in Record
    BY <1>4, <2>2, TakeType, MergeType DEF OnResultConcludes, TypeOK
  <2> QED BY <1>3, <2>1, <2>2, <2>3
<1>5. CASE OnTimeout
  <2>1. PICK id \in DOMAIN imageResultRecord : Conclude(id, imageResultRecord[id])
    BY <1>5 DEF OnTimeout
  <2>2. imageResultRecord[id] \in Record /\ history' = history
    BY <1>5 DEF OnTimeout, TypeOK
  <2> QED BY <1>3, <2>1, <2>2
<1> QED BY <1>1, <1>2, <1>4, <1>5 DEF Next

(* Every step takes images, reports one, or does neither. *)
LEMMA ServingStep ==
  ASSUME TypeOK, PlaceInv, ReportedOnceForItself,
         (TypeOK /\ PlaceInv /\ ReportedOnceForItself)', [Next]_vars
  PROVE  Served!Next
<1>1. CASE reports' = reports /\ history'.frames \in {history.frames, history.frames + 1}
  <2>1. history.frames \in Nat
    BY DEF TypeOK, History
  <2>2. Served!Ask
    BY <1>1, <2>1 DEF Served!Ask
  <2> QED BY <2>2 DEF Served!Next
<1>2. CASE /\ history' = history
           /\ DOMAIN reports \subseteq DOMAIN reports'
           /\ \A k \in DOMAIN reports : reports'[k] = reports[k]
  <2>1. \A k \in DOMAIN reports' :
          /\ reports'[k].record.frame \in 0..history.frames - 1
          /\ \A j \in DOMAIN reports' :
               reports'[j].record.frame = reports'[k].record.frame => j = k
    BY <1>2, NextReportsAreOwn
  <2>2. Served!Answer
    BY <1>2, <2>1 DEF Served!Answer, Served!IsOwn
  <2> QED BY <2>2 DEF Served!Next
<1> QED BY <1>1, <1>2, ReportsGrow

(* If names are used once, the multipler implements Answering: it reports only
   images that were taken, and none twice, for any names, algorithms, timeouts and
   clocks; PacketResult and the policy store may build on it. *)
THEOREM MultiplerAnswers == UniqueNames => (Spec => ReportsWhatIsTaken)
<1> SUFFICES ASSUME UniqueNames PROVE Spec => ReportsWhatIsTaken
  OBVIOUS
<1> DEFINE Inv == TypeOK /\ PlaceInv /\ ReportedOnceForItself
<1>1. Init => Served!Init
  BY DEF Init, HistoryInit, Served!Init
<1>2. Inv /\ Inv' /\ [Next]_vars => [Served!Next]_(Served!vars)
  BY ServingStep
<1>3. Spec => []Inv
  BY PlaceHolds, ReportsAreItsOwn, PTL
<1> QED BY <1>1, <1>2, <1>3, PTL DEF Spec, ReportsWhatIsTaken, Served!Spec

=============================================================================
