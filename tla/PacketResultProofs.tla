------------------------- MODULE PacketResultProofs -------------------------
(***************************************************************************)
(* Packets of images, for every set of cameras, every interval and         *)
(* timeout, every word size and every value of the bounds: types, then     *)
(* kicks (however many images are named in one millisecond), timeouts (if  *)
(* no camera's compensation lies in the future, no age wraps), and         *)
(* statistics.                                                             *)
(***************************************************************************)
EXTENDS PacketResult, FiniteSetTheorems, TLAPS

-----------------------------------------------------------------------------
(* Types. *)

(* Entering a result into a packet yields a packet. *)
LEMMA WithResultType ==
  ASSUME NEW p \in Packet, NEW i \in ImageId, NEW r \in Results
  PROVE  WithResult(p, i, r) \in Packet
<1>1. CASE i \in p.images
  <2>1. {x \in p.results : x[1] # i} \cup {<<i, r>>} \in SUBSET (ImageId \X Results)
    BY DEF Packet
  <2>2. QED BY <1>1, <2>1 DEF WithResult, Packet
<1>2. CASE i \notin p.images
  BY <1>2 DEF WithResult
<1>3. QED BY <1>1, <1>2

(* Updating three ghost totals keeps the record of totals well typed. *)
LEMMA HistoryThreeUpdates ==
  ASSUME NEW h \in History, NEW a \in Nat, NEW b \in Nat, NEW c \in Nat
  PROVE  /\ [h EXCEPT !.opened = a, !.original = b, !.binning = c] \in History
         /\ [h EXCEPT !.reportedTotal = a, !.reportedNg = b,
                      !.reports = c] \in History
<1> DEFINE h1 == [h EXCEPT !.opened = a]
           h2 == [h1 EXCEPT !.original = b]
           g1 == [h EXCEPT !.reportedTotal = a]
           g2 == [g1 EXCEPT !.reportedNg = b]
<1>1. h1 \in History /\ g1 \in History
  BY DEF History
<1>2. h2 \in History /\ g2 \in History
  <2> HIDE DEF h1, g1
  <2>1. QED BY <1>1 DEF History
<1>3. [h2 EXCEPT !.binning = c] \in History /\ [g2 EXCEPT !.reports = c] \in History
  <2> HIDE DEF h2, g2
  <2>1. QED BY <1>2 DEF History
<1>4. QED BY <1>3

(* Handing an image to inference keeps the set of awaited images well typed. *)
LEMMA ToInferenceType ==
  ASSUME awaited \subseteq Awaited, NEW o \in Nat, NEW i \in ImageId, NEW p,
         p.bReportOrignal \in BOOLEAN, p.bReportBinning \in BOOLEAN,
         ToInference(o, i, p)
  PROVE  awaited' \subseteq Awaited
<1>1. [objectId |-> o, imageId |-> i, bReportOrignal |-> p.bReportOrignal,
       bReportBinning |-> p.bReportBinning] \in Awaited
  BY DEF Awaited
<1>2. QED BY <1>1 DEF ToInference

(* Sampling keeps the report index a natural number. *)
LEMMA NextReportIndexType ==
  ASSUME NEW rate \in Int, NEW index \in Nat
  PROVE  NextReportIndex(rate, index) \in Nat
BY DEF NextReportIndex

(* Only cameras that exist are on line, so that their number is a natural. *)
LEMMA OnlineCount == online \subseteq Cameras => RealOnlineCameraCount \in Nat
BY ConstantsOK, FS_Subset, FS_CardinalityType DEF RealOnlineCameraCount

(* doKickFinal keeps the kick list, the enabled switch and the defect count
   well typed. *)
LEMMA DoKickFinalType ==
  ASSUME TypeOK, NEW o \in Nat, NEW p \in Packet, NEW ng \in Nat,
         DoKickFinal(o, p, ng)
  PROVE  kicks' \in Seq(Kick) /\ enabled' \in BOOLEAN /\ detectNg' \in Nat
<1>1. RealOnlineCameraCount \in Nat
  BY OnlineCount DEF TypeOK
<1>2. CASE ~HasNg(p)
  BY <1>2 DEF DoKickFinal, TypeOK
<1>3. CASE HasNg(p)
  <2>1. PICK sent, stop \in BOOLEAN :
          /\ detectNg' = ng + 1
          /\ kicks' = Append(kicks,
               [objectId |-> o, images |-> p.images, results |-> p.results,
                online |-> RealOnlineCameraCount, sent |-> sent])
          /\ enabled' = IF StopMode /\ stop THEN FALSE ELSE enabled
    BY <1>3 DEF DoKickFinal, KickEnable
  <2>2. [objectId |-> o, images |-> p.images, results |-> p.results,
         online |-> RealOnlineCameraCount, sent |-> sent] \in Kick
    BY <1>1 DEF Kick, Packet
  <2>3. kicks' \in Seq(Kick)
    BY <2>1, <2>2 DEF TypeOK
  <2>4. enabled' \in BOOLEAN
    BY <2>1 DEF TypeOK
  <2>5. detectNg' \in Nat
    BY <2>1
  <2>6. QED BY <2>3, <2>4, <2>5
<1>4. QED BY <1>2, <1>3

LEMMA NgAfterVerdictType ==
  ASSUME TypeOK, NEW p PROVE NgAfterVerdict(p) \in Nat
BY DEF NgAfterVerdict, TypeOK

(* Every step keeps the types. *)
LEMMA TypeStep == TypeOK /\ [Next]_vars => TypeOK'
<1> SUFFICES ASSUME TypeOK, [Next]_vars PROVE TypeOK'
  OBVIOUS
<1> USE ConstantsOK
<1>1. CASE Tick
  BY <1>1 DEF Tick, TypeOK, cameraVars, nameVars, reportVars, statVars
<1>2. CASE Enable
  BY <1>2 DEF Enable, TypeOK, nameVars, reportVars, statVars
<1>3. ASSUME NEW c \in Cameras, SendImageData(c) PROVE TypeOK'
  <2>1. frames' \in [Cameras -> Seq(Int)]
    <3>1. now + Compensation[c] \in Int /\ frames \in [Cameras -> Seq(Int)]
      BY DEF TypeOK
    <3>2. Append(frames[c], now + Compensation[c]) \in Seq(Int)
      BY <3>1
    <3>3. frames' = [frames EXCEPT ![c] = Append(frames[c], now + Compensation[c])]
      BY <1>3 DEF SendImageData
    <3>4. QED BY <3>1, <3>2, <3>3
  <2>2. history' \in History
    <3>1. history \in History
      BY DEF TypeOK
    <3>2. history' = [history EXCEPT !.frames = @ + 1]
      BY <1>3 DEF SendImageData
    <3>3. QED BY <3>1, <3>2 DEF History
  <2>3. QED BY <1>3, <2>1, <2>2 DEF SendImageData, TypeOK, nameVars, reportVars, statVars
<1>4. ASSUME NEW c \in Cameras, SetOnline(c) PROVE TypeOK'
  <2>1. history' \in History
    <3>1. history \in History
      BY DEF TypeOK
    <3>2. history' = [history EXCEPT !.flaps = @ + 1]
      BY <1>4 DEF SetOnline
    <3>3. QED BY <3>1, <3>2 DEF History
  <2>2. QED BY <1>4, <2>1 DEF SetOnline, TypeOK, nameVars, reportVars, statVars
<1>5. ASSUME NEW c \in Cameras, TakeFrame(c) PROVE TypeOK'
  <2>1. /\ frames \in [Cameras -> Seq(Int)] /\ frames[c] # << >>
        /\ frames' = [frames EXCEPT ![c] = Tail(@)]
    BY <1>5 DEF TakeFrame, TypeOK
  <2>2. frames[c] \in Seq(Int) /\ Tail(frames[c]) \in Seq(Int) /\ Head(frames[c]) \in Int
    BY <2>1
  <2>3. frames' \in [Cameras -> Seq(Int)]
    BY <2>1, <2>2
  <2>4. NewImage(c) \in ImageId
    BY DEF NewImage, ImageId, TypeOK
  <2>5. [imageId |-> NewImage(c), genTimeStamp |-> Head(frames[c])] \in Call
    BY <2>2, <2>4 DEF Call
  <2>6. calls' \subseteq Call
    BY <1>5, <2>5 DEF TakeFrame, TypeOK
  <2>7. imagesTwice' \subseteq ImageId
    BY <1>5, <2>4 DEF TakeFrame, TypeOK
  <2>8. arrivals' \in Nat
    BY <1>5 DEF TakeFrame, TypeOK
  <2>9. QED BY <1>5, <2>3, <2>6, <2>7, <2>8 DEF TakeFrame, TypeOK, reportVars, statVars
<1>6. ASSUME NEW d \in calls, SpotImage(d) PROVE TypeOK'
  <2> DEFINE p == [bReportOrignal |-> TRUE, bReportBinning |-> FALSE]
  <2>1. d.imageId \in ImageId /\ now \in Nat
    BY DEF TypeOK, Call
  <2>2. awaited' \subseteq Awaited
    <3>1. ToInference(now, d.imageId, p) /\ awaited \subseteq Awaited
      BY <1>6 DEF SpotImage, TypeOK
    <3>2. p.bReportOrignal \in BOOLEAN /\ p.bReportBinning \in BOOLEAN
      OBVIOUS
    <3> HIDE DEF p
    <3>3. QED BY <2>1, <3>1, <3>2, ToInferenceType
  <2>3. packetsTwice' \subseteq Nat
    BY <1>6, <2>1 DEF SpotImage, NamePacket, TypeOK
  <2>4. calls' \subseteq Call
    BY <1>6 DEF SpotImage, Sent, TypeOK
  <2>5. QED BY <1>6, <2>2, <2>3, <2>4 DEF SpotImage, Sent, TypeOK, cameraVars, reportVars
<1>7. ASSUME NEW d \in calls, JoinPacket(d) PROVE TypeOK'
  <2>1. d.imageId \in ImageId
    BY DEF TypeOK, Call
  <2>2. calls' \subseteq Call
    BY <1>7 DEF JoinPacket, Sent, TypeOK
  <2>3. PICK o \in DOMAIN packetHash :
          /\ packetHash' = [packetHash EXCEPT ![o] =
               [packetHash[o] EXCEPT !.images = @ \cup {d.imageId}]]
          /\ ToInference(o, d.imageId, packetHash[o])
    BY <1>7 DEF JoinPacket, Near
  <2>4. packetHash[o] \in Packet /\ o \in Nat
    BY DEF TypeOK
  <2>5. [packetHash[o] EXCEPT !.images = @ \cup {d.imageId}] \in Packet
    BY <2>1, <2>4 DEF Packet
  <2>6. DOMAIN packetHash' \subseteq Nat
        /\ \A q \in DOMAIN packetHash' : packetHash'[q] \in Packet
    BY <2>3, <2>5 DEF TypeOK
  <2>7. awaited' \subseteq Awaited
    <3>1. PICK p : p = packetHash[o]
      OBVIOUS
    <3>2. /\ p.bReportOrignal \in BOOLEAN /\ p.bReportBinning \in BOOLEAN
          /\ ToInference(o, d.imageId, p) /\ awaited \subseteq Awaited
      BY <2>3, <2>4, <3>1 DEF Packet, TypeOK
    <3>3. QED BY <2>1, <2>4, <3>2, ToInferenceType
  <2>8. QED BY <1>7, <2>2, <2>6, <2>7 DEF JoinPacket, Sent, TypeOK, cameraVars, reportVars
<1>8. ASSUME NEW d \in calls, OpenPacket(d) PROVE TypeOK'
  <2>1. d.imageId \in ImageId /\ d.genTimeStamp \in Int /\ now \in Nat
    BY DEF TypeOK, Call
  <2>2. calls' \subseteq Call
    BY <1>8 DEF OpenPacket, Sent, TypeOK
  <2>3. NewPacket(d) \in Packet
    BY <2>1 DEF NewPacket, Packet, ReportDue
  <2>4. DOMAIN packetHash' \subseteq Nat
        /\ \A q \in DOMAIN packetHash' : packetHash'[q] \in Packet
    BY <1>8, <2>1, <2>3 DEF OpenPacket, TypeOK
  <2>5. awaited' \subseteq Awaited
    <3>1. ToInference(now, d.imageId, NewPacket(d))
      BY <1>8 DEF OpenPacket
    <3>2. NewPacket(d).bReportOrignal \in BOOLEAN /\ NewPacket(d).bReportBinning \in BOOLEAN
      BY <2>3 DEF Packet
    <3>3. QED BY <2>1, <3>1, <3>2, ToInferenceType DEF TypeOK
  <2>6. history' \in History
    <3>1. history \in History
      BY DEF TypeOK
    <3>2. history' = [history EXCEPT
            !.opened = @ + 1,
            !.original = IF NewPacket(d).bReportOrignal THEN @ + 1 ELSE @,
            !.binning = IF NewPacket(d).bReportBinning THEN @ + 1 ELSE @]
      BY <1>8 DEF OpenPacket
    <3> DEFINE a == IF NewPacket(d).bReportOrignal
                    THEN history.original + 1 ELSE history.original
               b == IF NewPacket(d).bReportBinning
                    THEN history.binning + 1 ELSE history.binning
    <3>3. a \in Nat /\ b \in Nat
      BY <3>1 DEF History
    <3>4. history' = [history EXCEPT !.opened = history.opened + 1,
                                     !.original = a, !.binning = b]
      BY <3>2
    <3>5. history.opened + 1 \in Nat
      BY <3>1 DEF History
    <3> HIDE DEF a, b
    <3>6. QED BY <3>1, <3>3, <3>4, <3>5, HistoryThreeUpdates
  <2>7. originalIndex' \in Nat /\ binningIndex' \in Nat
    BY <1>8, NextReportIndexType DEF OpenPacket, TypeOK
  <2>8. /\ detectTotal' = detectTotal + 1
        /\ UNCHANGED <<now, enabled, online, frames, arrivals, detectNg, statistic,
                       kicks, imagesTwice>>
    BY <1>8 DEF OpenPacket, Sent, cameraVars
  <2>9. detectTotal' \in Nat /\ packetsTwice' \subseteq Nat
    <3>1. NamePacket
      BY <1>8, <2>1 DEF OpenPacket
    <3>2. packetsTwice' \subseteq Nat
      BY <2>1, <3>1 DEF NamePacket, TypeOK
    <3>3. QED BY <2>8, <3>2 DEF TypeOK
  <2>10. QED BY <2>2, <2>4, <2>5, <2>6, <2>7, <2>8, <2>9 DEF TypeOK
<1>9. ASSUME NEW m \in awaited, ResultIgnored(m) PROVE TypeOK'
  BY <1>9 DEF ResultIgnored, TypeOK, cameraVars, nameVars, reportVars, statVars
<1>10. ASSUME NEW m \in awaited, NEW r \in Results, ResultStored(m, r)
      PROVE  TypeOK'
  <2>1. m.imageId \in ImageId
    BY DEF TypeOK, Awaited
  <2>2. WithResult(packetHash[m.objectId], m.imageId, r) \in Packet
    BY <1>10, <2>1, WithResultType DEF ResultStored, TypeOK
  <2>3. DOMAIN packetHash' \subseteq Nat
        /\ \A q \in DOMAIN packetHash' : packetHash'[q] \in Packet
    BY <1>10, <2>2 DEF ResultStored, TypeOK
  <2>4. QED BY <1>10, <2>3 DEF ResultStored, ResultUnchanged, TypeOK, nameVars, reportVars
<1>11. ASSUME NEW m \in awaited, NEW r \in Results, ResultConcludes(m, r)
      PROVE  TypeOK'
  <2> DEFINE p == WithResult(packetHash[m.objectId], m.imageId, r)
  <2>1. m.imageId \in ImageId /\ m.objectId \in Nat
    BY DEF TypeOK, Awaited
  <2>2. p \in Packet
    BY <1>11, <2>1, WithResultType DEF ResultConcludes, TypeOK
  <2>3. kicks' \in Seq(Kick) /\ enabled' \in BOOLEAN /\ detectNg' \in Nat
    BY <1>11, <2>1, <2>2, DoKickFinalType, NgAfterVerdictType
       DEF ResultConcludes
  <2>4. history' \in History
    <3>1. history \in History
      BY DEF TypeOK
    <3>2. RecordVerdict(p)
      BY <1>11 DEF ResultConcludes
    <3>3. QED BY <3>1, <3>2 DEF RecordVerdict, History
  <2>5. DOMAIN packetHash' \subseteq Nat
        /\ \A q \in DOMAIN packetHash' : packetHash'[q] \in Packet
    BY <1>11 DEF ResultConcludes, Without, TypeOK
  <2>6. QED BY <1>11, <2>3, <2>4, <2>5
            DEF ResultConcludes, ResultUnchanged, TypeOK, nameVars, reportVars
<1>12. ASSUME NEW o \in DOMAIN packetHash, TimeoutDrops(o) PROVE TypeOK'
  <2>1. DOMAIN packetHash' \subseteq Nat
        /\ \A q \in DOMAIN packetHash' : packetHash'[q] \in Packet
    BY <1>12 DEF TimeoutDrops, Without, TypeOK
  <2>2. QED BY <1>12, <2>1
            DEF TimeoutDrops, TypeOK, cameraVars, nameVars, reportVars, statVars
<1>13. ASSUME NEW o \in DOMAIN packetHash, TimeoutJudges(o) PROVE TypeOK'
  <2>1. packetHash[o] \in Packet /\ o \in Nat
    BY DEF TypeOK
  <2>2. kicks' \in Seq(Kick) /\ enabled' \in BOOLEAN /\ detectNg' \in Nat
    <3>1. CASE Cardinality(packetHash[o].images) >= RealOnlineCameraCount
      BY <1>13, <2>1, <3>1, DoKickFinalType, NgAfterVerdictType
         DEF TimeoutJudges
    <3>2. CASE ~(Cardinality(packetHash[o].images) >= RealOnlineCameraCount)
      BY <1>13, <3>2, NgAfterVerdictType DEF TimeoutJudges, TypeOK
    <3>3. QED BY <3>1, <3>2
  <2>3. history' \in History
    <3>1. history \in History
      BY DEF TypeOK
    <3>2. RecordVerdict(packetHash[o])
      BY <1>13 DEF TimeoutJudges
    <3>3. QED BY <3>1, <3>2 DEF RecordVerdict, History
  <2>4. DOMAIN packetHash' \subseteq Nat
        /\ \A q \in DOMAIN packetHash' : packetHash'[q] \in Packet
    BY <1>13 DEF TimeoutJudges, Without, TypeOK
  <2>5. QED BY <1>13, <2>2, <2>3, <2>4
            DEF TimeoutJudges, ResultUnchanged, TypeOK, nameVars, reportVars
<1>14. CASE GetStatistic
  <2>1. statistic' \in Nat \X Nat
    <3>1. Len(kicks) \in Nat
      BY DEF TypeOK
    <3>2. QED BY <1>14, <3>1 DEF GetStatistic, TypeOK
  <2>2. QED BY <1>14, <2>1 DEF GetStatistic, TypeOK, cameraVars, nameVars, reportVars
<1>15. CASE ClearStatistic
  <2>1. history' \in History
    <3> SUFFICES ASSUME statistic \in Nat \X Nat PROVE history' \in History
      BY <1>15 DEF ClearStatistic, TypeOK
    <3>1. history \in History /\ statistic[1] \in Nat /\ statistic[2] \in Nat
      BY DEF TypeOK
    <3>2. history' =
            [history EXCEPT
               !.reportedTotal = history.reportedTotal + statistic[1],
               !.reportedNg = history.reportedNg + statistic[2],
               !.reports = history.reports + 1]
      BY <1>15 DEF ClearStatistic
    <3>3. /\ history.reportedTotal + statistic[1] \in Nat
          /\ history.reportedNg + statistic[2] \in Nat
          /\ history.reports + 1 \in Nat
      BY <3>1 DEF History
    <3>4. QED BY <3>1, <3>2, <3>3, HistoryThreeUpdates
  <2>2. QED BY <1>15, <2>1 DEF ClearStatistic, TypeOK, cameraVars, nameVars, reportVars
<1>16. CASE UNCHANGED vars
  BY <1>16 DEF vars, TypeOK
<1>17. QED BY <1>1, <1>2, <1>3, <1>4, <1>5, <1>6, <1>7, <1>8, <1>9, <1>10,
              <1>11, <1>12, <1>13, <1>14, <1>15, <1>16 DEF Next

LEMMA TypeInit == Init => TypeOK
BY ConstantsOK DEF Init, TypeOK, HistoryInit, History

(* Type correctness of CPacketResult's state and of its event queues: holds in
   every reachable state, for every value of the constants. *)
THEOREM TypeCorrect == Spec => []TypeOK
<1>1. QED BY TypeInit, TypeStep, PTL DEF Spec

-----------------------------------------------------------------------------
(* Which packets are kicked. *)

(* The invariant without the types. *)
KickParts ==
  /\ PacketsWellFormed /\ CallsAreNew /\ PacketsDisjoint
  /\ AwaitedImagesKnown /\ AwaitedOnce /\ KickSound

(* The steps that concern neither images nor packets. *)
Quiet == UNCHANGED <<packetHash, awaited, kicks, calls, imagesTwice, packetsTwice>>

(* A packet p named o is removed; its defect, if any, may be kicked. *)
Kicked(o, p) ==
  \E k \in Kick : /\ HasNg(p) /\ k.objectId = o
                  /\ k.images = p.images /\ k.results = p.results
                  /\ kicks' = Append(kicks, k)

(* What doKickFinal does to the kick list. *)
LEMMA DoKickFinalKicks ==
  ASSUME TypeOK, NEW o \in Nat, NEW p \in Packet, NEW ng \in Nat,
         DoKickFinal(o, p, ng)
  PROVE  (kicks' = kicks /\ ~HasNg(p)) \/ Kicked(o, p)
<1>1. CASE ~HasNg(p)
  BY <1>1 DEF DoKickFinal
<1>2. CASE HasNg(p)
  <2>1. PICK sent, stop \in BOOLEAN :
          kicks' = Append(kicks,
               [objectId |-> o, images |-> p.images, results |-> p.results,
                online |-> RealOnlineCameraCount, sent |-> sent])
    BY <1>2 DEF DoKickFinal, KickEnable
  <2> DEFINE k == [objectId |-> o, images |-> p.images, results |-> p.results,
                   online |-> RealOnlineCameraCount, sent |-> sent]
  <2>2. k \in Kick
    BY OnlineCount DEF Kick, Packet, TypeOK
  <2>3. k.objectId = o /\ k.images = p.images /\ k.results = p.results
    OBVIOUS
  <2>4. kicks' = Append(kicks, k)
    BY <2>1
  <2> HIDE DEF k
  <2>5. QED BY <1>2, <2>2, <2>3, <2>4 DEF Kicked
<1>3. QED BY <1>1, <1>2

LEMMA QuietPreserves == ASSUME KickParts, Quiet PROVE KickParts'
BY DEF KickParts, Quiet, PacketsWellFormed, CallsAreNew, PacketsDisjoint,
       AwaitedImagesKnown, AwaitedOnce, KickSound, HasNg

(* What entering a result into a packet changes. *)
LEMMA WithResultForm ==
  ASSUME NEW p \in Packet, NEW i \in ImageId, NEW r \in Results,
         NEW q, q = WithResult(p, i, r)
  PROVE  /\ q \in Packet /\ q.images = p.images
         /\ \A x \in q.results : x \in p.results \/ (i \in p.images /\ x = <<i, r>>)
         /\ \A x \in q.results : x[1] = i /\ i \in p.images => x = <<i, r>>
         /\ \A x \in p.results : x[1] # i => x \in q.results
<1>1. q \in Packet
  BY WithResultType
<1>2. CASE i \in p.images
  <2>1. q = [p EXCEPT !.results = {x \in p.results : x[1] # i} \cup {<<i, r>>}]
    BY <1>2 DEF WithResult
  <2>2. q.images = p.images /\ q.results = {x \in p.results : x[1] # i} \cup {<<i, r>>}
    BY <2>1 DEF Packet
  <2>3. QED BY <1>1, <1>2, <2>2
<1>3. CASE i \notin p.images
  <2>1. q = p
    BY <1>3 DEF WithResult
  <2>2. QED BY <1>1, <1>3, <2>1
<1>4. QED BY <1>2, <1>3

(* Removing a packet, kicked or not, preserves the invariant. *)
LEMMA RemovalPreserves ==
  ASSUME TypeOK, KickParts, NEW o \in DOMAIN packetHash, NEW p \in Packet,
         p.images = packetHash[o].images,
         \A x \in p.results : x[1] \in p.images,
         packetHash' = Without(o), awaited' \subseteq awaited,
         UNCHANGED <<calls, imagesTwice, packetsTwice>>,
         kicks' = kicks \/ Kicked(o, p)
  PROVE  KickParts'
<1>1. /\ DOMAIN packetHash' = DOMAIN packetHash \ {o}
      /\ \A q \in DOMAIN packetHash' : packetHash'[q] = packetHash[q]
  BY DEF Without
<1>2. /\ calls' = calls /\ imagesTwice' = imagesTwice /\ packetsTwice' = packetsTwice
      /\ \A m \in awaited' : m \in awaited
  OBVIOUS
<1>3. PacketsWellFormed' /\ PacketsDisjoint'
  BY <1>1, <1>2 DEF KickParts, PacketsWellFormed, PacketsDisjoint
<1>4. AwaitedImagesKnown' /\ AwaitedOnce'
  BY <1>1, <1>2 DEF KickParts, AwaitedImagesKnown, AwaitedOnce
<1>5. CASE kicks' = kicks
  <2>1. CallsAreNew'
    BY <1>1, <1>2, <1>5 DEF KickParts, CallsAreNew
  <2>2. KickSound'
    BY <1>1, <1>2, <1>5 DEF KickParts, KickSound
  <2>3. QED BY <1>3, <1>4, <2>1, <2>2 DEF KickParts
<1>6. CASE Kicked(o, p)
  <2>1. PICK k \in Kick : /\ HasNg(p) /\ k.images = p.images
                          /\ k.results = p.results /\ kicks' = Append(kicks, k)
    BY <1>6 DEF Kicked
  <2>2. kicks \in Seq(Kick)
    BY DEF TypeOK
  <2>3. /\ DOMAIN kicks' = DOMAIN kicks \cup {Len(kicks) + 1}
        /\ Len(kicks) + 1 \notin DOMAIN kicks
        /\ \A j \in DOMAIN kicks : kicks'[j] = kicks[j]
        /\ kicks'[Len(kicks) + 1] = k
    BY <2>1, <2>2
  <2>4. \A d \in calls : d.imageId \notin imagesTwice => d.imageId \notin k.images
    BY <2>1 DEF KickParts, CallsAreNew
  <2>5. CallsAreNew'
    BY <1>1, <1>2, <2>3, <2>4 DEF KickParts, CallsAreNew
  <2>6. \E x \in k.results : x[1] \in k.images /\ x[2] = "NG"
    BY <2>1 DEF HasNg
  <2>7. \A q \in DOMAIN packetHash' : packetHash'[q].images \cap k.images \subseteq imagesTwice
    BY <1>1, <2>1 DEF KickParts, PacketsDisjoint
  <2>8. \A j \in DOMAIN kicks : kicks[j].images \cap k.images \subseteq imagesTwice
    BY <2>1 DEF KickParts, KickSound
  <2>9. KickSound'
    BY <1>1, <1>2, <2>3, <2>6, <2>7, <2>8 DEF KickParts, KickSound
  <2>10. QED BY <1>3, <1>4, <2>5, <2>9 DEF KickParts
<1>7. QED BY <1>5, <1>6

(* Storing a result in a packet that stays open preserves the invariant. *)
LEMMA StorePreserves ==
  ASSUME TypeOK, KickParts, NEW m \in awaited, NEW r \in Results,
         m.objectId \in DOMAIN packetHash,
         packetHash' = [packetHash EXCEPT ![m.objectId] =
                          WithResult(packetHash[m.objectId], m.imageId, r)],
         awaited' = awaited \ {m}, kicks' = kicks,
         UNCHANGED <<calls, imagesTwice, packetsTwice>>
  PROVE  KickParts'
<1> DEFINE o == m.objectId
           q == WithResult(packetHash[o], m.imageId, r)
<1>1. packetHash[o] \in Packet /\ m.imageId \in ImageId
  BY DEF TypeOK, Awaited
<1>2. /\ q \in Packet /\ q.images = packetHash[o].images
      /\ \A x \in q.results :
           x \in packetHash[o].results \/ (m.imageId \in q.images /\ x = <<m.imageId, r>>)
      /\ \A x \in q.results :
           x[1] = m.imageId /\ m.imageId \in q.images => x = <<m.imageId, r>>
  <2>1. q = WithResult(packetHash[o], m.imageId, r)
    OBVIOUS
  <2> HIDE DEF q
  <2>2. QED BY <1>1, <2>1, WithResultForm
<1>3. /\ DOMAIN packetHash' = DOMAIN packetHash
      /\ packetHash'[o] = q
      /\ \A p \in DOMAIN packetHash : p # o => packetHash'[p] = packetHash[p]
  OBVIOUS
<1> HIDE DEF o, q
<1>4. \A p \in DOMAIN packetHash : packetHash'[p].images = packetHash[p].images
  BY <1>2, <1>3
<1>5. PacketsWellFormed'
  <2>1. \A x \in q.results : x[1] \in q.images
    BY <1>2 DEF KickParts, PacketsWellFormed, o
  <2>2. \A x, y \in q.results : x[1] = y[1] => x = y
    BY <1>2, <2>1 DEF KickParts, PacketsWellFormed, o
  <2>3. QED BY <1>2, <1>3, <2>1, <2>2 DEF KickParts, PacketsWellFormed, o
<1>6. CallsAreNew' /\ PacketsDisjoint' /\ AwaitedImagesKnown' /\ KickSound'
  BY <1>3, <1>4
    DEF KickParts, CallsAreNew, PacketsDisjoint, AwaitedImagesKnown, KickSound
<1>7. AwaitedOnce'
  <2>1. ASSUME NEW n \in awaited', n.imageId \notin imagesTwice
        PROVE  n \in awaited /\ n.imageId # m.imageId
    BY <2>1 DEF KickParts, AwaitedOnce
  <2>2. ASSUME NEW n \in awaited', n.imageId \notin imagesTwice, NEW x \in q.results
        PROVE  x[1] # n.imageId
    BY <1>2, <2>1, <2>2 DEF KickParts, AwaitedOnce, o
  <2>3. QED BY <1>3, <2>1, <2>2 DEF KickParts, AwaitedOnce
<1>8. QED BY <1>5, <1>6, <1>7 DEF KickParts

(* Naming an image preserves the invariant: a name that is in use is noted as
   given twice. *)
LEMMA TakingPreserves ==
  ASSUME KickParts, NEW c \in Cameras, TakeFrame(c) PROVE KickParts'
<1> DEFINE new == [imageId |-> NewImage(c), genTimeStamp |-> Head(frames[c])]
<1>1. /\ calls' = calls \cup {new} /\ new.imageId = NewImage(c)
      /\ new.imageId.cameraId = c
      /\ \A d \in calls : d.imageId.cameraId # c
      /\ UNCHANGED <<packetHash, awaited, kicks, packetsTwice>>
      /\ \A i : i \notin imagesTwice' =>
           i \notin imagesTwice /\ (i = NewImage(c) => ~ImageInUse(i))
  BY DEF TakeFrame, NewImage
<1> HIDE DEF new
<1>2. \A d, e \in calls' : d.imageId.cameraId = e.imageId.cameraId => d = e
  BY <1>1 DEF KickParts, CallsAreNew
<1>3. ASSUME NEW d \in calls', d.imageId \notin imagesTwice'
      PROVE  /\ \A o \in DOMAIN packetHash : d.imageId \notin packetHash[o].images
             /\ \A m \in awaited : m.imageId # d.imageId
             /\ \A k \in DOMAIN kicks : d.imageId \notin kicks[k].images
  <2>1. CASE d = new
    BY <1>1, <1>3, <2>1 DEF ImageInUse
  <2>2. CASE d \in calls
    BY <1>1, <1>3, <2>2 DEF KickParts, CallsAreNew
  <2>3. QED BY <1>1, <2>1, <2>2
<1>4. CallsAreNew'
  BY <1>1, <1>2, <1>3 DEF CallsAreNew
<1>5. PacketsWellFormed' /\ PacketsDisjoint' /\ AwaitedImagesKnown'
  BY <1>1 DEF KickParts, PacketsWellFormed, PacketsDisjoint, AwaitedImagesKnown
<1>6. AwaitedOnce' /\ KickSound'
  BY <1>1 DEF KickParts, AwaitedOnce, KickSound
<1>7. QED BY <1>4, <1>5, <1>6 DEF KickParts

(* An image whose name was given once is in no packet, result or kick before it
   is sent on. *)
LEMMA SentIsNew ==
  ASSUME KickParts, NEW d \in calls, Sent(d), d.imageId \notin imagesTwice
  PROVE  /\ \A q \in DOMAIN packetHash : d.imageId \notin packetHash[q].images
         /\ \A m \in awaited : m.imageId # d.imageId
         /\ \A k \in DOMAIN kicks : d.imageId \notin kicks[k].images
BY DEF KickParts, CallsAreNew

(* Sending image d on as an image of packet o, which it joins or opens. *)
LEMMA ArrivalPreserves ==
  ASSUME TypeOK, KickParts, NEW d \in calls, Sent(d),
         NEW o \in DOMAIN packetHash \cup {now}, NEW p,
         ToInference(o, d.imageId, p),
         DOMAIN packetHash' = DOMAIN packetHash \cup {o},
         \A q \in DOMAIN packetHash : q # o => packetHash'[q] = packetHash[q],
         \/ /\ o \in DOMAIN packetHash
            /\ packetHash'[o].images = packetHash[o].images \cup {d.imageId}
            /\ packetHash'[o].results = packetHash[o].results
            /\ HasRoom(packetHash[o], d.imageId.cameraId)
            /\ packetsTwice' = packetsTwice
         \/ /\ packetHash'[o].images = {d.imageId} /\ packetHash'[o].results = {}
            /\ o = now /\ NamePacket
  PROVE  KickParts'
<1> DEFINE new == d.imageId
           msg == [objectId |-> o, imageId |-> new,
                   bReportOrignal |-> p.bReportOrignal,
                   bReportBinning |-> p.bReportBinning]
           Joins == /\ o \in DOMAIN packetHash
                    /\ packetHash'[o].images = packetHash[o].images \cup {new}
                    /\ packetHash'[o].results = packetHash[o].results
                    /\ HasRoom(packetHash[o], new.cameraId)
                    /\ packetsTwice' = packetsTwice
           Opens == /\ packetHash'[o].images = {new} /\ packetHash'[o].results = {}
                    /\ o = now /\ NamePacket
<1>1. /\ kicks' = kicks /\ imagesTwice' = imagesTwice /\ calls' = calls \ {d}
      /\ Joins \/ Opens
      /\ \A q \in packetsTwice : q \in packetsTwice'
  BY DEF Sent, NamePacket
<1>2. awaited' = awaited \cup {msg} /\ msg.imageId = new /\ msg.objectId = o
  BY DEF ToInference
<1>3. new \notin imagesTwice =>
        /\ \A q \in DOMAIN packetHash : new \notin packetHash[q].images
        /\ \A m \in awaited : m.imageId # new
        /\ \A k \in DOMAIN kicks : new \notin kicks[k].images
  BY SentIsNew
<1> HIDE DEF msg, Joins, Opens
<1>4. \A q \in DOMAIN packetHash' : \A i \in packetHash'[q].images :
        (i = new /\ q = o) \/ (q \in DOMAIN packetHash /\ i \in packetHash[q].images)
  <2>1. ASSUME NEW i \in packetHash'[o].images
        PROVE  i = new \/ (o \in DOMAIN packetHash /\ i \in packetHash[o].images)
    BY <1>1 DEF Joins, Opens
  <2>2. ASSUME NEW q \in DOMAIN packetHash', q # o
        PROVE  q \in DOMAIN packetHash /\ packetHash'[q] = packetHash[q]
    BY <2>2
  <2>3. QED BY <2>1, <2>2
<1>5. \A q \in DOMAIN packetHash' : \A x \in packetHash'[q].results :
        /\ q \in DOMAIN packetHash /\ x \in packetHash[q].results
        /\ packetHash[q].images \subseteq packetHash'[q].images
  BY <1>1 DEF Joins, Opens
<1>6. PacketsWellFormed'
  <2>1. ASSUME NEW q \in DOMAIN packetHash',
               NEW i \in packetHash'[q].images, NEW j \in packetHash'[q].images,
               i.cameraId = j.cameraId
        PROVE  i = j
    <3>1. CASE q = o /\ Joins
      <4>1. \A l \in packetHash[o].images : l.cameraId # new.cameraId
        BY <3>1 DEF HasRoom, Joins
      <4>2. QED BY <1>4, <2>1, <3>1, <4>1 DEF KickParts, PacketsWellFormed, Joins
    <3>2. CASE q = o /\ Opens
      BY <2>1, <3>2 DEF Opens
    <3>3. CASE q # o
      BY <1>4, <2>1, <3>3 DEF KickParts, PacketsWellFormed
    <3>4. QED BY <1>1, <3>1, <3>2, <3>3
  <2>2. ASSUME NEW q \in DOMAIN packetHash', NEW x \in packetHash'[q].results
        PROVE  x[1] \in packetHash'[q].images
    BY <1>5 DEF KickParts, PacketsWellFormed
  <2>3. ASSUME NEW q \in DOMAIN packetHash', NEW x \in packetHash'[q].results,
               NEW y \in packetHash'[q].results, x[1] = y[1]
        PROVE  x = y
    BY <1>5, <2>3 DEF KickParts, PacketsWellFormed
  <2>4. QED BY <2>1, <2>2, <2>3 DEF PacketsWellFormed
<1>7. CallsAreNew'
  <2>1. \A e \in calls' : e \in calls /\ e.imageId # new
    BY <1>1 DEF KickParts, CallsAreNew
  <2>2. \A e, g \in calls' : e.imageId.cameraId = g.imageId.cameraId => e = g
    BY <2>1 DEF KickParts, CallsAreNew
  <2>3. ASSUME NEW e \in calls', e.imageId \notin imagesTwice'
        PROVE  /\ \A q \in DOMAIN packetHash' : e.imageId \notin packetHash'[q].images
               /\ \A m \in awaited' : m.imageId # e.imageId
               /\ \A k \in DOMAIN kicks' : e.imageId \notin kicks'[k].images
    BY <1>1, <1>2, <1>4, <2>1, <2>3 DEF KickParts, CallsAreNew
  <2>4. QED BY <2>2, <2>3 DEF CallsAreNew
<1>8. PacketsDisjoint'
  BY <1>1, <1>3, <1>4 DEF KickParts, PacketsDisjoint
<1>9. AwaitedImagesKnown'
  <2>1. ASSUME NEW m \in awaited', m.objectId \in DOMAIN packetHash' \ packetsTwice'
        PROVE  m.imageId \in packetHash'[m.objectId].images
    <3>1. CASE m = msg
      BY <1>1, <1>2, <3>1 DEF Joins, Opens
    <3>2. CASE m \in awaited /\ m.objectId # o
      BY <1>1, <2>1, <3>2 DEF KickParts, AwaitedImagesKnown
    <3>3. CASE m \in awaited /\ m.objectId = o /\ Joins
      BY <1>1, <2>1, <3>3 DEF KickParts, AwaitedImagesKnown, Joins
    <3>4. CASE m \in awaited /\ m.objectId = o /\ Opens
      BY <2>1, <3>4 DEF NamePacket, PacketInUse, Opens
    <3>5. QED BY <1>1, <1>2, <3>1, <3>2, <3>3, <3>4
  <2>2. QED BY <2>1 DEF AwaitedImagesKnown
<1>10. AwaitedOnce'
  <2>1. ASSUME NEW m \in awaited', m.imageId \notin imagesTwice', NEW n \in awaited',
               m.imageId = n.imageId
        PROVE  m = n
    BY <1>1, <1>2, <1>3, <2>1 DEF KickParts, AwaitedOnce
  <2>2. ASSUME NEW m \in awaited', m.imageId \notin imagesTwice',
               NEW q \in DOMAIN packetHash', NEW x \in packetHash'[q].results
        PROVE  x[1] # m.imageId
    <3>1. q \in DOMAIN packetHash /\ x \in packetHash[q].results
      BY <1>5
    <3>2. x[1] \in packetHash[q].images
      BY <3>1 DEF KickParts, PacketsWellFormed
    <3>3. QED BY <1>1, <1>2, <1>3, <2>2, <3>1, <3>2 DEF KickParts, AwaitedOnce
  <2>3. QED BY <2>1, <2>2 DEF AwaitedOnce
<1>11. KickSound'
  BY <1>1, <1>3, <1>4 DEF KickParts, KickSound
<1>12. QED BY <1>6, <1>7, <1>8, <1>9, <1>10, <1>11 DEF KickParts

(* An image in spot mode is in no packet. *)
LEMMA SpotPreserves ==
  ASSUME KickParts, NEW d \in calls, SpotImage(d) PROVE KickParts'
<1>1. PICK msg : /\ awaited' = awaited \cup {msg}
                 /\ msg.imageId = d.imageId /\ msg.objectId = now
  <2> DEFINE new == [objectId |-> now, imageId |-> d.imageId,
                     bReportOrignal |-> TRUE, bReportBinning |-> FALSE]
  <2>1. awaited' = awaited \cup {new} /\ new.imageId = d.imageId /\ new.objectId = now
    BY DEF SpotImage, ToInference
  <2>2. QED BY <2>1
<1>2. /\ kicks' = kicks /\ imagesTwice' = imagesTwice /\ calls' = calls \ {d}
      /\ packetHash' = packetHash
      /\ \A q \in packetsTwice : q \in packetsTwice'
      /\ now \in DOMAIN packetHash => now \in packetsTwice'
  BY DEF SpotImage, Sent, NamePacket, PacketInUse
<1>3. d.imageId \notin imagesTwice =>
        /\ \A q \in DOMAIN packetHash : d.imageId \notin packetHash[q].images
        /\ \A m \in awaited : m.imageId # d.imageId
  BY SentIsNew DEF SpotImage
<1>4. PacketsWellFormed' /\ PacketsDisjoint' /\ KickSound'
  BY <1>2 DEF KickParts, PacketsWellFormed, PacketsDisjoint, KickSound
<1>5. CallsAreNew'
  <2>1. \A e \in calls' : e \in calls /\ e.imageId # d.imageId
    BY <1>2 DEF KickParts, CallsAreNew
  <2>2. QED BY <1>1, <1>2, <2>1 DEF KickParts, CallsAreNew
<1>6. AwaitedImagesKnown'
  BY <1>1, <1>2 DEF KickParts, AwaitedImagesKnown
<1>7. AwaitedOnce'
  <2>1. ASSUME NEW m \in awaited', m.imageId \notin imagesTwice'
        PROVE  /\ \A n \in awaited' : m.imageId = n.imageId => m = n
               /\ \A o \in DOMAIN packetHash :
                    \A x \in packetHash[o].results : x[1] # m.imageId
    BY <1>1, <1>2, <1>3, <2>1 DEF KickParts, AwaitedOnce, PacketsWellFormed
  <2>2. QED BY <1>2, <2>1 DEF AwaitedOnce
<1>8. QED BY <1>4, <1>5, <1>6, <1>7 DEF KickParts

-----------------------------------------------------------------------------
(* Every step of the system preserves the invariant, action by action. *)
LEMMA KickStep ==
  ASSUME KickInvariant, [Next]_vars
  PROVE  KickInvariant'
<1>1. TypeOK /\ KickParts
  BY DEF KickInvariant, KickParts
<1>2. TypeOK'
  BY <1>1, TypeStep
<1>3. KickParts'
  <2>1. CASE UNCHANGED vars
    BY <1>1, <2>1, QuietPreserves DEF Quiet, vars
  <2>2. CASE Tick
    BY <1>1, <2>2, QuietPreserves DEF Quiet, Tick, nameVars
  <2>3. CASE Enable
    BY <1>1, <2>3, QuietPreserves DEF Quiet, Enable, nameVars
  <2>4. ASSUME NEW c \in Cameras, SendImageData(c) PROVE KickParts'
    BY <1>1, <2>4, QuietPreserves DEF Quiet, SendImageData, nameVars
  <2>5. ASSUME NEW c \in Cameras, SetOnline(c) PROVE KickParts'
    BY <1>1, <2>5, QuietPreserves DEF Quiet, SetOnline, nameVars
  <2>6. CASE GetStatistic
    BY <1>1, <2>6, QuietPreserves DEF Quiet, GetStatistic, nameVars
  <2>7. CASE ClearStatistic
    BY <1>1, <2>7, QuietPreserves DEF Quiet, ClearStatistic, nameVars
  <2>8. ASSUME NEW d \in calls, JoinPacket(d) PROVE KickParts'
    <3>1. Sent(d) /\ packetsTwice' = packetsTwice
      BY <2>8 DEF JoinPacket
    <3>2. PICK o \in Near(d.genTimeStamp) :
            /\ HasRoom(packetHash[o], d.imageId.cameraId)
            /\ packetHash' = [packetHash EXCEPT ![o] =
                 [packetHash[o] EXCEPT !.images = @ \cup {d.imageId}]]
            /\ ToInference(o, d.imageId, packetHash[o])
      BY <2>8 DEF JoinPacket
    <3>3. o \in DOMAIN packetHash /\ packetHash[o] \in Packet
      BY <1>1, <3>2 DEF Near, TypeOK
    <3>4. /\ DOMAIN packetHash' = DOMAIN packetHash \cup {o}
          /\ \A q \in DOMAIN packetHash : q # o => packetHash'[q] = packetHash[q]
          /\ packetHash'[o].images = packetHash[o].images \cup {d.imageId}
          /\ packetHash'[o].results = packetHash[o].results
      BY <3>2, <3>3 DEF Packet
    <3>5. PICK p : p = packetHash[o]
      OBVIOUS
    <3>6. ToInference(o, d.imageId, p)
      BY <3>2, <3>5
    <3>7. QED BY <1>1, <3>1, <3>2, <3>3, <3>4, <3>6, ArrivalPreserves
  <2>9. ASSUME NEW d \in calls, OpenPacket(d) PROVE KickParts'
    <3>1. Sent(d) /\ NamePacket
      BY <2>9 DEF OpenPacket
    <3>2. PICK p : p = NewPacket(d)
      OBVIOUS
    <3>3. /\ packetHash' = [o \in DOMAIN packetHash \cup {now} |->
                              IF o = now THEN p ELSE packetHash[o]]
          /\ ToInference(now, d.imageId, p)
      BY <2>9, <3>2 DEF OpenPacket
    <3>4. p.images = {d.imageId} /\ p.results = {}
      BY <3>2 DEF NewPacket
    <3>5. /\ DOMAIN packetHash' = DOMAIN packetHash \cup {now}
          /\ \A q \in DOMAIN packetHash : q # now => packetHash'[q] = packetHash[q]
          /\ packetHash'[now].images = {d.imageId} /\ packetHash'[now].results = {}
      BY <3>3, <3>4
    <3>6. QED BY <1>1, <3>1, <3>3, <3>5, ArrivalPreserves
  <2>10. ASSUME NEW m \in awaited, ResultIgnored(m) PROVE KickParts'
    <3>1. /\ UNCHANGED <<packetHash, kicks, calls, imagesTwice, packetsTwice>>
          /\ \A n \in awaited' : n \in awaited
      BY <2>10 DEF ResultIgnored, nameVars
    <3>2. QED BY <1>1, <3>1
      DEF KickParts, PacketsWellFormed, CallsAreNew, PacketsDisjoint,
          AwaitedImagesKnown, AwaitedOnce, KickSound
  <2>11. ASSUME NEW m \in awaited, NEW r \in Results, ResultStored(m, r)
         PROVE  KickParts'
    <3>1. /\ m.objectId \in DOMAIN packetHash
          /\ packetHash' = [packetHash EXCEPT ![m.objectId] =
                             WithResult(packetHash[m.objectId], m.imageId, r)]
          /\ awaited' = awaited \ {m} /\ kicks' = kicks
          /\ UNCHANGED <<calls, imagesTwice, packetsTwice>>
      BY <2>11 DEF ResultStored, ResultUnchanged, nameVars
    <3>2. QED BY <1>1, <3>1, StorePreserves
  <2>12. ASSUME NEW m \in awaited, NEW r \in Results, ResultConcludes(m, r)
         PROVE  KickParts'
    <3> DEFINE o == m.objectId
               p == WithResult(packetHash[o], m.imageId, r)
    <3>1. /\ o \in DOMAIN packetHash
          /\ DoKickFinal(o, p, NgAfterVerdict(p))
          /\ packetHash' = Without(o)
          /\ awaited' \subseteq awaited
          /\ UNCHANGED <<calls, imagesTwice, packetsTwice>>
      BY <2>12 DEF ResultConcludes, ResultUnchanged, nameVars
    <3>2. o \in Nat /\ packetHash[o] \in Packet /\ m.imageId \in ImageId
      BY <1>1, <3>1 DEF TypeOK, Awaited
    <3>3. p = WithResult(packetHash[o], m.imageId, r)
      OBVIOUS
    <3> HIDE DEF o, p
    <3>4. /\ p \in Packet /\ p.images = packetHash[o].images
          /\ \A x \in p.results : x[1] \in p.images
      <4>1. /\ p \in Packet /\ p.images = packetHash[o].images
            /\ \A x \in p.results :
                 x \in packetHash[o].results
                 \/ (m.imageId \in packetHash[o].images /\ x = <<m.imageId, r>>)
        BY <3>2, <3>3, WithResultForm
      <4>2. QED BY <1>1, <3>1, <4>1 DEF KickParts, PacketsWellFormed
    <3>5. NgAfterVerdict(p) \in Nat
      BY <1>1, NgAfterVerdictType
    <3>6. kicks' = kicks \/ Kicked(o, p)
      BY <1>1, <3>1, <3>2, <3>4, <3>5, DoKickFinalKicks
    <3>7. QED BY <1>1, <3>1, <3>4, <3>6, RemovalPreserves
  <2>13. ASSUME NEW o \in DOMAIN packetHash, TimeoutDrops(o) PROVE KickParts'
    <3>1. /\ packetHash' = Without(o) /\ awaited' \subseteq awaited
          /\ UNCHANGED <<calls, imagesTwice, packetsTwice>> /\ kicks' = kicks
      BY <2>13 DEF TimeoutDrops, nameVars
    <3>2. /\ packetHash[o] \in Packet
          /\ \A x \in packetHash[o].results : x[1] \in packetHash[o].images
      BY <1>1 DEF TypeOK, KickParts, PacketsWellFormed
    <3>3. QED BY <1>1, <3>1, <3>2, RemovalPreserves
  <2>14. ASSUME NEW o \in DOMAIN packetHash, TimeoutJudges(o) PROVE KickParts'
    <3> DEFINE p == packetHash[o]
    <3>1. /\ packetHash' = Without(o) /\ awaited' \subseteq awaited
          /\ UNCHANGED <<calls, imagesTwice, packetsTwice>>
          /\ kicks' = kicks \/ DoKickFinal(o, p, NgAfterVerdict(p))
      BY <2>14 DEF TimeoutJudges, ResultUnchanged, nameVars
    <3>2. /\ o \in Nat /\ p \in Packet
          /\ \A x \in p.results : x[1] \in p.images
      BY <1>1 DEF TypeOK, KickParts, PacketsWellFormed
    <3>3. NgAfterVerdict(p) \in Nat
      BY <1>1, NgAfterVerdictType
    <3>4. kicks' = kicks \/ Kicked(o, p)
      BY <1>1, <3>1, <3>2, <3>3, DoKickFinalKicks
    <3>5. QED BY <1>1, <3>1, <3>2, <3>4, RemovalPreserves
  <2>15. ASSUME NEW c \in Cameras, TakeFrame(c) PROVE KickParts'
    BY <1>1, <2>15, TakingPreserves
  <2>16. ASSUME NEW d \in calls, SpotImage(d) PROVE KickParts'
    BY <1>1, <2>16, SpotPreserves
  <2>17. QED BY <2>1, <2>2, <2>3, <2>4, <2>5, <2>6, <2>7, <2>8, <2>9, <2>10,
                <2>11, <2>12, <2>13, <2>14, <2>15, <2>16 DEF Next
<1>4. QED BY <1>2, <1>3 DEF KickInvariant, KickParts

LEMMA KickInit == Init => KickInvariant
<1>1. Init => TypeOK
  BY TypeInit
<1>2. Init => KickParts
  BY DEF Init, KickParts, PacketsWellFormed, CallsAreNew, PacketsDisjoint,
         AwaitedImagesKnown, AwaitedOnce, KickSound
<1>3. QED BY <1>1, <1>2 DEF KickInvariant, KickParts

(* The invariant holds throughout, however many images are named and packets
   opened in one millisecond. *)
THEOREM KickInvariantHolds == Spec => []KickInvariant
<1>1. Init => KickInvariant
  BY KickInit
<1>2. KickInvariant /\ [Next]_vars => KickInvariant'
  BY KickStep
<1>3. QED BY <1>1, <1>2, PTL DEF Spec

(* onImageResult, onTimeout and doKickFinal kick a packet only for a defect
   of its own, and no image twice unless its name was given to two. *)
THEOREM KicksAreSound == Spec => []KickSound
<1>1. KickInvariant => KickSound
  BY DEF KickInvariant
<1>2. QED BY <1>1, KickInvariantHolds, PTL

(* A late result never meets a packet that its image is not part of, unless the
   name of the packet was given twice. *)
THEOREM AwaitedImagesAreKnown == Spec => []AwaitedImagesKnown
<1>1. KickInvariant => AwaitedImagesKnown
  BY DEF KickInvariant
<1>2. QED BY <1>1, KickInvariantHolds, PTL

-----------------------------------------------------------------------------
(* What updating the totals does to the single totals. *)
WithOpened(h, a, b, c) == [h EXCEPT !.opened = a, !.original = b, !.binning = c]

LEMMA OpenedFields ==
  ASSUME NEW h \in History, NEW a \in Nat, NEW b \in Nat, NEW c \in Nat, NEW g,
         g = WithOpened(h, a, b, c)
  PROVE  /\ g.opened = a /\ g.original = b /\ g.binning = c
         /\ g.judgedNg = h.judgedNg /\ g.reportedTotal = h.reportedTotal
         /\ g.reportedNg = h.reportedNg
<1> DEFINE h1 == [h EXCEPT !.opened = a]
           h2 == [h1 EXCEPT !.original = b]
<1>1. /\ h1 \in History /\ h1.opened = a
      /\ h1.judgedNg = h.judgedNg /\ h1.reportedTotal = h.reportedTotal
      /\ h1.reportedNg = h.reportedNg
  BY DEF History
<1>2. g = [h2 EXCEPT !.binning = c]
  BY DEF WithOpened
<1>3. /\ h2 \in History /\ h2.opened = a /\ h2.original = b
      /\ h2.judgedNg = h.judgedNg /\ h2.reportedTotal = h.reportedTotal
      /\ h2.reportedNg = h.reportedNg
  <2> HIDE DEF h1
  <2>1. QED BY <1>1 DEF History
<1> HIDE DEF h2
<1>4. QED BY <1>2, <1>3 DEF History

(* preInferAsync counts the packet it opens, and samples it for the two kinds
   of report. *)
LEMMA OpenCounts ==
  ASSUME TypeOK, NEW d \in calls, OpenPacket(d)
  PROVE  /\ detectTotal' = detectTotal + 1 /\ history.opened \in Nat
         /\ history'.opened = history.opened + 1
         /\ history'.original = IF ReportDue(OriginalRate, originalIndex)
                                THEN history.original + 1 ELSE history.original
         /\ history'.binning = IF ReportDue(BinningRate, binningIndex)
                               THEN history.binning + 1 ELSE history.binning
         /\ originalIndex' = NextReportIndex(OriginalRate, originalIndex)
         /\ binningIndex' = NextReportIndex(BinningRate, binningIndex)
         /\ history'.judgedNg = history.judgedNg
         /\ history'.reportedTotal = history.reportedTotal
         /\ history'.reportedNg = history.reportedNg
         /\ UNCHANGED <<detectNg, statistic, kicks>>
<1> DEFINE a == history.opened + 1
           b == IF ReportDue(OriginalRate, originalIndex)
                THEN history.original + 1 ELSE history.original
           e == IF ReportDue(BinningRate, binningIndex)
                THEN history.binning + 1 ELSE history.binning
<1>1. history \in History
  BY DEF TypeOK
<1>2. a \in Nat /\ b \in Nat /\ e \in Nat /\ history.opened \in Nat
  BY <1>1 DEF History
<1>3. history' = WithOpened(history, a, b, e)
  BY DEF OpenPacket, NewPacket, WithOpened
<1>4. /\ history'.opened = a /\ history'.original = b /\ history'.binning = e
      /\ history'.judgedNg = history.judgedNg
      /\ history'.reportedTotal = history.reportedTotal
      /\ history'.reportedNg = history.reportedNg
  <2> HIDE DEF a, b, e
  <2>1. QED BY <1>1, <1>2, <1>3, OpenedFields
<1>5. QED BY <1>2, <1>4 DEF OpenPacket, Sent

(* One step of the system neither loses a packet with a defect nor overwrites
   the defect. *)
LEMMA NgStep ==
  ASSUME KickInvariant, [Next]_vars,
         NEW o \in DOMAIN packetHash, NEW i \in packetHash[o].images \ imagesTwice,
         <<i, "NG">> \in packetHash[o].results
  PROVE  \/ DefectKept(o, i) \/ DefectKicked(o) \/ DefectOfSplitPacket(o)
         \/ PacketReplaced(o)
<1>1. TypeOK /\ KickParts
  BY DEF KickInvariant, KickParts
<1>2. o \in Nat /\ packetHash[o] \in Packet
  BY <1>1 DEF TypeOK
<1>3. CASE packetHash' = packetHash
  BY <1>3 DEF DefectKept
<1>4. CASE UNCHANGED vars \/ Tick \/ Enable \/ GetStatistic \/ ClearStatistic
           \/ (\E c \in Cameras : SendImageData(c) \/ SetOnline(c) \/ TakeFrame(c))
           \/ (\E d \in calls : SpotImage(d))
           \/ (\E m \in awaited : ResultIgnored(m))
  BY <1>3, <1>4 DEF vars, Tick, Enable, GetStatistic, ClearStatistic,
                    SendImageData, SetOnline, TakeFrame, SpotImage, ResultIgnored
<1>5. ASSUME NEW d \in calls, JoinPacket(d) PROVE DefectKept(o, i)
  <2>1. PICK q \in Near(d.genTimeStamp) :
          packetHash' = [packetHash EXCEPT ![q] =
             [packetHash[q] EXCEPT !.images = @ \cup {d.imageId}]]
    BY <1>5 DEF JoinPacket
  <2>2. q \in DOMAIN packetHash /\ packetHash[q] \in Packet
    BY <1>1 DEF Near, TypeOK
  <2>3. CASE q = o
    <3>1. packetHash'[o].images = packetHash[o].images \cup {d.imageId}
          /\ packetHash'[o].results = packetHash[o].results
      BY <2>1, <2>2, <2>3 DEF Packet
    <3>2. QED BY <2>1, <3>1 DEF DefectKept
  <2>4. CASE q # o
    BY <2>1, <2>4 DEF DefectKept
  <2>5. QED BY <2>3, <2>4
<1>6. ASSUME NEW d \in calls, OpenPacket(d) PROVE DefectKept(o, i) \/ PacketReplaced(o)
  <2>1. CASE o = now
    <3>1. o \in packetsTwice'
      BY <1>6, <2>1 DEF OpenPacket, NamePacket, PacketInUse
    <3>2. history'.opened = history.opened + 1
      BY <1>1, <1>6, OpenCounts
    <3>3. QED BY <2>1, <3>1, <3>2 DEF PacketReplaced
  <2>2. CASE o # now
    <3>1. o \in DOMAIN packetHash' /\ packetHash'[o] = packetHash[o]
      BY <1>6, <2>2 DEF OpenPacket
    <3>2. QED BY <3>1 DEF DefectKept
  <2>3. QED BY <2>1, <2>2
<1>7. ASSUME NEW m \in awaited, NEW r \in Results, m.objectId = o,
             NEW p, p = WithResult(packetHash[o], m.imageId, r)
      PROVE  /\ p \in Packet /\ p.images = packetHash[o].images
             /\ <<i, "NG">> \in p.results /\ HasNg(p)
  <2>1. m.imageId \in ImageId
    BY <1>1 DEF TypeOK, Awaited
  <2>2. /\ p \in Packet /\ p.images = packetHash[o].images
        /\ \A x \in packetHash[o].results : x[1] # m.imageId => x \in p.results
    BY <1>2, <1>7, <2>1, WithResultForm
  <2>3. i # m.imageId
    BY <1>1 DEF KickParts, AwaitedOnce
  <2>4. <<i, "NG">> \in p.results
    BY <2>2, <2>3
  <2>5. HasNg(p)
    BY <2>4 DEF HasNg
  <2>6. QED BY <2>2, <2>4, <2>5
<1>8. ASSUME NEW m \in awaited, NEW r \in Results, ResultStored(m, r)
      PROVE  DefectKept(o, i)
  <2>1. /\ m.objectId \in DOMAIN packetHash
        /\ packetHash' = [packetHash EXCEPT ![m.objectId] =
                            WithResult(packetHash[m.objectId], m.imageId, r)]
    BY <1>8 DEF ResultStored
  <2>2. CASE m.objectId = o
    BY <1>7, <2>1, <2>2 DEF DefectKept
  <2>3. CASE m.objectId # o
    BY <2>1, <2>3 DEF DefectKept
  <2>4. QED BY <2>2, <2>3
<1>9. ASSUME NEW q \in DOMAIN packetHash, packetHash' = Without(q), q # o
      PROVE  DefectKept(o, i)
  BY <1>9 DEF Without, DefectKept
<1>10. ASSUME NEW p \in Packet, HasNg(p), DoKickFinal(o, p, NgAfterVerdict(p))
       PROVE  DefectKicked(o)
  <2>1. NgAfterVerdict(p) \in Nat
    BY <1>1, NgAfterVerdictType
  <2>2. PICK k \in Kick : k.objectId = o /\ kicks' = Append(kicks, k)
    BY <1>1, <1>2, <1>10, <2>1, DoKickFinalKicks DEF Kicked
  <2>3. kicks \in Seq(Kick)
    BY <1>1 DEF TypeOK
  <2>4. QED BY <2>2, <2>3 DEF DefectKicked
<1>11. ASSUME NEW m \in awaited, NEW r \in Results, ResultConcludes(m, r)
       PROVE  DefectKept(o, i) \/ DefectKicked(o)
  <2>1. /\ m.objectId \in DOMAIN packetHash
        /\ packetHash' = Without(m.objectId)
    BY <1>11 DEF ResultConcludes
  <2>2. CASE m.objectId = o
    <3> DEFINE p == WithResult(packetHash[o], m.imageId, r)
    <3>1. DoKickFinal(o, p, NgAfterVerdict(p))
      BY <1>11, <2>2 DEF ResultConcludes
    <3>2. p \in Packet /\ HasNg(p)
      BY <1>7, <2>2
    <3> HIDE DEF p
    <3>3. QED BY <1>10, <3>1, <3>2
  <2>3. CASE m.objectId # o
    BY <1>9, <2>1, <2>3
  <2>4. QED BY <2>2, <2>3
<1>12. HasNg(packetHash[o])
  BY DEF HasNg
<1>13. ASSUME NEW q \in DOMAIN packetHash, TimeoutDrops(q)
       PROVE  DefectKept(o, i)
  <2>1. q # o
    BY <1>13 DEF TimeoutDrops
  <2>2. QED BY <1>9, <1>13, <2>1 DEF TimeoutDrops
<1>14. ASSUME NEW q \in DOMAIN packetHash, TimeoutJudges(q)
       PROVE  DefectKept(o, i) \/ DefectKicked(o) \/ DefectOfSplitPacket(o)
  <2>1. CASE q # o
    BY <1>9, <1>14, <2>1 DEF TimeoutJudges
  <2>2. CASE q = o /\ Cardinality(packetHash[o].images) >= RealOnlineCameraCount
    <3>1. DoKickFinal(o, packetHash[o], NgAfterVerdict(packetHash[o]))
      BY <1>14, <2>2 DEF TimeoutJudges
    <3>2. QED BY <1>2, <1>10, <1>12, <3>1
  <2>3. CASE q = o /\ ~(Cardinality(packetHash[o].images) >= RealOnlineCameraCount)
    <3>1. Expired(o)
      BY <1>14, <2>3 DEF TimeoutJudges
    <3>2. QED BY <2>3, <3>1 DEF DefectOfSplitPacket
  <2>4. QED BY <2>1, <2>2, <2>3
<1>15. QED BY <1>4, <1>5, <1>6, <1>8, <1>11, <1>13, <1>14 DEF Next

(* A defect found in an image is acted upon, or dropped only by the timeout of
   a packet that lacks images or by a packet opened in the same millisecond,
   unless the result of a second image of that name replaces it. *)
THEOREM DefectsAreNotForgotten == Spec => NgNotForgotten
<1>1. KickInvariant /\ [Next]_vars =>
        [\A o \in DOMAIN packetHash : \A i \in packetHash[o].images \ imagesTwice :
           <<i, "NG">> \in packetHash[o].results =>
             \/ DefectKept(o, i) \/ DefectKicked(o) \/ DefectOfSplitPacket(o)
             \/ PacketReplaced(o)]_vars
  BY NgStep
<1>2. QED BY <1>1, KickInvariantHolds, PTL DEF Spec, NgNotForgotten

-----------------------------------------------------------------------------
(* Grouping does not even need the names to differ. *)
WellFormed(p) ==
  /\ \A i, j \in p.images : i.cameraId = j.cameraId => i = j
  /\ \A x \in p.results : x[1] \in p.images
  /\ \A x, y \in p.results : x[1] = y[1] => x = y

LEMMA GroupingStep ==
  ASSUME TypeOK, PacketsWellFormed, [Next]_vars PROVE PacketsWellFormed'
<1> USE DEF WellFormed
<1>1. \A o \in DOMAIN packetHash :
        packetHash[o] \in Packet /\ WellFormed(packetHash[o])
  BY DEF TypeOK, PacketsWellFormed
<1>2. ASSUME \A o \in DOMAIN packetHash' : WellFormed(packetHash'[o])
      PROVE  PacketsWellFormed'
  BY <1>2 DEF PacketsWellFormed
<1>3. CASE packetHash' = packetHash
  BY <1>1, <1>2, <1>3
<1>4. CASE UNCHANGED vars \/ Tick \/ Enable \/ GetStatistic \/ ClearStatistic
           \/ (\E c \in Cameras : SendImageData(c) \/ SetOnline(c) \/ TakeFrame(c))
           \/ (\E d \in calls : SpotImage(d))
           \/ (\E m \in awaited : ResultIgnored(m))
  BY <1>3, <1>4 DEF vars, Tick, Enable, GetStatistic, ClearStatistic,
                    SendImageData, SetOnline, TakeFrame, SpotImage, ResultIgnored
<1>5. ASSUME NEW d \in calls, JoinPacket(d) PROVE PacketsWellFormed'
  <2>1. PICK q \in Near(d.genTimeStamp) :
          /\ HasRoom(packetHash[q], d.imageId.cameraId)
          /\ packetHash' = [packetHash EXCEPT ![q] =
               [packetHash[q] EXCEPT !.images = @ \cup {d.imageId}]]
    BY <1>5 DEF JoinPacket
  <2>2. q \in DOMAIN packetHash
    BY <2>1 DEF Near
  <2>3. /\ packetHash'[q].images = packetHash[q].images \cup {d.imageId}
        /\ packetHash'[q].results = packetHash[q].results
    BY <1>1, <2>1, <2>2 DEF Packet
  <2>5. \A i \in packetHash[q].images : i.cameraId # d.imageId.cameraId
    BY <2>1 DEF HasRoom
  <2>6. WellFormed(packetHash'[q])
    BY <1>1, <2>2, <2>3, <2>5
  <2>7. QED BY <1>1, <1>2, <2>1, <2>6
<1>6. ASSUME NEW d \in calls, OpenPacket(d) PROVE PacketsWellFormed'
  <2>1. packetHash' = [o \in DOMAIN packetHash \cup {now} |->
                        IF o = now THEN NewPacket(d) ELSE packetHash[o]]
    BY <1>6 DEF OpenPacket
  <2>2. WellFormed(NewPacket(d))
    BY DEF NewPacket
  <2>3. QED BY <1>1, <1>2, <2>1, <2>2
<1>7. ASSUME NEW m \in awaited, NEW r \in Results, ResultStored(m, r)
      PROVE  PacketsWellFormed'
  <2>1. /\ m.objectId \in DOMAIN packetHash
        /\ packetHash' = [packetHash EXCEPT ![m.objectId] =
                            WithResult(packetHash[m.objectId], m.imageId, r)]
    BY <1>7 DEF ResultStored
  <2>2. m.imageId \in ImageId
    BY DEF TypeOK, Awaited
  <2> DEFINE p == packetHash[m.objectId]
             q == WithResult(p, m.imageId, r)
  <2>3. q = WithResult(p, m.imageId, r) /\ p \in Packet /\ WellFormed(p)
    BY <1>1, <2>1
  <2> HIDE DEF p, q
  <2>4. /\ q.images = p.images
        /\ \A x \in q.results :
             x \in p.results \/ (m.imageId \in p.images /\ x = <<m.imageId, r>>)
        /\ \A x \in q.results :
             x[1] = m.imageId /\ m.imageId \in p.images => x = <<m.imageId, r>>
    BY <2>2, <2>3, WithResultForm
  <2>5. \A x \in q.results : x[1] \in q.images
    BY <2>3, <2>4
  <2>6. \A x, y \in q.results : x[1] = y[1] => x = y
    BY <2>3, <2>4, <2>5
  <2>7. WellFormed(q)
    BY <2>3, <2>4, <2>5, <2>6
  <2>8. packetHash' = [packetHash EXCEPT ![m.objectId] = q]
    BY <2>1 DEF q, p
  <2>9. QED BY <1>1, <1>2, <2>7, <2>8
<1>8. ASSUME NEW o \in DOMAIN packetHash, packetHash' = Without(o)
      PROVE  PacketsWellFormed'
  BY <1>1, <1>2, <1>8 DEF Without
<1>9. ASSUME NEW m \in awaited, NEW r \in Results, ResultConcludes(m, r)
      PROVE  PacketsWellFormed'
  BY <1>8, <1>9 DEF ResultConcludes
<1>10. ASSUME NEW o \in DOMAIN packetHash, TimeoutDrops(o) \/ TimeoutJudges(o)
       PROVE  PacketsWellFormed'
  BY <1>8, <1>10 DEF TimeoutDrops, TimeoutJudges
<1>11. QED BY <1>4, <1>5, <1>6, <1>7, <1>9, <1>10 DEF Next

(* However the frames of the cameras interleave, and however many share one
   millisecond, an open packet holds one image of a camera and one result of
   an image. *)
THEOREM PacketsAreWellFormed == Spec => []PacketsWellFormed
<1>1. Init => PacketsWellFormed
  BY DEF Init, PacketsWellFormed
<1>2. TypeOK /\ PacketsWellFormed /\ [Next]_vars => PacketsWellFormed'
  BY GroupingStep
<1>3. QED BY <1>1, <1>2, TypeCorrect, PTL DEF Spec

-----------------------------------------------------------------------------
(* When packets are given up. *)

(* No capture time lies in the future: neither in the frames that wait on the
   cameras' threads, nor in the calls of preInfer, nor in the open packets. *)
NothingFromTheFuture ==
  /\ \A c \in Cameras : \A i \in DOMAIN frames[c] : frames[c][i] <= now
  /\ \A d \in calls : d.genTimeStamp <= now
  /\ \A o \in DOMAIN packetHash : packetHash[o].firstImageTime <= now

(* An unsigned age is never larger than the real one. *)
LEMMA ModuloAtMost ==
  ASSUME NEW x \in Nat, NEW w \in Nat \ {0} PROVE x % w <= x
  OBVIOUS

(* All steps but those of the clock, of capture and of new packets leave the
   capture times alone or forget some. *)
LEMMA OtherStepsPreserve ==
  ASSUME TypeOK, NothingFromTheFuture, now' = now, frames' = frames,
         calls' \subseteq calls,
         DOMAIN packetHash' \subseteq DOMAIN packetHash,
         \A o \in DOMAIN packetHash' :
           packetHash'[o].firstImageTime = packetHash[o].firstImageTime
  PROVE  NothingFromTheFuture'
  BY DEF NothingFromTheFuture

(* The frame that a camera's thread takes was captured in the past. *)
LEMMA HeadIsPast ==
  ASSUME TypeOK, NothingFromTheFuture, NEW c \in Cameras, TakeFrame(c)
  PROVE  /\ Head(frames[c]) \in Int /\ Head(frames[c]) <= now
         /\ now' = now
         /\ \A d \in Cameras : \A i \in DOMAIN frames'[d] : frames'[d][i] <= now'
<1>1. frames[c] \in Seq(Int) /\ frames[c] # << >> /\ now' = now
  BY DEF TypeOK, TakeFrame
<1>2. Head(frames[c]) \in Int /\ Head(frames[c]) <= now
  <2>1. 1 \in DOMAIN frames[c] /\ Head(frames[c]) = frames[c][1]
    BY <1>1
  <2>2. QED BY <1>1, <2>1 DEF NothingFromTheFuture
<1>3. ASSUME NEW d \in Cameras, NEW i \in DOMAIN frames'[d]
      PROVE  frames'[d][i] <= now'
  <2>1. CASE d = c
    <3>1. frames'[c] = Tail(frames[c])
      BY DEF TakeFrame, TypeOK
    <3>2. i + 1 \in DOMAIN frames[c] /\ frames'[c][i] = frames[c][i + 1]
      BY <1>1, <1>3, <2>1, <3>1
    <3>3. QED BY <1>1, <2>1, <3>2 DEF NothingFromTheFuture
  <2>2. CASE d # c
    <3>1. frames'[d] = frames[d]
      BY <2>2 DEF TakeFrame, TypeOK
    <3>2. QED BY <1>1, <1>3, <3>1 DEF NothingFromTheFuture
  <2>3. QED BY <2>1, <2>2
<1>4. QED BY <1>1, <1>2, <1>3

LEMMA FutureStep ==
  ASSUME \A c \in Cameras : Compensation[c] <= 0,
         TypeOK, NothingFromTheFuture, [Next]_vars
  PROVE  NothingFromTheFuture'
<1>1. CASE Tick
  <2>1. /\ now' = now + 1 /\ frames' = frames /\ packetHash' = packetHash
        /\ calls' = calls
    BY <1>1 DEF Tick, cameraVars, nameVars
  <2>2. now \in Nat /\ \A c \in Cameras : frames[c] \in Seq(Int)
    BY DEF TypeOK
  <2>3. ASSUME NEW c \in Cameras, NEW i \in DOMAIN frames[c]
        PROVE  frames[c][i] <= now + 1
    <3>1. frames[c][i] \in Int /\ frames[c][i] <= now
      BY <2>2, <2>3 DEF NothingFromTheFuture
    <3>2. QED BY <2>2, <3>1
  <2>4. ASSUME NEW o \in DOMAIN packetHash
        PROVE  packetHash[o].firstImageTime <= now + 1
    <3>1. packetHash[o].firstImageTime \in Int /\ packetHash[o].firstImageTime <= now
      BY <2>4 DEF NothingFromTheFuture, TypeOK, Packet
    <3>2. QED BY <2>2, <3>1
  <2>5. ASSUME NEW d \in calls PROVE d.genTimeStamp <= now + 1
    <3>1. d.genTimeStamp \in Int /\ d.genTimeStamp <= now
      BY <2>5 DEF NothingFromTheFuture, TypeOK, Call
    <3>2. QED BY <2>2, <3>1
  <2>6. QED BY <2>1, <2>3, <2>4, <2>5 DEF NothingFromTheFuture
<1>2. ASSUME NEW c \in Cameras, SendImageData(c) PROVE NothingFromTheFuture'
  <2> DEFINE stamp == now + Compensation[c]
  <2>1. /\ frames' = [frames EXCEPT ![c] = Append(@, stamp)]
        /\ now' = now /\ packetHash' = packetHash /\ calls' = calls
    BY <1>2 DEF SendImageData, nameVars
  <2>2. Compensation[c] \in Int /\ Compensation[c] <= 0 /\ now \in Nat
    BY ConstantsOK DEF TypeOK
  <2>3. stamp \in Int /\ stamp <= now
    BY <2>2
  <2> HIDE DEF stamp
  <2>4. ASSUME NEW d \in Cameras, NEW i \in DOMAIN frames'[d]
        PROVE  frames'[d][i] <= now
    <3>1. CASE d = c
      <4>1. frames[c] \in Seq(Int) /\ frames'[c] = Append(frames[c], stamp)
        BY <2>1 DEF TypeOK
      <4>2. CASE i \in DOMAIN frames[c]
        BY <3>1, <4>1, <4>2 DEF NothingFromTheFuture
      <4>3. CASE i \notin DOMAIN frames[c]
        <5>1. frames'[c][i] = stamp
          BY <2>3, <2>4, <3>1, <4>1, <4>3
        <5>2. QED BY <2>3, <3>1, <5>1
      <4>4. QED BY <4>2, <4>3
    <3>2. CASE d # c
      <4>1. frames'[d] = frames[d]
        BY <2>1, <3>2 DEF TypeOK
      <4>2. QED BY <2>4, <4>1 DEF NothingFromTheFuture
    <3>3. QED BY <3>1, <3>2
  <2>5. QED BY <2>1, <2>4 DEF NothingFromTheFuture
<1>3. ASSUME NEW d \in calls, JoinPacket(d) PROVE NothingFromTheFuture'
  <2>1. now' = now /\ frames' = frames /\ calls' \subseteq calls
    BY <1>3 DEF JoinPacket, Sent, cameraVars
  <2>2. PICK q \in DOMAIN packetHash :
          packetHash' = [packetHash EXCEPT ![q] =
            [packetHash[q] EXCEPT !.images = @ \cup {d.imageId}]]
    BY <1>3 DEF JoinPacket, Near
  <2>3. ASSUME NEW o \in DOMAIN packetHash
        PROVE  packetHash'[o].firstImageTime = packetHash[o].firstImageTime
    BY <2>2 DEF TypeOK, Packet
  <2>4. DOMAIN packetHash' = DOMAIN packetHash
    BY <2>2
  <2>5. QED BY <2>1, <2>3, <2>4, OtherStepsPreserve
<1>4. ASSUME NEW d \in calls, OpenPacket(d) PROVE NothingFromTheFuture'
  <2>1. now' = now /\ frames' = frames /\ \A e \in calls' : e \in calls
    BY <1>4 DEF OpenPacket, Sent, cameraVars
  <2>2. packetHash' = [o \in DOMAIN packetHash \cup {now} |->
                        IF o = now THEN NewPacket(d) ELSE packetHash[o]]
    BY <1>4 DEF OpenPacket
  <2>3. NewPacket(d).firstImageTime = d.genTimeStamp
    BY DEF NewPacket
  <2>4. ASSUME NEW o \in DOMAIN packetHash' PROVE packetHash'[o].firstImageTime <= now
    BY <2>2, <2>3, <2>4 DEF NothingFromTheFuture
  <2>5. QED BY <2>1, <2>4 DEF NothingFromTheFuture
<1>5. ASSUME NEW c \in Cameras, TakeFrame(c) PROVE NothingFromTheFuture'
  <2> DEFINE new == [imageId |-> NewImage(c), genTimeStamp |-> Head(frames[c])]
  <2>1. /\ calls' = calls \cup {new} /\ new.genTimeStamp = Head(frames[c])
        /\ packetHash' = packetHash /\ now' = now
    BY <1>5 DEF TakeFrame
  <2> HIDE DEF new
  <2>2. \A e \in calls' : e.genTimeStamp <= now
    BY <1>5, <2>1, HeadIsPast DEF NothingFromTheFuture
  <2>3. QED BY <1>5, <2>1, <2>2, HeadIsPast DEF NothingFromTheFuture
<1>6. ASSUME NEW m \in awaited, NEW r \in Results, ResultStored(m, r)
      PROVE  NothingFromTheFuture'
  <2> DEFINE p == WithResult(packetHash[m.objectId], m.imageId, r)
  <2>1. /\ m.objectId \in DOMAIN packetHash
        /\ packetHash' = [packetHash EXCEPT ![m.objectId] = p]
        /\ now' = now /\ frames' = frames /\ calls' \subseteq calls
    BY <1>6 DEF ResultStored, ResultUnchanged, nameVars
  <2>2. p.firstImageTime = packetHash[m.objectId].firstImageTime
    BY <2>1 DEF WithResult, TypeOK, Packet
  <2> HIDE DEF p
  <2>3. QED BY <2>1, <2>2, OtherStepsPreserve
<1>7. CASE UNCHANGED vars \/ Enable \/ GetStatistic \/ ClearStatistic
           \/ (\E c \in Cameras : SetOnline(c))
           \/ (\E d \in calls : SpotImage(d))
           \/ (\E m \in awaited : ResultIgnored(m))
  <2>1. /\ now' = now /\ frames' = frames /\ packetHash' = packetHash
        /\ calls' \subseteq calls
    BY <1>7 DEF vars, Enable, GetStatistic, ClearStatistic, SetOnline,
                SpotImage, Sent, ResultIgnored, cameraVars, nameVars
  <2>2. QED BY <2>1, OtherStepsPreserve
<1>8. CASE \E o \in DOMAIN packetHash :
             /\ packetHash' = Without(o) /\ now' = now /\ frames' = frames
             /\ calls' = calls
  BY <1>8, OtherStepsPreserve DEF Without
<1>9. ASSUME NEW m \in awaited, NEW r \in Results, ResultConcludes(m, r)
      PROVE  NothingFromTheFuture'
  BY <1>8, <1>9 DEF ResultConcludes, ResultUnchanged, nameVars
<1>10. ASSUME NEW o \in DOMAIN packetHash, TimeoutDrops(o) \/ TimeoutJudges(o)
      PROVE  NothingFromTheFuture'
  BY <1>8, <1>10 DEF TimeoutDrops, TimeoutJudges, ResultUnchanged, cameraVars, nameVars
<1>11. QED
  BY <1>1, <1>2, <1>3, <1>4, <1>6, <1>7, <1>9, <1>10, <1>5 DEF Next

(* Only the timer removes a packet without taking a result, and it looks at the
   packet's age first. *)
LEMMA TimeoutStep ==
  ASSUME TypeOK, NothingFromTheFuture, [Next]_vars,
         NEW o \in DOMAIN packetHash, o \notin DOMAIN packetHash',
         awaited' = awaited
  PROVE  now - packetHash[o].firstImageTime >= InferTimeout
<1>1. ASSUME Expired(o)
      PROVE  now - packetHash[o].firstImageTime >= InferTimeout
  <2> DEFINE age == now - packetHash[o].firstImageTime
  <2>1. packetHash[o].firstImageTime \in Int /\ now \in Nat
        /\ packetHash[o].firstImageTime <= now
    BY DEF TypeOK, Packet, NothingFromTheFuture
  <2>2. age \in Nat
    BY <2>1
  <2>3. age % Word >= InferTimeout
    BY <1>1 DEF Expired, Elapsed
  <2> HIDE DEF age
  <2>4. age % Word <= age
    BY <2>2, ModuloAtMost, ConstantsOK
  <2>5. age % Word \in Int
    BY <2>2, ConstantsOK
  <2>6. age >= InferTimeout
    BY <2>2, <2>3, <2>4, <2>5, ConstantsOK
  <2>7. QED BY <2>6 DEF age
<1>2. ~UNCHANGED vars /\ ~Tick /\ ~Enable /\ ~GetStatistic /\ ~ClearStatistic
  BY DEF vars, Tick, Enable, GetStatistic, ClearStatistic
<1>3. ASSUME NEW c \in Cameras PROVE ~SendImageData(c) /\ ~SetOnline(c) /\ ~TakeFrame(c)
  BY DEF SendImageData, SetOnline, TakeFrame
<1>4. ASSUME NEW d \in calls PROVE ~JoinPacket(d) /\ ~SpotImage(d)
  BY DEF JoinPacket, SpotImage
<1>5. ASSUME NEW d \in calls PROVE ~OpenPacket(d)
  BY DEF OpenPacket
<1>6. ASSUME NEW m \in awaited, NEW r \in Results
      PROVE  ~ResultIgnored(m) /\ ~ResultStored(m, r) /\ ~ResultConcludes(m, r)
  BY DEF ResultIgnored, ResultStored, ResultConcludes
<1>7. ASSUME NEW q \in DOMAIN packetHash, TimeoutDrops(q) \/ TimeoutJudges(q)
      PROVE  Expired(o)
  <2>1. packetHash' = Without(q) /\ Expired(q)
    BY <1>7 DEF TimeoutDrops, TimeoutJudges
  <2>2. q = o
    BY <2>1 DEF Without
  <2>3. QED BY <2>1, <2>2
<1>8. Results # {}
  BY DEF Results
<1>9. QED BY <1>1, <1>2, <1>3, <1>4, <1>5, <1>6, <1>7, <1>8 DEF Next

(* No compensation lies in the future: then the capture times never do. *)
THEOREM CaptureTimesArePast ==
  ASSUME \A c \in Cameras : Compensation[c] <= 0
  PROVE  Spec => []NothingFromTheFuture
<1>1. Init => NothingFromTheFuture
  BY DEF Init, NothingFromTheFuture
<1>2. TypeOK /\ NothingFromTheFuture /\ [Next]_vars => NothingFromTheFuture'
  BY FutureStep
<1>3. QED BY <1>1, <1>2, TypeCorrect, PTL DEF Spec

(* onTimeout gives up a packet only when m_inferTimeout ms have passed since its
   first image, however the unsigned arithmetic of ages is sized, if no camera's
   capture_compensation_ms lies in the future. *)
THEOREM PacketsAreNotDroppedEarly ==
  ASSUME \A c \in Cameras : Compensation[c] <= 0
  PROVE  Spec => NoPacketDroppedEarly
<1>1. TypeOK /\ NothingFromTheFuture /\ [Next]_vars =>
        [\A o \in DOMAIN packetHash :
           o \notin DOMAIN packetHash' /\ awaited' = awaited =>
             now - packetHash[o].firstImageTime >= InferTimeout]_vars
  BY TimeoutStep
<1>2. QED BY <1>1, TypeCorrect, CaptureTimesArePast, PTL DEF Spec, NoPacketDroppedEarly

-----------------------------------------------------------------------------
(* The statistics and the sampling of packets for reports. *)

WithReported(h, a, b, c) ==
  [h EXCEPT !.reportedTotal = a, !.reportedNg = b, !.reports = c]

LEMMA ReportedFields ==
  ASSUME NEW h \in History, NEW a \in Nat, NEW b \in Nat, NEW c \in Nat
  PROVE  /\ WithReported(h, a, b, c).opened = h.opened
         /\ WithReported(h, a, b, c).original = h.original
         /\ WithReported(h, a, b, c).binning = h.binning
         /\ WithReported(h, a, b, c).judgedNg = h.judgedNg
         /\ WithReported(h, a, b, c).reportedTotal = a
         /\ WithReported(h, a, b, c).reportedNg = b
<1> DEFINE h1 == [h EXCEPT !.reportedTotal = a]
           h2 == [h1 EXCEPT !.reportedNg = b]
<1>1. /\ h1 \in History /\ h1.opened = h.opened /\ h1.original = h.original
      /\ h1.binning = h.binning /\ h1.judgedNg = h.judgedNg
      /\ h1.reportedTotal = a
  BY DEF History
<1>2. WithReported(h, a, b, c) = [h2 EXCEPT !.reports = c]
  BY DEF WithReported
<1>3. /\ h2 \in History /\ h2.opened = h.opened /\ h2.original = h.original
      /\ h2.binning = h.binning /\ h2.judgedNg = h.judgedNg
      /\ h2.reportedTotal = a /\ h2.reportedNg = b
  <2> HIDE DEF h1
  <2>1. QED BY <1>1 DEF History
<1> HIDE DEF h2
<1>4. QED BY <1>2, <1>3 DEF History

(* What a step of sampling does: the packet opened next is the last of a row
   of rate packets exactly when it is sampled. *)
LEMMA SamplingStep ==
  ASSUME NEW rate \in Int, rate > 0, NEW n \in Nat, NEW k \in Nat,
         NEW i \in Nat, n = rate * k + i, i < rate \/ i = 0
  PROVE  /\ n + 1 = rate * (IF ReportDue(rate, i) THEN k + 1 ELSE k)
                      + NextReportIndex(rate, i)
         /\ NextReportIndex(rate, i) < rate
<1>1. rate * (k + 1) = rate * k + rate
  OBVIOUS
<1>2. rate * k \in Int
  OBVIOUS
<1>3. CASE i + 1 >= rate
  <2>1. i + 1 = rate
    BY <1>3
  <2>2. QED BY <1>1, <1>2, <1>3, <2>1 DEF ReportDue, NextReportIndex
<1>4. CASE ~(i + 1 >= rate)
  BY <1>2, <1>4 DEF ReportDue, NextReportIndex
<1>5. QED BY <1>3, <1>4

(* With a rate of zero or less the index never moves. *)
LEMMA NoSampling ==
  ASSUME NEW rate \in Int, ~(rate > 0), NEW i \in Nat, i < rate \/ i = 0
  PROVE  NextReportIndex(rate, i) = 0
BY DEF NextReportIndex

(* clearStatistic adds what getStatistic read to the reported totals. *)
LEMMA ClearCounts ==
  ASSUME TypeOK, ClearStatistic
  PROVE  /\ statistic \in Nat \X Nat
         /\ detectTotal' = 0 /\ detectNg' = 0 /\ statistic' = << >>
         /\ history'.reportedTotal = history.reportedTotal + statistic[1]
         /\ history'.reportedNg = history.reportedNg + statistic[2]
         /\ history'.opened = history.opened
         /\ history'.original = history.original
         /\ history'.binning = history.binning
         /\ history'.judgedNg = history.judgedNg
         /\ UNCHANGED <<kicks, originalIndex, binningIndex>>
<1> DEFINE a == history.reportedTotal + statistic[1]
           b == history.reportedNg + statistic[2]
           c == history.reports + 1
<1>1. statistic \in Nat \X Nat
  BY DEF ClearStatistic, TypeOK
<1>2. history \in History /\ statistic[1] \in Nat /\ statistic[2] \in Nat
  BY <1>1 DEF TypeOK
<1>3. a \in Nat /\ b \in Nat /\ c \in Nat
  BY <1>2 DEF History
<1>4. history' = WithReported(history, a, b, c)
  BY DEF ClearStatistic, WithReported
<1>5. /\ history'.opened = history.opened
      /\ history'.original = history.original
      /\ history'.binning = history.binning
      /\ history'.judgedNg = history.judgedNg
      /\ history'.reportedTotal = a
      /\ history'.reportedNg = b
  <2> HIDE DEF a, b, c
  <2>1. history \in History
    BY <1>2
  <2>2. QED BY <1>3, <1>4, <2>1, ReportedFields
<1>6. QED BY <1>1, <1>5 DEF ClearStatistic, reportVars

(* A packet p is judged: the defect is counted by onImageResult or onTimeout,
   and once more by doKickFinal if that kicks the packet. *)
Judged(p) ==
  /\ history' = [history EXCEPT !.judgedNg = IF HasNg(p) THEN @ + 1 ELSE @]
  /\ \/ kicks' = kicks /\ detectNg' = NgAfterVerdict(p)
     \/ /\ HasNg(p) /\ Len(kicks') = Len(kicks) + 1
        /\ detectNg' = NgAfterVerdict(p) + 1
  /\ UNCHANGED <<detectTotal, statistic, originalIndex, binningIndex>>

(* Nothing that is counted changes. *)
NothingCounted ==
  /\ \/ UNCHANGED history
     \/ history' = [history EXCEPT !.frames = @ + 1]
     \/ history' = [history EXCEPT !.flaps = @ + 1]
  /\ UNCHANGED <<kicks, detectTotal, detectNg, statistic, originalIndex, binningIndex>>

(* getStatistic reads the counters. *)
Read ==
  /\ \E ng \in Nat : /\ ~IoBoard => ng = detectNg
                     /\ statistic' = <<detectTotal, ng>>
  /\ UNCHANGED <<kicks, detectTotal, detectNg, history, originalIndex, binningIndex>>

(* For the counters every step is one of these five. *)
LEMMA CountingSteps ==
  ASSUME TypeOK, [Next]_vars
  PROVE  \/ NothingCounted \/ Read \/ ClearStatistic
         \/ \E d \in calls : OpenPacket(d)
         \/ \E p \in Packet : Judged(p)
<1>1. ASSUME NEW p \in Packet, NEW o \in Nat, RecordVerdict(p), ResultUnchanged,
             \/ DoKickFinal(o, p, NgAfterVerdict(p))
             \/ UNCHANGED kicks /\ detectNg' = NgAfterVerdict(p)
      PROVE  Judged(p)
  <2>1. NgAfterVerdict(p) \in Nat /\ kicks \in Seq(Kick)
    BY NgAfterVerdictType DEF TypeOK
  <2>2. CASE UNCHANGED kicks /\ detectNg' = NgAfterVerdict(p)
    BY <1>1, <2>2 DEF Judged, RecordVerdict, ResultUnchanged, reportVars
  <2>3. CASE DoKickFinal(o, p, NgAfterVerdict(p))
    <3>1. \/ kicks' = kicks /\ ~HasNg(p)
          \/ Kicked(o, p)
      BY <2>1, <2>3, DoKickFinalKicks
    <3>2. detectNg' = IF HasNg(p) THEN NgAfterVerdict(p) + 1 ELSE NgAfterVerdict(p)
      BY <2>3 DEF DoKickFinal
    <3>3. CASE kicks' = kicks /\ ~HasNg(p)
      BY <1>1, <3>2, <3>3 DEF Judged, RecordVerdict, ResultUnchanged, reportVars
    <3>4. CASE Kicked(o, p)
      <4>1. HasNg(p) /\ Len(kicks') = Len(kicks) + 1
        BY <2>1, <3>4 DEF Kicked
      <4>2. QED BY <1>1, <3>2, <4>1
                DEF Judged, RecordVerdict, ResultUnchanged, reportVars
    <3>5. QED BY <3>1, <3>3, <3>4
  <2>4. QED BY <1>1, <2>2, <2>3
<1>2. ASSUME NEW m \in awaited, NEW r \in Results, ResultConcludes(m, r)
      PROVE  \E p \in Packet : Judged(p)
  <2>1. m.imageId \in ImageId /\ m.objectId \in Nat
    BY DEF TypeOK, Awaited
  <2>2. WithResult(packetHash[m.objectId], m.imageId, r) \in Packet
    BY <1>2, <2>1, WithResultType DEF ResultConcludes, TypeOK
  <2>3. QED BY <1>1, <1>2, <2>1, <2>2 DEF ResultConcludes
<1>3. ASSUME NEW o \in DOMAIN packetHash, TimeoutJudges(o)
      PROVE  \E p \in Packet : Judged(p)
  <2>1. packetHash[o] \in Packet /\ o \in Nat
    BY DEF TypeOK
  <2>2. QED BY <1>1, <1>3, <2>1 DEF TimeoutJudges
<1>4. ASSUME GetStatistic PROVE Read
  BY <1>4 DEF GetStatistic, Read, TypeOK, reportVars
<1>5. ASSUME NEW d \in calls, JoinPacket(d) \/ SpotImage(d) PROVE NothingCounted
  BY <1>5 DEF JoinPacket, SpotImage, Sent, NothingCounted, reportVars
<1>6. ASSUME NEW m \in awaited, NEW r \in Results,
             ResultIgnored(m) \/ ResultStored(m, r)
      PROVE  NothingCounted
  BY <1>6 DEF ResultIgnored, ResultStored, ResultUnchanged, NothingCounted,
              reportVars, statVars
<1>7. ASSUME NEW c \in Cameras, SendImageData(c) \/ SetOnline(c) \/ TakeFrame(c)
      PROVE  NothingCounted
  BY <1>7 DEF SendImageData, SetOnline, TakeFrame, NothingCounted, reportVars, statVars
<1>8. ASSUME NEW o \in DOMAIN packetHash, TimeoutDrops(o) PROVE NothingCounted
  BY <1>8 DEF TimeoutDrops, NothingCounted, reportVars, statVars
<1>9. Tick \/ Enable \/ UNCHANGED vars => NothingCounted
  BY DEF Tick, Enable, vars, NothingCounted, reportVars, statVars
<1>10. Results # {}
  BY DEF Results
<1>11. QED BY <1>2, <1>3, <1>4, <1>5, <1>6, <1>7, <1>8, <1>9, <1>10 DEF Next

(* What a getStatistic under way has read stays at most what the counters
   hold, since they only grow until clearStatistic. *)
StatisticInv ==
  /\ StatisticsNeverExceed
  /\ statistic # << >> => /\ statistic[1] <= detectTotal
                          /\ ~IoBoard => statistic[2] <= detectNg

LEMMA StatisticStep ==
  ASSUME TypeOK, StatisticInv, [Next]_vars
  PROVE  StatisticInv'
<1>1. /\ history \in History /\ detectTotal \in Nat /\ detectNg \in Nat
      /\ Len(kicks) \in Nat
  BY DEF TypeOK
<1>2. /\ history.opened \in Nat /\ history.judgedNg \in Nat
      /\ history.reportedTotal \in Nat /\ history.reportedNg \in Nat
  BY <1>1 DEF History
<1>3. statistic # << >> => statistic[1] \in Nat /\ statistic[2] \in Nat
  BY DEF TypeOK
<1>4. CASE NothingCounted
  <2>1. /\ history'.opened = history.opened
        /\ history'.judgedNg = history.judgedNg
        /\ history'.reportedTotal = history.reportedTotal
        /\ history'.reportedNg = history.reportedNg
    BY <1>1, <1>4 DEF NothingCounted, History
  <2>2. QED BY <1>4, <2>1 DEF NothingCounted, StatisticInv, StatisticsNeverExceed
<1>5. CASE Read
  BY <1>1, <1>5 DEF Read, StatisticInv, StatisticsNeverExceed
<1>6. CASE ClearStatistic
  <2>1. statistic # << >>
    BY <1>6 DEF ClearStatistic
  <2>2. /\ detectTotal' = 0 /\ detectNg' = 0 /\ statistic' = << >>
        /\ history'.reportedTotal = history.reportedTotal + statistic[1]
        /\ history'.reportedNg = history.reportedNg + statistic[2]
        /\ history'.opened = history.opened
        /\ history'.judgedNg = history.judgedNg
        /\ Len(kicks') = Len(kicks)
    BY <1>6, ClearCounts
  <2>3. /\ history.reportedTotal + detectTotal <= history.opened
        /\ statistic[1] <= detectTotal
    BY <2>1 DEF StatisticInv, StatisticsNeverExceed
  <2>4. history'.reportedTotal + detectTotal' <= history'.opened
    BY <1>1, <1>2, <1>3, <2>1, <2>2, <2>3
  <2>5. ASSUME ~IoBoard
        PROVE  history'.reportedNg + detectNg' <= history'.judgedNg + Len(kicks')
    <3>1. /\ history.reportedNg + detectNg <= history.judgedNg + Len(kicks)
          /\ statistic[2] <= detectNg
      BY <2>1, <2>5 DEF StatisticInv, StatisticsNeverExceed
    <3>2. QED BY <1>1, <1>2, <1>3, <2>1, <2>2, <3>1
  <2>6. QED BY <2>2, <2>4, <2>5 DEF StatisticInv, StatisticsNeverExceed
<1>7. ASSUME NEW d \in calls, OpenPacket(d) PROVE StatisticInv'
  <2>1. /\ detectTotal' = detectTotal + 1
        /\ history'.opened = history.opened + 1
        /\ history'.judgedNg = history.judgedNg
        /\ history'.reportedTotal = history.reportedTotal
        /\ history'.reportedNg = history.reportedNg
        /\ detectNg' = detectNg /\ statistic' = statistic
        /\ Len(kicks') = Len(kicks)
    BY <1>7, OpenCounts
  <2>2. QED BY <1>1, <1>2, <1>3, <2>1 DEF StatisticInv, StatisticsNeverExceed
<1>8. ASSUME NEW p \in Packet, Judged(p) PROVE StatisticInv'
  <2>1. /\ history'.opened = history.opened
        /\ history'.reportedTotal = history.reportedTotal
        /\ history'.reportedNg = history.reportedNg
        /\ history'.judgedNg = IF HasNg(p) THEN history.judgedNg + 1
                               ELSE history.judgedNg
    BY <1>1, <1>8 DEF Judged, History
  <2>2. NgAfterVerdict(p) = IF HasNg(p) THEN detectNg + 1 ELSE detectNg
    BY DEF NgAfterVerdict
  <2>3. \/ Len(kicks') = Len(kicks) /\ detectNg' = NgAfterVerdict(p)
        \/ /\ HasNg(p) /\ Len(kicks') = Len(kicks) + 1
           /\ detectNg' = NgAfterVerdict(p) + 1
    BY <1>8 DEF Judged
  <2>4. detectTotal' = detectTotal /\ statistic' = statistic
    BY <1>8 DEF Judged
  <2>5. ASSUME ~IoBoard
        PROVE  /\ history'.reportedNg + detectNg' <= history'.judgedNg + Len(kicks')
               /\ detectNg <= detectNg' /\ detectNg' \in Nat
    <3>1. history.reportedNg + detectNg <= history.judgedNg + Len(kicks)
      BY <2>5 DEF StatisticInv, StatisticsNeverExceed
    <3>2. CASE HasNg(p)
      <4>1. /\ history'.judgedNg = history.judgedNg + 1
            /\ NgAfterVerdict(p) = detectNg + 1
        BY <2>1, <2>2, <3>2
      <4>2. \/ Len(kicks') = Len(kicks) /\ detectNg' = detectNg + 1
            \/ Len(kicks') = Len(kicks) + 1 /\ detectNg' = detectNg + 1 + 1
        BY <2>3, <4>1
      <4>3. history'.reportedNg = history.reportedNg
        BY <2>1
      <4>4. CASE Len(kicks') = Len(kicks) /\ detectNg' = detectNg + 1
        BY <1>1, <1>2, <3>1, <4>1, <4>3, <4>4
      <4>5. CASE Len(kicks') = Len(kicks) + 1 /\ detectNg' = detectNg + 1 + 1
        BY <1>1, <1>2, <3>1, <4>1, <4>3, <4>5
      <4>6. QED BY <4>2, <4>4, <4>5
    <3>3. CASE ~HasNg(p)
      BY <1>1, <1>2, <2>1, <2>2, <2>3, <3>1, <3>3
    <3>4. QED BY <3>2, <3>3
  <2>6. StatisticsNeverExceed'
    BY <2>1, <2>4, <2>5 DEF StatisticInv, StatisticsNeverExceed
  <2>7. statistic # << >> /\ ~IoBoard => statistic[2] <= detectNg'
    BY <1>1, <1>3, <2>5 DEF StatisticInv
  <2>8. QED BY <2>4, <2>6, <2>7 DEF StatisticInv
<1>9. QED BY <1>4, <1>5, <1>6, <1>7, <1>8, CountingSteps

(* A packet is reported to the TCP thread at most once, and no more defects are
   reported than were judged or kicked, whenever the counters are read and
   cleared. *)
THEOREM StatisticsAreBounded == Spec => []StatisticsNeverExceed
<1>1. Init => StatisticInv
  BY DEF Init, HistoryInit, StatisticInv, StatisticsNeverExceed
<1>2. TypeOK /\ StatisticInv /\ [Next]_vars => StatisticInv'
  BY StatisticStep
<1>3. StatisticInv => StatisticsNeverExceed
  BY DEF StatisticInv
<1>4. QED BY <1>1, <1>2, <1>3, TypeCorrect, PTL DEF Spec

LEMMA ReportStep ==
  ASSUME TypeOK, ReportSampling, [Next]_vars
  PROVE  ReportSampling'
<1>1. /\ history \in History /\ originalIndex \in Nat /\ binningIndex \in Nat
  BY DEF TypeOK
<1>2. /\ history.opened \in Nat /\ history.original \in Nat
      /\ history.binning \in Nat
  BY <1>1 DEF History
<1>3. ASSUME /\ history'.opened = history.opened
             /\ history'.original = history.original
             /\ history'.binning = history.binning
             /\ UNCHANGED <<originalIndex, binningIndex>>
      PROVE  ReportSampling'
  BY <1>3 DEF ReportSampling
<1>4. CASE NothingCounted
  <2>1. /\ history'.opened = history.opened
        /\ history'.original = history.original
        /\ history'.binning = history.binning
    BY <1>1, <1>4 DEF NothingCounted, History
  <2>2. QED BY <1>3, <1>4, <2>1 DEF NothingCounted
<1>5. CASE Read
  BY <1>3, <1>5 DEF Read
<1>6. CASE ClearStatistic
  BY <1>3, <1>6, ClearCounts
<1>7. ASSUME NEW p \in Packet, Judged(p) PROVE ReportSampling'
  <2>1. /\ history'.opened = history.opened
        /\ history'.original = history.original
        /\ history'.binning = history.binning
    BY <1>1, <1>7 DEF Judged, History
  <2>2. QED BY <1>3, <1>7, <2>1 DEF Judged
<1>8. ASSUME NEW d \in calls, OpenPacket(d) PROVE ReportSampling'
  <2>1. /\ history'.opened = history.opened + 1
        /\ history'.original = IF ReportDue(OriginalRate, originalIndex)
                               THEN history.original + 1 ELSE history.original
        /\ history'.binning = IF ReportDue(BinningRate, binningIndex)
                              THEN history.binning + 1 ELSE history.binning
        /\ originalIndex' = NextReportIndex(OriginalRate, originalIndex)
        /\ binningIndex' = NextReportIndex(BinningRate, binningIndex)
    BY <1>8, OpenCounts
  <2>2. ASSUME OriginalRate > 0
        PROVE  /\ history'.opened = OriginalRate * history'.original + originalIndex'
               /\ originalIndex' < OriginalRate
    <3>1. /\ history.opened = OriginalRate * history.original + originalIndex
          /\ originalIndex < OriginalRate \/ originalIndex = 0
      BY <2>2 DEF ReportSampling
    <3>2. /\ history.opened + 1 =
               OriginalRate * (IF ReportDue(OriginalRate, originalIndex)
                               THEN history.original + 1 ELSE history.original)
                 + NextReportIndex(OriginalRate, originalIndex)
          /\ NextReportIndex(OriginalRate, originalIndex) < OriginalRate
      <4>1. OriginalRate \in Int
        BY ConstantsOK
      <4>2. QED BY <1>1, <1>2, <2>2, <3>1, <4>1, SamplingStep
    <3>3. QED BY <2>1, <3>2
  <2>3. ASSUME BinningRate > 0
        PROVE  /\ history'.opened = BinningRate * history'.binning + binningIndex'
               /\ binningIndex' < BinningRate
    <3>1. /\ history.opened = BinningRate * history.binning + binningIndex
          /\ binningIndex < BinningRate \/ binningIndex = 0
      BY <2>3 DEF ReportSampling
    <3>2. /\ history.opened + 1 =
               BinningRate * (IF ReportDue(BinningRate, binningIndex)
                               THEN history.binning + 1 ELSE history.binning)
                 + NextReportIndex(BinningRate, binningIndex)
          /\ NextReportIndex(BinningRate, binningIndex) < BinningRate
      <4>1. BinningRate \in Int
        BY ConstantsOK
      <4>2. QED BY <1>1, <1>2, <2>3, <3>1, <4>1, SamplingStep
    <3>3. QED BY <2>1, <3>2
  <2>4. /\ ~(OriginalRate > 0) => originalIndex' = 0
        /\ ~(BinningRate > 0) => binningIndex' = 0
    BY <1>1, <2>1, NoSampling, ConstantsOK DEF ReportSampling
  <2>5. QED BY <2>2, <2>3, <2>4 DEF ReportSampling
<1>9. QED BY <1>4, <1>5, <1>6, <1>7, <1>8, CountingSteps

(* Of every m_originalReportRate packets opened in a row, and of every
   m_binningReportRate, exactly one is sampled for reporting, for every rate;
   with a rate of zero or less the index stays where it is. *)
THEOREM SamplingIsExact == Spec => []ReportSampling
<1>1. Init => ReportSampling
  BY ConstantsOK DEF Init, HistoryInit, ReportSampling
<1>2. TypeOK /\ ReportSampling /\ [Next]_vars => ReportSampling'
  BY ReportStep
<1>3. QED BY <1>1, <1>2, TypeCorrect, PTL DEF Spec

(* Two images or packets that are sampled alike. *)
Alike(p, q) ==
  p.bReportOrignal = q.bReportOrignal /\ p.bReportBinning = q.bReportBinning

LEMMA AlikeForm ==
  SampledAlike <=>
    \A m \in awaited : m.objectId \notin packetsTwice =>
      /\ \A n \in awaited : n.objectId = m.objectId => Alike(n, m)
      /\ m.objectId \in DOMAIN packetHash => Alike(packetHash[m.objectId], m)
BY DEF SampledAlike, Alike

LEMMA AlikeStep ==
  ASSUME TypeOK, SampledAlike, [Next]_vars PROVE SampledAlike'
<1>1. ASSUME awaited' \subseteq awaited, packetsTwice' = packetsTwice,
             \A o \in DOMAIN packetHash' :
               o \in DOMAIN packetHash /\ Alike(packetHash'[o], packetHash[o])
      PROVE  SampledAlike'
  BY <1>1 DEF SampledAlike, Alike
<1>2. CASE UNCHANGED vars \/ Tick \/ Enable \/ GetStatistic \/ ClearStatistic
           \/ (\E c \in Cameras : SendImageData(c) \/ SetOnline(c) \/ TakeFrame(c))
           \/ (\E m \in awaited : ResultIgnored(m))
  <2>1. /\ packetHash' = packetHash /\ awaited' \subseteq awaited
        /\ packetsTwice' = packetsTwice
    BY <1>2 DEF vars, Tick, Enable, GetStatistic, ClearStatistic, SendImageData,
                SetOnline, TakeFrame, ResultIgnored, nameVars
  <2>2. QED BY <1>1, <2>1 DEF Alike
<1>3. ASSUME NEW o \in Nat, NEW p, NEW i, ToInference(o, i, p),
             \/ packetsTwice' = packetsTwice /\ o \in DOMAIN packetHash /\ p = packetHash[o]
             \/ o = now /\ NamePacket,
             \A q \in DOMAIN packetHash' :
               \/ q \in DOMAIN packetHash /\ Alike(packetHash'[q], packetHash[q])
               \/ q = now /\ q = o /\ NamePacket /\ Alike(packetHash'[q], p)
      PROVE  SampledAlike'
  <2> DEFINE msg == [objectId |-> o, imageId |-> i,
                     bReportOrignal |-> p.bReportOrignal,
                     bReportBinning |-> p.bReportBinning]
  <2>1. awaited' = awaited \cup {msg} /\ msg.objectId = o /\ Alike(msg, p)
    BY <1>3 DEF ToInference, Alike
  <2> HIDE DEF msg
  <2>2. \A q \in packetsTwice : q \in packetsTwice'
    BY <1>3 DEF NamePacket
  <2>3. ASSUME o \notin packetsTwice'
        PROVE  /\ \A n \in awaited : n.objectId = o => Alike(n, p)
               /\ o \in DOMAIN packetHash => Alike(packetHash[o], p)
    <3>1. CASE packetsTwice' = packetsTwice /\ o \in DOMAIN packetHash /\ p = packetHash[o]
      BY <2>3, <3>1, AlikeForm DEF Alike
    <3>2. CASE o = now /\ NamePacket
      BY <2>3, <3>2 DEF NamePacket, PacketInUse
    <3>3. QED BY <1>3, <3>1, <3>2
  <2>4. ASSUME NEW m \in awaited', m.objectId \notin packetsTwice'
        PROVE  /\ \A n \in awaited' : n.objectId = m.objectId => Alike(n, m)
               /\ m.objectId \in DOMAIN packetHash' => Alike(packetHash'[m.objectId], m)
    <3>1. CASE m.objectId = o
      <4>1. \A n \in awaited' : n.objectId = o => Alike(n, p)
        BY <2>1, <2>3, <2>4, <3>1
      <4>2. o \in DOMAIN packetHash' => Alike(packetHash'[o], p)
        BY <1>3, <2>3, <2>4, <3>1 DEF Alike
      <4>3. QED BY <3>1, <4>1, <4>2 DEF Alike
    <3>2. CASE m.objectId # o
      <4>1. m \in awaited /\ m.objectId \notin packetsTwice
        BY <2>1, <2>2, <2>4, <3>2
      <4>2. \A n \in awaited' : n.objectId = m.objectId => Alike(n, m)
        BY <2>1, <3>2, <4>1, AlikeForm
      <4>3. m.objectId \in DOMAIN packetHash' => Alike(packetHash'[m.objectId], m)
        BY <1>3, <3>2, <4>1, AlikeForm DEF Alike
      <4>4. QED BY <4>2, <4>3
    <3>3. QED BY <3>1, <3>2
  <2>5. QED BY <2>4 DEF SampledAlike, Alike
<1>4. ASSUME NEW d \in calls, SpotImage(d) PROVE SampledAlike'
  <2>1. PICK p : p = [bReportOrignal |-> TRUE, bReportBinning |-> FALSE]
    OBVIOUS
  <2>2. ToInference(now, d.imageId, p) /\ NamePacket /\ packetHash' = packetHash
    BY <1>4, <2>1 DEF SpotImage
  <2>3. now \in Nat
    BY DEF TypeOK
  <2>4. QED BY <1>3, <2>2, <2>3 DEF Alike
<1>5. ASSUME NEW d \in calls, JoinPacket(d) PROVE SampledAlike'
  <2>1. PICK o \in DOMAIN packetHash :
          /\ packetHash' = [packetHash EXCEPT ![o] =
               [packetHash[o] EXCEPT !.images = @ \cup {d.imageId}]]
          /\ ToInference(o, d.imageId, packetHash[o])
    BY <1>5 DEF JoinPacket, Near
  <2>2. PICK p : p = packetHash[o]
    OBVIOUS
  <2>3. o \in Nat /\ p \in Packet /\ ToInference(o, d.imageId, p)
    BY <2>1, <2>2 DEF TypeOK
  <2>4. packetsTwice' = packetsTwice
    BY <1>5 DEF JoinPacket
  <2>5. \A q \in DOMAIN packetHash' :
          q \in DOMAIN packetHash /\ Alike(packetHash'[q], packetHash[q])
    BY <2>1, <2>2, <2>3 DEF Packet, Alike
  <2>6. QED BY <1>3, <2>2, <2>3, <2>4, <2>5
<1>6. ASSUME NEW d \in calls, OpenPacket(d) PROVE SampledAlike'
  <2>1. PICK p : p = NewPacket(d)
    OBVIOUS
  <2>2. /\ packetHash' = [o \in DOMAIN packetHash \cup {now} |->
                            IF o = now THEN p ELSE packetHash[o]]
        /\ ToInference(now, d.imageId, p) /\ NamePacket
    BY <1>6, <2>1 DEF OpenPacket
  <2>3. now \in Nat
    BY DEF TypeOK
  <2>4. \A q \in DOMAIN packetHash' :
          \/ q \in DOMAIN packetHash /\ Alike(packetHash'[q], packetHash[q])
          \/ q = now /\ Alike(packetHash'[q], p)
    BY <2>2 DEF Alike
  <2>5. QED BY <1>3, <2>2, <2>3, <2>4
<1>7. ASSUME NEW m \in awaited, NEW r \in Results, ResultStored(m, r)
      PROVE  SampledAlike'
  <2> DEFINE p == WithResult(packetHash[m.objectId], m.imageId, r)
  <2>1. /\ m.objectId \in DOMAIN packetHash
        /\ packetHash' = [packetHash EXCEPT ![m.objectId] = p]
        /\ awaited' \subseteq awaited /\ packetsTwice' = packetsTwice
    BY <1>7 DEF ResultStored, ResultUnchanged, nameVars
  <2>2. Alike(p, packetHash[m.objectId])
    BY <2>1 DEF WithResult, TypeOK, Packet, Alike
  <2> HIDE DEF p
  <2>3. \A o \in DOMAIN packetHash' :
          o \in DOMAIN packetHash /\ Alike(packetHash'[o], packetHash[o])
    BY <2>1, <2>2 DEF Alike
  <2>4. QED BY <1>1, <2>1, <2>3
<1>8. ASSUME NEW o \in DOMAIN packetHash, packetHash' = Without(o),
             awaited' \subseteq awaited, packetsTwice' = packetsTwice
      PROVE  SampledAlike'
  BY <1>1, <1>8 DEF Without, Alike
<1>9. ASSUME NEW m \in awaited, NEW r \in Results, ResultConcludes(m, r)
      PROVE  SampledAlike'
  BY <1>8, <1>9 DEF ResultConcludes, ResultUnchanged, nameVars
<1>10. ASSUME NEW o \in DOMAIN packetHash, TimeoutDrops(o) \/ TimeoutJudges(o)
       PROVE  SampledAlike'
  BY <1>8, <1>10 DEF TimeoutDrops, TimeoutJudges, ResultUnchanged, nameVars
<1>11. QED BY <1>2, <1>4, <1>5, <1>6, <1>7, <1>9, <1>10 DEF Next

(* All the images of a packet, and the packet, agree on whether they are
   reported, for every rate and however many packets are opened meanwhile. *)
THEOREM PacketsAreSampledAlike == Spec => []SampledAlike
<1>1. Init => SampledAlike
  BY DEF Init, SampledAlike
<1>2. TypeOK /\ SampledAlike /\ [Next]_vars => SampledAlike'
  BY AlikeStep
<1>3. QED BY <1>1, <1>2, TypeCorrect, PTL DEF Spec

-----------------------------------------------------------------------------
(* The promise of Rejection. *)

Defects(p) == {i \in p.images : <<i, "NG">> \in p.results}

LEMMA OutlineParts ==
  ASSUME NEW p
  PROVE  Outline(p) = [images |-> p.images, defects |-> Defects(p)]
BY DEF Outline, Defects

(* A packet has a defect if and only if one of its own images has. *)
LEMMA DefectIsOwn ==
  ASSUME NEW p, p.results \subseteq ImageId \X Results, \A x \in p.results : x[1] \in p.images
  PROVE  HasNg(p) <=> Defects(p) # {}
<1>1. ASSUME HasNg(p) PROVE Defects(p) # {}
  <2>1. PICK x \in p.results : x[2] = "NG"
    BY <1>1 DEF HasNg
  <2>2. x = <<x[1], "NG">> /\ x[1] \in p.images
    BY <2>1
  <2>3. x[1] \in Defects(p)
    BY <2>1, <2>2 DEF Defects
  <2> QED BY <2>3
<1>2. ASSUME NEW i \in Defects(p) PROVE HasNg(p)
  <2>1. <<i, "NG">> \in p.results /\ <<i, "NG">>[2] = "NG"
    BY <1>2 DEF Defects
  <2> QED BY <2>1 DEF HasNg
<1> QED BY <1>1, <1>2

(* Packet p is the open packet o with one more result: it shows a defect of its
   image or none, and hides none but of an image whose name was given twice. *)
OneMore(p, o) ==
  \/ Defects(p) = Defects(packetHash[o])
  \/ \E i \in p.images : Defects(p) = Defects(packetHash[o]) \cup {i}
  \/ \E i \in p.images \cap imagesTwice : Defects(p) = Defects(packetHash[o]) \ {i}

LEMMA ResultFinds ==
  ASSUME TypeOK, KickParts, NEW m \in awaited, NEW r \in Results, NEW p,
         m.objectId \in DOMAIN packetHash,
         p = WithResult(packetHash[m.objectId], m.imageId, r)
  PROVE  /\ p \in Packet /\ p.images = packetHash[m.objectId].images
         /\ \A x \in p.results : x[1] \in p.images
         /\ OneMore(p, m.objectId)
<1>1. PICK q \in Packet : q = packetHash[m.objectId]
  BY DEF TypeOK
<1>2. PICK i \in ImageId : i = m.imageId
  BY DEF TypeOK, Awaited
<1>3. /\ i \notin imagesTwice => \A x \in q.results : x[1] # i
      /\ \A x \in q.results : x[1] \in q.images
  BY <1>1, <1>2 DEF KickParts, AwaitedOnce, PacketsWellFormed
<1>4. /\ p \in Packet /\ p.images = q.images
      /\ \A x \in p.results : x \in q.results \/ (i \in q.images /\ x = <<i, r>>)
      /\ \A x \in p.results : x[1] = i /\ i \in q.images => x = <<i, r>>
      /\ \A x \in q.results : x[1] # i => x \in p.results
      /\ i \notin q.images => p = q
  BY <1>1, <1>2, WithResultForm DEF WithResult
<1>5. \A j \in p.images : j # i =>
        (<<j, "NG">> \in p.results <=> <<j, "NG">> \in q.results)
  <2> SUFFICES ASSUME NEW j \in p.images, j # i
               PROVE  <<j, "NG">> \in p.results <=> <<j, "NG">> \in q.results
    OBVIOUS
  <2>1. <<j, "NG">>[1] # i /\ <<j, "NG">> # <<i, r>>
    OBVIOUS
  <2> QED BY <1>4, <2>1
<1>6. CASE i \notin q.images
  BY <1>1, <1>3, <1>4, <1>6 DEF OneMore
<1>7. CASE i \in q.images /\ <<i, "NG">> \in p.results
  <2>1. Defects(p) = Defects(q) \cup {i}
    BY <1>4, <1>5, <1>7 DEF Defects
  <2> QED BY <1>1, <1>3, <1>4, <1>7, <2>1 DEF OneMore
<1>8. CASE i \in q.images /\ <<i, "NG">> \notin p.results
  <2>1. Defects(p) = Defects(q) \ {i}
    BY <1>4, <1>5, <1>8 DEF Defects
  <2>2. CASE i \in imagesTwice
    BY <1>1, <1>3, <1>4, <1>8, <2>1, <2>2 DEF OneMore
  <2>3. CASE i \notin imagesTwice
    <3>1. <<i, "NG">> \notin q.results
      <4>1. <<i, "NG">>[1] = i
        OBVIOUS
      <4> QED BY <1>3, <2>3, <4>1
    <3>2. Defects(p) = Defects(q)
      BY <2>1, <3>1 DEF Defects
    <3> QED BY <1>1, <1>3, <1>4, <3>2 DEF OneMore
  <2> QED BY <2>2, <2>3
<1> QED BY <1>6, <1>7, <1>8

(* A packet that an image joins keeps its defects. *)
LEMMA JoinedOutline ==
  ASSUME NEW w, NEW a, NEW d, NEW i, w = [images |-> a, defects |-> d]
  PROVE  [w EXCEPT !.images = @ \cup {i}] = [images |-> a \cup {i}, defects |-> d]
OBVIOUS

(* An image that no packet has had, unless its name was given twice, arrives in
   one packet. *)
LEMMA ArrivalIsPromised ==
  ASSUME TypeOK, KickParts, NEW o, NEW i,
         i \notin imagesTwice =>
           /\ \A q \in DOMAIN packetHash : i \notin packetHash[q].images
           /\ \A k \in DOMAIN kicks : i \notin kicks[k].images,
         DOMAIN packetHash' = DOMAIN packetHash \cup {o},
         \A q \in DOMAIN packetHash : q # o => packetHash'[q] = packetHash[q],
         \/ /\ o \in DOMAIN packetHash /\ i \notin packetHash[o].images
            /\ packetHash'[o].images = packetHash[o].images \cup {i}
            /\ packetHash'[o].results = packetHash[o].results
         \/ o = now /\ packetHash'[o].images = {i} /\ packetHash'[o].results = {},
         kicks' = kicks
  PROVE  Kicking!Next
<1>1. /\ DOMAIN OpenPackets = DOMAIN packetHash /\ DOMAIN KickedPackets = DOMAIN kicks
      /\ \A q \in DOMAIN packetHash :
           OpenPackets[q] = [images |-> packetHash[q].images, defects |-> Defects(packetHash[q])]
      /\ \A k \in DOMAIN kicks :
           KickedPackets[k] = [images |-> kicks[k].images, defects |-> Defects(kicks[k])]
  BY OutlineParts DEF OpenPackets, KickedPackets
<1>2. /\ OpenPackets' = [q \in DOMAIN packetHash' |-> Outline(packetHash'[q])]
      /\ KickedPackets' = KickedPackets
  BY DEF OpenPackets, KickedPackets, Outline
<1> DEFINE Joins == /\ o \in DOMAIN packetHash /\ i \notin packetHash[o].images
                    /\ packetHash'[o].images = packetHash[o].images \cup {i}
                    /\ packetHash'[o].results = packetHash[o].results
           Opens == /\ o = now /\ packetHash'[o].images = {i}
                    /\ packetHash'[o].results = {}
<1>3. /\ Joins => Defects(packetHash'[o]) = Defects(packetHash[o])
      /\ Opens => Defects(packetHash'[o]) = {}
  <2>1. ASSUME Joins PROVE Defects(packetHash'[o]) = Defects(packetHash[o])
    <3>1. <<i, "NG">> \notin packetHash[o].results
      <4>1. \A x \in packetHash[o].results : x[1] # i
        BY <2>1 DEF KickParts, PacketsWellFormed
      <4> QED BY <4>1
    <3> QED BY <2>1, <3>1 DEF Defects
  <2>2. ASSUME Opens PROVE Defects(packetHash'[o]) = {}
    BY <2>2 DEF Defects
  <2> QED BY <2>1, <2>2
<1>4. i \notin UNION ({OpenPackets[q].images : q \in DOMAIN OpenPackets}
                        \cup {KickedPackets[k].images : k \in DOMAIN KickedPackets})
        \/ i \in imagesTwice
  <2> SUFFICES ASSUME i \notin imagesTwice
               PROVE  i \notin UNION ({OpenPackets[q].images : q \in DOMAIN OpenPackets}
                        \cup {KickedPackets[k].images : k \in DOMAIN KickedPackets})
    OBVIOUS
  <2>1. \A q \in DOMAIN OpenPackets : i \notin OpenPackets[q].images
    BY <1>1
  <2>2. \A k \in DOMAIN KickedPackets : i \notin KickedPackets[k].images
    BY <1>1
  <2> QED BY <2>1, <2>2
<1>5. CASE Joins
  <2>1. \A q \in DOMAIN packetHash :
          Outline(packetHash'[q]) =
            IF q = o THEN [OpenPackets[o] EXCEPT !.images = @ \cup {i}] ELSE OpenPackets[q]
    <3>1. Outline(packetHash'[o]) = [OpenPackets[o] EXCEPT !.images = @ \cup {i}]
      <4>1. [OpenPackets[o] EXCEPT !.images = @ \cup {i}] =
              [images |-> packetHash[o].images \cup {i}, defects |-> Defects(packetHash[o])]
        <5>1. OpenPackets[o] =
                [images |-> packetHash[o].images, defects |-> Defects(packetHash[o])]
          BY <1>1, <1>5
        <5> QED BY <5>1, JoinedOutline
      <4>2. Outline(packetHash'[o]) =
              [images |-> packetHash'[o].images, defects |-> Defects(packetHash'[o])]
        BY OutlineParts
      <4> QED BY <1>3, <1>5, <4>1, <4>2
    <3>2. \A q \in DOMAIN packetHash : q # o => Outline(packetHash'[q]) = OpenPackets[q]
      BY <1>1, OutlineParts
    <3> QED BY <3>1, <3>2
  <2>2. OpenPackets' = [OpenPackets EXCEPT ![o].images = @ \cup {i}]
    <3>1. OpenPackets = [q \in DOMAIN OpenPackets |-> OpenPackets[q]]
      BY DEF OpenPackets
    <3>2. DOMAIN packetHash' = DOMAIN OpenPackets
      BY <1>1, <1>5
    <3>3. OpenPackets' = [q \in DOMAIN OpenPackets |->
            IF q = o THEN [OpenPackets[o] EXCEPT !.images = @ \cup {i}] ELSE OpenPackets[q]]
      BY <1>1, <1>2, <2>1, <3>2
    <3> QED BY <3>1, <3>3
  <2>3. i \in OpenPackets'[o].images /\ o \in DOMAIN OpenPackets'
    <3>1. OpenPackets'[o] = [images |-> packetHash'[o].images, defects |-> Defects(packetHash'[o])]
      BY <1>2, <1>5, OutlineParts
    <3> QED BY <1>2, <1>5, <3>1
  <2>4. Kicking!Join(o, i)
    BY <1>1, <1>5, <2>2 DEF Kicking!Join
  <2>5. i \in OpenPackets'[o].images \ (Kicking!InUse \ imagesTwice)
    BY <1>4, <2>3 DEF Kicking!InUse
  <2>6. Kicking!Arrive
    BY <1>2, <2>4, <2>5, <2>3 DEF Kicking!Arrive
  <2> QED BY <2>6 DEF Kicking!Next
<1>6. CASE Opens
  <2>1. OpenPackets' = [p \in DOMAIN OpenPackets \cup {o} |->
                          IF p = o THEN [images |-> {i}, defects |-> {}] ELSE OpenPackets[p]]
    <3>1. Outline(packetHash'[o]) = [images |-> {i}, defects |-> {}]
      BY <1>3, <1>6, OutlineParts
    <3>2. \A q \in DOMAIN packetHash : q # o => Outline(packetHash'[q]) = OpenPackets[q]
      BY <1>1, OutlineParts
    <3> QED BY <1>1, <1>2, <1>6, <3>1, <3>2
  <2>2. i \in OpenPackets'[o].images /\ o \in DOMAIN OpenPackets'
    BY <2>1
  <2>3. Kicking!Begin(o, i)
    BY <1>1, <1>6, <2>1 DEF Kicking!Begin
  <2>4. i \in OpenPackets'[o].images \ (Kicking!InUse \ imagesTwice)
    BY <1>4, <2>2 DEF Kicking!InUse
  <2>5. Kicking!Arrive
    BY <1>2, <2>2, <2>3, <2>4 DEF Kicking!Arrive
  <2> QED BY <2>5 DEF Kicking!Next
<1> QED BY <1>5, <1>6

(* A packet ends, as OpenPackets shows it. *)
LEMMA EndIsPromised ==
  ASSUME NEW o \in DOMAIN packetHash, packetHash' = Without(o)
  PROVE  /\ Kicking!End(o) /\ o \in DOMAIN OpenPackets
         /\ OpenPackets[o] = [images |-> packetHash[o].images,
                              defects |-> Defects(packetHash[o])]
<1>1. /\ DOMAIN OpenPackets = DOMAIN packetHash
      /\ \A q \in DOMAIN packetHash : OpenPackets[q] = Outline(packetHash[q])
  BY DEF OpenPackets
<1>2. /\ DOMAIN packetHash' = DOMAIN packetHash \ {o}
      /\ \A q \in DOMAIN packetHash' : packetHash'[q] = packetHash[q]
  BY DEF Without
<1>3. OpenPackets' = [q \in DOMAIN packetHash' |-> Outline(packetHash'[q])]
  BY DEF OpenPackets, Outline
<1>4. \A q \in DOMAIN packetHash' : Outline(packetHash'[q]) = OpenPackets[q]
  BY <1>1, <1>2
<1>5. OpenPackets' = [q \in DOMAIN OpenPackets \ {o} |-> OpenPackets[q]]
  BY <1>1, <1>2, <1>3, <1>4
<1>6. Kicking!End(o)
  BY <1>5 DEF Kicking!End
<1> QED BY <1>1, <1>6, OutlineParts

(* A packet ends by a kick, for the defects that it has at its end. *)
LEMMA KickIsPromised ==
  ASSUME TypeOK, NEW o \in DOMAIN packetHash, NEW p \in Packet, packetHash' = Without(o),
         p.images = packetHash[o].images, \A x \in p.results : x[1] \in p.images,
         OneMore(p, o), Kicked(o, p)
  PROVE  Kicking!Next
<1>1. PICK k \in Kick : /\ HasNg(p) /\ k.images = p.images /\ k.results = p.results
                        /\ kicks' = Append(kicks, k)
  BY DEF Kicked
<1>2. Defects(p) # {}
  <2>1. p.results \subseteq ImageId \X Results
    BY DEF Packet
  <2> QED BY <1>1, <2>1, DefectIsOwn
<1>3. Outline(k) = [images |-> packetHash[o].images, defects |-> Defects(p)]
  <2>1. Defects(k) = Defects(p)
    BY <1>1 DEF Defects
  <2> QED BY <1>1, <2>1, OutlineParts
<1>4. KickedPackets' = Append(KickedPackets, Outline(k))
  <2>1. PICK n \in Nat : n = Len(kicks) /\ DOMAIN kicks = 1..n
    BY DEF TypeOK
  <2>2. /\ DOMAIN kicks' = 1..n + 1 /\ kicks'[n + 1] = k
        /\ \A j \in 1..n : kicks'[j] = kicks[j]
    BY <1>1, <2>1 DEF TypeOK
  <2>3. KickedPackets = [j \in 1..n |-> Outline(kicks[j])]
    BY <2>1 DEF KickedPackets
  <2>4. KickedPackets' = [j \in 1..n + 1 |-> Outline(kicks'[j])]
    BY <2>2 DEF KickedPackets, Outline
  <2>5. /\ Len(KickedPackets) = n
        /\ Append(KickedPackets, Outline(k)) =
             [j \in 1..n + 1 |-> IF j = n + 1 THEN Outline(k) ELSE KickedPackets[j]]
    BY <2>1, <2>3
  <2>6. \A j \in 1..n + 1 :
          Outline(kicks'[j]) = IF j = n + 1 THEN Outline(k) ELSE KickedPackets[j]
    BY <2>1, <2>2, <2>3
  <2> QED BY <2>4, <2>5, <2>6
<1>5. /\ Kicking!End(o) /\ o \in DOMAIN OpenPackets
      /\ OpenPackets[o] = [images |-> packetHash[o].images, defects |-> Defects(packetHash[o])]
  BY EndIsPromised
<1>6. Defects(p) \in Kicking!AtTheEnd(o) \ {{}}
  BY <1>2, <1>5 DEF Kicking!AtTheEnd, OneMore
<1>7. KickedPackets' = Append(KickedPackets, [images |-> OpenPackets[o].images, defects |-> Defects(p)])
  BY <1>3, <1>4, <1>5
<1>8. Kicking!Reject(o)
  BY <1>5, <1>6, <1>7 DEF Kicking!Reject
<1> QED BY <1>5, <1>8 DEF Kicking!Next

(* A packet ends without a kick. *)
LEMMA PassIsPromised ==
  ASSUME NEW o \in DOMAIN packetHash, packetHash' = Without(o), kicks' = kicks,
         NEW p, p.images = packetHash[o].images, OneMore(p, o),
         Defects(p) # {} => Cardinality(packetHash[o].images) < RealOnlineCameraCount
  PROVE  Kicking!Next
<1>1. /\ Kicking!End(o) /\ o \in DOMAIN OpenPackets
      /\ OpenPackets[o].images = packetHash[o].images
      /\ OpenPackets[o].defects = Defects(packetHash[o])
  <2>1. /\ Kicking!End(o) /\ o \in DOMAIN OpenPackets
        /\ OpenPackets[o] = [images |-> packetHash[o].images,
                             defects |-> Defects(packetHash[o])]
    BY EndIsPromised, Zenon
  <2> QED BY <2>1
<1>2. KickedPackets' = KickedPackets
  BY DEF KickedPackets, Outline
<1>3. \A S : Kicking!Cardinality(S) = Cardinality(S)
  BY DEF Kicking!Cardinality, Cardinality
<1>4. Defects(p) \in Kicking!AtTheEnd(o)
  BY <1>1 DEF Kicking!AtTheEnd, OneMore
<1>5. {} \notin Kicking!AtTheEnd(o) => Cardinality(OpenPackets[o].images) < RealOnlineCameraCount
  BY <1>1, <1>4
<1>6. Kicking!Pass(o)
  BY <1>1, <1>2, <1>3, <1>5 DEF Kicking!Pass
<1> QED BY <1>1, <1>6 DEF Kicking!Next

(* The images of a packet can be counted. *)
LEMMA ImagesAreCounted ==
  ASSUME TypeOK, KickParts, NEW o \in DOMAIN packetHash
  PROVE  Cardinality(packetHash[o].images) \in Nat
<1>1. PICK S \in SUBSET ImageId : S = packetHash[o].images
  BY DEF TypeOK, Packet
<1>2. \A i, j \in S : i.cameraId = j.cameraId => i = j
  BY <1>1 DEF KickParts, PacketsWellFormed
<1> DEFINE f == [i \in S |-> i.cameraId]
<1>3. f \in Injection(S, Cameras)
  <2>1. f \in [S -> Cameras]
    BY DEF ImageId
  <2>2. \A i, j \in S : f[i] = f[j] => i = j
    BY <1>2
  <2> QED BY <2>1, <2>2 DEF Injection, IsInjective
<1> HIDE DEF f
<1>4. IsFiniteSet(S)
  BY <1>3, FS_Injection, ConstantsOK
<1> QED BY <1>1, <1>4, FS_CardinalityType

(* A result is entered, and shows a defect or none. *)
LEMMA ResultIsPromised ==
  ASSUME TypeOK, NEW o \in DOMAIN packetHash, NEW p \in Packet,
         packetHash' = [packetHash EXCEPT ![o] = p], kicks' = kicks,
         p.images = packetHash[o].images, OneMore(p, o)
  PROVE  Kicking!Next \/ UNCHANGED Kicking!vars
<1>1. /\ DOMAIN OpenPackets = DOMAIN packetHash
      /\ \A q \in DOMAIN packetHash : OpenPackets[q] = Outline(packetHash[q])
      /\ OpenPackets = [q \in DOMAIN packetHash |-> OpenPackets[q]]
  BY DEF OpenPackets
<1>2. OpenPackets[o] = [images |-> packetHash[o].images, defects |-> Defects(packetHash[o])]
  BY <1>1, OutlineParts
<1>3. OpenPackets' = [q \in DOMAIN packetHash |->
                        IF q = o THEN Outline(p) ELSE OpenPackets[q]]
  <2>1. OpenPackets' = [q \in DOMAIN packetHash |-> Outline(packetHash'[q])]
    BY DEF OpenPackets, Outline
  <2>2. \A q \in DOMAIN packetHash :
          Outline(packetHash'[q]) = IF q = o THEN Outline(p) ELSE OpenPackets[q]
    BY <1>1
  <2> QED BY <2>1, <2>2
<1>4. KickedPackets' = KickedPackets
  BY DEF KickedPackets, Outline
<1>5. Outline(p) = [images |-> packetHash[o].images, defects |-> Defects(p)]
  BY OutlineParts
<1>6. CASE Defects(p) = Defects(packetHash[o])
  <2>1. Outline(p) = OpenPackets[o]
    BY <1>2, <1>5, <1>6
  <2>2. OpenPackets' = OpenPackets
    BY <1>1, <1>3, <2>1
  <2> QED BY <1>4, <2>2 DEF Kicking!vars
<1>7. ASSUME NEW i \in p.images, Defects(p) = Defects(packetHash[o]) \cup {i}
      PROVE  Kicking!Next
  <2>1. Outline(p) = [OpenPackets[o] EXCEPT !.defects = @ \cup {i}]
    BY <1>2, <1>5, <1>7
  <2>2. OpenPackets' = [OpenPackets EXCEPT ![o].defects = @ \cup {i}]
    BY <1>1, <1>3, <2>1
  <2>3. o \in DOMAIN OpenPackets /\ i \in OpenPackets[o].images
    BY <1>1, <1>2, <1>7
  <2>4. Kicking!FindDefect
    BY <1>4, <2>2, <2>3 DEF Kicking!FindDefect
  <2> QED BY <2>4 DEF Kicking!Next
<1>8. ASSUME NEW i \in p.images \cap imagesTwice,
             Defects(p) = Defects(packetHash[o]) \ {i}
      PROVE  Kicking!Next
  <2>1. Outline(p) = [OpenPackets[o] EXCEPT !.defects = @ \ {i}]
    BY <1>2, <1>5, <1>8
  <2>2. OpenPackets' = [OpenPackets EXCEPT ![o].defects = @ \ {i}]
    BY <1>1, <1>3, <2>1
  <2>3. o \in DOMAIN OpenPackets /\ i \in OpenPackets[o].images
    BY <1>1, <1>2, <1>8
  <2>4. Kicking!FindDefect
    BY <1>4, <2>2, <2>3 DEF Kicking!FindDefect
  <2> QED BY <2>4 DEF Kicking!Next
<1> QED BY <1>6, <1>7, <1>8 DEF OneMore

(* What a packet looks like does not change while packets and kicks do not. *)
LEMMA NothingIsPromised ==
  ASSUME packetHash' = packetHash, kicks' = kicks PROVE UNCHANGED Kicking!vars
BY DEF Kicking!vars, OpenPackets, KickedPackets, Outline

(* Every step of PacketResult is one of Rejection, or changes neither the open
   nor the kicked packets. *)
LEMMA RejectionStep ==
  ASSUME KickInvariant, [Next]_vars
  PROVE  Kicking!Next \/ UNCHANGED Kicking!vars
<1>1. TypeOK /\ KickParts
  BY DEF KickInvariant, KickParts
<1>2. CASE UNCHANGED vars \/ Tick \/ Enable \/ GetStatistic \/ ClearStatistic
           \/ (\E c \in Cameras : SendImageData(c) \/ SetOnline(c) \/ TakeFrame(c))
           \/ (\E d \in calls : SpotImage(d))
           \/ (\E m \in awaited : ResultIgnored(m))
  <2>1. packetHash' = packetHash /\ kicks' = kicks
    BY <1>2 DEF vars, Tick, Enable, GetStatistic, ClearStatistic,
         SendImageData, SetOnline, TakeFrame, SpotImage, Sent, ResultIgnored
  <2> QED BY <2>1, NothingIsPromised
<1>3. ASSUME NEW d \in calls, Sent(d), d.imageId \notin imagesTwice
      PROVE  /\ \A q \in DOMAIN packetHash : d.imageId \notin packetHash[q].images
             /\ \A k \in DOMAIN kicks : d.imageId \notin kicks[k].images
  BY <1>1, <1>3, SentIsNew
<1>4. ASSUME NEW d \in calls, JoinPacket(d) PROVE Kicking!Next
  <2>1. Sent(d) /\ kicks' = kicks
    BY <1>4 DEF JoinPacket, Sent
  <2>2. PICK o \in Near(d.genTimeStamp) :
          /\ HasRoom(packetHash[o], d.imageId.cameraId)
          /\ packetHash' = [packetHash EXCEPT ![o] =
               [packetHash[o] EXCEPT !.images = @ \cup {d.imageId}]]
    BY <1>4 DEF JoinPacket
  <2>3. o \in DOMAIN packetHash /\ packetHash[o] \in Packet
    BY <1>1, <2>2 DEF Near, TypeOK
  <2>4. /\ DOMAIN packetHash' = DOMAIN packetHash \cup {o}
        /\ \A q \in DOMAIN packetHash : q # o => packetHash'[q] = packetHash[q]
        /\ packetHash'[o].images = packetHash[o].images \cup {d.imageId}
        /\ packetHash'[o].results = packetHash[o].results
    BY <2>2, <2>3 DEF Packet
  <2>5. d.imageId \notin packetHash[o].images
    BY <2>2 DEF HasRoom
  <2> QED BY <1>1, <1>3, <2>1, <2>3, <2>4, <2>5, ArrivalIsPromised
<1>5. ASSUME NEW d \in calls, OpenPacket(d) PROVE Kicking!Next
  <2>1. Sent(d) /\ kicks' = kicks
    BY <1>5 DEF OpenPacket, Sent
  <2>2. packetHash' = [o \in DOMAIN packetHash \cup {now} |->
                         IF o = now THEN NewPacket(d) ELSE packetHash[o]]
    BY <1>5 DEF OpenPacket
  <2>3. NewPacket(d).images = {d.imageId} /\ NewPacket(d).results = {}
    BY DEF NewPacket
  <2>4. /\ DOMAIN packetHash' = DOMAIN packetHash \cup {now}
        /\ \A q \in DOMAIN packetHash : q # now => packetHash'[q] = packetHash[q]
        /\ packetHash'[now].images = {d.imageId} /\ packetHash'[now].results = {}
    BY <2>2, <2>3
  <2> QED BY <1>1, <1>3, <2>1, <2>4, ArrivalIsPromised
<1>6. ASSUME NEW m \in awaited, NEW r \in Results, ResultStored(m, r)
      PROVE  Kicking!Next \/ UNCHANGED Kicking!vars
  <2>1. PICK p : p = WithResult(packetHash[m.objectId], m.imageId, r)
    OBVIOUS
  <2>2. /\ m.objectId \in DOMAIN packetHash /\ kicks' = kicks
        /\ packetHash' = [packetHash EXCEPT ![m.objectId] = p]
    BY <1>6, <2>1 DEF ResultStored
  <2>3. /\ p \in Packet /\ p.images = packetHash[m.objectId].images
        /\ OneMore(p, m.objectId)
    BY <1>1, <2>1, <2>2, ResultFinds
  <2> QED BY <1>1, <2>2, <2>3, ResultIsPromised
<1>7. ASSUME NEW o \in DOMAIN packetHash, NEW p \in Packet, packetHash' = Without(o),
             p.images = packetHash[o].images, \A x \in p.results : x[1] \in p.images,
             OneMore(p, o), DoKickFinal(o, p, NgAfterVerdict(p))
      PROVE  Kicking!Next
  <2>1. NgAfterVerdict(p) \in Nat /\ o \in Nat
    BY <1>1, NgAfterVerdictType DEF TypeOK
  <2>2. (kicks' = kicks /\ ~HasNg(p)) \/ Kicked(o, p)
    BY <1>1, <1>7, <2>1, DoKickFinalKicks
  <2>3. CASE kicks' = kicks /\ ~HasNg(p)
    <3>1. p.results \subseteq ImageId \X Results
      BY DEF Packet
    <3>2. Defects(p) = {}
      BY <1>7, <2>3, <3>1, DefectIsOwn
    <3> QED BY <1>7, <2>3, <3>2, PassIsPromised
  <2>4. CASE Kicked(o, p)
    BY <1>1, <1>7, <2>4, KickIsPromised
  <2> QED BY <2>2, <2>3, <2>4
<1>8. ASSUME NEW m \in awaited, NEW r \in Results, ResultConcludes(m, r)
      PROVE  Kicking!Next
  <2>1. PICK p : p = WithResult(packetHash[m.objectId], m.imageId, r)
    OBVIOUS
  <2>2. /\ m.objectId \in DOMAIN packetHash /\ packetHash' = Without(m.objectId)
        /\ DoKickFinal(m.objectId, p, NgAfterVerdict(p))
    BY <1>8, <2>1 DEF ResultConcludes
  <2>3. /\ p \in Packet /\ p.images = packetHash[m.objectId].images
        /\ \A x \in p.results : x[1] \in p.images
        /\ OneMore(p, m.objectId)
    BY <1>1, <2>1, <2>2, ResultFinds
  <2> QED BY <1>7, <2>2, <2>3
<1>9. ASSUME NEW o \in DOMAIN packetHash, TimeoutDrops(o) PROVE Kicking!Next
  <2>1. packetHash' = Without(o) /\ kicks' = kicks /\ packetHash[o].results = {}
    BY <1>9 DEF TimeoutDrops
  <2>2. Defects(packetHash[o]) = {}
    BY <2>1 DEF Defects
  <2>3. OneMore(packetHash[o], o)
    BY DEF OneMore
  <2> QED BY <2>1, <2>2, <2>3, PassIsPromised
<1>10. ASSUME NEW o \in DOMAIN packetHash, TimeoutJudges(o) PROVE Kicking!Next
  <2>1. packetHash' = Without(o)
    BY <1>10 DEF TimeoutJudges
  <2>2. packetHash[o] \in Packet /\ \A x \in packetHash[o].results : x[1] \in packetHash[o].images
    BY <1>1 DEF TypeOK, KickParts, PacketsWellFormed
  <2>3. OneMore(packetHash[o], o)
    BY DEF OneMore
  <2>4. CASE Cardinality(packetHash[o].images) >= RealOnlineCameraCount
    <3>1. DoKickFinal(o, packetHash[o], NgAfterVerdict(packetHash[o]))
      BY <1>10, <2>4 DEF TimeoutJudges
    <3> QED BY <1>7, <2>1, <2>2, <2>3, <3>1
  <2>5. CASE ~(Cardinality(packetHash[o].images) >= RealOnlineCameraCount)
    <3>1. kicks' = kicks
      BY <1>10, <2>5 DEF TimeoutJudges
    <3>2. Cardinality(packetHash[o].images) < RealOnlineCameraCount
      BY <1>1, <2>5, ImagesAreCounted, OnlineCount DEF TypeOK
    <3> QED BY <2>1, <2>3, <3>1, <3>2, PassIsPromised
  <2> QED BY <2>4, <2>5
<1> QED BY <1>2, <1>4, <1>5, <1>6, <1>8, <1>9, <1>10 DEF Next

(* However many images are named in one millisecond, the packets implement Rejection:
   preInferAsync, onImageResult and onTimeout put an image in one packet, forget
   no defect, end a packet once, kick it only for a defect of its own and let none
   with a defect pass unless it is short of images. *)
THEOREM PacketsReject ==
  Spec => KicksTheDefective
<1>1. Init => Kicking!Init
  <2> SUFFICES ASSUME Init PROVE Kicking!Init
    OBVIOUS
  <2>1. packetHash = << >> /\ kicks = << >>
    BY DEF Init
  <2>2. OpenPackets = << >> /\ KickedPackets = << >>
    BY <2>1 DEF OpenPackets, KickedPackets
  <2> QED BY <2>2 DEF Kicking!Init
<1>2. KickInvariant /\ [Next]_vars => [Kicking!Next]_(Kicking!vars)
  BY RejectionStep
<1> QED BY <1>1, <1>2, KickInvariantHolds, PTL DEF Spec, KicksTheDefective, Kicking!Spec

=============================================================================
