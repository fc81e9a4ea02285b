------------------------- MODULE ChannelInferProofs -------------------------
(***************************************************************************)
(* Proofs about the channels that inspect images.  A traditional channel:  *)
(* its types, the static points of its detectors and the answers of its    *)
(* inspections.  An AI channel: no image is lost or doubled between the    *)
(* camera and the answer, and the images of a packet stay together.        *)
(***************************************************************************)
EXTENDS ChannelInfer, AIChannel, FiniteSetTheorems, TLAPS

(* The types that the argument rests on. *)
LocatorRec == [group : 1..2, feature : 1..2, point : Points]
DetectorRec == [group : 1..2, feature : 1..2, at : Anchors,
                points : UNION {[a -> Points] : a \in Anchors}]
Tables ==
  /\ \E ls \in SUBSET Locators : locators \in [ls -> LocatorRec]
  /\ \E ds \in SUBSET Detectors : detectors \in [ds -> DetectorRec]

(* The inductive invariant. *)
PointsInv == Tables /\ PointsFollowLocators

(* getLocatePoint of locators that are present is a function on them. *)
LEMMA PointsTyped ==
  ASSUME Tables, NEW a \in Anchors, a \subseteq DOMAIN locators
  PROVE  PointsOf(a) \in UNION {[b -> Points] : b \in Anchors}
<1>1. PointsOf(a) \in [a -> Points]
  BY DEF Tables, PointsOf, LocatorRec
<1> QED BY <1>1

(* Detectors that stay at points that stay. *)
LEMMA PointsStay ==
  ASSUME Tables, PointsFollowLocators, Tables',
         NEW d \in DOMAIN detectors, d \notin history.stale,
         detectors'[d] = detectors[d],
         \A m \in detectors[d].at :
           m \in DOMAIN locators' /\ locators'[m].point = locators[m].point
  PROVE  /\ detectors'[d].at \subseteq DOMAIN locators'
         /\ detectors'[d].points = [m \in detectors'[d].at |-> locators'[m].point]
<1>1. /\ detectors[d].at \subseteq DOMAIN locators
      /\ detectors[d].points = [m \in detectors[d].at |-> locators[m].point]
  BY DEF PointsFollowLocators, PointsOf
<1>2. [m \in detectors[d].at |-> locators[m].point]
        = [m \in detectors[d].at |-> locators'[m].point]
  OBVIOUS
<1> QED BY <1>1, <1>2

(* The channel begins with detectors at the points of their locators. *)
LEMMA PointsBegin == Init => PointsInv
<1> SUFFICES ASSUME Init PROVE PointsInv
  OBVIOUS
<1>1. PICK ls \in SUBSET Locators :
        locators \in [ls -> {Locator(g, f, 0) : g \in 1..2, f \in 1..2}]
  BY DEF Init
<1>2. PICK ds \in SUBSET Detectors :
        \E g, f \in [ds -> 1..2], a \in [ds -> Anchors \cap SUBSET DOMAIN locators] :
          detectors = [d \in ds |-> Detector(g[d], f[d], a[d], PointsOf(a[d]))]
  BY DEF Init
<1>3. PICK g \in [ds -> 1..2], f \in [ds -> 1..2],
           a \in [ds -> Anchors \cap SUBSET DOMAIN locators] :
         detectors = [d \in ds |-> Detector(g[d], f[d], a[d], PointsOf(a[d]))]
  BY <1>2
<1>4. locators \in [ls -> LocatorRec] /\ \A l \in ls : locators[l].point = 0
  <2>1. ASSUME NEW l \in ls
        PROVE  locators[l] \in LocatorRec /\ locators[l].point = 0
    <3>1. locators[l] \in {Locator(x, y, 0) : x \in 1..2, y \in 1..2}
      BY <1>1
    <3>2. PICK x \in 1..2, y \in 1..2 : locators[l] = Locator(x, y, 0)
      BY <3>1
    <3> QED BY <3>2 DEF Locator, LocatorRec, Points
  <2> QED BY <1>1, <2>1
<1>5. ASSUME NEW d \in ds
      PROVE  /\ detectors[d] \in DetectorRec
             /\ detectors[d].at \subseteq DOMAIN locators
             /\ detectors[d].points = PointsOf(detectors[d].at)
  <2>1. PointsOf(a[d]) \in [a[d] -> Points]
    BY <1>3, <1>4 DEF PointsOf, LocatorRec
  <2>2. PointsOf(a[d]) \in UNION {[b -> Points] : b \in Anchors}
    BY <1>3, <2>1
  <2>3. detectors[d] = Detector(g[d], f[d], a[d], PointsOf(a[d]))
    BY <1>3
  <2> QED BY <1>3, <2>2, <2>3 DEF Detector, DetectorRec
<1>6. detectors \in [ds -> DetectorRec]
  BY <1>3, <1>5
<1>7. Tables
  BY <1>4, <1>6 DEF Tables
<1> QED BY <1>5, <1>6, <1>7 DEF PointsInv, PointsFollowLocators

(* Every operation, and every step of an inspection, keeps them there. *)
LEMMA PointsStep == PointsInv /\ [Next]_vars => PointsInv'
<1> SUFFICES ASSUME PointsInv, [Next]_vars PROVE PointsInv'
  OBVIOUS
<1> USE DEF PointsInv
<1>0. PICK ls \in SUBSET Locators, ds \in SUBSET Detectors :
        locators \in [ls -> LocatorRec] /\ detectors \in [ds -> DetectorRec]
  BY DEF Tables
<1>1. ASSUME NEW l \in Locators, NEW g \in 1..2, NEW f \in 1..2,
             NEW p \in Points, AddLocator(l, g, f, p)
      PROVE  PointsInv'
  <2>1. locators' \in [ls \cup {l} -> LocatorRec] /\ \A m \in ls : locators'[m] = locators[m]
    BY <1>0, <1>1 DEF AddLocator, With, Locator, LocatorRec
  <2>2. detectors' = detectors /\ history'.stale = history.stale
    BY <1>1 DEF AddLocator, Operation
  <2>3. Tables'
    BY <1>0, <2>1, <2>2 DEF Tables
  <2>4. PointsFollowLocators'
    <3> SUFFICES ASSUME NEW d \in ds, d \notin history.stale
                 PROVE  /\ detectors'[d].at \subseteq DOMAIN locators'
                        /\ detectors'[d].points = [m \in detectors'[d].at |-> locators'[m].point]
      BY <1>0, <2>2 DEF PointsFollowLocators, PointsOf
    <3>1. detectors[d].at \subseteq ls
      BY <1>0 DEF PointsFollowLocators
    <3> QED BY <1>0, <2>1, <2>2, <2>3, <3>1, PointsStay
  <2> QED BY <2>3, <2>4
<1>2. ASSUME NEW d \in Detectors, NEW g \in 1..2, NEW f \in 1..2,
             NEW a \in Anchors, AddDetector(d, g, f, a)
      PROVE  PointsInv'
  <2>1. PointsOf(a) \in UNION {[b -> Points] : b \in Anchors}
    BY <1>2, PointsTyped DEF AddDetector
  <2>2. detectors' \in [ds \cup {d} -> DetectorRec]
    BY <1>0, <1>2, <2>1 DEF AddDetector, With, Detector, DetectorRec
  <2>3. locators' = locators /\ history'.stale = history.stale \ {d}
    BY <1>2 DEF AddDetector, Operation
  <2>4. /\ detectors'[d].at = a /\ detectors'[d].points = PointsOf(a)
        /\ \A e \in ds : e # d /\ detectors'[e] = detectors[e]
    BY <1>0, <1>2 DEF AddDetector, With, Detector
  <2>5. Tables'
    BY <1>0, <2>2, <2>3 DEF Tables
  <2>6. PointsFollowLocators'
    <3> SUFFICES ASSUME NEW e \in ds \cup {d}, e \notin history'.stale
                 PROVE  /\ detectors'[e].at \subseteq DOMAIN locators
                        /\ detectors'[e].points = PointsOf(detectors'[e].at)
      BY <1>0, <2>2, <2>3 DEF PointsFollowLocators, PointsOf
    <3>1. CASE e = d
      BY <1>2, <2>4, <3>1 DEF AddDetector
    <3>2. CASE e # d
      BY <1>0, <2>3, <2>4, <3>2 DEF PointsFollowLocators
    <3> QED BY <3>1, <3>2
  <2> QED BY <2>5, <2>6
<1>3. ASSUME NEW l \in Locators, RemoveLocator(l)
      PROVE  PointsInv'
  <2>1. locators' \in [ls \ {l} -> LocatorRec] /\ \A m \in ls \ {l} : locators'[m] = locators[m]
    BY <1>0, <1>3 DEF RemoveLocator, Without
  <2>2. detectors' = detectors
          /\ history'.stale = history.stale \cup {d \in DOMAIN detectors : l \in detectors[d].at}
    BY <1>3 DEF RemoveLocator, Operation
  <2>3. Tables'
    BY <1>0, <2>1, <2>2 DEF Tables
  <2>4. PointsFollowLocators'
    <3> SUFFICES ASSUME NEW d \in ds, d \notin history'.stale
                 PROVE  /\ detectors'[d].at \subseteq DOMAIN locators'
                        /\ detectors'[d].points = [m \in detectors'[d].at |-> locators'[m].point]
      BY <1>0, <2>2 DEF PointsFollowLocators, PointsOf
    <3>1. d \notin history.stale /\ detectors[d].at \subseteq ls \ {l}
      BY <1>0, <2>2 DEF PointsFollowLocators
    <3> QED BY <1>0, <2>1, <2>2, <2>3, <3>1, PointsStay
  <2> QED BY <2>3, <2>4
<1>4. ASSUME NEW d \in Detectors, RemoveDetector(d)
      PROVE  PointsInv'
  <2>1. detectors' \in [ds \ {d} -> DetectorRec] /\ \A e \in ds \ {d} : detectors'[e] = detectors[e]
    BY <1>0, <1>4 DEF RemoveDetector, Without
  <2>2. locators' = locators /\ history'.stale = history.stale \ {d}
    BY <1>4 DEF RemoveDetector, Operation
  <2>3. Tables'
    BY <1>0, <2>1, <2>2 DEF Tables
  <2>4. PointsFollowLocators'
    BY <1>0, <2>1, <2>2 DEF PointsFollowLocators, PointsOf
  <2> QED BY <2>3, <2>4
<1>5. ASSUME NEW l \in Locators, NEW p \in Points, UpdateLocator(l, p)
      PROVE  PointsInv'
  <2>1. locators' \in [ls -> LocatorRec]
    BY <1>0, <1>5 DEF UpdateLocator, LocatorRec
  <2>2. history'.stale = history.stale \ Anchored
    BY <1>5 DEF UpdateLocator, Operation
  <2>3. DOMAIN detectors' = ds
    BY <1>0, <1>5 DEF UpdateLocator
  <2>4. ASSUME NEW d \in ds, d \in Anchored
        PROVE  /\ detectors'[d] \in DetectorRec
               /\ detectors'[d].at \subseteq DOMAIN locators'
               /\ detectors'[d].points = [m \in detectors'[d].at |-> locators'[m].point]
    <3>1. detectors[d] \in DetectorRec /\ detectors[d].at \subseteq ls
      BY <1>0, <2>4 DEF Anchored
    <3>2. detectors'[d] = [detectors[d] EXCEPT
            !.points = [m \in detectors[d].at |-> locators'[m].point]]
      BY <1>0, <1>5, <2>4 DEF UpdateLocator
    <3>3. [m \in detectors[d].at |-> locators'[m].point] \in [detectors[d].at -> Points]
      BY <2>1, <3>1 DEF LocatorRec
    <3>4. detectors[d].at \in Anchors
      BY <3>1 DEF DetectorRec
    <3> QED BY <2>1, <3>1, <3>2, <3>3, <3>4 DEF DetectorRec
  <2>5. ASSUME NEW d \in ds, d \notin Anchored
        PROVE  detectors'[d] = detectors[d]
    BY <1>0, <1>5, <2>5 DEF UpdateLocator
  <2>6. detectors' \in [ds -> DetectorRec]
    <3>1. detectors' = [d \in ds |-> detectors'[d]]
      BY <1>0, <1>5 DEF UpdateLocator
    <3>2. \A d \in ds : detectors'[d] \in DetectorRec
      BY <1>0, <2>4, <2>5
    <3> QED BY <3>1, <3>2
  <2>7. Tables'
    BY <2>1, <2>6 DEF Tables
  <2>8. \A d \in ds \ Anchored : d \in history.stale
    BY <1>0 DEF PointsFollowLocators, Anchored
  <2>9. PointsFollowLocators'
    BY <2>2, <2>3, <2>4, <2>8 DEF PointsFollowLocators, PointsOf
  <2> QED BY <2>7, <2>9
<1>6. ASSUME NEW d \in Detectors, NEW a \in Anchors, UpdateDetector(d, a)
      PROVE  PointsInv'
  <2>1. PointsOf(a) \in UNION {[b -> Points] : b \in Anchors}
    BY <1>6, PointsTyped DEF UpdateDetector
  <2>2. /\ d \in ds /\ DOMAIN detectors' = ds
        /\ detectors'[d].at = a /\ detectors'[d].points = PointsOf(a)
        /\ \A e \in ds \ {d} : detectors'[e] = detectors[e]
    BY <1>0, <1>6 DEF UpdateDetector, DetectorRec
  <2>3. detectors' \in [ds -> DetectorRec]
    <3>1. detectors[d] \in DetectorRec
      BY <1>0, <2>2
    <3>2. [detectors[d] EXCEPT !.at = a, !.points = PointsOf(a)] \in DetectorRec
      BY <2>1, <3>1 DEF DetectorRec
    <3> QED BY <1>0, <1>6, <3>2 DEF UpdateDetector
  <2>4. locators' = locators /\ history'.stale = history.stale \ {d}
    BY <1>6 DEF UpdateDetector, Operation
  <2>5. Tables'
    BY <1>0, <2>3, <2>4 DEF Tables
  <2>6. PointsFollowLocators'
    <3> SUFFICES ASSUME NEW e \in ds, e \notin history'.stale
                 PROVE  /\ detectors'[e].at \subseteq DOMAIN locators
                        /\ detectors'[e].points = PointsOf(detectors'[e].at)
      BY <2>2, <2>4 DEF PointsFollowLocators, PointsOf
    <3>1. CASE e = d
      BY <1>6, <2>2, <3>1 DEF UpdateDetector
    <3>2. CASE e # d
      BY <1>0, <2>2, <2>4, <3>2 DEF PointsFollowLocators
    <3> QED BY <3>1, <3>2
  <2> QED BY <2>5, <2>6
<1>7. ASSUME UNCHANGED <<locators, detectors, history>>
      PROVE  PointsInv'
  <2>1. Tables'
    BY <1>7 DEF Tables
  <2>2. PointsFollowLocators'
    BY <1>7 DEF PointsFollowLocators, PointsOf
  <2> QED BY <2>1, <2>2
<1>8. CASE Operations
  BY <1>1, <1>2, <1>3, <1>4, <1>5, <1>6, <1>8 DEF Operations
<1>9. ASSUME NEW i \in Images, OnImageData(i) \/ Start(i) \/ Inspect(i)
      PROVE  UNCHANGED <<locators, detectors, history>>
  BY <1>9 DEF OnImageData, Start, Inspect, RunMember, StartDetectors, NextFeature,
    NextGroup, Answer, TornEnds, FeatureEnds, Waited, Inspecting, configVars
<1>10. CASE UNCHANGED vars
  BY <1>7, <1>10 DEF vars, configVars
<1> QED BY <1>7, <1>8, <1>9, <1>10 DEF Next

(* updateLocator passes a locator's new static point on, and addDetector and
   updateDetector take the one that holds: through any sequence of operations a
   detector's point is that of its locators unless one of them was removed. *)
THEOREM PointsAreFollowed == Spec => []PointsFollowLocators
<1>1. PointsInv => PointsFollowLocators
  BY DEF PointsInv
<1> QED BY PointsBegin, PointsStep, <1>1, PTL DEF Spec

-----------------------------------------------------------------------------
(* What an inspection works through at its group, feature and phase. *)
Part(j) == IF j.phase = "locate" THEN LocatorsOf(j.group, j.feature)
                                 ELSE DetectorsOf(j.group, j.feature)

(* What is behind it has run. *)
Progress(j) ==
  /\ j.todo \subseteq Part(j)
  /\ Part(j) \ j.todo \subseteq j.ran
  /\ j.phase = "detect" => LocatorsOf(j.group, j.feature) \subseteq j.ran
  /\ j.feature = 2 =>
       LocatorsOf(j.group, 1) \cup DetectorsOf(j.group, 1) \subseteq j.ran

(* Its results say whether a member of its group has failed; before the second
   group nobody else has run. *)
Verdict(j) ==
  /\ j.group = 1 => j.failed \subseteq Members(1)
  /\ j.feat /\ j.rest => j.failed \cap Members(j.group) = {}
  /\ ~(j.feat /\ j.rest) => j.failed # {}
  /\ j.group = 2 => bGroup

Unbegun(j) == j.ran = {} /\ j.failed = {} /\ j.feat /\ j.rest /\ ~j.torn

JobClaims(j) ==
  /\ j.stage \in {"idle", "queued"} => Unbegun(j)
  /\ j.stage = "run" /\ ~j.torn => Progress(j) /\ Verdict(j)

(* The inductive invariants: of types, and of inspections under which the
   channel has not changed. *)
Typed == Tables /\ TypeOK
JobsInv == Typed /\ \A i \in Images : JobClaims(job[i])

(* The record of an image that is not inspected, or no longer so. *)
LEMMA BlankIsJob ==
  /\ Blank \in Job /\ Torn \in Job
  /\ Blank.stage = "idle" /\ Unbegun(Blank)
  /\ Torn.stage = "run" /\ Torn.torn
  /\ \A answer \in {"OK", "NG"} : Answered(answer) \in Job /\ Answered(answer).stage = "done"
<1>1. Blank \in Job /\ Blank.stage = "idle" /\ Unbegun(Blank)
  BY DEF Blank, Job, Unbegun
<1>2. Torn \in Job /\ Torn.stage = "run" /\ Torn.torn
  BY <1>1 DEF Torn, Job
<1>3. ASSUME NEW answer \in {"OK", "NG"}
      PROVE  Answered(answer) \in Job /\ Answered(answer).stage = "done"
  BY <1>1 DEF Answered, Job
<1> QED BY <1>1, <1>2, <1>3

(* The two groups of a channel share no member. *)
LEMMA GroupsAreDisjoint ==
  ASSUME Typed
  PROVE  Members(1) \cap Members(2) = {}
<1>1. DOMAIN locators \cap DOMAIN detectors = {}
  BY ConstantsOK DEF Typed, TypeOK
<1> QED BY <1>1 DEF Members, LocatorsOf, DetectorsOf

(* The members of a group are its locators and detectors. *)
LEMMA MembersOfGroup ==
  ASSUME NEW g
  PROVE  Members(g) = (LocatorsOf(g, 1) \cup DetectorsOf(g, 1))
                        \cup (LocatorsOf(g, 2) \cup DetectorsOf(g, 2))
<1>1. 1..2 = {1, 2}
  OBVIOUS
<1> QED BY <1>1 DEF Members

(* The work that an inspection begins with at a group and a feature. *)
LEMMA WorkBegins ==
  ASSUME Typed, NEW j \in Job, NEW g \in 1..2, NEW f \in 1..2
  PROVE  LET k == At(j, g, f)
         IN  /\ k \in Job
             /\ k.group = g /\ k.feature = f /\ k.phase = "locate"
             /\ k.todo = LocatorsOf(g, f)
             /\ k.stage = j.stage /\ k.feat = j.feat /\ k.rest = j.rest
             /\ k.ran = j.ran /\ k.failed = j.failed /\ k.torn = j.torn
<1>1. LocatorsOf(g, f) \subseteq Locators
  BY DEF Typed, TypeOK, LocatorsOf
<1> QED BY <1>1 DEF At, Job

(* inferImage begins with the locators of the features of the first group. *)
LEMMA InspectionBegins ==
  ASSUME Typed, NEW j \in Job, Unbegun(j), NEW k \in Job,
         k.group = 1, k.feature = 1, k.phase = "locate", k.todo = LocatorsOf(1, 1),
         k.feat = j.feat, k.rest = j.rest, k.ran = j.ran, k.failed = j.failed
  PROVE  Progress(k) /\ Verdict(k)
BY DEF Unbegun, Progress, Part, Verdict

(* One member runs. *)
LEMMA MemberRuns ==
  ASSUME NEW j \in Job, Progress(j), Verdict(j), NEW m \in j.todo, NEW ok \in BOOLEAN,
         NEW k \in Job, k.group = j.group, k.feature = j.feature, k.phase = j.phase,
         k.todo = j.todo \ {m}, k.ran = j.ran \cup {m},
         k.failed = IF ok THEN j.failed ELSE j.failed \cup {m},
         k.feat = (j.feat /\ (ok \/ j.feature # 1)),
         k.rest = (j.rest /\ (ok \/ j.feature # 2))
  PROVE  Progress(k) /\ Verdict(k)
<1>1. Progress(k)
  BY DEF Progress, Part
<1>2. m \in Members(j.group)
  <2>1. j.feature = 1 \/ j.feature = 2
    BY DEF Job
  <2>2. m \in LocatorsOf(j.group, j.feature) \cup DetectorsOf(j.group, j.feature)
    BY DEF Progress, Part
  <2>3. CASE j.feature = 1
    BY <2>2, <2>3, MembersOfGroup
  <2>4. CASE j.feature = 2
    BY <2>2, <2>4, MembersOfGroup
  <2> QED BY <2>1, <2>3, <2>4
<1>3. CASE ok
  <2>1. k.failed = j.failed /\ (k.feat <=> j.feat) /\ (k.rest <=> j.rest)
    BY <1>3 DEF Job
  <2>2. Verdict(k)
    BY <2>1 DEF Verdict
  <2> QED BY <1>1, <2>2
<1>4. CASE ~ok
  <2>1. ~(k.feat /\ k.rest)
    <3>1. CASE j.feature = 1
      BY <1>4, <3>1
    <3>2. CASE j.feature = 2
      BY <1>4, <3>2
    <3>3. j.feature = 1 \/ j.feature = 2
      BY DEF Job
    <3> QED BY <3>1, <3>2, <3>3
  <2>2. m \in k.failed /\ k.failed = j.failed \cup {m}
    BY <1>4
  <2>3. j.group = 1 => k.failed \subseteq Members(1)
    BY <1>2, <2>2 DEF Verdict
  <2>4. Verdict(k)
    BY <2>1, <2>2, <2>3 DEF Verdict
  <2> QED BY <1>1, <2>4
<1> QED BY <1>1, <1>3, <1>4

(* The detectors of a feature follow its locators. *)
LEMMA DetectorsBegin ==
  ASSUME NEW j \in Job, Progress(j), Verdict(j), j.todo = {}, j.phase = "locate",
         NEW k \in Job, k.group = j.group, k.feature = j.feature, k.phase = "detect",
         k.todo = DetectorsOf(j.group, j.feature), k.ran = j.ran,
         k.failed = j.failed, k.feat = j.feat, k.rest = j.rest
  PROVE  Progress(k) /\ Verdict(k)
BY DEF Progress, Part, Verdict

(* The other features follow when the first ones have been found. *)
LEMMA RestBegins ==
  ASSUME NEW j \in Job, Progress(j), Verdict(j), j.todo = {}, j.phase = "detect",
         j.feature = 1,
         NEW k \in Job, k.group = j.group, k.feature = 2, k.phase = "locate",
         k.todo = LocatorsOf(j.group, 2), k.ran = j.ran,
         k.failed = j.failed, k.feat = j.feat, k.rest = j.rest
  PROVE  Progress(k) /\ Verdict(k)
<1>1. LocatorsOf(j.group, 1) \cup DetectorsOf(j.group, 1) \subseteq j.ran
  BY DEF Progress, Part
<1>2. Progress(k)
  BY <1>1 DEF Progress, Part
<1>3. Verdict(k)
  BY DEF Verdict
<1> QED BY <1>2, <1>3

(* The second group begins with a clean result. *)
LEMMA SecondBegins ==
  ASSUME Typed, NEW j \in Job, Verdict(j), j.group = 1, bGroup,
         NEW k \in Job, k.group = 2, k.feature = 1, k.phase = "locate",
         k.todo = LocatorsOf(2, 1), k.failed = j.failed, k.feat, k.rest
  PROVE  Progress(k) /\ Verdict(k)
<1>1. j.failed \cap Members(2) = {}
  BY GroupsAreDisjoint DEF Verdict
<1>2. Verdict(k)
  BY <1>1 DEF Verdict
<1>3. Progress(k)
  BY DEF Progress, Part
<1> QED BY <1>2, <1>3

(* The types and the invariant hold at the start. *)
LEMMA JobsBegin == Init => JobsInv
<1> SUFFICES ASSUME Init PROVE JobsInv
  OBVIOUS
<1>1. Tables
  BY PointsBegin DEF PointsInv
<1>2. job \in [Images -> Job] /\ \A i \in Images : job[i] = Blank
  BY BlankIsJob DEF Init
<1>3. \A d \in DOMAIN detectors : detectors[d].at \in Anchors
  BY <1>1 DEF Tables, DetectorRec
<1>4. \A l \in DOMAIN locators :
        locators[l] \in [group : 1..2, feature : 1..2, point : Points]
  BY <1>1 DEF Tables, LocatorRec
<1>5. history.ops \in 0..MaxOps /\ history.stale \subseteq Detectors
  BY ConstantsOK DEF Init
<1>6. bInitOK \in BOOLEAN /\ bGroup \in BOOLEAN
  BY DEF Init
<1>7. TypeOK
  BY <1>1, <1>2, <1>3, <1>4, <1>5, <1>6 DEF TypeOK, Tables
<1>8. \A i \in Images : JobClaims(job[i])
  BY <1>2, BlankIsJob DEF JobClaims
<1> QED BY <1>1, <1>7, <1>8 DEF JobsInv, Typed

(* An operation of the policy store tears the inspections that run. *)
LEMMA OperationsTear ==
  ASSUME JobsInv, Tables', NEW stale, stale \subseteq Detectors, Operation(stale),
         bInitOK' \in BOOLEAN, bGroup' \in BOOLEAN
  PROVE  JobsInv'
<1>1. TypeOK
  BY DEF JobsInv, Typed
<1>2. job' \in [Images -> Job]
  BY <1>1, BlankIsJob DEF Operation, TypeOK
<1>3. history'.ops \in 0..MaxOps /\ history'.stale \subseteq Detectors
  BY <1>1, ConstantsOK DEF Operation, TypeOK
<1>4. /\ \A d \in DOMAIN detectors' : detectors'[d].at \in Anchors
      /\ \A l \in DOMAIN locators' :
           locators'[l] \in [group : 1..2, feature : 1..2, point : Points]
      /\ DOMAIN locators' \subseteq Locators /\ DOMAIN detectors' \subseteq Detectors
  BY DEF Tables, DetectorRec, LocatorRec
<1>5. Typed'
  BY <1>2, <1>3, <1>4 DEF Typed, TypeOK
<1>6. ASSUME NEW i \in Images
      PROVE  JobClaims(job[i])'
  <2>1. CASE job[i].stage = "run"
    <3>1. job'[i] = Torn
      BY <2>1 DEF Operation
    <3> QED BY <3>1, BlankIsJob DEF JobClaims
  <2>2. CASE job[i].stage # "run"
    <3>1. job'[i] = job[i]
      BY <2>2 DEF Operation
    <3>2. JobClaims(job[i])
      BY DEF JobsInv
    <3> QED BY <2>2, <3>1, <3>2 DEF JobClaims, Unbegun
  <2> QED BY <2>1, <2>2
<1> QED BY <1>5, <1>6 DEF JobsInv

(* A step of one inspection leaves the others alone. *)
LEMMA OneJobSteps ==
  ASSUME JobsInv, NEW i \in Images, NEW k \in Job, job' = [job EXCEPT ![i] = k],
         JobClaims(k), UNCHANGED <<configVars, history>>
  PROVE  JobsInv'
<1>1. job \in [Images -> Job]
  BY DEF JobsInv, Typed, TypeOK
<1>2. job' \in [Images -> Job] /\ job'[i] = k /\ \A n \in Images \ {i} : job'[n] = job[n]
  BY <1>1
<1>3. Typed'
  BY <1>2 DEF JobsInv, Typed, Tables, TypeOK, configVars
<1>4. \A n \in Images : JobClaims(job'[n])
  BY <1>2 DEF JobsInv
<1>5. \A n \in Images : JobClaims(job[n])'
  BY <1>4 DEF JobClaims, Unbegun, Progress, Part, Verdict, Members, LocatorsOf, DetectorsOf,
    configVars
<1> QED BY <1>3, <1>5 DEF JobsInv

(* Each step of an inspection keeps what its results mean. *)
LEMMA InspectionSteps ==
  ASSUME JobsInv, NEW i \in Images, OnImageData(i) \/ Start(i) \/ Inspect(i)
  PROVE  JobsInv'
<1> DEFINE j == job[i]
<1>0. /\ Typed /\ job \in [Images -> Job] /\ j \in Job /\ JobClaims(j)
      /\ j.group \in 1..2 /\ j.feature \in 1..2
  BY DEF JobsInv, Typed, TypeOK, Job
<1>1. CASE OnImageData(i)
  <2> DEFINE k == [j EXCEPT !.stage = "queued"]
  <2>1. k \in Job /\ job' = [job EXCEPT ![i] = k] /\ UNCHANGED <<configVars, history>>
    BY <1>0, <1>1 DEF OnImageData, Job
  <2>2. JobClaims(k)
    BY <1>0, <1>1 DEF OnImageData, Job, JobClaims, Unbegun
  <2> QED BY <2>1, <2>2, OneJobSteps
<1>2. CASE Start(i)
  <2> DEFINE b == [j EXCEPT !.stage = "run"]
             k == At(b, 1, 1)
  <2>1. b \in Job /\ Unbegun(b)
    BY <1>0, <1>2 DEF Start, Job, JobClaims, Unbegun
  <2>2. job' = [job EXCEPT ![i] = k] /\ UNCHANGED <<configVars, history>>
    BY <1>2 DEF Start
  <2> HIDE DEF b
  <2>3. /\ k \in Job /\ k.group = 1 /\ k.feature = 1 /\ k.phase = "locate"
        /\ k.todo = LocatorsOf(1, 1)
        /\ k.feat = b.feat /\ k.rest = b.rest /\ k.ran = b.ran /\ k.failed = b.failed
    BY <1>0, <2>1, WorkBegins
  <2>4. k.stage = "run"
    <3>1. k.stage = b.stage
      BY <1>0, <2>1, WorkBegins
    <3> QED BY <1>0, <3>1 DEF b, Job
  <2> HIDE DEF k
  <2>5. Progress(k) /\ Verdict(k)
    BY <1>0, <2>1, <2>3, InspectionBegins
  <2>6. JobClaims(k)
    BY <2>4, <2>5 DEF JobClaims
  <2> QED BY <2>2, <2>3, <2>6, OneJobSteps
<1>3. ASSUME NEW m \in j.todo, NEW ok \in BOOLEAN, RunMember(i, m, ok)
      PROVE  JobsInv'
  <2> DEFINE k == [j EXCEPT !.todo = @ \ {m}, !.ran = @ \cup {m},
                     !.failed = IF ok THEN @ ELSE @ \cup {m},
                     !.feat = @ /\ (ok \/ j.feature # 1),
                     !.rest = @ /\ (ok \/ j.feature # 2)]
  <2>1. Progress(j) /\ Verdict(j) /\ UNCHANGED <<configVars, history>>
    BY <1>0, <1>3 DEF RunMember, Inspecting, JobClaims
  <2>2. job' = [job EXCEPT ![i] = k]
    BY <1>0, <1>3 DEF RunMember
  <2>3. m \in Locators \cup Detectors
    BY <1>0, <1>3 DEF Job
  <2>4. /\ k \in Job /\ k.stage = j.stage /\ k.torn = j.torn
        /\ k.group = j.group /\ k.feature = j.feature /\ k.phase = j.phase
        /\ k.todo = j.todo \ {m} /\ k.ran = j.ran \cup {m}
        /\ k.failed = IF ok THEN j.failed ELSE j.failed \cup {m}
        /\ k.feat = (j.feat /\ (ok \/ j.feature # 1))
        /\ k.rest = (j.rest /\ (ok \/ j.feature # 2))
    <3>1. k.todo \in SUBSET (Locators \cup Detectors) /\ k.ran \in SUBSET (Locators \cup Detectors)
      BY <1>0, <2>3 DEF Job
    <3>2. k.failed \in SUBSET (Locators \cup Detectors) /\ k.feat \in BOOLEAN /\ k.rest \in BOOLEAN
      BY <1>0, <2>3 DEF Job
    <3>3. k \in Job
      BY <1>0, <3>1, <3>2 DEF Job
    <3>4. /\ k.stage = j.stage /\ k.torn = j.torn
          /\ k.group = j.group /\ k.feature = j.feature /\ k.phase = j.phase
      BY <1>0 DEF Job
    <3>5. /\ k.todo = j.todo \ {m} /\ k.ran = j.ran \cup {m}
          /\ k.failed = IF ok THEN j.failed ELSE j.failed \cup {m}
      BY <1>0 DEF Job
    <3>6. /\ k.feat = (j.feat /\ (ok \/ j.feature # 1))
          /\ k.rest = (j.rest /\ (ok \/ j.feature # 2))
      BY <1>0 DEF Job
    <3> QED BY <3>3, <3>4, <3>5, <3>6
  <2>5. j.stage = "run"
    BY <1>3 DEF RunMember, Inspecting
  <2> HIDE DEF j, k
  <2>6. Progress(k) /\ Verdict(k)
    BY <1>0, <1>3, <2>1, <2>4, MemberRuns
  <2>7. JobClaims(k)
    BY <2>4, <2>5, <2>6 DEF JobClaims
  <2> QED BY <2>1, <2>2, <2>4, <2>7, OneJobSteps
<1>4. CASE StartDetectors(i)
  <2> DEFINE k == [j EXCEPT !.phase = "detect", !.todo = DetectorsOf(j.group, j.feature)]
  <2>1. Progress(j) /\ Verdict(j) /\ UNCHANGED <<configVars, history>>
    BY <1>0, <1>4 DEF StartDetectors, Waited, Inspecting, JobClaims
  <2>2. job' = [job EXCEPT ![i] = k] /\ j.todo = {} /\ j.phase = "locate" /\ j.stage = "run"
    BY <1>0, <1>4 DEF StartDetectors, Waited, Inspecting
  <2>3. DetectorsOf(j.group, j.feature) \subseteq Detectors
    BY <1>0 DEF Typed, TypeOK, DetectorsOf
  <2>4. /\ k \in Job /\ k.stage = j.stage
        /\ k.group = j.group /\ k.feature = j.feature /\ k.phase = "detect"
        /\ k.todo = DetectorsOf(j.group, j.feature) /\ k.ran = j.ran
        /\ k.failed = j.failed /\ k.feat = j.feat /\ k.rest = j.rest
    BY <1>0, <2>3 DEF Job
  <2> HIDE DEF j, k
  <2>5. Progress(k) /\ Verdict(k)
    BY <1>0, <2>1, <2>2, <2>4, DetectorsBegin
  <2>6. JobClaims(k)
    BY <2>2, <2>4, <2>5 DEF JobClaims
  <2> QED BY <2>1, <2>2, <2>4, <2>6, OneJobSteps
<1>5. CASE NextFeature(i)
  <2> DEFINE k == At(j, j.group, 2)
  <2>1. Progress(j) /\ Verdict(j) /\ UNCHANGED <<configVars, history>>
    BY <1>0, <1>5 DEF NextFeature, FeatureEnds, Waited, Inspecting, JobClaims
  <2>2. job' = [job EXCEPT ![i] = k] /\ j.todo = {} /\ j.stage = "run" /\ j.feature = 1
    BY <1>0, <1>5 DEF NextFeature, FeatureEnds, Waited, Inspecting
  <2>3. j.phase = "detect"
    BY <1>0, <1>5 DEF NextFeature, FeatureEnds, Passed
  <2>4. /\ k \in Job /\ k.stage = j.stage
        /\ k.group = j.group /\ k.feature = 2 /\ k.phase = "locate"
        /\ k.todo = LocatorsOf(j.group, 2) /\ k.ran = j.ran
        /\ k.failed = j.failed /\ k.feat = j.feat /\ k.rest = j.rest
    BY <1>0, WorkBegins
  <2> HIDE DEF j, k
  <2>5. Progress(k) /\ Verdict(k)
    BY <1>0, <2>1, <2>2, <2>3, <2>4, RestBegins
  <2>6. JobClaims(k)
    BY <2>2, <2>4, <2>5 DEF JobClaims
  <2> QED BY <2>1, <2>2, <2>4, <2>6, OneJobSteps
<1>6. CASE NextGroup(i)
  <2> DEFINE b == [j EXCEPT !.feat = TRUE, !.rest = TRUE]
             k == At(b, 2, 1)
  <2>1. Verdict(j) /\ UNCHANGED <<configVars, history>>
    BY <1>0, <1>6 DEF NextGroup, FeatureEnds, Waited, Inspecting, JobClaims
  <2>2. job' = [job EXCEPT ![i] = k] /\ j.stage = "run" /\ j.group = 1 /\ bGroup
    BY <1>0, <1>6 DEF NextGroup, FeatureEnds, Waited, Inspecting, TriesSecond
  <2>3. b \in Job /\ b.feat = TRUE /\ b.rest = TRUE /\ b.failed = j.failed /\ b.stage = j.stage
    BY <1>0 DEF Job
  <2> HIDE DEF b
  <2>4. /\ k \in Job /\ k.stage = b.stage
        /\ k.group = 2 /\ k.feature = 1 /\ k.phase = "locate"
        /\ k.todo = LocatorsOf(2, 1)
        /\ k.failed = b.failed /\ k.feat = b.feat /\ k.rest = b.rest
    BY <1>0, <2>3, 2 \in 1..2, 1 \in 1..2, WorkBegins
  <2> HIDE DEF j, k
  <2>5. Progress(k) /\ Verdict(k)
    BY <1>0, <2>1, <2>2, <2>3, <2>4, SecondBegins
  <2>6. JobClaims(k)
    BY <2>2, <2>3, <2>4, <2>5 DEF JobClaims
  <2> QED BY <2>1, <2>2, <2>4, <2>6, OneJobSteps
<1>7. ASSUME NEW answer \in {"OK", "NG"}, job' = [job EXCEPT ![i] = Answered(answer)],
             UNCHANGED <<configVars, history>>
      PROVE  JobsInv'
  <2>1. Answered(answer) \in Job /\ JobClaims(Answered(answer))
    BY <1>7, BlankIsJob DEF JobClaims
  <2> QED BY <1>7, <2>1, OneJobSteps
<1>8. CASE Answer(i)
  <2>1. PICK answer \in {"OK", "NG"} : job' = [job EXCEPT ![i] = Answered(answer)]
    BY <1>8 DEF Answer
  <2> QED BY <1>7, <1>8, <2>1 DEF Answer, FeatureEnds, Waited, Inspecting
<1>9. ASSUME NEW answer \in {"OK", "NG"}, TornEnds(i, answer)
      PROVE  JobsInv'
  BY <1>7, <1>9 DEF TornEnds
<1> QED BY <1>1, <1>2, <1>3, <1>4, <1>5, <1>6, <1>8, <1>9 DEF Inspect

(* Every operation and every step of an inspection keeps the invariant. *)
LEMMA JobsStep == PointsInv /\ JobsInv /\ [Next]_vars => JobsInv'
<1> SUFFICES ASSUME PointsInv, JobsInv, [Next]_vars PROVE JobsInv'
  OBVIOUS
<1>1. Tables'
  BY PointsStep DEF PointsInv
<1>2. history.stale \subseteq Detectors /\ DOMAIN detectors \subseteq Detectors
        /\ bInitOK \in BOOLEAN /\ bGroup \in BOOLEAN
  BY DEF JobsInv, Typed, TypeOK
<1>3. ASSUME NEW l \in Locators, NEW g \in 1..2, NEW f \in 1..2,
             NEW p \in Points, AddLocator(l, g, f, p)
      PROVE  JobsInv'
  BY <1>1, <1>2, <1>3, OperationsTear DEF AddLocator
<1>4. ASSUME NEW d \in Detectors, NEW g \in 1..2, NEW f \in 1..2,
             NEW a \in Anchors, AddDetector(d, g, f, a)
      PROVE  JobsInv'
  <2>1. history.stale \ {d} \subseteq Detectors /\ bInitOK' \in BOOLEAN /\ bGroup' \in BOOLEAN
    BY <1>2, <1>4 DEF AddDetector
  <2> QED BY <1>1, <1>4, <2>1, OperationsTear DEF AddDetector
<1>5. ASSUME NEW l \in Locators, RemoveLocator(l)
      PROVE  JobsInv'
  <2>1. history.stale \cup {d \in DOMAIN detectors : l \in detectors[d].at} \subseteq Detectors
    BY <1>2
  <2> QED BY <1>1, <1>2, <1>5, <2>1, OperationsTear DEF RemoveLocator
<1>6. ASSUME NEW d \in Detectors, RemoveDetector(d)
      PROVE  JobsInv'
  <2>1. history.stale \ {d} \subseteq Detectors
    BY <1>2
  <2> QED BY <1>1, <1>2, <1>6, <2>1, OperationsTear DEF RemoveDetector
<1>7. ASSUME NEW l \in Locators, NEW p \in Points, UpdateLocator(l, p)
      PROVE  JobsInv'
  <2>1. history.stale \ Anchored \subseteq Detectors
    BY <1>2
  <2> QED BY <1>1, <1>2, <1>7, <2>1, OperationsTear DEF UpdateLocator
<1>8. ASSUME NEW d \in Detectors, NEW a \in Anchors, UpdateDetector(d, a)
      PROVE  JobsInv'
  <2>1. history.stale \ {d} \subseteq Detectors
    BY <1>2
  <2> QED BY <1>1, <1>2, <1>8, <2>1, OperationsTear DEF UpdateDetector
<1>9. CASE Operations
  BY <1>3, <1>4, <1>5, <1>6, <1>7, <1>8, <1>9 DEF Operations
<1>10. CASE UNCHANGED vars
  <2>1. Typed'
    BY <1>1, <1>10 DEF JobsInv, Typed, TypeOK, vars, configVars
  <2>2. \A i \in Images : JobClaims(job[i])'
    BY <1>10 DEF JobsInv, JobClaims, Unbegun, Progress, Part, Verdict, Members, LocatorsOf,
      DetectorsOf, vars, configVars
  <2> QED BY <2>1, <2>2 DEF JobsInv
<1> QED BY <1>9, <1>10, InspectionSteps DEF Next

(* The tables, the results of inspections and the counters have their types,
   whatever operations and inspections come. *)
THEOREM TypesHold == Spec => []TypeOK
<1>1. PointsInv /\ JobsInv /\ [Next]_vars => (PointsInv /\ JobsInv)'
  BY PointsStep, JobsStep
<1>2. JobsInv => TypeOK
  BY DEF JobsInv, Typed
<1> QED BY PointsBegin, JobsBegin, <1>1, <1>2, PTL DEF Spec

(* inferImage answers OK for members of one group that have all run without a
   failure, and NG for a failure. *)
LEMMA AnswerIsEarned ==
  ASSUME JobsInv, NEW i \in Images, Answer(i), bGroup => Members(2) # {}
  PROVE  IF job'[i].answer = "OK"
         THEN \E g \in 1..2 : /\ g = 2 => Members(2) # {}
                              /\ Members(g) \subseteq job[i].ran
                              /\ Members(g) \cap job[i].failed = {}
         ELSE job[i].failed # {}
<1> DEFINE j == job[i]
<1>1. /\ job \in [Images -> Job] /\ j \in Job /\ Progress(j) /\ Verdict(j)
      /\ j.group \in 1..2
  BY DEF JobsInv, Typed, TypeOK, Job, JobClaims, Answer, FeatureEnds, Waited, Inspecting
<1>2. job'[i].answer = IF j.feat /\ j.rest THEN "OK" ELSE "NG"
  BY <1>1 DEF Answer, Answered, Blank
<1>3. CASE j.feat /\ j.rest
  <2>1. j.feature = 2 /\ j.phase = "detect" /\ j.todo = {}
    BY <1>1, <1>3 DEF Answer, FeatureEnds, Waited, Passed, Job
  <2>2. /\ LocatorsOf(j.group, 1) \cup DetectorsOf(j.group, 1) \subseteq j.ran
        /\ LocatorsOf(j.group, 2) \cup DetectorsOf(j.group, 2) \subseteq j.ran
    BY <1>1, <2>1 DEF Progress, Part
  <2>3. Members(j.group) \subseteq j.ran
    BY <2>2, MembersOfGroup
  <2>4. Members(j.group) \cap j.failed = {} /\ (j.group = 2 => Members(2) # {})
    BY <1>1, <1>3 DEF Verdict
  <2> QED BY <1>1, <1>2, <1>3, <2>3, <2>4
<1>4. CASE ~(j.feat /\ j.rest)
  BY <1>1, <1>2, <1>4 DEF Verdict
<1> QED BY <1>3, <1>4

(* An image is OK only if every member of a group has run and none has failed,
   the second group only if it has members, and NG only if one has failed;
   operations that come during the inspection, or that empty the second group
   while m_bGroup stays set, are the exceptions. *)
THEOREM AnswersAreEarned == Spec => OkIsEarned
<1> DEFINE Step == \A i \in Images :
       (job[i].stage = "run" /\ ~job[i].torn /\ job'[i].stage = "done"
          /\ (bGroup => Members(2) # {})) =>
       IF job'[i].answer = "OK"
       THEN \E g \in 1..2 : /\ g = 2 => Members(2) # {}
                            /\ Members(g) \subseteq job[i].ran
                            /\ Members(g) \cap job[i].failed = {}
       ELSE job[i].failed # {}
<1>1. JobsInv /\ [Next]_vars => [Step]_vars
  <2> SUFFICES ASSUME JobsInv, Next,
                      NEW i \in Images, job[i].stage = "run", ~job[i].torn,
                      job'[i].stage = "done", bGroup => Members(2) # {}
               PROVE  IF job'[i].answer = "OK"
                      THEN \E g \in 1..2 : /\ g = 2 => Members(2) # {}
                                           /\ Members(g) \subseteq job[i].ran
                                           /\ Members(g) \cap job[i].failed = {}
                      ELSE job[i].failed # {}
    OBVIOUS
  <2>1. job \in [Images -> Job]
    BY DEF JobsInv, Typed, TypeOK
  <2>2. ASSUME NEW stale, Operation(stale)
        PROVE  FALSE
    BY <2>2, BlankIsJob DEF Operation
  <2>3. ~Operations
    BY <2>2 DEF Operations, AddLocator, AddDetector, RemoveLocator, RemoveDetector,
      UpdateLocator, UpdateDetector
  <2>4. ASSUME NEW n \in Images, OnImageData(n) \/ Start(n) \/ Inspect(n)
        PROVE  n = i /\ Answer(i)
    <3>1. n = i
      BY <2>1, <2>4 DEF OnImageData, Start, Inspect, RunMember, StartDetectors, NextFeature,
        NextGroup, Answer, TornEnds
    <3>2. ~OnImageData(i) /\ ~Start(i)
      BY DEF OnImageData, Start
    <3>3. \A m \in job[i].todo, ok \in BOOLEAN : ~RunMember(i, m, ok)
      BY <2>1 DEF RunMember, Job
    <3>4. ~StartDetectors(i)
      BY <2>1 DEF StartDetectors, Job
    <3>5. ~NextFeature(i)
      BY <2>1 DEF NextFeature, At, Job
    <3>6. ~NextGroup(i)
      <4>1. ASSUME NextGroup(i)
            PROVE  job'[i].stage = job[i].stage
        BY <2>1, <4>1 DEF NextGroup, At, Job
      <4> QED BY <4>1
    <3>7. \A answer \in {"OK", "NG"} : ~TornEnds(i, answer)
      BY DEF TornEnds
    <3> QED BY <2>4, <3>1, <3>2, <3>3, <3>4, <3>5, <3>6, <3>7 DEF Inspect
  <2>5. Answer(i)
    BY <2>3, <2>4 DEF Next
  <2> QED BY <2>5, AnswerIsEarned
<1>2. PointsInv /\ JobsInv /\ [Next]_vars => (PointsInv /\ JobsInv)'
  BY PointsStep, JobsStep
<1> QED BY PointsBegin, JobsBegin, <1>1, <1>2, PTL DEF Spec, OkIsEarned

-----------------------------------------------------------------------------
(* The AI channel: where an image may be. *)
Queued(im) == \E i \in DOMAIN images : images[i] = im
HasImage(g, im) ==
  g.objectId = im.objectId /\ \E i \in DOMAIN g.cameraIds : g.cameraIds[i] = im.cameraId
Waits(im) == im.objectId \in DOMAIN groupHash /\ HasImage(groupHash[im.objectId], im)
IsSent(im) == \E k \in DOMAIN groups : HasImage(groups[k], im)
IsAnswered(im) == \E i \in DOMAIN answers : AI!AnsweredImage(answers[i]) = im

(* A group without the same camera twice. *)
Simple(g) ==
  \A i, j \in DOMAIN g.cameraIds : g.cameraIds[i] = g.cameraIds[j] => i = j

(* Groups are filed under their packet. *)
WaitingInv ==
  /\ IsFiniteSet(DOMAIN groupHash)
  /\ \A o \in DOMAIN groupHash : groupHash[o].objectId = o /\ Simple(groupHash[o])

QueuedOnce == \A i, j \in DOMAIN images : images[i] = images[j] => i = j
SentOnce ==
  /\ \A k \in DOMAIN groups : Simple(groups[k])
  /\ \A k, l \in DOMAIN groups : \A im \in AI!Image :
       HasImage(groups[k], im) /\ HasImage(groups[l], im) => k = l
AnsweredOnce ==
  \A i, j \in DOMAIN answers :
    AI!AnsweredImage(answers[i]) = AI!AnsweredImage(answers[j]) => i = j

(* An image taken is in one of four places, others are in none. *)
InOnePlace(im) ==
  /\ im \in aiHistory.taken <=> Queued(im) \/ Waits(im) \/ IsSent(im) \/ IsAnswered(im)
  /\ Queued(im) => ~Waits(im) /\ ~IsSent(im) /\ ~IsAnswered(im)
  /\ Waits(im) => ~IsSent(im) /\ ~IsAnswered(im)
  /\ IsSent(im) => ~IsAnswered(im)
PlacedOnce == \A im \in AI!Image : InOnePlace(im)

(* As long as no camera has connected or disconnected, the cameras of the images
   taken are on line. *)
TakenOnline ==
  aiHistory.flaps = 0 => \A im \in aiHistory.taken : im.cameraId \in online


(* The instance of the channel has an instance of Cardinality of its own. *)
LEMMA AICardinality == \A S : AI!Cardinality(S) = Cardinality(S)
  BY DEF AI!Cardinality, Cardinality

(* The parts of a group that is made, grows, or is sent. *)
LEMMA GroupTypes ==
  ASSUME AI!TypeOK
  PROVE  /\ \A im \in AI!Image :
              /\ AI!NewGroup(im) \in AI!WaitingGroup
              /\ AI!NewGroup(im).objectId = im.objectId
              /\ AI!NewGroup(im).cameraIds = <<im.cameraId>>
         /\ \A im \in AI!Image : im.objectId \in DOMAIN groupHash =>
              /\ AI!Grown(im) \in AI!WaitingGroup
              /\ AI!Grown(im).objectId = groupHash[im.objectId].objectId
              /\ AI!Grown(im).cameraIds =
                   Append(groupHash[im.objectId].cameraIds, im.cameraId)
         /\ \A g \in AI!WaitingGroup :
              /\ AI!Sent(g) \in AI!Group
              /\ AI!Sent(g).objectId = g.objectId
              /\ AI!Sent(g).cameraIds = g.cameraIds
  <1>1. \A im \in AI!Image :
          /\ AI!NewGroup(im) \in AI!WaitingGroup
          /\ AI!NewGroup(im).objectId = im.objectId
          /\ AI!NewGroup(im).cameraIds = <<im.cameraId>>
    BY AIConstantsOK DEF AIConstantsOK, AI!Image, AI!NewGroup, AI!WaitingGroup
  <1>2. ASSUME NEW im \in AI!Image, im.objectId \in DOMAIN groupHash
        PROVE  /\ AI!Grown(im) \in AI!WaitingGroup
               /\ AI!Grown(im).objectId = groupHash[im.objectId].objectId
               /\ AI!Grown(im).cameraIds =
                    Append(groupHash[im.objectId].cameraIds, im.cameraId)
    <2>1. PICK g \in AI!WaitingGroup : g = groupHash[im.objectId]
      BY <1>2 DEF AI!TypeOK
    <2>2. Append(g.cameraIds, im.cameraId) \in Seq(AI!Listed)
      BY <2>1 DEF AI!WaitingGroup, AI!Image
    <2>3. AI!Grown(im) = [g EXCEPT !.cameraIds = Append(g.cameraIds, im.cameraId)]
      BY <2>1 DEF AI!Grown
    <2> QED BY <2>1, <2>2, <2>3 DEF AI!WaitingGroup
  <1>3. \A g \in AI!WaitingGroup :
          /\ AI!Sent(g) \in AI!Group
          /\ AI!Sent(g).objectId = g.objectId
          /\ AI!Sent(g).cameraIds = g.cameraIds
    BY DEF AI!Sent, AI!Group, AI!WaitingGroup
  <1> QED BY <1>1, <1>2, <1>3

(* The image that is taken from the queue. *)
LEMMA HeadTypes ==
  ASSUME AI!TypeOK, images # << >>
  PROVE  /\ Head(images) \in AI!Image /\ Head(images) = images[1]
         /\ Tail(images) \in Seq(AI!Image)
         /\ Len(images) \in Nat \ {0}
         /\ DOMAIN Tail(images) = 1..(Len(images) - 1)
         /\ \A i \in 1..(Len(images) - 1) : Tail(images)[i] = images[i + 1]
  BY DEF AI!TypeOK

LEMMA AIGroupingTypes ==
  ASSUME AI!TypeOK, AI!OnImageData
  PROVE  AI!TypeOK'
  <1> USE DEF AI!TakeImage, AI!envVars, AI!inferVars
  <1> DEFINE im == Head(images)
  <1>1. images # << >> /\ images' = Tail(images)
        /\ UNCHANGED <<online, runType, aiInference, answers, aiHistory>>
    BY DEF AI!OnImageData, AI!AddToGroupSends, AI!AddToGroupWaits, AI!SendAlone, AI!OpenGroup
  <1>2. im \in AI!Image /\ images' \in Seq(AI!Image)
    BY <1>1, HeadTypes
  <1>3. im.objectId \in Objects
    BY <1>2 DEF AI!Image
  <1>4. /\ DOMAIN groupHash' \subseteq Objects
        /\ \A o \in DOMAIN groupHash' : groupHash'[o] \in AI!WaitingGroup
        /\ groups' \in Seq(AI!Group)
    <2> HIDE DEF im
    <2>1. CASE AI!AddToGroupSends
      BY <2>1, <1>2, <1>3, GroupTypes DEF AI!AddToGroupSends, AI!Forget, AI!TypeOK, im
    <2>2. CASE AI!AddToGroupWaits
      BY <2>2, <1>2, <1>3, GroupTypes DEF AI!AddToGroupWaits, AI!TypeOK, im
    <2>3. CASE AI!SendAlone
      BY <2>3, <1>2, <1>3, GroupTypes DEF AI!SendAlone, AI!TypeOK, im
    <2>4. CASE AI!OpenGroup
      BY <2>4, <1>2, <1>3, GroupTypes DEF AI!OpenGroup, AI!TypeOK, im
    <2> QED BY <2>1, <2>2, <2>3, <2>4 DEF AI!OnImageData
  <1> QED BY <1>1, <1>2, <1>4 DEF AI!TypeOK

(* The loop of onTimeout sends each expired group once. *)
LEMMA OrdersAreBijections ==
  ASSUME NEW O, IsFiniteSet(O), NEW s \in AI!Orders(O)
  PROVE  /\ Cardinality(O) \in Nat
         /\ s \in [1..Cardinality(O) -> O]
         /\ \A o \in O : \E i \in 1..Cardinality(O) : s[i] = o
         /\ \A i, j \in 1..Cardinality(O) : s[i] = s[j] => i = j
  <1>1. Cardinality(O) \in Nat
    BY FS_CardinalityType
  <1>2. s \in [1..Cardinality(O) -> O] /\ AI!RangeOf(s) = O
    BY AICardinality DEF AI!Orders
  <1>3. \A o \in O : \E i \in 1..Cardinality(O) : s[i] = o
    BY <1>2 DEF AI!RangeOf
  <1>4. s \in Surjection(1..Cardinality(O), O)
    BY <1>2, <1>3 DEF Surjection
  <1>5. IsFiniteSet(1..Cardinality(O)) /\ Cardinality(1..Cardinality(O)) = Cardinality(O)
    BY <1>1, FS_Interval
  <1>6. s \in Injection(1..Cardinality(O), O)
    BY <1>4, <1>5, FS_SurjSameCardinalityImpliesInj
  <1>7. \A i, j \in 1..Cardinality(O) : s[i] = s[j] => i = j
    BY <1>2, <1>6 DEF Injection, IsInjective
  <1> QED BY <1>1, <1>2, <1>3, <1>7

(* Two sequences one after the other. *)
LEMMA ConcatFacts ==
  ASSUME NEW S, NEW s \in Seq(S), NEW t \in Seq(S)
  PROVE  /\ s \o t \in Seq(S)
         /\ Len(s) \in Nat /\ Len(t) \in Nat
         /\ DOMAIN s = 1..Len(s) /\ DOMAIN t = 1..Len(t)
         /\ DOMAIN (s \o t) = 1..(Len(s) + Len(t))
         /\ \A i \in 1..Len(s) : (s \o t)[i] = s[i]
         /\ \A i \in 1..Len(t) : (s \o t)[Len(s) + i] = t[i]
         /\ \A k \in 1..(Len(s) + Len(t)) :
              IF k <= Len(s) THEN k \in 1..Len(s) ELSE k - Len(s) \in 1..Len(t)
                                      /\ (s \o t)[k] = t[k - Len(s)]
  OBVIOUS

(* What onTimeout sends, and what onImageGroup answers. *)
LEMMA TimeoutSends ==
  ASSUME AI!TypeOK, WaitingInv, AI!OnTimeout
  PROVE  \E s \in AI!Orders(AI!Expired) :
           LET sent == [i \in 1..Cardinality(AI!Expired) |-> AI!Sent(groupHash[s[i]])] IN
           /\ sent \in Seq(AI!Group)
           /\ Len(sent) = Cardinality(AI!Expired)
           /\ groups' = groups \o sent
  <1>1. PICK s \in AI!Orders(AI!Expired) :
          groups' = groups \o [i \in DOMAIN s |-> AI!Sent(groupHash[s[i]])]
    BY DEF AI!OnTimeout
  <1>2. IsFiniteSet(AI!Expired) /\ AI!Expired \subseteq DOMAIN groupHash
    <2>1. AI!Expired \subseteq DOMAIN groupHash
      BY DEF AI!Expired
    <2> QED BY <2>1, FS_Subset DEF WaitingInv
  <1>3. Cardinality(AI!Expired) \in Nat /\ s \in [1..Cardinality(AI!Expired) -> AI!Expired]
    BY <1>2, OrdersAreBijections
  <1> DEFINE sent == [i \in 1..Cardinality(AI!Expired) |-> AI!Sent(groupHash[s[i]])]
  <1>4. \A i \in 1..Cardinality(AI!Expired) : AI!Sent(groupHash[s[i]]) \in AI!Group
    BY <1>2, <1>3, GroupTypes DEF AI!TypeOK
  <1>5. sent \in [1..Cardinality(AI!Expired) -> AI!Group]
    BY <1>4
  <1>6. sent \in Seq(AI!Group) /\ Len(sent) = Cardinality(AI!Expired)
    BY <1>3, <1>5
  <1>7. groups' = groups \o sent
    BY <1>1, <1>3
  <1> QED BY <1>6, <1>7

LEMMA GroupAnswers ==
  ASSUME AI!TypeOK, AI!OnImageGroup
  PROVE  \E t \in Seq(AI!Answer) :
           /\ answers' = answers \o t
           /\ Len(t) = Len(groups[1].cameraIds)
           /\ \A i \in 1..Len(t) :
                AI!AnsweredImage(t[i]) = [objectId |-> groups[1].objectId,
                                          cameraId |-> groups[1].cameraIds[i]]
  <1>1. PICK g \in AI!Group : g = Head(groups) /\ g = groups[1]
    BY DEF AI!OnImageGroup, AI!TypeOK
  <1>2. PICK v \in AI!Verdicts(g) :
          answers' = answers \o
            [i \in DOMAIN v |-> [objectId |-> g.objectId,
                                 cameraId |-> g.cameraIds[i], result |-> v[i]]]
    BY <1>1 DEF AI!OnImageGroup
  <1>3. /\ g.objectId \in Objects /\ g.cameraIds \in Seq(AI!Listed)
        /\ Len(g.cameraIds) \in Nat /\ DOMAIN g.cameraIds = 1..Len(g.cameraIds)
        /\ g.cameraIds \in [1..Len(g.cameraIds) -> AI!Listed]
    BY DEF AI!Group
  <1>4. v \in [1..Len(g.cameraIds) -> {"NG", "OK", "TIMEOUT"}]
    BY <1>2, <1>3 DEF AI!Verdicts
  <1> DEFINE t == [i \in 1..Len(g.cameraIds) |->
                     [objectId |-> g.objectId, cameraId |-> g.cameraIds[i], result |-> v[i]]]
  <1>5. t \in [1..Len(g.cameraIds) -> AI!Answer]
    BY <1>3, <1>4 DEF AI!Answer
  <1>6. t \in Seq(AI!Answer) /\ Len(t) = Len(g.cameraIds)
    BY <1>3, <1>5
  <1>7. answers' = answers \o t
    BY <1>2, <1>4
  <1>8. \A i \in 1..Len(t) :
          AI!AnsweredImage(t[i]) = [objectId |-> g.objectId, cameraId |-> g.cameraIds[i]]
    BY <1>6 DEF AI!AnsweredImage
  <1> QED BY <1>1, <1>6, <1>7, <1>8

LEMMA AITypeStep ==
  ASSUME AI!TypeOK, WaitingInv, [AI!Next]_(AI!vars)
  PROVE  AI!TypeOK'
  <1> USE DEF AI!envVars, AI!inferVars, AI!groupVars
  <1>1. CASE AI!Tick
    <2>1. \A o \in DOMAIN groupHash : groupHash'[o] \in AI!WaitingGroup
      <3> SUFFICES ASSUME NEW o \in DOMAIN groupHash
                   PROVE  groupHash'[o] \in AI!WaitingGroup
        OBVIOUS
      <3>1. PICK g \in AI!WaitingGroup : g = groupHash[o]
        BY DEF AI!TypeOK
      <3>2. groupHash'[o] = g \/ (o \notin AI!Expired
                                  /\ groupHash'[o] = [g EXCEPT !.age = g.age + 1])
        BY <1>1, <3>1 DEF AI!Tick
      <3>3. o \notin AI!Expired => g.age + 1 \in 0..MaxInterval
        BY <3>1, AIConstantsOK DEF AI!Expired, AI!WaitingGroup, AIConstantsOK
      <3> QED BY <3>1, <3>2, <3>3 DEF AI!WaitingGroup
    <2> QED BY <1>1, <2>1 DEF AI!TypeOK, AI!Tick
  <1>2. CASE AI!SetRunType
    <2>1. aiHistory' \in AI!History
      <3>1. PICK h \in AI!History : h = aiHistory
        BY DEF AI!TypeOK
      <3>2. h.switches + 1 \in 0..MaxSwitches /\ aiHistory' = [h EXCEPT !.switches = h.switches + 1]
        BY <1>2, <3>1, AIConstantsOK DEF AI!SetRunType, AI!History, AIConstantsOK
      <3> QED BY <3>2 DEF AI!History
    <2> QED BY <1>2, <2>1 DEF AI!TypeOK, AI!SetRunType
  <1>3. ASSUME NEW c \in Cameras, AI!SetOnline(c) PROVE AI!TypeOK'
    <2>1. aiHistory' \in AI!History
      <3>1. PICK h \in AI!History : h = aiHistory
        BY DEF AI!TypeOK
      <3>2. h.flaps + 1 \in 0..MaxFlaps /\ aiHistory' = [h EXCEPT !.flaps = h.flaps + 1]
        BY <1>3, <3>1, AIConstantsOK DEF AI!SetOnline, AI!History, AIConstantsOK
      <3> QED BY <3>2 DEF AI!History
    <2> QED BY <1>3, <2>1 DEF AI!TypeOK, AI!SetOnline
  <1>4. ASSUME NEW o \in Objects, NEW c \in AI!Listed, AI!SendImage(o, c) PROVE AI!TypeOK'
    <2>1. [objectId |-> o, cameraId |-> c] \in AI!Image
      BY DEF AI!Image
    <2>2. aiHistory' \in AI!History
      BY <1>4, <2>1 DEF AI!TypeOK, AI!SendImage, AI!History
    <2> QED BY <1>4, <2>1, <2>2 DEF AI!TypeOK, AI!SendImage
  <1>5. CASE AI!OnImageData
    BY <1>5, AIGroupingTypes
  <1>6. CASE AI!OnTimeout
    <2>1. groups' \in Seq(AI!Group)
      <3>1. PICK t \in Seq(AI!Group) : groups' = groups \o t
        BY <1>6, TimeoutSends
      <3> QED BY <3>1 DEF AI!TypeOK
    <2> QED BY <1>6, <2>1 DEF AI!TypeOK, AI!OnTimeout, AI!Forget
  <1>7. CASE AI!OnImageGroup
    <2>1. answers' \in Seq(AI!Answer)
      <3>1. PICK t \in Seq(AI!Answer) : answers' = answers \o t
        BY <1>7, GroupAnswers
      <3> QED BY <3>1 DEF AI!TypeOK
    <2> QED BY <1>7, <2>1 DEF AI!TypeOK, AI!OnImageGroup
  <1>8. CASE AI!AddInference
    <2>1. aiHistory' \in AI!History
      <3>1. PICK h \in AI!History : h = aiHistory
        BY DEF AI!TypeOK
      <3>2. h.operations + 1 \in 0..MaxOperations /\ aiHistory' = [h EXCEPT !.operations = h.operations + 1]
        BY <1>8, <3>1, AIConstantsOK DEF AI!AddInference, AI!History, AIConstantsOK
      <3> QED BY <3>2 DEF AI!History
    <2> QED BY <1>8, <2>1 DEF AI!TypeOK, AI!AddInference
  <1>9. CASE UNCHANGED AI!vars
    BY <1>9 DEF AI!TypeOK, AI!vars, AI!History, AI!Group, AI!WaitingGroup, AI!Image, AI!Answer
  <1> QED BY <1>1, <1>2, <1>3, <1>4, <1>5, <1>6, <1>7, <1>8, <1>9 DEF AI!Next, AI!OnImageData

(* Images are equal if their packets and cameras are. *)
LEMMA SameImage ==
  ASSUME NEW a \in AI!Image, NEW b \in AI!Image,
         a.objectId = b.objectId, a.cameraId = b.cameraId
  PROVE  a = b
  BY DEF AI!Image

(* The oldest image leaves the queue. *)
LEMMA HeadLeaves ==
  ASSUME AI!TypeOK, QueuedOnce, images # << >>, images' = Tail(images)
  PROVE  /\ Queued(Head(images)) /\ QueuedOnce'
         /\ \A im \in AI!Image : Queued(im)' <=> Queued(im) /\ im # Head(images)
  <1>1. PICK n \in Nat \ {0} : n = Len(images)
    BY HeadTypes
  <1>2. /\ DOMAIN images = 1..n /\ DOMAIN images' = 1..(n - 1)
        /\ Head(images) = images[1]
        /\ \A i \in 1..(n - 1) : images'[i] = images[i + 1]
    BY <1>1, HeadTypes DEF AI!TypeOK
  <1>3. Queued(Head(images))
    BY <1>2 DEF Queued
  <1>4. QueuedOnce'
    <2> SUFFICES ASSUME NEW i \in 1..(n - 1), NEW j \in 1..(n - 1), images'[i] = images'[j]
                 PROVE  i = j
      BY <1>2 DEF QueuedOnce
    <2>1. i + 1 \in 1..n /\ j + 1 \in 1..n /\ images[i + 1] = images[j + 1]
      BY <1>2
    <2> QED BY <2>1, <1>2 DEF QueuedOnce
  <1>5. ASSUME NEW im \in AI!Image, Queued(im)'
        PROVE  Queued(im) /\ im # Head(images)
    <2>1. PICK i \in 1..(n - 1) : images'[i] = im
      BY <1>2, <1>5 DEF Queued
    <2>2. i + 1 \in 1..n /\ images[i + 1] = im /\ i + 1 # 1 /\ 1 \in 1..n
      BY <1>2, <2>1
    <2> QED BY <2>2, <1>2 DEF Queued, QueuedOnce
  <1>6. ASSUME NEW im \in AI!Image, Queued(im), im # Head(images)
        PROVE  Queued(im)'
    <2>1. PICK i \in 1..n : images[i] = im
      BY <1>2, <1>6 DEF Queued
    <2>2. i - 1 \in 1..(n - 1) /\ images'[i - 1] = im
      <3>1. i # 1
        BY <1>2, <1>6, <2>1
      <3>2. i - 1 \in 1..(n - 1) /\ (i - 1) + 1 = i
        BY <3>1
      <3> QED BY <3>2, <1>2, <2>1
    <2> QED BY <2>2, <1>2 DEF Queued
  <1> QED BY <1>3, <1>4, <1>5, <1>6

(* What a group that grows, is new, or is sent has. *)
LEMMA GrownHas ==
  ASSUME AI!TypeOK, WaitingInv, NEW h \in AI!Image, h.objectId \in DOMAIN groupHash
  PROVE  /\ \A im \in AI!Image :
              HasImage(AI!Grown(h), im) <=> im = h \/ (im.objectId = h.objectId /\ Waits(im))
         /\ ~Waits(h) => Simple(AI!Grown(h))
  <1>1. PICK g \in AI!WaitingGroup : g = groupHash[h.objectId]
    BY DEF AI!TypeOK
  <1>2. PICK n \in Nat, grown \in AI!WaitingGroup :
          /\ n = Len(g.cameraIds) /\ DOMAIN g.cameraIds = 1..n
          /\ grown = AI!Grown(h)
          /\ DOMAIN grown.cameraIds = 1..(n + 1)
          /\ \A i \in 1..n : grown.cameraIds[i] = g.cameraIds[i]
          /\ grown.cameraIds[n + 1] = h.cameraId
    <2>1. g.cameraIds \in Seq(AI!Listed) /\ h.cameraId \in AI!Listed
      BY DEF AI!WaitingGroup, AI!Image
    <2>2. PICK n \in Nat : n = Len(g.cameraIds) /\ DOMAIN g.cameraIds = 1..n
      BY <2>1
    <2>3. PICK grown \in AI!WaitingGroup :
            grown = AI!Grown(h) /\ grown.cameraIds = Append(g.cameraIds, h.cameraId)
      BY <1>1, GroupTypes
    <2>4. /\ DOMAIN grown.cameraIds = 1..(n + 1)
          /\ \A i \in 1..n : grown.cameraIds[i] = g.cameraIds[i]
          /\ grown.cameraIds[n + 1] = h.cameraId
      BY <2>1, <2>2, <2>3
    <2> QED BY <2>2, <2>3, <2>4
  <1>3. grown.objectId = h.objectId /\ g.objectId = h.objectId
    BY <1>1, <1>2, GroupTypes DEF WaitingInv
  <1>4. ASSUME NEW im \in AI!Image
        PROVE  HasImage(grown, im) <=> im = h \/ (im.objectId = h.objectId /\ Waits(im))
    <2>1. \A i \in 1..n : i \in 1..(n + 1)
      OBVIOUS
    <2>2. n + 1 \in 1..(n + 1)
      OBVIOUS
    <2>3. ASSUME HasImage(grown, im), im # h
          PROVE  im.objectId = h.objectId /\ Waits(im)
      <3>1. im.objectId = h.objectId
        BY <1>3, <2>3 DEF HasImage
      <3>2. PICK i \in 1..(n + 1) : grown.cameraIds[i] = im.cameraId
        BY <1>2, <2>3 DEF HasImage
      <3>3. i # n + 1
        BY <1>2, <2>3, <3>1, <3>2, SameImage
      <3>4. i \in 1..n
        BY <3>3
      <3> QED BY <1>1, <1>2, <1>3, <3>1, <3>2, <3>4 DEF Waits, HasImage
    <2>4. ASSUME im.objectId = h.objectId, Waits(im)
          PROVE  HasImage(grown, im)
      <3>1. PICK i \in 1..n : g.cameraIds[i] = im.cameraId
        BY <1>1, <1>2, <2>4 DEF Waits, HasImage
      <3> QED BY <1>2, <1>3, <2>1, <2>4, <3>1 DEF HasImage
    <2>5. HasImage(grown, h)
      BY <1>2, <1>3, <2>2 DEF HasImage
    <2> QED BY <2>3, <2>4, <2>5
  <1>5. ASSUME ~Waits(h) PROVE Simple(grown)
    <2>1. \A i \in 1..n : g.cameraIds[i] # h.cameraId
      BY <1>1, <1>2, <1>3, <1>5 DEF Waits, HasImage
    <2>2. \A i, j \in 1..n : g.cameraIds[i] = g.cameraIds[j] => i = j
      BY <1>1, <1>2 DEF WaitingInv, Simple
    <2>3. \A i \in 1..(n + 1) : i \in 1..n \/ i = n + 1
      OBVIOUS
    <2> QED BY <1>2, <2>1, <2>2, <2>3 DEF Simple
  <1> QED BY <1>2, <1>4, <1>5

LEMMA NewHas ==
  ASSUME AI!TypeOK, NEW h \in AI!Image
  PROVE  /\ \A im \in AI!Image : HasImage(AI!NewGroup(h), im) <=> im = h
         /\ Simple(AI!NewGroup(h))
  <1>1. PICK g \in AI!WaitingGroup :
          g = AI!NewGroup(h) /\ g.objectId = h.objectId /\ g.cameraIds = <<h.cameraId>>
    BY GroupTypes
  <1>2. DOMAIN g.cameraIds = {1} /\ g.cameraIds[1] = h.cameraId
    BY <1>1
  <1>3. \A im \in AI!Image : HasImage(g, im) <=> im = h
    BY <1>1, <1>2, SameImage DEF HasImage
  <1>4. Simple(g)
    BY <1>2 DEF Simple
  <1> QED BY <1>1, <1>3, <1>4

LEMMA SentHas ==
  ASSUME AI!TypeOK, NEW g \in AI!WaitingGroup
  PROVE  /\ \A im : HasImage(AI!Sent(g), im) <=> HasImage(g, im)
         /\ Simple(AI!Sent(g)) <=> Simple(g)
  BY GroupTypes DEF HasImage, Simple

(* A group is sent. *)
LEMMA GroupIsSent ==
  ASSUME AI!TypeOK, SentOnce, NEW g \in AI!Group, Simple(g),
         \A im \in AI!Image : HasImage(g, im) => ~IsSent(im),
         groups' = Append(groups, g)
  PROVE  /\ SentOnce'
         /\ \A im \in AI!Image : IsSent(im)' <=> IsSent(im) \/ HasImage(g, im)
  <1>1. PICK n \in Nat : n = Len(groups)
    BY DEF AI!TypeOK
  <1>2. /\ DOMAIN groups = 1..n /\ DOMAIN groups' = 1..(n + 1)
        /\ \A k \in 1..n : groups'[k] = groups[k]
        /\ groups'[n + 1] = g
    BY <1>1 DEF AI!TypeOK
  <1>3. \A k \in 1..(n + 1) : k \in 1..n \/ k = n + 1
    OBVIOUS
  <1>4. \A k \in 1..n : k \in 1..(n + 1)
    OBVIOUS
  <1>5. n + 1 \in 1..(n + 1)
    OBVIOUS
  <1>6. \A k \in DOMAIN groups' : Simple(groups'[k])
    BY <1>2, <1>3 DEF SentOnce
  <1>7. ASSUME NEW k \in DOMAIN groups', NEW l \in DOMAIN groups', NEW im \in AI!Image,
               HasImage(groups'[k], im), HasImage(groups'[l], im)
        PROVE  k = l
    BY <1>2, <1>3, <1>7 DEF SentOnce, IsSent
  <1>8. SentOnce'
    BY <1>6, <1>7 DEF SentOnce, HasImage
  <1>9. \A im \in AI!Image : IsSent(im)' <=> IsSent(im) \/ HasImage(g, im)
    BY <1>2, <1>3, <1>4, <1>5 DEF IsSent, HasImage
  <1> QED BY <1>8, <1>9

(* Packets are forgotten. *)
LEMMA PacketsForgotten ==
  ASSUME AI!TypeOK, WaitingInv, NEW O, groupHash' = AI!Forget(O)
  PROVE  /\ WaitingInv'
         /\ \A im \in AI!Image : Waits(im)' <=> Waits(im) /\ im.objectId \notin O
  <1>1. /\ DOMAIN groupHash' = DOMAIN groupHash \ O
        /\ \A o \in DOMAIN groupHash \ O : groupHash'[o] = groupHash[o]
    BY DEF AI!Forget
  <1>2. IsFiniteSet(DOMAIN groupHash')
    BY <1>1, FS_Subset DEF WaitingInv
  <1>3. WaitingInv'
    BY <1>1, <1>2 DEF WaitingInv, Simple
  <1> QED BY <1>1, <1>3 DEF Waits, HasImage

(* The group of an image's packet is opened or grows. *)
LEMMA GroupIsKept ==
  ASSUME AI!TypeOK, WaitingInv, NEW h \in AI!Image, NEW g \in AI!WaitingGroup,
         g.objectId = h.objectId, Simple(g),
         groupHash' = [o \in DOMAIN groupHash \cup {h.objectId} |->
                         IF o = h.objectId THEN g ELSE groupHash[o]]
  PROVE  /\ WaitingInv'
         /\ \A im \in AI!Image :
              Waits(im)' <=> IF im.objectId = h.objectId THEN HasImage(g, im) ELSE Waits(im)
  <1>1. /\ DOMAIN groupHash' = DOMAIN groupHash \cup {h.objectId}
        /\ groupHash'[h.objectId] = g
        /\ \A o \in DOMAIN groupHash : o # h.objectId => groupHash'[o] = groupHash[o]
    OBVIOUS
  <1>2. IsFiniteSet(DOMAIN groupHash')
    BY <1>1, FS_AddElement DEF WaitingInv
  <1>3. WaitingInv'
    BY <1>1, <1>2 DEF WaitingInv, Simple
  <1> QED BY <1>1, <1>3 DEF Waits, HasImage

(* The groups that have expired are sent. *)
LEMMA ExpiredAreSent ==
  ASSUME AI!TypeOK, WaitingInv, SentOnce, PlacedOnce, AI!OnTimeout
  PROVE  /\ SentOnce'
         /\ \A im \in AI!Image :
              IsSent(im)' <=> IsSent(im) \/ (Waits(im) /\ im.objectId \in AI!Expired)
  <1> DEFINE E == AI!Expired
  <1>1. IsFiniteSet(E) /\ E \subseteq DOMAIN groupHash
    <2>1. E \subseteq DOMAIN groupHash
      BY DEF AI!Expired
    <2> QED BY <2>1, FS_Subset DEF WaitingInv
  <1>2. PICK s \in AI!Orders(E) :
          LET sent == [i \in 1..Cardinality(E) |-> AI!Sent(groupHash[s[i]])] IN
          /\ sent \in Seq(AI!Group)
          /\ Len(sent) = Cardinality(E)
          /\ groups' = groups \o sent
    BY TimeoutSends
  <1> HIDE DEF E
  <1>3. PICK m \in Nat : m = Cardinality(E)
    BY <1>1, OrdersAreBijections
  <1>4. PICK n \in Nat : n = Len(groups)
    BY DEF AI!TypeOK
  <1>5. /\ s \in [1..m -> E]
        /\ \A o \in E : \E i \in 1..m : s[i] = o
        /\ \A i, j \in 1..m : s[i] = s[j] => i = j
    BY <1>1, <1>3, OrdersAreBijections
  <1>6. /\ DOMAIN groups = 1..n /\ DOMAIN groups' = 1..(n + m)
        /\ \A k \in 1..n : groups'[k] = groups[k]
        /\ \A i \in 1..m : groups'[n + i] = AI!Sent(groupHash[s[i]])
    <2>1. PICK sent \in Seq(AI!Group) :
            /\ sent = [i \in 1..m |-> AI!Sent(groupHash[s[i]])]
            /\ Len(sent) = m /\ groups' = groups \o sent
      BY <1>2, <1>3
    <2>2. /\ DOMAIN groups = 1..n /\ DOMAIN groups' = 1..(n + m)
          /\ \A k \in 1..n : groups'[k] = groups[k]
          /\ \A i \in 1..m : groups'[n + i] = sent[i]
      BY <1>4, <2>1, ConcatFacts DEF AI!TypeOK
    <2> QED BY <2>1, <2>2
  <1>7. \A k \in 1..(n + m) : k \in 1..n \/ \E i \in 1..m : k = n + i
    <2> SUFFICES ASSUME NEW k \in 1..(n + m), k \notin 1..n PROVE \E i \in 1..m : k = n + i
      OBVIOUS
    <2>1. k - n \in 1..m /\ k = n + (k - n)
      OBVIOUS
    <2> QED BY <2>1
  <1>8. /\ \A k \in 1..n : k \in 1..(n + m)
        /\ \A i \in 1..m : n + i \in 1..(n + m)
    OBVIOUS
  <1>9. \A i \in 1..m :
          /\ s[i] \in E /\ s[i] \in DOMAIN groupHash
          /\ groupHash[s[i]] \in AI!WaitingGroup /\ groupHash[s[i]].objectId = s[i]
          /\ Simple(groupHash[s[i]])
    BY <1>1, <1>5 DEF AI!TypeOK, WaitingInv
  <1>10. \A i \in 1..m : \A im \in AI!Image :
           HasImage(groups'[n + i], im) <=> im.objectId = s[i] /\ Waits(im)
    <2> SUFFICES ASSUME NEW i \in 1..m, NEW im \in AI!Image
                 PROVE  HasImage(groups'[n + i], im) <=> im.objectId = s[i] /\ Waits(im)
      OBVIOUS
    <2>1. HasImage(groups'[n + i], im) <=> HasImage(groupHash[s[i]], im)
      BY <1>6, <1>9, SentHas
    <2>2. HasImage(groupHash[s[i]], im) <=> im.objectId = s[i] /\ Waits(im)
      BY <1>9 DEF HasImage, Waits
    <2> QED BY <2>1, <2>2
  <1>11. \A k \in 1..(n + m) : Simple(groups'[k])
    <2>1. \A k \in 1..n : Simple(groups'[k])
      BY <1>6 DEF SentOnce
    <2>2. \A i \in 1..m : Simple(groups'[n + i])
      <3> SUFFICES ASSUME NEW i \in 1..m PROVE Simple(groups'[n + i])
        OBVIOUS
      <3>1. PICK g \in AI!WaitingGroup : g = groupHash[s[i]] /\ Simple(g)
        BY <1>9
      <3> QED BY <3>1, <1>6, SentHas
    <2> QED BY <1>7, <2>1, <2>2
  <1>12. ASSUME NEW k \in 1..(n + m), NEW l \in 1..(n + m), NEW im \in AI!Image,
                HasImage(groups'[k], im), HasImage(groups'[l], im)
         PROVE  k = l
    <2>1. \A a \in 1..n : \A i \in 1..m :
            ~(HasImage(groups'[a], im) /\ HasImage(groups'[n + i], im))
      BY <1>6, <1>10 DEF IsSent, PlacedOnce, InOnePlace
    <2>2. ASSUME NEW i \in 1..m, NEW j \in 1..m,
                 HasImage(groups'[n + i], im), HasImage(groups'[n + j], im)
          PROVE  i = j
      <3>1. im.objectId = s[i] /\ im.objectId = s[j]
        BY <1>10, <2>2
      <3> QED BY <3>1, <1>5
    <2>3. CASE k \in 1..n /\ l \in 1..n
      BY <1>6, <1>12, <2>3 DEF SentOnce
    <2> QED BY <1>7, <1>12, <2>1, <2>2, <2>3
  <1>13. SentOnce'
    BY <1>6, <1>11, <1>12 DEF SentOnce, HasImage
  <1>14. \A im \in AI!Image :
           IsSent(im)' <=> IsSent(im) \/ (Waits(im) /\ im.objectId \in E)
    <2> SUFFICES ASSUME NEW im \in AI!Image
                 PROVE  IsSent(im)' <=> IsSent(im) \/ (Waits(im) /\ im.objectId \in E)
      OBVIOUS
    <2>1. IsSent(im)' <=> \E k \in 1..(n + m) : HasImage(groups'[k], im)
      BY <1>6 DEF IsSent, HasImage
    <2>2. IsSent(im) <=> \E k \in 1..n : HasImage(groups'[k], im)
      BY <1>6 DEF IsSent
    <2>3. (Waits(im) /\ im.objectId \in E) <=> \E i \in 1..m : HasImage(groups'[n + i], im)
      BY <1>5, <1>9, <1>10
    <2> QED BY <2>1, <2>2, <2>3, <1>7, <1>8
  <1> QED BY <1>13, <1>14 DEF E

(* A group is answered. *)
LEMMA GroupLeaves ==
  ASSUME AI!TypeOK, SentOnce, AI!OnImageGroup
  PROVE  /\ SentOnce'
         /\ \A im \in AI!Image : HasImage(groups[1], im) => IsSent(im)
         /\ \A im \in AI!Image : IsSent(im)' <=> IsSent(im) /\ ~HasImage(groups[1], im)
  <1>1. PICK n \in Nat \ {0} : n = Len(groups)
    BY DEF AI!OnImageGroup, AI!TypeOK
  <1>2. /\ DOMAIN groups = 1..n /\ DOMAIN groups' = 1..(n - 1)
        /\ \A k \in 1..(n - 1) : groups'[k] = groups[k + 1]
    BY <1>1 DEF AI!OnImageGroup, AI!TypeOK
  <1>3. /\ \A k \in 1..(n - 1) : k + 1 \in 1..n /\ k + 1 # 1
        /\ \A k \in 1..n : k = 1 \/ (k - 1 \in 1..(n - 1) /\ (k - 1) + 1 = k)
        /\ 1 \in 1..n
    OBVIOUS
  <1>4. \A k \in 1..(n - 1) : Simple(groups'[k])
    BY <1>2, <1>3 DEF SentOnce
  <1>5. ASSUME NEW k \in 1..(n - 1), NEW l \in 1..(n - 1), NEW im \in AI!Image,
               HasImage(groups'[k], im), HasImage(groups'[l], im)
        PROVE  k = l
    <2>1. k + 1 \in DOMAIN groups /\ l + 1 \in DOMAIN groups
          /\ HasImage(groups[k + 1], im) /\ HasImage(groups[l + 1], im)
      BY <1>2, <1>3, <1>5
    <2>2. k + 1 = l + 1
      BY <2>1 DEF SentOnce
    <2> QED BY <2>2
  <1>6. SentOnce'
    BY <1>2, <1>4, <1>5 DEF SentOnce
  <1>7. \A im \in AI!Image : HasImage(groups[1], im) => IsSent(im)
    BY <1>2, <1>3 DEF IsSent
  <1>8. ASSUME NEW im \in AI!Image
        PROVE  IsSent(im)' <=> IsSent(im) /\ ~HasImage(groups[1], im)
    <2>1. IsSent(im)' <=> \E k \in 1..(n - 1) : HasImage(groups[k + 1], im)
      BY <1>2 DEF IsSent
    <2>2. ASSUME NEW k \in 1..(n - 1), HasImage(groups[k + 1], im)
          PROVE  IsSent(im) /\ ~HasImage(groups[1], im)
      <3>1. k + 1 \in DOMAIN groups /\ 1 \in DOMAIN groups /\ k + 1 # 1
        BY <1>2, <1>3
      <3> QED BY <3>1, <2>2 DEF SentOnce, IsSent
    <2>3. ASSUME IsSent(im), ~HasImage(groups[1], im)
          PROVE  \E k \in 1..(n - 1) : HasImage(groups[k + 1], im)
      <3>1. PICK k \in 1..n : HasImage(groups[k], im)
        BY <1>2, <2>3 DEF IsSent
      <3>2. k - 1 \in 1..(n - 1) /\ (k - 1) + 1 = k
        BY <1>3, <2>3, <3>1
      <3> QED BY <3>1, <3>2
    <2> QED BY <2>1, <2>2, <2>3
  <1> QED BY <1>6, <1>7, <1>8

LEMMA GroupIsAnswered ==
  ASSUME AI!TypeOK, SentOnce, AnsweredOnce, PlacedOnce, AI!OnImageGroup
  PROVE  /\ AnsweredOnce'
         /\ \A im \in AI!Image :
              IsAnswered(im)' <=> IsAnswered(im) \/ HasImage(groups[1], im)
  <1>1. PICK g \in AI!Group : g = groups[1] /\ Simple(g)
    BY DEF AI!TypeOK, AI!OnImageGroup, SentOnce
  <1>2. PICK t \in Seq(AI!Answer) :
          /\ answers' = answers \o t
          /\ Len(t) = Len(g.cameraIds)
          /\ \A i \in 1..Len(t) :
               AI!AnsweredImage(t[i]) = [objectId |-> g.objectId, cameraId |-> g.cameraIds[i]]
    BY <1>1, GroupAnswers
  <1>3. PICK n \in Nat, m \in Nat : n = Len(answers) /\ m = Len(t)
    BY DEF AI!TypeOK
  <1>4. /\ DOMAIN answers = 1..n /\ DOMAIN answers' = 1..(n + m)
        /\ \A k \in 1..n : answers'[k] = answers[k]
        /\ \A i \in 1..m : answers'[n + i] = t[i]
    <2>1. answers \in Seq(AI!Answer)
      BY DEF AI!TypeOK
    <2>2. /\ DOMAIN answers = 1..n /\ DOMAIN (answers \o t) = 1..(n + m)
          /\ \A k \in 1..n : (answers \o t)[k] = answers[k]
          /\ \A i \in 1..m : (answers \o t)[n + i] = t[i]
      BY <1>3, <2>1, ConcatFacts
    <2> QED BY <1>2, <2>2
  <1>5. /\ DOMAIN g.cameraIds = 1..m
        /\ \A i \in 1..m : g.cameraIds[i] \in AI!Listed
        /\ g.objectId \in Objects
    BY <1>2, <1>3 DEF AI!Group
  <1>6. /\ \A k \in 1..(n + m) : k \in 1..n \/ \E i \in 1..m : k = n + i
        /\ \A k \in 1..n : k \in 1..(n + m)
        /\ \A i \in 1..m : n + i \in 1..(n + m)
    <2> SUFFICES ASSUME NEW k \in 1..(n + m), k \notin 1..n PROVE \E i \in 1..m : k = n + i
      OBVIOUS
    <2>1. k - n \in 1..m /\ k = n + (k - n)
      OBVIOUS
    <2> QED BY <2>1
  <1> DEFINE Im(k) == AI!AnsweredImage(answers'[k])
  <1>7. \A k \in 1..n : Im(k) = AI!AnsweredImage(answers[k]) /\ Im(k) \in AI!Image
    <2>1. \A k \in 1..n : answers[k] \in AI!Answer
      BY <1>3 DEF AI!TypeOK
    <2> QED BY <1>4, <2>1 DEF AI!AnsweredImage, AI!Answer, AI!Image
  <1>8. \A i \in 1..m : /\ Im(n + i) \in AI!Image
                        /\ Im(n + i).objectId = g.objectId
                        /\ Im(n + i).cameraId = g.cameraIds[i]
    <2> SUFFICES ASSUME NEW i \in 1..m
                 PROVE  /\ Im(n + i) \in AI!Image
                        /\ Im(n + i).objectId = g.objectId
                        /\ Im(n + i).cameraId = g.cameraIds[i]
      OBVIOUS
    <2>1. Im(n + i) = [objectId |-> g.objectId, cameraId |-> g.cameraIds[i]]
      BY <1>2, <1>3, <1>4
    <2> HIDE DEF Im
    <2> QED BY <1>5, <2>1 DEF AI!Image
  <1> HIDE DEF Im
  <1>9. \A i \in 1..m : HasImage(g, Im(n + i))
    BY <1>5, <1>8 DEF HasImage
  <1>10. \A im \in AI!Image : HasImage(g, im) => \E i \in 1..m : Im(n + i) = im
    <2> SUFFICES ASSUME NEW im \in AI!Image, HasImage(g, im)
                 PROVE  \E i \in 1..m : Im(n + i) = im
      OBVIOUS
    <2>1. PICK i \in 1..m : g.cameraIds[i] = im.cameraId /\ g.objectId = im.objectId
      BY <1>5 DEF HasImage
    <2>2. Im(n + i).objectId = im.objectId /\ Im(n + i).cameraId = im.cameraId
      BY <1>8, <2>1
    <2> QED BY <1>8, <2>2, SameImage
  <1>11. \A im \in AI!Image : HasImage(g, im) => ~IsAnswered(im)
    BY <1>1, GroupLeaves DEF PlacedOnce, InOnePlace
  <1>12. \A k \in 1..n : IsAnswered(Im(k))
    BY <1>4, <1>7 DEF IsAnswered, Im
  <1>13. ASSUME NEW k \in 1..(n + m), NEW l \in 1..(n + m), Im(k) = Im(l)
         PROVE  k = l
    <2>1. \A a \in 1..n : \A i \in 1..m : Im(a) # Im(n + i)
      BY <1>8, <1>9, <1>11, <1>12
    <2>2. ASSUME NEW i \in 1..m, NEW j \in 1..m, Im(n + i) = Im(n + j)
          PROVE  i = j
      <3>1. g.cameraIds[i] = g.cameraIds[j]
        BY <1>8, <2>2
      <3> QED BY <3>1, <1>1, <1>5 DEF Simple
    <2>3. \A a, b \in 1..n : Im(a) = Im(b) => a = b
      BY <1>4, <1>7 DEF AnsweredOnce
    <2> QED BY <1>6, <1>13, <2>1, <2>2, <2>3
  <1>14. AnsweredOnce'
    BY <1>4, <1>13 DEF AnsweredOnce, AI!AnsweredImage, Im
  <1>15. ASSUME NEW im \in AI!Image
         PROVE  IsAnswered(im)' <=> IsAnswered(im) \/ HasImage(g, im)
    <2>1. IsAnswered(im)' <=> \E k \in 1..(n + m) : Im(k) = im
      BY <1>4 DEF IsAnswered, AI!AnsweredImage, Im
    <2>2. IsAnswered(im) <=> \E k \in 1..n : Im(k) = im
      BY <1>4, <1>7 DEF IsAnswered
    <2>3. HasImage(g, im) <=> \E i \in 1..m : Im(n + i) = im
      BY <1>9, <1>10
    <2> QED BY <2>1, <2>2, <2>3, <1>6
  <1> QED BY <1>1, <1>14, <1>15

(* An image is taken. *)
LEMMA ImageIsQueued ==
  ASSUME AI!TypeOK, QueuedOnce, NEW h \in AI!Image, ~Queued(h),
         images' = Append(images, h)
  PROVE  /\ QueuedOnce'
         /\ \A im \in AI!Image : Queued(im)' <=> Queued(im) \/ im = h
  <1>1. PICK n \in Nat : n = Len(images)
    BY DEF AI!TypeOK
  <1>2. /\ DOMAIN images = 1..n /\ DOMAIN images' = 1..(n + 1)
        /\ \A k \in 1..n : images'[k] = images[k]
        /\ images'[n + 1] = h
    BY <1>1 DEF AI!TypeOK
  <1>3. /\ \A k \in 1..(n + 1) : k \in 1..n \/ k = n + 1
        /\ \A k \in 1..n : k \in 1..(n + 1)
        /\ n + 1 \in 1..(n + 1)
    OBVIOUS
  <1>4. QueuedOnce'
    BY <1>2, <1>3 DEF QueuedOnce, Queued
  <1> QED BY <1>2, <1>3, <1>4 DEF Queued

(* What a place has, it keeps while nothing changes there. *)
LEMMA AnswersStay ==
  ASSUME AI!TypeOK, UNCHANGED answers
  PROVE  /\ \A im \in AI!Image : IsAnswered(im)' <=> IsAnswered(im)
         /\ AnsweredOnce => AnsweredOnce'
  BY DEF IsAnswered, AnsweredOnce, AI!AnsweredImage

LEMMA GroupsStay ==
  ASSUME AI!TypeOK, UNCHANGED groups
  PROVE  /\ \A im \in AI!Image : IsSent(im)' <=> IsSent(im)
         /\ SentOnce => SentOnce'
  BY DEF IsSent, SentOnce, HasImage, Simple

LEMMA WaitingStay ==
  ASSUME AI!TypeOK, UNCHANGED groupHash
  PROVE  /\ \A im \in AI!Image : Waits(im)' <=> Waits(im)
         /\ WaitingInv => WaitingInv'
  BY DEF Waits, WaitingInv, HasImage, Simple

LEMMA ImagesStay ==
  ASSUME AI!TypeOK, UNCHANGED images
  PROVE  /\ \A im \in AI!Image : Queued(im)' <=> Queued(im)
         /\ QueuedOnce => QueuedOnce'
  BY DEF Queued, QueuedOnce

PlaceInv == WaitingInv /\ QueuedOnce /\ SentOnce /\ AnsweredOnce /\ PlacedOnce

(* onImageData moves one image, and the others of its packet if it is complete. *)
LEMMA GroupingKeepsPlaces ==
  ASSUME AI!TypeOK, PlaceInv, AI!OnImageData
  PROVE  PlaceInv'
  <1> USE DEF PlaceInv
  <1>1. images # << >> /\ images' = Tail(images) /\ UNCHANGED <<answers, aiHistory>>
    BY DEF AI!OnImageData, AI!AddToGroupSends, AI!AddToGroupWaits, AI!SendAlone,
           AI!OpenGroup, AI!TakeImage, AI!inferVars
  <1>2. PICK h \in AI!Image : h = Head(images)
    BY <1>1, HeadTypes
  <1>3. h.objectId \in Objects
    BY DEF AI!Image
  <1>4. /\ Queued(h) /\ QueuedOnce'
        /\ \A im \in AI!Image : Queued(im)' <=> Queued(im) /\ im # h
    BY <1>1, <1>2, HeadLeaves
  <1>5. ~Waits(h) /\ ~IsSent(h) /\ ~IsAnswered(h)
    BY <1>4 DEF PlacedOnce, InOnePlace
  <1>6. /\ \A im \in AI!Image : IsAnswered(im)' <=> IsAnswered(im)
        /\ AnsweredOnce'
    BY <1>1, AnswersStay
  <1>7. CASE AI!AddToGroupSends
    <2>1. /\ h.objectId \in DOMAIN groupHash
          /\ groups' = Append(groups, AI!Sent(AI!Grown(h)))
          /\ groupHash' = AI!Forget({h.objectId})
      BY <1>2, <1>7 DEF AI!AddToGroupSends
    <2>2. PICK g \in AI!WaitingGroup : g = AI!Grown(h)
      BY <2>1, GroupTypes
    <2>3. PICK sent \in AI!Group : sent = AI!Sent(g)
      BY <2>2, GroupTypes
    <2>4. /\ \A im \in AI!Image :
               HasImage(sent, im) <=> im = h \/ (im.objectId = h.objectId /\ Waits(im))
          /\ Simple(sent)
      BY <2>1, <2>2, <2>3, <1>5, GrownHas, SentHas
    <2>5. \A im \in AI!Image : HasImage(sent, im) => ~IsSent(im)
      BY <2>4, <1>5 DEF PlacedOnce, InOnePlace
    <2>6. /\ SentOnce'
          /\ \A im \in AI!Image : IsSent(im)' <=> IsSent(im) \/ HasImage(sent, im)
      BY <2>1, <2>2, <2>3, <2>4, <2>5, GroupIsSent
    <2>7. /\ WaitingInv'
          /\ \A im \in AI!Image : Waits(im)' <=> Waits(im) /\ im.objectId # h.objectId
      BY <2>1, PacketsForgotten
    <2>8. PlacedOnce'
      <3> SUFFICES ASSUME NEW im \in AI!Image PROVE InOnePlace(im)'
        BY DEF PlacedOnce, AI!Image
      <3>1. InOnePlace(im)
        BY DEF PlacedOnce
      <3> QED BY <3>1, <1>1, <1>4, <1>5, <1>6, <2>4, <2>6, <2>7 DEF InOnePlace
    <2> QED BY <1>4, <1>6, <2>6, <2>7, <2>8
  <1>8. CASE AI!AddToGroupWaits
    <2>1. /\ h.objectId \in DOMAIN groupHash
          /\ groupHash' = [groupHash EXCEPT ![h.objectId] = AI!Grown(h)]
          /\ groups' = groups
      BY <1>2, <1>8 DEF AI!AddToGroupWaits
    <2>2. PICK g \in AI!WaitingGroup : g = AI!Grown(h) /\ g.objectId = h.objectId
      BY <2>1, GroupTypes DEF WaitingInv
    <2>3. groupHash' = [o \in DOMAIN groupHash \cup {h.objectId} |->
                          IF o = h.objectId THEN g ELSE groupHash[o]]
      BY <2>1, <2>2
    <2>4. /\ \A im \in AI!Image :
               HasImage(g, im) <=> im = h \/ (im.objectId = h.objectId /\ Waits(im))
          /\ Simple(g)
      BY <2>1, <2>2, <1>5, GrownHas
    <2>5. /\ WaitingInv'
          /\ \A im \in AI!Image :
               Waits(im)' <=> IF im.objectId = h.objectId THEN HasImage(g, im) ELSE Waits(im)
      BY <2>2, <2>3, <2>4, GroupIsKept
    <2>6. /\ SentOnce'
          /\ \A im \in AI!Image : IsSent(im)' <=> IsSent(im)
      BY <2>1, GroupsStay
    <2>7. PlacedOnce'
      <3> SUFFICES ASSUME NEW im \in AI!Image PROVE InOnePlace(im)'
        BY DEF PlacedOnce, AI!Image
      <3>1. InOnePlace(im)
        BY DEF PlacedOnce
      <3> QED BY <3>1, <1>1, <1>4, <1>5, <1>6, <2>4, <2>5, <2>6 DEF InOnePlace
    <2> QED BY <1>4, <1>6, <2>5, <2>6, <2>7
  <1>9. CASE AI!SendAlone
    <2>1. groups' = Append(groups, AI!Sent(AI!NewGroup(h))) /\ groupHash' = groupHash
      BY <1>2, <1>9 DEF AI!SendAlone
    <2>2. PICK g \in AI!WaitingGroup : g = AI!NewGroup(h)
      BY GroupTypes
    <2>3. PICK sent \in AI!Group : sent = AI!Sent(g)
      BY <2>2, GroupTypes
    <2>4. (\A im \in AI!Image : HasImage(sent, im) <=> im = h) /\ Simple(sent)
      BY <2>2, <2>3, NewHas, SentHas
    <2>5. /\ SentOnce'
          /\ \A im \in AI!Image : IsSent(im)' <=> IsSent(im) \/ HasImage(sent, im)
      BY <2>1, <2>2, <2>3, <2>4, <1>5, GroupIsSent
    <2>6. WaitingInv' /\ \A im \in AI!Image : Waits(im)' <=> Waits(im)
      BY <2>1, WaitingStay
    <2>7. PlacedOnce'
      <3> SUFFICES ASSUME NEW im \in AI!Image PROVE InOnePlace(im)'
        BY DEF PlacedOnce, AI!Image
      <3>1. InOnePlace(im)
        BY DEF PlacedOnce
      <3> QED BY <3>1, <1>1, <1>4, <1>5, <1>6, <2>4, <2>5, <2>6 DEF InOnePlace
    <2> QED BY <1>4, <1>6, <2>5, <2>6, <2>7
  <1>10. CASE AI!OpenGroup
    <2>1. /\ h.objectId \notin DOMAIN groupHash /\ groups' = groups
          /\ groupHash' = [o \in DOMAIN groupHash \cup {h.objectId} |->
                             IF o = h.objectId THEN AI!NewGroup(h) ELSE groupHash[o]]
      BY <1>2, <1>10 DEF AI!OpenGroup
    <2>2. PICK g \in AI!WaitingGroup : g = AI!NewGroup(h) /\ g.objectId = h.objectId
      BY GroupTypes
    <2>3. (\A im \in AI!Image : HasImage(g, im) <=> im = h) /\ Simple(g)
      BY <2>2, NewHas
    <2>4. /\ WaitingInv'
          /\ \A im \in AI!Image :
               Waits(im)' <=> IF im.objectId = h.objectId THEN HasImage(g, im) ELSE Waits(im)
      BY <2>1, <2>2, <2>3, GroupIsKept
    <2>5. \A im \in AI!Image : im.objectId = h.objectId => ~Waits(im)
      BY <2>1 DEF Waits
    <2>6. SentOnce' /\ \A im \in AI!Image : IsSent(im)' <=> IsSent(im)
      BY <2>1, GroupsStay
    <2>7. PlacedOnce'
      <3> SUFFICES ASSUME NEW im \in AI!Image PROVE InOnePlace(im)'
        BY DEF PlacedOnce, AI!Image
      <3>1. InOnePlace(im)
        BY DEF PlacedOnce
      <3> QED BY <3>1, <1>1, <1>4, <1>5, <1>6, <2>3, <2>4, <2>5, <2>6 DEF InOnePlace
    <2> QED BY <1>4, <1>6, <2>4, <2>6, <2>7
  <1> QED BY <1>7, <1>8, <1>9, <1>10 DEF AI!OnImageData

LEMMA PlacesStep ==
  ASSUME AI!TypeOK, PlaceInv, [AI!Next]_(AI!vars)
  PROVE  PlaceInv'
  <1> USE DEF PlaceInv, AI!envVars, AI!groupVars, AI!inferVars
  <1>1. CASE AI!Tick
    <2>1. /\ DOMAIN groupHash' = DOMAIN groupHash
          /\ \A o \in DOMAIN groupHash :
               /\ groupHash'[o].objectId = groupHash[o].objectId
               /\ groupHash'[o].cameraIds = groupHash[o].cameraIds
      BY <1>1 DEF AI!Tick, AI!TypeOK, AI!WaitingGroup
    <2>2. WaitingInv' /\ \A im \in AI!Image : Waits(im)' <=> Waits(im)
      BY <2>1 DEF WaitingInv, Waits, HasImage, Simple
    <2>3. UNCHANGED <<images, groups, answers, aiHistory>>
      BY <1>1 DEF AI!Tick
    <2>4. PlacedOnce'
      <3> SUFFICES ASSUME NEW im \in AI!Image PROVE InOnePlace(im)'
        BY DEF PlacedOnce, AI!Image
      <3>1. InOnePlace(im)
        BY DEF PlacedOnce
      <3> QED BY <3>1, <2>2, <2>3, ImagesStay, GroupsStay, AnswersStay DEF InOnePlace
    <2> QED BY <2>2, <2>3, <2>4, ImagesStay, GroupsStay, AnswersStay
  <1>2. ASSUME UNCHANGED <<images, groupHash, groups, answers, aiHistory.taken>>
        PROVE  PlaceInv'
    <2>1. PlacedOnce'
      <3> SUFFICES ASSUME NEW im \in AI!Image PROVE InOnePlace(im)'
        BY DEF PlacedOnce, AI!Image
      <3>1. InOnePlace(im)
        BY DEF PlacedOnce
      <3> QED BY <3>1, <1>2, ImagesStay, WaitingStay, GroupsStay, AnswersStay DEF InOnePlace
    <2> QED BY <1>2, <2>1, ImagesStay, WaitingStay, GroupsStay, AnswersStay
  <1>3. CASE AI!SetRunType \/ (\E c \in Cameras : AI!SetOnline(c)) \/ AI!AddInference
             \/ UNCHANGED AI!vars
    <2>1. UNCHANGED aiHistory.taken
      BY <1>3 DEF AI!SetRunType, AI!SetOnline, AI!AddInference, AI!vars, AI!TypeOK, AI!History
    <2> QED BY <1>2, <1>3, <2>1 DEF AI!SetRunType, AI!SetOnline, AI!AddInference, AI!vars
  <1>4. ASSUME NEW o \in Objects, NEW c \in AI!Listed, AI!SendImage(o, c) PROVE PlaceInv'
    <2>1. PICK h \in AI!Image : h = [objectId |-> o, cameraId |-> c]
      BY DEF AI!Image
    <2>2. /\ h \notin aiHistory.taken /\ images' = Append(images, h)
          /\ aiHistory'.taken = aiHistory.taken \cup {h}
          /\ UNCHANGED <<groupHash, groups, answers>>
      BY <1>4, <2>1 DEF AI!SendImage, AI!TypeOK, AI!History
    <2>3. ~Queued(h) /\ ~Waits(h) /\ ~IsSent(h) /\ ~IsAnswered(h)
      BY <2>2 DEF PlacedOnce, InOnePlace
    <2>4. QueuedOnce' /\ \A im \in AI!Image : Queued(im)' <=> Queued(im) \/ im = h
      BY <2>2, <2>3, ImageIsQueued
    <2>5. PlacedOnce'
      <3> SUFFICES ASSUME NEW im \in AI!Image PROVE InOnePlace(im)'
        BY DEF PlacedOnce, AI!Image
      <3>1. InOnePlace(im)
        BY DEF PlacedOnce
      <3> QED BY <3>1, <2>2, <2>3, <2>4, WaitingStay, GroupsStay, AnswersStay DEF InOnePlace
    <2> QED BY <2>2, <2>4, <2>5, WaitingStay, GroupsStay, AnswersStay
  <1>5. CASE AI!OnImageData
    BY <1>5, GroupingKeepsPlaces
  <1>6. CASE AI!OnTimeout
    <2>1. UNCHANGED <<images, answers, aiHistory>> /\ groupHash' = AI!Forget(AI!Expired)
      BY <1>6 DEF AI!OnTimeout
    <2>2. /\ SentOnce'
          /\ \A im \in AI!Image :
               IsSent(im)' <=> IsSent(im) \/ (Waits(im) /\ im.objectId \in AI!Expired)
      BY <1>6, ExpiredAreSent
    <2>3. /\ WaitingInv'
          /\ \A im \in AI!Image : Waits(im)' <=> Waits(im) /\ im.objectId \notin AI!Expired
      BY <2>1, PacketsForgotten
    <2>4. PlacedOnce'
      <3> SUFFICES ASSUME NEW im \in AI!Image PROVE InOnePlace(im)'
        BY DEF PlacedOnce, AI!Image
      <3>1. InOnePlace(im)
        BY DEF PlacedOnce
      <3> QED BY <3>1, <2>1, <2>2, <2>3, ImagesStay, AnswersStay DEF InOnePlace
    <2> QED BY <2>1, <2>2, <2>3, <2>4, ImagesStay, AnswersStay
  <1>7. CASE AI!OnImageGroup
    <2>1. UNCHANGED <<images, groupHash, aiHistory>>
      BY <1>7 DEF AI!OnImageGroup
    <2>2. /\ SentOnce'
          /\ \A im \in AI!Image : HasImage(groups[1], im) => IsSent(im)
          /\ \A im \in AI!Image : IsSent(im)' <=> IsSent(im) /\ ~HasImage(groups[1], im)
      BY <1>7, GroupLeaves
    <2>3. /\ AnsweredOnce'
          /\ \A im \in AI!Image : IsAnswered(im)' <=> IsAnswered(im) \/ HasImage(groups[1], im)
      BY <1>7, GroupIsAnswered
    <2>4. PlacedOnce'
      <3> SUFFICES ASSUME NEW im \in AI!Image PROVE InOnePlace(im)'
        BY DEF PlacedOnce, AI!Image
      <3>1. InOnePlace(im)
        BY DEF PlacedOnce
      <3> QED BY <3>1, <2>1, <2>2, <2>3, ImagesStay, WaitingStay DEF InOnePlace
    <2> QED BY <2>1, <2>2, <2>3, <2>4, ImagesStay, WaitingStay
  <1> QED BY <1>1, <1>3, <1>4, <1>5, <1>6, <1>7 DEF AI!Next, AI!OnImageData

LEMMA TakenOnlineStep ==
  ASSUME AI!TypeOK, TakenOnline, [AI!Next]_(AI!vars)
  PROVE  TakenOnline'
  <1> USE DEF AI!envVars, AI!groupVars, AI!inferVars, AI!TakeImage
  <1>1. ASSUME NEW c \in Cameras, AI!SetOnline(c) PROVE TakenOnline'
    <2>1. aiHistory'.flaps = aiHistory.flaps + 1 /\ aiHistory.flaps \in Nat
      BY <1>1, AIConstantsOK DEF AI!SetOnline, AI!TypeOK, AI!History, AIConstantsOK
    <2> QED BY <2>1 DEF TakenOnline
  <1>2. ASSUME NEW o \in Objects, NEW c \in AI!Listed, AI!SendImage(o, c)
        PROVE  TakenOnline'
    <2>1. PICK h : h = [objectId |-> o, cameraId |-> c]
      OBVIOUS
    <2>2. /\ c \in online /\ online' = online
          /\ aiHistory'.flaps = aiHistory.flaps
          /\ aiHistory'.taken = aiHistory.taken \cup {h}
      BY <1>2, <2>1 DEF AI!SendImage, AI!TypeOK, AI!History
    <2>3. h.cameraId = c
      BY <2>1
    <2> QED BY <2>2, <2>3 DEF TakenOnline
  <1>3. ASSUME UNCHANGED <<online, aiHistory.flaps, aiHistory.taken>> PROVE TakenOnline'
    BY <1>3 DEF TakenOnline
  <1>4. CASE AI!Tick \/ AI!AddToGroupSends \/ AI!AddToGroupWaits \/ AI!SendAlone
             \/ AI!OpenGroup \/ AI!OnTimeout \/ AI!OnImageGroup \/ UNCHANGED AI!vars
    BY <1>3, <1>4 DEF AI!Tick, AI!AddToGroupSends, AI!AddToGroupWaits, AI!SendAlone,
         AI!OpenGroup, AI!OnTimeout, AI!OnImageGroup, AI!vars
  <1>5. CASE AI!SetRunType \/ AI!AddInference
    BY <1>3, <1>5 DEF AI!SetRunType, AI!AddInference, AI!TypeOK, AI!History
  <1> QED BY <1>1, <1>2, <1>4, <1>5 DEF AI!Next

AIInv == AI!TypeOK /\ PlaceInv /\ TakenOnline

(* Types and places of the images of an AI channel, by induction over its steps. *)
LEMMA AIInvHolds == AISpec => []AIInv
  <1>1. AI!Init => AIInv
    <2> SUFFICES ASSUME AI!Init PROVE AIInv
      OBVIOUS
    <2> USE DEF AI!Init
    <2>1. AI!TypeOK
      BY AIConstantsOK DEF AI!TypeOK, AIConstantsOK, AI!HistoryInit, AI!History
    <2>2. DOMAIN groupHash = {} /\ DOMAIN images = {} /\ DOMAIN groups = {}
          /\ DOMAIN answers = {} /\ aiHistory.taken = {}
      BY DEF AI!HistoryInit
    <2>3. WaitingInv
      BY <2>2, FS_EmptySet DEF WaitingInv
    <2>4. QueuedOnce /\ SentOnce /\ AnsweredOnce
      BY <2>2 DEF QueuedOnce, SentOnce, AnsweredOnce
    <2>5. PlacedOnce
      BY <2>2 DEF PlacedOnce, InOnePlace, Queued, Waits, IsSent, IsAnswered
    <2> QED BY <2>1, <2>2, <2>3, <2>4, <2>5 DEF AIInv, PlaceInv, TakenOnline
  <1>2. AIInv /\ [AI!Next]_(AI!vars) => AIInv'
    BY AITypeStep, PlacesStep, TakenOnlineStep DEF AIInv, PlaceInv
  <1> QED BY <1>1, <1>2, PTL DEF AISpec, AI!Spec

(* The variables of an AI channel keep their types. *)
THEOREM AITypesHold == AISpec => []AI!TypeOK
  BY AIInvHolds, PTL DEF AIInv

(* A set with at most one element. *)
LEMMA AtMostOne ==
  ASSUME NEW S, \A x, y \in S : x = y
  PROVE  /\ IsFiniteSet(S) /\ Cardinality(S) \in Nat /\ Cardinality(S) <= 1
         /\ S # {} => Cardinality(S) = 1
         /\ Cardinality(S) > 0 <=> S # {}
  <1>1. CASE S = {}
    BY <1>1, FS_EmptySet
  <1>2. CASE S # {}
    <2>1. PICK x \in S : S = {x}
      BY <1>2
    <2> QED BY <2>1, FS_Singleton
  <1> QED BY <1>1, <1>2

LEMMA OccurrencesCount ==
  ASSUME NEW g, Simple(g), NEW im
  PROVE  /\ AI!Occurrences(g, im) <= 1
         /\ AI!Occurrences(g, im) > 0 <=> HasImage(g, im)
  <1> DEFINE S == {i \in DOMAIN g.cameraIds : g.cameraIds[i] = im.cameraId}
  <1>1. \A x, y \in S : x = y
    BY DEF Simple
  <1>2. Cardinality(S) <= 1 /\ (Cardinality(S) > 0 <=> S # {})
    BY <1>1, AtMostOne
  <1>3. HasImage(g, im) <=> g.objectId = im.objectId /\ S # {}
    BY DEF HasImage
  <1>4. AI!Occurrences(g, im) = IF g.objectId = im.objectId THEN Cardinality(S) ELSE 0
    BY AICardinality DEF AI!Occurrences
  <1> HIDE DEF S
  <1> QED BY <1>2, <1>3, <1>4

(* The images that have been handled were taken. *)
LEMMA HandledWereTaken ==
  ASSUME AI!TypeOK, PlaceInv
  PROVE  AI!Handled \subseteq aiHistory.taken
  <1> USE DEF PlaceInv
  <1>1. ASSUME NEW im \in AI!Image, Waits(im) \/ IsSent(im) \/ IsAnswered(im)
        PROVE  im \in aiHistory.taken
    BY <1>1 DEF PlacedOnce, InOnePlace
  <1>2. AI!Answered \subseteq aiHistory.taken
    <2> SUFFICES ASSUME NEW i \in DOMAIN answers
                 PROVE  AI!AnsweredImage(answers[i]) \in aiHistory.taken
      BY DEF AI!Answered
    <2>1. answers[i] \in AI!Answer
      BY DEF AI!TypeOK
    <2>2. AI!AnsweredImage(answers[i]) \in AI!Image
      BY <2>1 DEF AI!Answer, AI!AnsweredImage, AI!Image
    <2> QED BY <1>1, <2>2 DEF IsAnswered
  <1>3. ASSUME NEW g, NEW im \in AI!ImagesOf(g),
               g.objectId \in Objects, g.cameraIds \in Seq(AI!Listed)
        PROVE  im \in AI!Image /\ im.objectId = g.objectId /\ HasImage(g, im)
    <2>1. PICK i \in DOMAIN g.cameraIds :
            im = [objectId |-> g.objectId, cameraId |-> g.cameraIds[i]]
      BY <1>3 DEF AI!ImagesOf
    <2>2. g.cameraIds[i] \in AI!Listed
      BY <1>3
    <2> QED BY <1>3, <2>1, <2>2 DEF AI!Image, HasImage
  <1>4. ASSUME NEW o \in DOMAIN groupHash, NEW im \in AI!ImagesOf(groupHash[o])
        PROVE  im \in aiHistory.taken
    <2>1. /\ groupHash[o].objectId \in Objects /\ groupHash[o].cameraIds \in Seq(AI!Listed)
          /\ groupHash[o].objectId = o
      BY DEF AI!TypeOK, AI!WaitingGroup, WaitingInv
    <2>2. im \in AI!Image /\ im.objectId = o /\ HasImage(groupHash[o], im)
      BY <1>3, <1>4, <2>1
    <2> QED BY <1>1, <2>2 DEF Waits
  <1>5. ASSUME NEW k \in DOMAIN groups, NEW im \in AI!ImagesOf(groups[k])
        PROVE  im \in aiHistory.taken
    <2>1. groups[k].objectId \in Objects /\ groups[k].cameraIds \in Seq(AI!Listed)
      <3>1. groups[k] \in AI!Group
        BY DEF AI!TypeOK
      <3> QED BY <3>1 DEF AI!Group
    <2>2. im \in AI!Image /\ HasImage(groups[k], im)
      BY <1>3, <1>5, <2>1
    <2> QED BY <1>1, <2>2 DEF IsSent
  <1> QED BY <1>2, <1>4, <1>5 DEF AI!Handled

(* An image taken has exactly one place. *)
LEMMA OnePlaceEach ==
  ASSUME AI!TypeOK, PlaceInv, NEW im \in aiHistory.taken
  PROVE  AI!Cardinality(AI!Places(im)) = 1
  <1> USE DEF PlaceInv
  <1>1. im \in AI!Image /\ InOnePlace(im)
    BY DEF AI!TypeOK, AI!History, PlacedOnce
  <1> DEFINE InImages == {<<"images", i>> : i \in {j \in DOMAIN images : images[j] = im}}
             InHash == {<<"groupHash", o>> :
               o \in {p \in DOMAIN groupHash : AI!Occurrences(groupHash[p], im) > 0}}
             InGroups == {<<"groups", k>> :
               k \in {j \in DOMAIN groups : AI!Occurrences(groups[j], im) > 0}}
             InAnswers == {<<"answers", i>> :
               i \in {j \in DOMAIN answers : AI!AnsweredImage(answers[j]) = im}}
  <1>2. AI!Places(im) = InImages \cup InHash \cup InGroups \cup InAnswers
    BY DEF AI!Places
  <1>3. (\A x, y \in InImages : x = y) /\ (InImages # {} <=> Queued(im))
    BY DEF QueuedOnce, Queued
  <1>4. (\A x, y \in InHash : x = y) /\ (InHash # {} <=> Waits(im))
    <2>1. \A o \in DOMAIN groupHash :
            AI!Occurrences(groupHash[o], im) > 0 <=> im.objectId = o /\ Waits(im)
      <3> SUFFICES ASSUME NEW o \in DOMAIN groupHash
                   PROVE  AI!Occurrences(groupHash[o], im) > 0 <=> im.objectId = o /\ Waits(im)
        OBVIOUS
      <3>1. AI!Occurrences(groupHash[o], im) > 0 <=> HasImage(groupHash[o], im)
        BY OccurrencesCount DEF WaitingInv
      <3> QED BY <3>1 DEF WaitingInv, HasImage, Waits
    <2>2. Waits(im) => im.objectId \in DOMAIN groupHash
      BY DEF Waits
    <2>3. InHash = {<<"groupHash", o>> : o \in {p \in DOMAIN groupHash : im.objectId = p /\ Waits(im)}}
      BY <2>1
    <2> QED BY <2>2, <2>3
  <1>5. (\A x, y \in InGroups : x = y) /\ (InGroups # {} <=> IsSent(im))
    <2>1. \A k \in DOMAIN groups : AI!Occurrences(groups[k], im) > 0 <=> HasImage(groups[k], im)
      BY OccurrencesCount DEF SentOnce
    <2>2. InGroups = {<<"groups", k>> : k \in {j \in DOMAIN groups : HasImage(groups[j], im)}}
      BY <2>1
    <2>3. \A k, l \in DOMAIN groups : HasImage(groups[k], im) /\ HasImage(groups[l], im) => k = l
      BY <1>1 DEF SentOnce
    <2> QED BY <2>2, <2>3 DEF IsSent
  <1>6. (\A x, y \in InAnswers : x = y) /\ (InAnswers # {} <=> IsAnswered(im))
    BY DEF AnsweredOnce, IsAnswered
  <1> HIDE DEF InImages, InHash, InGroups, InAnswers
  <1>7. \A x, y \in AI!Places(im) : x = y
    BY <1>1, <1>2, <1>3, <1>4, <1>5, <1>6 DEF InOnePlace
  <1>8. AI!Places(im) # {}
    BY <1>1, <1>2, <1>3, <1>4, <1>5, <1>6 DEF InOnePlace
  <1> QED BY <1>7, <1>8, AtMostOne, AICardinality

(* Every image that an AI channel takes is in one place, once in its group, and
   answered at most once, whatever cameras, clock and run type do: onImageData,
   onTimeout and onImageGroup lose none and double none. *)
THEOREM ImagesAreConserved == AISpec => []NoImageLostOrDoubled
  <1>1. AIInv => NoImageLostOrDoubled
    <2> SUFFICES ASSUME AIInv PROVE AI!NoImageLostOrDoubled
      BY DEF NoImageLostOrDoubled
    <2> USE DEF AIInv
    <2>1. AI!Handled \subseteq aiHistory.taken
      BY HandledWereTaken
    <2>2. \A im \in aiHistory.taken : AI!Cardinality(AI!Places(im)) = 1
      BY OnePlaceEach
    <2>3. /\ \A im : \A o \in DOMAIN groupHash : AI!Occurrences(groupHash[o], im) <= 1
          /\ \A im : \A k \in DOMAIN groups : AI!Occurrences(groups[k], im) <= 1
      BY OccurrencesCount DEF PlaceInv, WaitingInv, SentOnce
    <2> QED BY <2>1, <2>2, <2>3 DEF AI!NoImageLostOrDoubled
  <1> QED BY <1>1, AIInvHolds, PTL

-----------------------------------------------------------------------------
(* The first camera of the list has the least id and the last the greatest, as
   onImageData takes for granted when it counts the cameras between the two. *)
EndsEnclose ==
  \A i \in DOMAIN CameraIdList :
    CameraIdList[1] <= CameraIdList[i]
    /\ CameraIdList[i] <= CameraIdList[Len(CameraIdList)]

(* The cameras on line that onImageData counts. *)
Counted == {c \in online : /\ CameraIdList[1] <= c
                           /\ c <= CameraIdList[Len(CameraIdList)]}

LEMMA CountedCameras ==
  ASSUME AI!TypeOK, EndsEnclose
  PROVE  /\ IsFiniteSet(Counted)
         /\ AI!CameraCount = Cardinality(Counted)
         /\ online \cap AI!Listed \subseteq Counted
         /\ \A c \in online : c \in AI!Listed => c \in Counted
  <1>1. IsFiniteSet(Counted)
    <2>1. Counted \subseteq Cameras
      BY DEF AI!TypeOK, Counted
    <2> QED BY <2>1, AIConstantsOK, FS_Subset DEF AIConstantsOK
  <1>2. AI!CameraCount = Cardinality(Counted)
    BY AICardinality DEF AI!CameraCount, Counted
  <1>3. \A c \in online : c \in AI!Listed => c \in Counted
    BY DEF AI!Listed, EndsEnclose, Counted
  <1> QED BY <1>1, <1>2, <1>3

(* A group of cameras that count, each once, and as many as count, has all. *)
LEMMA GroupIsComplete ==
  ASSUME NEW S, IsFiniteSet(S), NEW n \in Nat, NEW ids \in [1..n -> S],
         \A i, j \in 1..n : ids[i] = ids[j] => i = j, n >= Cardinality(S)
  PROVE  S \subseteq {ids[i] : i \in 1..n}
  <1>1. ids \in Injection(1..n, S)
    BY DEF Injection, IsInjective
  <1>2. IsFiniteSet(1..n) /\ Cardinality(1..n) = n
    BY FS_Interval
  <1>3. Cardinality(S) \in Nat
    BY FS_CardinalityType
  <1>4. n <= Cardinality(S) /\ (n = Cardinality(S) <=> ids \in Surjection(1..n, S))
    BY <1>1, <1>2, FS_Injection
  <1>5. ids \in Surjection(1..n, S)
    BY <1>3, <1>4
  <1> QED BY <1>5 DEF Surjection

(* A group that onImageData sends in inspection mode, before its time. *)
LEMMA SentGroupIsComplete ==
  ASSUME AI!TypeOK, EndsEnclose, NEW g \in AI!Group, Simple(g),
         \A i \in DOMAIN g.cameraIds : g.cameraIds[i] \in online,
         Len(g.cameraIds) >= AI!CameraCount
  PROVE  online \cap AI!Listed \subseteq AI!RangeOf(g.cameraIds)
  <1>1. PICK n \in Nat : n = Len(g.cameraIds) /\ g.cameraIds \in [1..n -> AI!Listed]
    BY DEF AI!Group
  <1>2. g.cameraIds \in [1..n -> Counted]
    BY <1>1, CountedCameras
  <1>3. \A i, j \in 1..n : g.cameraIds[i] = g.cameraIds[j] => i = j
    BY <1>1 DEF Simple
  <1>4. n >= Cardinality(Counted)
    BY <1>1, CountedCameras
  <1>5. Counted \subseteq {g.cameraIds[i] : i \in 1..n}
    BY <1>2, <1>3, <1>4, CountedCameras, GroupIsComplete
  <1>6. AI!RangeOf(g.cameraIds) = {g.cameraIds[i] : i \in 1..n}
    BY <1>1 DEF AI!RangeOf
  <1> QED BY <1>5, <1>6, CountedCameras

(* The cameras of a group whose images were taken are on line, as long as no
   camera connects or disconnects. *)
LEMMA GroupIsOnline ==
  ASSUME AIInv, aiHistory.flaps = 0, NEW g \in AI!Group,
         \A im \in AI!Image : HasImage(g, im) => im \in aiHistory.taken
  PROVE  \A i \in DOMAIN g.cameraIds : g.cameraIds[i] \in online
  <1> SUFFICES ASSUME NEW i \in DOMAIN g.cameraIds PROVE g.cameraIds[i] \in online
    OBVIOUS
  <1>1. g.objectId \in Objects /\ g.cameraIds[i] \in AI!Listed
    BY DEF AI!Group
  <1>2. PICK im \in AI!Image : im.objectId = g.objectId /\ im.cameraId = g.cameraIds[i]
    <2>1. [objectId |-> g.objectId, cameraId |-> g.cameraIds[i]] \in AI!Image
      BY <1>1 DEF AI!Image
    <2> QED BY <2>1
  <1>3. im \in aiHistory.taken
    BY <1>2 DEF HasImage
  <1> QED BY <1>2, <1>3 DEF AIInv, TakenOnline

LEMMA LongerByOne ==
  ASSUME AI!TypeOK, NEW g \in AI!Group, groups' = Append(groups, g)
  PROVE  groups'[Len(groups')] = g
  BY DEF AI!TypeOK

(* As long as no camera connects or disconnects, onImageData sends a group in
   inspection mode only if it has an image of every camera of the channel that is
   on line: its images are inspected in one call. *)
THEOREM GroupsAreSentTogether ==
  ASSUME EndsEnclose
  PROVE  AISpec => SentTogether
  <1> DEFINE Together ==
        Len(groups') > Len(groups) /\ aiHistory.flaps = 0 /\ Batch /\ runType = "Infer"
        => LET g == groups'[Len(groups')] IN
           \/ g.objectId \in AI!Expired
           \/ online \cap AI!Listed \subseteq AI!RangeOf(g.cameraIds)
  <1>1. AIInv /\ [AI!Next]_(AI!vars) => Together
    <2> SUFFICES ASSUME AIInv, [AI!Next]_(AI!vars),
                        Len(groups') > Len(groups), aiHistory.flaps = 0,
                        Batch, runType = "Infer"
                 PROVE  \/ groups'[Len(groups')].objectId \in AI!Expired
                        \/ online \cap AI!Listed
                             \subseteq AI!RangeOf(groups'[Len(groups')].cameraIds)
      OBVIOUS
    <2> USE DEF AIInv, PlaceInv
    <2>1. ASSUME images # << >> PROVE /\ Head(images) \in AI!Image /\ Queued(Head(images))
                                      /\ ~Waits(Head(images))
                                      /\ Head(images) \in aiHistory.taken
      <3>1. Head(images) \in AI!Image /\ Queued(Head(images))
        BY <2>1, HeadTypes DEF Queued, AI!TypeOK
      <3> QED BY <3>1 DEF PlacedOnce, InOnePlace
    <2>2. \A im \in AI!Image : Waits(im) => im \in aiHistory.taken
      BY DEF PlacedOnce, InOnePlace
    <2>3. CASE AI!AddToGroupSends
      <3>1. PICK h \in AI!Image : h = Head(images)
        BY <2>1, <2>3 DEF AI!AddToGroupSends, AI!TakeImage
      <3>2. /\ h.objectId \in DOMAIN groupHash /\ AI!IsComplete(AI!Grown(h))
            /\ groups' = Append(groups, AI!Sent(AI!Grown(h)))
        BY <2>3, <3>1 DEF AI!AddToGroupSends
      <3>3. PICK g \in AI!WaitingGroup : g = AI!Grown(h)
        BY <3>2, GroupTypes
      <3>4. PICK sent \in AI!Group : sent = AI!Sent(g) /\ sent.cameraIds = g.cameraIds
        BY <3>3, GroupTypes
      <3>5. /\ Simple(sent)
            /\ \A im \in AI!Image : HasImage(sent, im) => im \in aiHistory.taken
        BY <2>1, <2>2, <2>3, <3>1, <3>2, <3>3, <3>4, GrownHas, SentHas
           DEF AI!AddToGroupSends, AI!TakeImage
      <3>6. Len(sent.cameraIds) >= AI!CameraCount
        BY <3>2, <3>3, <3>4 DEF AI!IsComplete
      <3>7. online \cap AI!Listed \subseteq AI!RangeOf(sent.cameraIds)
        BY <3>5, <3>6, GroupIsOnline, SentGroupIsComplete
      <3> QED BY <3>2, <3>3, <3>4, <3>7, LongerByOne
    <2>4. CASE AI!SendAlone
      <3>1. PICK h \in AI!Image : h = Head(images)
        BY <2>1, <2>4 DEF AI!SendAlone, AI!TakeImage
      <3>2. AI!SentAlone /\ groups' = Append(groups, AI!Sent(AI!NewGroup(h)))
        BY <2>4, <3>1 DEF AI!SendAlone
      <3>3. PICK g \in AI!WaitingGroup : g = AI!NewGroup(h) /\ g.cameraIds = <<h.cameraId>>
        BY GroupTypes
      <3>4. PICK sent \in AI!Group : sent = AI!Sent(g) /\ sent.cameraIds = <<h.cameraId>>
        BY <3>3, GroupTypes
      <3>5. /\ Simple(sent)
            /\ \A im \in AI!Image : HasImage(sent, im) => im \in aiHistory.taken
        BY <2>1, <2>4, <3>1, <3>3, <3>4, NewHas, SentHas DEF AI!SendAlone, AI!TakeImage
      <3>6. Len(sent.cameraIds) >= AI!CameraCount
        BY <3>2, <3>4 DEF AI!SentAlone
      <3>7. online \cap AI!Listed \subseteq AI!RangeOf(sent.cameraIds)
        BY <3>5, <3>6, GroupIsOnline, SentGroupIsComplete
      <3> QED BY <3>2, <3>3, <3>4, <3>7, LongerByOne
    <2>5. CASE AI!OnTimeout
      <3>1. PICK s \in AI!Orders(AI!Expired) :
              LET sent == [i \in 1..Cardinality(AI!Expired) |-> AI!Sent(groupHash[s[i]])] IN
              /\ sent \in Seq(AI!Group)
              /\ Len(sent) = Cardinality(AI!Expired)
              /\ groups' = groups \o sent
        BY <2>5, TimeoutSends
      <3>2. IsFiniteSet(AI!Expired) /\ AI!Expired \subseteq DOMAIN groupHash
        <4>1. AI!Expired \subseteq DOMAIN groupHash
          BY DEF AI!Expired
        <4> QED BY <4>1, FS_Subset DEF WaitingInv
      <3>3. PICK m \in Nat : m = Cardinality(AI!Expired) /\ s \in [1..m -> AI!Expired]
        BY <3>2, OrdersAreBijections
      <3>4. PICK sent \in Seq(AI!Group) :
              /\ sent = [i \in 1..m |-> AI!Sent(groupHash[s[i]])]
              /\ Len(sent) = m /\ groups' = groups \o sent
        BY <3>1, <3>3
      <3>5. PICK n \in Nat : n = Len(groups)
        BY DEF AI!TypeOK
      <3>6. Len(groups') = n + m /\ m \in 1..m /\ groups'[n + m] = sent[m]
        BY <3>4, <3>5, ConcatFacts DEF AI!TypeOK
      <3>7. s[m] \in AI!Expired /\ groupHash[s[m]] \in AI!WaitingGroup
            /\ groupHash[s[m]].objectId = s[m]
        BY <3>2, <3>3, <3>6 DEF AI!TypeOK, WaitingInv
      <3>8. sent[m].objectId = s[m]
        BY <3>4, <3>6, <3>7, GroupTypes
      <3> QED BY <3>6, <3>7, <3>8
    <2>6. CASE AI!OnImageGroup
      BY <2>6 DEF AI!OnImageGroup, AI!TypeOK
    <2>7. CASE UNCHANGED groups
      BY <2>7 DEF AI!TypeOK
    <2> QED BY <2>3, <2>4, <2>5, <2>6, <2>7
            DEF AI!Next, AI!vars, AI!groupVars, AI!Tick, AI!SetRunType, AI!SetOnline, AI!SendImage,
                AI!AddToGroupWaits, AI!OpenGroup, AI!AddInference
  <1>2. AISpec => [][Together]_(AI!vars)
    BY <1>1, AIInvHolds, PTL DEF AISpec, AI!Spec
  <1> QED BY <1>2 DEF SentTogether, AI!SentTogether

-----------------------------------------------------------------------------
(* The promise of Answering. *)

(* Steps of the channel that answer nothing. *)
LEMMA TakenStays ==
  ASSUME AI!TypeOK, [AI!Next]_(AI!vars)
  PROVE  /\ aiHistory.taken \subseteq aiHistory'.taken
         /\ AI!OnImageGroup \/ UNCHANGED answers
  <1> USE DEF AI!envVars, AI!groupVars, AI!inferVars, AI!TakeImage
  <1>1. CASE AI!SetRunType \/ (\E c \in Cameras : AI!SetOnline(c)) \/ AI!AddInference
    BY <1>1 DEF AI!SetRunType, AI!SetOnline, AI!AddInference, AI!TypeOK, AI!History
  <1>2. ASSUME NEW o \in Objects, NEW c \in AI!Listed, AI!SendImage(o, c)
        PROVE  aiHistory.taken \subseteq aiHistory'.taken /\ UNCHANGED answers
    BY <1>2 DEF AI!SendImage, AI!TypeOK, AI!History
  <1>3. CASE AI!Tick \/ AI!AddToGroupSends \/ AI!AddToGroupWaits \/ AI!SendAlone
             \/ AI!OpenGroup \/ AI!OnTimeout \/ UNCHANGED AI!vars
    BY <1>3 DEF AI!Tick, AI!AddToGroupSends, AI!AddToGroupWaits, AI!SendAlone,
         AI!OpenGroup, AI!OnTimeout, AI!vars
  <1>4. CASE AI!OnImageGroup
    BY <1>4 DEF AI!OnImageGroup
  <1> QED BY <1>1, <1>2, <1>3, <1>4 DEF AI!Next

(* An image that is answered has been taken, and no other answer is its own. *)
LEMMA AnswersAreOwn ==
  ASSUME AI!TypeOK, PlaceInv, NEW k \in DOMAIN answers
  PROVE  /\ AI!AnsweredImage(answers[k]) \in aiHistory.taken
         /\ \A j \in DOMAIN answers :
              AI!AnsweredImage(answers[j]) = AI!AnsweredImage(answers[k]) => j = k
  <1>1. answers[k] \in AI!Answer
    BY DEF AI!TypeOK
  <1>2. AI!AnsweredImage(answers[k]) \in AI!Image
    BY <1>1 DEF AI!Answer, AI!AnsweredImage, AI!Image
  <1>3. InOnePlace(AI!AnsweredImage(answers[k]))
    BY <1>2 DEF PlaceInv, PlacedOnce
  <1> QED BY <1>3 DEF InOnePlace, IsAnswered, PlaceInv, AnsweredOnce

LEMMA NextAnswersAreOwn ==
  (AI!TypeOK /\ PlaceInv)' =>
    (\A k \in DOMAIN answers :
       /\ AI!AnsweredImage(answers[k]) \in aiHistory.taken
       /\ \A j \in DOMAIN answers :
            AI!AnsweredImage(answers[j]) = AI!AnsweredImage(answers[k]) => j = k)'
  <1>1. AI!TypeOK /\ PlaceInv =>
          (\A k \in DOMAIN answers :
             /\ AI!AnsweredImage(answers[k]) \in aiHistory.taken
             /\ \A j \in DOMAIN answers :
                  AI!AnsweredImage(answers[j]) = AI!AnsweredImage(answers[k]) => j = k)
    BY AnswersAreOwn
  <1> QED BY <1>1, PTL

(* Every step of the channel hands over images, answers some, or does neither. *)
LEMMA AnsweringStep ==
  ASSUME AI!TypeOK, PlaceInv, (AI!TypeOK /\ PlaceInv)', [AI!Next]_(AI!vars)
  PROVE  Served!Next
  <1>1. CASE UNCHANGED answers
    <2>1. Served!Ask
      BY <1>1, TakenStays DEF Served!Ask
    <2> QED BY <2>1 DEF Served!Next
  <1>2. CASE AI!OnImageGroup
    <2>1. aiHistory' = aiHistory
      BY <1>2 DEF AI!OnImageGroup
    <2>2. PICK t \in Seq(AI!Answer) : answers' = answers \o t
      BY <1>2, GroupAnswers
    <2>3. answers \in Seq(AI!Answer)
      BY DEF AI!TypeOK
    <2>4. /\ DOMAIN answers \subseteq DOMAIN answers'
          /\ \A k \in DOMAIN answers : answers'[k] = answers[k]
      <3>1. /\ DOMAIN answers = 1..Len(answers) /\ Len(answers) \in Nat /\ Len(t) \in Nat
            /\ DOMAIN answers' = 1..Len(answers) + Len(t)
        BY <2>2, <2>3
      <3> QED BY <2>2, <2>3, <3>1
    <2>5. \A k \in DOMAIN answers' :
            /\ AI!AnsweredImage(answers'[k]) \in aiHistory'.taken
            /\ \A j \in DOMAIN answers' :
                 AI!AnsweredImage(answers'[j]) = AI!AnsweredImage(answers'[k]) => j = k
      BY NextAnswersAreOwn DEF AI!AnsweredImage
    <2>6. Served!Answer
      BY <2>1, <2>4, <2>5 DEF Served!Answer, Served!IsOwn, AI!AnsweredImage
    <2> QED BY <2>6 DEF Served!Next
  <1> QED BY <1>1, <1>2, TakenStays

(* The AI channel implements Answering: ImageGroup and BatchInfer answer only
   images that cameras handed to them, and none twice, for any cameras, packets,
   batches and models. *)
THEOREM ChannelAnswers == AISpec => AnswersWhatIsAsked
  <1>1. AI!Init => Served!Init
    BY DEF AI!Init, AI!HistoryInit, Served!Init
  <1>2. AIInv /\ AIInv' /\ [AI!Next]_(AI!vars) => [Served!Next]_(Served!vars)
    BY AnsweringStep DEF AIInv, PlaceInv
  <1> QED BY <1>1, <1>2, AIInvHolds, PTL DEF AISpec, AI!Spec, AnswersWhatIsAsked, Served!Spec

=============================================================================
