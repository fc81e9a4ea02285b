---------------------------- MODULE ChannelInfer ----------------------------
(***************************************************************************)
(* The traditional channel of a camera (IasAgent/channelInfer.cpp): its    *)
(* locators and detectors, the operations of the policy store on them, and *)
(* the inspection of images.                                               *)
(*                                                                         *)
(* The channel's thread executes the operations and hands each image to    *)
(* Qt's global thread pool.  A thread of the pool that inspects an image   *)
(* hands the work of each locator and detector to the same pool and waits  *)
(* for it.  Locators and detectors have a group (the left or the right     *)
(* channel of a line) and a feature: 1 if they tell whether the object     *)
(* belongs to the group, 2 if they inspect it.                             *)
(*                                                                         *)
(* Nothing locks the locators and detectors.  An inspection during which   *)
(* they change reads what is being written: it may end with any answer     *)
(* (torn).  That the program may also crash is left out.                   *)
(*                                                                         *)
(* Left out: operations that only compute something and return it, the     *)
(* algorithm file, the text of a result.                                   *)
(***************************************************************************)
EXTENDS Integers, FiniteSets

CONSTANTS
  Locators,    \* ids of locators
  Default,     \* DEFAULT_LOCATE_ID
  Detectors,   \* ids of detectors
  Images,      \* bound: the images to inspect
  Workers,     \* threads of the pool
  MaxOps       \* bound: operations

ASSUME ConstantsOK ==
  /\ Default \in Locators /\ Locators \cap Detectors = {}
  /\ IsFiniteSet(Images) /\ Workers \in Nat \ {0} /\ MaxOps \in Nat

VARIABLES
  locators,    \* m_locators: id -> group, feature and static point
  detectors,   \* m_detectors: id -> group, feature, locators used, their points
  bInitOK,     \* m_bInitOK
  bGroup,      \* m_bGroup
  job,         \* the inspection of each image
  history      \* ghosts: number of operations, detectors with a stale point

configVars == <<locators, detectors, bInitOK, bGroup>>
vars == <<configVars, job, history>>

-----------------------------------------------------------------------------
(* Static points of locators; an update or a new locator may bring another. *)
Points == {0, 1}

(* at are the locators of a detector's X and Y. *)
Anchors == {a \in SUBSET Locators : Cardinality(a) \in 1..2}

Locator(g, f, p) == [group |-> g, feature |-> f, point |-> p]
Detector(g, f, a, points) == [group |-> g, feature |-> f, at |-> a, points |-> points]

(* getLocatePoint of locators that are all present. *)
PointsOf(a) == [l \in a |-> locators[l].point]

LocatorsOf(g, f) ==
  {l \in DOMAIN locators : locators[l].group = g /\ locators[l].feature = f}
DetectorsOf(g, f) ==
  {d \in DOMAIN detectors : detectors[d].group = g /\ detectors[d].feature = f}
Members(g) == UNION {LocatorsOf(g, f) \cup DetectorsOf(g, f) : f \in 1..2}

(* An inspection: where it is, what it waits for, result[group][0] and [1] of
   the group it is at; and ghosts: what has run and what has failed. *)
Blank == [stage |-> "idle", group |-> 1, feature |-> 1, phase |-> "locate",
          todo |-> {}, feat |-> TRUE, rest |-> TRUE, ran |-> {}, failed |-> {},
          torn |-> FALSE, answer |-> "none"]

(* An inspection that has read what was being changed. *)
Torn == [Blank EXCEPT !.stage = "run", !.torn = TRUE]

(* loadAlgorithmConfig, releaseModel, initModel: any file; entries that cannot
   be loaded are left out, and a detector needs its locators. *)
Init ==
  /\ \E ls \in SUBSET Locators :
       locators \in [ls -> {Locator(g, f, 0) : g \in 1..2, f \in 1..2}]
  /\ Default \in DOMAIN locators => locators[Default] = Locator(1, 2, 0)
  /\ \E ds \in SUBSET Detectors :
       \E g, f \in [ds -> 1..2], a \in [ds -> Anchors \cap SUBSET DOMAIN locators] :
         detectors = [d \in ds |-> Detector(g[d], f[d], a[d], PointsOf(a[d]))]
  /\ bInitOK = (DOMAIN locators # {})
  /\ bGroup = (Members(2) # {})
  /\ job = [i \in Images |-> Blank]
  /\ history = [ops |-> 0, stale |-> {}]

-----------------------------------------------------------------------------
(* An operation of the policy store, on the channel's thread; stale are the
   detectors whose points are, from now on, not those of their locators. *)
Operation(stale) ==
  /\ history.ops < MaxOps
  /\ history' = [ops |-> history.ops + 1, stale |-> stale]
  /\ job' = [i \in Images |-> IF job[i].stage = "run" THEN Torn ELSE job[i]]

With(f, id, x) == [i \in DOMAIN f \cup {id} |-> IF i = id THEN x ELSE f[i]]
Without(f, id) == [i \in DOMAIN f \ {id} |-> f[i]]

(* addLocator *)
AddLocator(l, g, f, p) ==
  /\ l \notin DOMAIN locators
  /\ locators' = With(locators, l, Locator(g, f, p))
  /\ bInitOK' = TRUE /\ bGroup' = (bGroup \/ g > 1)
  /\ Operation(history.stale)
  /\ UNCHANGED detectors

(* addDetector; without its locators it is not added. *)
AddDetector(d, g, f, a) ==
  /\ d \notin DOMAIN detectors /\ a \subseteq DOMAIN locators
  /\ detectors' = With(detectors, d, Detector(g, f, a, PointsOf(a)))
  /\ bInitOK' = TRUE /\ bGroup' = (bGroup \/ g > 1)
  /\ Operation(history.stale \ {d})
  /\ UNCHANGED locators

(* removeLocator; nothing is done about detectors that use it. *)
RemoveLocator(l) ==
  /\ l \in DOMAIN locators
  /\ locators' = Without(locators, l)
  /\ Operation(history.stale \cup {d \in DOMAIN detectors : l \in detectors[d].at})
  /\ UNCHANGED <<detectors, bInitOK, bGroup>>

(* removeDetector *)
RemoveDetector(d) ==
  /\ d \in DOMAIN detectors
  /\ detectors' = Without(detectors, d)
  /\ Operation(history.stale \ {d})
  /\ UNCHANGED <<locators, bInitOK, bGroup>>

(* Detectors both of whose locators are present. *)
Anchored == {d \in DOMAIN detectors : detectors[d].at \subseteq DOMAIN locators}

(* Fault: the detectors that use the locator are not told. *)
UpdateLocatorOnly(l, p) ==
  /\ l \in DOMAIN locators
  /\ locators' = [locators EXCEPT ![l].point = p]
  /\ Operation(history.stale \ Anchored)
  /\ UNCHANGED <<detectors, bInitOK, bGroup>>

(* updateLocator that succeeds: the point of every anchored detector is set
   again.  One that fails leaves the points alone. *)
UpdateLocator(l, p) ==
  /\ l \in DOMAIN locators
  /\ locators' = [locators EXCEPT ![l].point = p]
  /\ detectors' = [d \in DOMAIN detectors |->
       IF d \in Anchored
       THEN [detectors[d] EXCEPT !.points = [m \in detectors[d].at |-> locators'[m].point]]
       ELSE detectors[d]]
  /\ Operation(history.stale \ Anchored)
  /\ UNCHANGED <<bInitOK, bGroup>>

(* updateDetector: the detector takes the locators that the request names, and
   their points, before anything in its load may fail. *)
UpdateDetector(d, a) ==
  /\ d \in DOMAIN detectors /\ a \subseteq DOMAIN locators
  /\ detectors' = [detectors EXCEPT ![d] = [@ EXCEPT !.at = a, !.points = PointsOf(a)]]
  /\ Operation(history.stale \ {d})
  /\ UNCHANGED <<locators, bInitOK, bGroup>>

-----------------------------------------------------------------------------
(* onImageData hands the image to the pool. *)
OnImageData(i) ==
  /\ bInitOK /\ job[i].stage = "idle"
  /\ job' = [job EXCEPT ![i].stage = "queued"]
  /\ UNCHANGED <<configVars, history>>

(* Has the pool a thread that neither inspects an image nor waits? *)
ThreadIsFree == Cardinality({i \in Images : job[i].stage = "run"}) < Workers

(* The work that an inspection at group g and feature f begins with. *)
At(j, g, f) == [j EXCEPT !.group = g, !.feature = f, !.phase = "locate",
                         !.todo = LocatorsOf(g, f)]

(* inferImage begins. *)
Start(i) ==
  /\ job[i].stage = "queued" /\ ThreadIsFree
  /\ job' = [job EXCEPT ![i] = At([@ EXCEPT !.stage = "run"], 1, 1)]
  /\ UNCHANGED <<configVars, history>>

(* Fault: the result is polled instead of waited for. *)
MayRunPolled(m, todo) == ThreadIsFree

(* Who runs the work of member m: a free thread, or the inspection itself when
   it waits for m, in the order of its list: waitForFinished runs what no
   thread has begun. *)
MayRun(m, todo) == ThreadIsFree \/ m = CHOOSE n \in todo : TRUE

Inspecting(i) ==
  /\ job[i].stage = "run" /\ ~job[i].torn
  /\ UNCHANGED <<configVars, history>>

(* locate or detect of one member, and its result. *)
RunMember(i, m, ok) ==
  /\ Inspecting(i) /\ m \in job[i].todo /\ MayRun(m, job[i].todo)
  /\ job' = [job EXCEPT ![i].todo = @ \ {m}, ![i].ran = @ \cup {m},
       ![i].failed = IF ok THEN @ ELSE @ \cup {m},
       ![i].feat = @ /\ (ok \/ job[i].feature # 1),
       ![i].rest = @ /\ (ok \/ job[i].feature # 2)]

Waited(i) == Inspecting(i) /\ job[i].todo = {}

(* result[group][feature] *)
Passed(j) == IF j.feature = 1 THEN j.feat ELSE j.rest

(* All locators have succeeded: the detectors follow. *)
StartDetectors(i) ==
  /\ Waited(i) /\ job[i].phase = "locate" /\ Passed(job[i])
  /\ job' = [job EXCEPT ![i].phase = "detect",
                        ![i].todo = DetectorsOf(job[i].group, job[i].feature)]

(* The detectors have ended, or a locator has failed. *)
FeatureEnds(i) == Waited(i) /\ (job[i].phase = "detect" \/ ~Passed(job[i]))

(* The object has the features of the group: it is inspected further. *)
NextFeature(i) ==
  /\ FeatureEnds(i) /\ job[i].feature = 1 /\ job[i].feat
  /\ job' = [job EXCEPT ![i] = At(@, job[i].group, 2)]

(* Fault: the second group is always tried. *)
TriesSecondAlways(j) == j.group = 1 /\ ~j.feat

TriesSecond(j) == j.group = 1 /\ ~j.feat /\ bGroup

(* The object has not the features of the first group, and there is another. *)
NextGroup(i) ==
  /\ FeatureEnds(i) /\ TriesSecond(job[i])
  /\ job' = [job EXCEPT ![i] = At([@ EXCEPT !.feat = TRUE, !.rest = TRUE], 2, 1)]

Answered(answer) == [Blank EXCEPT !.stage = "done", !.answer = answer]

(* The group at which the inspection ends decides. *)
Answer(i) ==
  /\ FeatureEnds(i)
  /\ job[i].feature = 2 \/ (~job[i].feat /\ ~TriesSecond(job[i]))
  /\ job' = [job EXCEPT ![i] =
       Answered(IF job[i].feat /\ job[i].rest THEN "OK" ELSE "NG")]

(* An inspection under which the channel has changed ends somehow. *)
TornEnds(i, answer) ==
  /\ job[i].stage = "run" /\ job[i].torn
  /\ job' = [job EXCEPT ![i] = Answered(answer)]
  /\ UNCHANGED <<configVars, history>>

-----------------------------------------------------------------------------
Operations ==
  \/ \E g, f \in 1..2 :
       \/ \E l \in Locators, p \in Points : AddLocator(l, g, f, p)
       \/ \E d \in Detectors, a \in Anchors : AddDetector(d, g, f, a)
  \/ \E l \in Locators : RemoveLocator(l) \/ \E p \in Points : UpdateLocator(l, p)
  \/ \E d \in Detectors :
       RemoveDetector(d) \/ \E a \in Anchors : UpdateDetector(d, a)

Inspect(i) ==
  \/ \E m \in job[i].todo, ok \in BOOLEAN : RunMember(i, m, ok)
  \/ StartDetectors(i) \/ NextFeature(i) \/ NextGroup(i) \/ Answer(i)
  \/ \E answer \in {"OK", "NG"} : TornEnds(i, answer)

Next == Operations \/ \E i \in Images : OnImageData(i) \/ Start(i) \/ Inspect(i)

Spec == Init /\ [][Next]_vars

(* The threads of the pool run; images and operations may never come. *)
FairSpec == Spec /\ \A i \in Images : WF_vars(Start(i)) /\ WF_vars(Inspect(i))

-----------------------------------------------------------------------------
Job == [stage : {"idle", "queued", "run", "done"}, group : 1..2, feature : 1..2,
        phase : {"locate", "detect"}, todo : SUBSET (Locators \cup Detectors),
        feat : BOOLEAN, rest : BOOLEAN, ran : SUBSET (Locators \cup Detectors),
        failed : SUBSET (Locators \cup Detectors), torn : BOOLEAN,
        answer : {"none", "OK", "NG"}]

TypeOK ==
  /\ DOMAIN locators \subseteq Locators /\ DOMAIN detectors \subseteq Detectors
  /\ \A l \in DOMAIN locators :
       locators[l] \in [group : 1..2, feature : 1..2, point : Points]
  /\ \A d \in DOMAIN detectors : detectors[d].at \in Anchors
  /\ bInitOK \in BOOLEAN /\ bGroup \in BOOLEAN
  /\ job \in [Images -> Job]
  /\ history.ops \in 0..MaxOps /\ history.stale \subseteq Detectors

(* inferImage: an image is OK only if every locator and detector of some group
   has run and none of them has failed, the second group only if it has members;
   and NG only if one has failed; whatever sequence of operations built the
   channel, unless one came during the inspection, or took the last member of
   the second group away (m_bGroup stays set). *)
OkIsEarned ==
  [][\A i \in Images :
       (job[i].stage = "run" /\ ~job[i].torn /\ job'[i].stage = "done"
          /\ (bGroup => Members(2) # {})) =>
       IF job'[i].answer = "OK"
       THEN \E g \in 1..2 : /\ g = 2 => Members(2) # {}
                            /\ Members(g) \subseteq job[i].ran
                            /\ Members(g) \cap job[i].failed = {}
       ELSE job[i].failed # {}]_vars

(* The static point of a detector is that of its locators, however often they
   are updated and whichever it is told to use, until one of them is removed;
   and it is again after a later update. *)
PointsFollowLocators ==
  \A d \in DOMAIN detectors \ history.stale :
    /\ detectors[d].at \subseteq DOMAIN locators
    /\ detectors[d].points = PointsOf(detectors[d].at)

(* Every image that is handed to the pool is answered, although inspections wait
   on a thread of the pool for work that they give to the same pool. *)
EveryImageAnswered ==
  \A i \in Images : job[i].stage = "queued" ~> job[i].stage = "done"
=============================================================================
