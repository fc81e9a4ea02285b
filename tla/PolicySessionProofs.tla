------------------------- MODULE PolicySessionProofs -------------------------
(***************************************************************************)
(* Proofs about the session: the counter of reports matches the queue, the *)
(* queue stays within its limit and implements a bounded queue; and no     *)
(* alarm is forgotten while there is no session.                           *)
(***************************************************************************)
EXTENDS PolicySession, FiniteSetTheorems, TLAPS

-----------------------------------------------------------------------------
(* The queue of reports within the session, for any number of producers and any
   size. *)
At(where) == {p \in Producers : step[p] = where}
Limit == QueueSize + Cardinality(Producers) - 1

QueueTypes ==
  /\ step \in [Producers -> {"idle", "tested", "counted"}]
  /\ queue \in Seq(Producers) /\ queuedCount \in Int

Counts ==
  /\ queuedCount = Len(queue) + Cardinality(At("counted"))
  /\ queuedCount + Cardinality(At("tested")) <= Limit

QueueInv == QueueTypes /\ Counts

(* The instance of the channel has an instance of Cardinality of its own. *)
LEMMA CountsMatch == CountMatchesQueue <=> Counts
  <1>1. \A S : Channel!Cardinality(S) = Cardinality(S)
    BY DEF Channel!Cardinality, Cardinality
  <1>2. \A w : Channel!At(w) = At(w)
    BY DEF Channel!At, At
  <1>3. Channel!Limit = Limit
    BY <1>1 DEF Channel!Limit, Limit
  <1> QED
    BY <1>1, <1>2, <1>3 DEF Counts, CountMatchesQueue, Channel!CountMatchesQueue

LEMMA AtIsFinite ==
  ASSUME NEW w
  PROVE  IsFiniteSet(At(w)) /\ Cardinality(At(w)) \in Nat
  <1>1. At(w) \subseteq Producers
    BY DEF At
  <1>2. IsFiniteSet(At(w))
    BY <1>1, ConstantsOK, FS_Subset DEF ConstantsOK
  <1> QED BY <1>2, FS_CardinalityType

(* A producer that moves from one step to another leaves the one set and joins
   the other; ... *)
LEMMA Moves ==
  ASSUME QueueTypes, NEW p \in Producers, NEW from, NEW to, from # to,
         step[p] = from, step' = [step EXCEPT ![p] = to]
  PROVE  /\ Cardinality(At(from)') = Cardinality(At(from)) - 1
         /\ Cardinality(At(to)') = Cardinality(At(to)) + 1
  <1>1. \A q \in Producers : step'[q] = IF q = p THEN to ELSE step[q]
    BY DEF QueueTypes
  <1>2. At(from)' = At(from) \ {p} /\ p \in At(from)
    BY <1>1 DEF At
  <1>3. At(to)' = At(to) \cup {p} /\ p \notin At(to)
    BY <1>1 DEF At
  <1>4. Cardinality(At(from)') = Cardinality(At(from)) - 1
    BY <1>2, AtIsFinite, FS_RemoveElement
  <1>5. Cardinality(At(to)') = Cardinality(At(to)) + 1
    BY <1>3, AtIsFinite, FS_AddElement
  <1> QED BY <1>4, <1>5

(* ... no other set changes. *)
LEMMA OthersStay ==
  ASSUME QueueTypes, NEW p \in Producers, NEW from, NEW to, NEW w, w # from, w # to,
         step[p] = from, step' = [step EXCEPT ![p] = to]
  PROVE  At(w)' = At(w)
  BY DEF QueueTypes, At

(* When a producer that is idle looks for room, at most all the others have
   seen room and not yet counted their report. *)
LEMMA OthersAtMost ==
  ASSUME NEW p \in Producers, step[p] = "idle"
  PROVE  Cardinality(At("tested")) <= Cardinality(Producers) - 1
  <1>1. At("tested") \subseteq Producers \ {p}
    BY DEF At
  <1>2. /\ IsFiniteSet(Producers \ {p})
        /\ Cardinality(Producers \ {p}) = Cardinality(Producers) - 1
    BY ConstantsOK, FS_RemoveElement DEF ConstantsOK
  <1>3. Cardinality(At("tested")) <= Cardinality(Producers \ {p})
    BY <1>1, <1>2, FS_Subset
  <1> QED BY <1>2, <1>3

LEMMA LimitType == Limit \in Nat /\ Limit >= QueueSize /\ Cardinality(Producers) \in Nat
  <1>1. Cardinality(Producers) \in Nat /\ Cardinality(Producers) # 0
    BY ConstantsOK, FS_CardinalityType, FS_EmptySet DEF ConstantsOK
  <1> QED BY <1>1, ConstantsOK DEF Limit, ConstantsOK

(* A step of the program that concerns the queue is one of the channel's. *)
LEMMA QueueSteps ==
  ASSUME [Next]_vars
  PROVE  Channel!Queueing \/ UNCHANGED <<step, queuedCount, queue>>
  <1>1. ASSUME NEW h \in Hosts, Accepted(h) PROVE UNCHANGED <<step, queuedCount, queue>>
    BY <1>1 DEF Accepted, Channel!Establish, Channel!queueVars
  <1>2. CASE Channel!Link
    BY <1>2 DEF Channel!Link, Channel!OnTimeout, Channel!OnConnected,
                Channel!OnDisconnected, Channel!OnMessageCTRL, Channel!queueVars
  <1>3. CASE OnTimeout \/ OnConnected \/ OnDisconnected \/ \E r \in requests : Refused(r)
    BY <1>3 DEF OnTimeout, OnConnected, OnDisconnected, Refused, channelVars
  <1>4. CASE UNCHANGED <<link, online, timer, requests, channelVars>> \/ UNCHANGED vars
    BY <1>4 DEF vars, channelVars
  <1> QED BY <1>1, <1>2, <1>3, <1>4 DEF Next

LEMMA QueueingKeeps ==
  ASSUME QueueInv, Channel!Queueing
  PROVE  QueueInv'
  <1> DEFINE tested == Cardinality(At("tested"))
             counted == Cardinality(At("counted"))
  <1>0. /\ tested \in Nat /\ counted \in Nat /\ Limit \in Nat /\ Len(queue) \in Nat
        /\ queuedCount = Len(queue) + counted /\ queuedCount + tested <= Limit
        /\ queue \in Seq(Producers) /\ QueueTypes
    BY AtIsFinite, LimitType DEF QueueInv, QueueTypes, Counts
  <1>l. Limit' = Limit
    BY DEF Limit
  <1>1. ASSUME NEW p \in Producers, NEW kind, Channel!TestRoom(p, kind)
        PROVE  QueueInv'
    <2>1. /\ step[p] = "idle" /\ step' = [step EXCEPT ![p] = "tested"]
          /\ queuedCount < QueueSize /\ UNCHANGED <<queuedCount, queue>>
      BY <1>1 DEF Channel!TestRoom
    <2>2. At("counted")' = At("counted") /\ tested' = tested + 1
      BY <1>0, <2>1, Moves, OthersStay
    <2>3. tested <= Cardinality(Producers) - 1
      BY <2>1, OthersAtMost
    <2>4. queuedCount + tested + 1 <= Limit
      BY <1>0, <2>1, <2>3, LimitType, ConstantsOK DEF Limit, ConstantsOK
    <2>5. QueueTypes'
      BY <1>0, <2>1 DEF QueueTypes
    <2> HIDE DEF tested
    <2>6. Counts'
      BY <1>0, <1>l, <2>1, <2>2, <2>4 DEF Counts, tested
    <2> QED BY <2>5, <2>6 DEF QueueInv
  <1>2. ASSUME NEW p \in Producers, Channel!CountReport(p) PROVE QueueInv'
    <2>1. /\ step[p] = "tested" /\ step' = [step EXCEPT ![p] = "counted"]
          /\ queuedCount' = queuedCount + 1 /\ queue' = queue
      BY <1>2 DEF Channel!CountReport
    <2>2. tested' = tested - 1 /\ counted' = counted + 1
      BY <1>0, <2>1, Moves
    <2>3. QueueTypes'
      BY <1>0, <2>1 DEF QueueTypes
    <2>4. Counts'
      BY <1>0, <1>l, <2>1, <2>2 DEF Counts
    <2> QED BY <2>3, <2>4 DEF QueueInv
  <1>3. ASSUME NEW p \in Producers, Channel!PostReport(p) PROVE QueueInv'
    <2>1. /\ step[p] = "counted" /\ step' = [step EXCEPT ![p] = "idle"]
          /\ queuedCount' = queuedCount /\ queue' = Append(queue, p)
      BY <1>3 DEF Channel!PostReport
    <2>2. At("tested")' = At("tested") /\ counted' = counted - 1
      BY <1>0, <2>1, Moves, OthersStay
    <2>3. Len(queue') = Len(queue) + 1 /\ queue' \in Seq(Producers)
      BY <1>0, <2>1
    <2>4. QueueTypes'
      BY <1>0, <2>1, <2>3 DEF QueueTypes
    <2>5. Counts'
      BY <1>0, <1>l, <2>1, <2>2, <2>3 DEF Counts
    <2> QED BY <2>4, <2>5 DEF QueueInv
  <1>4. CASE Channel!SendAsync
    <2>1. /\ queuedCount' = queuedCount - 1 /\ step' = step
          /\ Len(queue') = Len(queue) - 1 /\ queue' \in Seq(Producers)
      BY <1>0, <1>4 DEF Channel!SendAsync
    <2>2. At("tested")' = At("tested") /\ At("counted")' = At("counted")
      BY <2>1 DEF At
    <2>3. QueueTypes'
      BY <1>0, <2>1 DEF QueueTypes
    <2>4. Counts'
      BY <1>0, <1>l, <2>1, <2>2 DEF Counts
    <2> QED BY <2>3, <2>4 DEF QueueInv
  <1> QED BY <1>1, <1>2, <1>3, <1>4 DEF Channel!Queueing

LEMMA InitQueue == Init => QueueInv
  <1> SUFFICES ASSUME Init PROVE QueueInv
    OBVIOUS
  <1>1. step = [p \in Producers |-> "idle"] /\ queuedCount = 0 /\ queue = << >>
    BY DEF Init, Channel!Init
  <1>2. At("tested") = {} /\ At("counted") = {}
    BY <1>1 DEF At
  <1>3. Cardinality(At("tested")) = 0 /\ Cardinality(At("counted")) = 0
    BY <1>2, FS_EmptySet
  <1>4. Counts
    BY <1>1, <1>3, LimitType DEF Counts
  <1>5. QueueTypes
    BY <1>1 DEF QueueTypes
  <1> QED BY <1>4, <1>5 DEF QueueInv

LEMMA NextQueue == QueueInv /\ [Next]_vars => QueueInv'
  <1> SUFFICES ASSUME QueueInv, [Next]_vars PROVE QueueInv'
    OBVIOUS
  <1>1. CASE UNCHANGED <<step, queuedCount, queue>>
    BY <1>1 DEF QueueInv, QueueTypes, Counts, At, Limit
  <1> QED BY <1>1, QueueingKeeps, QueueSteps

(* s_reportQueuedCount counts what is queued or about to be, and passes its
   limit by less than the number of producers, however they interleave and
   whatever becomes of the session. *)
THEOREM CountIsQueue == Spec => []CountMatchesQueue
  <1>1. QueueInv => CountMatchesQueue
    BY CountsMatch DEF QueueInv
  <1> QED BY InitQueue, NextQueue, <1>1, PTL DEF Spec

-----------------------------------------------------------------------------
(* Each step of the program is a step of the bounded queue or leaves it. *)
LEMMA NextSimulates ==
  ASSUME QueueInv, [Next]_vars
  PROVE  [Channel!Abstract!Next]_queue
  <1>1. ASSUME NEW p \in Producers, Channel!PostReport(p) PROVE Channel!Abstract!Next
    <2>1. p \in At("counted")
      BY <1>1 DEF Channel!PostReport, At
    <2>2. Cardinality(At("counted")) # 0 /\ Cardinality(At("counted")) \in Nat
      BY <2>1, AtIsFinite, FS_EmptySet
    <2>3. Cardinality(At("tested")) \in Nat /\ Limit \in Nat /\ Len(queue) \in Nat
      BY AtIsFinite, LimitType DEF QueueInv, QueueTypes
    <2>4. Len(queue) < Limit
      BY <2>2, <2>3 DEF QueueInv, Counts
    <2>5. Limit = Channel!Limit
      BY DEF Limit, Channel!Limit, Cardinality, Channel!Cardinality
    <2>6. Channel!Abstract!Put(p)
      BY <1>1, <2>4, <2>5 DEF Channel!Abstract!Put, Channel!PostReport
    <2> QED BY <2>6 DEF Channel!Abstract!Next, Channel!Report
  <1>2. CASE Channel!SendAsync
    BY <1>2 DEF Channel!SendAsync, Channel!Abstract!Next, Channel!Abstract!Take
  <1>3. ASSUME NEW p \in Producers,
               Channel!CountReport(p) \/ \E kind \in Channel!Kinds : Channel!TestRoom(p, kind)
        PROVE  queue' = queue
    BY <1>3 DEF Channel!CountReport, Channel!TestRoom
  <1> QED BY <1>1, <1>2, <1>3, QueueSteps DEF Channel!Queueing

(* The event queue of the channel's thread, between any number of producers
   and the sender, implements a bounded queue, however the session and the
   connections come and go. *)
THEOREM QueueIsImplemented == Spec => ImplementsBoundedQueue
  <1>1. Init => Channel!Abstract!Init
    BY DEF Init, Channel!Init, Channel!Abstract!Init
  <1>2. QueueInv /\ [Next]_vars => [Channel!Abstract!Next]_queue
    BY NextSimulates
  <1> QED
    BY <1>1, <1>2, InitQueue, NextQueue, PTL
       DEF Spec, ImplementsBoundedQueue, Channel!ImplementsBoundedQueue, Channel!Abstract!Spec

-----------------------------------------------------------------------------
AlarmInv == kickStatus \in BOOLEAN /\ boxStatus \in BOOLEAN /\ Alarm!OwedIsRemembered

LEMMA HeartbeatKeeps ==
  ASSUME NEW need \in BOOLEAN, NEW kick \in BOOLEAN, NEW box \in BOOLEAN, NEW owing,
         owing \subseteq Alarm!Told(kick, box), Alarm!Heartbeat(need, kick, box, owing),
         boxStatus' = box
  PROVE  /\ kickStatus' \in BOOLEAN
         /\ owed' \subseteq Alarm!Told(kickStatus', boxStatus')
  <1>1. CASE Alarm!Reports(need, kick, box)
    <2>1. owed' = {}
      BY <1>1 DEF Alarm!Heartbeat
    <2>2. kickStatus' = FALSE
      BY <1>1 DEF Alarm!Heartbeat, Alarm!Cleared
    <2> QED BY <2>1, <2>2
  <1>2. CASE ~Alarm!Reports(need, kick, box)
    <2>1. owed' = owing /\ kickStatus' = kick
      BY <1>2 DEF Alarm!Heartbeat, Alarm!Cleared
    <2> QED BY <2>1
  <1> QED BY <1>1, <1>2

LEMMA AlarmKeeps ==
  ASSUME AlarmInv, Alarm!Next
  PROVE  AlarmInv'
  <1>0. /\ kickStatus \in BOOLEAN /\ boxStatus \in BOOLEAN
        /\ owed \subseteq Alarm!Told(kickStatus, boxStatus)
    BY DEF AlarmInv, Alarm!OwedIsRemembered
  <1>s. SUFFICES /\ kickStatus' \in BOOLEAN /\ boxStatus' \in BOOLEAN
                 /\ owed' \subseteq Alarm!Told(kickStatus', boxStatus')
    BY DEF AlarmInv, Alarm!OwedIsRemembered, Alarm!Told
  <1>1. CASE Alarm!OnTimeout
    <2>1. PICK due \in BOOLEAN : Alarm!Heartbeat(due, kickStatus, boxStatus, owed)
      BY <1>1 DEF Alarm!OnTimeout
    <2>2. boxStatus' = boxStatus
      BY <1>1 DEF Alarm!OnTimeout
    <2> QED BY <1>0, <2>1, <2>2, HeartbeatKeeps
  <1>2. CASE Alarm!OnTriggerReport
    <2>1. Alarm!Heartbeat(TRUE, kickStatus, boxStatus, owed) /\ boxStatus' = boxStatus
      BY <1>2 DEF Alarm!OnTriggerReport
    <2> QED BY <1>0, <2>1, HeartbeatKeeps
  <1>3. CASE Alarm!OnHeardBeat
    BY <1>3 DEF Alarm!OnHeardBeat
  <1>4. ASSUME NEW a \in Alarm!Alarms, Alarm!OnAlarm(a)
        PROVE  /\ kickStatus' \in BOOLEAN /\ boxStatus' \in BOOLEAN
               /\ owed' \subseteq Alarm!Told(kickStatus', boxStatus')
    <2> DEFINE kick == kickStatus \/ a = "kick"
               box == boxStatus \/ a = "box"
    <2>1. kick \in BOOLEAN /\ box \in BOOLEAN
      BY <1>0
    <2>2. owed \cup {a} \subseteq Alarm!Told(kick, box)
      <3>1. \A x \in owed : x \in Alarm!Told(kick, box)
        BY <1>0, Zenon DEF Alarm!Told
      <3>2. a \in Alarm!Told(kick, box)
        BY Zenon DEF Alarm!Told, Alarm!Alarms
      <3> QED BY <3>1, <3>2, Zenon
    <2>3. boxStatus' = box /\ Alarm!Heartbeat(TRUE, kick, box, owed \cup {a})
      BY <1>4 DEF Alarm!OnAlarm
    <2> HIDE DEF kick, box
    <2> QED BY <2>1, <2>2, <2>3, HeartbeatKeeps
  <1> QED BY <1>1, <1>2, <1>3, <1>4 DEF Alarm!Next

(* An alarm that the policy store has not been told is in the status that the
   next report of a registered program tells, however often the session was
   lost since the alarm came: only a report, or the board itself, clears it. *)
THEOREM AlarmsAreRemembered == Spec => []Alarm!OwedIsRemembered
  <1>1. Init => AlarmInv
    BY DEF Init, Alarm!Init, AlarmInv, Alarm!OwedIsRemembered
  <1>2. AlarmInv /\ [Next]_vars => AlarmInv'
    <2> SUFFICES ASSUME AlarmInv, [Next]_vars PROVE AlarmInv'
      OBVIOUS
    <2>1. CASE Alarm!Next
      BY <2>1, AlarmKeeps
    <2>2. CASE UNCHANGED alarmVars
      BY <2>2 DEF alarmVars, AlarmInv, Alarm!OwedIsRemembered, Alarm!Told
    <2>3. Alarm!Next \/ UNCHANGED alarmVars
      BY DEF Next, OnTimeout, OnConnected, OnDisconnected, Refused, Accepted, vars
    <2> QED BY <2>1, <2>2, <2>3
  <1>3. AlarmInv => Alarm!OwedIsRemembered
    BY DEF AlarmInv
  <1> QED BY <1>1, <1>2, <1>3, PTL DEF Spec
=============================================================================
