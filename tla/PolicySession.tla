--------------------------- MODULE PolicySession ---------------------------
(***************************************************************************)
(* The session with the policy store (IopAgent/TcpClient.cpp), and what    *)
(* depends on it: the channel of image reports, which a registration sets  *)
(* up (module ReportChannel), and the alarms, which need a registered      *)
(* program (module RealAlarm).  The program connects, registers, and is    *)
(* told in the answer where to report images.  A single-shot timer drives  *)
(* both the reconnection and the repetition of a registration that is      *)
(* refused or not answered in time.                                        *)
(*                                                                         *)
(* A registration is named after its millisecond; its answer counts only   *)
(* if no later registration was sent.  Of the requests on their way, or    *)
(* their answers, only that matters: "current" is the one of the last      *)
(* registration, "stale" one of an earlier one.                            *)
(*                                                                         *)
(* Left out: the messages that set parameters and start or stop the        *)
(* program (modules SpotCheck, ConfigStore).                               *)
(***************************************************************************)
EXTENDS ReportConstants, Sequences

VARIABLES
  link,        \* TcpClient::m_socket->state()
  online,      \* EngineProject::m_policyStoreOnline
  registered,  \* EngineProject::m_registeredState
  timer,       \* is TcpClient::m_timer active, or the first onTimeout posted?
  requests,    \* registrations that the store may still answer
  hostName, mediaTimer, mediaSocket, isOnline, mediaOn,  \* of ReportChannel
  step, queuedCount, queue,
  kickStatus, boxStatus, owed          \* of RealAlarm

Channel == INSTANCE ReportChannel WITH timer <- mediaTimer, socket <- mediaSocket
Alarm == INSTANCE RealAlarm

sessionVars == <<link, online, registered, timer, requests>>
channelVars == <<hostName, mediaTimer, mediaSocket, isOnline, mediaOn,
                 step, queuedCount, queue>>
alarmVars == <<kickStatus, boxStatus, owed>>
vars == <<sessionVars, channelVars, alarmVars>>

-----------------------------------------------------------------------------
(* start posts the first onTimeout. *)
Init ==
  /\ link = "down" /\ online = FALSE /\ registered = FALSE
  /\ timer = TRUE /\ requests = {}
  /\ Channel!Init /\ Alarm!Init

(* registerToPolicyStore: what was asked before becomes stale. *)
Register ==
  requests' = {"current"} \cup (IF requests = {} THEN {} ELSE {"stale"})

(* Fault: the timer is started only when the connection is made or lost. *)
OnTimeoutOnce ==
  /\ timer
  /\ timer' = FALSE
  /\ IF ~online
       THEN link' = "connecting" /\ UNCHANGED requests
       ELSE UNCHANGED link /\ IF registered THEN UNCHANGED requests ELSE Register
  /\ UNCHANGED <<online, registered, channelVars, alarmVars>>

(* onTimeout: connect, or register again. *)
OnTimeout ==
  /\ timer
  /\ timer' = (online /\ ~registered)
  /\ IF ~online
       THEN link' = "connecting" /\ UNCHANGED requests
       ELSE UNCHANGED link /\ IF registered THEN UNCHANGED requests ELSE Register
  /\ UNCHANGED <<online, registered, channelVars, alarmVars>>

(* onConnected *)
OnConnected ==
  /\ link = "connecting"
  /\ link' = "up" /\ online' = TRUE /\ timer' = TRUE
  /\ Register
  /\ UNCHANGED <<registered, channelVars, alarmVars>>

(* onDisconnected: the attempt failed, or the connection is lost, and with it
   the requests and answers on their way. *)
OnDisconnected ==
  /\ link # "down"
  /\ link' = "down" /\ online' = FALSE /\ registered' = FALSE
  /\ timer' = TRUE /\ requests' = {}
  /\ UNCHANGED <<channelVars, alarmVars>>

(* onMessageCTRL, PsCmd_ACK: an answer that refuses, or is late, is ignored. *)
Refused(r) ==
  /\ r \in requests
  /\ requests' = requests \ {r}
  /\ UNCHANGED <<link, online, registered, timer, channelVars, alarmVars>>

(* onMessageCTRL, PsCmd_ACK: the answer names the media server. *)
Accepted(h) ==
  /\ "current" \in requests
  /\ requests' = requests \ {"current"}
  /\ registered' = TRUE
  /\ Channel!Establish(h)
  /\ UNCHANGED <<link, online, timer, alarmVars>>

-----------------------------------------------------------------------------
Next ==
  \/ OnTimeout \/ OnConnected \/ OnDisconnected
  \/ \E r \in requests : Refused(r)
  \/ \E h \in Hosts : Accepted(h)
  \/ (Channel!Link \/ Channel!Queueing) /\ UNCHANGED <<sessionVars, alarmVars>>
  \/ Alarm!Next /\ UNCHANGED <<link, online, timer, requests, channelVars>>

Spec == Init /\ [][Next]_vars

AlarmTick == Alarm!OnTimeout /\ UNCHANGED <<link, online, timer, requests, channelVars>>

(* The session's thread runs.  If the program keeps connecting, it gets through
   at last, and if it keeps registering, the store accepts at last before the
   timer makes the answer stale; losses and refusals may come at any time. *)
SessionFairness ==
  /\ WF_vars(OnTimeout) /\ SF_vars(OnConnected)
  /\ SF_vars(\E h \in Hosts : Accepted(h))

(* The timer of alarms runs, and sessions do not always end before its next
   tick. *)
AlarmFairness == SF_vars(registered /\ AlarmTick)

FairSpec == Spec /\ SessionFairness /\ AlarmFairness /\ Channel!Fairness

-----------------------------------------------------------------------------
TypeOK ==
  /\ link \in {"down", "connecting", "up"}
  /\ online \in BOOLEAN /\ registered \in BOOLEAN /\ timer \in BOOLEAN
  /\ requests \subseteq {"current", "stale"}
  /\ Channel!TypeOK /\ Alarm!TypeOK

(* The program gets registered again and again, however often the connection is
   lost and the store refuses. *)
Registers == []<>registered

(* A registration brings the channel of reports on line, whatever state its
   connection is in and however often it is lost. *)
MediaFollows == registered ~> isOnline

(* The properties of the channel, within the session. *)
CountMatchesQueue == Channel!CountMatchesQueue
ImplementsBoundedQueue == Channel!ImplementsBoundedQueue
QueueDrains == Channel!QueueDrains

(* An alarm of the board is reported, or withdrawn by the board, however the
   session comes and goes: the status of kicks is cleared by a report, and an
   alarm that comes while the program is not registered waits. *)
AlarmsReported == \A a \in Alarm!Alarms : a \in owed ~> a \notin owed
=============================================================================
