------------------------------ MODULE RealAlarm ------------------------------
(***************************************************************************)
(* Alarms (IopAgent/RealAlarm.cpp): every two seconds the module reports to *)
(* the policy store if something is wrong; alarms of the board are         *)
(* reported at once.  Nothing can be reported while the program is not     *)
(* registered: alarms wait.                                                *)
(*                                                                         *)
(* The handlers run on one thread.  `registered' belongs to the session    *)
(* (module PolicySession).                                                 *)
(*                                                                         *)
(* Left out: the state of the connection to the board and of the cameras,  *)
(* and the interval of reports, any of which may make a report due; the    *)
(* light of the board, which the timer sends to it, and what is only       *)
(* passed on to the board.                                                 *)
(***************************************************************************)

VARIABLES
  registered,   \* EngineProject::m_isRegistaredFlag
  kickStatus,   \* is m_kickAckStatus STATE_ABNORMAL?
  boxStatus,    \* is m_boxStatus STATE_ABNORMAL?
  owed          \* ghost: alarms that the policy store should be told

vars == <<registered, kickStatus, boxStatus, owed>>

-----------------------------------------------------------------------------
Alarms == {"kick", "box"}

Init ==
  /\ kickStatus = FALSE /\ boxStatus = FALSE
  /\ owed = {}

(* Is a report made: one is asked for, or something is wrong, or one is due? *)
Reports(need, kick, box) == registered /\ (need \/ kick \/ box)

Told(kick, box) ==
  {a \in Alarms : (a = "kick" /\ kick) \/ (a = "box" /\ box)}

(* Fault: the status of kicks is cleared whether or not it was reported. *)
ClearedAlways(kick, report) == FALSE

(* m_kickAckStatus after a heartbeat. *)
Cleared(kick, report) == kick /\ ~report

(* heartbeatToPolicyStore, with the state that its caller has left: the report
   tells what is wrong with kicks and boxes, and clears the status of kicks. *)
Heartbeat(need, kick, box, owing) ==
  LET report == Reports(need, kick, box) IN
  /\ kickStatus' = Cleared(kick, report)
  /\ owed' = IF report THEN owing \ Told(kick, box) ELSE owing

(* onTimeout, every two seconds. *)
OnTimeout ==
  /\ \E due \in BOOLEAN : Heartbeat(due, kickStatus, boxStatus, owed)
  /\ UNCHANGED <<registered, boxStatus>>

(* onTriggerReport: the packet thread has stopped the line. *)
OnTriggerReport ==
  /\ Heartbeat(TRUE, kickStatus, boxStatus, owed)
  /\ UNCHANGED <<registered, boxStatus>>

(* onUdpIoAlarm, UdpCmd_HeardBeat: the board says that all is well. *)
OnHeardBeat ==
  /\ kickStatus' = FALSE /\ boxStatus' = FALSE /\ owed' = {}
  /\ UNCHANGED registered

(* onUdpIoAlarm, UdpCmd_KickStateNg and UdpCmd_BoxFull: report at once. *)
OnAlarm(a) ==
  LET kick == kickStatus \/ a = "kick"
      box == boxStatus \/ a = "box"
  IN
  /\ boxStatus' = box
  /\ Heartbeat(TRUE, kick, box, owed \cup {a})
  /\ UNCHANGED registered

-----------------------------------------------------------------------------
Next ==
  \/ OnTimeout \/ OnTriggerReport \/ OnHeardBeat
  \/ \E a \in Alarms : OnAlarm(a)

-----------------------------------------------------------------------------
TypeOK ==
  /\ kickStatus \in BOOLEAN /\ boxStatus \in BOOLEAN
  /\ owed \subseteq Alarms

(* What is owed is not forgotten: it is in the status that the next report of a
   registered program tells. *)
OwedIsRemembered ==
  owed \subseteq Told(kickStatus, boxStatus)
=============================================================================
