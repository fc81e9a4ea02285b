--------------------------- MODULE ReportChannel ---------------------------
(***************************************************************************)
(* The channel on which images are reported (IopAgent/TcpImageReport.cpp): *)
(* its connection to the media server, which a registration names and the  *)
(* channel keeps up, and the queue of reports, which the threads of the    *)
(* multiplers and of the cameras fill and the channel's thread empties.    *)
(*                                                                         *)
(* The length of the queue is kept in an atomic counter next to Qt's event *)
(* queue.  A producer tests the counter, increments it and posts the       *)
(* report: three steps, between which other producers run.                 *)
(*                                                                         *)
(* Left out: encoding and layout of a report, and which of its two forms   *)
(* (original, reduced) the media type asks for.                            *)
(***************************************************************************)
EXTENDS ReportConstants, Sequences

VARIABLES
  hostName,    \* m_hostName
  timer,       \* is m_timer active?
  socket,      \* m_socket->state(): "down", "connecting" or "up"
  isOnline,    \* m_isOnline
  mediaOn,     \* does m_mediaReportType ask for results?
  step,        \* where each producer is in sendImage...ToPolicyStore
  queuedCount, \* s_reportQueuedCount
  queue        \* event queue of the channel's thread: reports

linkVars == <<hostName, timer, socket, isOnline, mediaOn>>
queueVars == <<step, queuedCount, queue>>
vars == <<linkVars, queueVars>>

-----------------------------------------------------------------------------
(* A producer reports nothing, has seen room, or has counted its report. *)
Steps == {"idle", "tested", "counted"}

(* What is reported: the result of an image, or the raw image of a box. *)
Kinds == {"Result", "Raw"}

(* A report in the queue, known by the thread that made it. *)
Report == Producers

Init ==
  /\ hostName = NoHost /\ timer = FALSE
  /\ socket = "down" /\ isOnline = FALSE /\ mediaOn = FALSE
  /\ step = [p \in Producers |-> "idle"]
  /\ queuedCount = 0 /\ queue = << >>

-----------------------------------------------------------------------------
(* establisthTcpReport, called by TcpClient when the registration is answered. *)
Establish(h) ==
  /\ hostName' = h /\ timer' = TRUE
  /\ UNCHANGED <<socket, isOnline, mediaOn, queueVars>>

(* onTimeout: while off line, connect, and look again in 5 s; connectToHost does
   nothing if the socket is already connecting. *)
OnTimeout ==
  /\ timer
  /\ timer' = ~isOnline
  /\ socket' = IF isOnline THEN socket ELSE "connecting"
  /\ UNCHANGED <<hostName, isOnline, mediaOn, queueVars>>

(* onConnected; it also asks for the creation of the channel. *)
OnConnected ==
  /\ socket = "connecting"
  /\ socket' = "up" /\ isOnline' = TRUE
  /\ UNCHANGED <<hostName, timer, mediaOn, queueVars>>

(* Fault: the loss of the connection is only noted. *)
OnDisconnectedNoted ==
  /\ socket # "down"
  /\ socket' = "down" /\ isOnline' = FALSE
  /\ UNCHANGED <<hostName, timer, mediaOn, queueVars>>

(* onDisconnected: the attempt failed, or the connection is lost and with it the
   messages on their way.  The media type stays. *)
OnDisconnected ==
  /\ socket # "down"
  /\ socket' = "down" /\ isOnline' = FALSE /\ timer' = TRUE
  /\ UNCHANGED <<hostName, mediaOn, queueVars>>

(* onMessageCTRL: the answer to the creation, or a later change of the type. *)
OnMessageCTRL(on) ==
  /\ socket = "up"
  /\ mediaOn' = on
  /\ UNCHANGED <<hostName, timer, socket, isOnline, queueVars>>

-----------------------------------------------------------------------------
(* sendImageResultToPolicyStore, sendImageDataToPolicyStore: the report is
   wanted and there is room; ... *)
TestRoom(p, kind) ==
  /\ step[p] = "idle"
  /\ isOnline /\ (kind = "Raw" \/ mediaOn)
  /\ queuedCount < QueueSize
  /\ step' = [step EXCEPT ![p] = "tested"]
  /\ UNCHANGED <<linkVars, queuedCount, queue>>

(* Fault: the counter is a plain integer that is set from the queue. *)
CountStored(p) ==
  /\ step[p] = "tested"
  /\ queuedCount' = Len(queue) + 1
  /\ step' = [step EXCEPT ![p] = "counted"]
  /\ UNCHANGED <<linkVars, queue>>

(* ... the report is counted ... *)
CountReport(p) ==
  /\ step[p] = "tested"
  /\ queuedCount' = queuedCount + 1
  /\ step' = [step EXCEPT ![p] = "counted"]
  /\ UNCHANGED <<linkVars, queue>>

(* ... and posted. *)
PostReport(p) ==
  /\ step[p] = "counted"
  /\ queue' = Append(queue, p)
  /\ step' = [step EXCEPT ![p] = "idle"]
  /\ UNCHANGED <<linkVars, queuedCount>>

(* Fault: the counter is decremented after the early returns, so that a report
   that cannot be written stays counted. *)
SendAsyncUncounted ==
  /\ queue # << >>
  /\ queue' = Tail(queue)
  /\ queuedCount' = IF socket = "up" THEN queuedCount - 1 ELSE queuedCount
  /\ UNCHANGED <<linkVars, step>>

(* Fault: when the connection is down the reports that wait are dropped. *)
SendAsyncDropping ==
  /\ queue # << >>
  /\ queue' = IF socket = "up" THEN Tail(queue) ELSE << >>
  /\ queuedCount' = queuedCount - (Len(queue) - Len(queue'))
  /\ UNCHANGED <<linkVars, step>>

(* sendImageResultToPolicyStoreAsync, sendImageDataToPolicyStoreAsync: the
   report leaves the queue, whether or not it can be written. *)
SendAsync ==
  /\ queue # << >>
  /\ queue' = Tail(queue)
  /\ queuedCount' = queuedCount - 1
  /\ UNCHANGED <<linkVars, step>>

-----------------------------------------------------------------------------
(* What the channel's own thread does about the connection. *)
Link == OnTimeout \/ OnConnected \/ OnDisconnected
          \/ \E on \in BOOLEAN : OnMessageCTRL(on)

(* What happens to the queue. *)
Queueing ==
  \/ \E p \in Producers : \/ \E kind \in Kinds : TestRoom(p, kind)
                          \/ CountReport(p) \/ PostReport(p)
  \/ SendAsync

Next == (\E h \in Hosts : Establish(h)) \/ Link \/ Queueing

Spec == Init /\ [][Next]_vars

(* The channel's thread runs, its timer fires, a producer that has counted a
   report posts it, and if the channel keeps connecting, one attempt succeeds;
   losses may come at any time, and nobody has to report anything. *)
Fairness ==
  /\ WF_vars(SendAsync) /\ \A p \in Producers : WF_vars(PostReport(p))
  /\ WF_vars(OnTimeout) /\ SF_vars(OnConnected)

-----------------------------------------------------------------------------
TypeOK ==
  /\ hostName \in Hosts \cup {NoHost}
  /\ timer \in BOOLEAN /\ isOnline \in BOOLEAN /\ mediaOn \in BOOLEAN
  /\ socket \in {"down", "connecting", "up"}
  /\ step \in [Producers -> Steps]
  /\ queuedCount \in Int
  /\ queue \in Seq(Report)

At(where) == {p \in Producers : step[p] = where}

(* The most reports that can wait: each producer but one may have seen the last
   free place. *)
Limit == QueueSize + Cardinality(Producers) - 1

(* The counter counts the reports in the event queue and those about to be
   posted, and is never more than one report per other producer above its limit
   (s_reportQueuedCount is tested and incremented in two steps). *)
CountMatchesQueue ==
  /\ queuedCount = Len(queue) + Cardinality(At("counted"))
  /\ queuedCount + Cardinality(At("tested")) <= Limit

(* The queue between the threads of producers and of the channel is a bounded
   queue: reports leave in the order of posting, one by one, none is dropped on
   the way, and at most Limit wait. *)
Abstract == INSTANCE BoundedQueue WITH
              items <- queue, Items <- Report, Capacity <- Limit
ImplementsBoundedQueue == Abstract!Spec

(* Room comes back, whatever becomes of the connection: reports that cannot be
   written are uncounted too. *)
QueueDrains == []<>(queuedCount < QueueSize)
=============================================================================
