------------------------------ MODULE IoBoard ------------------------------
(***************************************************************************)
(* The IO board behind UDP (IOCtrl/PCPUdpCtrl.cpp): the switches whose     *)
(* values the board must know, the commands that the thread of PCPUdpCtrl  *)
(* sends, the messages of the board, and the count of kicks that the board *)
(* announces and the policy store's thread reads and clears.               *)
(*                                                                         *)
(* A switch is set in two steps (Attribute::setValue): its setter posts a  *)
(* command, then its value is stored.  In between, the thread of           *)
(* PCPUdpCtrl may handle a message of the board and read the old value.    *)
(*                                                                         *)
(* The board is external: it may start late and restart, it obeys what it  *)
(* receives, it tells that it has started, forgets whether it was running  *)
(* and keeps its parameters.  Datagrams may be lost, not reordered.        *)
(***************************************************************************)
EXTENDS Integers, Sequences

CONSTANTS
  NoValue,     \* model value: nothing is being set or read
  MaxSets,     \* bound: settings of switches, and kicks
  MaxStarts,   \* bound: starts of the board
  MaxKicks,    \* bound: kicks that the board announces
  MaxQueue     \* bound: commands and messages that wait

(* Does the program run, does the board kick on its own, does it kick at all? *)
Switches == {"enabled", "abnormal", "connected"}

ASSUME ConstantsOK ==
  /\ NoValue \notin Int /\ NoValue \notin [switch : Switches, value : BOOLEAN]
  /\ MaxSets \in Nat /\ MaxStarts \in Nat /\ MaxKicks \in Nat /\ MaxQueue \in Nat

VARIABLES
  value,      \* values of the attributes `enabled', `abnormal_kick', `connected'
  setting,    \* the switch and value being set, or NoValue
  outbox,     \* sendDataAsync calls in the event queue of the thread
  connected,  \* the static flag of onReadyRead
  inbox,      \* messages of the board in the socket
  board,      \* external: is the board up, and the switches as it has them
  kickCount,  \* m_kickCount
  reading,    \* what getNGCount has read and not yet cleared, or NoValue
  reported,   \* kicks that the policy store was told
  history     \* ghosts and counters of bounds: see HistoryInit

switchVars == <<value, setting>>
countVars == <<kickCount, reading, reported>>
vars == <<switchVars, outbox, connected, inbox, board, countVars, history>>

-----------------------------------------------------------------------------
(* A command that sets a switch of the board, or a kick, which has a body. *)
SetCommand(s, v) == [cmd |-> s, value |-> v]
Kick == [cmd |-> "kick", value |-> TRUE]
Commands == {Kick} \cup [cmd : Switches, value : BOOLEAN]

(* Messages of the board: it has started, it is alive, it has kicked; a kick
   stands for the number that a message announces. *)
Messages == {"reboot", "beat", "kicked"}

(* lost: a datagram between the program and a board that was up was lost.
   early: `connected' was sent before the board was up.
   raced: the thread read the old value of a switch that was being set.
   announced: the kicks in the messages received. *)
HistoryInit == [lost |-> FALSE, early |-> FALSE, raced |-> FALSE, announced |-> 0,
                sets |-> 0, starts |-> 0, kicks |-> 0]

Count(field) == [history EXCEPT ![field] = @ + 1]

(* init posts the parameters; the board may not be up yet. *)
Init ==
  /\ value = [s \in Switches |-> s # "enabled"]
  /\ setting = NoValue
  /\ outbox = <<SetCommand("connected", TRUE), SetCommand("abnormal", TRUE)>>
  /\ connected = FALSE /\ inbox = << >>
  /\ board = [up |-> FALSE, enabled |-> FALSE, abnormal |-> FALSE, connected |-> FALSE]
  /\ kickCount = 0 /\ reading = NoValue /\ reported = 0
  /\ history = HistoryInit

Post(c) == Len(outbox) < MaxQueue /\ outbox' = Append(outbox, c)

-----------------------------------------------------------------------------
(* Attribute::setValue: the setter posts RunStart or RunStop if the value of
   `enabled' changes (onStarted, onStopped), and the values of the others in
   any case; ... *)
BeginSet(s, v) ==
  /\ setting = NoValue /\ history.sets < MaxSets
  /\ setting' = [switch |-> s, value |-> v]
  /\ IF s = "enabled" /\ v = value[s] THEN UNCHANGED outbox
     ELSE Post(SetCommand(s, v))
  /\ history' = Count("sets")
  /\ UNCHANGED <<value, connected, inbox, board, countVars>>

(* ... then the value is stored. *)
EndSet ==
  /\ setting # NoValue
  /\ value' = [value EXCEPT ![setting.switch] = setting.value]
  /\ setting' = NoValue
  /\ UNCHANGED <<outbox, connected, inbox, board, countVars, history>>

(* sendData of a kick, by the packet thread. *)
SendKick ==
  /\ history.sets < MaxSets
  /\ value["connected"]
  /\ Post(Kick)
  /\ history' = Count("sets")
  /\ UNCHANGED <<switchVars, connected, inbox, board, countVars>>

-----------------------------------------------------------------------------
(* What writeDatagram is given: a command without a body with its head; of a
   command that has a body, the body alone. *)
Datagram(c) == [cmd |-> c.cmd, value |-> c.value, head |-> c # Kick]

(* The board obeys what it recognises by its head. *)
Obeyed(d) == IF d.head /\ d.cmd \in Switches
             THEN [board EXCEPT ![d.cmd] = d.value] ELSE board

(* The datagram is received or lost; h is the history otherwise. *)
Write(c, h) ==
  \/ board.up /\ board' = Obeyed(Datagram(c)) /\ history' = h
  \/ /\ board' = board
     /\ history' = [h EXCEPT !.lost = @ \/ board.up,
                              !.early = @ \/ (c.cmd = "connected" /\ ~board.up)]

(* sendDataAsync, from the event queue. *)
SendDataAsync ==
  /\ outbox # << >>
  /\ outbox' = Tail(outbox)
  /\ Write(Head(outbox), history)
  /\ UNCHANGED <<switchVars, connected, inbox, countVars>>

(* The first message of the board: one of its parameters is posted again. *)
Resend ==
  IF connected THEN UNCHANGED outbox ELSE Post(SetCommand("abnormal", value["abnormal"]))

Receive(type) ==
  /\ inbox # << >> /\ Head(inbox) = type
  /\ inbox' = Tail(inbox)
  /\ Resend
  /\ connected' = TRUE
  /\ UNCHANGED switchVars

(* The history after a message for which `switches' were read, and `abnormal'
   if it is the first one. *)
Raced(switches) ==
  [history EXCEPT !.raced = @ \/ /\ setting # NoValue
                                 /\ \/ setting.switch \in switches
                                    \/ setting.switch = "abnormal" /\ ~connected]

(* Fault: the board is not told to run after a restart. *)
OnRebootIgnored ==
  /\ Receive("reboot")
  /\ history' = Raced({"enabled"})
  /\ UNCHANGED <<board, countVars>>

(* onReadyRead, UdpCmd_Reboot: if the program runs, the board must; the command
   does not go through the event queue. *)
OnReboot ==
  /\ Receive("reboot")
  /\ IF value["enabled"]
     THEN Write(SetCommand("enabled", TRUE), Raced({"enabled"}))
     ELSE history' = Raced({"enabled"}) /\ UNCHANGED board
  /\ UNCHANGED countVars

(* Any other message: a heartbeat, an answer. *)
OnBeat ==
  /\ Receive("beat")
  /\ history' = Raced({})
  /\ UNCHANGED <<board, countVars>>

(* UdpCmd_Kick_Statistic: the atomic counter is incremented. *)
OnKicked ==
  /\ Receive("kicked")
  /\ kickCount' = kickCount + 1
  /\ history' = [Raced({}) EXCEPT !.announced = @ + 1]
  /\ UNCHANGED <<board, reading, reported>>

-----------------------------------------------------------------------------
(* getNGCount, by the policy store's thread: the count is read and reported,
   ... *)
ReadCount ==
  /\ reading = NoValue
  /\ reading' = kickCount
  /\ reported' = reported + kickCount
  /\ UNCHANGED <<switchVars, outbox, connected, inbox, board, kickCount, history>>

(* Fault: the count is cleared only if it is the one that was read. *)
ClearCountRead ==
  /\ reading # NoValue
  /\ kickCount' = IF kickCount = reading THEN 0 ELSE kickCount
  /\ reading' = NoValue
  /\ UNCHANGED <<switchVars, outbox, connected, inbox, board, reported, history>>

(* ... then cleared. *)
ClearCount ==
  /\ reading # NoValue
  /\ kickCount' = 0 /\ reading' = NoValue
  /\ UNCHANGED <<switchVars, outbox, connected, inbox, board, reported, history>>

-----------------------------------------------------------------------------
(* The board: a message arrives in the socket. *)
Send(m) == Len(inbox) < MaxQueue /\ inbox' = Append(inbox, m)

Board == board.up /\ UNCHANGED <<switchVars, outbox, connected, countVars>>

(* It starts or restarts, and says so; the message may be lost. *)
BoardStarts ==
  /\ history.starts < MaxStarts
  /\ board' = [board EXCEPT !.up = TRUE, !.enabled = FALSE]
  /\ \/ Send("reboot") /\ history' = Count("starts")
     \/ UNCHANGED inbox /\ history' = [Count("starts") EXCEPT !.lost = TRUE]
  /\ UNCHANGED <<switchVars, outbox, connected, countVars>>

BoardBeats ==
  /\ Board /\ Send("beat")
  /\ UNCHANGED <<board, history>>

BoardKicks ==
  /\ Board /\ history.kicks < MaxKicks
  /\ Send("kicked")
  /\ history' = Count("kicks")
  /\ UNCHANGED board

-----------------------------------------------------------------------------
Next ==
  \/ \E s \in Switches, v \in BOOLEAN : BeginSet(s, v)
  \/ EndSet \/ SendKick \/ SendDataAsync
  \/ OnReboot \/ OnBeat \/ OnKicked
  \/ ReadCount \/ ClearCount
  \/ BoardStarts \/ BoardBeats \/ BoardKicks

Spec == Init /\ [][Next]_vars

-----------------------------------------------------------------------------
TypeOK ==
  /\ value \in [Switches -> BOOLEAN]
  /\ setting \in {NoValue} \cup [switch : Switches, value : BOOLEAN]
  /\ outbox \in Seq(Commands) /\ inbox \in Seq(Messages)
  /\ connected \in BOOLEAN
  /\ board \in [up : BOOLEAN, enabled : BOOLEAN, abnormal : BOOLEAN, connected : BOOLEAN]
  /\ kickCount \in Nat /\ reading \in Nat \cup {NoValue} /\ reported \in Nat
  /\ history \in [lost : BOOLEAN, early : BOOLEAN, raced : BOOLEAN, announced : Nat,
                  sets : Nat, starts : Nat, kicks : Nat]

(* When nothing is on its way, a board that has been heard of runs if and only
   if the program does, and kicks as it was configured to, also if it started
   late or restarted; unless a datagram was lost, or the old value of a switch was
   sent while the switch was being set.  Whether it may kick at all is not sent
   again to a board that started late (onReadyRead repeats one of the two
   parameters of init). *)
BoardFollows ==
  (connected /\ setting = NoValue /\ outbox = << >> /\ inbox = << >>
     /\ ~history.lost /\ ~history.raced)
    => \A s \in Switches \ (IF history.early THEN {"connected"} ELSE {}) :
         board[s] = value[s]

(* The kicks of the board that are counted and reported are no
   more than it announced: those that arrive between the read and the clear of
   the counter may be lost, none is reported twice. *)
KicksNeverOvercounted ==
  reported + (IF reading = NoValue THEN kickCount ELSE kickCount - reading)
    <= history.announced
=============================================================================
