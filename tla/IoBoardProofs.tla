--------------------------- MODULE IoBoardProofs ---------------------------
(***************************************************************************)
(* Proofs about the IO board: its types, and that the kicks reported are   *)
(* never more than the board announced, for any number of kicks, restarts  *)
(* and settings, and any interleaving of the reading of the counter with   *)
(* the messages of the board.                                              *)
(***************************************************************************)
EXTENDS IoBoard, SequenceTheorems, TLAPS

(* Sets of values, named so that the steps stay readable. *)
History == [lost : BOOLEAN, early : BOOLEAN, raced : BOOLEAN, announced : Nat,
            sets : Nat, starts : Nat, kicks : Nat]

BoardState == [up : BOOLEAN, enabled : BOOLEAN, abnormal : BOOLEAN, connected : BOOLEAN]

-----------------------------------------------------------------------------
LEMMA CommandTypes ==
  /\ \A s \in Switches, v \in BOOLEAN : SetCommand(s, v) \in Commands
  /\ Kick \in Commands
  /\ \A c \in Commands : c.value \in BOOLEAN
  <1>1. \A s \in Switches, v \in BOOLEAN : SetCommand(s, v) \in Commands
    BY DEF SetCommand, Commands
  <1>2. ASSUME NEW c \in Commands PROVE c.value \in BOOLEAN
    <2>1. CASE c = Kick
      BY <2>1 DEF Kick
    <2>2. CASE c \in [cmd : Switches, value : BOOLEAN]
      BY <2>2
    <2> QED BY <2>1, <2>2 DEF Commands
  <1> QED BY <1>1, <1>2 DEF Commands

LEMMA InitTypes == Init => TypeOK
  <1> SUFFICES ASSUME Init PROVE TypeOK
      OBVIOUS
  <1>1. value \in [Switches -> BOOLEAN]
    BY Zenon DEF Init
  <1>2. outbox \in Seq(Commands) /\ inbox \in Seq(Messages)
    <2>1. SetCommand("connected", TRUE) \in Commands /\ SetCommand("abnormal", TRUE) \in Commands
      BY CommandTypes DEF Switches
    <2>2. \A x, y \in Commands : <<x, y>> \in Seq(Commands)
      OBVIOUS
    <2>3. << >> \in Seq(Messages)
      OBVIOUS
    <2> QED BY <2>1, <2>2, <2>3, Zenon DEF Init
  <1>3. history \in History
    BY DEF Init, HistoryInit, History
  <1>4. board \in BoardState
    BY DEF Init, BoardState
  <1> QED
    BY <1>1, <1>2, <1>3, <1>4 DEF Init, TypeOK, History, BoardState

(* A datagram that is received or lost leaves the board and the history typed,
   and announces nothing. *)
LEMMA WriteTypes ==
  ASSUME TypeOK, NEW c \in Commands, NEW h \in History, Write(c, h)
  PROVE  /\ board' \in BoardState /\ history' \in History
         /\ history'.announced = h.announced
  <1>1. board \in BoardState
    BY DEF TypeOK, BoardState
  <1>2. Obeyed(Datagram(c)) \in BoardState
    <2>1. c.value \in BOOLEAN
      BY CommandTypes
    <2>2. CASE c.cmd = "enabled"
      BY <1>1, <2>1, <2>2 DEF Obeyed, Datagram, BoardState
    <2>3. CASE c.cmd = "abnormal"
      BY <1>1, <2>1, <2>3 DEF Obeyed, Datagram, BoardState
    <2>4. CASE c.cmd = "connected"
      BY <1>1, <2>1, <2>4 DEF Obeyed, Datagram, BoardState
    <2>5. CASE c.cmd \notin Switches
      BY <1>1, <2>5 DEF Obeyed, Datagram
    <2> QED BY <2>2, <2>3, <2>4, <2>5 DEF Switches
  <1>3. CASE board' = Obeyed(Datagram(c)) /\ history' = h
    BY <1>2, <1>3
  <1>4. CASE /\ board' = board
             /\ history' = [h EXCEPT !.lost = @ \/ board.up,
                             !.early = @ \/ (c.cmd = "connected" /\ ~board.up)]
    BY <1>1, <1>4 DEF History, BoardState
  <1> QED
    BY <1>3, <1>4 DEF Write

(* What every message of the board has in common. *)
LEMMA ReceiveTypes ==
  ASSUME TypeOK, NEW type, Receive(type)
  PROVE  /\ outbox' \in Seq(Commands) /\ inbox' \in Seq(Messages)
         /\ connected' \in BOOLEAN
  <1>1. value["abnormal"] \in BOOLEAN /\ "abnormal" \in Switches
    BY DEF TypeOK, Switches
  <1>2. SetCommand("abnormal", value["abnormal"]) \in Commands
    BY <1>1, CommandTypes
  <1>3. outbox' = outbox \/ outbox' = Append(outbox, SetCommand("abnormal", value["abnormal"]))
    BY DEF Receive, Resend, Post
  <1>4. outbox \in Seq(Commands) /\ inbox \in Seq(Messages)
    BY DEF TypeOK
  <1>5. outbox' \in Seq(Commands)
    BY <1>2, <1>3, <1>4
  <1>6. inbox' \in Seq(Messages) /\ connected' \in BOOLEAN
    BY <1>4 DEF Receive
  <1> QED BY <1>5, <1>6

LEMMA RacedTypes ==
  ASSUME TypeOK, NEW S
  PROVE  Raced(S) \in History /\ Raced(S).announced = history.announced
  <1> DEFINE r == \/ history.raced
                  \/ /\ setting # NoValue
                     /\ \/ setting.switch \in S
                        \/ setting.switch = "abnormal" /\ ~connected
  <1>1. history \in History
    BY DEF TypeOK, History
  <1>2. Raced(S) = [history EXCEPT !.raced = r]
    BY Zenon DEF Raced
  <1>3. r \in BOOLEAN
    OBVIOUS
  <1> HIDE DEF r
  <1> QED BY <1>1, <1>2, <1>3 DEF History

LEMMA CountTypes ==
  ASSUME TypeOK, NEW f \in {"sets", "starts", "kicks"}
  PROVE  Count(f) \in History /\ Count(f).announced = history.announced
  BY DEF TypeOK, Count, History

-----------------------------------------------------------------------------
(* One step per action; first what the actions of the program do, ... *)
LEMMA NextTypes ==
  ASSUME TypeOK, [Next]_vars
  PROVE  TypeOK'
  <1> USE ConstantsOK
  <1>0. /\ value \in [Switches -> BOOLEAN]
        /\ setting \in {NoValue} \cup [switch : Switches, value : BOOLEAN]
        /\ outbox \in Seq(Commands) /\ inbox \in Seq(Messages)
        /\ connected \in BOOLEAN /\ board \in BoardState
        /\ kickCount \in Nat /\ reading \in Nat \cup {NoValue} /\ reported \in Nat
        /\ history \in History
    BY DEF TypeOK, BoardState, History
  <1> DEFINE Goal == /\ value' \in [Switches -> BOOLEAN]
                     /\ setting' \in {NoValue} \cup [switch : Switches, value : BOOLEAN]
                     /\ outbox' \in Seq(Commands) /\ inbox' \in Seq(Messages)
                     /\ connected' \in BOOLEAN /\ board' \in BoardState
                     /\ kickCount' \in Nat /\ reading' \in Nat \cup {NoValue}
                     /\ reported' \in Nat /\ history' \in History
  <1>s. SUFFICES Goal
    BY Zenon DEF TypeOK, BoardState, History
  <1>1. ASSUME NEW s \in Switches, NEW v \in BOOLEAN, BeginSet(s, v) PROVE Goal
    <2>1. history' \in History
      BY <1>1, CountTypes DEF BeginSet
    <2>2. outbox' = outbox \/ outbox' = Append(outbox, SetCommand(s, v))
      BY <1>1 DEF BeginSet, Post
    <2>3. outbox' \in Seq(Commands)
      <3>1. SetCommand(s, v) \in Commands
        BY CommandTypes
      <3> QED BY <1>0, <2>2, <3>1
    <2>4. setting' \in [switch : Switches, value : BOOLEAN]
      BY <1>1 DEF BeginSet
    <2> QED BY <1>0, <1>1, <2>1, <2>3, <2>4, Zenon DEF BeginSet, countVars
  <1>2. ASSUME EndSet PROVE Goal
    <2>1. setting \in [switch : Switches, value : BOOLEAN]
      BY <1>0, <1>2 DEF EndSet
    <2>2. setting.value \in BOOLEAN
      BY <2>1
    <2>3. value' \in [Switches -> BOOLEAN]
      BY <1>0, <1>2, <2>2 DEF EndSet
    <2> QED BY <1>0, <1>2, <2>3, Zenon DEF EndSet, countVars
  <1>3. ASSUME SendKick PROVE Goal
    <2>1. history' \in History
      BY <1>3, CountTypes DEF SendKick
    <2>2. outbox' \in Seq(Commands)
      BY <1>0, <1>3, CommandTypes DEF SendKick, Post
    <2> QED BY <1>0, <1>3, <2>1, <2>2, Zenon DEF SendKick, countVars, switchVars
  <1>4. ASSUME SendDataAsync PROVE Goal
    <2>1. Head(outbox) \in Commands /\ outbox' \in Seq(Commands)
      BY <1>0, <1>4 DEF SendDataAsync
    <2>2. Write(Head(outbox), history)
      BY <1>4 DEF SendDataAsync
    <2>3. board' \in BoardState /\ history' \in History
      BY <1>0, <2>1, <2>2, WriteTypes
    <2> QED BY <1>0, <1>4, <2>1, <2>3, Zenon DEF SendDataAsync, countVars, switchVars
  <1>5. ASSUME OnReboot PROVE Goal
    <2>1. Receive("reboot")
      BY <1>5 DEF OnReboot
    <2>2. /\ outbox' \in Seq(Commands) /\ inbox' \in Seq(Messages)
          /\ connected' \in BOOLEAN
      BY <2>1, ReceiveTypes
    <2>3. Raced({"enabled"}) \in History
      BY RacedTypes
    <2>4. SetCommand("enabled", TRUE) \in Commands
      BY CommandTypes DEF Switches
    <2>5. board' \in BoardState /\ history' \in History
      BY <1>0, <1>5, <2>3, <2>4, WriteTypes DEF OnReboot
    <2> QED BY <1>0, <1>5, <2>1, <2>2, <2>5, Zenon DEF OnReboot, Receive, countVars, switchVars
  <1>6. ASSUME OnBeat PROVE Goal
    <2>1. Receive("beat")
      BY <1>6 DEF OnBeat
    <2>2. /\ outbox' \in Seq(Commands) /\ inbox' \in Seq(Messages)
          /\ connected' \in BOOLEAN
      BY <2>1, ReceiveTypes
    <2>3. history' \in History
      BY <1>6, RacedTypes DEF OnBeat
    <2> QED BY <1>0, <1>6, <2>1, <2>2, <2>3, Zenon DEF OnBeat, Receive, countVars, switchVars
  <1>7. ASSUME OnKicked PROVE Goal
    <2>1. Receive("kicked")
      BY <1>7 DEF OnKicked
    <2>2. /\ outbox' \in Seq(Commands) /\ inbox' \in Seq(Messages)
          /\ connected' \in BOOLEAN
      BY <2>1, ReceiveTypes
    <2>3. Raced({}) \in History
      BY RacedTypes
    <2>4. history' \in History
      BY <1>7, <2>3 DEF OnKicked, History
    <2>5. kickCount' \in Nat
      BY <1>0, <1>7 DEF OnKicked
    <2> QED BY <1>0, <1>7, <2>1, <2>2, <2>4, <2>5, Zenon DEF OnKicked, Receive, switchVars
  <1>8. ASSUME ReadCount PROVE Goal
    <2>1. reading' \in Nat /\ reported' \in Nat
      BY <1>0, <1>8 DEF ReadCount
    <2> QED BY <1>0, <1>8, <2>1, Zenon DEF ReadCount, switchVars
  <1>9. ASSUME ClearCount PROVE Goal
    <2>1. kickCount' \in Nat /\ reading' \in {NoValue}
      BY <1>9 DEF ClearCount
    <2> QED BY <1>0, <1>9, <2>1, Zenon DEF ClearCount, switchVars
  (* ... then what the board does. *)
  <1>10. ASSUME BoardStarts PROVE Goal
    <2>1. Count("starts") \in History
      BY CountTypes
    <2>2. history' = Count("starts") \/ history' = [Count("starts") EXCEPT !.lost = TRUE]
      BY <1>10 DEF BoardStarts
    <2>3. history' \in History
      BY <2>1, <2>2 DEF History
    <2>4. inbox' = inbox \/ inbox' = Append(inbox, "reboot")
      BY <1>10 DEF BoardStarts, Send
    <2>5. inbox' \in Seq(Messages)
      BY <1>0, <2>4 DEF Messages
    <2>6. board' \in BoardState
      BY <1>0, <1>10 DEF BoardStarts, BoardState
    <2> QED BY <1>0, <1>10, <2>3, <2>5, <2>6, Zenon DEF BoardStarts, switchVars, countVars
  <1>11. ASSUME BoardBeats PROVE Goal
    <2>1. inbox' \in Seq(Messages)
      BY <1>0, <1>11 DEF BoardBeats, Send, Messages
    <2> QED BY <1>0, <1>11, <2>1, Zenon DEF BoardBeats, Board, switchVars, countVars
  <1>12. ASSUME BoardKicks PROVE Goal
    <2>1. inbox' \in Seq(Messages)
      BY <1>0, <1>12 DEF BoardKicks, Send, Messages
    <2>2. history' \in History
      BY <1>12, CountTypes DEF BoardKicks
    <2> QED BY <1>0, <1>12, <2>1, <2>2, Zenon DEF BoardKicks, Board, switchVars, countVars
  <1>13. ASSUME UNCHANGED vars PROVE Goal
    BY <1>0, <1>13, Zenon DEF vars, switchVars, countVars
  <1> HIDE DEF Goal
  <1> QED
    BY <1>1, <1>2, <1>3, <1>4, <1>5, <1>6, <1>7, <1>8, <1>9, <1>10, <1>11, <1>12,
       <1>13 DEF Next

(* The variables of PCPUdpCtrl and of the board keep their types, whatever the
   board sends and when it restarts. *)
THEOREM TypesAreKept == Spec => []TypeOK
  <1>1. TypeOK /\ [Next]_vars => TypeOK'
    BY NextTypes
  <1> QED
    BY InitTypes, <1>1, PTL DEF Spec

-----------------------------------------------------------------------------
(* The counter never falls below what was read of it and is not yet cleared:
   without this, clearing could take away kicks that were reported. *)
ReadIsCounted == reading # NoValue => reading <= kickCount

CountInv == ReadIsCounted /\ KicksNeverOvercounted

LEMMA AnnouncedSteps ==
  ASSUME TypeOK, [Next]_vars
  PROVE  \/ history'.announced = history.announced
         \/ OnKicked /\ history'.announced = history.announced + 1
  <1>1. ASSUME NEW s \in Switches, NEW v \in BOOLEAN, BeginSet(s, v)
        PROVE history'.announced = history.announced
    BY <1>1, CountTypes DEF BeginSet
  <1>2. ASSUME EndSet \/ ReadCount \/ ClearCount \/ BoardBeats \/ UNCHANGED vars
        PROVE history'.announced = history.announced
    BY <1>2 DEF EndSet, ReadCount, ClearCount, BoardBeats, vars
  <1>3. ASSUME SendKick PROVE history'.announced = history.announced
    BY <1>3, CountTypes DEF SendKick
  <1>4. ASSUME SendDataAsync PROVE history'.announced = history.announced
    <2>1. Head(outbox) \in Commands
      BY <1>4 DEF SendDataAsync, TypeOK
    <2>2. history \in History
      BY DEF TypeOK, History
    <2> QED BY <1>4, <2>1, <2>2, WriteTypes DEF SendDataAsync
  <1>5. ASSUME OnReboot PROVE history'.announced = history.announced
    <2>1. SetCommand("enabled", TRUE) \in Commands
      BY CommandTypes DEF Switches
    <2> QED BY <1>5, <2>1, RacedTypes, WriteTypes DEF OnReboot
  <1>6. ASSUME OnBeat PROVE history'.announced = history.announced
    BY <1>6, RacedTypes DEF OnBeat
  <1>7. ASSUME OnKicked PROVE history'.announced = history.announced + 1
    <2>1. Raced({}) \in History /\ Raced({}).announced = history.announced
      BY RacedTypes
    <2>2. history' = [Raced({}) EXCEPT !.announced = @ + 1]
      BY <1>7 DEF OnKicked
    <2> QED BY <2>1, <2>2 DEF History
  <1>8. ASSUME BoardStarts PROVE history'.announced = history.announced
    <2>1. Count("starts") \in History /\ Count("starts").announced = history.announced
      BY CountTypes
    <2>2. history' = Count("starts") \/ history' = [Count("starts") EXCEPT !.lost = TRUE]
      BY <1>8 DEF BoardStarts
    <2> QED BY <2>1, <2>2 DEF History
  <1>9. ASSUME BoardKicks PROVE history'.announced = history.announced
    BY <1>9, CountTypes DEF BoardKicks
  <1> QED
    BY <1>1, <1>2, <1>3, <1>4, <1>5, <1>6, <1>7, <1>8, <1>9 DEF Next

(* Only three actions change the counter or what is read and reported. *)
LEMMA CountSteps ==
  ASSUME [Next]_vars
  PROVE  OnKicked \/ ReadCount \/ ClearCount \/ UNCHANGED countVars
  BY DEF Next, BeginSet, EndSet, SendKick, SendDataAsync, OnReboot, OnBeat,
         BoardStarts, BoardBeats, Board, BoardKicks, vars

LEMMA NextCounts ==
  ASSUME TypeOK, CountInv, [Next]_vars
  PROVE  CountInv'
  <1> USE ConstantsOK
  <1>0. /\ kickCount \in Nat /\ reported \in Nat /\ history.announced \in Nat
        /\ reading \in Nat \cup {NoValue}
    BY DEF TypeOK
  <1>1. CASE OnKicked
    <2>1. kickCount' = kickCount + 1 /\ UNCHANGED <<reading, reported>>
      BY <1>1 DEF OnKicked
    <2>2. history'.announced = history.announced + 1
      <3>1. Raced({}) \in History /\ Raced({}).announced = history.announced
        BY RacedTypes
      <3> QED BY <1>1, <3>1 DEF OnKicked, History
    <2> QED BY <1>0, <2>1, <2>2 DEF CountInv, ReadIsCounted, KicksNeverOvercounted
  <1>2. CASE ReadCount
    <2>1. /\ reading = NoValue /\ reading' = kickCount
          /\ reported' = reported + kickCount /\ kickCount' = kickCount
          /\ history' = history
      BY <1>2 DEF ReadCount
    <2> QED BY <1>0, <2>1 DEF CountInv, ReadIsCounted, KicksNeverOvercounted
  <1>3. CASE ClearCount
    BY <1>0, <1>3 DEF ClearCount, CountInv, ReadIsCounted, KicksNeverOvercounted
  <1>4. CASE UNCHANGED countVars
    <2>1. history'.announced >= history.announced
      BY <1>0, AnnouncedSteps
    <2>2. history'.announced \in Nat
      BY <1>0, AnnouncedSteps
    <2> QED BY <1>0, <1>4, <2>1, <2>2 DEF countVars, CountInv, ReadIsCounted, KicksNeverOvercounted
  <1> QED BY <1>1, <1>2, <1>3, <1>4, CountSteps

(* No kick of the board is reported twice, although the counter is read and
   cleared by one thread while another one increments it. *)
THEOREM KicksAreNotOvercounted == Spec => []KicksNeverOvercounted
  <1>1. Init => CountInv
    BY DEF Init, HistoryInit, CountInv, ReadIsCounted, KicksNeverOvercounted
  <1>2. TypeOK /\ CountInv /\ [Next]_vars => CountInv'
    BY NextCounts
  <1>3. CountInv => KicksNeverOvercounted
    BY DEF CountInv
  <1> QED
    BY <1>1, <1>2, <1>3, TypesAreKept, PTL DEF Spec

-----------------------------------------------------------------------------
(* What the board will have when the commands that wait have been sent: the last
   one for a switch decides, or what the board has if there is none. *)
LastIs(q, s, v) ==
  \E i \in DOMAIN q : /\ q[i].cmd = s /\ q[i].value = v
                      /\ \A j \in DOMAIN q : j > i => q[j].cmd # s

NoneIn(q, s) == \A i \in DOMAIN q : q[i].cmd # s

EndsIn(q, b, s, v) == LastIs(q, s, v) \/ (NoneIn(q, s) /\ b[s] = v)

Ends(s, v) == EndsIn(outbox, board, s, v)

(* A command that is posted decides about its own switch only. *)
LEMMA Posted ==
  ASSUME NEW q \in Seq(Commands), NEW c \in Commands, NEW s, NEW v, NEW b
  PROVE  /\ c.cmd = s => LastIs(Append(q, c), s, c.value)
         /\ c.cmd # s /\ LastIs(q, s, v) => LastIs(Append(q, c), s, v)
         /\ c.cmd # s /\ NoneIn(q, s) => NoneIn(Append(q, c), s)
         /\ c.cmd # s /\ EndsIn(q, b, s, v) => EndsIn(Append(q, c), b, s, v)
  <1> DEFINE r == Append(q, c)
  <1>1. /\ Len(q) \in Nat /\ DOMAIN q = 1..Len(q)
        /\ DOMAIN r = 1..(Len(q) + 1) /\ r[Len(q) + 1] = c
        /\ \A i \in DOMAIN q : r[i] = q[i]
    BY LenProperties, AppendProperties
  <1> HIDE DEF r
  <1>2. \A i \in DOMAIN r : i \in DOMAIN q \/ i = Len(q) + 1
    BY <1>1
  <1>3. ASSUME c.cmd = s PROVE LastIs(r, s, c.value)
    <2>1. Len(q) + 1 \in DOMAIN r /\ \A j \in DOMAIN r : ~(j > Len(q) + 1)
      BY <1>1
    <2> QED BY <1>1, <1>3, <2>1 DEF LastIs
  <1>4. ASSUME c.cmd # s, LastIs(q, s, v) PROVE LastIs(r, s, v)
    <2>1. PICK i \in DOMAIN q : /\ q[i].cmd = s /\ q[i].value = v
                               /\ \A j \in DOMAIN q : j > i => q[j].cmd # s
      BY <1>4 DEF LastIs
    <2>2. i \in DOMAIN r /\ r[i] = q[i]
      BY <1>1
    <2>3. \A j \in DOMAIN r : j > i => r[j].cmd # s
      BY <1>1, <1>2, <1>4, <2>1
    <2> QED BY <2>1, <2>2, <2>3 DEF LastIs
  <1>5. ASSUME c.cmd # s, NoneIn(q, s) PROVE NoneIn(r, s)
    BY <1>1, <1>2, <1>5 DEF NoneIn
  <1> QED BY <1>3, <1>4, <1>5 DEF EndsIn, r

(* The first command decided only if it was the last for its switch. *)
LEMMA Unposted ==
  ASSUME NEW q \in Seq(Commands), q # << >>, NEW s, NEW v
  PROVE  /\ LastIs(q, s, v) =>
              \/ LastIs(Tail(q), s, v)
              \/ NoneIn(Tail(q), s) /\ Head(q).cmd = s /\ Head(q).value = v
         /\ NoneIn(q, s) => NoneIn(Tail(q), s) /\ Head(q).cmd # s
  <1> DEFINE r == Tail(q)
  <1>1. /\ Len(q) \in Nat \ {0} /\ DOMAIN q = 1..Len(q) /\ Head(q) = q[1]
        /\ r \in Seq(Commands) /\ Len(r) = Len(q) - 1
        /\ \A i \in 1..Len(r) : r[i] = q[i + 1]
    BY LenProperties, HeadTailProperties, EmptySeq
  <1>2. DOMAIN r = 1..(Len(q) - 1)
    BY <1>1, LenProperties
  <1> HIDE DEF r
  <1>3. \A i \in DOMAIN r : i + 1 \in DOMAIN q /\ r[i] = q[i + 1]
    BY <1>1, <1>2
  <1>4. 1 \in DOMAIN q
    BY <1>1
  <1>5. ASSUME LastIs(q, s, v)
        PROVE  LastIs(r, s, v) \/ (NoneIn(r, s) /\ Head(q).cmd = s /\ Head(q).value = v)
    <2>1. PICK i \in DOMAIN q : /\ q[i].cmd = s /\ q[i].value = v
                               /\ \A j \in DOMAIN q : j > i => q[j].cmd # s
      BY <1>5 DEF LastIs
    <2>2. CASE i = 1
      <3>1. \A j \in DOMAIN r : j + 1 > 1
        BY <1>2
      <3>2. NoneIn(r, s)
        BY <1>3, <2>1, <2>2, <3>1 DEF NoneIn
      <3> QED BY <1>1, <2>1, <2>2, <3>2
    <2>3. CASE i # 1
      <3>1. i - 1 \in DOMAIN r /\ r[i - 1] = q[i]
        <4>1. i - 1 \in 1..Len(r) /\ (i - 1) + 1 = i
          BY <1>1, <2>3
        <4> QED BY <1>1, <1>2, <4>1
      <3>2. \A j \in DOMAIN r : j > i - 1 => j + 1 > i
        BY <1>1, <1>2
      <3>3. \A j \in DOMAIN r : j > i - 1 => r[j].cmd # s
        BY <1>3, <2>1, <3>2
      <3> QED BY <2>1, <3>1, <3>3 DEF LastIs
    <2> QED BY <2>2, <2>3
  <1>6. ASSUME NoneIn(q, s) PROVE NoneIn(r, s) /\ Head(q).cmd # s
    BY <1>1, <1>3, <1>4, <1>6 DEF NoneIn
  <1> QED BY <1>5, <1>6 DEF r

(* The board that obeys a command. *)
LEMMA ObeyedParts ==
  ASSUME TypeOK, NEW c \in Commands
  PROVE  /\ Obeyed(Datagram(c)).up = board.up
         /\ \A s \in Switches : Obeyed(Datagram(c))[s] = IF c.cmd = s THEN c.value ELSE board[s]
  <1>1. board \in BoardState
    BY DEF TypeOK, BoardState
  <1>2. CASE c = Kick
    BY <1>1, <1>2 DEF Obeyed, Datagram, Kick, Switches
  <1>3. CASE c # Kick /\ c \in [cmd : Switches, value : BOOLEAN]
    <2>1. c.cmd \in Switches /\ c.value \in BOOLEAN
      BY <1>3
    <2>2. Obeyed(Datagram(c)) = [board EXCEPT ![c.cmd] = c.value]
      BY <1>3, <2>1 DEF Obeyed, Datagram
    <2>3. CASE c.cmd = "enabled"
      BY <1>1, <2>2, <2>3 DEF Switches, BoardState
    <2>4. CASE c.cmd = "abnormal"
      BY <1>1, <2>2, <2>4 DEF Switches, BoardState
    <2>5. CASE c.cmd = "connected"
      BY <1>1, <2>2, <2>5 DEF Switches, BoardState
    <2> QED BY <2>1, <2>3, <2>4, <2>5 DEF Switches
  <1> QED BY <1>2, <1>3 DEF Commands

(* The value that a switch has, or will have when it has been set. *)
Target(s) == IF setting # NoValue /\ setting.switch = s THEN setting.value ELSE value[s]

(* A message that tells of a start waits. *)
Awaited == \E i \in DOMAIN inbox : inbox[i] = "reboot"

(* A board that was heard of is up, and one that is not up does not run. *)
HeardIsUp ==
  /\ connected \/ inbox # << >> => board.up
  /\ ~board.up => ~board.enabled

EnabledQueued ==
  NoneIn(outbox, "enabled") \/ LastIs(outbox, "enabled", Target("enabled"))

ConnectedSent ==
  ~history.lost /\ ~history.early => Ends("connected", Target("connected"))

AbnormalSent ==
  ~history.lost /\ ~history.raced /\ connected => Ends("abnormal", Target("abnormal"))

(* The board may have to wait for the handling of its start, but it never runs,
   or is about to, when the program does not. *)
EnabledSent ==
  ~history.lost /\ ~history.raced =>
    /\ Target("enabled") \/ Ends("enabled", FALSE)
    /\ board.up /\ ~Awaited => Ends("enabled", Target("enabled"))

FollowInv == HeardIsUp /\ EnabledQueued /\ ConnectedSent /\ AbnormalSent /\ EnabledSent

Flags(h) == <<h.lost, h.early, h.raced>>

LEMMA FlagsKept ==
  ASSUME NEW h, NEW k, Flags(h) = Flags(k)
  PROVE  h.lost = k.lost /\ h.early = k.early /\ h.raced = k.raced
  BY DEF Flags

LEMMA TargetTypes ==
  ASSUME TypeOK, NEW s \in Switches
  PROVE  Target(s) \in BOOLEAN
  BY DEF TypeOK, Target

(* Steps that neither post a command nor reach the board. *)
LEMMA AsideFollows ==
  ASSUME FollowInv, UNCHANGED <<outbox, connected, board>>,
         Flags(history') = Flags(history),
         \A s \in Switches : Target(s)' = Target(s),
         inbox' # << >> => inbox # << >> \/ board.up,
         Awaited => Awaited'
  PROVE  FollowInv'
  <1>1. /\ history'.lost = history.lost /\ history'.early = history.early
        /\ history'.raced = history.raced
    BY FlagsKept
  <1>2. /\ Target("enabled")' = Target("enabled") /\ Target("abnormal")' = Target("abnormal")
        /\ Target("connected")' = Target("connected")
    BY DEF Switches
  <1>3. HeardIsUp'
    BY DEF FollowInv, HeardIsUp
  <1>4. EnabledQueued'
    BY <1>2 DEF FollowInv, EnabledQueued
  <1>5. ConnectedSent' /\ AbnormalSent' /\ EnabledSent'
    BY <1>1, <1>2 DEF FollowInv, ConnectedSent, AbnormalSent, EnabledSent, Ends
  <1> QED BY <1>3, <1>4, <1>5 DEF FollowInv

(* A command is posted: a kick, or the value that a switch is being set to. *)
LEMMA PostFollows ==
  ASSUME TypeOK, FollowInv, NEW c \in Commands, outbox' = Append(outbox, c),
         UNCHANGED <<connected, board, inbox>>, Flags(history') = Flags(history),
         \A s \in Switches : Target(s)' = IF c.cmd = s THEN c.value ELSE Target(s)
  PROVE  FollowInv'
  <1>1. /\ history'.lost = history.lost /\ history'.early = history.early
        /\ history'.raced = history.raced
    BY FlagsKept
  <1>2. outbox \in Seq(Commands)
    BY DEF TypeOK
  <1>3. ASSUME NEW s \in Switches, NEW v, EndsIn(outbox, board, s, v)
        PROVE  EndsIn(outbox', board', s, IF c.cmd = s THEN c.value ELSE v)
    <2>1. CASE c.cmd = s
      <3>1. LastIs(Append(outbox, c), s, c.value)
        BY <1>2, <2>1, Posted
      <3> QED BY <2>1, <3>1 DEF EndsIn
    <2>2. CASE c.cmd # s
      <3>1. EndsIn(Append(outbox, c), board, s, v)
        BY <1>2, <1>3, <2>2, Posted
      <3> QED BY <2>2, <3>1
    <2> QED BY <2>1, <2>2
  <1>4. ASSUME NEW s \in Switches, Ends(s, Target(s)) PROVE Ends(s, Target(s))'
    <2>1. PICK v : v = Target(s)
      OBVIOUS
    <2>2. PICK w : w = Target(s)' /\ w = IF c.cmd = s THEN c.value ELSE v
      BY <2>1
    <2>3. EndsIn(outbox', board', s, w)
      BY <1>3, <1>4, <2>1, <2>2 DEF Ends
    <2> QED BY <2>2, <2>3 DEF Ends
  <1>5. /\ Target("enabled") \in BOOLEAN /\ "enabled" \in Switches
        /\ "abnormal" \in Switches /\ "connected" \in Switches
    BY TargetTypes DEF Switches
  <1>6. HeardIsUp'
    BY DEF FollowInv, HeardIsUp
  <1>7. EnabledQueued'
    <2>1. CASE c.cmd = "enabled"
      <3>1. LastIs(Append(outbox, c), "enabled", c.value)
        BY <1>2, <2>1, Posted
      <3>2. Target("enabled")' = c.value
        BY <1>5, <2>1
      <3> QED BY <3>1, <3>2 DEF EnabledQueued
    <2>2. CASE c.cmd # "enabled"
      <3>1. PICK v : v = Target("enabled")
        OBVIOUS
      <3>2. Target("enabled")' = v
        BY <1>5, <2>2, <3>1
      <3>3. NoneIn(outbox, "enabled") \/ LastIs(outbox, "enabled", v)
        BY <3>1 DEF FollowInv, EnabledQueued
      <3>4. NoneIn(outbox', "enabled") \/ LastIs(outbox', "enabled", v)
        BY <1>2, <2>2, <3>3, Posted
      <3> QED BY <3>2, <3>4 DEF EnabledQueued
    <2> QED BY <2>1, <2>2
  <1>8. ConnectedSent' /\ AbnormalSent'
    BY <1>1, <1>4, <1>5 DEF FollowInv, ConnectedSent, AbnormalSent
  <1>9. EnabledSent'
    <2>1. SUFFICES ASSUME ~history.lost, ~history.raced
                   PROVE  /\ Target("enabled")' \/ Ends("enabled", FALSE)'
                          /\ board.up /\ ~Awaited => Ends("enabled", Target("enabled"))'
      BY <1>1 DEF EnabledSent, Awaited
    <2>2. board.up /\ ~Awaited => Ends("enabled", Target("enabled"))'
      BY <1>4, <1>5, <2>1 DEF FollowInv, EnabledSent
    <2>3. Target("enabled")' \/ Ends("enabled", FALSE)'
      <3>1. CASE c.cmd = "enabled"
        <4>1. c.value \in BOOLEAN /\ Target("enabled")' = c.value
          BY <1>5, <3>1, CommandTypes
        <4>2. LastIs(Append(outbox, c), "enabled", c.value)
          BY <1>2, <3>1, Posted
        <4> QED BY <4>1, <4>2 DEF Ends, EndsIn
      <3>2. CASE c.cmd # "enabled"
        <4>1. Target("enabled")' = Target("enabled")
          BY <1>5, <3>2
        <4>2. Target("enabled") \/ EndsIn(outbox, board, "enabled", FALSE)
          BY <2>1 DEF FollowInv, EnabledSent, Ends
        <4>3. EndsIn(outbox, board, "enabled", FALSE) => EndsIn(outbox', board', "enabled", FALSE)
          BY <1>3, <1>5, <3>2
        <4> QED BY <4>1, <4>2, <4>3 DEF Ends
      <3> QED BY <3>1, <3>2
    <2> QED BY <2>2, <2>3
  <1> QED BY <1>6, <1>7, <1>8, <1>9 DEF FollowInv

(* What becomes of a datagram. *)
LEMMA WriteParts ==
  ASSUME TypeOK, NEW c \in Commands, NEW h \in History, Write(c, h)
  PROVE  \/ board.up /\ board' = Obeyed(Datagram(c)) /\ history' = h
         \/ board.up /\ board' = board /\ history'.lost
         \/ /\ ~board.up /\ board' = board
            /\ history'.lost = h.lost /\ history'.raced = h.raced
            /\ history'.early = (h.early \/ c.cmd = "connected")
  <1>1. board.up \in BOOLEAN
    BY DEF TypeOK
  <1>2. CASE board.up /\ board' = Obeyed(Datagram(c)) /\ history' = h
    BY <1>2
  <1>3. CASE /\ board' = board
             /\ history' = [h EXCEPT !.lost = @ \/ board.up,
                             !.early = @ \/ (c.cmd = "connected" /\ ~board.up)]
    BY <1>1, <1>3 DEF History
  <1> QED BY <1>2, <1>3 DEF Write

(* A command leaves the queue: the board obeys it, or is not up, or it is lost. *)
LEMMA SendFollows == TypeOK /\ FollowInv /\ SendDataAsync => FollowInv'
  <1> SUFFICES ASSUME TypeOK, FollowInv, SendDataAsync PROVE FollowInv'
    OBVIOUS
  <1>1. /\ outbox \in Seq(Commands) /\ outbox # << >> /\ outbox' = Tail(outbox)
        /\ UNCHANGED <<value, setting, connected, inbox>> /\ Write(Head(outbox), history)
    BY DEF SendDataAsync, TypeOK, switchVars
  <1>2. PICK c \in Commands : c = Head(outbox)
    BY <1>1
  <1>3. /\ history \in History /\ board.up \in BOOLEAN /\ board.enabled \in BOOLEAN
        /\ "enabled" \in Switches /\ "abnormal" \in Switches /\ "connected" \in Switches
    BY DEF TypeOK, History, Switches
  <1>4. \/ board.up /\ board' = Obeyed(Datagram(c)) /\ history' = history
        \/ board.up /\ board' = board /\ history'.lost
        \/ /\ ~board.up /\ board' = board
           /\ history'.lost = history.lost /\ history'.raced = history.raced
           /\ history'.early = (history.early \/ c.cmd = "connected")
    BY <1>1, <1>2, <1>3, WriteParts
  <1>5. /\ Obeyed(Datagram(c)).up = board.up
        /\ \A s \in Switches : Obeyed(Datagram(c))[s] = IF c.cmd = s THEN c.value ELSE board[s]
    BY ObeyedParts
  <1>6. \A s \in Switches : Target(s)' = Target(s)
    BY <1>1 DEF Target
  <1>7. HeardIsUp'
    <2>1. board'.up = board.up
      BY <1>4, <1>5
    <2>2. ~board.up => board'.enabled = board.enabled
      BY <1>4
    <2> QED BY <1>1, <2>1, <2>2 DEF FollowInv, HeardIsUp
  <1>8. EnabledQueued'
    <2>1. PICK v : v = Target("enabled")
      OBVIOUS
    <2>2. NoneIn(outbox, "enabled") \/ LastIs(outbox, "enabled", v)
      BY <2>1 DEF FollowInv, EnabledQueued
    <2>3. NoneIn(outbox', "enabled") \/ LastIs(outbox', "enabled", v)
      BY <1>1, <2>2, Unposted
    <2> QED BY <1>3, <1>6, <2>1, <2>3 DEF EnabledQueued
  <1>9. ASSUME NEW s \in Switches, NEW v, EndsIn(outbox, board, s, v),
               \/ board' = Obeyed(Datagram(c))
               \/ board' = board /\ (c.cmd = s => v = board[s])
        PROVE  EndsIn(outbox', board', s, v)
    <2>1. CASE LastIs(outbox, s, v)
      <3>1. \/ LastIs(outbox', s, v)
            \/ NoneIn(outbox', s) /\ c.cmd = s /\ c.value = v
        BY <1>1, <1>2, <2>1, Unposted
      <3>2. CASE LastIs(outbox', s, v)
        BY <3>2 DEF EndsIn
      <3>3. CASE NoneIn(outbox', s) /\ c.cmd = s /\ c.value = v
        <4>1. board'[s] = v
          BY <1>5, <1>9, <3>3
        <4> QED BY <3>3, <4>1 DEF EndsIn
      <3> QED BY <3>1, <3>2, <3>3
    <2>2. CASE NoneIn(outbox, s) /\ board[s] = v
      <3>1. NoneIn(outbox', s) /\ c.cmd # s
        BY <1>1, <1>2, <2>2, Unposted
      <3>2. board'[s] = v
        BY <1>5, <1>9, <2>2, <3>1
      <3> QED BY <3>1, <3>2 DEF EndsIn
    <2> QED BY <1>9, <2>1, <2>2 DEF EndsIn
  <1>10. ASSUME NEW s \in Switches, Ends(s, Target(s)),
                \/ board' = Obeyed(Datagram(c))
                \/ board' = board /\ c.cmd # s
         PROVE  Ends(s, Target(s))'
    <2>1. PICK v : v = Target(s) /\ v = Target(s)'
      BY <1>6
    <2>2. EndsIn(outbox, board, s, v)
      BY <1>10, <2>1 DEF Ends
    <2>3. EndsIn(outbox', board', s, v)
      BY <1>9, <1>10, <2>2
    <2> QED BY <2>1, <2>3 DEF Ends
  <1>11. ConnectedSent'
    <2>1. SUFFICES ASSUME ~history'.lost, ~history'.early PROVE Ends("connected", Target("connected"))'
      BY DEF ConnectedSent
    <2>2. ~history.lost /\ ~history.early
      BY <1>4, <2>1
    <2>3. board' = Obeyed(Datagram(c)) \/ (board' = board /\ c.cmd # "connected")
      BY <1>4, <2>1
    <2> QED BY <1>3, <1>10, <2>2, <2>3 DEF FollowInv, ConnectedSent
  <1>12. AbnormalSent'
    <2>1. SUFFICES ASSUME ~history'.lost, ~history'.raced, connected
                   PROVE  Ends("abnormal", Target("abnormal"))'
      BY <1>1 DEF AbnormalSent
    <2>2. board.up
      BY <2>1 DEF FollowInv, HeardIsUp
    <2>3. board' = Obeyed(Datagram(c)) /\ history' = history
      BY <1>4, <2>1, <2>2
    <2> QED BY <1>3, <1>10, <2>1, <2>3 DEF FollowInv, AbnormalSent
  <1>13. EnabledSent'
    <2>1. SUFFICES ASSUME ~history'.lost, ~history'.raced
                   PROVE  /\ Target("enabled")' \/ Ends("enabled", FALSE)'
                          /\ board'.up /\ ~Awaited' => Ends("enabled", Target("enabled"))'
      BY DEF EnabledSent
    <2>2. ~history.lost /\ ~history.raced
      BY <1>4, <2>1
    <2>3. Target("enabled")' = Target("enabled") /\ Awaited' = Awaited
      BY <1>1, <1>3, <1>6 DEF Awaited
    <2>4. board'.up /\ ~Awaited' => Ends("enabled", Target("enabled"))'
      <3>1. SUFFICES ASSUME board'.up, ~Awaited PROVE Ends("enabled", Target("enabled"))'
        BY <2>3
      <3>2. board.up /\ board' = Obeyed(Datagram(c))
        BY <1>4, <1>5, <2>1, <3>1
      <3> QED BY <1>3, <1>10, <2>2, <3>1, <3>2 DEF FollowInv, EnabledSent
    <2>5. Target("enabled")' \/ Ends("enabled", FALSE)'
      <3>1. Target("enabled") \/ EndsIn(outbox, board, "enabled", FALSE)
        BY <2>2 DEF FollowInv, EnabledSent, Ends
      <3>2. ~board.up => board.enabled = FALSE
        BY <1>3 DEF FollowInv, HeardIsUp
      <3>3. EndsIn(outbox, board, "enabled", FALSE) => EndsIn(outbox', board', "enabled", FALSE)
        BY <1>3, <1>4, <1>9, <2>1, <3>2
      <3> QED BY <2>3, <3>1, <3>3 DEF Ends
    <2> QED BY <2>4, <2>5
  <1> QED BY <1>7, <1>8, <1>11, <1>12, <1>13 DEF FollowInv

(* A message of the board is received; the first one repeats a parameter. *)
LEMMA ReceiveParts ==
  ASSUME TypeOK, FollowInv, NEW type, Receive(type)
  PROVE  /\ board.up /\ connected' = TRUE /\ UNCHANGED <<value, setting>>
         /\ \A s : Target(s)' = Target(s)
         /\ connected => outbox' = outbox
         /\ ~connected => LastIs(outbox', "abnormal", value["abnormal"])
         /\ \A s, v : s # "abnormal" /\ LastIs(outbox, s, v) => LastIs(outbox', s, v)
         /\ \A s : s # "abnormal" /\ NoneIn(outbox, s) => NoneIn(outbox', s)
         /\ type # "reboot" /\ Awaited => Awaited'
  <1>1. /\ inbox # << >> /\ Head(inbox) = type /\ inbox' = Tail(inbox) /\ connected' = TRUE
        /\ UNCHANGED <<value, setting>>
    BY DEF Receive, switchVars
  <1>2. board.up
    BY <1>1 DEF FollowInv, HeardIsUp
  <1>3. \A s : Target(s)' = Target(s)
    BY <1>1 DEF Target
  <1>4. outbox \in Seq(Commands)
    BY DEF TypeOK
  <1>5. PICK c \in Commands : c = SetCommand("abnormal", value["abnormal"])
    BY CommandTypes DEF Switches, TypeOK
  <1>6. c.cmd = "abnormal" /\ c.value = value["abnormal"]
    BY <1>5 DEF SetCommand
  <1>7. outbox' = IF connected THEN outbox ELSE Append(outbox, c)
    BY <1>5 DEF Receive, Resend, Post
  <1>8. ~connected => LastIs(outbox', "abnormal", value["abnormal"])
    BY <1>4, <1>6, <1>7, Posted
  <1>9. ASSUME NEW s, NEW v, s # "abnormal", LastIs(outbox, s, v) PROVE LastIs(outbox', s, v)
    BY <1>4, <1>6, <1>7, <1>9, Posted
  <1>10. ASSUME NEW s, s # "abnormal", NoneIn(outbox, s) PROVE NoneIn(outbox', s)
    BY <1>4, <1>6, <1>7, <1>10, Posted
  <1>11. ASSUME type # "reboot", Awaited PROVE Awaited'
    <2>1. /\ inbox \in Seq(Messages) /\ Len(inbox) \in Nat /\ DOMAIN inbox = 1..Len(inbox)
      BY LenProperties DEF TypeOK
    <2>2. /\ Tail(inbox) \in Seq(Messages) /\ Len(Tail(inbox)) = Len(inbox) - 1
          /\ \A i \in 1..Len(Tail(inbox)) : Tail(inbox)[i] = inbox[i + 1]
          /\ Head(inbox) = inbox[1]
      BY <1>1, <2>1, HeadTailProperties
    <2>3. PICK i \in DOMAIN inbox : inbox[i] = "reboot"
      BY <1>11 DEF Awaited
    <2>4. i # 1
      BY <1>1, <1>11, <2>2, <2>3
    <2>5. PICK k \in 1..Len(Tail(inbox)) : k + 1 = i
      <3>1. i - 1 \in 1..Len(Tail(inbox)) /\ (i - 1) + 1 = i
        BY <2>1, <2>2, <2>4
      <3> QED BY <3>1
    <2>6. k \in DOMAIN inbox' /\ inbox'[k] = "reboot"
      BY <1>1, <2>2, <2>3, <2>5, LenProperties
    <2> QED BY <2>6 DEF Awaited
  <1> QED BY <1>1, <1>2, <1>3, <1>7, <1>8, <1>9, <1>10, <1>11

(* What a message does to all but the running of the board. *)
LEMMA MessageFollows ==
  ASSUME TypeOK, FollowInv, NEW type, Receive(type),
         board'.up = board.up, board'.abnormal = board.abnormal,
         board'.connected = board.connected,
         history'.lost \/ ~history.lost, history'.early \/ ~history.early,
         history'.raced \/ ~history.raced,
         setting # NoValue /\ setting.switch = "abnormal" /\ ~connected => history'.raced
  PROVE  HeardIsUp' /\ EnabledQueued' /\ ConnectedSent' /\ AbnormalSent'
  <1>1. /\ board.up /\ connected' = TRUE /\ UNCHANGED <<value, setting>>
        /\ \A s : Target(s)' = Target(s)
        /\ connected => outbox' = outbox
        /\ ~connected => LastIs(outbox', "abnormal", value["abnormal"])
    BY ReceiveParts
  <1>2. \A v : LastIs(outbox, "connected", v) => LastIs(outbox', "connected", v)
    BY ReceiveParts
  <1>3. \A v : LastIs(outbox, "enabled", v) => LastIs(outbox', "enabled", v)
    BY ReceiveParts
  <1>4. /\ NoneIn(outbox, "connected") => NoneIn(outbox', "connected")
        /\ NoneIn(outbox, "enabled") => NoneIn(outbox', "enabled")
    BY ReceiveParts
  <1>5. HeardIsUp'
    BY <1>1 DEF HeardIsUp
  <1>6. EnabledQueued'
    BY <1>1, <1>3, <1>4 DEF FollowInv, EnabledQueued
  <1>7. ConnectedSent'
    BY <1>1, <1>2, <1>4 DEF FollowInv, ConnectedSent, Ends, EndsIn
  <1>8. AbnormalSent'
    <2>1. SUFFICES ASSUME ~history'.lost, ~history'.raced
                   PROVE  Ends("abnormal", Target("abnormal"))'
      BY DEF AbnormalSent
    <2>2. CASE connected
      <3>1. Ends("abnormal", Target("abnormal")) /\ outbox' = outbox
        BY <1>1, <2>1, <2>2 DEF FollowInv, AbnormalSent
      <3> QED BY <1>1, <3>1 DEF Ends, EndsIn
    <2>3. CASE ~connected
      <3>1. Target("abnormal")' = value["abnormal"]
        BY <1>1, <2>1, <2>3 DEF Target
      <3> QED BY <1>1, <2>3, <3>1 DEF Ends, EndsIn
    <2> QED BY <2>2, <2>3
  <1> QED BY <1>5, <1>6, <1>7, <1>8

LEMMA RacedParts ==
  ASSUME TypeOK, NEW S
  PROVE  /\ Raced(S).lost = history.lost /\ Raced(S).early = history.early
         /\ Raced(S).raced = (\/ history.raced
                              \/ /\ setting # NoValue
                                 /\ \/ setting.switch \in S
                                    \/ setting.switch = "abnormal" /\ ~connected)
  BY DEF TypeOK, Raced

(* A message that is not about a start. *)
LEMMA BeatFollows ==
  ASSUME TypeOK, FollowInv, OnBeat \/ OnKicked
  PROVE  FollowInv'
  <1>1. PICK type \in {"beat", "kicked"} : Receive(type)
    BY DEF OnBeat, OnKicked
  <1>2. board' = board
    BY DEF OnBeat, OnKicked
  <1>3. /\ history'.lost = history.lost /\ history'.early = history.early
        /\ history'.raced = (\/ history.raced
                             \/ /\ setting # NoValue
                                /\ setting.switch = "abnormal" /\ ~connected)
    <2>1. /\ Raced({}).lost = history.lost /\ Raced({}).early = history.early
          /\ Raced({}).raced = (\/ history.raced
                                \/ /\ setting # NoValue
                                   /\ setting.switch = "abnormal" /\ ~connected)
      <3>1. PICK S : S = {}
        OBVIOUS
      <3>2. ~(setting.switch \in S)
        BY <3>1
      <3>3. /\ Raced(S).lost = history.lost /\ Raced(S).early = history.early
            /\ Raced(S).raced = (\/ history.raced
                                 \/ /\ setting # NoValue
                                    /\ \/ setting.switch \in S
                                       \/ setting.switch = "abnormal" /\ ~connected)
        BY RacedParts
      <3>4. Raced(S).raced = (\/ history.raced
                              \/ /\ setting # NoValue
                                 /\ setting.switch = "abnormal" /\ ~connected)
        BY <3>2, <3>3
      <3> QED BY <3>1, <3>3, <3>4
    <2>2. Raced({}) \in History
      BY RacedTypes
    <2>3. history' = Raced({}) \/ history' = [Raced({}) EXCEPT !.announced = @ + 1]
      BY DEF OnBeat, OnKicked
    <2>4. /\ history'.lost = Raced({}).lost /\ history'.early = Raced({}).early
          /\ history'.raced = Raced({}).raced
      BY <2>2, <2>3 DEF History
    <2> QED BY <2>1, <2>4
  <1>4. /\ history.lost \in BOOLEAN /\ history.early \in BOOLEAN /\ history.raced \in BOOLEAN
    BY DEF TypeOK
  <1>5. HeardIsUp' /\ EnabledQueued' /\ ConnectedSent' /\ AbnormalSent'
    BY <1>1, <1>2, <1>3, <1>4, MessageFollows
  <1>6. EnabledSent'
    <2>1. /\ \A s : Target(s)' = Target(s)
          /\ Awaited => Awaited'
          /\ NoneIn(outbox, "enabled") => NoneIn(outbox', "enabled")
      BY <1>1, ReceiveParts
    <2>2. \A v : LastIs(outbox, "enabled", v) => LastIs(outbox', "enabled", v)
      BY <1>1, ReceiveParts
    <2> QED BY <1>2, <1>3, <1>4, <2>1, <2>2 DEF FollowInv, EnabledSent, Ends, EndsIn
  <1> QED BY <1>5, <1>6 DEF FollowInv

(* The board has started: it is told to run if the program does. *)
LEMMA RebootFollows ==
  ASSUME TypeOK, FollowInv, OnReboot
  PROVE  FollowInv'
  <1>1. Receive("reboot")
    BY DEF OnReboot
  <1>2. /\ board.up /\ UNCHANGED <<value, setting>> /\ \A s : Target(s)' = Target(s)
        /\ NoneIn(outbox, "enabled") => NoneIn(outbox', "enabled")
    BY <1>1, ReceiveParts
  <1>3. \A v : LastIs(outbox, "enabled", v) => LastIs(outbox', "enabled", v)
    BY <1>1, ReceiveParts
  <1>4. PICK h \in History : h = Raced({"enabled"})
    BY RacedTypes
  <1>5. /\ h.lost = history.lost /\ h.early = history.early
        /\ h.raced = (\/ history.raced
                      \/ /\ setting # NoValue
                         /\ \/ setting.switch \in {"enabled"}
                            \/ setting.switch = "abnormal" /\ ~connected)
    BY <1>4, RacedParts
  <1>6. /\ history.lost \in BOOLEAN /\ history.early \in BOOLEAN /\ history.raced \in BOOLEAN
        /\ board \in BoardState /\ value["enabled"] \in BOOLEAN
    BY DEF TypeOK, BoardState, Switches
  <1>7. PICK c \in Commands : c = SetCommand("enabled", TRUE)
    BY CommandTypes DEF Switches
  <1>8. c.cmd = "enabled" /\ c.value = TRUE
    BY <1>7 DEF SetCommand
  <1>9. /\ Obeyed(Datagram(c)).up = board.up /\ Obeyed(Datagram(c)).enabled = TRUE
        /\ Obeyed(Datagram(c)).abnormal = board.abnormal
        /\ Obeyed(Datagram(c)).connected = board.connected
    <2>1. /\ Obeyed(Datagram(c)).up = board.up
          /\ \A s \in Switches :
               Obeyed(Datagram(c))[s] = IF c.cmd = s THEN c.value ELSE board[s]
      BY ObeyedParts
    <2>2. "enabled" \in Switches /\ "abnormal" \in Switches /\ "connected" \in Switches
      BY DEF Switches
    <2> QED BY <1>8, <2>1, <2>2
  <1>10. \/ value["enabled"] /\ board'.enabled = TRUE /\ history' = h
         \/ value["enabled"] /\ history'.lost
         \/ ~value["enabled"] /\ board' = board /\ history' = h
    <2>1. CASE value["enabled"]
      <3>1. Write(c, h)
        BY <1>4, <1>7, <2>1 DEF OnReboot
      <3> QED BY <1>2, <1>9, <2>1, <3>1, WriteParts
    <2>2. CASE ~value["enabled"]
      BY <1>4, <2>2 DEF OnReboot
    <2> QED BY <2>1, <2>2
  <1>11. /\ board'.up = board.up /\ board'.abnormal = board.abnormal
         /\ board'.connected = board.connected
         /\ history'.early = h.early /\ history'.raced = h.raced
         /\ history'.lost \/ ~history.lost
    <2>1. CASE value["enabled"]
      <3>1. Write(c, h)
        BY <1>4, <1>7, <2>1 DEF OnReboot
      <3>2. \/ board' = Obeyed(Datagram(c)) /\ history' = h
            \/ /\ board' = board
               /\ history' = [h EXCEPT !.lost = @ \/ board.up,
                               !.early = @ \/ (c.cmd = "connected" /\ ~board.up)]
        BY <3>1 DEF Write
      <3> QED BY <1>2, <1>5, <1>6, <1>8, <1>9, <3>2 DEF History
    <2>2. CASE ~value["enabled"]
      BY <1>4, <1>5, <1>6, <2>2 DEF OnReboot
    <2> QED BY <2>1, <2>2
  <1>12. HeardIsUp' /\ EnabledQueued' /\ ConnectedSent' /\ AbnormalSent'
    BY <1>1, <1>5, <1>6, <1>11, MessageFollows
  <1>13. EnabledSent'
    <2>1. SUFFICES ASSUME ~history'.lost, ~history'.raced
                   PROVE  Ends("enabled", Target("enabled"))'
      <3>1. Target("enabled")' \in BOOLEAN
        BY <1>2, TargetTypes DEF Switches
      <3> QED BY <3>1 DEF EnabledSent
    <2>2. /\ ~history.lost /\ ~history.raced
          /\ Target("enabled") = value["enabled"] /\ Target("enabled")' = value["enabled"]
      BY <1>2, <1>5, <1>6, <1>11, <2>1 DEF Target
    <2>3. CASE value["enabled"]
      <3>1. board'.enabled = TRUE /\ value["enabled"] = TRUE
        BY <1>6, <1>10, <2>1, <2>3
      <3>2. NoneIn(outbox', "enabled") \/ LastIs(outbox', "enabled", TRUE)
        BY <1>2, <1>3, <2>2, <3>1 DEF FollowInv, EnabledQueued
      <3> QED BY <2>2, <3>1, <3>2 DEF Ends, EndsIn
    <2>4. CASE ~value["enabled"]
      <3>1. board' = board /\ value["enabled"] = FALSE
        BY <1>6, <1>10, <2>4
      <3>2. Ends("enabled", FALSE)
        BY <2>2, <2>4 DEF FollowInv, EnabledSent
      <3> QED BY <1>2, <1>3, <2>2, <3>1, <3>2 DEF Ends, EndsIn
    <2> QED BY <2>3, <2>4
  <1> QED BY <1>12, <1>13 DEF FollowInv

(* The board starts: it does not run, and says so unless the message is lost. *)
LEMMA StartFollows ==
  ASSUME TypeOK, FollowInv, BoardStarts
  PROVE  FollowInv'
  <1>1. /\ UNCHANGED <<value, setting, outbox, connected>>
        /\ board' = [board EXCEPT !.up = TRUE, !.enabled = FALSE] /\ board \in BoardState
    BY DEF BoardStarts, switchVars, TypeOK, BoardState
  <1>2. /\ board'.up = TRUE /\ board'.enabled = FALSE /\ board'.abnormal = board.abnormal
        /\ board'.connected = board.connected
    BY <1>1 DEF BoardState
  <1>3. /\ history.lost \in BOOLEAN /\ Count("starts") \in History
        /\ Count("starts").lost = history.lost /\ Count("starts").early = history.early
        /\ Count("starts").raced = history.raced
    BY CountTypes DEF TypeOK, Count
  <1>4. /\ history'.early = history.early /\ history'.raced = history.raced
        /\ \/ Send("reboot") /\ history'.lost = history.lost
           \/ history'.lost
    BY <1>3 DEF BoardStarts, History
  <1>5. \A s : Target(s)' = Target(s)
    BY <1>1 DEF Target
  <1>6. HeardIsUp' /\ EnabledQueued'
    BY <1>1, <1>2, <1>5 DEF FollowInv, HeardIsUp, EnabledQueued
  <1>7. ConnectedSent' /\ AbnormalSent'
    BY <1>1, <1>2, <1>3, <1>4, <1>5 DEF FollowInv, ConnectedSent, AbnormalSent, Ends, EndsIn
  <1>8. EnabledSent'
    <2>1. SUFFICES ASSUME ~history'.lost
                   PROVE  Awaited' /\ (Target("enabled")' \/ Ends("enabled", FALSE)')
      BY DEF EnabledSent
    <2>2. Awaited'
      <3>1. inbox' = Append(inbox, "reboot") /\ inbox \in Seq(Messages) /\ "reboot" \in Messages
        BY <1>4, <2>1 DEF Send, TypeOK, Messages
      <3>2. Len(inbox) + 1 \in DOMAIN inbox' /\ inbox'[Len(inbox) + 1] = "reboot"
        BY <3>1, AppendProperties, LenProperties
      <3> QED BY <3>2 DEF Awaited
    <2>3. Target("enabled") \in BOOLEAN
      BY TargetTypes DEF Switches
    <2>4. Target("enabled")' \/ Ends("enabled", FALSE)'
      <3>1. CASE Target("enabled")
        BY <1>5, <3>1
      <3>2. CASE Target("enabled") = FALSE
        <4>1. NoneIn(outbox, "enabled") \/ LastIs(outbox, "enabled", FALSE)
          BY <3>2 DEF FollowInv, EnabledQueued
        <4> QED BY <1>1, <1>2, <4>1 DEF Ends, EndsIn
      <3> QED BY <2>3, <3>1, <3>2
    <2> QED BY <2>2, <2>4
  <1> QED BY <1>6, <1>7, <1>8 DEF FollowInv

LEMMA NextFollows == TypeOK /\ FollowInv /\ [Next]_vars => FollowInv'
  <1> SUFFICES ASSUME TypeOK, FollowInv, [Next]_vars PROVE FollowInv'
    OBVIOUS
  <1>1. ASSUME NEW s \in Switches, NEW v \in BOOLEAN, BeginSet(s, v) PROVE FollowInv'
    <2>1. /\ setting = NoValue /\ setting' = [switch |-> s, value |-> v]
          /\ UNCHANGED <<value, connected, inbox, board>>
          /\ history' = Count("sets") /\ setting' # NoValue
      BY <1>1, ConstantsOK DEF BeginSet
    <2>2. Flags(history') = Flags(history)
      BY <2>1 DEF TypeOK, Count, Flags
    <2>3. \A t \in Switches : Target(t)' = IF t = s THEN v ELSE Target(t)
      BY <2>1 DEF Target
    <2>4. CASE s = "enabled" /\ v = value[s]
      <3>1. outbox' = outbox
        BY <1>1, <2>4 DEF BeginSet
      <3>2. \A t \in Switches : Target(t)' = Target(t)
        BY <2>1, <2>3, <2>4 DEF Target
      <3> QED BY <2>1, <2>2, <3>1, <3>2, AsideFollows DEF Awaited
    <2>5. CASE ~(s = "enabled" /\ v = value[s])
      <3>1. PICK c \in Commands : c = SetCommand(s, v)
        BY CommandTypes
      <3>2. c.cmd = s /\ c.value = v
        BY <3>1 DEF SetCommand
      <3>3. outbox' = Append(outbox, c)
        BY <1>1, <2>5, <3>1 DEF BeginSet, Post
      <3> QED BY <2>1, <2>2, <2>3, <3>2, <3>3, PostFollows
    <2> QED BY <2>4, <2>5
  <1>2. CASE EndSet
    <2>1. /\ UNCHANGED <<outbox, connected, inbox, board, history>>
          /\ setting # NoValue /\ setting' = NoValue
          /\ value' = [value EXCEPT ![setting.switch] = setting.value]
          /\ value \in [Switches -> BOOLEAN]
      BY <1>2 DEF EndSet, TypeOK
    <2>2. \A t \in Switches : Target(t)' = Target(t)
      BY <2>1 DEF Target
    <2> QED BY <2>1, <2>2, AsideFollows DEF Flags, Awaited
  <1>3. CASE SendKick
    <2>1. /\ UNCHANGED <<value, setting, connected, inbox, board>>
          /\ history' = Count("sets") /\ outbox' = Append(outbox, Kick)
      BY <1>3 DEF SendKick, switchVars, Post
    <2>2. Flags(history') = Flags(history)
      BY <2>1 DEF TypeOK, Count, Flags
    <2>3. Kick \in Commands /\ Kick.cmd \notin Switches
      BY CommandTypes DEF Kick, Switches
    <2>4. \A t \in Switches : Target(t)' = IF Kick.cmd = t THEN Kick.value ELSE Target(t)
      BY <2>1, <2>3 DEF Target
    <2> QED BY <2>1, <2>2, <2>3, <2>4, PostFollows
  <1>4. CASE ReadCount \/ ClearCount \/ UNCHANGED vars
    <2>1. UNCHANGED <<value, setting, outbox, connected, inbox, board, history>>
      BY <1>4 DEF ReadCount, ClearCount, vars, switchVars
    <2>2. \A t \in Switches : Target(t)' = Target(t)
      BY <2>1 DEF Target
    <2> QED BY <2>1, <2>2, AsideFollows DEF Flags, Awaited
  <1>5. CASE BoardBeats \/ BoardKicks
    <2>1. /\ board.up /\ UNCHANGED <<value, setting, outbox, connected, board>>
          /\ inbox \in Seq(Messages)
          /\ \E m \in Messages : inbox' = Append(inbox, m)
      BY <1>5 DEF BoardBeats, BoardKicks, Board, Send, switchVars, Messages, TypeOK
    <2>2. Flags(history') = Flags(history)
      BY <1>5 DEF BoardBeats, BoardKicks, TypeOK, Count, Flags
    <2>3. \A t \in Switches : Target(t)' = Target(t)
      BY <2>1 DEF Target
    <2>4. Awaited => Awaited'
      <3>1. PICK m \in Messages : inbox' = Append(inbox, m)
        BY <2>1
      <3>2. \A i \in DOMAIN inbox : i \in DOMAIN inbox' /\ inbox'[i] = inbox[i]
        BY <2>1, <3>1, AppendProperties, LenProperties
      <3> QED BY <3>2 DEF Awaited
    <2> QED BY <2>1, <2>2, <2>3, <2>4, AsideFollows
  <1> QED BY <1>1, <1>2, <1>3, <1>4, <1>5, SendFollows, BeatFollows, RebootFollows, StartFollows
          DEF Next

LEMMA InitFollows == Init => FollowInv
  <1> SUFFICES ASSUME Init PROVE FollowInv
    OBVIOUS
  <1>1. /\ value = [s \in Switches |-> s # "enabled"] /\ setting = NoValue
        /\ outbox = <<SetCommand("connected", TRUE), SetCommand("abnormal", TRUE)>>
        /\ connected = FALSE /\ inbox = << >> /\ board.up = FALSE /\ board.enabled = FALSE
    BY DEF Init
  <1>2. Target("connected") = TRUE
    BY <1>1 DEF Target, Switches
  <1>3. /\ DOMAIN outbox = {1, 2} /\ outbox[1].cmd = "connected" /\ outbox[1].value = TRUE
        /\ outbox[2].cmd = "abnormal"
    BY <1>1 DEF SetCommand
  <1>4. NoneIn(outbox, "enabled") /\ LastIs(outbox, "connected", TRUE)
    BY <1>3 DEF NoneIn, LastIs
  <1> QED BY <1>1, <1>2, <1>4 DEF FollowInv, HeardIsUp, EnabledQueued, ConnectedSent,
             AbnormalSent, EnabledSent, Ends, EndsIn

(* A board that has been heard of runs and kicks as the program does when nothing
   is on its way, for any number of settings, restarts and kicks. *)
THEOREM TheBoardFollows == Spec => []BoardFollows
  <1>1. TypeOK /\ FollowInv => BoardFollows
    <2>1. SUFFICES ASSUME TypeOK, FollowInv, connected, setting = NoValue, outbox = << >>,
                          inbox = << >>, ~history.lost, ~history.raced
                   PROVE  /\ board["enabled"] = value["enabled"]
                          /\ board["abnormal"] = value["abnormal"]
                          /\ ~history.early => board["connected"] = value["connected"]
      BY DEF BoardFollows, Switches
    <2>2. ~Awaited /\ \A s, v : ~LastIs(outbox, s, v)
      BY <2>1 DEF Awaited, LastIs
    <2>3. board.up /\ \A s : Target(s) = value[s]
      BY <2>1 DEF FollowInv, HeardIsUp, Target
    <2>4. Ends("enabled", Target("enabled")) /\ Ends("abnormal", Target("abnormal"))
      BY <2>1, <2>2, <2>3 DEF FollowInv, EnabledSent, AbnormalSent
    <2>5. ~history.early => Ends("connected", Target("connected"))
      BY <2>1 DEF FollowInv, ConnectedSent
    <2> QED BY <2>2, <2>3, <2>4, <2>5 DEF Ends, EndsIn
  <1>2. TypeOK /\ FollowInv /\ [Next]_vars => FollowInv'
    BY NextFollows
  <1> QED BY <1>1, <1>2, InitFollows, TypesAreKept, PTL DEF Spec
=============================================================================
