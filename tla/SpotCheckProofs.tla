--------------------------- MODULE SpotCheckProofs ---------------------------
(***************************************************************************)
(* Spot checks and the switch of the cameras: that no check is reported    *)
(* finished before its images were gone through, and that the cameras of  *)
(* the run type run, for any cameras, channels, lengths of directories and *)
(* number of commands.                                                     *)
(***************************************************************************)
EXTENDS SpotCheck, FiniteSetTheorems, TLAPS

-----------------------------------------------------------------------------
(* The inductive invariants. *)

EventSeq == Seq({"start", "stop", "path"})
OnePath(s) == \A i, j \in DOMAIN s : s[i] = "path" /\ s[j] = "path" => i = j

(* While no camera counts itself off for an earlier check, a camera has at most
   one directory before it, to be posted or in its queue, and none while it is
   counting itself off. *)
OneStage ==
  \A c \in SpotCameras :
    /\ OnePath(events[c])
    /\ c \in Due => ~HasPath(events[c])
    /\ counterRead[c] # NoValue =>
         imageList[c] = 0 /\ ~HasPath(events[c]) /\ c \notin Due

(* The conclusion of CounterCoversUnfinished. *)
Covered ==
  /\ waitFinish >= Cardinality(Unfinished)
  /\ \A c \in SpotCameras :
       counterRead[c] # NoValue => counterRead[c] >= Cardinality(Unfinished)

CounterInv == ~history.overlapped => OneStage /\ Covered

(* The images that camera c has been through: those before its index while it
   has a list, and all that it found when it has none. *)
Counted(p, c) ==
  p.sent + p.skipped = IF imageList[c] > 0 THEN readIndex[c] ELSE p.found

PlayedInv ==
  \A c \in SpotCameras :
    /\ Counted(played[c], c)
    /\ imageList[c] > 0 => played[c].found = imageList[c] /\ readIndex[c] <= imageList[c]

(* One thread at a time throws the switch. *)
OneThread == \A t, u \in Threads : Throws(t) /\ Throws(u) => t = u

(* The cameras of which something is known. *)
Known == Cameras \ history.astray

(* ... when nobody throws the switch. *)
Settled == \A c \in Known : camEnabled[c] <=> enabled /\ c \in MembersOf(runType)

(* A thread that throws it: how far it is, and what it has read. *)
Course(t) ==
  /\ setting[t].todo \subseteq MembersOf(runType)
  /\ setting[t].writing # NoValue => setting[t].writing \in setting[t].todo
  /\ setting[t].todo # {} => setting[t].stage = "throwing" /\ setting[t].value # enabled
  /\ setting[t].stage # "stored" => setting[t].old = enabled
  /\ setting[t].stage = "stored" => setting[t].value = enabled
  /\ setting[t].stage = "asked" => runType # "Spot" /\ setting[t].value # enabled
  /\ setting[t].after \in {"Spot", "Infer"} => ~setting[t].value

(* ... and the cameras meanwhile: until they are gone through, and those that are
   left have the old value. *)
Turned(t, c) == setting[t].stage \in {"throwing", "stored"} /\ c \notin setting[t].todo

Throwing(t) ==
  \A c \in Known :
    camEnabled[c] <=> /\ c \in MembersOf(runType)
                      /\ IF Turned(t, c) THEN setting[t].value ELSE enabled

(* The value that camera c has, or is about to have. *)
Wanted(s, cam, c) ==
  \/ \E t \in Threads : s[t] # Idle /\ s[t].writing = c /\ s[t].value
  \/ cam[c] /\ ~\E t \in Threads : s[t] # Idle /\ s[t].writing = c

LastSwitch(s, i) ==
  s[i] # "path" /\ \A j \in DOMAIN s : j > i => s[j] = "path"

(* A timer, after the starts and stops that are queued in s, is on exactly if
   `on' says so. *)
Follows(s, tm, on) ==
  /\ (\A i \in DOMAIN s : s[i] = "path") => (tm <=> on)
  /\ \A i \in DOMAIN s : LastSwitch(s, i) => (s[i] = "start" <=> on)

TimersFollow ==
  \A c \in Known : Follows(events[c], timer[c], Wanted(setting, camEnabled, c))

(* No two threads are throwing the switch, or nobody is. *)
Calm == ~history.crossed \/ \A t \in Threads : ~Throws(t)

(* A thread that posts directories writes no camera. *)
PostInv ==
  \A t \in Threads :
    At(t, "posting") => setting[t].writing = NoValue /\ setting[t].after = "nothing"

SwitchParts ==
  /\ OneThread
  /\ (\A t \in Threads : ~Throws(t)) => Settled
  /\ \A t \in Threads : Throws(t) => Course(t) /\ Throwing(t)
  /\ TimersFollow

(* While two threads throw the switch nothing is known of any camera. *)
SwitchInv ==
  /\ PostInv
  /\ ~Calm => history.astray = Cameras
  /\ Calm => SwitchParts

-----------------------------------------------------------------------------
(* The records of the threads. *)

Fields(r, s, x, o, d, w) ==
  /\ r \in Setting /\ r # Idle
  /\ r.stage = x /\ r.value = s.value /\ r.old = o /\ r.todo = d /\ r.writing = w
  /\ r.after = s.after

Edit(r, s, x, o, d, w) ==
  /\ r \in Setting /\ r.busy = TRUE
  /\ r.stage = x /\ r.value = s.value /\ r.old = o /\ r.todo = d /\ r.writing = w
  /\ r.after = s.after

LEMMA RecEdits ==
  ASSUME NEW s \in Setting, NEW x \in Stages, NEW o \in BOOLEAN,
         NEW d \in SUBSET Cameras, NEW w \in Cameras \cup {NoValue}
  PROVE  /\ Fields([s EXCEPT !.stage = x, !.todo = d], s, x, s.old, d, s.writing)
         /\ Fields([s EXCEPT !.stage = x, !.old = o], s, x, o, s.todo, s.writing)
         /\ Fields([s EXCEPT !.writing = w, !.todo = d], s, s.stage, s.old, d, w)
         /\ Fields([s EXCEPT !.todo = d], s, s.stage, s.old, d, s.writing)
         /\ Fields([s EXCEPT !.writing = w], s, s.stage, s.old, s.todo, w)
         /\ Fields([s EXCEPT !.stage = x], s, x, s.old, s.todo, s.writing)
<1>1. /\ Edit([s EXCEPT !.stage = x, !.todo = d], s, x, s.old, d, s.writing)
      /\ Edit([s EXCEPT !.stage = x, !.old = o], s, x, o, s.todo, s.writing)
  BY DEF Edit, Setting
<1>2. /\ Edit([s EXCEPT !.writing = w, !.todo = d], s, s.stage, s.old, d, w)
      /\ Edit([s EXCEPT !.todo = d], s, s.stage, s.old, d, s.writing)
  BY DEF Edit, Setting
<1>3. /\ Edit([s EXCEPT !.writing = w], s, s.stage, s.old, s.todo, w)
      /\ Edit([s EXCEPT !.stage = x], s, x, s.old, s.todo, s.writing)
  BY DEF Edit, Setting
<1>4. \A r, y, p, e, v : Edit(r, s, y, p, e, v) => Fields(r, s, y, p, e, v)
  BY DEF Edit, Fields, Idle
<1> QED BY <1>1, <1>2, <1>3, <1>4

Busies == [Threads -> Setting \cup {Idle}]

(* Thread t goes on with its command. *)
Moved(t, x, o, d, w) ==
  /\ setting' \in Busies
  /\ Fields(setting'[t], setting[t], x, o, d, w)
  /\ \A u \in Threads \ {t} : setting'[u] = setting[u]

(* What a thread in the middle of a command has. *)
LEMMA BusyFacts ==
  ASSUME TypeOK, NEW t \in Threads, Busy(t)
  PROVE  /\ setting[t] \in Setting /\ setting[t].stage \in Stages
         /\ setting[t].value \in BOOLEAN /\ setting[t].old \in BOOLEAN
         /\ setting[t].todo \in SUBSET Cameras
         /\ setting[t].writing \in Cameras \cup {NoValue}
         /\ setting[t].after \in Afterwards
         /\ setting \in Busies /\ DOMAIN setting = Threads
<1>1. setting[t] \in Setting
  BY DEF TypeOK, Busy
<1>2. setting \in Busies /\ DOMAIN setting = Threads
  BY DEF TypeOK, Busies
<1> QED BY <1>1, <1>2 DEF Setting

LEMMA Moves ==
  ASSUME TypeOK, NEW t \in Threads, Busy(t), NEW x, NEW o, NEW d, NEW w, NEW r,
         Fields(r, setting[t], x, o, d, w), setting' = [setting EXCEPT ![t] = r]
  PROVE  Moved(t, x, o, d, w)
<1>1. r \in Setting /\ setting \in Busies
  BY BusyFacts DEF Fields
<1>2. setting'[t] = r /\ setting' \in Busies
      /\ \A u \in Threads \ {t} : setting'[u] = setting[u]
  BY <1>1 DEF Busies
<1> QED BY <1>2 DEF Moved

(* The steps of the threads. *)

LEMMA PostPathMoves ==
  ASSUME TypeOK, NEW c, PostPath(c)
  PROVE  /\ At("tcp", "posting") /\ c \in setting["tcp"].todo
         /\ Moved("tcp", "posting", setting["tcp"].old, setting["tcp"].todo \ {c},
                  setting["tcp"].writing)
<1>1. At("tcp", "posting") /\ "tcp" \in Threads /\ c \in setting["tcp"].todo
  BY DEF PostPath, Due, Threads
<1>2. Busy("tcp") /\ setting["tcp"].stage = "posting"
  BY <1>1 DEF At
<1> DEFINE r == [setting["tcp"] EXCEPT !.todo = setting["tcp"].todo \ {c}]
<1>3. setting' = [setting EXCEPT !["tcp"] = r]
  BY DEF PostPath
<1>4. Fields(r, setting["tcp"], "posting", setting["tcp"].old, setting["tcp"].todo \ {c},
             setting["tcp"].writing)
  BY <1>1, <1>2, BusyFacts, RecEdits
<1> HIDE DEF r
<1> QED BY <1>1, <1>2, <1>3, <1>4, Moves

LEMMA ReadSwitchMoves ==
  ASSUME TypeOK, ReadSwitch
  PROVE  /\ At("tcp", "posting") /\ setting["tcp"].todo = {}
         /\ Moved("tcp", "read", enabled, {}, setting["tcp"].writing)
<1>1. At("tcp", "posting") /\ "tcp" \in Threads /\ setting["tcp"].todo = {}
  BY DEF ReadSwitch, Due, Threads
<1>2. Busy("tcp") /\ "read" \in Stages /\ enabled \in BOOLEAN
  BY <1>1 DEF At, Stages, TypeOK
<1> DEFINE r == [setting["tcp"] EXCEPT !.stage = "read", !.old = enabled]
<1>3. setting' = [setting EXCEPT !["tcp"] = r]
  BY <1>1, <1>2, BusyFacts DEF ReadSwitch
<1>4. Fields(r, setting["tcp"], "read", enabled, {}, setting["tcp"].writing)
  BY <1>1, <1>2, BusyFacts, RecEdits
<1> HIDE DEF r
<1> QED BY <1>1, <1>2, <1>3, <1>4, Moves

(* What GoThrough makes of the stage and of the cameras. *)
Gone(t, x, d) ==
  \/ /\ At(t, "read") /\ setting[t].value = setting[t].old
     /\ x = "throwing" /\ d = {}
  \/ /\ At(t, "read") /\ setting[t].value # setting[t].old
     /\ IF runType = "Spot" THEN x = "throwing" /\ d = MembersOf("Spot")
                            ELSE x = "asked" /\ d = {}
  \/ /\ At(t, "asked") /\ x = "throwing"
     /\ d = IF runType = "Infer" THEN MembersOf("Infer") ELSE {}

LEMMA GoThroughMoves ==
  ASSUME TypeOK, NEW t \in Threads, GoThrough(t)
  PROVE  \E x \in {"throwing", "asked"}, d \in SUBSET Cameras :
           Gone(t, x, d) /\ Moved(t, x, setting[t].old, d, setting[t].writing)
<1>1. PICK x \in {"throwing", "asked"}, d \in {{}, SpotCameras, LineCameras} :
        /\ Gone(t, x, d)
        /\ setting' = [setting EXCEPT ![t].stage = x, ![t].todo = d]
  BY DEF GoThrough, Gone
<1>2. Busy(t) /\ x \in Stages /\ d \in SUBSET Cameras
  BY <1>1 DEF At, Gone, Stages, Cameras
<1> DEFINE r == [setting[t] EXCEPT !.stage = x, !.todo = d]
<1>3. setting' = [setting EXCEPT ![t] = r]
  BY <1>1, <1>2, BusyFacts
<1>4. Fields(r, setting[t], x, setting[t].old, d, setting[t].writing)
  BY <1>2, BusyFacts, RecEdits
<1> HIDE DEF r
<1>5. Moved(t, x, setting[t].old, d, setting[t].writing)
  BY <1>2, <1>3, <1>4, Moves
<1> QED BY <1>1, <1>2, <1>5

LEMMA SetCameraMoves ==
  ASSUME TypeOK, NEW t \in Threads, NEW c \in Cameras, SetCamera(t, c)
  PROVE  /\ At(t, "throwing") /\ Busy(t) /\ setting[t].writing = NoValue
         /\ c \in setting[t].todo
         /\ Moved(t, "throwing", setting[t].old, setting[t].todo, c)
<1>1. /\ At(t, "throwing") /\ Busy(t) /\ setting[t].stage = "throwing"
      /\ setting[t].writing = NoValue /\ c \in setting[t].todo
  BY DEF SetCamera, At
<1> DEFINE r == [setting[t] EXCEPT !.writing = c]
<1>3. setting' = [setting EXCEPT ![t] = r]
  BY DEF SetCamera
<1>4. Fields(r, setting[t], "throwing", setting[t].old, setting[t].todo, c)
  BY <1>1, BusyFacts, RecEdits
<1> HIDE DEF r
<1> QED BY <1>1, <1>3, <1>4, Moves

LEMMA WriteCameraMoves ==
  ASSUME TypeOK, NEW t \in Threads, WriteCamera(t)
  PROVE  /\ At(t, "throwing") /\ Busy(t) /\ setting[t].writing \in Cameras
         /\ Moved(t, "throwing", setting[t].old,
                  setting[t].todo \ {setting[t].writing}, NoValue)
<1> DEFINE c == setting[t].writing
<1>1. /\ At(t, "throwing") /\ Busy(t) /\ setting[t].stage = "throwing" /\ c # NoValue
  BY DEF WriteCamera, At
<1>2. c \in Cameras
  BY <1>1, BusyFacts
<1>3. setting' = [setting EXCEPT ![t].writing = NoValue, ![t].todo = @ \ {c}]
  BY DEF WriteCamera
<1> HIDE DEF c
<1> DEFINE r == [setting[t] EXCEPT !.writing = NoValue, !.todo = setting[t].todo \ {c}]
<1>4. setting' = [setting EXCEPT ![t] = r]
  <2>1. setting[t] \in Setting /\ DOMAIN setting = Threads
    BY <1>1, BusyFacts
  <2>2. setting' = [setting EXCEPT ![t] =
                      [setting[t] EXCEPT !.writing = NoValue, !.todo = @ \ {c}]]
    BY <1>3, <2>1
  <2>3. [setting[t] EXCEPT !.writing = NoValue, !.todo = @ \ {c}] = r
    BY <2>1 DEF Setting
  <2> QED BY <2>2, <2>3
<1>5. Fields(r, setting[t], "throwing", setting[t].old, setting[t].todo \ {c}, NoValue)
  <2> DEFINE d == setting[t].todo \ {c}
  <2>1. d \in SUBSET Cameras /\ setting[t] \in Setting /\ setting[t].stage \in Stages
        /\ enabled \in BOOLEAN /\ NoValue \in Cameras \cup {NoValue}
    BY <1>1, BusyFacts DEF TypeOK
  <2> HIDE DEF d
  <2>2. Fields([setting[t] EXCEPT !.writing = NoValue, !.todo = d], setting[t],
               setting[t].stage, setting[t].old, d, NoValue)
    BY <2>1, RecEdits
  <2> QED BY <1>1, <2>2 DEF d
<1> HIDE DEF r
<1> QED BY <1>1, <1>2, <1>4, <1>5, Moves DEF c

LEMMA StoreSwitchMoves ==
  ASSUME TypeOK, NEW t \in Threads, StoreSwitch(t)
  PROVE  /\ At(t, "throwing") /\ Busy(t)
         /\ setting[t].writing = NoValue /\ setting[t].todo = {}
         /\ \/ /\ setting[t].after = "nothing"
               /\ setting' = [setting EXCEPT ![t] = Idle]
            \/ Moved(t, "stored", setting[t].old, {}, NoValue)
<1>1. /\ At(t, "throwing") /\ Busy(t) /\ setting[t].writing = NoValue
      /\ setting[t].todo = {}
  BY DEF StoreSwitch, At
<1>2. CASE setting[t].after = "nothing"
  BY <1>1, <1>2, BusyFacts DEF StoreSwitch
<1>3. CASE setting[t].after # "nothing"
  <2> DEFINE r == [setting[t] EXCEPT !.stage = "stored"]
  <2>1. setting' = [setting EXCEPT ![t] = r]
    BY <1>1, <1>3, BusyFacts DEF StoreSwitch
  <2>2. "stored" \in Stages
    BY DEF Stages
  <2>3. Fields(r, setting[t], "stored", setting[t].old, {}, NoValue)
    BY <1>1, <2>2, BusyFacts, RecEdits
  <2> HIDE DEF r
  <2> QED BY <1>1, <2>1, <2>3, Moves
<1> QED BY <1>1, <1>2, <1>3

(* A thread begins. *)
LEMMA Begins ==
  ASSUME TypeOK, NEW t \in Threads, NEW x \in Stages, NEW v \in BOOLEAN, NEW o \in BOOLEAN,
         NEW d \in SUBSET Cameras, NEW a \in Afterwards,
         setting' = [setting EXCEPT ![t] = Begun(x, v, o, d, a)]
  PROVE  /\ setting' \in Busies /\ setting'[t] # Idle
         /\ setting'[t].stage = x /\ setting'[t].value = v /\ setting'[t].old = o
         /\ setting'[t].todo = d /\ setting'[t].writing = NoValue
         /\ setting'[t].after = a
         /\ \A u \in Threads \ {t} : setting'[u] = setting[u]
<1> DEFINE r == Begun(x, v, o, d, a)
<1>1. /\ r \in Setting /\ r.busy = TRUE /\ r.stage = x /\ r.value = v /\ r.old = o
      /\ r.todo = d /\ r.writing = NoValue /\ r.after = a
  BY DEF Begun, Setting
<1>2. setting' = [setting EXCEPT ![t] = r] /\ setting \in Busies
  BY DEF TypeOK, Busies
<1> HIDE DEF r
<1>3. r # Idle
  BY <1>1 DEF Idle
<1>4. setting'[t] = r /\ setting' \in Busies
      /\ \A u \in Threads \ {t} : setting'[u] = setting[u]
  BY <1>1, <1>2 DEF Busies
<1> QED BY <1>1, <1>3, <1>4

-----------------------------------------------------------------------------
(* Types. *)

Histories == [overlapped : BOOLEAN, crossed : BOOLEAN, astray : SUBSET Cameras,
              commands : Nat]

(* The ghosts when thread t reads the project's switch. *)
LEMMA CrossedFacts ==
  ASSUME NEW h \in Histories, NEW t
  PROVE  /\ Crossed(h, t) \in Histories
         /\ Crossed(h, t).overlapped = h.overlapped
         /\ Crossed(h, t).crossed = (\E u \in Threads \ {t} : Throws(u))
         /\ Crossed(h, t).astray
              = IF \E u \in Threads \ {t} : Throws(u) THEN Cameras ELSE h.astray
<1> DEFINE met == \E u \in Threads \ {t} : Throws(u)
<1>1. met \in BOOLEAN
  OBVIOUS
<1>2. Crossed(h, t) = [h EXCEPT !.crossed = met, !.astray = IF met THEN Cameras ELSE @]
  BY DEF Crossed
<1> HIDE DEF met
<1>3. /\ Crossed(h, t) \in Histories /\ Crossed(h, t).overlapped = h.overlapped
      /\ Crossed(h, t).crossed = met
      /\ Crossed(h, t).astray = IF met THEN Cameras ELSE h.astray
  BY <1>1, <1>2 DEF Histories
<1> QED BY <1>3 DEF met

LEMMA CommandedFacts ==
  ASSUME TypeOK
  PROVE  /\ history \in Histories /\ Commanded \in Histories
         /\ Commanded.overlapped = history.overlapped
         /\ Commanded.crossed = history.crossed
         /\ Commanded.astray = history.astray
<1>1. history \in Histories
  BY DEF TypeOK, Histories
<1> QED BY <1>1 DEF Commanded, Histories

(* What SpotStart, SetCamera and FinishList do to the ghosts. *)
LEMMA SpotStartGhosts ==
  ASSUME TypeOK, NEW channels, SpotStart(channels)
  PROVE  /\ history' \in Histories
         /\ history'.overlapped =
              (\E c \in SpotCameras : \/ counterRead[c] # NoValue
                                      \/ HasPath(events[c])
                                      \/ imageList[c] > 0 /\ c \notin channels)
         /\ history'.crossed = history.crossed /\ history'.astray = history.astray
<1> DEFINE o == \E c \in SpotCameras : \/ counterRead[c] # NoValue
                                       \/ HasPath(events[c])
                                       \/ imageList[c] > 0 /\ c \notin channels
<1>1. o \in BOOLEAN /\ history' = [Commanded EXCEPT !.overlapped = o]
  BY DEF SpotStart
<1> HIDE DEF o
<1>2. /\ history' \in Histories /\ history'.overlapped = o
      /\ history'.crossed = history.crossed /\ history'.astray = history.astray
  BY <1>1, CommandedFacts DEF Histories
<1> QED BY <1>2 DEF o

LEMMA SetCameraGhosts ==
  ASSUME TypeOK, NEW t, NEW c, SetCamera(t, c)
  PROVE  /\ history' \in Histories
         /\ history'.overlapped = history.overlapped
         /\ history'.crossed = history.crossed
         /\ history'.astray = IF setting[t].value = camEnabled[c] \/ history.crossed
                              THEN history.astray ELSE history.astray \ {c}
<1>1. history \in Histories
  BY CommandedFacts
<1>2. CASE setting[t].value = camEnabled[c]
  BY <1>1, <1>2 DEF SetCamera
<1>3. CASE setting[t].value # camEnabled[c]
  <2> DEFINE A == IF history.crossed THEN history.astray ELSE history.astray \ {c}
  <2>1. A \in SUBSET Cameras
    BY <1>1 DEF Histories
  <2>2. history' = [history EXCEPT !.astray = A]
    BY <1>3 DEF SetCamera
  <2> HIDE DEF A
  <2>3. /\ history' \in Histories /\ history'.overlapped = history.overlapped
        /\ history'.crossed = history.crossed /\ history'.astray = A
    BY <1>1, <2>1, <2>2 DEF Histories
  <2> QED BY <1>3, <2>3 DEF A
<1> QED BY <1>2, <1>3

LEMMA FinishListGhosts ==
  ASSUME TypeOK, NEW c, FinishList(c)
  PROVE  /\ history' \in Histories
         /\ history'.overlapped = (history.overlapped \/ c \in Due \/ HasPath(events[c]))
         /\ history'.crossed = history.crossed /\ history'.astray = history.astray
<1> DEFINE o == history.overlapped \/ c \in Due \/ HasPath(events[c])
<1>1. history \in Histories
  BY CommandedFacts
<1>2. o \in BOOLEAN /\ history' = [history EXCEPT !.overlapped = o]
  BY <1>1 DEF FinishList, Histories
<1> HIDE DEF o
<1>3. /\ history' \in Histories /\ history'.overlapped = o
      /\ history'.crossed = history.crossed /\ history'.astray = history.astray
  BY <1>1, <1>2 DEF Histories
<1> QED BY <1>3 DEF o

(* What the commands that throw the switch at once do. *)
LEMMA CommandType ==
  ASSUME TypeOK, Command, NEW t \in Threads, NEW v \in BOOLEAN, NEW a \in Afterwards,
         BeginSet(t, v, a), history' = Crossed(Commanded, t),
         UNCHANGED <<detectStatus, waitFinish, events>>
  PROVE  TypeOK'
<1>1. setting' \in Busies
  <2>1. "read" \in Stages /\ enabled \in BOOLEAN
    BY DEF Stages, TypeOK
  <2> QED BY <2>1, Begins DEF BeginSet
<1>2. history' \in Histories
  BY CommandedFacts, CrossedFacts
<1> QED BY <1>1, <1>2 DEF TypeOK, Histories, Busies, BeginSet, Command, cameraVars

LEMMA QueueTypes ==
  ASSUME TypeOK, NEW c \in Cameras
  PROVE  /\ \A e \in {"start", "stop", "path"} :
              [events EXCEPT ![c] = Append(@, e)] \in [Cameras -> EventSeq]
         /\ events[c] # << >> => [events EXCEPT ![c] = Tail(@)] \in [Cameras -> EventSeq]
<1>1. events \in [Cameras -> EventSeq] /\ events[c] \in EventSeq
  BY DEF TypeOK, EventSeq
<1>2. \A e \in {"start", "stop", "path"} : Append(events[c], e) \in EventSeq
  BY <1>1 DEF EventSeq
<1>3. events[c] # << >> => Tail(events[c]) \in EventSeq
  BY <1>1 DEF EventSeq
<1> QED BY <1>1, <1>2, <1>3

LEMMA TypeStep == TypeOK /\ [Next]_vars => TypeOK'
<1> SUFFICES ASSUME TypeOK, [Next]_vars PROVE TypeOK'
  OBVIOUS
<1>1. ASSUME NEW mode \in {"Spot", "Infer"}, SetWorkMode(mode) PROVE TypeOK'
  <2>1. mode \in Afterwards /\ "tcp" \in Threads
    BY DEF Afterwards, Threads
  <2> QED BY <1>1, <2>1, CommandType DEF SetWorkMode
<1>2. ASSUME NEW v \in BOOLEAN, Enable(v) PROVE TypeOK'
  <2>1. (IF v THEN "On" ELSE "Stop") \in Afterwards /\ "tcp" \in Threads
    BY DEF Afterwards, Threads
  <2> QED BY <1>2, <2>1, CommandType DEF Enable
<1>3. ASSUME NEW v \in BOOLEAN, OtherSets(v) PROVE TypeOK'
  <2>1. "nothing" \in Afterwards /\ "other" \in Threads
    BY DEF Afterwards, Threads
  <2> QED BY <1>3, <2>1, CommandType DEF OtherSets
<1>4. ASSUME NEW channels \in SUBSET Channels, SpotStart(channels) PROVE TypeOK'
  <2>1. /\ "nothing" \in Afterwards /\ "tcp" \in Threads /\ "posting" \in Stages
        /\ channels \cap SpotCameras \in SUBSET Cameras
    BY DEF Afterwards, Threads, Stages, Cameras
  <2>2. setting' \in Busies
    BY <1>4, <2>1, Begins DEF SpotStart
  <2>3. history' \in Histories
    BY <1>4, SpotStartGhosts
  <2>4. waitFinish' \in Int
    BY <1>4, ConstantsOK, FS_Subset, FS_CardinalityType DEF SpotStart, CountOf
  <2> QED BY <1>4, <2>2, <2>3, <2>4
         DEF TypeOK, SpotStart, Command, cameraVars, Histories, Busies
<1>5. ASSUME SpotStop PROVE TypeOK'
  <2>1. history' \in Histories
    BY <1>5, CommandedFacts DEF SpotStop
  <2> QED BY <1>5, <2>1 DEF TypeOK, SpotStop, Command, switchVars, cameraVars, Histories
<1>6. ASSUME Inquire PROVE TypeOK'
  BY <1>6 DEF TypeOK, Inquire, switchVars, cameraVars
<1>7. ASSUME NEW c \in SpotCameras, PostPath(c) PROVE TypeOK'
  <2>1. setting' \in Busies
    BY <1>7, PostPathMoves DEF Moved
  <2>2. events' \in [Cameras -> EventSeq]
    BY <1>7, QueueTypes DEF PostPath, Cameras
  <2> QED BY <1>7, <2>1, <2>2
         DEF TypeOK, PostPath, unlessSwitched, cameraVars, Busies, EventSeq
<1>8. ASSUME ReadSwitch PROVE TypeOK'
  <2>1. setting' \in Busies /\ history' \in Histories
    BY <1>8, ReadSwitchMoves, CrossedFacts, CommandedFacts DEF Moved, ReadSwitch
  <2> QED BY <1>8, <2>1
         DEF TypeOK, ReadSwitch, unlessSwitched, cameraVars, Busies, Histories
<1>9. ASSUME NEW t \in Threads, GoThrough(t) PROVE TypeOK'
  <2>1. setting' \in Busies
    BY <1>9, GoThroughMoves DEF Moved
  <2> QED BY <1>9, <2>1 DEF TypeOK, GoThrough, unlessSwitched, cameraVars, Busies
<1>10. ASSUME NEW t \in Threads, NEW c \in Cameras, SetCamera(t, c) PROVE TypeOK'
  <2>1. setting' \in Busies /\ history' \in Histories
    BY <1>10, SetCameraMoves, SetCameraGhosts DEF Moved
  <2>2. /\ events' \in [Cameras -> EventSeq]
        /\ startStage' \in [SpotCameras -> BOOLEAN]
    <3>1. CASE setting[t].value = camEnabled[c]
      BY <1>10, <3>1 DEF SetCamera, TypeOK, EventSeq
    <3>2. CASE setting[t].value # camEnabled[c]
      <4>1. startStage' = [d \in SpotCameras |->
                             startStage[d] \/ (d = c /\ setting[t].value)]
        BY <1>10, <3>2 DEF SetCamera
      <4>2. startStage' \in [SpotCameras -> BOOLEAN]
        BY <4>1
      <4>3. PICK e \in {"start", "stop"} : events' = [events EXCEPT ![c] = Append(@, e)]
        BY <1>10, <3>2 DEF SetCamera
      <4> QED BY <4>2, <4>3, QueueTypes
    <3> QED BY <3>1, <3>2
  <2> QED BY <1>10, <2>1, <2>2
         DEF TypeOK, SetCamera, unlessSwitched, cameraVars, Busies, Histories, EventSeq
<1>11. ASSUME NEW t \in Threads, WriteCamera(t) PROVE TypeOK'
  <2>1. setting' \in Busies
    BY <1>11, WriteCameraMoves DEF Moved
  <2>2. setting[t].value \in BOOLEAN
    BY <1>11, WriteCameraMoves, BusyFacts
  <2>3. camEnabled' \in [Cameras -> BOOLEAN]
    BY <1>11, <2>2 DEF WriteCamera, TypeOK
  <2> QED BY <1>11, <2>1, <2>3 DEF TypeOK, WriteCamera, unlessSwitched, cameraVars, Busies
<1>12. ASSUME NEW t \in Threads, StoreSwitch(t) PROVE TypeOK'
  <2>1. setting' \in Busies
    BY <1>12, StoreSwitchMoves DEF Moved, TypeOK, Busies
  <2>2. enabled' \in BOOLEAN
    BY <1>12, StoreSwitchMoves, BusyFacts DEF StoreSwitch
  <2> QED BY <1>12, <2>1, <2>2 DEF TypeOK, StoreSwitch, unlessSwitched, cameraVars, Busies
<1>13. ASSUME NEW t \in Threads, Conclude(t) PROVE TypeOK'
  <2>1. setting' \in Busies
    BY <1>13 DEF Conclude, TypeOK, Busies
  <2>2. runType' \in {"Spot", "Infer"} /\ detectStatus' \in {"On", "Finish", "Stop"}
    BY <1>13 DEF Conclude, TypeOK
  <2> QED BY <1>13, <2>1, <2>2 DEF TypeOK, Conclude, cameraVars, Busies
<1>14. ASSUME NEW c \in Cameras, TimerEvent(c) PROVE TypeOK'
  <2>1. PICK e \in {"start", "stop"} :
          TakeEvent(c, e) /\ timer' = [timer EXCEPT ![c] = (e = "start")]
    BY <1>14 DEF TimerEvent
  <2>2. events' \in [Cameras -> EventSeq]
    BY <2>1, QueueTypes DEF TakeEvent
  <2>3. timer' \in [Cameras -> BOOLEAN]
    BY <2>1 DEF TypeOK
  <2> QED BY <1>14, <2>1, <2>2, <2>3
         DEF TypeOK, TimerEvent, TakeEvent, switchVars, cameraVars, EventSeq
<1>15. ASSUME NEW c \in SpotCameras, NEW n \in 0..MaxImages, SetImageSrcPath(c, n)
       PROVE TypeOK'
  <2>1. c \in Cameras /\ n \in Nat
    BY ConstantsOK DEF Cameras
  <2>2. events' \in [Cameras -> EventSeq]
    BY <1>15, <2>1, QueueTypes DEF SetImageSrcPath, TakeEvent
  <2>3. imageList' \in [SpotCameras -> Nat] /\ readIndex' \in [SpotCameras -> Nat]
    BY <1>15, <2>1 DEF SetImageSrcPath, TypeOK
  <2>4. counterRead' \in [SpotCameras -> Int \cup {NoValue}]
    BY <1>15 DEF SetImageSrcPath, ReadCounter, TypeOK
  <2>5. played' \in [SpotCameras -> Tally]
    <3>1. [found |-> n, sent |-> 0, skipped |-> 0] \in Tally
      BY <2>1 DEF Tally
    <3> QED BY <1>15, <3>1 DEF SetImageSrcPath, TypeOK
  <2> QED BY <1>15, <2>2, <2>3, <2>4, <2>5
         DEF TypeOK, SetImageSrcPath, TakeEvent, switchVars, EventSeq
<1>16. ASSUME NEW c \in SpotCameras, WriteCounter(c) PROVE TypeOK'
  BY <1>16 DEF TypeOK, WriteCounter, switchVars
<1>17. ASSUME NEW c \in SpotCameras, LeaveStartStage(c) PROVE TypeOK'
  BY <1>17 DEF TypeOK, LeaveStartStage, Timeout, switchVars, cameraVars
<1>18. ASSUME NEW c \in SpotCameras, NextImage(c) PROVE TypeOK'
  <2>1. readIndex[c] + 1 \in Nat /\ played[c] \in Tally
    BY DEF TypeOK
  <2>2. /\ [played[c] EXCEPT !.sent = @ + 1] \in Tally
        /\ [played[c] EXCEPT !.skipped = @ + 1] \in Tally
    BY <2>1 DEF Tally
  <2>3. played' \in [SpotCameras -> Tally]
    BY <1>18, <2>2 DEF NextImage, TypeOK
  <2> QED BY <1>18, <2>1, <2>3 DEF TypeOK, NextImage, Timeout, switchVars
<1>19. ASSUME NEW c \in SpotCameras, FinishList(c) PROVE TypeOK'
  <2>1. history' \in Histories
    BY <1>19, FinishListGhosts
  <2> QED BY <1>19, <2>1
         DEF TypeOK, FinishList, Timeout, ReadCounter, DropList, switchVars, Histories
<1>20. CASE UNCHANGED vars
  BY <1>20 DEF TypeOK, vars, switchVars, cameraVars
<1> QED BY <1>1, <1>2, <1>3, <1>4, <1>5, <1>6, <1>7, <1>8, <1>9, <1>10, <1>11, <1>12,
          <1>13, <1>14, <1>15, <1>16, <1>17, <1>18, <1>19, <1>20
        DEF Next, ThreadStep, CameraStep

LEMMA TypeInit == Init => TypeOK
<1> SUFFICES ASSUME Init PROVE TypeOK
  OBVIOUS
<1>1. setting \in [Threads -> Setting \cup {Idle}]
  BY DEF Init
<1>2. events \in [Cameras -> Seq({"start", "stop", "path"})]
  BY DEF Init
<1>3. played \in [SpotCameras -> Tally] /\ history \in Histories
  BY DEF Init, HistoryInit, Tally, Histories
<1> QED BY <1>1, <1>2, <1>3 DEF Init, TypeOK, Histories

(* Every variable keeps its type: the switch, the queues, the counter. *)
THEOREM TypesStay == Spec => []TypeOK
  BY TypeInit, TypeStep, PTL DEF Spec

-----------------------------------------------------------------------------
(* Directories in the queue of a camera. *)

LEMMA AppendSwitchPaths ==
  ASSUME NEW s \in EventSeq, NEW e \in {"start", "stop"}
  PROVE  /\ HasPath(Append(s, e)) => HasPath(s)
         /\ OnePath(s) => OnePath(Append(s, e))
<1>1. /\ DOMAIN Append(s, e) = 1..(Len(s) + 1) /\ DOMAIN s = 1..Len(s)
      /\ Append(s, e)[Len(s) + 1] = e /\ Len(s) \in Nat
      /\ \A i \in DOMAIN s : Append(s, e)[i] = s[i]
  BY DEF EventSeq
<1>2. \A i \in DOMAIN Append(s, e) :
        Append(s, e)[i] = "path" => i \in DOMAIN s /\ s[i] = "path"
  BY <1>1
<1> QED BY <1>1, <1>2 DEF HasPath, OnePath

LEMMA AppendPath ==
  ASSUME NEW s \in EventSeq, ~HasPath(s) PROVE OnePath(Append(s, "path"))
<1>1. /\ DOMAIN Append(s, "path") = 1..(Len(s) + 1) /\ DOMAIN s = 1..Len(s)
      /\ Len(s) \in Nat
      /\ \A i \in DOMAIN s : Append(s, "path")[i] = s[i]
  BY DEF EventSeq
<1>2. \A i \in DOMAIN Append(s, "path") :
        Append(s, "path")[i] = "path" => i = Len(s) + 1
  BY <1>1 DEF HasPath
<1> QED BY <1>2 DEF OnePath

LEMMA TailPaths ==
  ASSUME NEW s \in EventSeq, s # << >>
  PROVE  /\ HasPath(Tail(s)) => HasPath(s)
         /\ OnePath(s) => OnePath(Tail(s))
         /\ OnePath(s) /\ Head(s) = "path" => ~HasPath(Tail(s))
         /\ Head(s) = "path" => HasPath(s)
<1>1. \A i \in DOMAIN Tail(s) : /\ i + 1 \in DOMAIN s /\ Tail(s)[i] = s[i + 1]
                                /\ i \in Nat \ {0}
  BY DEF EventSeq
<1>2. 1 \in DOMAIN s /\ Head(s) = s[1]
  BY DEF EventSeq
<1>3. HasPath(Tail(s)) => HasPath(s)
  BY <1>1 DEF HasPath
<1>4. ASSUME OnePath(s) PROVE OnePath(Tail(s))
  <2> SUFFICES ASSUME NEW i \in DOMAIN Tail(s), NEW j \in DOMAIN Tail(s),
                      Tail(s)[i] = "path", Tail(s)[j] = "path"
               PROVE  i = j
    BY DEF OnePath
  <2>1. i + 1 = j + 1
    BY <1>1, <1>4 DEF OnePath
  <2> QED BY <1>1, <2>1
<1>5. ASSUME OnePath(s), Head(s) = "path", HasPath(Tail(s)) PROVE FALSE
  <2>1. PICK i \in DOMAIN Tail(s) : Tail(s)[i] = "path"
    BY <1>5 DEF HasPath
  <2>2. i + 1 = 1
    BY <1>1, <1>2, <1>5, <2>1 DEF OnePath
  <2> QED BY <1>1, <2>2
<1> QED BY <1>2, <1>3, <1>4, <1>5 DEF HasPath

(* The unfinished cameras are finitely many. *)
LEMMA UnfinishedFinite ==
  /\ IsFiniteSet(SpotCameras)
  /\ \A S \in SUBSET SpotCameras : IsFiniteSet(S) /\ Cardinality(S) \in Nat
  /\ \A S \in SUBSET SpotCameras : \A T \in SUBSET S : Cardinality(T) <= Cardinality(S)
<1>1. IsFiniteSet(SpotCameras)
  BY ConstantsOK, FS_Subset DEF Channels
<1> QED BY <1>1, FS_Subset, FS_CardinalityType

LEMMA UnfinishedIs ==
  /\ Unfinished = {c \in SpotCameras : \/ imageList[c] > 0
                                       \/ counterRead[c] # NoValue
                                       \/ HasPath(events[c])
                                       \/ c \in Due}
  /\ Unfinished' = {c \in SpotCameras : \/ imageList'[c] > 0
                                        \/ counterRead'[c] # NoValue
                                        \/ HasPath(events'[c])
                                        \/ c \in Due'}
  BY DEF Unfinished

(* No step but the start of a check and the posting of its directories changes
   what is due. *)
LEMMA DueStays ==
  ASSUME setting'["tcp"] = setting["tcp"] \/ (~At("tcp", "posting") /\ ~At("tcp", "posting")')
  PROVE  Due' = Due
  BY DEF Due, At, Busy

-----------------------------------------------------------------------------
(* The counter of unfinished cameras. *)

(* A step that queues no directory and leaves the counter alone. *)
LEMMA QuietCounter ==
  ASSUME TypeOK, CounterInv, UNCHANGED <<waitFinish, imageList, counterRead>>,
         Due' = Due, history'.overlapped = history.overlapped,
         \A c \in SpotCameras :
           /\ HasPath(events'[c]) => HasPath(events[c])
           /\ OnePath(events[c]) => OnePath(events'[c])
  PROVE  CounterInv'
<1> SUFFICES ASSUME ~history.overlapped PROVE OneStage' /\ Covered'
  BY DEF CounterInv
<1>1. OneStage /\ Covered
  BY DEF CounterInv
<1>2. OneStage'
  BY <1>1 DEF OneStage
<1>3. Unfinished' \subseteq Unfinished /\ Unfinished \subseteq SpotCameras
  BY UnfinishedIs
<1>4. Cardinality(Unfinished') <= Cardinality(Unfinished)
      /\ Cardinality(Unfinished') \in Nat /\ Cardinality(Unfinished) \in Nat
  BY <1>3, UnfinishedFinite
<1>5. waitFinish \in Int /\ \A c \in SpotCameras : counterRead[c] \in Int \cup {NoValue}
  BY DEF TypeOK
<1>6. Covered'
  BY <1>1, <1>4, <1>5 DEF Covered
<1> QED BY <1>2, <1>6

(* A check is started: every camera of it is due, and no other is unfinished,
   unless the check overlaps one before. *)
LEMMA StartCounter ==
  ASSUME TypeOK, CounterInv, NEW channels \in SUBSET Channels, SpotStart(channels)
  PROVE  CounterInv'
<1>1. history'.overlapped =
        (\E c \in SpotCameras : \/ counterRead[c] # NoValue
                                \/ HasPath(events[c])
                                \/ imageList[c] > 0 /\ c \notin channels)
  BY SpotStartGhosts
<1> SUFFICES ASSUME ~history'.overlapped PROVE OneStage' /\ Covered'
  BY DEF CounterInv
<1>2. /\ UNCHANGED <<imageList, counterRead, events>> /\ waitFinish' = Cardinality(channels)
  BY DEF SpotStart, Command, cameraVars, CountOf
<1>3. \A c \in SpotCameras : /\ imageList[c] > 0 => c \in channels
                             /\ counterRead[c] = NoValue /\ ~HasPath(events[c])
  BY <1>1
<1>4. Due' = channels \cap SpotCameras
  <2>1. /\ "nothing" \in Afterwards /\ "tcp" \in Threads /\ "posting" \in Stages
        /\ channels \cap SpotCameras \in SUBSET Cameras
    BY DEF Afterwards, Threads, Stages, Cameras
  <2> DEFINE r == Begun("posting", TRUE, FALSE, channels \cap SpotCameras, "nothing")
  <2>2. r.busy = TRUE /\ r.stage = "posting" /\ r.todo = channels \cap SpotCameras
    BY DEF Begun
  <2>3. setting' = [setting EXCEPT !["tcp"] = r]
    BY DEF SpotStart
  <2> HIDE DEF r
  <2>4. setting'["tcp"] = r /\ r # Idle
    BY <2>1, <2>2, <2>3 DEF TypeOK, Idle
  <2> QED BY <2>2, <2>4 DEF Due, At, Busy
<1>5. OneStage'
  BY <1>2, <1>3 DEF OneStage, OnePath, HasPath
<1>6. Unfinished' \subseteq channels
  BY <1>2, <1>3, <1>4, UnfinishedIs
<1>7. IsFiniteSet(channels)
  BY ConstantsOK, FS_Subset
<1>8. Cardinality(Unfinished') <= Cardinality(channels)
  BY <1>6, <1>7, FS_Subset
<1>9. Covered'
  BY <1>2, <1>3, <1>8 DEF Covered
<1> QED BY <1>5, <1>9

(* A directory goes into the queue of a camera, which was and is unfinished. *)
LEMMA PostCounter ==
  ASSUME TypeOK, CounterInv, NEW c \in SpotCameras, PostPath(c)
  PROVE  CounterInv'
<1>1. UNCHANGED <<waitFinish, imageList, counterRead, history>>
  BY DEF PostPath, unlessSwitched, cameraVars
<1> SUFFICES ASSUME ~history.overlapped PROVE OneStage' /\ Covered'
  BY <1>1 DEF CounterInv
<1>2. OneStage /\ Covered
  BY DEF CounterInv
<1>3. c \in Due /\ Due' = Due \ {c}
  <2>1. /\ At("tcp", "posting") /\ c \in setting["tcp"].todo
        /\ setting'["tcp"] # Idle /\ setting'["tcp"].stage = "posting"
        /\ setting'["tcp"].todo = setting["tcp"].todo \ {c}
    BY PostPathMoves DEF Moved, Fields
  <2> QED BY <2>1 DEF Due, At, Busy
<1>4. /\ c \in Cameras /\ events[c] \in EventSeq /\ ~HasPath(events[c])
      /\ events'[c] = Append(events[c], "path")
      /\ \A d \in Cameras \ {c} : events'[d] = events[d]
  BY <1>2, <1>3 DEF OneStage, PostPath, TypeOK, EventSeq, Cameras
<1>5. OnePath(events'[c])
  BY <1>4, AppendPath
<1>6. HasPath(events'[c])
  <2>1. Len(events[c]) + 1 \in DOMAIN Append(events[c], "path")
        /\ Append(events[c], "path")[Len(events[c]) + 1] = "path"
    BY <1>4 DEF EventSeq
  <2> QED BY <1>4, <2>1 DEF HasPath
<1>7. OneStage'
  <2> SUFFICES ASSUME NEW d \in SpotCameras
               PROVE  /\ OnePath(events'[d])
                      /\ d \in Due' => ~HasPath(events'[d])
                      /\ counterRead'[d] # NoValue =>
                           imageList'[d] = 0 /\ ~HasPath(events'[d]) /\ d \notin Due'
    BY DEF OneStage
  <2>1. CASE d = c
    BY <1>1, <1>2, <1>3, <1>5, <2>1 DEF OneStage
  <2>2. CASE d # c
    <3>1. events'[d] = events[d]
      BY <1>4, <2>2 DEF Cameras
    <3> QED BY <1>1, <1>2, <1>3, <3>1 DEF OneStage
  <2> QED BY <2>1, <2>2
<1>8. Unfinished' = Unfinished
  <2>1. c \in Unfinished /\ c \in Unfinished'
    BY <1>3, <1>6, UnfinishedIs
  <2>2. ASSUME NEW d \in SpotCameras, d # c PROVE d \in Unfinished <=> d \in Unfinished'
    <3>1. events'[d] = events[d]
      BY <1>4, <2>2 DEF Cameras
    <3> QED BY <1>1, <1>3, <2>2, <3>1, UnfinishedIs
  <2> QED BY <2>1, <2>2, UnfinishedIs
<1>9. Covered'
  BY <1>1, <1>2, <1>8 DEF Covered
<1> QED BY <1>7, <1>9

(* A camera has found its images; without any it begins to count itself off.
   It remains unfinished. *)
LEMMA PathCounter ==
  ASSUME TypeOK, CounterInv, NEW c \in SpotCameras, NEW n \in 0..MaxImages,
         SetImageSrcPath(c, n)
  PROVE  CounterInv'
<1> SUFFICES ASSUME ~history.overlapped PROVE OneStage' /\ Covered'
  BY DEF CounterInv, SetImageSrcPath, TakeEvent
<1>1. OneStage /\ Covered
  BY DEF CounterInv
<1>2. /\ counterRead[c] = NoValue /\ events[c] # << >> /\ Head(events[c]) = "path"
      /\ events[c] \in EventSeq /\ events' = [events EXCEPT ![c] = Tail(events[c])]
      /\ events \in [Cameras -> EventSeq] /\ c \in Cameras /\ waitFinish' = waitFinish
  BY DEF SetImageSrcPath, TakeEvent, Free, TypeOK, EventSeq, Cameras
<1>3. OnePath(events[c])
  BY <1>1 DEF OneStage
<1>4. HasPath(events[c]) /\ ~HasPath(events'[c]) /\ OnePath(events'[c])
  BY <1>2, <1>3, TailPaths
<1>5. /\ imageList' = [imageList EXCEPT ![c] = n]
      /\ counterRead' = IF n = 0 THEN [counterRead EXCEPT ![c] = waitFinish] ELSE counterRead
      /\ imageList \in [SpotCameras -> Nat]
      /\ counterRead \in [SpotCameras -> Int \cup {NoValue}]
      /\ waitFinish \in Int /\ NoValue \notin Int /\ n \in Nat
  BY ConstantsOK DEF SetImageSrcPath, ReadCounter, TypeOK
<1>6. Due' = Due /\ c \notin Due
  <2>1. setting' = setting
    BY DEF SetImageSrcPath, TakeEvent, switchVars
  <2> QED BY <1>1, <1>4, <2>1, DueStays DEF OneStage
<1>7. OneStage'
  <2> SUFFICES ASSUME NEW d \in SpotCameras
               PROVE  /\ OnePath(events'[d])
                      /\ d \in Due' => ~HasPath(events'[d])
                      /\ counterRead'[d] # NoValue =>
                           imageList'[d] = 0 /\ ~HasPath(events'[d]) /\ d \notin Due'
    BY DEF OneStage
  <2>1. CASE d = c
    BY <1>2, <1>4, <1>5, <1>6, <2>1
  <2>2. CASE d # c
    <3>1. events'[d] = events[d] /\ imageList'[d] = imageList[d]
          /\ counterRead'[d] = counterRead[d]
      BY <1>2, <1>5, <2>2 DEF Cameras
    <3> QED BY <1>1, <1>6, <3>1 DEF OneStage
  <2> QED BY <2>1, <2>2
<1>8. Unfinished' \subseteq Unfinished /\ Unfinished \subseteq SpotCameras
  <2>1. c \in Unfinished
    BY <1>4, UnfinishedIs
  <2>2. ASSUME NEW d \in SpotCameras, d # c, d \in Unfinished' PROVE d \in Unfinished
    <3>1. events'[d] = events[d] /\ imageList'[d] = imageList[d]
          /\ counterRead'[d] = counterRead[d]
      BY <1>2, <1>5, <2>2 DEF Cameras
    <3> QED BY <1>6, <2>2, <3>1, UnfinishedIs
  <2> QED BY <2>1, <2>2, UnfinishedIs
<1>9. Cardinality(Unfinished') <= Cardinality(Unfinished)
      /\ Cardinality(Unfinished') \in Nat /\ Cardinality(Unfinished) \in Nat
  BY <1>8, UnfinishedFinite
<1>10. Covered'
  <2>1. waitFinish' >= Cardinality(Unfinished')
    BY <1>1, <1>2, <1>5, <1>9 DEF Covered
  <2>2. ASSUME NEW d \in SpotCameras, counterRead'[d] # NoValue
        PROVE  counterRead'[d] >= Cardinality(Unfinished')
    <3>1. CASE counterRead'[d] = waitFinish
      BY <1>2, <2>1, <3>1
    <3>2. CASE counterRead'[d] = counterRead[d]
      BY <1>1, <1>5, <1>9, <2>2, <3>2 DEF Covered
    <3> QED BY <1>5, <3>1, <3>2
  <2> QED BY <2>1, <2>2 DEF Covered
<1> QED BY <1>7, <1>10

(* A camera at the end of its list begins to count itself off. *)
LEMMA FinishCounter ==
  ASSUME TypeOK, CounterInv, NEW c \in SpotCameras, FinishList(c)
  PROVE  CounterInv'
<1>0. history'.overlapped = (history.overlapped \/ c \in Due \/ HasPath(events[c]))
  BY FinishListGhosts
<1> SUFFICES ASSUME ~history.overlapped, c \notin Due, ~HasPath(events[c])
             PROVE  OneStage' /\ Covered'
  BY <1>0 DEF CounterInv
<1>1. OneStage /\ Covered
  BY DEF CounterInv
<1>2. /\ imageList' = [imageList EXCEPT ![c] = 0] /\ imageList[c] > 0
      /\ counterRead' = [counterRead EXCEPT ![c] = waitFinish]
      /\ imageList \in [SpotCameras -> Nat]
      /\ counterRead \in [SpotCameras -> Int \cup {NoValue}]
      /\ events' = events /\ waitFinish' = waitFinish /\ waitFinish \in Int
      /\ setting' = setting
  BY DEF FinishList, Timeout, DropList, ReadCounter, TypeOK, switchVars
<1>3. Due' = Due
  BY <1>2, DueStays
<1>4. OneStage'
  BY <1>1, <1>2, <1>3 DEF OneStage
<1>5. Unfinished' \subseteq Unfinished /\ Unfinished \subseteq SpotCameras
  BY <1>2, <1>3, UnfinishedIs
<1>6. Cardinality(Unfinished') <= Cardinality(Unfinished)
      /\ Cardinality(Unfinished') \in Nat /\ Cardinality(Unfinished) \in Nat
  BY <1>5, UnfinishedFinite
<1>7. Covered'
  BY <1>1, <1>2, <1>6 DEF Covered
<1> QED BY <1>4, <1>7

(* A camera writes what it has read, less one, and has finished. *)
LEMMA WriteCounterStep ==
  ASSUME TypeOK, CounterInv, NEW c \in SpotCameras, WriteCounter(c)
  PROVE  CounterInv'
<1> SUFFICES ASSUME ~history.overlapped PROVE OneStage' /\ Covered'
  BY DEF CounterInv, WriteCounter
<1>1. OneStage /\ Covered
  BY DEF CounterInv
<1>2. /\ counterRead[c] # NoValue /\ counterRead[c] \in Int
      /\ waitFinish' = counterRead[c] - 1
      /\ counterRead' = [counterRead EXCEPT ![c] = NoValue]
      /\ counterRead \in [SpotCameras -> Int \cup {NoValue}]
      /\ UNCHANGED <<events, imageList>> /\ imageList \in [SpotCameras -> Nat]
      /\ setting' = setting
  BY DEF WriteCounter, TypeOK, switchVars
<1>3. Due' = Due
  BY <1>2, DueStays
<1>4. OneStage'
  BY <1>1, <1>2, <1>3 DEF OneStage
<1>5. c \in Unfinished /\ Unfinished' = Unfinished \ {c} /\ Unfinished \subseteq SpotCameras
  <2>1. ~(imageList[c] > 0) /\ ~HasPath(events[c]) /\ c \notin Due
    BY <1>1, <1>2 DEF OneStage
  <2> QED BY <1>2, <1>3, <2>1, UnfinishedIs
<1>6. /\ Cardinality(Unfinished) \in Nat
      /\ Cardinality(Unfinished') = Cardinality(Unfinished) - 1
  BY <1>5, UnfinishedFinite, FS_RemoveElement
<1>7. Covered'
  <2>1. waitFinish' >= Cardinality(Unfinished')
    BY <1>1, <1>2, <1>6 DEF Covered
  <2>2. ASSUME NEW d \in SpotCameras, counterRead'[d] # NoValue
        PROVE  counterRead'[d] >= Cardinality(Unfinished')
    BY <1>1, <1>2, <1>6, <2>2 DEF Covered
  <2> QED BY <2>1, <2>2 DEF Covered
<1> QED BY <1>4, <1>7

(* Steps of the threads that are none of the checks. *)
LEMMA ThreadsLeaveDue ==
  ASSUME TypeOK, NEW t \in Threads
  PROVE  /\ \A v \in BOOLEAN, a \in Afterwards : BeginSet(t, v, a) => Due' = Due
         /\ ThreadStep(t) => Due' = Due
         /\ ReadSwitch => Due' = Due
<1>1. ASSUME NEW v \in BOOLEAN, NEW a \in Afterwards, BeginSet(t, v, a) PROVE Due' = Due
  <2>1. "read" \in Stages /\ enabled \in BOOLEAN
    BY DEF Stages, TypeOK
  <2>2. /\ setting'[t].stage = "read" /\ ~Busy(t)
        /\ \A u \in Threads \ {t} : setting'[u] = setting[u]
    BY <1>1, <2>1, Begins DEF BeginSet
  <2> QED BY <2>2, DueStays DEF At, Threads
<1>2. ASSUME NEW x, NEW o, NEW d, NEW w, Moved(t, x, o, d, w), ~At(t, "posting"),
             x # "posting"
      PROVE  Due' = Due
  <2>1. setting'[t].stage = x /\ \A u \in Threads \ {t} : setting'[u] = setting[u]
    BY <1>2 DEF Moved, Fields
  <2> QED BY <1>2, <2>1, DueStays DEF At, Threads
<1>3. ASSUME setting' = [setting EXCEPT ![t] = Idle], ~At(t, "posting") PROVE Due' = Due
  <2>1. setting'[t] = Idle /\ \A u \in Threads \ {t} : setting'[u] = setting[u]
    BY <1>3 DEF TypeOK
  <2> QED BY <1>3, <2>1, DueStays DEF At, Busy, Threads
<1>4. ASSUME GoThrough(t) PROVE Due' = Due
  BY <1>2, <1>4, GoThroughMoves DEF Gone, At
<1>5. ASSUME NEW c \in Cameras, SetCamera(t, c) PROVE Due' = Due
  BY <1>2, <1>5, SetCameraMoves DEF At
<1>6. ASSUME WriteCamera(t) PROVE Due' = Due
  BY <1>2, <1>6, WriteCameraMoves DEF At
<1>7. ASSUME StoreSwitch(t) PROVE Due' = Due
  BY <1>2, <1>3, <1>7, StoreSwitchMoves DEF At
<1>8. ASSUME Conclude(t) PROVE Due' = Due
  BY <1>3, <1>8 DEF Conclude, At
<1>9. ASSUME ReadSwitch PROVE Due' = Due
  <2>1. At("tcp", "posting") /\ setting["tcp"].todo = {} /\ setting'["tcp"].stage = "read"
    BY <1>9, ReadSwitchMoves DEF Moved, Fields
  <2> QED BY <2>1 DEF Due, At
<1> QED BY <1>1, <1>4, <1>5, <1>6, <1>7, <1>8, <1>9 DEF ThreadStep

LEMMA CounterStep ==
  ASSUME TypeOK, CounterInv, [Next]_vars PROVE CounterInv'
<1>1. /\ Commanded.overlapped = history.overlapped
      /\ \A t : Crossed(Commanded, t).overlapped = history.overlapped
      /\ \A t : Crossed(history, t).overlapped = history.overlapped
  BY CommandedFacts, CrossedFacts
<1>2. ASSUME NEW mode \in {"Spot", "Infer"}, SetWorkMode(mode) PROVE CounterInv'
  <2>1. "tcp" \in Threads /\ mode \in Afterwards
    BY DEF Threads, Afterwards
  <2>2. Due' = Due
    BY <1>2, <2>1, ThreadsLeaveDue DEF SetWorkMode
  <2> QED BY <1>1, <1>2, <2>2, QuietCounter DEF SetWorkMode, Command, cameraVars
<1>3. ASSUME NEW v \in BOOLEAN, Enable(v) PROVE CounterInv'
  <2>1. "tcp" \in Threads /\ (IF v THEN "On" ELSE "Stop") \in Afterwards
    BY DEF Threads, Afterwards
  <2>2. Due' = Due
    BY <1>3, <2>1, ThreadsLeaveDue DEF Enable
  <2> QED BY <1>1, <1>3, <2>2, QuietCounter DEF Enable, Command, cameraVars
<1>4. ASSUME NEW v \in BOOLEAN, OtherSets(v) PROVE CounterInv'
  <2>1. "other" \in Threads /\ "nothing" \in Afterwards
    BY DEF Threads, Afterwards
  <2>2. Due' = Due
    BY <1>4, <2>1, ThreadsLeaveDue DEF OtherSets
  <2> QED BY <1>1, <1>4, <2>2, QuietCounter DEF OtherSets, Command, cameraVars
<1>5. ASSUME SpotStop \/ Inquire PROVE CounterInv'
  <2>1. Due' = Due
    BY <1>5, DueStays DEF SpotStop, Inquire, switchVars
  <2> QED BY <1>1, <1>5, <2>1, QuietCounter DEF SpotStop, Inquire, Command, cameraVars
<1>6. ASSUME NEW t \in Threads, GoThrough(t) \/ WriteCamera(t) \/ StoreSwitch(t) \/ Conclude(t)
      PROVE  CounterInv'
  <2>1. Due' = Due
    BY <1>6, ThreadsLeaveDue DEF ThreadStep
  <2> QED BY <1>6, <2>1, QuietCounter
         DEF GoThrough, WriteCamera, StoreSwitch, Conclude, unlessSwitched, cameraVars
<1>7. ASSUME ReadSwitch PROVE CounterInv'
  <2>1. Due' = Due
    BY <1>7, ThreadsLeaveDue DEF Threads
  <2> QED BY <1>1, <1>7, <2>1, QuietCounter DEF ReadSwitch, unlessSwitched, cameraVars
<1>8. ASSUME NEW t \in Threads, NEW d \in Cameras, SetCamera(t, d) PROVE CounterInv'
  <2>1. Due' = Due
    BY <1>8, ThreadsLeaveDue DEF ThreadStep
  <2>2. ASSUME NEW c \in SpotCameras
        PROVE  /\ HasPath(events'[c]) => HasPath(events[c])
               /\ OnePath(events[c]) => OnePath(events'[c])
    <3>1. events \in [Cameras -> EventSeq] /\ c \in Cameras
      BY DEF TypeOK, EventSeq, Cameras
    <3>2. events'[c] = events[c] \/ \E e \in {"start", "stop"} : events'[c] = Append(events[c], e)
      <4>1. \/ events' = events
            \/ \E e \in {"start", "stop"} : events' = [events EXCEPT ![d] = Append(@, e)]
        BY <1>8 DEF SetCamera
      <4> QED BY <3>1, <4>1
    <3>3. events[c] \in EventSeq
      BY <3>1
    <3>4. ASSUME NEW e \in {"start", "stop"}, events'[c] = Append(events[c], e)
          PROVE  /\ HasPath(events'[c]) => HasPath(events[c])
                 /\ OnePath(events[c]) => OnePath(events'[c])
      BY <3>3, <3>4, AppendSwitchPaths
    <3> QED BY <3>2, <3>4
  <2>3. history'.overlapped = history.overlapped
    BY <1>8, SetCameraGhosts
  <2> QED BY <1>8, <2>1, <2>2, <2>3, QuietCounter DEF SetCamera, unlessSwitched, cameraVars
<1>9. ASSUME NEW d \in Cameras, TimerEvent(d) PROVE CounterInv'
  <2>1. PICK e \in {"start", "stop"} : TakeEvent(d, e)
    BY <1>9 DEF TimerEvent
  <2>2. ASSUME NEW c \in SpotCameras
        PROVE  /\ HasPath(events'[c]) => HasPath(events[c])
               /\ OnePath(events[c]) => OnePath(events'[c])
    <3>1. events \in [Cameras -> EventSeq] /\ c \in Cameras
      BY DEF TypeOK, EventSeq, Cameras
    <3>2. events'[c] = events[c] \/ (events'[c] = Tail(events[c]) /\ events[c] # << >>)
      BY <2>1, <3>1 DEF TakeEvent
    <3> QED BY <3>1, <3>2, TailPaths
  <2>3. Due' = Due
    BY <2>1, DueStays DEF TakeEvent, switchVars
  <2> QED BY <1>9, <2>1, <2>2, <2>3, QuietCounter DEF TimerEvent, TakeEvent, cameraVars
<1>10. ASSUME NEW c \in SpotCameras, LeaveStartStage(c) \/ NextImage(c) PROVE CounterInv'
  <2>1. Due' = Due
    BY <1>10, DueStays DEF LeaveStartStage, NextImage, Timeout, switchVars
  <2> QED BY <1>10, <2>1, QuietCounter DEF LeaveStartStage, NextImage, Timeout, cameraVars
<1>11. CASE UNCHANGED vars
  <2>1. Due' = Due
    BY <1>11, DueStays DEF vars, switchVars
  <2> QED BY <1>11, <2>1, QuietCounter DEF vars, cameraVars
<1> QED BY <1>2, <1>3, <1>4, <1>5, <1>6, <1>7, <1>8, <1>9, <1>10, <1>11, StartCounter,
          PostCounter, PathCounter, FinishCounter, WriteCounterStep
        DEF Next, ThreadStep, CameraStep

LEMMA CounterInit == Init => CounterInv
<1> SUFFICES ASSUME Init PROVE OneStage /\ Covered
  BY DEF CounterInv
<1>1. \A c \in SpotCameras : imageList[c] = 0 /\ counterRead[c] = NoValue /\ ~HasPath(events[c])
  BY DEF Init, HasPath, Cameras
<1>2. Due = {}
  BY DEF Init, Due, At, Busy, Threads
<1>3. Unfinished = {}
  BY <1>1, <1>2, UnfinishedIs
<1>4. Cardinality(Unfinished) = 0
  BY <1>3, FS_EmptySet
<1> QED BY <1>1, <1>2, <1>4 DEF Init, OneStage, Covered, OnePath, HasPath

LEMMA CounterInvHolds == Spec => [](TypeOK /\ CounterInv)
<1>1. Init => TypeOK /\ CounterInv
  BY TypeInit, CounterInit
<1>2. TypeOK /\ CounterInv /\ [Next]_vars => (TypeOK /\ CounterInv)'
  BY TypeStep, CounterStep
<1> QED BY <1>1, <1>2, PTL DEF Spec

(* The counter, and every value on its way to it, is at least the number of
   unfinished cameras, although decrements may be lost. *)
THEOREM CounterIsNeverTooLow == Spec => []CounterCoversUnfinished
<1>1. CounterInv => CounterCoversUnfinished
  BY DEF CounterInv, Covered, CounterCoversUnfinished
<1> QED BY <1>1, CounterInvHolds, PTL

-----------------------------------------------------------------------------
(* The images that the cameras go through. *)

Plays(p, list, index) ==
  /\ p.sent + p.skipped = IF list > 0 THEN index ELSE p.found
  /\ list > 0 => p.found = list /\ index <= list

LEMMA PlayedIs ==
  /\ PlayedInv <=> \A c \in SpotCameras : Plays(played[c], imageList[c], readIndex[c])
  /\ PlayedInv' <=> \A c \in SpotCameras : Plays(played'[c], imageList'[c], readIndex'[c])
  BY DEF PlayedInv, Plays, Counted

LEMMA PlayedStep ==
  ASSUME TypeOK, PlayedInv, [Next]_vars PROVE PlayedInv'
<1>1. ASSUME UNCHANGED <<played, imageList, readIndex>> PROVE PlayedInv'
  BY <1>1, PlayedIs
<1>2. ASSUME NEW c \in SpotCameras, Plays(played'[c], imageList'[c], readIndex'[c]),
             \A d \in SpotCameras \ {c} :
               /\ played'[d] = played[d] /\ imageList'[d] = imageList[d]
               /\ readIndex'[d] = readIndex[d]
      PROVE  PlayedInv'
  <2> SUFFICES ASSUME NEW d \in SpotCameras
               PROVE  Plays(played'[d], imageList'[d], readIndex'[d])
    BY PlayedIs
  <2>1. Plays(played[d], imageList[d], readIndex[d])
    BY PlayedIs
  <2> QED BY <1>2, <2>1
<1>3. ASSUME NEW c \in SpotCameras, NEW n \in 0..MaxImages, SetImageSrcPath(c, n)
      PROVE  PlayedInv'
  <2>1. /\ played' = [played EXCEPT ![c] = [found |-> n, sent |-> 0, skipped |-> 0]]
        /\ imageList' = [imageList EXCEPT ![c] = n] /\ readIndex' = [readIndex EXCEPT ![c] = 0]
        /\ n \in Nat
    BY <1>3, ConstantsOK DEF SetImageSrcPath
  <2>2. /\ played'[c] = [found |-> n, sent |-> 0, skipped |-> 0]
        /\ imageList'[c] = n /\ readIndex'[c] = 0
    BY <2>1 DEF TypeOK
  <2>3. Plays(played'[c], imageList'[c], readIndex'[c])
    BY <2>1, <2>2 DEF Plays
  <2> QED BY <1>2, <2>1, <2>3 DEF TypeOK
<1>4. ASSUME NEW c \in SpotCameras, NextImage(c) PROVE PlayedInv'
  <2>1. /\ imageList' = imageList /\ readIndex' = [readIndex EXCEPT ![c] = @ + 1]
        /\ imageList[c] > 0 /\ readIndex[c] < imageList[c]
        /\ imageList[c] \in Nat /\ readIndex[c] \in Nat /\ played[c] \in Tally
    BY <1>4 DEF NextImage, ListEnded, TypeOK
  <2>2. PICK p \in {[played[c] EXCEPT !.sent = @ + 1], [played[c] EXCEPT !.skipped = @ + 1]} :
          played' = [played EXCEPT ![c] = p]
    BY <1>4 DEF NextImage
  <2>3. p.sent + p.skipped = played[c].sent + played[c].skipped + 1 /\ p.found = played[c].found
    BY <2>1, <2>2 DEF Tally
  <2>4. Plays(played[c], imageList[c], readIndex[c])
    BY PlayedIs
  <2>5. played'[c] = p /\ readIndex'[c] = readIndex[c] + 1
    BY <2>1, <2>2 DEF TypeOK
  <2>6. Plays(p, imageList[c], readIndex[c] + 1)
    BY <2>1, <2>3, <2>4 DEF Plays
  <2> QED BY <1>2, <2>1, <2>2, <2>5, <2>6 DEF TypeOK
<1>5. ASSUME NEW c \in SpotCameras, FinishList(c) PROVE PlayedInv'
  <2>1. /\ imageList' = [imageList EXCEPT ![c] = 0] /\ readIndex' = [readIndex EXCEPT ![c] = 0]
        /\ played' = played /\ imageList[c] > 0 /\ readIndex[c] >= imageList[c]
        /\ imageList[c] \in Nat /\ readIndex[c] \in Nat /\ played[c] \in Tally
    BY <1>5 DEF FinishList, DropList, ListEnded, TypeOK
  <2>2. Plays(played[c], imageList[c], readIndex[c])
    BY PlayedIs
  <2>3. imageList'[c] = 0 /\ readIndex'[c] = 0
    BY <2>1 DEF TypeOK
  <2>4. Plays(played'[c], imageList'[c], readIndex'[c])
    BY <2>1, <2>2, <2>3 DEF Plays
  <2> QED BY <1>2, <2>1, <2>4 DEF TypeOK
<1>6. ASSUME NEW v \in BOOLEAN,
             \/ \E mode \in {"Spot", "Infer"} : SetWorkMode(mode)
             \/ Enable(v) \/ OtherSets(v) \/ SpotStop \/ Inquire
             \/ \E channels \in SUBSET Channels : SpotStart(channels)
      PROVE  PlayedInv'
  BY <1>1, <1>6 DEF SetWorkMode, Enable, OtherSets, SpotStop, Inquire, SpotStart, Command,
                    cameraVars
<1>7. ASSUME \/ ReadSwitch \/ \E c \in SpotCameras : PostPath(c)
             \/ \E t \in Threads : ThreadStep(t)
      PROVE  PlayedInv'
  BY <1>1, <1>7 DEF ReadSwitch, PostPath, ThreadStep, GoThrough, WriteCamera, StoreSwitch,
                    Conclude, SetCamera, unlessSwitched, cameraVars
<1>8. ASSUME NEW c \in Cameras, TimerEvent(c) PROVE PlayedInv'
  BY <1>1, <1>8 DEF TimerEvent, cameraVars
<1>9. ASSUME NEW c \in SpotCameras, LeaveStartStage(c) \/ WriteCounter(c) PROVE PlayedInv'
  BY <1>1, <1>9 DEF LeaveStartStage, WriteCounter, cameraVars
<1>10. CASE UNCHANGED vars
  BY <1>1, <1>10 DEF vars, cameraVars
<1> QED BY <1>3, <1>4, <1>5, <1>6, <1>7, <1>8, <1>9, <1>10 DEF Next, CameraStep

LEMMA PlayedInit == Init => PlayedInv
<1> SUFFICES ASSUME Init, NEW c \in SpotCameras
             PROVE  Plays(played[c], imageList[c], readIndex[c])
  BY PlayedIs
<1>1. played[c] = [found |-> 0, sent |-> 0, skipped |-> 0] /\ imageList[c] = 0
  BY DEF Init
<1> QED BY <1>1 DEF Plays

(* When the store is told that a check has finished, every camera of it has been
   through all the images it found. *)
THEOREM FinishedIsChecked == Spec => []FinishedMeansChecked
<1>1. TypeOK /\ CounterInv /\ PlayedInv => FinishedMeansChecked
  <2> SUFFICES ASSUME TypeOK, CounterInv, PlayedInv, ~history.overlapped, waitFinish = 0,
                      NEW c \in SpotCameras
               PROVE  /\ c \notin Due /\ ~HasPath(events[c])
                      /\ played[c].sent + played[c].skipped = played[c].found
    BY DEF FinishedMeansChecked
  <2>1. Unfinished \in SUBSET SpotCameras /\ Cardinality(Unfinished) <= 0
    BY UnfinishedIs, UnfinishedFinite DEF CounterInv, Covered
  <2>2. IsFiniteSet(Unfinished) /\ Cardinality(Unfinished) = 0
    BY <2>1, UnfinishedFinite
  <2>3. Unfinished = {}
    BY <2>2, FS_EmptySet
  <2>4. c \notin Due /\ ~HasPath(events[c]) /\ ~(imageList[c] > 0)
    BY <2>3, UnfinishedIs
  <2>5. Plays(played[c], imageList[c], readIndex[c])
    BY PlayedIs
  <2> QED BY <2>4, <2>5 DEF Plays
<1>2. Init => TypeOK /\ CounterInv /\ PlayedInv
  BY TypeInit, CounterInit, PlayedInit
<1>3. TypeOK /\ CounterInv /\ PlayedInv /\ [Next]_vars => (TypeOK /\ CounterInv /\ PlayedInv)'
  BY TypeStep, CounterStep, PlayedStep
<1> QED BY <1>1, <1>2, <1>3, PTL DEF Spec

-----------------------------------------------------------------------------
(* The timers. *)

LEMMA FollowsAppend ==
  ASSUME NEW s \in EventSeq, NEW tm \in BOOLEAN, NEW on \in BOOLEAN
  PROVE  /\ Follows(s, tm, on) => Follows(Append(s, "path"), tm, on)
         /\ Follows(Append(s, IF on THEN "start" ELSE "stop"), tm, on)
<1>1. ASSUME NEW e \in {"start", "stop", "path"}
      PROVE  /\ DOMAIN Append(s, e) = 1..(Len(s) + 1) /\ DOMAIN s = 1..Len(s)
             /\ Append(s, e)[Len(s) + 1] = e /\ Len(s) \in Nat
             /\ \A i \in DOMAIN s : Append(s, e)[i] = s[i]
  BY DEF EventSeq
<1>2. ASSUME Follows(s, tm, on) PROVE Follows(Append(s, "path"), tm, on)
  <2> DEFINE r == Append(s, "path")
  <2>1. /\ DOMAIN r = 1..(Len(s) + 1) /\ DOMAIN s = 1..Len(s)
        /\ r[Len(s) + 1] = "path" /\ Len(s) \in Nat
        /\ \A i \in DOMAIN s : r[i] = s[i]
    BY <1>1
  <2> HIDE DEF r
  <2>2. (\A i \in DOMAIN r : r[i] = "path") => (tm <=> on)
    BY <1>2, <2>1 DEF Follows
  <2>3. ASSUME NEW i \in DOMAIN r, LastSwitch(r, i) PROVE r[i] = "start" <=> on
    <3>1. i \in DOMAIN s /\ r[i] = s[i]
      BY <2>1, <2>3 DEF LastSwitch
    <3>2. LastSwitch(s, i)
      BY <2>1, <2>3, <3>1 DEF LastSwitch
    <3> QED BY <1>2, <3>1, <3>2 DEF Follows
  <2>4. Follows(r, tm, on)
    BY <2>2, <2>3 DEF Follows
  <2> QED BY <2>4 DEF r
<1>3. Follows(Append(s, IF on THEN "start" ELSE "stop"), tm, on)
  <2> DEFINE e == IF on THEN "start" ELSE "stop"
             r == Append(s, e)
  <2>1. e \in {"start", "stop"} /\ (e = "start" <=> on)
    OBVIOUS
  <2>2. /\ DOMAIN r = 1..(Len(s) + 1) /\ r[Len(s) + 1] = e /\ Len(s) \in Nat
    BY <1>1, <2>1
  <2> HIDE DEF e, r
  <2>3. Len(s) + 1 \in DOMAIN r /\ r[Len(s) + 1] # "path"
    BY <2>1, <2>2
  <2>4. ASSUME NEW i \in DOMAIN r, LastSwitch(r, i) PROVE i = Len(s) + 1
    BY <2>2, <2>3, <2>4 DEF LastSwitch
  <2>5. Follows(r, tm, on)
    BY <2>1, <2>2, <2>3, <2>4 DEF Follows
  <2> QED BY <2>5 DEF e, r
<1> QED BY <1>2, <1>3

LEMMA FollowsTail ==
  ASSUME NEW s \in EventSeq, s # << >>, NEW tm \in BOOLEAN, NEW on \in BOOLEAN,
         Follows(s, tm, on)
  PROVE  Follows(Tail(s), IF Head(s) = "path" THEN tm ELSE Head(s) = "start", on)
<1> DEFINE r == Tail(s)
           m == IF Head(s) = "path" THEN tm ELSE Head(s) = "start"
<1>1. /\ DOMAIN r = 1..(Len(s) - 1) /\ DOMAIN s = 1..Len(s) /\ Len(s) \in Nat \ {0}
      /\ \A i \in DOMAIN r : r[i] = s[i + 1]
      /\ Head(s) = s[1]
  BY DEF EventSeq
<1> HIDE DEF r
<1>2. ASSUME \A i \in DOMAIN r : r[i] = "path" PROVE m <=> on
  <2>1. \A j \in DOMAIN s : j > 1 => s[j] = "path"
    <3> SUFFICES ASSUME NEW j \in DOMAIN s, j > 1 PROVE s[j] = "path"
      OBVIOUS
    <3>1. j - 1 \in DOMAIN r /\ (j - 1) + 1 = j
      BY <1>1
    <3>2. r[j - 1] = s[j]
      BY <1>1, <3>1
    <3> QED BY <1>2, <3>1, <3>2
  <2>2. CASE s[1] = "path"
    <3>1. \A j \in DOMAIN s : s[j] = "path"
      BY <1>1, <2>1, <2>2
    <3> QED BY <1>1, <2>2, <3>1 DEF Follows
  <2>3. CASE s[1] # "path"
    <3>1. 1 \in DOMAIN s /\ LastSwitch(s, 1)
      BY <1>1, <2>1, <2>3 DEF LastSwitch
    <3> QED BY <1>1, <2>3, <3>1 DEF Follows
  <2> QED BY <2>2, <2>3
<1>3. ASSUME NEW i \in DOMAIN r, LastSwitch(r, i) PROVE r[i] = "start" <=> on
  <2>1. i + 1 \in DOMAIN s /\ s[i + 1] = r[i]
    BY <1>1
  <2>2. ASSUME NEW j \in DOMAIN s, j > i + 1 PROVE s[j] = "path"
    <3>1. j - 1 \in DOMAIN r /\ j - 1 > i /\ (j - 1) + 1 = j
      BY <1>1, <2>2
    <3>2. r[j - 1] = s[j]
      BY <1>1, <3>1
    <3> QED BY <1>3, <3>1, <3>2 DEF LastSwitch
  <2>3. LastSwitch(s, i + 1)
    BY <1>3, <2>1, <2>2 DEF LastSwitch
  <2> QED BY <2>1, <2>3 DEF Follows
<1> QED BY <1>2, <1>3 DEF Follows, r

LEMMA CameraTypes ==
  ASSUME TypeOK
  PROVE  /\ \A c \in Cameras : /\ events[c] \in EventSeq /\ timer[c] \in BOOLEAN
                               /\ camEnabled[c] \in BOOLEAN
                               /\ Wanted(setting, camEnabled, c) \in BOOLEAN
         /\ enabled \in BOOLEAN /\ runType \in {"Spot", "Infer"} /\ NoValue \notin Cameras
         /\ history.astray \subseteq Cameras
<1>1. \A c \in Cameras : Wanted(setting, camEnabled, c) \in BOOLEAN
  BY DEF Wanted
<1> QED BY <1>1, ConstantsOK DEF TypeOK, EventSeq

(* Who is throwing the switch before and after a step of thread t. *)
LEMMA OthersThrow ==
  ASSUME NEW t \in Threads, \A u \in Threads \ {t} : setting'[u] = setting[u]
  PROVE  \A u \in Threads \ {t} : Throws(u)' <=> Throws(u)
  BY DEF Throws, Busy

LEMMA PostInvStep ==
  ASSUME TypeOK, PostInv, NEW t \in Threads,
         \A u \in Threads \ {t} : setting'[u] = setting[u],
         (setting'[t] # Idle /\ setting'[t].stage = "posting") =>
           setting'[t].writing = NoValue /\ setting'[t].after = "nothing"
  PROVE  PostInv'
  BY DEF PostInv, At, Busy

(* A step that leaves the switch alone, and each timer with its queue. *)
LEMMA QuietSwitch ==
  ASSUME SwitchInv, UNCHANGED switchVars,
         history'.crossed = history.crossed, history'.astray = history.astray,
         \A c \in Cameras : LET on == Wanted(setting, camEnabled, c) IN
           Follows(events[c], timer[c], on) => Follows(events'[c], timer'[c], on)
  PROVE  SwitchInv'
<1>1. PostInv' /\ (Calm' <=> Calm)
  BY DEF SwitchInv, PostInv, Calm, At, Throws, Busy, switchVars
<1>2. Known' = Known
  BY DEF Known
<1>3. ASSUME SwitchParts PROVE SwitchParts'
  <2>1. OneThread' /\ ((\A t \in Threads : ~Throws(t)) => Settled)'
    BY <1>2, <1>3 DEF SwitchParts, OneThread, Settled, Throws, Busy, switchVars
  <2>2. (\A t \in Threads : Throws(t) => Course(t) /\ Throwing(t))'
    BY <1>2, <1>3 DEF SwitchParts, Course, Throwing, Turned, Throws, Busy, switchVars
  <2>3. TimersFollow'
    BY <1>2, <1>3 DEF SwitchParts, TimersFollow, switchVars, Known
  <2> QED BY <2>1, <2>2, <2>3 DEF SwitchParts
<1> QED BY <1>1, <1>3 DEF SwitchInv

(* A step of a thread while two throw the switch. *)
LEMMA StrayedSwitch ==
  ASSUME SwitchInv, ~Calm, PostInv',
         history'.crossed = history.crossed, history'.astray = history.astray
  PROVE  SwitchInv'
<1>1. history.crossed /\ Known' = {}
  BY DEF SwitchInv, Calm, Known
<1>2. ASSUME Calm' PROVE SwitchParts'
  <2>1. \A t \in Threads : ~Throws(t)'
    BY <1>1, <1>2 DEF Calm
  <2> QED BY <1>1, <2>1 DEF SwitchParts, OneThread, Settled, TimersFollow
<1> QED BY <1>2 DEF SwitchInv

(* Otherwise no other thread throws it. *)
LEMMA OnlyThread ==
  ASSUME TypeOK, SwitchInv, Calm, NEW t \in Threads, Throws(t)
  PROVE  /\ ~history.crossed /\ Course(t) /\ Throwing(t) /\ SwitchParts
         /\ \A u \in Threads \ {t} :
              ~Throws(u) /\ (setting[u] = Idle \/ setting[u].writing = NoValue)
<1>1. SwitchParts /\ PostInv /\ ~history.crossed
  BY DEF SwitchInv, Calm
<1>2. \A u \in Threads \ {t} : ~Throws(u)
  BY <1>1 DEF SwitchParts, OneThread
<1>3. \A u \in Threads \ {t} : setting[u] = Idle \/ setting[u].writing = NoValue
  BY <1>1, <1>2 DEF PostInv, Throws, At, Busy
<1> QED BY <1>1, <1>2, <1>3 DEF SwitchParts

(* What is wanted of a camera when only thread t may be writing one. *)
LEMMA WantedIs ==
  ASSUME NEW s, NEW cam, NEW t \in Threads, NEW c, c # NoValue,
         \A u \in Threads \ {t} : s[u] = Idle \/ s[u].writing = NoValue
  PROVE  Wanted(s, cam, c) <=> IF s[t] # Idle /\ s[t].writing = c THEN s[t].value ELSE cam[c]
<1>1. \A u \in Threads : s[u] # Idle /\ s[u].writing = c => u = t
  OBVIOUS
<1> QED BY <1>1 DEF Wanted

LEMMA WantedThen ==
  ASSUME NEW t \in Threads, NEW c, c # NoValue,
         \A u \in Threads \ {t} : setting'[u] = Idle \/ setting'[u].writing = NoValue
  PROVE  Wanted(setting', camEnabled', c) <=>
           IF setting'[t] # Idle /\ setting'[t].writing = c THEN setting'[t].value
           ELSE camEnabled'[c]
<1>1. \A u \in Threads : setting'[u] # Idle /\ setting'[u].writing = c => u = t
  OBVIOUS
<1> QED BY <1>1 DEF Wanted

(* The timers follow after a step that wants nothing else of a camera. *)
LEMMA SameWanted ==
  ASSUME NEW c, Wanted(setting', camEnabled', c) <=> Wanted(setting, camEnabled, c),
         Follows(events[c], timer[c], Wanted(setting, camEnabled, c)),
         events'[c] = events[c], timer'[c] = timer[c]
  PROVE  Follows(events'[c], timer'[c], Wanted(setting', camEnabled', c))
<1>1. Wanted(setting', camEnabled', c) = Wanted(setting, camEnabled, c)
  BY DEF Wanted
<1> QED BY <1>1

(* The invariant after a step of thread t, the only one that throws the switch,
   and does so still ... *)
LEMMA StillThrown ==
  ASSUME TypeOK, SwitchInv, NEW t \in Threads, Throws(t)', PostInv',
         ~history'.crossed, \A u \in Threads \ {t} : ~Throws(u)',
         Course(t)', Throwing(t)', TimersFollow'
  PROVE  SwitchInv'
<1>1. OneThread'
  BY DEF OneThread
<1>2. SwitchParts'
  BY <1>1 DEF SwitchParts
<1> QED BY <1>2 DEF SwitchInv, Calm

(* ... or no more. *)
LEMMA ThrownNoMore ==
  ASSUME TypeOK, SwitchInv, PostInv', \A u \in Threads : ~Throws(u)', Settled', TimersFollow'
  PROVE  SwitchInv'
<1>1. OneThread' /\ Calm'
  BY DEF OneThread, Calm
<1>2. SwitchParts'
  BY <1>1 DEF SwitchParts
<1> QED BY <1>1, <1>2 DEF SwitchInv

(* A thread begins: it meets another one, or the switch was settled. *)
LEMMA BeginSwitch ==
  ASSUME TypeOK, SwitchInv, NEW t \in Threads, ~Throws(t),
         setting'[t] # Idle, setting'[t].stage = "read", setting'[t].old = enabled,
         setting'[t].todo = {}, setting'[t].writing = NoValue,
         setting'[t].after \in {"Spot", "Infer"} => ~setting'[t].value,
         \A u \in Threads \ {t} : setting'[u] = setting[u],
         UNCHANGED <<runType, enabled, camEnabled, events, timer>>,
         history'.crossed = (\E u \in Threads \ {t} : Throws(u)),
         history'.astray = IF \E u \in Threads \ {t} : Throws(u) THEN Cameras
                           ELSE history.astray
  PROVE  SwitchInv'
<1>1. PostInv' /\ Throws(t)' /\ \A u \in Threads \ {t} : Throws(u)' <=> Throws(u)
  <2>1. PostInv'
    BY PostInvStep DEF SwitchInv
  <2>2. Throws(t)'
    BY DEF Throws, Busy
  <2> QED BY <2>1, <2>2, OthersThrow
<1>2. CASE \E u \in Threads \ {t} : Throws(u)
  BY <1>1, <1>2 DEF SwitchInv, Calm
<1>3. CASE ~\E u \in Threads \ {t} : Throws(u)
  <2>1. /\ SwitchParts /\ Settled /\ Known' = Known /\ PostInv
        /\ \A u \in Threads : ~Throws(u)
    BY <1>3 DEF SwitchInv, Calm, SwitchParts, Known
  <2>2. Course(t)'
    BY DEF Course
  <2>3. Throwing(t)'
    BY <2>1 DEF Settled, Throwing, Turned, MembersOf
  <2>4. \A u \in Threads : setting[u] = Idle \/ setting[u].writing = NoValue
    BY <2>1 DEF PostInv, Throws, At, Busy
  <2>5. TimersFollow'
    <3> SUFFICES ASSUME NEW c \in Known
                 PROVE  Follows(events'[c], timer'[c], Wanted(setting', camEnabled', c))
      BY <2>1 DEF TimersFollow
    <3>1. c # NoValue
      BY CameraTypes DEF Known
    <3>2. Wanted(setting', camEnabled', c) <=> Wanted(setting, camEnabled, c)
      <4>1. Wanted(setting, camEnabled, c) <=> camEnabled[c]
        BY <2>4, <3>1 DEF Wanted
      <4>2. \A u \in Threads \ {t} : setting'[u] = Idle \/ setting'[u].writing = NoValue
        BY <2>4
      <4>3. Wanted(setting', camEnabled', c) <=> camEnabled'[c]
        BY <3>1, <4>2, WantedThen
      <4> QED BY <4>1, <4>3
    <3>3. Follows(events[c], timer[c], Wanted(setting, camEnabled, c))
      BY <2>1 DEF SwitchParts, TimersFollow
    <3> QED BY <3>2, <3>3, SameWanted
  <2> QED BY <1>1, <1>3, <2>1, <2>2, <2>3, <2>5, StillThrown
<1> QED BY <1>2, <1>3

LEMMA GoThroughSwitch ==
  ASSUME TypeOK, SwitchInv, NEW t \in Threads, GoThrough(t)
  PROVE  SwitchInv'
<1>1. PICK x \in {"throwing", "asked"}, d \in SUBSET Cameras :
        Gone(t, x, d) /\ Moved(t, x, setting[t].old, d, setting[t].writing)
  BY GoThroughMoves
<1>2. /\ UNCHANGED <<runType, enabled, camEnabled, events, timer, history>>
      /\ setting'[t] # Idle /\ setting'[t].stage = x /\ setting'[t].todo = d
      /\ setting'[t].old = setting[t].old /\ setting'[t].value = setting[t].value
      /\ setting'[t].writing = setting[t].writing /\ setting'[t].after = setting[t].after
      /\ \A u \in Threads \ {t} : setting'[u] = setting[u]
  BY <1>1 DEF GoThrough, unlessSwitched, Moved, Fields
<1>3. Throws(t) /\ Throws(t)' /\ Busy(t)
  BY <1>1, <1>2 DEF Gone, At, Throws, Busy
<1>4. PostInv'
  BY <1>2, PostInvStep DEF SwitchInv
<1>5. CASE ~Calm
  BY <1>2, <1>4, <1>5, StrayedSwitch
<1>6. CASE Calm
  <2>1. /\ ~history.crossed /\ Course(t) /\ Throwing(t) /\ SwitchParts
        /\ \A u \in Threads \ {t} :
             ~Throws(u) /\ (setting[u] = Idle \/ setting[u].writing = NoValue)
    BY <1>3, <1>6, OnlyThread
  <2>2. /\ setting[t].todo = {} /\ setting[t].writing = NoValue
        /\ setting[t].stage \in {"read", "asked"} /\ setting[t].old = enabled
        /\ setting[t].value \in BOOLEAN /\ enabled \in BOOLEAN /\ runType \in {"Spot", "Infer"}
    BY <1>1, <1>3, <2>1, BusyFacts, CameraTypes DEF Course, Gone, At
  <2>3. /\ d \subseteq MembersOf(runType)
        /\ d # {} => x = "throwing" /\ setting[t].value # enabled /\ d = MembersOf(runType)
        /\ x = "asked" => runType # "Spot" /\ setting[t].value # enabled
        /\ x = "throwing" => d = MembersOf(runType) \/ setting[t].value = enabled
    BY <1>1, <2>1, <2>2 DEF Gone, At, Course, MembersOf
  <2>4. Course(t)'
    <3>1. MembersOf(runType)' = MembersOf(runType)
      BY <1>2 DEF MembersOf
    <3> QED BY <1>2, <2>1, <2>2, <2>3, <3>1 DEF Course
  <2>5. Throwing(t)'
    <3>1. MembersOf(runType)' = MembersOf(runType) /\ Known' = Known
      BY <1>2 DEF MembersOf, Known
    <3>2. ASSUME NEW c \in Known
          PROVE  camEnabled[c] <=> c \in MembersOf(runType) /\ enabled
      BY <2>1, <2>2 DEF Throwing, Turned
    <3>3. ASSUME NEW c \in Known
          PROVE  camEnabled'[c] <=>
                   /\ c \in MembersOf(runType)
                   /\ IF x = "throwing" /\ c \notin d THEN setting[t].value ELSE enabled
      BY <1>1, <1>2, <2>3, <3>2
    <3> QED BY <1>2, <3>1, <3>3 DEF Throwing, Turned
  <2>6. TimersFollow'
    <3> SUFFICES ASSUME NEW c \in Known
                 PROVE  Follows(events'[c], timer'[c], Wanted(setting', camEnabled', c))
      BY <1>2 DEF TimersFollow, Known
    <3>1. c # NoValue
      BY CameraTypes DEF Known
    <3>2. Wanted(setting', camEnabled', c) <=> Wanted(setting, camEnabled, c)
      <4>1. Wanted(setting, camEnabled, c) <=> camEnabled[c]
        BY <2>1, <2>2, <3>1, WantedIs
      <4>2. \A u \in Threads \ {t} : setting'[u] = Idle \/ setting'[u].writing = NoValue
        BY <1>2, <2>1
      <4>3. Wanted(setting', camEnabled', c) <=> camEnabled'[c]
        BY <1>2, <2>2, <3>1, <4>2, WantedThen
      <4> QED BY <1>2, <4>1, <4>3
    <3>3. Follows(events[c], timer[c], Wanted(setting, camEnabled, c))
      BY <2>1 DEF SwitchParts, TimersFollow
    <3> QED BY <1>2, <3>2, <3>3, SameWanted
  <2>7. \A u \in Threads \ {t} : ~Throws(u)'
    BY <1>2, <2>1, OthersThrow
  <2> QED BY <1>2, <1>3, <1>4, <2>1, <2>4, <2>5, <2>6, <2>7, StillThrown
<1> QED BY <1>5, <1>6

LEMMA SetCameraSwitch ==
  ASSUME TypeOK, SwitchInv, NEW t \in Threads, NEW d \in Cameras, SetCamera(t, d)
  PROVE  SwitchInv'
<1>1. /\ At(t, "throwing") /\ Busy(t) /\ setting[t].writing = NoValue
      /\ d \in setting[t].todo
      /\ Moved(t, "throwing", setting[t].old, setting[t].todo, d)
  BY SetCameraMoves
<1>2. /\ UNCHANGED <<runType, enabled, camEnabled, timer>>
      /\ setting'[t] # Idle /\ setting'[t].stage = "throwing"
      /\ setting'[t].todo = setting[t].todo
      /\ setting'[t].old = setting[t].old /\ setting'[t].value = setting[t].value
      /\ setting'[t].writing = d /\ setting'[t].after = setting[t].after
      /\ \A u \in Threads \ {t} : setting'[u] = setting[u]
  BY <1>1 DEF SetCamera, unlessSwitched, Moved, Fields
<1>3. /\ history'.crossed = history.crossed
      /\ history'.astray = IF setting[t].value = camEnabled[d] \/ history.crossed
                           THEN history.astray ELSE history.astray \ {d}
  BY SetCameraGhosts
<1>4. Throws(t) /\ Throws(t)' /\ setting[t].stage = "throwing"
  BY <1>1, <1>2 DEF At, Throws, Busy
<1>5. PostInv'
  BY <1>2, PostInvStep DEF SwitchInv
<1>6. CASE ~Calm
  <2>1. history.crossed
    BY <1>6 DEF Calm
  <2> QED BY <1>3, <1>5, <1>6, <2>1, StrayedSwitch
<1>7. CASE Calm
  <2>1. /\ ~history.crossed /\ Course(t) /\ Throwing(t) /\ SwitchParts
        /\ \A u \in Threads \ {t} :
             ~Throws(u) /\ (setting[u] = Idle \/ setting[u].writing = NoValue)
    BY <1>4, <1>7, OnlyThread
  <2>2. /\ setting[t].value # enabled /\ d \in MembersOf(runType)
        /\ setting[t].value \in BOOLEAN /\ enabled \in BOOLEAN /\ camEnabled[d] \in BOOLEAN
    BY <1>1, <2>1, BusyFacts, CameraTypes DEF Course
  <2>3. Known' = IF setting[t].value = camEnabled[d] THEN Known ELSE Known \cup {d}
    BY <1>3, <2>1, CameraTypes DEF Known
  <2>4. MembersOf(runType)' = MembersOf(runType)
    BY <1>2 DEF MembersOf
  <2>5. Course(t)'
    BY <1>1, <1>2, <1>4, <2>1, <2>4 DEF Course
  <2>6. Throwing(t)'
    <3> SUFFICES ASSUME NEW c \in Known'
                 PROVE  camEnabled'[c] <=>
                          /\ c \in MembersOf(runType)
                          /\ IF c \notin setting[t].todo THEN setting[t].value ELSE enabled
      BY <1>2, <2>4 DEF Throwing, Turned
    <3>1. CASE c \in Known
      BY <1>2, <1>4, <2>1, <3>1 DEF Throwing, Turned
    <3>2. CASE c \notin Known
      <4>1. c = d /\ setting[t].value # camEnabled[d]
        BY <2>3, <3>2
      <4> QED BY <1>1, <1>2, <2>2, <4>1
    <3> QED BY <3>1, <3>2
  <2>7. TimersFollow'
    <3> SUFFICES ASSUME NEW c \in Known'
                 PROVE  Follows(events'[c], timer'[c], Wanted(setting', camEnabled', c))
      BY DEF TimersFollow
    <3>1. /\ c # NoValue /\ c \in Cameras /\ events[c] \in EventSeq /\ timer[c] \in BOOLEAN
          /\ camEnabled[c] \in BOOLEAN /\ events \in [Cameras -> EventSeq]
      BY <2>3, CameraTypes DEF Known, TypeOK, EventSeq
    <3>2. Wanted(setting, camEnabled, c) <=> camEnabled[c]
      BY <1>1, <2>1, <3>1, WantedIs
    <3>3. \A u \in Threads \ {t} : setting'[u] = Idle \/ setting'[u].writing = NoValue
      BY <1>2, <2>1
    <3>4. Wanted(setting', camEnabled', c) <=> IF c = d THEN setting[t].value ELSE camEnabled[c]
      BY <1>2, <3>1, <3>3, WantedThen
    <3>5. CASE c = d /\ setting[t].value # camEnabled[d]
      <4>1. events'[c] = Append(events[c], IF setting[t].value THEN "start" ELSE "stop")
        BY <3>1, <3>5 DEF SetCamera
      <4>2. Wanted(setting', camEnabled', c) = setting[t].value
        BY <2>2, <3>4, <3>5 DEF Wanted
      <4> QED BY <1>2, <2>2, <3>1, <4>1, <4>2, FollowsAppend
    <3>6. CASE ~(c = d /\ setting[t].value # camEnabled[d])
      <4>1. events'[c] = events[c]
        BY <3>1, <3>6 DEF SetCamera
      <4>2. c \in Known
        BY <2>3, <3>6
      <4>3. Follows(events[c], timer[c], Wanted(setting, camEnabled, c))
        BY <2>1, <4>2 DEF SwitchParts, TimersFollow
      <4>4. Wanted(setting', camEnabled', c) <=> Wanted(setting, camEnabled, c)
        BY <2>2, <3>1, <3>2, <3>4, <3>6
      <4> QED BY <1>2, <4>1, <4>3, <4>4, SameWanted
    <3> QED BY <3>5, <3>6
  <2>8. \A u \in Threads \ {t} : ~Throws(u)'
    BY <1>2, <2>1, OthersThrow
  <2> QED BY <1>3, <1>4, <1>5, <2>1, <2>5, <2>6, <2>7, <2>8, StillThrown
<1> QED BY <1>6, <1>7

LEMMA WriteCameraSwitch ==
  ASSUME TypeOK, SwitchInv, NEW t \in Threads, WriteCamera(t)
  PROVE  SwitchInv'
<1> DEFINE d == setting[t].writing
<1>1. /\ At(t, "throwing") /\ Busy(t) /\ d \in Cameras /\ d # NoValue
      /\ Moved(t, "throwing", setting[t].old, setting[t].todo \ {d}, NoValue)
  BY WriteCameraMoves DEF WriteCamera
<1>2. /\ UNCHANGED <<runType, enabled, timer, events, history>>
      /\ camEnabled' = [camEnabled EXCEPT ![d] = setting[t].value]
      /\ setting'[t] # Idle /\ setting'[t].stage = "throwing"
      /\ setting'[t].todo = setting[t].todo \ {d}
      /\ setting'[t].old = setting[t].old /\ setting'[t].value = setting[t].value
      /\ setting'[t].writing = NoValue /\ setting'[t].after = setting[t].after
      /\ \A u \in Threads \ {t} : setting'[u] = setting[u]
  BY <1>1 DEF WriteCamera, unlessSwitched, Moved, Fields
<1>3. Throws(t) /\ Throws(t)' /\ setting[t].stage = "throwing" /\ setting[t].writing = d
  BY <1>1, <1>2 DEF At, Throws, Busy
<1> HIDE DEF d
<1>4. PostInv'
  BY <1>2, PostInvStep DEF SwitchInv
<1>5. CASE ~Calm
  BY <1>2, <1>4, <1>5, StrayedSwitch
<1>6. CASE Calm
  <2>1. /\ ~history.crossed /\ Course(t) /\ Throwing(t) /\ SwitchParts
        /\ \A u \in Threads \ {t} :
             ~Throws(u) /\ (setting[u] = Idle \/ setting[u].writing = NoValue)
    BY <1>3, <1>6, OnlyThread
  <2>2. /\ setting[t].value # enabled /\ d \in MembersOf(runType) /\ d \in setting[t].todo
        /\ setting[t].value \in BOOLEAN /\ enabled \in BOOLEAN
    BY <1>1, <1>3, <2>1, BusyFacts, CameraTypes DEF Course
  <2>3. Known' = Known /\ MembersOf(runType)' = MembersOf(runType)
    BY <1>2 DEF MembersOf, Known
  <2>4. \A c \in Known : camEnabled'[c] = IF c = d THEN setting[t].value ELSE camEnabled[c]
    BY <1>2 DEF Known, TypeOK
  <2>5. Course(t)'
    BY <1>2, <1>3, <2>1, <2>2, <2>3 DEF Course
  <2>6. Throwing(t)'
    <3> SUFFICES ASSUME NEW c \in Known
                 PROVE  camEnabled'[c] <=>
                          /\ c \in MembersOf(runType)
                          /\ IF c \notin setting[t].todo \ {d}
                             THEN setting[t].value ELSE enabled
      BY <1>2, <2>3 DEF Throwing, Turned
    <3>1. camEnabled[c] <=> /\ c \in MembersOf(runType)
                            /\ IF c \notin setting[t].todo
                               THEN setting[t].value ELSE enabled
      BY <1>3, <2>1 DEF Throwing, Turned
    <3> QED BY <2>2, <2>4, <3>1
  <2>7. TimersFollow'
    <3> SUFFICES ASSUME NEW c \in Known
                 PROVE  Follows(events'[c], timer'[c], Wanted(setting', camEnabled', c))
      BY <2>3 DEF TimersFollow
    <3>1. c # NoValue
      BY CameraTypes DEF Known
    <3>2. Wanted(setting', camEnabled', c) <=> Wanted(setting, camEnabled, c)
      <4>1. Wanted(setting, camEnabled, c) <=>
              IF c = d THEN setting[t].value ELSE camEnabled[c]
        <5>1. \A u \in Threads : setting[u] # Idle /\ setting[u].writing = c => u = t
          BY <2>1, <3>1
        <5> QED BY <1>1, <1>3, <5>1 DEF Wanted, Busy
      <4>2. \A u \in Threads \ {t} : setting'[u] = Idle \/ setting'[u].writing = NoValue
        BY <1>2, <2>1
      <4>3. Wanted(setting', camEnabled', c) <=> camEnabled'[c]
        BY <1>2, <3>1, <4>2, WantedThen
      <4> QED BY <2>4, <4>1, <4>3
    <3>3. Follows(events[c], timer[c], Wanted(setting, camEnabled, c))
      BY <2>1 DEF SwitchParts, TimersFollow
    <3> QED BY <1>2, <3>2, <3>3, SameWanted
  <2>8. \A u \in Threads \ {t} : ~Throws(u)'
    BY <1>2, <2>1, OthersThrow
  <2> QED BY <1>2, <1>3, <1>4, <2>1, <2>5, <2>6, <2>7, <2>8, StillThrown
<1> QED BY <1>5, <1>6

(* A step after which no thread writes a camera that did not before. *)
LEMMA UnwrittenTimers ==
  ASSUME TypeOK, SwitchParts,
         \A u \in Threads : setting[u] = Idle \/ setting[u].writing = NoValue,
         \A u \in Threads : setting'[u] = Idle \/ setting'[u].writing = NoValue,
         UNCHANGED <<camEnabled, events, timer, history>>
  PROVE  TimersFollow'
<1> SUFFICES ASSUME NEW c \in Known
             PROVE  Follows(events'[c], timer'[c], Wanted(setting', camEnabled', c))
  BY DEF TimersFollow, Known
<1>1. c # NoValue
  BY CameraTypes DEF Known
<1>2. Wanted(setting, camEnabled, c) <=> camEnabled[c]
  BY <1>1 DEF Wanted
<1>3. Wanted(setting', camEnabled', c) <=> camEnabled'[c]
  BY <1>1 DEF Wanted
<1>4. Follows(events[c], timer[c], Wanted(setting, camEnabled, c))
  BY DEF SwitchParts, TimersFollow
<1> QED BY <1>2, <1>3, <1>4, SameWanted

LEMMA StoreSwitchSwitch ==
  ASSUME TypeOK, SwitchInv, NEW t \in Threads, StoreSwitch(t)
  PROVE  SwitchInv'
<1>1. /\ At(t, "throwing") /\ Busy(t)
      /\ setting[t].writing = NoValue /\ setting[t].todo = {}
      /\ \/ setting[t].after = "nothing" /\ setting' = [setting EXCEPT ![t] = Idle]
         \/ Moved(t, "stored", setting[t].old, {}, NoValue)
  BY StoreSwitchMoves
<1>2. UNCHANGED <<runType, camEnabled, timer, events, history>> /\ enabled' = setting[t].value
  BY DEF StoreSwitch, unlessSwitched
<1>3. /\ \A u \in Threads \ {t} : setting'[u] = setting[u]
      /\ \/ setting'[t] = Idle
         \/ /\ setting'[t] # Idle /\ setting'[t].stage = "stored" /\ setting'[t].todo = {}
            /\ setting'[t].value = setting[t].value /\ setting'[t].writing = NoValue
            /\ setting'[t].after = setting[t].after
  BY <1>1, BusyFacts DEF Moved, Fields
<1>4. Throws(t) /\ setting[t].stage = "throwing"
  BY <1>1 DEF At, Throws, Busy
<1>5. PostInv'
  BY <1>3, PostInvStep DEF SwitchInv
<1>6. CASE ~Calm
  BY <1>2, <1>5, <1>6, StrayedSwitch
<1>7. CASE Calm
  <2>1. /\ ~history.crossed /\ Course(t) /\ Throwing(t) /\ SwitchParts
        /\ \A u \in Threads \ {t} :
             ~Throws(u) /\ (setting[u] = Idle \/ setting[u].writing = NoValue)
    BY <1>4, <1>7, OnlyThread
  <2>2. \A u \in Threads \ {t} : ~Throws(u)'
    BY <1>3, <2>1, OthersThrow
  <2>3. TimersFollow'
    BY <1>1, <1>2, <1>3, <2>1, UnwrittenTimers
  <2>4. /\ Known' = Known /\ MembersOf(runType)' = MembersOf(runType)
        /\ \A c \in Known : camEnabled'[c] <=> c \in MembersOf(runType) /\ enabled'
    BY <1>1, <1>2, <1>4, <2>1 DEF Throwing, Turned, MembersOf, Known
  <2>5. CASE setting'[t] = Idle
    <3>1. Settled'
      BY <1>2, <2>4 DEF Settled
    <3>2. \A u \in Threads : ~Throws(u)'
      BY <2>2, <2>5 DEF Throws, Busy
    <3> QED BY <1>5, <2>3, <3>1, <3>2, ThrownNoMore
  <2>6. CASE setting'[t] # Idle
    <3>1. Throws(t)'
      BY <1>3, <2>6 DEF Throws, Busy
    <3>2. Course(t)'
      BY <1>2, <1>3, <2>1, <2>6 DEF Course
    <3>3. Throwing(t)'
      BY <1>2, <1>3, <2>4, <2>6 DEF Throwing, Turned
    <3> QED BY <1>2, <1>5, <2>1, <2>2, <2>3, <3>1, <3>2, <3>3, StillThrown
  <2> QED BY <2>5, <2>6
<1> QED BY <1>6, <1>7

LEMMA ConcludeSwitch ==
  ASSUME TypeOK, SwitchInv, NEW t \in Threads, Conclude(t)
  PROVE  SwitchInv'
<1>1. /\ At(t, "stored") /\ setting' = [setting EXCEPT ![t] = Idle]
      /\ runType' = IF setting[t].after \in {"Spot", "Infer"} THEN setting[t].after ELSE runType
      /\ UNCHANGED <<enabled, camEnabled, timer, events, history>>
  BY DEF Conclude
<1>2. setting'[t] = Idle /\ \A u \in Threads \ {t} : setting'[u] = setting[u]
  BY <1>1 DEF TypeOK
<1>3. Throws(t) /\ setting[t].stage = "stored"
  BY <1>1 DEF At, Throws
<1>4. PostInv'
  BY <1>2, PostInvStep DEF SwitchInv
<1>5. CASE ~Calm
  BY <1>1, <1>4, <1>5, StrayedSwitch
<1>6. CASE Calm
  <2>1. /\ ~history.crossed /\ Course(t) /\ Throwing(t) /\ SwitchParts
        /\ \A u \in Threads \ {t} :
             ~Throws(u) /\ (setting[u] = Idle \/ setting[u].writing = NoValue)
    BY <1>3, <1>6, OnlyThread
  <2>2. \A u \in Threads : ~Throws(u)'
    <3>1. ~Throws(t)'
      BY <1>2 DEF Throws, Busy
    <3> QED BY <1>2, <2>1, <3>1, OthersThrow
  <2>3. /\ setting[t].value = enabled /\ setting[t].todo = {} /\ setting[t].writing = NoValue
        /\ enabled \in BOOLEAN /\ Known' = Known
    <3>1. setting[t].value = enabled /\ setting[t].todo = {}
      BY <1>3, <2>1 DEF Course
    <3> QED BY <1>1, <1>3, <2>1, <3>1, CameraTypes DEF Course, Known
  <2>4. TimersFollow'
    BY <1>1, <1>2, <2>1, <2>3, UnwrittenTimers
  <2>5. Settled'
    <3>1. \A c \in Known : camEnabled[c] <=> enabled /\ c \in MembersOf(runType)
      BY <1>3, <2>1, <2>3 DEF Throwing, Turned
    <3>2. CASE runType' = runType
      BY <1>1, <2>3, <3>1, <3>2 DEF Settled, MembersOf
    <3>3. CASE runType' # runType
      <4>1. ~enabled
        BY <1>1, <2>1, <2>3, <3>3 DEF Course
      <4> QED BY <1>1, <2>3, <3>1, <4>1 DEF Settled
    <3> QED BY <3>2, <3>3
  <2> QED BY <1>4, <2>2, <2>4, <2>5, ThrownNoMore
<1> QED BY <1>5, <1>6

(* Posting a directory leaves the switch and the timers alone. *)
LEMMA PostPathSwitch ==
  ASSUME TypeOK, SwitchInv, NEW d \in SpotCameras, PostPath(d)
  PROVE  SwitchInv'
<1>1. /\ At("tcp", "posting") /\ "tcp" \in Threads /\ d \in Cameras
      /\ Moved("tcp", "posting", setting["tcp"].old, setting["tcp"].todo \ {d},
               setting["tcp"].writing)
  BY PostPathMoves DEF Threads, Cameras
<1>2. /\ UNCHANGED <<runType, enabled, camEnabled, timer, history>>
      /\ events' = [events EXCEPT ![d] = Append(@, "path")]
  BY DEF PostPath, unlessSwitched
<1>3. /\ setting'["tcp"] # Idle /\ setting'["tcp"].stage = "posting"
      /\ setting["tcp"] # Idle /\ setting["tcp"].stage = "posting"
      /\ setting'["tcp"].writing = NoValue /\ setting["tcp"].writing = NoValue
      /\ setting'["tcp"].after = "nothing"
      /\ \A u \in Threads \ {"tcp"} : setting'[u] = setting[u]
  BY <1>1 DEF Moved, Fields, At, Busy, SwitchInv, PostInv
<1>4. PostInv'
  BY <1>1, <1>3, PostInvStep DEF SwitchInv
<1>5. \A u \in Threads : Throws(u)' <=> Throws(u)
  BY <1>1, <1>3, OthersThrow DEF Throws, Busy
<1>6. CASE ~Calm
  BY <1>2, <1>4, <1>6, StrayedSwitch
<1>7. CASE Calm
  <2>1. SwitchParts /\ Known' = Known /\ MembersOf(runType)' = MembersOf(runType)
    BY <1>2, <1>7 DEF SwitchInv, Known, MembersOf
  <2>2. OneThread' /\ ((\A u \in Threads : ~Throws(u)) => Settled)'
    BY <1>2, <1>5, <2>1 DEF SwitchParts, OneThread, Settled
  <2>3. ASSUME NEW u \in Threads, Throws(u) PROVE Course(u)' /\ Throwing(u)'
    <3>1. setting'[u] = setting[u]
      BY <1>3, <2>3 DEF Throws
    <3> QED BY <1>2, <2>1, <2>3, <3>1 DEF SwitchParts, Course, Throwing, Turned
  <2>4. TimersFollow'
    <3> SUFFICES ASSUME NEW c \in Known
                 PROVE  Follows(events'[c], timer'[c], Wanted(setting', camEnabled', c))
      BY <2>1 DEF TimersFollow
    <3>1. c # NoValue /\ c \in Cameras /\ events[c] \in EventSeq /\ timer[c] \in BOOLEAN
          /\ Wanted(setting, camEnabled, c) \in BOOLEAN /\ events \in [Cameras -> EventSeq]
      BY CameraTypes DEF Known, TypeOK, EventSeq
    <3>2. Wanted(setting', camEnabled', c) = Wanted(setting, camEnabled, c)
      <4>1. \A u \in Threads : /\ setting'[u] # Idle /\ setting'[u].writing = c
                                    <=> setting[u] # Idle /\ setting[u].writing = c
                               /\ setting[u].writing = c => setting'[u].value = setting[u].value
        BY <1>3, <3>1
      <4> QED BY <1>2, <4>1 DEF Wanted
    <3>3. Follows(events[c], timer[c], Wanted(setting, camEnabled, c))
      BY <2>1 DEF SwitchParts, TimersFollow
    <3>4. events'[c] \in {events[c], Append(events[c], "path")}
      BY <1>2, <3>1
    <3> DEFINE on == Wanted(setting, camEnabled, c)
    <3>5. Wanted(setting', camEnabled', c) = on /\ Follows(events[c], timer[c], on)
          /\ on \in BOOLEAN
      BY <3>1, <3>2, <3>3
    <3> HIDE DEF on
    <3>6. Follows(events'[c], timer[c], on)
      BY <3>1, <3>4, <3>5, FollowsAppend
    <3> QED BY <1>2, <3>5, <3>6
  <2>5. \A u \in Threads : Throws(u)' => Course(u)' /\ Throwing(u)'
    BY <1>5, <2>3
  <2>6. SwitchParts'
    BY <1>5, <2>2, <2>4, <2>5 DEF SwitchParts
  <2>7. Calm'
    BY <1>2, <1>5, <1>7 DEF Calm
  <2> QED BY <1>4, <2>6, <2>7 DEF SwitchInv
<1> QED BY <1>6, <1>7

(* The start of a check: its thread does not throw the switch yet. *)
LEMMA SpotStartSwitch ==
  ASSUME TypeOK, SwitchInv, NEW channels \in SUBSET Channels, SpotStart(channels)
  PROVE  SwitchInv'
<1>1. /\ "tcp" \in Threads /\ setting["tcp"] = Idle
      /\ UNCHANGED <<runType, enabled, camEnabled, timer, events>>
      /\ history'.crossed = history.crossed /\ history'.astray = history.astray
  BY SpotStartGhosts DEF SpotStart, Command, Busy, Threads
<1>2. /\ setting'["tcp"] # Idle /\ setting'["tcp"].stage = "posting"
      /\ setting'["tcp"].writing = NoValue /\ setting'["tcp"].after = "nothing"
      /\ \A u \in Threads \ {"tcp"} : setting'[u] = setting[u]
  <2> DEFINE r == Begun("posting", TRUE, FALSE, channels \cap SpotCameras, "nothing")
  <2>1. /\ r.busy = TRUE /\ r.stage = "posting" /\ r.writing = NoValue
        /\ r.after = "nothing"
    BY DEF Begun
  <2>2. setting' = [setting EXCEPT !["tcp"] = r] /\ setting \in Busies
    BY DEF SpotStart, TypeOK, Busies
  <2> HIDE DEF r
  <2>3. setting'["tcp"] = r /\ \A u \in Threads \ {"tcp"} : setting'[u] = setting[u]
    BY <1>1, <2>2 DEF Busies
  <2> QED BY <2>1, <2>3 DEF Idle
<1>3. PostInv'
  BY <1>1, <1>2, PostInvStep DEF SwitchInv
<1>4. \A u \in Threads : Throws(u)' <=> Throws(u)
  BY <1>1, <1>2, OthersThrow DEF Throws, Busy
<1>5. CASE ~Calm
  BY <1>1, <1>3, <1>5, StrayedSwitch
<1>6. CASE Calm
  <2>1. SwitchParts /\ Known' = Known /\ MembersOf(runType)' = MembersOf(runType)
    BY <1>1, <1>6 DEF SwitchInv, Known, MembersOf
  <2>2. OneThread' /\ ((\A u \in Threads : ~Throws(u)) => Settled)'
    BY <1>1, <1>4, <2>1 DEF SwitchParts, OneThread, Settled
  <2>3. ASSUME NEW u \in Threads, Throws(u) PROVE Course(u)' /\ Throwing(u)'
    <3>1. setting'[u] = setting[u]
      BY <1>1, <1>2, <2>3 DEF Throws, Busy
    <3> QED BY <1>1, <2>1, <2>3, <3>1 DEF SwitchParts, Course, Throwing, Turned
  <2>4. TimersFollow'
    <3> SUFFICES ASSUME NEW c \in Known
                 PROVE  Follows(events'[c], timer'[c], Wanted(setting', camEnabled', c))
      BY <2>1 DEF TimersFollow
    <3>1. c # NoValue
      BY CameraTypes DEF Known
    <3>2. Wanted(setting', camEnabled', c) <=> Wanted(setting, camEnabled, c)
      <4>1. \A u \in Threads : /\ setting'[u] # Idle /\ setting'[u].writing = c
                                    <=> setting[u] # Idle /\ setting[u].writing = c
                               /\ setting[u] # Idle => setting'[u] = setting[u]
        BY <1>1, <1>2, <3>1
      <4> QED BY <1>1, <4>1 DEF Wanted
    <3>3. Follows(events[c], timer[c], Wanted(setting, camEnabled, c))
      BY <2>1 DEF SwitchParts, TimersFollow
    <3> QED BY <1>1, <3>2, <3>3, SameWanted
  <2>5. \A u \in Threads : Throws(u)' => Course(u)' /\ Throwing(u)'
    BY <1>4, <2>3
  <2>6. SwitchParts'
    BY <1>4, <2>2, <2>4, <2>5 DEF SwitchParts
  <2>7. Calm'
    BY <1>1, <1>4, <1>6 DEF Calm
  <2> QED BY <1>3, <2>6, <2>7 DEF SwitchInv
<1> QED BY <1>5, <1>6

(* A directory that is read: the switch is read next. *)
LEMMA ReadSwitchSwitch ==
  ASSUME TypeOK, SwitchInv, ReadSwitch
  PROVE  SwitchInv'
<1>1. /\ "tcp" \in Threads /\ At("tcp", "posting")
      /\ Moved("tcp", "read", enabled, {}, setting["tcp"].writing)
  BY ReadSwitchMoves DEF Threads
<1>2. /\ UNCHANGED <<runType, enabled, camEnabled, timer, events>>
      /\ history' = Crossed(history, "tcp")
  BY DEF ReadSwitch, unlessSwitched
<1>3. /\ setting'["tcp"] # Idle /\ setting'["tcp"].stage = "read"
      /\ setting'["tcp"].old = enabled /\ setting'["tcp"].todo = {}
      /\ setting'["tcp"].writing = NoValue /\ setting'["tcp"].after = "nothing"
      /\ \A u \in Threads \ {"tcp"} : setting'[u] = setting[u]
  BY <1>1 DEF Moved, Fields, SwitchInv, PostInv
<1>4. ~Throws("tcp")
  BY <1>1 DEF At, Throws
<1>5. /\ history'.crossed = (\E u \in Threads \ {"tcp"} : Throws(u))
      /\ history'.astray = IF \E u \in Threads \ {"tcp"} : Throws(u) THEN Cameras
                           ELSE history.astray
  BY <1>2, CommandedFacts, CrossedFacts
<1> QED BY <1>1, <1>2, <1>3, <1>4, <1>5, BeginSwitch

LEMMA CommandSwitch ==
  ASSUME TypeOK, SwitchInv, Command, NEW t \in Threads, NEW v \in BOOLEAN,
         NEW a \in Afterwards, BeginSet(t, v, a), history' = Crossed(Commanded, t),
         a \in {"Spot", "Infer"} => ~v, UNCHANGED events
  PROVE  SwitchInv'
<1>1. /\ setting'[t] # Idle /\ setting'[t].stage = "read" /\ setting'[t].old = enabled
      /\ setting'[t].todo = {} /\ setting'[t].writing = NoValue
      /\ setting'[t].value = v /\ setting'[t].after = a
      /\ \A u \in Threads \ {t} : setting'[u] = setting[u]
  <2> DEFINE r == Begun("read", v, enabled, {}, a)
  <2>1. /\ r.busy = TRUE /\ r.stage = "read" /\ r.value = v /\ r.old = enabled
        /\ r.todo = {} /\ r.writing = NoValue /\ r.after = a
    BY DEF Begun
  <2>2. setting' = [setting EXCEPT ![t] = r] /\ setting \in Busies
    BY DEF BeginSet, TypeOK, Busies
  <2> HIDE DEF r
  <2>3. setting'[t] = r /\ \A u \in Threads \ {t} : setting'[u] = setting[u]
    BY <2>2 DEF Busies
  <2> QED BY <2>1, <2>3 DEF Idle
<1>2. UNCHANGED <<runType, enabled, camEnabled, events, timer>> /\ ~Throws(t)
  BY DEF BeginSet, Command, Throws
<1>3. /\ history'.crossed = (\E u \in Threads \ {t} : Throws(u))
      /\ history'.astray = IF \E u \in Threads \ {t} : Throws(u) THEN Cameras
                           ELSE history.astray
  BY CommandedFacts, CrossedFacts
<1> QED BY <1>1, <1>2, <1>3, BeginSwitch

LEMMA SwitchStep ==
  ASSUME TypeOK, SwitchInv, [Next]_vars PROVE SwitchInv'
<1>1. ASSUME NEW mode \in {"Spot", "Infer"}, SetWorkMode(mode) PROVE SwitchInv'
  <2>1. mode \in Afterwards /\ "tcp" \in Threads /\ FALSE \in BOOLEAN
    BY DEF Afterwards, Threads
  <2> QED BY <1>1, <2>1, CommandSwitch DEF SetWorkMode
<1>2. ASSUME NEW v \in BOOLEAN, Enable(v) PROVE SwitchInv'
  <2>1. /\ (IF v THEN "On" ELSE "Stop") \in Afterwards /\ "tcp" \in Threads
        /\ (IF v THEN "On" ELSE "Stop") \notin {"Spot", "Infer"}
    BY DEF Afterwards, Threads
  <2> QED BY <1>2, <2>1, CommandSwitch DEF Enable
<1>3. ASSUME NEW v \in BOOLEAN, OtherSets(v) PROVE SwitchInv'
  <2>1. "nothing" \in Afterwards /\ "other" \in Threads
    BY DEF Afterwards, Threads
  <2> QED BY <1>3, <2>1, CommandSwitch DEF OtherSets
<1>4. ASSUME UNCHANGED <<switchVars, events, timer>>,
             history'.crossed = history.crossed, history'.astray = history.astray
      PROVE  SwitchInv'
  BY <1>4, QuietSwitch
<1>5. ASSUME SpotStop \/ Inquire PROVE SwitchInv'
  BY <1>4, <1>5, CommandedFacts DEF SpotStop, Inquire, Command
<1>6. ASSUME NEW t \in Threads, ThreadStep(t) PROVE SwitchInv'
  BY <1>6, GoThroughSwitch, WriteCameraSwitch, StoreSwitchSwitch, ConcludeSwitch,
     SetCameraSwitch DEF ThreadStep
<1>7. ASSUME NEW d \in Cameras, NEW e \in {"start", "stop", "path"}, TakeEvent(d, e),
             timer' = IF e = "path" THEN timer ELSE [timer EXCEPT ![d] = (e = "start")]
      PROVE  SwitchInv'
  <2>1. ASSUME NEW c \in Cameras, NEW on \in BOOLEAN, Follows(events[c], timer[c], on)
        PROVE  Follows(events'[c], timer'[c], on)
    <3>1. /\ events \in [Cameras -> EventSeq] /\ timer \in [Cameras -> BOOLEAN]
          /\ events' = [events EXCEPT ![d] = Tail(@)]
          /\ events[d] # << >> /\ Head(events[d]) = e
      BY <1>7 DEF TypeOK, EventSeq, TakeEvent
    <3>2. CASE c = d
      <4>1. /\ events'[c] = Tail(events[c])
            /\ timer'[c] = IF e = "path" THEN timer[c] ELSE e = "start"
        BY <1>7, <3>1, <3>2
      <4> QED BY <2>1, <3>1, <3>2, <4>1, FollowsTail
    <3>3. CASE c # d
      BY <1>7, <2>1, <3>1, <3>3
    <3> QED BY <3>2, <3>3
  <2>2. \A c \in Cameras : LET on == Wanted(setting, camEnabled, c) IN
          Follows(events[c], timer[c], on) => Follows(events'[c], timer'[c], on)
    BY <2>1, CameraTypes
  <2> QED BY <1>7, <2>2, QuietSwitch DEF TakeEvent
<1>8. ASSUME NEW c \in Cameras, TimerEvent(c) PROVE SwitchInv'
  BY <1>7, <1>8 DEF TimerEvent
<1>9. ASSUME NEW c \in SpotCameras, NEW n \in 0..MaxImages, SetImageSrcPath(c, n)
      PROVE  SwitchInv'
  BY <1>7, <1>9 DEF SetImageSrcPath, Cameras
<1>10. ASSUME NEW c \in SpotCameras,
              LeaveStartStage(c) \/ WriteCounter(c) \/ NextImage(c) \/ FinishList(c)
       PROVE  SwitchInv'
  BY <1>4, <1>10, FinishListGhosts
     DEF LeaveStartStage, WriteCounter, NextImage, FinishList, Timeout
<1>11. CASE UNCHANGED vars
  BY <1>4, <1>11 DEF vars
<1> QED BY <1>1, <1>2, <1>3, <1>5, <1>6, <1>8, <1>9, <1>10, <1>11, SpotStartSwitch,
          ReadSwitchSwitch, PostPathSwitch
        DEF Next, CameraStep

LEMMA SwitchInit == Init => SwitchInv
<1> SUFFICES ASSUME Init PROVE SwitchInv
  OBVIOUS
<1>1. \A t \in Threads : ~Busy(t) /\ setting[t] = Idle
  BY DEF Init, Busy
<1>2. \A c \in Cameras : /\ events[c] = << >>
                         /\ timer[c] = (c \in LineCameras)
                         /\ camEnabled[c] = (c \in LineCameras)
  BY DEF Init
<1>3. Settled
  BY <1>2 DEF Settled, MembersOf, Init, Known
<1>4. TimersFollow
  BY <1>1, <1>2 DEF TimersFollow, Follows, Wanted, Known
<1>5. PostInv /\ Calm /\ \A t \in Threads : ~Throws(t)
  BY <1>1 DEF PostInv, Calm, Throws, At
<1> QED BY <1>3, <1>4, <1>5 DEF SwitchInv, SwitchParts, OneThread

(* When no thread throws the switch, exactly the cameras of the run type run,
   whatever commands came in whatever order; but for those that two threads
   throwing the switch at once left astray and that no later throw turned. *)
THEOREM CamerasRunAsEnabled == Spec => []RunsAsEnabled
<1>1. Init => TypeOK /\ SwitchInv
  BY TypeInit, SwitchInit
<1>2. TypeOK /\ SwitchInv /\ [Next]_vars => (TypeOK /\ SwitchInv)'
  BY TypeStep, SwitchStep
<1>3. TypeOK /\ SwitchInv => RunsAsEnabled
  <2> SUFFICES ASSUME TypeOK, SwitchInv, \A t \in Threads : ~Throws(t), NEW c \in Known
               PROVE  /\ camEnabled[c] = (enabled /\ c \in MembersOf(runType))
                      /\ (\A i \in DOMAIN events[c] : events[c][i] = "path")
                           => timer[c] = camEnabled[c]
    BY DEF RunsAsEnabled, Known
  <2>1. camEnabled[c] \in BOOLEAN /\ timer[c] \in BOOLEAN /\ c # NoValue /\ SwitchParts
    BY CameraTypes DEF Known, SwitchInv, Calm
  <2>2. camEnabled[c] <=> enabled /\ c \in MembersOf(runType)
    BY <2>1 DEF SwitchParts, Settled
  <2>3. Wanted(setting, camEnabled, c) <=> camEnabled[c]
    <3>1. \A t \in Threads : setting[t] = Idle \/ setting[t].writing = NoValue
      BY DEF SwitchInv, PostInv, At, Throws, Busy
    <3> QED BY <2>1, <3>1 DEF Wanted
  <2>4. Follows(events[c], timer[c], Wanted(setting, camEnabled, c))
    BY <2>1 DEF SwitchParts, TimersFollow
  <2> QED BY <2>1, <2>2, <2>3, <2>4 DEF Follows
<1> QED BY <1>1, <1>2, <1>3, PTL DEF Spec
=============================================================================
