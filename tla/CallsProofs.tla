----------------------------- MODULE CallsProofs ------------------------------
(***************************************************************************)
(* Calls, for any friends and any number of events: the types, and that    *)
(* what is still on its way between the four threads agrees with toxav, so *)
(* that a FRIEND has his source, and the user his buttons, once all of it  *)
(* has arrived.                                                            *)
(***************************************************************************)
EXTENDS Calls, FiniteSetTheorems, TLAPS

-----------------------------------------------------------------------------
(* Sequences by their elements *)

Elements(s) == {s[i] : i \in DOMAIN s}

LEMMA ElementsTuples ==
    ASSUME NEW a, NEW b, NEW c
    PROVE  /\ Elements(<<>>) = {} /\ Elements(<<a>>) = {a} /\ Elements(<<a, b>>) = {a, b}
           /\ Elements(<<a, b, c>>) = {a, b, c}
BY DEF Elements

LEMMA ElementsTail ==
    ASSUME NEW S, NEW s \in Seq(S), s # <<>>
    PROVE  /\ Elements(s) = Elements(Tail(s)) \cup {Head(s)}
           /\ Head(s) \in S /\ Tail(s) \in Seq(S)
<1>1. /\ Len(s) \in Nat \ {0} /\ DOMAIN s = 1 .. Len(s) /\ Head(s) = s[1]
      /\ DOMAIN Tail(s) = 1 .. (Len(s) - 1)
      /\ \A i \in 1 .. (Len(s) - 1) : Tail(s)[i] = s[i + 1]
  OBVIOUS
<1>2. ASSUME NEW i \in 1 .. Len(s) PROVE s[i] \in Elements(Tail(s)) \cup {Head(s)}
  <2>1. CASE i = 1
    BY <1>1, <2>1
  <2>2. CASE i # 1
    <3>1. i - 1 \in 1 .. (Len(s) - 1) /\ Tail(s)[i - 1] = s[i]
      BY <1>1, <2>2
    <3> QED
      BY <1>1, <3>1 DEF Elements
  <2> QED
    BY <2>1, <2>2
<1>3. ASSUME NEW i \in 1 .. (Len(s) - 1) PROVE Tail(s)[i] \in Elements(s)
  <2>1. i + 1 \in 1 .. Len(s)
    BY <1>1
  <2> QED
    BY <1>1, <2>1 DEF Elements
<1>4. Head(s) \in Elements(s)
  BY <1>1 DEF Elements
<1>5. Elements(s) = Elements(Tail(s)) \cup {Head(s)}
  BY <1>1, <1>2, <1>3, <1>4 DEF Elements
<1> QED
  BY <1>5

LEMMA ElementsJoined ==
    ASSUME NEW S, NEW s \in Seq(S), NEW t \in Seq(S)
    PROVE  Elements(s \o t) = Elements(s) \cup Elements(t) /\ s \o t \in Seq(S)
<1>1. /\ Len(s) \in Nat /\ Len(t) \in Nat /\ DOMAIN s = 1 .. Len(s) /\ DOMAIN t = 1 .. Len(t)
      /\ DOMAIN (s \o t) = 1 .. (Len(s) + Len(t))
      /\ \A i \in 1 .. (Len(s) + Len(t)) :
           (s \o t)[i] = IF i <= Len(s) THEN s[i] ELSE t[i - Len(s)]
  OBVIOUS
<1>2. ASSUME NEW i \in 1 .. (Len(s) + Len(t)) PROVE (s \o t)[i] \in Elements(s) \cup Elements(t)
  <2>1. CASE i <= Len(s)
    <3>1. i \in 1 .. Len(s)
      BY <1>1, <2>1
    <3> QED
      BY <1>1, <2>1, <3>1 DEF Elements
  <2>2. CASE i > Len(s)
    <3>1. i - Len(s) \in 1 .. Len(t)
      BY <1>1, <2>2
    <3>2. (s \o t)[i] = t[i - Len(s)]
      BY <1>1, <2>2
    <3> QED
      BY <1>1, <3>1, <3>2 DEF Elements
  <2> QED
    BY <1>1, <2>1, <2>2
<1>3. ASSUME NEW i \in 1 .. Len(s) PROVE s[i] \in Elements(s \o t)
  <2>1. i \in 1 .. (Len(s) + Len(t)) /\ (s \o t)[i] = s[i]
    BY <1>1
  <2> QED
    BY <1>1, <2>1 DEF Elements
<1>4. ASSUME NEW i \in 1 .. Len(t) PROVE t[i] \in Elements(s \o t)
  <2>1. Len(s) + i \in 1 .. (Len(s) + Len(t)) /\ ~(Len(s) + i <= Len(s))
    BY <1>1
  <2>2. (s \o t)[Len(s) + i] = t[(Len(s) + i) - Len(s)] /\ (Len(s) + i) - Len(s) = i
    BY <1>1, <2>1
  <2> QED
    BY <1>1, <2>1, <2>2 DEF Elements
<1>5. Elements(s \o t) \subseteq Elements(s) \cup Elements(t)
  BY <1>1, <1>2 DEF Elements
<1>6. Elements(s) \subseteq Elements(s \o t) /\ Elements(t) \subseteq Elements(s \o t)
  BY <1>1, <1>3, <1>4 DEF Elements
<1> QED
  BY <1>5, <1>6

-----------------------------------------------------------------------------
(* Types *)

Others == {"hide", "show", "clear", "done"}

Step ==
    [do : {"post"}, arg : Messages(Orderable)]
    \cup [do : {"call"}, arg : [msg : {"call"}, friend : Friends, video : BOOLEAN]]
    \cup [do : Others, arg : Messages(Others)]

AudioSteps == AudioOrders \cup {"state", "video_on", "video_off", "device"}

FriendTypes ==
    /\ toxav \in [Friends -> {"none", "in", "out", "active"}]
    /\ call_state_self \in [Friends -> SUBSET {"A", "SV", "AV"}]
    /\ call_state_friend \in [Friends -> SUBSET {"A", "V"}]
    /\ audio_dest \in [Friends -> BOOLEAN]

UserTypes ==
    /\ pressed \in AtMostOne(Messages(Commands))
    /\ toxcore_msg \in AtMostOne(Messages(Commands))
    /\ utox_msgs \in Seq(Commands)
    /\ audio_preview \in BOOLEAN /\ active_call \in BOOLEAN
    /\ events \in 0 .. MaxEvents /\ lost \in BOOLEAN
    /\ odd \subseteq {"resumed", "twice", "refused", "failed"}

PostTypes ==
    /\ toxav_msg \in AtMostOne(Messages(Orderable))
    /\ past \subseteq {"core", "ui"}
    /\ work \in [{"core", "ui"} -> Seq(Step)]

ControlTypes ==
    /\ pc \in {"poll", "work", "lower"}
    /\ now \in Messages(Orderable \cup {"none"})
    /\ orders \in Seq(AudioSteps)
    /\ call_count \in 0 .. CountModulus - 1 /\ video_active \in BOOLEAN

AudioTypes ==
    /\ audio_msg \in AtMostOne(Messages(AudioOrders))
    /\ microphone_count \in Nat /\ audio_in_open \in BOOLEAN
    /\ ringtone \in BOOLEAN

Types == FriendTypes /\ UserTypes /\ PostTypes /\ ControlTypes /\ AudioTypes

LEMMA TypesOK == Types => TypeOK
<1> SUFFICES ASSUME Types PROVE TypeOK
  OBVIOUS
<1>1. \A p \in {"core", "ui"} : \A i \in DOMAIN work[p] : work[p][i] \in Step
  BY DEF Types, PostTypes
<1>2. Step \subseteq [do : {"post", "call", "hide", "show", "clear", "done"},
                      arg : Messages(Orderable \cup {"call", "hide", "show", "clear", "done"})]
  BY DEF Step, Others, Messages
<1>3. \A i \in DOMAIN utox_msgs : utox_msgs[i] \in Commands
  BY DEF Types, UserTypes
<1>4. \A i \in DOMAIN orders : orders[i] \in AudioSteps
  BY DEF Types, ControlTypes
<1> QED
  BY <1>1, <1>2, <1>3, <1>4
  DEF Types, FriendTypes, UserTypes, PostTypes, ControlTypes, AudioTypes, TypeOK, AudioSteps

LEMMA SetType ==
    ASSUME NEW S, NEW table \in [Friends -> S], NEW f, NEW x \in S
    PROVE  Set(table, f, x) \in [Friends -> S]
BY DEF Set

LEMMA OneType == ASSUME NEW S, NEW x \in S PROVE <<x>> \in AtMostOne(S) /\ <<>> \in AtMostOne(S)
BY DEF AtMostOne

LEMMA OneHead ==
    ASSUME NEW S, NEW q \in AtMostOne(S), q # <<>> PROVE Head(q) \in S /\ q = <<Head(q)>>
BY DEF AtMostOne

LEMMA TupleTypes ==
    ASSUME NEW S, NEW a \in S, NEW b \in S
    PROVE  <<>> \in Seq(S) /\ <<a>> \in Seq(S) /\ <<a, b>> \in Seq(S)
OBVIOUS

LEMMA JoinedTuple ==
    ASSUME NEW S, NEW a \in S, NEW b \in S, NEW c \in S PROVE <<a, b>> \o <<c>> = <<a, b, c>>
<1>1. /\ <<a, b>> \in Seq(S) /\ <<c>> \in Seq(S) /\ <<a, b, c>> \in Seq(S)
      /\ Len(<<a, b>>) = 2 /\ Len(<<c>>) = 1 /\ Len(<<a, b, c>>) = 3
  OBVIOUS
<1>2. <<a, b>> \o <<c>> \in Seq(S) /\ Len(<<a, b>> \o <<c>>) = 3
  BY <1>1
<1>3. \A i \in 1 .. 3 : (<<a, b>> \o <<c>>)[i] = <<a, b, c>>[i]
  BY <1>1
<1>4. \A s \in Seq(S), t \in Seq(S) :
        Len(s) = Len(t) /\ (\A i \in 1 .. Len(s) : s[i] = t[i]) => s = t
  OBVIOUS
<1> QED
  BY <1>1, <1>2, <1>3, <1>4

LEMMA StepTypes ==
    ASSUME NEW f \in Friends \cup {Nobody}, NEW v \in BOOLEAN
    PROVE  /\ \A m \in Orderable : Post(m, f, v) \in Step
           /\ \A o \in Others : Do(o, f, v) \in Step
           /\ f \in Friends => Do("call", f, v) \in Step
BY DEF Post, Do, Msg, Step, Messages

LEMMA WorkType ==
    ASSUME PostTypes, NEW p \in {"core", "ui"}, NEW s \in Seq(Step)
    PROVE  [work EXCEPT ![p] = s] \in [{"core", "ui"} -> Seq(Step)]
BY DEF PostTypes

States == {"none", "in", "out", "active"}

\* The steps of a command, and the end of it.
LEMMA CommandSteps ==
    ASSUME NEW c, NEW f, NEW v, NEW call, NEW steps, Types, Command(c, f, v, call, steps),
           f \in Friends \cup {Nobody}, v \in BOOLEAN, call \in States, steps \in Seq(Step)
    PROVE  /\ work["core"] = <<>>
           /\ work' \in [{"core", "ui"} -> Seq(Step)]
           /\ Elements(work'["core"]) = Elements(steps) \cup {Do("done", f, v)}
           /\ work'["ui"] = work["ui"]
           /\ toxav' = Set(toxav, f, call) /\ toxav' \in [Friends -> States]
<1>1. <<Do("done", f, v)>> \in Seq(Step)
  BY StepTypes DEF Others
<1>2. /\ steps \o <<Do("done", f, v)>> \in Seq(Step)
      /\ Elements(steps \o <<Do("done", f, v)>>)
           = Elements(steps) \cup Elements(<<Do("done", f, v)>>)
  BY <1>1, ElementsJoined
<1>3. Elements(<<Do("done", f, v)>>) = {Do("done", f, v)}
  BY ElementsTuples
<1>4. work' = [work EXCEPT !["core"] = steps \o <<Do("done", f, v)>>] /\ work["core"] = <<>>
  BY DEF Command, CoreIdle
<1>5. toxav' = Set(toxav, f, call) /\ toxav \in [Friends -> States]
  BY DEF Command, Types, FriendTypes, States
<1>6. toxav' \in [Friends -> States]
  BY <1>5, SetType
<1> QED
  BY <1>2, <1>3, <1>4, <1>5, <1>6 DEF Types, PostTypes

\* The steps of a callback.
LEMMA CallbackSteps ==
    ASSUME NEW f, NEW call, NEW steps, Types, Callback(f, call, steps),
           f \in Friends, call \in States, steps \in Seq(Step)
    PROVE  /\ work["core"] = <<>> /\ work' = [work EXCEPT !["core"] = steps]
           /\ work' \in [{"core", "ui"} -> Seq(Step)] /\ work'["core"] = steps
           /\ toxav' = Set(toxav, f, call) /\ toxav' \in [Friends -> States]
<1>1. work' = [work EXCEPT !["core"] = steps] /\ work["core"] = <<>>
  BY DEF Callback, CoreIdle
<1>2. toxav' = Set(toxav, f, call) /\ toxav \in [Friends -> States]
  BY DEF Callback, Types, FriendTypes, States
<1>3. toxav' \in [Friends -> States]
  BY <1>2, SetType
<1> QED
  BY <1>1, <1>2, <1>3 DEF Types, PostTypes

\* The steps that each handler leaves.
SendSteps(f, v) == <<Post("OUTGOING_CALL_PENDING", f, v), Do("call", f, v)>>
AnswerSteps(f, v) ==
    IF toxav[f] = "in" THEN <<Post("INCOMING_CALL_ANSWER", f, v)>> ELSE <<>>
PauseSteps(f, agreed) ==
    IF agreed THEN <<Post("STOP_VIDEO", f, FALSE), Do("hide", f, TRUE)>> ELSE <<>>
StartSteps(f, agreed) == IF agreed THEN <<Post("START_VIDEO", f, FALSE)>> ELSE <<>>
ResumeSteps(f, agreed) == StartSteps(f, agreed) \o <<Do("show", f, TRUE)>>
EndSteps(f) == <<Post("CALL_END", f, FALSE)>>
FinishSteps(f) == <<Post("CALL_END", f, FALSE), Do("clear", f, FALSE)>>
LeaveSteps(f) == EndSteps(f) \o (IF toxav[f] = "none" THEN <<>> ELSE FinishSteps(f))
AcceptSteps(f, state, agreed) ==
    IF call_state_friend[f] = {} THEN Accept(f, state, agreed) ELSE <<>>

LEMMA StepsTypes ==
    ASSUME NEW f \in Friends, NEW v \in BOOLEAN, NEW agreed, NEW state
    PROVE  /\ SendSteps(f, v) \in Seq(Step) /\ AnswerSteps(f, v) \in Seq(Step)
           /\ PauseSteps(f, agreed) \in Seq(Step) /\ StartSteps(f, agreed) \in Seq(Step)
           /\ ResumeSteps(f, agreed) \in Seq(Step) /\ EndSteps(f) \in Seq(Step)
           /\ FinishSteps(f) \in Seq(Step) /\ LeaveSteps(f) \in Seq(Step)
           /\ AcceptSteps(f, state, agreed) \in Seq(Step)
<1>1. /\ Post("OUTGOING_CALL_PENDING", f, v) \in Step /\ Do("call", f, v) \in Step
      /\ Post("INCOMING_CALL_ANSWER", f, v) \in Step
  BY DEF Post, Do, Msg, Step, Messages, Orderable
<1>2. /\ Post("STOP_VIDEO", f, FALSE) \in Step /\ Post("START_VIDEO", f, FALSE) \in Step
      /\ Post("CALL_END", f, FALSE) \in Step /\ Post("OUTGOING_CALL_ACCEPTED", f, FALSE) \in Step
  BY DEF Post, Msg, Step, Messages, Orderable
<1>3. /\ Do("hide", f, TRUE) \in Step /\ Do("show", f, TRUE) \in Step
      /\ Do("clear", f, FALSE) \in Step
  BY DEF Do, Msg, Step, Messages, Others
<1>4. /\ SendSteps(f, v) \in Seq(Step) /\ AnswerSteps(f, v) \in Seq(Step)
      /\ PauseSteps(f, agreed) \in Seq(Step) /\ StartSteps(f, agreed) \in Seq(Step)
      /\ EndSteps(f) \in Seq(Step) /\ FinishSteps(f) \in Seq(Step)
  BY <1>1, <1>2, <1>3, TupleTypes
  DEF SendSteps, AnswerSteps, PauseSteps, StartSteps, EndSteps, FinishSteps
<1>5. /\ <<Do("show", f, TRUE)>> \in Seq(Step) /\ <<>> \in Seq(Step)
      /\ <<Post("OUTGOING_CALL_ACCEPTED", f, FALSE)>> \in Seq(Step)
      /\ <<Post("STOP_VIDEO", f, FALSE), Do("hide", f, TRUE)>> \in Seq(Step)
  BY <1>2, <1>3, TupleTypes
<1>6. AcceptSteps(f, state, agreed) \in Seq(Step)
  BY <1>5, ElementsJoined DEF AcceptSteps, Accept
<1> QED
  BY <1>4, <1>5, <1>6, ElementsJoined DEF ResumeSteps, LeaveSteps

LEMMA CommandTypes == ASSUME Types, CommandStep PROVE Types'
<1> USE DEF Types
<1>0. "core" \in {"core", "ui"} /\ States = {"none", "in", "out", "active"} /\ Videos \subseteq BOOLEAN
  BY CallsAssumption DEF CallsAssumption, States
<1>1. ASSUME NEW f \in Friends, NEW v \in Videos, CallSend(f, v) PROVE Types'
  <2>1. Command("TOX_CALL_SEND", f, v, toxav[f], SendSteps(f, v)) /\ v \in BOOLEAN /\ toxav[f] \in States
    BY <1>0, <1>1 DEF CallSend, SendSteps, FriendTypes
  <2>2. work' \in [{"core", "ui"} -> Seq(Step)] /\ toxav' \in [Friends -> States]
    BY <2>1, StepsTypes, CommandSteps
  <2> QED
    BY <1>0, <1>1, <2>2 DEF CallSend, friendVars, uiVars, boxVars, ctrlVars, audioVars, histVars,
       FriendTypes, UserTypes, PostTypes, ControlTypes, AudioTypes
<1>2. ASSUME NEW f \in Friends, NEW v \in Videos, CallAnswer(f, v) PROVE Types'
  <2> DEFINE call == IF toxav[f] = "in" THEN "active" ELSE toxav[f]
  <2>1. Command("TOX_CALL_ANSWER", f, v, call, AnswerSteps(f, v)) /\ v \in BOOLEAN /\ call \in States
    BY <1>0, <1>2 DEF CallAnswer, AnswerSteps, FriendTypes
  <2> HIDE DEF call
  <2>2. work' \in [{"core", "ui"} -> Seq(Step)] /\ toxav' \in [Friends -> States]
    BY <2>1, StepsTypes, CommandSteps
  <2> QED
    BY <1>0, <1>2, <2>2 DEF CallAnswer, friendVars, uiVars, boxVars, ctrlVars, audioVars, histVars,
       FriendTypes, UserTypes, PostTypes, ControlTypes, AudioTypes
<1>3. ASSUME NEW f \in Friends, CallDisconnect(f) PROVE Types'
  <2>1. Command("TOX_CALL_DISCONNECT", f, FALSE, "none", EndSteps(f)) /\ "none" \in States
    BY <1>0, <1>3 DEF CallDisconnect, EndSteps
  <2>2. work' \in [{"core", "ui"} -> Seq(Step)] /\ toxav' \in [Friends -> States]
    BY <2>1, StepsTypes, CommandSteps
  <2>3. /\ call_state_self' \in [Friends -> SUBSET {"A", "SV", "AV"}]
        /\ call_state_friend' \in [Friends -> SUBSET {"A", "V"}]
    BY <1>3, SetType DEF CallDisconnect, FriendTypes
  <2> QED
    BY <1>0, <1>3, <2>2, <2>3 DEF CallDisconnect, uiVars, boxVars, ctrlVars, audioVars, histVars,
       FriendTypes, UserTypes, PostTypes, ControlTypes, AudioTypes
<1>4. ASSUME NEW f \in Friends, NEW agreed \in BOOLEAN, PauseVideo(f, agreed) PROVE Types'
  <2>1. Command("TOX_CALL_PAUSE_VIDEO", f, TRUE, toxav[f], PauseSteps(f, agreed)) /\ toxav[f] \in States
    BY <1>0, <1>4 DEF PauseVideo, PauseSteps, FriendTypes
  <2>2. work' \in [{"core", "ui"} -> Seq(Step)] /\ toxav' \in [Friends -> States]
    BY <2>1, StepsTypes, CommandSteps
  <2> QED
    BY <1>0, <1>4, <2>2 DEF PauseVideo, friendVars, uiVars, boxVars, ctrlVars, audioVars, histVars,
       FriendTypes, UserTypes, PostTypes, ControlTypes, AudioTypes
<1>5. ASSUME NEW f \in Friends, NEW agreed \in BOOLEAN, ResumeVideo(f, agreed) PROVE Types'
  <2>1. /\ Command("TOX_CALL_RESUME_VIDEO", f, TRUE, toxav[f], ResumeSteps(f, agreed))
        /\ toxav[f] \in States
    BY <1>0, <1>5 DEF ResumeVideo, ResumeSteps, StartSteps, FriendTypes
  <2>2. work' \in [{"core", "ui"} -> Seq(Step)] /\ toxav' \in [Friends -> States]
    BY <2>1, StepsTypes, CommandSteps
  <2> QED
    BY <1>0, <1>5, <2>2 DEF ResumeVideo, friendVars, uiVars, boxVars, ctrlVars, audioVars, histVars,
       FriendTypes, UserTypes, PostTypes, ControlTypes, AudioTypes
<1>6. ASSUME NEW c \in {"TOX_GROUP_AUDIO_START", "TOX_GROUP_AUDIO_END"}, GroupAudio(c) PROVE Types'
  <2>1. Command(c, Nobody, FALSE, "none", <<>>) /\ "none" \in States
    BY <1>0, <1>6 DEF GroupAudio
  <2>2. <<>> \in Seq(Step) /\ Nobody \in Friends \cup {Nobody}
    BY StepTypes, TupleTypes
  <2>3. work' \in [{"core", "ui"} -> Seq(Step)] /\ toxav' \in [Friends -> States]
    BY <2>1, <2>2, CommandSteps
  <2>4. c \in Commands /\ utox_msgs' \in Seq(Commands)
    BY <1>6 DEF GroupAudio, Commands, UserTypes
  <2> QED
    BY <1>0, <1>6, <2>3, <2>4 DEF GroupAudio, friendVars, boxVars, ctrlVars, audioVars, histVars,
       FriendTypes, UserTypes, PostTypes, ControlTypes, AudioTypes
<1>7. CASE PlaceCall
  <2> DEFINE f == Head(work["core"]).arg.friend
             v == Head(work["core"]).arg.video
  <2>1. /\ work["core"] \in Seq(Step) /\ work["core"] # <<>> /\ Head(work["core"]).do = "call"
        /\ Tail(work["core"]) \in Seq(Step) /\ Head(work["core"]) \in Step
    BY <1>7, ElementsTail DEF PlaceCall, PostTypes
  <2>2. f \in Friends /\ v \in BOOLEAN
    BY <2>1 DEF Step, Others
  <2>3. Post("OUTGOING_CALL_ACCEPTED", f, v) \in Step
    BY <2>2 DEF Post, Msg, Step, Messages, Orderable
  <2>4. PICK s \in {<<>>, <<Post("OUTGOING_CALL_ACCEPTED", f, v)>>} :
          work' = [work EXCEPT !["core"] = s \o Tail(work["core"])]
    BY <1>7 DEF PlaceCall
  <2>5. work' \in [{"core", "ui"} -> Seq(Step)]
    <3>1. s \in Seq(Step)
      BY <2>3, TupleTypes
    <3> QED
      BY <2>1, <2>4, <3>1, ElementsJoined, WorkType
  <2>6. toxav' \in [Friends -> States]
    BY <1>0, <1>7, <2>2 DEF PlaceCall, FriendTypes
  <2>7. odd' \subseteq {"resumed", "twice", "refused", "failed"}
    BY <1>7 DEF PlaceCall, UserTypes
  <2> QED
    BY <1>0, <1>7, <2>5, <2>6, <2>7 DEF PlaceCall, friendVars, uiVars, boxVars, ctrlVars, audioVars,
       FriendTypes, UserTypes, PostTypes, ControlTypes, AudioTypes
<1>8. CASE CoreStep
  <2> DEFINE f == Head(work["core"]).arg.friend
             what == Head(work["core"]).do
  <2>1. work["core"] \in Seq(Step) /\ work["core"] # <<>> /\ Tail(work["core"]) \in Seq(Step)
    BY <1>8, ElementsTail DEF CoreStep, PostTypes
  <2>2. work' \in [{"core", "ui"} -> Seq(Step)]
    BY <1>8, <2>1, WorkType DEF CoreStep
  <2>3. /\ call_state_self' \in [Friends -> SUBSET {"A", "SV", "AV"}]
        /\ call_state_friend' \in [Friends -> SUBSET {"A", "V"}]
    <3>1. \A g \in Friends : Changed(what, call_state_self[g]) \in SUBSET {"A", "SV", "AV"}
      BY DEF Changed, FriendTypes
    <3>2. call_state_self' = [g \in Friends |->
             IF g = f THEN Changed(what, call_state_self[g]) ELSE call_state_self[g]]
      BY <1>8 DEF CoreStep
    <3>3. call_state_friend' \in {call_state_friend, Set(call_state_friend, f, {})}
      BY <1>8 DEF CoreStep
    <3>4. Set(call_state_friend, f, {}) \in [Friends -> SUBSET {"A", "V"}]
      BY SetType DEF FriendTypes
    <3> HIDE DEF f, what
    <3> QED
      BY <3>1, <3>2, <3>3, <3>4 DEF FriendTypes
  <2>4. toxcore_msg' \in AtMostOne(Messages(Commands))
    BY <1>8 DEF CoreStep, UserTypes, AtMostOne
  <2> QED
    BY <1>0, <1>8, <2>2, <2>3, <2>4 DEF CoreStep, uiVars, boxVars, ctrlVars, audioVars, histVars,
       FriendTypes, UserTypes, PostTypes, ControlTypes, AudioTypes
<1> QED
  BY <1>1, <1>2, <1>3, <1>4, <1>5, <1>6, <1>7, <1>8 DEF CommandStep

LEMMA CallbackTypes == ASSUME Types, CallbackStep PROVE Types'
<1> USE DEF Types
<1>0. States = {"none", "in", "out", "active"} /\ {"none", "in", "active"} \subseteq States
  BY DEF States
<1>1. ASSUME NEW f \in Friends, NEW call \in States, NEW steps \in Seq(Step),
             Callback(f, call, steps)
      PROVE  /\ work' \in [{"core", "ui"} -> Seq(Step)] /\ toxav' \in [Friends -> States]
             /\ events' \in 0 .. MaxEvents
             /\ UNCHANGED <<uiVars, toxcore_msg, boxVars, ctrlVars, audioVars, lost>>
  <2>1. events' \in 0 .. MaxEvents
    BY <1>1, CallsAssumption DEF CallsAssumption, Callback, Event, UserTypes
  <2> QED
    BY <1>1, <2>1, CallbackSteps DEF Callback
<1>2. ASSUME NEW f \in Friends, NEW v \in Videos, IncomingCall(f, v) PROVE Types'
  <2>1. Callback(f, "in", <<Post("INCOMING_CALL_PENDING", f, FALSE)>>)
    BY <1>2 DEF IncomingCall
  <2>2. Post("INCOMING_CALL_PENDING", f, FALSE) \in Step
    BY DEF Post, Msg, Step, Messages, Orderable
  <2>3. <<Post("INCOMING_CALL_PENDING", f, FALSE)>> \in Seq(Step) /\ "in" \in States
    BY <1>0, <2>2, TupleTypes
  <2>4. /\ work' \in [{"core", "ui"} -> Seq(Step)] /\ toxav' \in [Friends -> States]
        /\ events' \in 0 .. MaxEvents
        /\ UNCHANGED <<uiVars, toxcore_msg, boxVars, ctrlVars, audioVars, lost>>
    BY <1>1, <2>1, <2>3
  <2>5. /\ call_state_self' \in [Friends -> SUBSET {"A", "SV", "AV"}]
        /\ call_state_friend' \in [Friends -> SUBSET {"A", "V"}]
    BY <1>2, SetType DEF IncomingCall, FriendTypes
  <2> QED
    BY <1>0, <1>2, <2>4, <2>5 DEF IncomingCall, uiVars, boxVars, ctrlVars, audioVars,
       FriendTypes, UserTypes, PostTypes, ControlTypes, AudioTypes
<1>3. ASSUME NEW f \in Friends, NEW state \in FriendStates, NEW agreed \in BOOLEAN,
             ChangeState(f, state, agreed)
      PROVE  Types'
  <2>1. Callback(f, "active", AcceptSteps(f, state, agreed)) /\ "active" \in States
    BY <1>0, <1>3 DEF ChangeState, AcceptSteps
  <2>2. /\ work' \in [{"core", "ui"} -> Seq(Step)] /\ toxav' \in [Friends -> States]
        /\ events' \in 0 .. MaxEvents
        /\ UNCHANGED <<uiVars, toxcore_msg, boxVars, ctrlVars, audioVars, lost>>
    BY <1>1, <2>1, StepsTypes
  <2>3. state \in SUBSET {"A", "V"}
    BY DEF FriendStates
  <2>4. /\ call_state_friend' \in [Friends -> SUBSET {"A", "V"}]
        /\ odd' \subseteq {"resumed", "twice", "refused", "failed"}
    BY <1>3, <2>3, SetType DEF ChangeState, FriendTypes, UserTypes
  <2> QED
    BY <1>0, <1>3, <2>2, <2>4 DEF ChangeState, uiVars, boxVars, ctrlVars, audioVars,
       FriendTypes, UserTypes, PostTypes, ControlTypes, AudioTypes
<1>4. ASSUME NEW f \in Friends, Finish(f) PROVE Types'
  <2>1. Callback(f, "none", FinishSteps(f)) /\ "none" \in States
    BY <1>0, <1>4 DEF Finish, FinishSteps
  <2>2. /\ work' \in [{"core", "ui"} -> Seq(Step)] /\ toxav' \in [Friends -> States]
        /\ events' \in 0 .. MaxEvents
        /\ UNCHANGED <<uiVars, toxcore_msg, boxVars, ctrlVars, audioVars, lost>>
    BY <1>1, <2>1, StepsTypes
  <2> QED
    BY <1>0, <1>4, <2>2 DEF Finish, friendVars, uiVars, boxVars, ctrlVars, audioVars,
       FriendTypes, UserTypes, PostTypes, ControlTypes, AudioTypes
<1>5. ASSUME NEW f \in Friends, Offline(f) PROVE Types'
  <2>1. Callback(f, "none", LeaveSteps(f)) /\ "none" \in States
    BY <1>0, <1>5 DEF Offline, LeaveSteps, EndSteps, FinishSteps
  <2>2. /\ work' \in [{"core", "ui"} -> Seq(Step)] /\ toxav' \in [Friends -> States]
        /\ events' \in 0 .. MaxEvents
        /\ UNCHANGED <<uiVars, toxcore_msg, boxVars, ctrlVars, audioVars, lost>>
    BY <1>1, <2>1, StepsTypes
  <2>3. /\ call_state_self' \in [Friends -> SUBSET {"A", "SV", "AV"}]
        /\ call_state_friend' \in [Friends -> SUBSET {"A", "V"}]
    BY <1>5, SetType DEF Offline, FriendTypes
  <2> QED
    BY <1>0, <1>5, <2>2, <2>3 DEF Offline, uiVars, boxVars, ctrlVars, audioVars,
       FriendTypes, UserTypes, PostTypes, ControlTypes, AudioTypes
<1> QED
  BY <1>2, <1>3, <1>4, <1>5 DEF CallbackStep

LEMMA EventType == ASSUME Types, Event PROVE events' \in 0 .. MaxEvents
BY CallsAssumption DEF CallsAssumption, Event, Types, UserTypes

LEMMA PressTypes == ASSUME Types, NEW m \in Messages(Commands), Press(m) PROVE Types'
<1> USE DEF Types
<1>1. pressed' \in AtMostOne(Messages(Commands)) /\ events' \in 0 .. MaxEvents
  BY OneType, EventType DEF Press
<1> QED
  BY <1>1 DEF Press, friendVars, boxVars, ctrlVars, audioVars,
     FriendTypes, UserTypes, PostTypes, ControlTypes, AudioTypes

\* What the UI thread posts is about no FRIEND.
LEMMA UIPostType ==
    ASSUME NEW m \in Orderable, NEW v \in BOOLEAN
    PROVE  <<Post(m, Nobody, v)>> \in Seq(Step)
<1>1. Post(m, Nobody, v) \in Step
  BY StepTypes
<1> QED
  BY <1>1, TupleTypes

LEMMA UITypes == ASSUME Types, UIStep PROVE Types'
<1> USE DEF Types
<1>1. ASSUME NEW f \in Friends, PressAudio(f) PROVE Types'
  <2>1. PICK c \in Commands : Press(Msg(c, f, FALSE))
    BY <1>1 DEF PressAudio, Commands
  <2>2. Msg(c, f, FALSE) \in Messages(Commands)
    BY DEF Msg, Messages
  <2> QED
    BY <2>1, <2>2, PressTypes
<1>2. ASSUME NEW f \in Friends, PressDecline(f) PROVE Types'
  <2>1. Msg("TOX_CALL_DISCONNECT", f, FALSE) \in Messages(Commands)
    BY DEF Msg, Messages, Commands
  <2> QED
    BY <1>2, <2>1, PressTypes DEF PressDecline
<1>3. ASSUME NEW f \in Friends, PressVideo(f) PROVE Types'
  <2>1. PICK c \in Commands : Press(Msg(c, f, TRUE))
    BY <1>3 DEF PressVideo, Commands
  <2>2. Msg(c, f, TRUE) \in Messages(Commands)
    BY DEF Msg, Messages
  <2> QED
    BY <2>1, <2>2, PressTypes
<1>4. ASSUME NEW same \in BOOLEAN, SelectAudioIn(same) PROVE Types'
  <2>1. <<Post("SET_AUDIO_IN", Nobody, same)>> \in Seq(Step)
    BY UIPostType DEF Orderable
  <2>2. work' \in [{"core", "ui"} -> Seq(Step)] /\ events' \in 0 .. MaxEvents
    BY <1>4, <2>1, WorkType, EventType DEF SelectAudioIn
  <2> QED
    BY <1>4, <2>2 DEF SelectAudioIn, friendVars, uiVars, boxVars, ctrlVars, audioVars,
       FriendTypes, UserTypes, PostTypes, ControlTypes, AudioTypes
<1>5. CASE PressGroup
  <2>1. PICK c \in Commands : Press(General(c))
    BY <1>5 DEF PressGroup, Commands
  <2>2. General(c) \in Messages(Commands)
    BY DEF General, Msg, Messages
  <2> QED
    BY <2>1, <2>2, PressTypes
<1>6. CASE PostCommand
  <2>1. /\ toxcore_msg' \in AtMostOne(Messages(Commands))
        /\ pressed' \in AtMostOne(Messages(Commands))
    BY <1>6 DEF PostCommand, UserTypes, AtMostOne
  <2> QED
    BY <1>6, <2>1 DEF PostCommand, friendVars, uiVars, boxVars, ctrlVars, audioVars, histVars,
       FriendTypes, UserTypes, PostTypes, ControlTypes, AudioTypes
<1>7. CASE PressPreview
  <2>1. PICK m \in Orderable : work' = [work EXCEPT !["ui"] = <<Post(m, Nobody, FALSE)>>]
    BY <1>7 DEF PressPreview, Orderable
  <2>2. <<Post(m, Nobody, FALSE)>> \in Seq(Step)
    BY UIPostType
  <2>3. work' \in [{"core", "ui"} -> Seq(Step)] /\ events' \in 0 .. MaxEvents
    BY <1>7, <2>1, <2>2, WorkType, EventType DEF PressPreview
  <2> QED
    BY <1>7, <2>3 DEF PressPreview, friendVars, uiVars, boxVars, ctrlVars, audioVars,
       FriendTypes, UserTypes, PostTypes, ControlTypes, AudioTypes
<1>8. CASE GroupMessage
  <2>1. PICK m \in Orderable : work' = [work EXCEPT !["ui"] = <<Post(m, Nobody, FALSE)>>]
    BY <1>8 DEF GroupMessage, Orderable
  <2>2. <<Post(m, Nobody, FALSE)>> \in Seq(Step)
    BY UIPostType
  <2>3. work' \in [{"core", "ui"} -> Seq(Step)]
    BY <1>8, <2>1, <2>2, WorkType
  <2>4. utox_msgs' \in Seq(Commands) /\ active_call' \in BOOLEAN
    BY <1>8, ElementsTail DEF GroupMessage, UserTypes
  <2> QED
    BY <1>8, <2>3, <2>4 DEF GroupMessage, friendVars, uiVars, boxVars, ctrlVars, audioVars,
       FriendTypes, UserTypes, PostTypes, ControlTypes, AudioTypes
<1> QED
  BY <1>1, <1>2, <1>3, <1>4, <1>5, <1>6, <1>7, <1>8 DEF UIStep

LEMMA PostingTypes == ASSUME Types, PostStep PROVE Types'
<1> USE DEF Types
<1>1. ASSUME NEW p \in {"core", "ui"}, SeeFlagDown(p) PROVE Types'
  BY <1>1 DEF SeeFlagDown, friendVars, uiVars, ctrlVars, audioVars, histVars,
     FriendTypes, UserTypes, PostTypes, ControlTypes, AudioTypes
<1>2. ASSUME NEW p \in {"core", "ui"}, WriteMessage(p) PROVE Types'
  <2>1. work[p] \in Seq(Step) /\ work[p] # <<>> /\ Head(work[p]).do = "post"
    BY <1>2 DEF WriteMessage, Posting, PostTypes
  <2>2. Head(work[p]) \in Step /\ Tail(work[p]) \in Seq(Step)
    BY <2>1, ElementsTail
  <2>3. Head(work[p]).arg \in Messages(Orderable)
    BY <2>1, <2>2 DEF Step, Others
  <2>4. work' \in [{"core", "ui"} -> Seq(Step)] /\ toxav_msg' \in AtMostOne(Messages(Orderable))
    BY <1>2, <2>2, <2>3, WorkType, OneType DEF WriteMessage
  <2> QED
    BY <1>2, <2>4 DEF WriteMessage, friendVars, uiVars, ctrlVars, audioVars,
       FriendTypes, UserTypes, PostTypes, ControlTypes, AudioTypes
<1>3. ASSUME NEW p \in {"core", "ui"}, GiveUp(p) PROVE Types'
  BY <1>3 DEF GiveUp, friendVars, uiVars, boxVars, ctrlVars, audioVars,
     FriendTypes, UserTypes, PostTypes, ControlTypes, AudioTypes
<1> QED
  BY <1>1, <1>2, <1>3 DEF PostStep

LEMMA OrdersType == ASSUME NEW m \in Orderable PROVE Orders(m) \in Seq(AudioSteps)
<1>1. ASSUME NEW a \in AudioSteps, NEW b \in AudioSteps, NEW c \in AudioSteps
      PROVE  <<a>> \in Seq(AudioSteps) /\ <<a, b>> \in Seq(AudioSteps)
             /\ <<a, b, c>> \in Seq(AudioSteps)
  OBVIOUS
<1>2. AudioOrders \cup {"state", "video_on", "video_off", "device"} = AudioSteps
  BY DEF AudioSteps
<1>3. CASE m \in {"INCOMING_CALL_ANSWER", "CALL_END"}
  <2>1. Orders(m) \in {<<"STOP_RINGTONE", "START_FRIEND", "state">>,
                       <<"video_off", "STOP_FRIEND", "STOP_RINGTONE">>}
    BY <1>3 DEF Orders
  <2> QED
    BY <1>1, <1>2, <2>1 DEF AudioOrders
<1>4. CASE m \in {"OUTGOING_CALL_PENDING", "OUTGOING_CALL_ACCEPTED"}
  <2>1. Orders(m) \in {<<"PLAY_RINGTONE", "state">>, <<"START_FRIEND", "STOP_RINGTONE">>}
    BY <1>4 DEF Orders
  <2> QED
    BY <1>1, <1>2, <2>1 DEF AudioOrders
<1>5. CASE m \notin {"INCOMING_CALL_ANSWER", "CALL_END", "OUTGOING_CALL_PENDING",
                    "OUTGOING_CALL_ACCEPTED"}
  <2>1. \E a \in AudioSteps : Orders(m) = <<a>>
    BY <1>2, <1>5 DEF Orders, Orderable, AudioOrders
  <2> QED
    BY <1>1, <2>1
<1> QED
  BY <1>3, <1>4, <1>5

LEMMA ControlStepTypes == ASSUME Types, ControlStep PROVE Types'
<1> USE DEF Types
<1>1. CASE TakeMessage
  <2>1. Head(toxav_msg) \in Messages(Orderable)
    BY <1>1, OneHead DEF TakeMessage, PostTypes
  <2>2. Head(toxav_msg).msg \in Orderable /\ now' \in Messages(Orderable \cup {"none"})
    BY <1>1, <2>1 DEF TakeMessage, Messages
  <2>3. orders' \in Seq(AudioSteps)
    BY <1>1, <2>2, OrdersType DEF TakeMessage
  <2>4. call_count' \in 0 .. CountModulus - 1
    <3>1. Added(Head(toxav_msg).msg) \in Int
      BY DEF Added
    <3>2. CountModulus \in Nat /\ CountModulus > 0 /\ call_count \in Int
      BY CallsAssumption DEF CallsAssumption, ControlTypes
    <3>3. \A n \in Int : n % CountModulus \in 0 .. CountModulus - 1
      BY <3>2
    <3> QED
      BY <1>1, <3>1, <3>2, <3>3 DEF TakeMessage, ControlTypes
  <2>5. odd' \subseteq {"resumed", "twice", "refused", "failed"}
    BY <1>1 DEF TakeMessage, UserTypes
  <2> QED
    BY <1>1, <2>2, <2>3, <2>4, <2>5 DEF TakeMessage, friendVars, uiVars, boxVars, audioVars,
       FriendTypes, UserTypes, PostTypes, ControlTypes, AudioTypes
<1>2. CASE NoMessage
  BY <1>2 DEF NoMessage, friendVars, uiVars, boxVars, audioVars, histVars,
     FriendTypes, UserTypes, PostTypes, ControlTypes, AudioTypes
<1>3. ASSUME orders # <<>>
      PROVE  /\ Tail(orders) \in Seq(AudioSteps)
             /\ now.friend \in Friends \cup {Nobody}
  BY <1>3, ElementsTail DEF ControlTypes, Messages
<1>4. CASE PostAudio
  <2>1. Msg(Head(orders), now.friend, FALSE) \in Messages(AudioOrders)
    BY <1>3, <1>4 DEF PostAudio, Ordered, Msg, Messages
  <2>2. audio_msg' \in AtMostOne(Messages(AudioOrders)) /\ orders' \in Seq(AudioSteps)
    BY <1>3, <1>4, <2>1, OneType DEF PostAudio, Ordered
  <2> QED
    BY <1>4, <2>2 DEF PostAudio, friendVars, uiVars, boxVars, histVars,
       FriendTypes, UserTypes, PostTypes, ControlTypes, AudioTypes
<1>5. CASE GiveUpAudio
  BY <1>5 DEF GiveUpAudio, friendVars, uiVars, boxVars, ctrlVars, audioVars,
     FriendTypes, UserTypes, PostTypes, ControlTypes, AudioTypes
<1>6. CASE SetState
  <2>1. call_state_self' \in [Friends -> SUBSET {"A", "SV", "AV"}]
    BY <1>6, SetType DEF SetState, FriendTypes
  <2>2. video_active' \in BOOLEAN
    BY <1>6 DEF SetState
  <2> QED
    BY <1>3, <1>6, <2>1, <2>2 DEF SetState, Ordered, uiVars, boxVars, audioVars, histVars,
       FriendTypes, UserTypes, PostTypes, ControlTypes, AudioTypes
<1>7. CASE SwitchVideo
  <2>1. video_active' \in BOOLEAN
    BY <1>7 DEF SwitchVideo
  <2> QED
    BY <1>3, <1>7, <2>1 DEF SwitchVideo, Ordered, friendVars, uiVars, boxVars, audioVars, histVars,
       FriendTypes, UserTypes, PostTypes, ControlTypes, AudioTypes
<1>8. CASE SetAudioIn
  <2>1. call_count' \in 0 .. CountModulus - 1
    BY <1>8, CallsAssumption DEF SetAudioIn, ControlTypes, CallsAssumption
  <2> QED
    BY <1>3, <1>8, <2>1 DEF SetAudioIn, Ordered, friendVars, uiVars, boxVars, audioVars, histVars,
       FriendTypes, UserTypes, PostTypes, ControlTypes, AudioTypes
<1>9. CASE Lower
  <2>1. /\ now' \in Messages(Orderable \cup {"none"}) /\ lost' \in BOOLEAN
        /\ toxav_msg' \in AtMostOne(Messages(Orderable))
    BY <1>9 DEF Lower, General, Msg, Messages, AtMostOne
  <2> QED
    BY <1>9, <2>1 DEF Lower, friendVars, uiVars, audioVars,
       FriendTypes, UserTypes, PostTypes, ControlTypes, AudioTypes
<1> QED
  BY <1>1, <1>2, <1>4, <1>5, <1>6, <1>7, <1>8, <1>9 DEF ControlStep

LEMMA AudioStepTypes == ASSUME Types, AudioStep PROVE Types'
<1> USE DEF Types
<1>1. audio_msg' \in AtMostOne(Messages(AudioOrders))
  BY DEF AudioStep, StartFriend, StopFriend, StartOther, StopOther, Ring, Heard, AtMostOne
<1>2. microphone_count' \in Nat /\ audio_in_open' \in BOOLEAN
  <2>0. microphone_count \in Nat /\ audio_in_open \in BOOLEAN
    BY DEF AudioTypes
  <2>1. CASE StartFriend \/ StartOther
    <3>1. Listen
      BY <2>1 DEF StartFriend, StartOther
    <3> QED
      BY <2>0, <3>1 DEF Listen
  <2>2. CASE StopFriend \/ StopOther
    <3>1. Ignore
      BY <2>2 DEF StopFriend, StopOther
    <3> QED
      BY <2>0, <3>1 DEF Ignore
  <2>3. CASE Ring
    BY <2>0, <2>3 DEF Ring
  <2> QED
    BY <2>1, <2>2, <2>3 DEF AudioStep
<1>3. audio_dest' \in [Friends -> BOOLEAN]
  <2>1. CASE StartFriend \/ StopFriend
    <3>1. PICK b \in BOOLEAN : audio_dest' = Set(audio_dest, Head(audio_msg).friend, b)
      BY <2>1 DEF StartFriend, StopFriend
    <3> QED
      BY <3>1, SetType DEF FriendTypes
  <2>2. CASE StartOther \/ StopOther \/ Ring
    BY <2>2 DEF StartOther, StopOther, Ring, FriendTypes
  <2> QED
    BY <2>1, <2>2 DEF AudioStep
<1>4. ringtone' \in BOOLEAN
  BY DEF AudioStep, StartFriend, StopFriend, StartOther, StopOther, Ring, AudioTypes
<1>5. UNCHANGED <<toxav, friendVars, uiVars, toxcore_msg, boxVars, work, ctrlVars, histVars>>
  BY DEF AudioStep, StartFriend, StopFriend, StartOther, StopOther, Ring
<1> QED
  BY <1>1, <1>2, <1>3, <1>4, <1>5 DEF friendVars, uiVars, boxVars, ctrlVars, histVars,
     FriendTypes, UserTypes, PostTypes, ControlTypes, AudioTypes

LEMMA TypesInit == Init => Types
<1> SUFFICES ASSUME Init PROVE Types
  OBVIOUS
<1>1. /\ toxav \in [Friends -> {"none", "in", "out", "active"}]
      /\ call_state_self \in [Friends -> SUBSET {"A", "SV", "AV"}]
      /\ call_state_friend \in [Friends -> SUBSET {"A", "V"}]
      /\ audio_dest \in [Friends -> BOOLEAN] /\ work \in [{"core", "ui"} -> Seq(Step)]
  BY DEF Init
<1>2. utox_msgs \in Seq(Commands) /\ orders \in Seq(AudioSteps)
  BY DEF Init
<1>3. /\ pressed \in AtMostOne(Messages(Commands)) /\ toxcore_msg \in AtMostOne(Messages(Commands))
      /\ toxav_msg \in AtMostOne(Messages(Orderable)) /\ audio_msg \in AtMostOne(Messages(AudioOrders))
  BY DEF Init, AtMostOne
<1>4. now \in Messages(Orderable \cup {"none"})
  BY DEF Init, General, Msg, Messages
<1>5. call_count \in 0 .. CountModulus - 1 /\ events \in 0 .. MaxEvents /\ microphone_count \in Nat
  BY CallsAssumption DEF Init, CallsAssumption
<1> QED
  BY <1>1, <1>2, <1>3, <1>4, <1>5 DEF Init, Types, FriendTypes, UserTypes, PostTypes, ControlTypes,
     AudioTypes

LEMMA TypesNext == Types /\ [Next]_vars => Types'
<1> SUFFICES ASSUME Types, [Next]_vars PROVE Types'
  OBVIOUS
<1>1. CASE UNCHANGED vars
  BY <1>1 DEF vars, friendVars, uiVars, boxVars, ctrlVars, audioVars, histVars, Types,
     FriendTypes, UserTypes, PostTypes, ControlTypes, AudioTypes
<1> QED
  BY <1>1, CommandTypes, CallbackTypes, UITypes, PostingTypes, ControlStepTypes, AudioStepTypes DEF Next

-----------------------------------------------------------------------------
(* What is on its way *)

\* What the toxcore thread has still to do; a message that is about the source
\* of a FRIEND, or sets his state.
Todo == Elements(work["core"])
Starts == {"INCOMING_CALL_ANSWER", "OUTGOING_CALL_ACCEPTED"}
Says(m, f) == m.friend = f /\ m.msg \in Starts \cup {"CALL_END"}
PostsAbout(s, f) == s.do = "post" /\ Says(s.arg, f)
Sets(m, f) == m.friend = f /\ m.msg \in {"INCOMING_CALL_ANSWER", "OUTGOING_CALL_PENDING"}

\* A message that the control thread has not taken yet.
Waiting == pc # "work" /\ toxav_msg # <<>>

\* Whether a FRIEND has a source once the audio thread has heard its message,
\* the control thread has done what it has to do, and has taken the next one.
HeardAbout(f) ==
    /\ audio_msg # <<>> /\ Head(audio_msg).friend = f
    /\ Head(audio_msg).msg \in {"START_FRIEND", "STOP_FRIEND"}
AfterAudio(f) ==
    IF HeardAbout(f) THEN Head(audio_msg).msg = "START_FRIEND" ELSE audio_dest[f] = TRUE
AfterOrders(f) ==
    IF now.friend = f /\ ("START_FRIEND" \in Elements(orders) \/ "STOP_FRIEND" \in Elements(orders))
    THEN "START_FRIEND" \in Elements(orders) ELSE AfterAudio(f)
AfterMessage(f) ==
    IF Waiting /\ Says(Head(toxav_msg), f) THEN Head(toxav_msg).msg \in Starts ELSE AfterOrders(f)

\* Every message to come says of a FRIEND what toxav does, and without one
\* what is on its way already does so.
SourceFollows(f) ==
    /\ \A s \in Todo : PostsAbout(s, f) => (s.arg.msg \in Starts <=> toxav[f] = "active")
    /\ (\A s \in Todo : ~PostsAbout(s, f)) => (AfterMessage(f) <=> toxav[f] = "active")
SourcesFollow == Up => \A f \in Friends : SourceFollows(f)

\* A call is placed at the end of its command, with nothing else to do.
Placing ==
    \E f \in Friends, v \in BOOLEAN :
      work["core"] \in {<<Post("OUTGOING_CALL_PENDING", f, v), Do("call", f, v), Do("done", f, v)>>,
                       <<Do("call", f, v), Do("done", f, v)>>}
CallShape == (\E s \in Todo : s.do = "call") => Placing
ClearShape == \A s \in Todo : s.do = "clear" => toxav[s.arg.friend] = "none"
UIShape == \A s \in Elements(work["ui"]) : s.arg.friend = Nobody
OneSource == ~("START_FRIEND" \in Elements(orders) /\ "STOP_FRIEND" \in Elements(orders))
NowShape == pc # "work" => now = General("none")
TakenShape == (Up /\ pc = "work") => toxav_msg # <<>>
Shapes == CallShape /\ ClearShape /\ UIShape /\ OneSource /\ NowShape /\ TakenShape

\* What a FRIEND says of a call that comes in, and of none.
FriendShown(f) ==
    /\ toxav[f] = "in" => call_state_friend[f] # {}
    /\ toxav[f] \in {"none", "out"} =>
         call_state_friend[f] = {} \/ \E s \in Todo : s.do = "clear" /\ s.arg.friend = f
    /\ call_state_self[f] # {"SV"}
FriendsShown == \A f \in Friends : FriendShown(f)

\* The state of a call the user made or took is set, or will be.
StateComes(f) ==
    \/ \E s \in Todo : s.do = "post" /\ Sets(s.arg, f)
    \/ Waiting /\ Sets(Head(toxav_msg), f)
    \/ now.friend = f /\ "state" \in Elements(orders)
Called(f) == toxav[f] \in {"out", "active"} \/ \E s \in Todo : s.do = "call" /\ s.arg.friend = f
SelfShown(f) == Called(f) => call_state_self[f] # {} \/ StateComes(f)
SelvesShown == Up => \A f \in Friends : SelfShown(f)

Inv == Types /\ Shapes /\ SourcesFollow /\ FriendsShown /\ SelvesShown

-----------------------------------------------------------------------------
(* What is on, and what for *)

\* As long as nothing odd has happened.
Plain == Up /\ odd = {}

\* The UI posts one message at a time, and of those only; a source is started
\* at the end of a handler, for a FRIEND; an order is given once.
UserMessages == {"GROUPCALL_START", "GROUPCALL_END", "START_AUDIO", "STOP_AUDIO", "SET_AUDIO_IN"}
IsStart(s) == s.do = "post" /\ s.arg.msg \in Starts
StartsLast(w) == \A i, j \in DOMAIN w : i < j /\ IsStart(w[i]) => w[j].do = "done"
Once(w) == \A i, j \in DOMAIN w : w[i] = w[j] => i = j
UIMessages ==
    \/ work["ui"] = <<>>
    \/ \E m \in UserMessages, v \in BOOLEAN : work["ui"] = <<Post(m, Nobody, v)>>
Arranged ==
    /\ StartsLast(work["core"]) /\ Once(orders) /\ UIMessages
    /\ pc # "work" => orders = <<>>
    /\ \A s \in Todo : s.do = "post" => s.arg.msg \notin UserMessages /\ s.arg.friend \in Friends
    /\ Waiting /\ Head(toxav_msg).msg \in Starts => Head(toxav_msg).friend \in Friends
    /\ "START_FRIEND" \in Elements(orders) => now.friend \in Friends
    /\ audio_msg # <<>> /\ Head(audio_msg).msg = "START_FRIEND" => Head(audio_msg).friend \in Friends

\* The camera and the ringtone: what turns them on and off, and for whom.
Signals == {"camera", "ringtone"}
On(k, m) ==
    IF k = "camera"
    THEN m.msg = "START_VIDEO" \/ (m.msg \in {"INCOMING_CALL_ANSWER", "OUTGOING_CALL_PENDING"} /\ m.video)
    ELSE m.msg \in {"INCOMING_CALL_PENDING", "OUTGOING_CALL_PENDING"}
Off(k, m) ==
    IF k = "camera" THEN m.msg \in {"STOP_VIDEO", "CALL_END"} ELSE m.msg \in Starts \cup {"CALL_END"}
Cause(k, f) == Called(f) \/ (k = "ringtone" /\ toxav[f] = "in")

\* Whether one is on once the audio thread has heard its message, the control
\* thread has done what it has to do, and has taken the next message.
IsOn(k) ==
    IF k = "camera" THEN video_active = TRUE
    ELSE IF audio_msg # <<>> /\ Head(audio_msg).msg \in {"PLAY_RINGTONE", "STOP_RINGTONE"}
         THEN Head(audio_msg).msg = "PLAY_RINGTONE" ELSE ringtone = TRUE
OrdersOn(k) ==
    IF k = "camera"
    THEN "video_on" \in Elements(orders) \/ ("state" \in Elements(orders) /\ now.video)
    ELSE "PLAY_RINGTONE" \in Elements(orders)
OrdersOff(k) == (IF k = "camera" THEN "video_off" ELSE "STOP_RINGTONE") \in Elements(orders)
OnAfterOrders(k) == OrdersOn(k) \/ (IsOn(k) /\ ~OrdersOff(k))
OnAfterMessage(k) ==
    IF Waiting THEN On(k, Head(toxav_msg)) \/ (OnAfterOrders(k) /\ ~Off(k, Head(toxav_msg)))
    ELSE OnAfterOrders(k)

\* It is turned on for a call that toxav has, and is on for one or will be off.
HasCause(k) ==
    /\ \A s \in Todo : s.do = "post" /\ On(k, s.arg) => Cause(k, s.arg.friend)
    /\ (\A s \in Todo : s.do = "post" => ~Off(k, s.arg)) /\ OnAfterMessage(k)
         => \E f \in Friends : Cause(k, f)
SignalsCaused == Plain => \A k \in Signals : HasCause(k)

\* A source is started only for a FRIEND who has none.
Fresh(f) ==
    /\ \A s \in Todo : PostsAbout(s, f) /\ s.arg.msg \in Starts => ~AfterMessage(f)
    /\ Waiting /\ Says(Head(toxav_msg), f) /\ Head(toxav_msg).msg \in Starts => ~AfterOrders(f)
    /\ now.friend = f /\ "START_FRIEND" \in Elements(orders) => ~AfterAudio(f)
    /\ HeardAbout(f) /\ Head(audio_msg).msg = "START_FRIEND" => audio_dest[f] = FALSE
StartsFresh == Plain => \A f \in Friends : Fresh(f)

\* The group's and the user's own use of the microphone: whether it is in use
\* before the UI's message, the control thread's next one, its orders, and the
\* audio thread's message have arrived; TRUE where the code does not say.
Uses == {"group", "preview"}
Begin(k) == IF k = "group" THEN "GROUPCALL_START" ELSE "START_AUDIO"
End(k) == IF k = "group" THEN "GROUPCALL_END" ELSE "STOP_AUDIO"
BeginOrder(k) == IF k = "group" THEN "GROUPCHAT_START" ELSE "START_PREVIEW"
EndOrder(k) == IF k = "group" THEN "GROUPCHAT_STOP" ELSE "STOP_PREVIEW"
UIHas(m) == work["ui"] # <<>> /\ Head(work["ui"]).arg.msg = m
BoxHas(m) == Waiting /\ Head(toxav_msg).msg = m
OrdersHave(o) == o \in Elements(orders)
AudioHas(o) == audio_msg # <<>> /\ Head(audio_msg).msg = o
Used(k) == (IF k = "group" THEN active_call ELSE audio_preview) = TRUE
BeforeUI(k) == ~UIHas(Begin(k)) /\ (UIHas(End(k)) \/ Used(k))
BeforeMessage(k) == ~BoxHas(Begin(k)) /\ (BoxHas(End(k)) \/ BeforeUI(k))
BeforeOrders(k) == ~OrdersHave(BeginOrder(k)) /\ (OrdersHave(EndOrder(k)) \/ BeforeMessage(k))
BeforeAudio(k) == ~AudioHas(BeginOrder(k)) /\ (AudioHas(EndOrder(k)) \/ BeforeOrders(k))

\* A use that begins goes on behind its message.
UseBegins(k) ==
    /\ UIHas(Begin(k)) => Used(k)
    /\ BoxHas(Begin(k)) => BeforeUI(k)
    /\ OrdersHave(BeginOrder(k)) => BeforeMessage(k)
    /\ AudioHas(BeginOrder(k)) => BeforeOrders(k)
UsesBegin == Plain => \A k \in Uses : UseBegins(k)

\* The microphone is counted at most once for each source and each use.
Listened == {f \in Friends : audio_dest[f] = TRUE}
N(b) == IF b THEN 1 ELSE 0
Bounded ==
    /\ IsFiniteSet(Listened)
    /\ Plain => microphone_count <= Cardinality(Listened) + N(BeforeAudio("group"))
                                   + N(BeforeAudio("preview"))

Causes == Arranged /\ SignalsCaused /\ StartsFresh /\ UsesBegin /\ Bounded

-----------------------------------------------------------------------------
(* The handlers of the toxcore thread *)

\* What a handler does for one FRIEND, and leaves to do for him.
Handles(f) ==
    /\ Up /\ Todo = {}
    /\ UNCHANGED <<pc, now, orders, toxav_msg, audio_msg, audio_dest, lost>>
    /\ work'["ui"] = work["ui"]
    /\ \A g \in Friends \ {f} :
         /\ toxav'[g] = toxav[g] /\ call_state_self'[g] = call_state_self[g]
         /\ call_state_friend'[g] = call_state_friend[g]
    /\ \A s \in Todo' : s.do # "done" => s.arg.friend = f
    /\ \A s \in Todo' : PostsAbout(s, f) => (s.arg.msg \in Starts <=> toxav'[f] = "active")
    /\ (\A s \in Todo' : ~PostsAbout(s, f)) => (toxav'[f] = "active" <=> toxav[f] = "active")
    /\ \A s \in Todo' : s.do = "clear" => toxav'[f] = "none"
    /\ CallShape'
    /\ FriendShown(f)'
    /\ Called(f)' =>
         \/ toxav[f] \in {"out", "active"} /\ call_state_self'[f] = call_state_self[f]
         \/ \E s \in Todo' : s.do = "post" /\ Sets(s.arg, f)

\* ... and for the devices: what it has them turned on for is a call, and when it
\* ends a call it says so.
Ends(f) == \E s \in Todo : s.do = "post" /\ s.arg.msg = "CALL_END"
Leaves(f) ==
    /\ UNCHANGED <<video_active, ringtone, microphone_count, audio_preview, active_call>>
    /\ odd \subseteq odd' /\ StartsLast(work'["core"])
    /\ \A s \in Todo' : s.do = "post" =>
         /\ s.arg.msg \notin UserMessages
         /\ s.arg.msg \in {"START_VIDEO", "INCOMING_CALL_ANSWER", "OUTGOING_CALL_PENDING"}
              => Called(f)'
         /\ s.arg.msg = "INCOMING_CALL_PENDING" => toxav'[f] = "in"
    /\ \/ Ends(f)'
       \/ /\ Called(f) => Called(f)'
          /\ toxav[f] = "in" => toxav'[f] = "in" \/ Called(f)'
    /\ (\E s \in Todo' : IsStart(s)) => toxav[f] # "active" \/ odd' # {}

LEMMA HandlesInv == ASSUME Inv, NEW f \in Friends, Handles(f), Types' PROVE Inv'
<1>1. Up /\ Up'
  BY DEF Handles, Up
<1>2. \A g : AfterMessage(g)' <=> AfterMessage(g)
  BY DEF Handles, AfterMessage, AfterOrders, AfterAudio, HeardAbout, Waiting
<1>3. ASSUME NEW g \in Friends PROVE SourceFollows(g)'
  <2>1. AfterMessage(g) <=> toxav[g] = "active"
    BY <1>1 DEF Inv, SourcesFollow, SourceFollows, Handles
  <2>2. CASE g = f
    BY <1>2, <2>1, <2>2 DEF Handles, SourceFollows
  <2>3. CASE g # f
    <3>1. \A s \in Todo' : ~PostsAbout(s, g)
      BY <2>3 DEF Handles, PostsAbout, Says
    <3>2. toxav'[g] = toxav[g]
      BY <2>3 DEF Handles
    <3> QED
      BY <1>2, <2>1, <3>1, <3>2 DEF SourceFollows
  <2> QED
    BY <2>2, <2>3
<1>4. ASSUME NEW g \in Friends PROVE FriendShown(g)'
  <2>1. CASE g = f
    BY <2>1 DEF Handles
  <2>2. CASE g # f
    BY <2>2 DEF Handles, Inv, FriendsShown, FriendShown
  <2> QED
    BY <2>1, <2>2
<1>5. ASSUME NEW g \in Friends PROVE SelfShown(g)'
  <2>1. SelfShown(g)
    BY <1>1 DEF Inv, SelvesShown
  <2>2. StateComes(g) => StateComes(g)'
    BY DEF Handles, StateComes, Waiting
  <2>3. CASE g = f
    BY <2>1, <2>2, <2>3 DEF Handles, SelfShown, Called, StateComes
  <2>4. CASE g # f
    BY <2>1, <2>2, <2>4 DEF Handles, SelfShown, Called
  <2> QED
    BY <2>3, <2>4
<1>6. Shapes'
  BY DEF Handles, Inv, Shapes, ClearShape, UIShape, OneSource, NowShape, TakenShape, Up
<1> QED
  BY <1>3, <1>4, <1>5, <1>6 DEF Inv, SourcesFollow, FriendsShown, SelvesShown

\* A command or a callback begins with nothing left to do, and leaves the
\* messages on their way alone.
LEMMA CommandBegins ==
    ASSUME NEW c, NEW f, NEW v, NEW call, NEW steps, Types, Command(c, f, v, call, steps),
           f \in Friends \cup {Nobody}, v \in BOOLEAN, call \in States, steps \in Seq(Step)
    PROVE  /\ Up /\ Todo = {} /\ Todo' = Elements(steps) \cup {Do("done", f, v)}
           /\ work'["ui"] = work["ui"]
           /\ \A g \in Friends : toxav'[g] = IF g = f THEN call ELSE toxav[g]
<1>1. work["core"] = <<>> /\ Up
  BY DEF Command, CoreIdle
<1>2. Todo = {}
  BY <1>1, ElementsTuples DEF Todo
<1>3. /\ Elements(work'["core"]) = Elements(steps) \cup {Do("done", f, v)}
      /\ work'["ui"] = work["ui"]
  BY CommandSteps
<1>4. \A g \in Friends : toxav'[g] = IF g = f THEN call ELSE toxav[g]
  BY DEF Command, Set
<1> QED
  BY <1>1, <1>2, <1>3, <1>4 DEF Todo

LEMMA CallbackBegins ==
    ASSUME NEW f, NEW call, NEW steps, Types, Callback(f, call, steps),
           f \in Friends, call \in States, steps \in Seq(Step)
    PROVE  /\ Up /\ Todo = {} /\ work'["core"] = steps /\ Todo' = Elements(steps)
           /\ work'["ui"] = work["ui"]
           /\ \A g \in Friends : toxav'[g] = IF g = f THEN call ELSE toxav[g]
           /\ UNCHANGED <<pc, now, orders, toxav_msg, audio_msg, audio_dest, lost>>
<1>1. work["core"] = <<>> /\ Up
  BY DEF Callback, CoreIdle
<1>2. Todo = {}
  BY <1>1, ElementsTuples DEF Todo
<1>3. UNCHANGED <<pc, now, orders, toxav_msg, audio_msg, audio_dest, lost>>
  BY DEF Callback, boxVars, ctrlVars, audioVars
<1> QED
  BY <1>1, <1>2, <1>3, CallbackSteps DEF Todo, Types, PostTypes, Set

LEMMA StepsElements ==
    ASSUME NEW f \in Friends, NEW v \in BOOLEAN, NEW agreed \in BOOLEAN, NEW state
    PROVE  /\ Elements(SendSteps(f, v))
                = {Post("OUTGOING_CALL_PENDING", f, v), Do("call", f, v)}
           /\ Elements(AnswerSteps(f, v))
                = IF toxav[f] = "in" THEN {Post("INCOMING_CALL_ANSWER", f, v)} ELSE {}
           /\ Elements(PauseSteps(f, agreed))
                \subseteq {Post("STOP_VIDEO", f, FALSE), Do("hide", f, TRUE)}
           /\ Elements(ResumeSteps(f, agreed))
                \subseteq {Post("START_VIDEO", f, FALSE), Do("show", f, TRUE)}
           /\ Post("START_VIDEO", f, FALSE) \in Elements(ResumeSteps(f, agreed)) => agreed = TRUE
           /\ Elements(EndSteps(f)) = {Post("CALL_END", f, FALSE)}
           /\ Elements(FinishSteps(f)) = {Post("CALL_END", f, FALSE), Do("clear", f, FALSE)}
           /\ Elements(LeaveSteps(f))
                \subseteq {Post("CALL_END", f, FALSE), Do("clear", f, FALSE)}
           /\ Post("CALL_END", f, FALSE) \in Elements(LeaveSteps(f))
           /\ Elements(AcceptSteps(f, state, agreed))
                \subseteq {Post("STOP_VIDEO", f, FALSE), Do("hide", f, TRUE),
                           Post("OUTGOING_CALL_ACCEPTED", f, FALSE)}
           /\ call_state_friend[f] = {} =>
                Post("OUTGOING_CALL_ACCEPTED", f, FALSE) \in Elements(AcceptSteps(f, state, agreed))
<1>1. /\ Elements(<<>>) = {} /\ \A a : Elements(<<a>>) = {a}
      /\ \A a, b : Elements(<<a, b>>) = {a, b}
  BY ElementsTuples
<1>2. /\ Elements(SendSteps(f, v)) = {Post("OUTGOING_CALL_PENDING", f, v), Do("call", f, v)}
      /\ Elements(AnswerSteps(f, v))
           = IF toxav[f] = "in" THEN {Post("INCOMING_CALL_ANSWER", f, v)} ELSE {}
      /\ Elements(PauseSteps(f, agreed))
           \subseteq {Post("STOP_VIDEO", f, FALSE), Do("hide", f, TRUE)}
      /\ Elements(StartSteps(f, agreed)) = IF agreed THEN {Post("START_VIDEO", f, FALSE)} ELSE {}
      /\ Elements(EndSteps(f)) = {Post("CALL_END", f, FALSE)}
      /\ Elements(FinishSteps(f)) = {Post("CALL_END", f, FALSE), Do("clear", f, FALSE)}
  BY <1>1 DEF SendSteps, AnswerSteps, PauseSteps, StartSteps, EndSteps, FinishSteps
<1>3. /\ StartSteps(f, agreed) \in Seq(Step) /\ EndSteps(f) \in Seq(Step)
      /\ FinishSteps(f) \in Seq(Step)
  BY StepsTypes
<1>4. Do("show", f, TRUE) \in Step
  BY StepTypes DEF Others
<1>5. <<Do("show", f, TRUE)>> \in Seq(Step) /\ <<>> \in Seq(Step)
  BY <1>4, TupleTypes
<1>6. /\ Elements(ResumeSteps(f, agreed)) \subseteq {Post("START_VIDEO", f, FALSE), Do("show", f, TRUE)}
      /\ Post("START_VIDEO", f, FALSE) \in Elements(ResumeSteps(f, agreed)) => agreed = TRUE
  <2>1. Elements(StartSteps(f, agreed) \o <<Do("show", f, TRUE)>>)
          = Elements(StartSteps(f, agreed)) \cup Elements(<<Do("show", f, TRUE)>>)
    BY <1>3, <1>5, ElementsJoined
  <2>2. Elements(<<Do("show", f, TRUE)>>) = {Do("show", f, TRUE)}
    BY <1>1
  <2>3. Elements(StartSteps(f, agreed)) = IF agreed THEN {Post("START_VIDEO", f, FALSE)} ELSE {}
    BY <1>2
  <2>4. Post("START_VIDEO", f, FALSE) # Do("show", f, TRUE)
    BY DEF Post, Do
  <2> QED
    BY <2>1, <2>2, <2>3, <2>4 DEF ResumeSteps
<1>7. /\ Elements(LeaveSteps(f)) \subseteq {Post("CALL_END", f, FALSE), Do("clear", f, FALSE)}
      /\ Post("CALL_END", f, FALSE) \in Elements(LeaveSteps(f))
  <2> DEFINE more == IF toxav[f] = "none" THEN <<>> ELSE FinishSteps(f)
  <2>1. more \in Seq(Step) /\ Elements(more) \subseteq Elements(FinishSteps(f))
    BY <1>1, <1>3, <1>5
  <2> HIDE DEF more
  <2>2. Elements(EndSteps(f) \o more) = Elements(EndSteps(f)) \cup Elements(more)
    BY <1>3, <2>1, ElementsJoined
  <2> QED
    BY <1>2, <2>1, <2>2 DEF LeaveSteps, more
<1>8. /\ Elements(AcceptSteps(f, state, agreed))
           \subseteq {Post("STOP_VIDEO", f, FALSE), Do("hide", f, TRUE),
                      Post("OUTGOING_CALL_ACCEPTED", f, FALSE)}
      /\ call_state_friend[f] = {} =>
           Post("OUTGOING_CALL_ACCEPTED", f, FALSE) \in Elements(AcceptSteps(f, state, agreed))
  <2> DEFINE first == IF agreed /\ "SV" \in call_state_self[f] /\ "V" \notin state
                      THEN <<Post("STOP_VIDEO", f, FALSE), Do("hide", f, TRUE)>> ELSE <<>>
             last == <<Post("OUTGOING_CALL_ACCEPTED", f, FALSE)>>
  <2>1. /\ Post("STOP_VIDEO", f, FALSE) \in Step /\ Do("hide", f, TRUE) \in Step
        /\ Post("OUTGOING_CALL_ACCEPTED", f, FALSE) \in Step
    BY StepTypes DEF Orderable, Others
  <2>2. /\ first \in Seq(Step) /\ last \in Seq(Step)
        /\ Elements(first) \subseteq {Post("STOP_VIDEO", f, FALSE), Do("hide", f, TRUE)}
        /\ Elements(last) = {Post("OUTGOING_CALL_ACCEPTED", f, FALSE)}
    BY <1>1, <2>1, TupleTypes
  <2> HIDE DEF first, last
  <2>3. Elements(first \o last) = Elements(first) \cup Elements(last)
    BY <2>2, ElementsJoined, ZenonT(30)
  <2>4. Accept(f, state, agreed) = first \o last
    BY DEF Accept, first, last
  <2> QED
    BY <1>1, <2>2, <2>3, <2>4 DEF AcceptSteps
<1> QED
  BY <1>2, <1>6, <1>7, <1>8

LEMMA NoStarts ==
    ASSUME NEW w, \A s \in Elements(w) : ~IsStart(s) PROVE StartsLast(w)
BY DEF Elements, StartsLast

LEMMA OneStart == ASSUME NEW a PROVE StartsLast(<<a>>) /\ StartsLast(<<>>)
BY DEF StartsLast

LEMMA JoinedStarts ==
    ASSUME NEW s \in Seq(Step), NEW t \in Seq(Step), StartsLast(s), StartsLast(t),
           (\A x \in Elements(s) : ~IsStart(x)) \/ (\A x \in Elements(t) : x.do = "done")
    PROVE  StartsLast(s \o t)
<1>1. /\ Len(s) \in Nat /\ Len(t) \in Nat /\ DOMAIN s = 1 .. Len(s) /\ DOMAIN t = 1 .. Len(t)
      /\ DOMAIN (s \o t) = 1 .. (Len(s) + Len(t))
      /\ \A i \in 1 .. (Len(s) + Len(t)) :
           (s \o t)[i] = IF i <= Len(s) THEN s[i] ELSE t[i - Len(s)]
  OBVIOUS
<1> SUFFICES ASSUME NEW i \in 1 .. (Len(s) + Len(t)), NEW j \in 1 .. (Len(s) + Len(t)),
                    i < j, IsStart((s \o t)[i])
             PROVE  (s \o t)[j].do = "done"
  BY <1>1 DEF StartsLast
<1>2. CASE j <= Len(s)
  BY <1>1, <1>2 DEF StartsLast
<1>3. CASE i > Len(s)
  <2>1. i - Len(s) \in DOMAIN t /\ j - Len(s) \in DOMAIN t /\ i - Len(s) < j - Len(s)
    BY <1>1, <1>3
  <2>2. (s \o t)[i] = t[i - Len(s)] /\ (s \o t)[j] = t[j - Len(s)]
    BY <1>1, <1>3
  <2> QED
    BY <2>1, <2>2 DEF StartsLast
<1>4. CASE i <= Len(s) /\ j > Len(s)
  <2>1. /\ i \in DOMAIN s /\ (s \o t)[i] = s[i]
        /\ j - Len(s) \in DOMAIN t /\ (s \o t)[j] = t[j - Len(s)]
    BY <1>1, <1>4
  <2>2. s[i] \in Elements(s) /\ t[j - Len(s)] \in Elements(t)
    BY <2>1 DEF Elements
  <2> QED
    BY <2>1, <2>2
<1> QED
  BY <1>1, <1>2, <1>3, <1>4

LEMMA StartsTail ==
    ASSUME NEW w \in Seq(Step), w # <<>>, StartsLast(w)
    PROVE  /\ StartsLast(Tail(w))
           /\ IsStart(Head(w)) => \A s \in Elements(Tail(w)) : s.do = "done"
<1>1. /\ Len(w) \in Nat \ {0} /\ DOMAIN w = 1 .. Len(w) /\ Head(w) = w[1]
      /\ DOMAIN Tail(w) = 1 .. (Len(w) - 1)
      /\ \A i \in 1 .. (Len(w) - 1) : Tail(w)[i] = w[i + 1]
  OBVIOUS
<1>2. ASSUME NEW i \in 1 .. (Len(w) - 1) PROVE i + 1 \in 1 .. Len(w) /\ 1 < i + 1 /\ 1 \in 1 .. Len(w)
  BY <1>1
<1>3. StartsLast(Tail(w))
  <2> SUFFICES ASSUME NEW i \in 1 .. (Len(w) - 1), NEW j \in 1 .. (Len(w) - 1), i < j,
                      IsStart(Tail(w)[i])
               PROVE  Tail(w)[j].do = "done"
    BY <1>1 DEF StartsLast
  <2>1. Tail(w)[i] = w[i + 1] /\ Tail(w)[j] = w[j + 1] /\ i + 1 < j + 1
    BY <1>1
  <2> QED
    BY <1>1, <1>2, <2>1 DEF StartsLast
<1>4. ASSUME IsStart(Head(w)), NEW i \in 1 .. (Len(w) - 1) PROVE Tail(w)[i].do = "done"
  BY <1>1, <1>2, <1>4 DEF StartsLast
<1> QED
  BY <1>1, <1>3, <1>4 DEF Elements

LEMMA SendHandles ==
    ASSUME NEW f \in Friends, NEW v \in Videos, Inv, CallSend(f, v)
    PROVE  Handles(f) /\ Leaves(f)
<1>1. Types /\ v \in BOOLEAN /\ toxav[f] \in States
  BY CallsAssumption DEF Inv, Types, FriendTypes, States, CallsAssumption
<1>2. Command("TOX_CALL_SEND", f, v, toxav[f], SendSteps(f, v)) /\ SendSteps(f, v) \in Seq(Step)
  BY <1>1, StepsTypes DEF CallSend, SendSteps
<1>3. /\ Up /\ Todo = {} /\ work'["ui"] = work["ui"]
      /\ Todo' = Elements(SendSteps(f, v)) \cup {Do("done", f, v)}
      /\ \A g \in Friends : toxav'[g] = toxav[g]
  BY <1>1, <1>2, CommandBegins
<1>4. Todo' = {Post("OUTGOING_CALL_PENDING", f, v), Do("call", f, v), Do("done", f, v)}
  <2>1. Elements(SendSteps(f, v)) = {Post("OUTGOING_CALL_PENDING", f, v), Do("call", f, v)}
    BY <1>1, StepsElements
  <2> QED
    BY <1>3, <2>1
<1>5. Placing'
  <2>1. work'["core"] = SendSteps(f, v) \o <<Do("done", f, v)>>
    BY <1>1, <1>2 DEF Command, Types, PostTypes
  <2>2. SendSteps(f, v) \o <<Do("done", f, v)>>
          = <<Post("OUTGOING_CALL_PENDING", f, v), Do("call", f, v), Do("done", f, v)>>
    <3>1. /\ Post("OUTGOING_CALL_PENDING", f, v) \in Step /\ Do("call", f, v) \in Step
          /\ Do("done", f, v) \in Step
      BY <1>1, StepTypes DEF Orderable, Others
    <3> QED
      BY <3>1, JoinedTuple DEF SendSteps
  <2> QED
    BY <1>1, <2>1, <2>2 DEF Placing
<1>6. UNCHANGED <<call_state_self, call_state_friend>>
  BY DEF CallSend, friendVars
<1>7. UNCHANGED <<pc, now, orders, toxav_msg, audio_msg, audio_dest, lost>>
  BY DEF CallSend, boxVars, ctrlVars, audioVars, histVars
<1>8. FriendShown(f)'
  BY <1>3, <1>6 DEF Inv, FriendsShown, FriendShown
<1>9. /\ \A s \in Todo' : s.do # "done" => s.arg.friend = f
      /\ \A s \in Todo' : ~PostsAbout(s, f) /\ s.do # "clear"
      /\ \E s \in Todo' : s.do = "post" /\ Sets(s.arg, f)
  BY <1>4 DEF Post, Do, Msg, PostsAbout, Says, Sets, Starts
<1>10. Leaves(f)
  <2>1. UNCHANGED <<video_active, ringtone, microphone_count, audio_preview, active_call, odd>>
    BY DEF CallSend, uiVars, ctrlVars, audioVars, histVars
  <2>2. /\ \A s \in Todo' : ~IsStart(s)
        /\ \A s \in Todo' : s.do = "post" => s.arg.msg = "OUTGOING_CALL_PENDING"
        /\ \E s \in Todo' : s.do = "call" /\ s.arg.friend = f
    BY <1>4 DEF Post, Do, Msg, IsStart, Starts
  <2>3. Called(f)'
    BY <2>2 DEF Called
  <2> QED
    BY <1>3, <2>1, <2>2, <2>3, NoStarts DEF Leaves, UserMessages, Todo
<1> QED
  BY <1>3, <1>5, <1>6, <1>7, <1>8, <1>9, <1>10 DEF Handles, CallShape

LEMMA AnswerHandles ==
    ASSUME NEW f \in Friends, NEW v \in Videos, Inv, CallAnswer(f, v)
    PROVE  Handles(f) /\ Leaves(f)
<1> DEFINE call == IF toxav[f] = "in" THEN "active" ELSE toxav[f]
<1>1. Types /\ v \in BOOLEAN /\ call \in States
  BY CallsAssumption DEF Inv, Types, FriendTypes, States, CallsAssumption
<1>2. Command("TOX_CALL_ANSWER", f, v, call, AnswerSteps(f, v)) /\ AnswerSteps(f, v) \in Seq(Step)
  BY <1>1, StepsTypes DEF CallAnswer, AnswerSteps
<1>3. /\ Up /\ Todo = {} /\ work'["ui"] = work["ui"]
      /\ Todo' = Elements(AnswerSteps(f, v)) \cup {Do("done", f, v)}
      /\ \A g \in Friends : toxav'[g] = IF g = f THEN call ELSE toxav[g]
  <2> HIDE DEF call
  <2> QED
    BY <1>1, <1>2, CommandBegins
<1>4. Elements(AnswerSteps(f, v))
        = IF toxav[f] = "in" THEN {Post("INCOMING_CALL_ANSWER", f, v)} ELSE {}
  BY <1>1, StepsElements
<1>5. UNCHANGED <<call_state_self, call_state_friend>>
  BY DEF CallAnswer, friendVars
<1>6. UNCHANGED <<pc, now, orders, toxav_msg, audio_msg, audio_dest, lost>>
  BY DEF CallAnswer, boxVars, ctrlVars, audioVars, histVars
<1>7. FriendShown(f)'
  BY <1>3, <1>5 DEF Inv, FriendsShown, FriendShown
<1>8. /\ \A s \in Todo' : s.do # "done" => s.arg.friend = f
      /\ \A s \in Todo' : s.do # "clear" /\ s.do # "call"
  BY <1>3, <1>4 DEF Post, Do, Msg
<1>11. UNCHANGED <<video_active, ringtone, microphone_count, audio_preview, active_call, odd>>
  BY DEF CallAnswer, uiVars, ctrlVars, audioVars, histVars
<1>9. CASE toxav[f] = "in"
  <2>1. /\ \A s \in Todo' : PostsAbout(s, f) => s.arg.msg \in Starts
        /\ \E s \in Todo' : PostsAbout(s, f) /\ Sets(s.arg, f)
    BY <1>3, <1>4, <1>9 DEF Post, Do, Msg, PostsAbout, Says, Sets, Starts
  <2>2. toxav'[f] = "active"
    BY <1>3, <1>9
  <2>3. StartsLast(work'["core"])
    <3> DEFINE last == <<Do("done", f, v)>>
    <3>1. /\ last \in Seq(Step) /\ Elements(last) = {Do("done", f, v)} /\ StartsLast(last)
          /\ StartsLast(AnswerSteps(f, v))
      <4>1. Do("done", f, v) \in Step
        BY <1>1, StepTypes DEF Others
      <4> QED
        BY <4>1, TupleTypes, ElementsTuples, OneStart DEF AnswerSteps
    <3>2. work'["core"] = AnswerSteps(f, v) \o last
      BY <1>1, <1>2 DEF Command, Types, PostTypes
    <3>3. \A x \in Elements(last) : x.do = "done"
      BY <3>1 DEF Do
    <3> HIDE DEF last
    <3> QED
      BY <1>2, <3>1, <3>2, <3>3, JoinedStarts
  <2>4. \A s \in Todo' : s.do = "post" => s.arg.msg = "INCOMING_CALL_ANSWER"
    BY <1>3, <1>4, <1>9 DEF Post, Do, Msg
  <2>5. Called(f)'
    BY <2>2 DEF Called
  <2>6. Leaves(f)
    BY <1>9, <1>11, <2>3, <2>4, <2>5 DEF Leaves, UserMessages
  <2> QED
    BY <1>3, <1>5, <1>6, <1>7, <1>8, <2>1, <2>2, <2>6 DEF Handles, CallShape, PostsAbout
<1>10. CASE toxav[f] # "in"
  <2>1. \A s \in Todo' : ~PostsAbout(s, f)
    BY <1>3, <1>4, <1>10 DEF Do, PostsAbout
  <2>2. toxav'[f] = toxav[f]
    BY <1>3, <1>10
  <2>3. \A s \in Todo' : s.do # "post" /\ ~IsStart(s)
    BY <1>3, <1>4, <1>10 DEF Do, IsStart
  <2>4. Called(f) => Called(f)'
    BY <1>3, <2>2 DEF Called
  <2>5. Leaves(f)
    BY <1>11, <2>2, <2>3, <2>4, NoStarts DEF Leaves, Todo
  <2> QED
    BY <1>3, <1>5, <1>6, <1>7, <1>8, <2>1, <2>2, <2>5 DEF Handles, CallShape, Called
<1> QED
  BY <1>9, <1>10

LEMMA DisconnectHandles == ASSUME NEW f \in Friends, Inv, CallDisconnect(f)
    PROVE  Handles(f) /\ Leaves(f)
<1>1. Types /\ "none" \in States /\ FALSE \in BOOLEAN
  BY DEF Inv, States
<1>2. Command("TOX_CALL_DISCONNECT", f, FALSE, "none", EndSteps(f)) /\ EndSteps(f) \in Seq(Step)
  BY <1>1, StepsTypes DEF CallDisconnect, EndSteps
<1>3. /\ Up /\ Todo = {} /\ work'["ui"] = work["ui"]
      /\ Todo' = Elements(EndSteps(f)) \cup {Do("done", f, FALSE)}
      /\ \A g \in Friends : toxav'[g] = IF g = f THEN "none" ELSE toxav[g]
  BY <1>1, <1>2, CommandBegins
<1>4. Elements(EndSteps(f)) = {Post("CALL_END", f, FALSE)}
  BY <1>1, StepsElements
<1>5. \A g \in Friends :
        /\ call_state_self'[g] = IF g = f THEN {} ELSE call_state_self[g]
        /\ call_state_friend'[g] = IF g = f THEN {} ELSE call_state_friend[g]
  BY DEF CallDisconnect, Set
<1>6. UNCHANGED <<pc, now, orders, toxav_msg, audio_msg, audio_dest, lost>>
  BY DEF CallDisconnect, boxVars, ctrlVars, audioVars, histVars
<1>7. FriendShown(f)'
  BY <1>3, <1>5 DEF FriendShown
<1>8. /\ \A s \in Todo' : s.do # "done" => s.arg.friend = f
      /\ \A s \in Todo' : s.do # "clear" /\ s.do # "call"
      /\ \A s \in Todo' : PostsAbout(s, f) => s.arg.msg \notin Starts
      /\ \E s \in Todo' : PostsAbout(s, f)
  BY <1>3, <1>4 DEF Post, Do, Msg, PostsAbout, Says, Starts
<1>9. toxav'[f] = "none" /\ ~Called(f)'
  BY <1>3, <1>8 DEF Called
<1>10. Leaves(f)
  <2>1. UNCHANGED <<video_active, ringtone, microphone_count, audio_preview, active_call, odd>>
    BY DEF CallDisconnect, uiVars, ctrlVars, audioVars, histVars
  <2>2. /\ \A s \in Todo' : ~IsStart(s) /\ (s.do = "post" => s.arg.msg = "CALL_END")
        /\ Ends(f)'
    BY <1>3, <1>4 DEF Post, Do, Msg, IsStart, Starts, Ends
  <2> QED
    BY <2>1, <2>2, NoStarts DEF Leaves, UserMessages, Todo
<1> QED
  BY <1>3, <1>5, <1>6, <1>7, <1>8, <1>9, <1>10 DEF Handles, CallShape

\* Commands that leave toxav alone, and no message about a source.
LEMMA IdleHandles ==
    ASSUME NEW f \in Friends, Inv, Up, Todo = {}, work'["ui"] = work["ui"],
           \A g \in Friends : toxav'[g] = toxav[g],
           UNCHANGED <<video_active, ringtone, microphone_count, audio_preview, active_call, odd>>,
           UNCHANGED <<friendVars, pc, now, orders, toxav_msg, audio_msg, audio_dest, lost>>,
           \A s \in Todo' :
             /\ s.do \notin {"clear", "call"} /\ (s.do # "done" => s.arg.friend = f)
             /\ ~PostsAbout(s, f)
             /\ s.do = "post" => \/ s.arg.msg = "STOP_VIDEO"
                                 \/ s.arg.msg = "START_VIDEO" /\ toxav[f] = "active"
    PROVE  Handles(f) /\ Leaves(f)
<1>1. FriendShown(f)'
  BY DEF Inv, FriendsShown, FriendShown, friendVars
<1>2. ~ \E s \in Todo' : s.do = "call"
  OBVIOUS
<1>3. Called(f)' => toxav[f] \in {"out", "active"} /\ call_state_self'[f] = call_state_self[f]
  BY <1>2 DEF Called, friendVars
<1>4. /\ \A s \in Todo' : s.do # "done" => s.arg.friend = f
      /\ \A s \in Todo' : s.do # "clear" /\ ~PostsAbout(s, f)
  OBVIOUS
<1>5. Leaves(f)
  <2>1. \A s \in Todo' : ~IsStart(s)
    BY DEF IsStart, Starts
  <2>2. (Called(f) => Called(f)') /\ (toxav[f] = "active" => Called(f)')
    BY DEF Called
  <2>3. \A s \in Todo' : s.do = "post" =>
          /\ s.arg.msg \notin UserMessages
          /\ s.arg.msg \in {"START_VIDEO", "INCOMING_CALL_ANSWER", "OUTGOING_CALL_PENDING"}
               => toxav[f] = "active"
          /\ s.arg.msg # "INCOMING_CALL_PENDING"
    BY DEF UserMessages
  <2> QED
    BY <2>1, <2>2, <2>3, NoStarts DEF Leaves, Todo
<1> QED
  BY <1>5, <1>1, <1>2, <1>3, <1>4 DEF Handles, CallShape, friendVars

LEMMA PauseHandles ==
    ASSUME NEW f \in Friends, NEW agreed \in BOOLEAN, Inv, PauseVideo(f, agreed)
    PROVE  Handles(f) /\ Leaves(f)
<1>1. Types /\ TRUE \in BOOLEAN /\ toxav[f] \in States
  BY DEF Inv, Types, FriendTypes, States
<1>2. /\ Command("TOX_CALL_PAUSE_VIDEO", f, TRUE, toxav[f], PauseSteps(f, agreed))
      /\ PauseSteps(f, agreed) \in Seq(Step)
  BY <1>1, StepsTypes DEF PauseVideo, PauseSteps
<1>3. /\ Up /\ Todo = {} /\ work'["ui"] = work["ui"]
      /\ Todo' = Elements(PauseSteps(f, agreed)) \cup {Do("done", f, TRUE)}
      /\ \A g \in Friends : toxav'[g] = toxav[g]
  BY <1>1, <1>2, CommandBegins, ZenonT(30)
<1>4. Elements(PauseSteps(f, agreed)) \subseteq {Post("STOP_VIDEO", f, FALSE), Do("hide", f, TRUE)}
  BY <1>1, StepsElements
<1>5. UNCHANGED <<friendVars, pc, now, orders, toxav_msg, audio_msg, audio_dest, lost>>
  BY DEF PauseVideo, boxVars, ctrlVars, audioVars, histVars
<1>7. UNCHANGED <<video_active, ringtone, microphone_count, audio_preview, active_call, odd>>
  BY DEF PauseVideo, uiVars, ctrlVars, audioVars, histVars
<1>6. \A s \in Todo' :
        /\ s.do \notin {"clear", "call"} /\ (s.do # "done" => s.arg.friend = f)
        /\ ~PostsAbout(s, f)
        /\ s.do = "post" => s.arg.msg = "STOP_VIDEO"
  BY <1>3, <1>4 DEF Post, Do, Msg, PostsAbout, Says, Starts
<1>9. \A s \in Todo' :
        /\ s.do \notin {"clear", "call"} /\ (s.do # "done" => s.arg.friend = f)
        /\ ~PostsAbout(s, f)
        /\ s.do = "post" => \/ s.arg.msg = "STOP_VIDEO"
                            \/ s.arg.msg = "START_VIDEO" /\ toxav[f] = "active"
  BY <1>6
<1> QED
  BY <1>3, <1>5, <1>7, <1>9, IdleHandles

LEMMA ResumeHandles ==
    ASSUME NEW f \in Friends, NEW agreed \in BOOLEAN, Inv, ResumeVideo(f, agreed)
    PROVE  Handles(f) /\ Leaves(f)
<1>1. Types /\ TRUE \in BOOLEAN /\ toxav[f] \in States
  BY DEF Inv, Types, FriendTypes, States
<1>2. /\ Command("TOX_CALL_RESUME_VIDEO", f, TRUE, toxav[f], ResumeSteps(f, agreed))
      /\ ResumeSteps(f, agreed) \in Seq(Step)
  BY <1>1, StepsTypes DEF ResumeVideo, ResumeSteps, StartSteps
<1>3. /\ Up /\ Todo = {} /\ work'["ui"] = work["ui"]
      /\ Todo' = Elements(ResumeSteps(f, agreed)) \cup {Do("done", f, TRUE)}
      /\ \A g \in Friends : toxav'[g] = toxav[g]
  BY <1>1, <1>2, CommandBegins, ZenonT(30)
<1>8. Post("START_VIDEO", f, FALSE) \in Elements(ResumeSteps(f, agreed)) => toxav[f] = "active"
  BY <1>1, StepsElements DEF ResumeVideo
<1>4. Elements(ResumeSteps(f, agreed)) \subseteq {Post("START_VIDEO", f, FALSE), Do("show", f, TRUE)}
  BY <1>1, StepsElements
<1>5. UNCHANGED <<friendVars, pc, now, orders, toxav_msg, audio_msg, audio_dest, lost>>
  BY DEF ResumeVideo, boxVars, ctrlVars, audioVars, histVars
<1>7. UNCHANGED <<video_active, ringtone, microphone_count, audio_preview, active_call, odd>>
  BY DEF ResumeVideo, uiVars, ctrlVars, audioVars, histVars
<1>6. \A s \in Todo' :
        /\ s.do \notin {"clear", "call"} /\ (s.do # "done" => s.arg.friend = f)
        /\ ~PostsAbout(s, f)
        /\ s.do = "post" => s.arg.msg = "START_VIDEO" /\ toxav[f] = "active"
  <2> SUFFICES ASSUME NEW s \in Todo'
               PROVE  /\ s.do \notin {"clear", "call"} /\ (s.do # "done" => s.arg.friend = f)
                      /\ ~PostsAbout(s, f)
                      /\ s.do = "post" => s.arg.msg = "START_VIDEO" /\ toxav[f] = "active"
    OBVIOUS
  <2>1. CASE s = Post("START_VIDEO", f, FALSE)
    <3>1. s # Do("done", f, TRUE)
      BY <2>1 DEF Post, Do
    <3>2. toxav[f] = "active"
      BY <1>3, <1>8, <2>1, <3>1
    <3> QED
      BY <2>1, <3>2 DEF Post, Msg, PostsAbout, Says, Starts
  <2>2. CASE s \in {Do("show", f, TRUE), Do("done", f, TRUE)}
    BY <2>2 DEF Do, Msg, PostsAbout
  <2> QED
    BY <1>3, <1>4, <2>1, <2>2
<1>9. \A s \in Todo' :
        /\ s.do \notin {"clear", "call"} /\ (s.do # "done" => s.arg.friend = f)
        /\ ~PostsAbout(s, f)
        /\ s.do = "post" => \/ s.arg.msg = "STOP_VIDEO"
                            \/ s.arg.msg = "START_VIDEO" /\ toxav[f] = "active"
  BY <1>6
<1> QED
  BY <1>3, <1>5, <1>7, <1>9, IdleHandles

LEMMA GroupHandles ==
    ASSUME NEW c \in {"TOX_GROUP_AUDIO_START", "TOX_GROUP_AUDIO_END"}, Inv, GroupAudio(c)
    PROVE  \E f \in Friends : Handles(f) /\ Leaves(f)
<1> DEFINE nothing == <<>>
           off == FALSE
<1>1. Types /\ "none" \in States /\ off \in BOOLEAN /\ Nobody \notin Friends
  BY CallsAssumption DEF Inv, States, Nobody, CallsAssumption
<1>2. Command(c, Nobody, off, "none", nothing)
  BY DEF GroupAudio
<1>2a. Do("done", Nobody, off) \in Step
  BY StepTypes DEF Others
<1>2b. nothing \in Seq(Step) /\ Nobody \in Friends \cup {Nobody} /\ Elements(nothing) = {}
  BY <1>2a, TupleTypes, ElementsTuples
<1> HIDE DEF nothing, off
<1>3. /\ Up /\ Todo = {} /\ work'["ui"] = work["ui"]
      /\ Todo' = Elements(nothing) \cup {Do("done", Nobody, off)}
      /\ \A g \in Friends : toxav'[g] = IF g = Nobody THEN "none" ELSE toxav[g]
  BY <1>1, <1>2, <1>2b, CommandBegins
<1>5. UNCHANGED <<friendVars, pc, now, orders, toxav_msg, audio_msg, audio_dest, lost>>
  BY DEF GroupAudio, boxVars, ctrlVars, audioVars, histVars
<1>9. UNCHANGED <<video_active, ringtone, microphone_count, audio_preview, active_call, odd>>
  BY DEF GroupAudio, uiVars, ctrlVars, audioVars, histVars
<1>6. PICK f \in Friends : TRUE
  BY CallsAssumption DEF CallsAssumption
<1>7. \A s \in Todo' :
        /\ s.do \notin {"clear", "call"} /\ (s.do # "done" => s.arg.friend = f)
        /\ ~PostsAbout(s, f)
        /\ s.do = "post" => \/ s.arg.msg = "STOP_VIDEO"
                            \/ s.arg.msg = "START_VIDEO" /\ toxav[f] = "active"
  BY <1>2b, <1>3 DEF Do, Msg, PostsAbout
<1>8. \A g \in Friends : toxav'[g] = toxav[g]
  BY <1>1, <1>3
<1> QED
  BY <1>3, <1>5, <1>7, <1>8, <1>9, IdleHandles

LEMMA IncomingHandles ==
    ASSUME NEW f \in Friends, NEW v \in Videos, Inv, IncomingCall(f, v)
    PROVE  Handles(f) /\ Leaves(f)
<1> DEFINE steps == <<Post("INCOMING_CALL_PENDING", f, FALSE)>>
<1>1. Post("INCOMING_CALL_PENDING", f, FALSE) \in Step
  BY DEF Post, Msg, Step, Messages, Orderable
<1>2. Types /\ "in" \in States
  BY DEF Inv, States
<1>3. /\ steps \in Seq(Step) /\ Elements(steps) = {Post("INCOMING_CALL_PENDING", f, FALSE)}
      /\ Callback(f, "in", steps)
  BY <1>1, TupleTypes, ElementsTuples DEF IncomingCall
<1> HIDE DEF steps
<1>4. /\ Up /\ Todo = {} /\ work'["ui"] = work["ui"] /\ Todo' = Elements(steps)
      /\ \A g \in Friends : toxav'[g] = IF g = f THEN "in" ELSE toxav[g]
      /\ UNCHANGED <<pc, now, orders, toxav_msg, audio_msg, audio_dest, lost>>
  BY <1>2, <1>3, CallbackBegins
<1>5. \A g \in Friends :
        /\ call_state_self'[g] = IF g = f THEN {} ELSE call_state_self[g]
        /\ g # f => call_state_friend'[g] = call_state_friend[g]
        /\ g = f => call_state_friend'[g] # {}
  BY DEF IncomingCall, Set
<1>6. FriendShown(f)'
  BY <1>4, <1>5 DEF FriendShown
<1>7. \A s \in Todo' : /\ s.arg.friend = f /\ ~PostsAbout(s, f)
                      /\ s.do # "clear" /\ s.do # "call"
  BY <1>3, <1>4 DEF Post, Msg, PostsAbout, Says, Starts
<1>8. toxav[f] = "none" /\ toxav'[f] = "in" /\ ~Called(f)'
  BY <1>4, <1>7 DEF IncomingCall, Called
<1>9. Leaves(f)
  <2>1. UNCHANGED <<video_active, ringtone, microphone_count, audio_preview, active_call, odd>>
    BY DEF IncomingCall, Callback, uiVars, ctrlVars, audioVars
  <2>2. \A s \in Todo' : ~IsStart(s) /\ s.arg.msg = "INCOMING_CALL_PENDING"
    BY <1>3, <1>4 DEF Post, Msg, IsStart, Starts
  <2>3. ~Called(f)
    BY <1>4, <1>8 DEF Called
  <2> QED
    BY <1>8, <2>1, <2>2, <2>3, NoStarts DEF Leaves, UserMessages, Todo
<1> QED
  BY <1>9, <1>4, <1>5, <1>6, <1>7, <1>8 DEF Handles, CallShape

LEMMA ChangeHandles ==
    ASSUME NEW f \in Friends, NEW state \in FriendStates, NEW agreed \in BOOLEAN, Inv,
           ChangeState(f, state, agreed)
    PROVE  Handles(f) /\ Leaves(f)
<1>1. Types /\ "active" \in States
  BY DEF Inv, States
<1>2. /\ Callback(f, "active", AcceptSteps(f, state, agreed))
      /\ AcceptSteps(f, state, agreed) \in Seq(Step)
  BY StepsTypes DEF ChangeState, AcceptSteps
<1>3. /\ Up /\ Todo = {} /\ work'["ui"] = work["ui"]
      /\ Todo' = Elements(AcceptSteps(f, state, agreed))
      /\ \A g \in Friends : toxav'[g] = IF g = f THEN "active" ELSE toxav[g]
      /\ UNCHANGED <<pc, now, orders, toxav_msg, audio_msg, audio_dest, lost>>
  BY <1>1, <1>2, CallbackBegins
<1>4. PICK v \in BOOLEAN : v = TRUE
  OBVIOUS
<1>5. /\ Elements(AcceptSteps(f, state, agreed))
           \subseteq {Post("STOP_VIDEO", f, FALSE), Do("hide", f, TRUE),
                      Post("OUTGOING_CALL_ACCEPTED", f, FALSE)}
      /\ call_state_friend[f] = {} =>
           Post("OUTGOING_CALL_ACCEPTED", f, FALSE) \in Elements(AcceptSteps(f, state, agreed))
  BY <1>4, StepsElements
<1>6. \A g \in Friends :
        /\ call_state_self'[g] = call_state_self[g]
        /\ g # f => call_state_friend'[g] = call_state_friend[g]
  BY DEF ChangeState, Set
<1>7. call_state_self[f] # {"SV"}
  BY DEF Inv, FriendsShown, FriendShown
<1>8. FriendShown(f)'
  BY <1>3, <1>6, <1>7 DEF FriendShown
<1>9. /\ \A s \in Todo' : s.arg.friend = f /\ s.do # "clear" /\ s.do # "call"
      /\ \A s \in Todo' : PostsAbout(s, f) => s.arg.msg \in Starts
  BY <1>3, <1>5 DEF Post, Do, Msg, PostsAbout, Says, Starts
<1>10. toxav'[f] = "active" /\ toxav[f] \in {"out", "active"}
  BY <1>3 DEF ChangeState
<1>11. (\A s \in Todo' : ~PostsAbout(s, f)) => toxav[f] = "active"
  <2> SUFFICES ASSUME toxav[f] = "out" PROVE \E s \in Todo' : PostsAbout(s, f)
    BY <1>10
  <2>1. call_state_friend[f] = {}
    BY <1>3 DEF Inv, FriendsShown, FriendShown
  <2>2. Post("OUTGOING_CALL_ACCEPTED", f, FALSE) \in Todo'
    BY <1>3, <1>5, <2>1
  <2>3. PostsAbout(Post("OUTGOING_CALL_ACCEPTED", f, FALSE), f)
    BY DEF Post, Msg, PostsAbout, Says, Starts
  <2> QED
    BY <2>2, <2>3
<1>12. Leaves(f)
  <2>1. UNCHANGED <<video_active, ringtone, microphone_count, audio_preview, active_call>>
    BY DEF ChangeState, Callback, uiVars, ctrlVars, audioVars
  <2>2. /\ odd \subseteq odd'
        /\ (\E s \in Todo' : IsStart(s)) => toxav[f] # "active" \/ odd' # {}
    <3>1. CASE call_state_friend[f] = {}
      BY <3>1 DEF ChangeState
    <3>2. CASE call_state_friend[f] # {}
      <4>1. AcceptSteps(f, state, agreed) = <<>>
        BY <3>2 DEF AcceptSteps
      <4>2. Todo' = {}
        BY <1>3, <4>1, ElementsTuples
      <4> QED
        BY <3>2, <4>2 DEF ChangeState
    <3> QED
      BY <3>1, <3>2
  <2>3. \A s \in Todo' : s.do = "post" => s.arg.msg \in {"STOP_VIDEO", "OUTGOING_CALL_ACCEPTED"}
    BY <1>3, <1>5 DEF Post, Do, Msg
  <2>4. StartsLast(AcceptSteps(f, state, agreed))
    <3> DEFINE first == IF agreed /\ "SV" \in call_state_self[f] /\ "V" \notin state
                        THEN <<Post("STOP_VIDEO", f, FALSE), Do("hide", f, TRUE)>> ELSE <<>>
               last == <<Post("OUTGOING_CALL_ACCEPTED", f, FALSE)>>
    <3>1. /\ Post("STOP_VIDEO", f, FALSE) \in Step /\ Do("hide", f, TRUE) \in Step
          /\ Post("OUTGOING_CALL_ACCEPTED", f, FALSE) \in Step
      BY StepTypes DEF Orderable, Others
    <3>2. /\ first \in Seq(Step) /\ last \in Seq(Step) /\ StartsLast(last)
          /\ Elements(first) \subseteq {Post("STOP_VIDEO", f, FALSE), Do("hide", f, TRUE)}
      BY <3>1, TupleTypes, ElementsTuples, OneStart
    <3>3. \A x \in Elements(first) : ~IsStart(x)
      BY <3>2 DEF Post, Do, Msg, IsStart, Starts
    <3> HIDE DEF first, last
    <3>4. StartsLast(first) /\ StartsLast(first \o last)
      BY <3>2, <3>3, NoStarts, JoinedStarts
    <3>5. Accept(f, state, agreed) = first \o last
      BY DEF Accept, first, last
    <3> QED
      BY <3>4, <3>5, OneStart DEF AcceptSteps
  <2>5. Called(f)' /\ StartsLast(work'["core"])
    BY <1>1, <1>2, <1>3, <2>4, CallbackBegins DEF Called
  <2> QED
    BY <2>1, <2>2, <2>3, <2>5 DEF Leaves, UserMessages
<1> QED
  BY <1>12, <1>3, <1>6, <1>8, <1>9, <1>10, <1>11 DEF Handles, CallShape

LEMMA FinishHandles == ASSUME NEW f \in Friends, Inv, Finish(f)
    PROVE  Handles(f) /\ Leaves(f)
<1>1. Types /\ "none" \in States
  BY DEF Inv, States
<1>2. Callback(f, "none", FinishSteps(f)) /\ FinishSteps(f) \in Seq(Step)
  BY StepsTypes DEF Finish, FinishSteps
<1>3. /\ Up /\ Todo = {} /\ work'["ui"] = work["ui"] /\ Todo' = Elements(FinishSteps(f))
      /\ \A g \in Friends : toxav'[g] = IF g = f THEN "none" ELSE toxav[g]
      /\ UNCHANGED <<pc, now, orders, toxav_msg, audio_msg, audio_dest, lost>>
  BY <1>1, <1>2, CallbackBegins
<1>4. Elements(FinishSteps(f)) = {Post("CALL_END", f, FALSE), Do("clear", f, FALSE)}
  <2>1. PICK v \in BOOLEAN : v = TRUE
    OBVIOUS
  <2> QED
    BY <2>1, StepsElements
<1>5. UNCHANGED <<call_state_self, call_state_friend>>
  BY DEF Finish, friendVars
<1>6. call_state_self[f] # {"SV"}
  BY DEF Inv, FriendsShown, FriendShown
<1>7. /\ \A s \in Todo' : s.arg.friend = f /\ s.do # "call"
      /\ \A s \in Todo' : PostsAbout(s, f) => s.arg.msg \notin Starts
      /\ \E s \in Todo' : PostsAbout(s, f)
      /\ \E s \in Todo' : s.do = "clear" /\ s.arg.friend = f
  BY <1>3, <1>4 DEF Post, Do, Msg, PostsAbout, Says, Starts
<1>8. toxav'[f] = "none" /\ ~Called(f)'
  BY <1>3, <1>7 DEF Called
<1>9. FriendShown(f)'
  BY <1>5, <1>6, <1>7, <1>8 DEF FriendShown
<1>10. Leaves(f)
  <2>1. UNCHANGED <<video_active, ringtone, microphone_count, audio_preview, active_call, odd>>
    BY DEF Finish, uiVars, ctrlVars, audioVars, histVars, Callback
  <2>2. /\ \A s \in Todo' : ~IsStart(s) /\ (s.do = "post" => s.arg.msg = "CALL_END")
        /\ Ends(f)'
    BY <1>3, <1>4 DEF Post, Do, Msg, IsStart, Starts, Ends
  <2> QED
    BY <2>1, <2>2, NoStarts DEF Leaves, UserMessages, Todo
<1> QED
  BY <1>10, <1>3, <1>5, <1>7, <1>8, <1>9 DEF Handles, CallShape

LEMMA OfflineHandles == ASSUME NEW f \in Friends, Inv, Offline(f)
    PROVE  Handles(f) /\ Leaves(f)
<1>1. Types /\ "none" \in States
  BY DEF Inv, States
<1>2. Callback(f, "none", LeaveSteps(f)) /\ LeaveSteps(f) \in Seq(Step)
  BY StepsTypes DEF Offline, LeaveSteps, EndSteps, FinishSteps
<1>3. /\ Up /\ Todo = {} /\ work'["ui"] = work["ui"] /\ Todo' = Elements(LeaveSteps(f))
      /\ \A g \in Friends : toxav'[g] = IF g = f THEN "none" ELSE toxav[g]
      /\ UNCHANGED <<pc, now, orders, toxav_msg, audio_msg, audio_dest, lost>>
  BY <1>1, <1>2, CallbackBegins
<1>4. /\ Elements(LeaveSteps(f)) \subseteq {Post("CALL_END", f, FALSE), Do("clear", f, FALSE)}
      /\ Post("CALL_END", f, FALSE) \in Elements(LeaveSteps(f))
  <2>1. PICK v \in BOOLEAN : v = TRUE
    OBVIOUS
  <2> QED
    BY <2>1, StepsElements
<1>5. \A g \in Friends :
        /\ call_state_self'[g] = IF g = f THEN {} ELSE call_state_self[g]
        /\ call_state_friend'[g] = IF g = f THEN {} ELSE call_state_friend[g]
  BY DEF Offline, Set
<1>6. /\ \A s \in Todo' : s.arg.friend = f /\ s.do # "call"
      /\ \A s \in Todo' : PostsAbout(s, f) => s.arg.msg \notin Starts
      /\ \E s \in Todo' : PostsAbout(s, f)
  BY <1>3, <1>4 DEF Post, Do, Msg, PostsAbout, Says, Starts
<1>7. toxav'[f] = "none" /\ ~Called(f)'
  BY <1>3, <1>6 DEF Called
<1>8. FriendShown(f)'
  BY <1>5, <1>7 DEF FriendShown
<1>10. Leaves(f)
  <2>1. UNCHANGED <<video_active, ringtone, microphone_count, audio_preview, active_call, odd>>
    BY DEF Offline, uiVars, ctrlVars, audioVars, histVars, Callback
  <2>2. /\ \A s \in Todo' : ~IsStart(s) /\ (s.do = "post" => s.arg.msg = "CALL_END")
        /\ Ends(f)'
    BY <1>3, <1>4 DEF Post, Do, Msg, IsStart, Starts, Ends
  <2> QED
    BY <2>1, <2>2, NoStarts DEF Leaves, UserMessages, Todo
<1> QED
  BY <1>10, <1>3, <1>5, <1>6, <1>7, <1>8 DEF Handles, CallShape

LEMMA CallbackInv == ASSUME Inv, CallbackStep PROVE Inv'
<1>1. Types'
  BY CallbackTypes DEF Inv
<1>2. PICK f \in Friends : Handles(f)
  BY IncomingHandles, ChangeHandles, FinishHandles, OfflineHandles DEF CallbackStep
<1> QED
  BY <1>1, <1>2, HandlesInv

\* The call is placed: a call that came in meanwhile is answered.
FirstSteps(f, v) == IF toxav[f] = "in" THEN <<Post("OUTGOING_CALL_ACCEPTED", f, v)>> ELSE <<>>

Places(f, v) ==
    /\ Todo = {Do("call", f, v), Do("done", f, v)}
    /\ work'["core"] = FirstSteps(f, v) \o <<Do("done", f, v)>> /\ work'["ui"] = work["ui"]
    /\ Elements(FirstSteps(f, v))
         = IF toxav[f] = "in" THEN {Post("OUTGOING_CALL_ACCEPTED", f, v)} ELSE {}
    /\ Todo' = Elements(FirstSteps(f, v)) \cup {Do("done", f, v)}
    /\ \A h \in Friends : h # f => toxav'[h] = toxav[h]
    /\ \/ toxav[f] = "none" /\ toxav'[f] = "out"
       \/ toxav[f] = "in" /\ toxav'[f] = "active"
       \/ toxav[f] # "in" /\ toxav'[f] = toxav[f]
    /\ odd \subseteq odd' /\ (toxav'[f] = "none" => odd' # {})

LEMMA PlaceEffect == ASSUME Inv, PlaceCall PROVE \E f \in Friends, v \in BOOLEAN : Places(f, v)
<1> DEFINE head == Head(work["core"])
           f == head.arg.friend
           v == head.arg.video
           rest == Tail(work["core"])
<1>1. Types' /\ Types /\ Up /\ Up'
  BY CommandTypes DEF Inv, CommandStep, PlaceCall, Up
<1>2. /\ work["core"] \in Seq(Step) /\ work["core"] # <<>> /\ head.do = "call"
  BY <1>1 DEF PlaceCall, Types, PostTypes
<1>3. head \in Step /\ head \in Todo /\ rest \in Seq(Step)
  BY <1>2, ElementsTail DEF Todo
<1>4. f \in Friends /\ v \in BOOLEAN
  BY <1>2, <1>3 DEF Step, Others
<1>5. PICK g \in Friends, w \in BOOLEAN :
        work["core"] \in {<<Post("OUTGOING_CALL_PENDING", g, w), Do("call", g, w), Do("done", g, w)>>,
                         <<Do("call", g, w), Do("done", g, w)>>}
  BY <1>2, <1>3 DEF Inv, Shapes, CallShape, Placing
<1>6. work["core"] = <<Do("call", g, w), Do("done", g, w)>>
  BY <1>2, <1>5 DEF Post
<1>7. head = Do("call", g, w) /\ rest = <<Do("done", g, w)>>
  BY <1>6
<1>8. g = f /\ w = v /\ Todo = {Do("call", g, w), Do("done", g, w)} /\ Elements(rest) = {Do("done", g, w)}
  <2>1. Elements(<<Do("call", g, w), Do("done", g, w)>>) = {Do("call", g, w), Do("done", g, w)}
    BY ElementsTuples
  <2>2. Elements(<<Do("done", g, w)>>) = {Do("done", g, w)}
    BY ElementsTuples
  <2>3. g = f /\ w = v
    BY <1>7 DEF Do, Msg
  <2> QED
    BY <1>6, <1>7, <2>1, <2>2, <2>3 DEF Todo
<1> DEFINE first == FirstSteps(f, v)
<1>9. /\ first \in Seq(Step)
      /\ Elements(first) = IF toxav[f] = "in" THEN {Post("OUTGOING_CALL_ACCEPTED", f, v)} ELSE {}
  <2>1. Post("OUTGOING_CALL_ACCEPTED", f, v) \in Step
    BY <1>4, StepTypes DEF Orderable
  <2> QED
    BY <2>1, TupleTypes, ElementsTuples DEF FirstSteps
<1>10. work' = [work EXCEPT !["core"] = first \o rest]
  BY DEF PlaceCall, FirstSteps
<1> HIDE DEF first, rest, f, v, head
<1>11. Elements(first \o rest) = Elements(first) \cup Elements(rest)
  BY <1>3, <1>9, ElementsJoined
<1>12. Todo' = Elements(first) \cup {Do("done", g, w)} /\ work'["ui"] = work["ui"]
  BY <1>1, <1>8, <1>10, <1>11 DEF Todo, Types, PostTypes
<1>13. /\ \A h \in Friends : h # f => toxav'[h] = toxav[h]
       /\ \/ toxav[f] = "none" /\ toxav'[f] = "out"
          \/ toxav[f] = "in" /\ toxav'[f] = "active"
          \/ toxav[f] # "in" /\ toxav'[f] = toxav[f]
  <2>1. \/ toxav[f] = "none" /\ toxav' = [toxav EXCEPT ![f] = "out"]
        \/ toxav[f] = "in" /\ toxav' = [toxav EXCEPT ![f] = "active"]
        \/ toxav[f] # "in" /\ toxav' = toxav
    BY DEF PlaceCall, f, head
  <2>2. toxav \in [Friends -> {"none", "in", "out", "active"}]
    BY <1>1 DEF Types, FriendTypes
  <2> QED
    BY <1>4, <2>1, <2>2
<1>14. odd \subseteq odd' /\ (toxav'[f] = "none" => odd' # {})
  BY DEF PlaceCall, f, head
<1>15. work'["core"] = FirstSteps(f, v) \o <<Do("done", f, v)>>
  BY <1>1, <1>7, <1>8, <1>10 DEF Types, PostTypes, first
<1> QED
  BY <1>4, <1>8, <1>9, <1>12, <1>13, <1>14, <1>15 DEF first, Places

LEMMA PlaceInv == ASSUME Inv, PlaceCall PROVE Inv'
<1>1. Types' /\ Types /\ Up /\ Up'
  BY CommandTypes DEF Inv, CommandStep, PlaceCall, Up
<1>2. PICK f \in Friends, v \in BOOLEAN : Places(f, v)
  BY PlaceEffect
<1>9. /\ Todo = {Do("call", f, v), Do("done", f, v)}
      /\ Elements(FirstSteps(f, v))
           = IF toxav[f] = "in" THEN {Post("OUTGOING_CALL_ACCEPTED", f, v)} ELSE {}
  BY <1>2 DEF Places
<1>12. Todo' = Elements(FirstSteps(f, v)) \cup {Do("done", f, v)} /\ work'["ui"] = work["ui"]
  BY <1>2 DEF Places
<1>13. /\ \A h \in Friends : h # f => toxav'[h] = toxav[h]
       /\ \/ toxav[f] = "none" /\ toxav'[f] = "out"
          \/ toxav[f] = "in" /\ toxav'[f] = "active"
          \/ toxav[f] # "in" /\ toxav'[f] = toxav[f]
  BY <1>2 DEF Places
<1>14. /\ UNCHANGED <<pc, now, orders, toxav_msg, audio_msg, audio_dest, lost>>
       /\ UNCHANGED <<call_state_self, call_state_friend>>
  BY DEF PlaceCall, boxVars, ctrlVars, audioVars, friendVars
<1>15. /\ \A s \in Todo : ~(s.do = "post") /\ s.do # "clear"
       /\ \A s \in Todo' : s.do # "call" /\ s.do # "clear"
       /\ \A s \in Todo' : s.do = "post" => toxav[f] = "in" /\ s = Post("OUTGOING_CALL_ACCEPTED", f, v)
  BY <1>9, <1>12 DEF Do, Post, Msg
<1>16. ASSUME NEW h \in Friends PROVE SourceFollows(h)'
  <2>1. AfterMessage(h)' <=> AfterMessage(h)
    BY <1>14 DEF AfterMessage, AfterOrders, AfterAudio, HeardAbout, Waiting
  <2>2. AfterMessage(h) <=> toxav[h] = "active"
    BY <1>1, <1>15 DEF Inv, SourcesFollow, SourceFollows, PostsAbout
  <2>3. CASE h = f /\ toxav[f] = "in"
    <3>1. Post("OUTGOING_CALL_ACCEPTED", f, v) \in Todo'
      BY <1>9, <1>12, <2>3
    <3>2. /\ PostsAbout(Post("OUTGOING_CALL_ACCEPTED", f, v), f)
          /\ Post("OUTGOING_CALL_ACCEPTED", f, v).arg.msg \in Starts
      BY DEF Post, Msg, PostsAbout, Says, Starts
    <3>3. toxav'[f] = "active"
      BY <1>13, <2>3
    <3> QED
      BY <1>15, <2>3, <3>1, <3>2, <3>3 DEF SourceFollows, PostsAbout
  <2>4. CASE ~(h = f /\ toxav[f] = "in")
    <3>1. \A s \in Todo' : ~PostsAbout(s, h)
      BY <1>15, <2>4 DEF PostsAbout, Says, Post, Msg
    <3>2. toxav'[h] = "active" <=> toxav[h] = "active"
      BY <1>13, <2>4
    <3> QED
      BY <2>1, <2>2, <3>1, <3>2 DEF SourceFollows
  <2> QED
    BY <2>3, <2>4
<1>17. ASSUME NEW h \in Friends PROVE FriendShown(h)'
  BY <1>13, <1>14, <1>15 DEF Inv, FriendsShown, FriendShown
<1>18. ASSUME NEW h \in Friends PROVE SelfShown(h)'
  <2>1. SelfShown(h)
    BY <1>1 DEF Inv, SelvesShown
  <2>2. StateComes(h) => StateComes(h)'
    BY <1>14, <1>15 DEF StateComes, Waiting
  <2>3. h = f => Called(h)
    BY <1>9 DEF Called, Do, Msg
  <2>4. Called(h)' => Called(h)
    BY <1>13, <1>15, <2>3 DEF Called
  <2> QED
    BY <1>14, <2>1, <2>2, <2>4 DEF SelfShown
<1>19. Shapes'
  BY <1>1, <1>12, <1>14, <1>15 DEF Inv, Shapes, CallShape, ClearShape, UIShape, OneSource, NowShape,
     TakenShape
<1> QED
  BY <1>1, <1>16, <1>17, <1>18, <1>19 DEF Inv, SourcesFollow, FriendsShown, SelvesShown

\* What follows a post.
LEMMA CoreStepInv == ASSUME Inv, CoreStep PROVE Inv'
<1> DEFINE head == Head(work["core"])
           f == head.arg.friend
<1>1. Types' /\ Types /\ Up /\ Up'
  BY CommandTypes DEF Inv, CommandStep, CoreStep, histVars, Up
<1>2. /\ work["core"] \in Seq(Step) /\ work["core"] # <<>>
      /\ head.do \in {"hide", "show", "clear", "done"}
  BY <1>1 DEF CoreStep, Types, PostTypes
<1>3. work'["core"] = Tail(work["core"]) /\ work'["ui"] = work["ui"]
  BY <1>1 DEF CoreStep, Types, PostTypes
<1>4. Todo = Todo' \cup {head} /\ head \in Step
  BY <1>2, <1>3, ElementsTail DEF Todo
<1>5. /\ \A g \in Friends : call_state_self'[g] =
             IF g = f THEN Changed(head.do, call_state_self[g]) ELSE call_state_self[g]
      /\ \A g \in Friends : call_state_friend'[g] =
             IF g = f /\ head.do = "clear" THEN {} ELSE call_state_friend[g]
  BY DEF CoreStep, Set
<1>6. UNCHANGED <<toxav, pc, now, orders, toxav_msg, audio_msg, audio_dest, lost>>
  BY DEF CoreStep, boxVars, ctrlVars, audioVars, histVars
<1>7. \A g \in Friends : call_state_self[g] \in SUBSET {"A", "SV", "AV"}
  BY <1>1 DEF Types, FriendTypes
<1>8. head.do = "clear" => toxav[f] = "none"
  BY <1>4 DEF Inv, Shapes, ClearShape
<1>9. (\E s \in Todo : s.do = "call") => head.do # "clear" /\ \A s \in Todo' : s.do # "call"
  <2> SUFFICES ASSUME \E s \in Todo : s.do = "call"
               PROVE  head.do # "clear" /\ \A s \in Todo' : s.do # "call"
    OBVIOUS
  <2>1. PICK g \in Friends, w \in BOOLEAN :
          work["core"] \in {<<Post("OUTGOING_CALL_PENDING", g, w), Do("call", g, w), Do("done", g, w)>>,
                           <<Do("call", g, w), Do("done", g, w)>>}
    BY DEF Inv, Shapes, CallShape, Placing
  <2>2. head.do \in {"post", "call"}
    BY <2>1 DEF Post, Do
  <2> QED
    BY <1>2, <2>2
<1>10. (\A s \in Todo' : s.do # "call") /\ (head.do = "clear" => \A s \in Todo : s.do # "call")
  BY <1>4, <1>9
<1> HIDE DEF head, f
<1>11. ASSUME NEW g \in Friends PROVE SourceFollows(g)'
  <2>1. AfterMessage(g)' <=> AfterMessage(g)
    BY <1>6 DEF AfterMessage, AfterOrders, AfterAudio, HeardAbout, Waiting
  <2>2. ~PostsAbout(head, g)
    BY <1>2 DEF PostsAbout, head
  <2>3. SourceFollows(g)
    BY <1>1 DEF Inv, SourcesFollow
  <2> QED
    BY <1>4, <1>6, <2>1, <2>2, <2>3 DEF SourceFollows
<1>12. ASSUME NEW g \in Friends PROVE FriendShown(g)'
  <2>1. FriendShown(g)
    BY DEF Inv, FriendsShown
  <2>2. call_state_self'[g] # {"SV"}
    <3> DEFINE bits == call_state_self[g]
    <3>1. bits # {"SV"} /\ call_state_self'[g] \in {bits, Changed(head.do, bits)}
      BY <1>5, <2>1 DEF FriendShown
    <3>2. Changed(head.do, bits) \in {bits \ {"SV"}, bits \cup {"SV", "AV"}, {}, bits}
      BY <1>2 DEF Changed, head
    <3>3. bits \ {"SV"} # {"SV"} /\ bits \cup {"SV", "AV"} # {"SV"} /\ {} # {"SV"}
      OBVIOUS
    <3> HIDE DEF bits
    <3> QED
      BY <3>1, <3>2, <3>3
  <2>3. CASE g = f /\ head.do = "clear"
    BY <1>5, <1>6, <1>8, <2>2, <2>3 DEF FriendShown
  <2>4. CASE ~(g = f /\ head.do = "clear")
    <3>1. ~(head.do = "clear" /\ head.arg.friend = g)
      BY <2>4 DEF f
    <3>2. call_state_friend'[g] = call_state_friend[g]
      BY <1>5, <2>4
    <3> QED
      BY <1>4, <1>6, <2>1, <2>2, <3>1, <3>2 DEF FriendShown
  <2> QED
    BY <2>3, <2>4
<1>13. ASSUME NEW g \in Friends PROVE SelfShown(g)'
  <2>1. SelfShown(g)
    BY <1>1 DEF Inv, SelvesShown
  <2>2. StateComes(g) => StateComes(g)'
    BY <1>2, <1>4, <1>6 DEF StateComes, Waiting, head
  <2>3. Called(g)' => toxav[g] \in {"out", "active"}
    BY <1>6, <1>10 DEF Called
  <2>4. call_state_self[g] # {} /\ toxav[g] \in {"out", "active"} => call_state_self'[g] # {}
    <3> SUFFICES ASSUME call_state_self[g] # {}, toxav[g] \in {"out", "active"}
                 PROVE  call_state_self'[g] # {}
      OBVIOUS
    <3>1. g = f => head.do # "clear"
      BY <1>8
    <3>2. call_state_self[g] # {"SV"}
      BY DEF Inv, FriendsShown, FriendShown
    <3> QED
      BY <1>5, <1>7, <3>1, <3>2, ZenonT(30) DEF Changed
  <2> QED
    BY <2>1, <2>2, <2>3, <2>4 DEF SelfShown, Called
<1>14. Shapes'
  BY <1>1, <1>3, <1>4, <1>6, <1>10 DEF Inv, Shapes, CallShape, ClearShape, UIShape, OneSource,
     NowShape, TakenShape
<1> QED
  BY <1>1, <1>11, <1>12, <1>13, <1>14 DEF Inv, SourcesFollow, FriendsShown, SelvesShown

LEMMA CommandInv == ASSUME Inv, CommandStep PROVE Inv'
<1>1. Types'
  BY CommandTypes DEF Inv
<1>2. CASE \E f \in Friends : Handles(f)
  BY <1>1, <1>2, HandlesInv
<1>3. CASE PlaceCall \/ CoreStep
  BY <1>3, PlaceInv, CoreStepInv
<1> QED
  BY <1>2, <1>3, SendHandles, AnswerHandles, DisconnectHandles, PauseHandles, ResumeHandles,
     GroupHandles DEF CommandStep

-----------------------------------------------------------------------------
(* The way of a message *)

\* A step on the way of the messages takes none of them from a FRIEND.
Passes ==
    /\ Up' => Up
    /\ UNCHANGED <<toxav, call_state_friend>> /\ Todo' = Todo
    /\ \A f \in Friends :
         call_state_self'[f] \in {call_state_self[f], {"A"}, {"A", "SV", "AV"}}
    /\ Up' => \A f \in Friends :
         /\ AfterMessage(f)' <=> AfterMessage(f)
         /\ StateComes(f) => StateComes(f)' \/ call_state_self'[f] # {}

LEMMA PassesInv == ASSUME Inv, Types', Shapes', Passes PROVE Inv'
<1>1. ASSUME Up', NEW f \in Friends PROVE SourceFollows(f)'
  <2>1. SourceFollows(f) /\ (AfterMessage(f)' <=> AfterMessage(f))
    BY <1>1 DEF Inv, SourcesFollow, Passes
  <2> QED
    BY <2>1 DEF SourceFollows, Passes
<1>2. ASSUME NEW f \in Friends PROVE FriendShown(f)'
  <2>1. FriendShown(f)
    BY DEF Inv, FriendsShown
  <2>2. call_state_self'[f] # {"SV"}
    <3>1. call_state_self'[f] \in {call_state_self[f], {"A"}, {"A", "SV", "AV"}}
      BY DEF Passes
    <3>2. {"A"} # {"SV"} /\ {"A", "SV", "AV"} # {"SV"} /\ call_state_self[f] # {"SV"}
      BY <2>1 DEF FriendShown
    <3> QED
      BY <3>1, <3>2
  <2> QED
    BY <2>1, <2>2 DEF FriendShown, Passes
<1>3. ASSUME Up', NEW f \in Friends PROVE SelfShown(f)'
  <2>1. SelfShown(f)
    BY <1>3 DEF Inv, SelvesShown, Passes
  <2>2. Called(f)' => Called(f)
    BY DEF Called, Passes
  <2>3. StateComes(f) => StateComes(f)' \/ call_state_self'[f] # {}
    BY <1>3 DEF Passes
  <2>4. call_state_self[f] # {} => call_state_self'[f] # {}
    <3>1. call_state_self'[f] \in {call_state_self[f], {"A"}, {"A", "SV", "AV"}}
      BY DEF Passes
    <3>2. {"A"} # {} /\ {"A", "SV", "AV"} # {}
      OBVIOUS
    <3> QED
      BY <3>1, <3>2
  <2> QED
    BY <2>1, <2>2, <2>3, <2>4 DEF SelfShown
<1> QED
  BY <1>1, <1>2, <1>3 DEF Inv, SourcesFollow, FriendsShown, SelvesShown

\* Steps that leave every message where it is.
LEMMA StandsPasses ==
    ASSUME Inv, Up' => Up, Todo' = Todo, Waiting' <=> Waiting, Waiting => toxav_msg' = toxav_msg,
           UNCHANGED <<toxav, friendVars, now, orders, audio_msg, audio_dest>>
    PROVE  Passes
<1>1. \A f : AfterMessage(f)' <=> AfterMessage(f)
  BY DEF AfterMessage, AfterOrders, AfterAudio, HeardAbout
<1>2. \A f : StateComes(f) => StateComes(f)'
  BY DEF StateComes
<1> QED
  BY <1>1, <1>2 DEF Passes, friendVars

LEMMA UIInv == ASSUME Inv, UIStep PROVE Passes /\ Inv'
<1>1. Types' /\ Types
  BY UITypes DEF Inv
<1>2. /\ UNCHANGED <<toxav, friendVars, now, orders, audio_msg, audio_dest, pc, toxav_msg, lost>>
      /\ \/ work' = work
         \/ \E m \in Orderable, v \in BOOLEAN : work' = [work EXCEPT !["ui"] = <<Post(m, Nobody, v)>>]
  <2>1. CASE \E m : Press(m)
    BY <2>1 DEF Press, boxVars, ctrlVars, audioVars
  <2>2. ASSUME NEW same \in BOOLEAN, SelectAudioIn(same)
        PROVE  /\ UNCHANGED <<toxav, friendVars, now, orders, audio_msg, audio_dest, pc,
                              toxav_msg, lost>>
               /\ \E m \in Orderable, v \in BOOLEAN :
                    work' = [work EXCEPT !["ui"] = <<Post(m, Nobody, v)>>]
    BY <2>2 DEF SelectAudioIn, boxVars, ctrlVars, audioVars, Orderable
  <2>3. CASE PostCommand
    BY <2>3 DEF PostCommand, boxVars, ctrlVars, audioVars, histVars
  <2>4. ASSUME PressPreview \/ GroupMessage
        PROVE  /\ UNCHANGED <<toxav, friendVars, now, orders, audio_msg, audio_dest, pc,
                              toxav_msg, lost>>
               /\ \E m \in Orderable : work' = [work EXCEPT !["ui"] = <<Post(m, Nobody, FALSE)>>]
    BY <2>4 DEF PressPreview, GroupMessage, boxVars, ctrlVars, audioVars, Orderable
  <2>5. CASE \E f \in Friends : PressAudio(f) \/ PressDecline(f) \/ PressVideo(f)
    <3>1. \E m : Press(m)
      BY <2>5 DEF PressAudio, PressDecline, PressVideo
    <3> QED
      BY <2>1, <3>1
  <2>6. CASE PressGroup
    BY <2>1, <2>6 DEF PressGroup
  <2> QED
    BY <2>2, <2>3, <2>4, <2>5, <2>6 DEF UIStep
<1>3. work'["core"] = work["core"] /\ Todo' = Todo
  BY <1>1, <1>2 DEF Types, PostTypes, Todo
<1>4. UIShape'
  <2>1. CASE work' = work
    BY <2>1 DEF Inv, Shapes, UIShape
  <2>2. ASSUME NEW m \in Orderable, NEW v \in BOOLEAN,
               work' = [work EXCEPT !["ui"] = <<Post(m, Nobody, v)>>]
        PROVE  UIShape'
    <3>1. work'["ui"] = <<Post(m, Nobody, v)>>
      BY <1>1, <2>2 DEF Types, PostTypes
    <3>2. Elements(<<Post(m, Nobody, v)>>) = {Post(m, Nobody, v)}
      BY ElementsTuples
    <3> QED
      BY <3>1, <3>2 DEF UIShape, Post, Msg
  <2> QED
    BY <1>2, <2>1, <2>2
<1>5. Shapes'
  BY <1>2, <1>3, <1>4 DEF Inv, Shapes, CallShape, Placing, ClearShape, OneSource, NowShape,
     TakenShape, Up
<1>6. Passes
  BY <1>2, <1>3, StandsPasses DEF Waiting, Up
<1> QED
  BY <1>1, <1>5, <1>6, PassesInv

\* A message that the toxcore thread has written is the next to be taken.
LEMMA WriteCoreInv == ASSUME Inv, WriteMessage("core"), Types' PROVE Inv'
<1> DEFINE head == Head(work["core"])
<1>1. /\ Types /\ Up /\ work["core"] \in Seq(Step) /\ work["core"] # <<>> /\ head.do = "post"
  BY DEF Inv, Types, PostTypes, WriteMessage, Posting
<1>2. work'["core"] = Tail(work["core"]) /\ work'["ui"] = work["ui"]
  BY <1>1 DEF WriteMessage, Types, PostTypes
<1>3. Todo = Todo' \cup {head}
  BY <1>1, <1>2, ElementsTail DEF Todo
<1>4. toxav_msg' = <<head.arg>> /\ toxav_msg' # <<>> /\ Head(toxav_msg') = head.arg
  BY DEF WriteMessage
<1>5. /\ UNCHANGED <<toxav, call_state_self, call_state_friend, pc, now, orders>>
      /\ UNCHANGED <<audio_msg, audio_dest>>
  BY DEF WriteMessage, friendVars, ctrlVars, audioVars
<1>6. Up' => toxav_msg = <<>> /\ pc # "work" /\ ~Waiting /\ Waiting'
  BY <1>1, <1>4, <1>5 DEF WriteMessage, Up, Inv, Shapes, TakenShape, Waiting
<1>7. (\E s \in Todo : s.do = "call") => Placing'
  <2> SUFFICES ASSUME \E s \in Todo : s.do = "call" PROVE Placing'
    OBVIOUS
  <2>1. PICK g \in Friends, w \in BOOLEAN :
          work["core"] \in {<<Post("OUTGOING_CALL_PENDING", g, w), Do("call", g, w), Do("done", g, w)>>,
                           <<Do("call", g, w), Do("done", g, w)>>}
    BY DEF Inv, Shapes, CallShape, Placing
  <2>2. work["core"] = <<Post("OUTGOING_CALL_PENDING", g, w), Do("call", g, w), Do("done", g, w)>>
    BY <1>1, <2>1 DEF Do
  <2>3. Tail(work["core"]) = <<Do("call", g, w), Do("done", g, w)>>
    BY <2>2
  <2> QED
    BY <1>2, <2>3 DEF Placing
<1> HIDE DEF head
<1>8. ASSUME Up', NEW f \in Friends PROVE SourceFollows(f)'
  <2>1. SourceFollows(f)
    BY <1>1, <1>8 DEF Inv, SourcesFollow
  <2>2. AfterMessage(f) <=> AfterOrders(f)
    BY <1>6, <1>8 DEF AfterMessage
  <2>3. AfterOrders(f)' <=> AfterOrders(f)
    BY <1>5 DEF AfterOrders, AfterAudio, HeardAbout
  <2>4. CASE Says(head.arg, f)
    <3>1. head.arg.msg \in Starts <=> toxav[f] = "active"
      BY <1>1, <1>3, <2>1, <2>4 DEF SourceFollows, PostsAbout, head
    <3>2. AfterMessage(f)' <=> head.arg.msg \in Starts
      BY <1>4, <1>6, <1>8, <2>4 DEF AfterMessage
    <3> QED
      BY <1>3, <1>5, <2>1, <3>1, <3>2 DEF SourceFollows
  <2>5. CASE ~Says(head.arg, f)
    <3>1. AfterMessage(f)' <=> AfterOrders(f)'
      BY <1>4, <2>5 DEF AfterMessage
    <3>2. ~PostsAbout(head, f)
      BY <2>5 DEF PostsAbout
    <3> QED
      BY <1>3, <1>5, <2>1, <2>2, <2>3, <3>1, <3>2 DEF SourceFollows
  <2> QED
    BY <2>4, <2>5
<1>9. ASSUME NEW f \in Friends PROVE FriendShown(f)'
  <2>1. head.do # "clear"
    BY <1>1 DEF head
  <2> QED
    BY <1>3, <1>5, <2>1 DEF Inv, FriendsShown, FriendShown
<1>10. ASSUME Up', NEW f \in Friends PROVE SelfShown(f)'
  <2>1. SelfShown(f)
    BY <1>1, <1>10 DEF Inv, SelvesShown
  <2>2. StateComes(f) => StateComes(f)'
    BY <1>3, <1>4, <1>5, <1>6, <1>10 DEF StateComes
  <2>3. Called(f)' => Called(f)
    BY <1>3, <1>5 DEF Called
  <2> QED
    BY <1>5, <2>1, <2>2, <2>3 DEF SelfShown
<1>11. Shapes'
  BY <1>2, <1>3, <1>4, <1>5, <1>7 DEF Inv, Shapes, CallShape, ClearShape, UIShape, OneSource,
     NowShape, TakenShape
<1> QED
  BY <1>8, <1>9, <1>10, <1>11 DEF Inv, SourcesFollow, FriendsShown, SelvesShown

\* One that the UI thread has written is about no FRIEND.
LEMMA WriteUIInv == ASSUME Inv, WriteMessage("ui"), Types' PROVE Passes /\ Inv'
<1> DEFINE head == Head(work["ui"])
<1>1. /\ Types /\ Up /\ work["ui"] \in Seq(Step) /\ work["ui"] # <<>>
  BY DEF Inv, Types, PostTypes, WriteMessage, Posting
<1>2. work'["ui"] = Tail(work["ui"]) /\ work'["core"] = work["core"] /\ Todo' = Todo
  BY <1>1 DEF WriteMessage, Types, PostTypes, Todo
<1>3. Elements(work["ui"]) = Elements(work'["ui"]) \cup {head}
  BY <1>1, <1>2, ElementsTail
<1>4. head.arg.friend = Nobody /\ Nobody \notin Friends
  BY <1>3, CallsAssumption DEF Inv, Shapes, UIShape, CallsAssumption, Nobody
<1>5. toxav_msg' = <<head.arg>> /\ toxav_msg' # <<>> /\ Head(toxav_msg') = head.arg
  BY DEF WriteMessage
<1>6. /\ UNCHANGED <<toxav, call_state_self, call_state_friend, pc, now, orders>>
      /\ UNCHANGED <<audio_msg, audio_dest>>
  BY DEF WriteMessage, friendVars, ctrlVars, audioVars
<1>7. Up' => ~Waiting
  BY <1>1 DEF WriteMessage, Up, Waiting
<1> HIDE DEF head
<1>8. \A f \in Friends : ~Says(Head(toxav_msg'), f) /\ ~Sets(Head(toxav_msg'), f)
  BY <1>4, <1>5 DEF Says, Sets
<1>9. ASSUME Up', NEW f \in Friends PROVE AfterMessage(f)' <=> AfterMessage(f)
  <2>1. AfterOrders(f)' <=> AfterOrders(f)
    BY <1>6 DEF AfterOrders, AfterAudio, HeardAbout
  <2> QED
    BY <1>7, <1>8, <1>9, <2>1 DEF AfterMessage
<1>10. ASSUME Up', NEW f \in Friends PROVE StateComes(f) => StateComes(f)'
  BY <1>2, <1>6, <1>7, <1>10 DEF StateComes
<1>11. Passes
  BY <1>1, <1>2, <1>6, <1>9, <1>10 DEF Passes
<1>12. Shapes'
  BY <1>2, <1>3, <1>5, <1>6 DEF Inv, Shapes, CallShape, Placing, ClearShape, UIShape, OneSource,
     NowShape, TakenShape
<1> QED
  BY <1>11, <1>12, PassesInv

LEMMA PostInv == ASSUME Inv, PostStep PROVE Inv'
<1>1. Types'
  BY PostingTypes DEF Inv
<1>2. ASSUME NEW p \in {"core", "ui"}, SeeFlagDown(p) \/ GiveUp(p) PROVE Inv'
  <2>1. /\ UNCHANGED <<toxav, friendVars, now, orders, audio_msg, audio_dest, pc, toxav_msg, work>>
        /\ Up' => Up
    BY <1>2 DEF SeeFlagDown, GiveUp, Posting, boxVars, ctrlVars, audioVars, histVars
  <2>2. Passes
    BY <2>1, StandsPasses DEF Waiting, Todo
  <2>3. Shapes'
    BY <2>1 DEF Inv, Shapes, CallShape, Placing, ClearShape, UIShape, OneSource, NowShape,
       TakenShape, Todo
  <2> QED
    BY <1>1, <2>2, <2>3, PassesInv
<1> QED
  BY <1>1, <1>2, WriteCoreInv, WriteUIInv DEF PostStep

\* What a message orders.
OrdersAre(m, os) ==
    /\ "START_FRIEND" \in os <=> m \in Starts
    /\ "STOP_FRIEND" \in os <=> m = "CALL_END"
    /\ "state" \in os <=> m \in {"INCOMING_CALL_ANSWER", "OUTGOING_CALL_PENDING"}
    /\ "PLAY_RINGTONE" \in os <=> m \in {"INCOMING_CALL_PENDING", "OUTGOING_CALL_PENDING"}
    /\ "STOP_RINGTONE" \in os <=> m \in Starts \cup {"CALL_END"}
    /\ "video_on" \in os <=> m = "START_VIDEO"
    /\ "video_off" \in os <=> m \in {"STOP_VIDEO", "CALL_END"}
    /\ "GROUPCHAT_START" \in os <=> m = "GROUPCALL_START"
    /\ "GROUPCHAT_STOP" \in os <=> m = "GROUPCALL_END"
    /\ "START_PREVIEW" \in os <=> m = "START_AUDIO"
    /\ "STOP_PREVIEW" \in os <=> m = "STOP_AUDIO"

LEMMA OrdersElements ==
    ASSUME NEW m \in Orderable PROVE OrdersAre(m, Elements(Orders(m))) /\ Once(Orders(m))
<1>1. CASE m = "INCOMING_CALL_ANSWER"
  <2>1. Orders(m) = <<"STOP_RINGTONE", "START_FRIEND", "state">>
    BY <1>1 DEF Orders
  <2>2. Elements(<<"STOP_RINGTONE", "START_FRIEND", "state">>)
          = {"STOP_RINGTONE", "START_FRIEND", "state"}
    BY DEF Elements
  <2>3. Once(<<"STOP_RINGTONE", "START_FRIEND", "state">>)
    BY DEF Once
  <2> QED
    BY <1>1, <2>1, <2>2, <2>3 DEF Starts, OrdersAre
<1>2. CASE m = "CALL_END"
  <2>1. Orders(m) = <<"video_off", "STOP_FRIEND", "STOP_RINGTONE">>
    BY <1>2 DEF Orders
  <2>2. Elements(<<"video_off", "STOP_FRIEND", "STOP_RINGTONE">>)
          = {"video_off", "STOP_FRIEND", "STOP_RINGTONE"}
    BY DEF Elements
  <2>3. Once(<<"video_off", "STOP_FRIEND", "STOP_RINGTONE">>)
    BY DEF Once
  <2> QED
    BY <1>2, <2>1, <2>2, <2>3 DEF Starts, OrdersAre
<1>3. CASE m = "OUTGOING_CALL_PENDING"
  <2>1. Orders(m) = <<"PLAY_RINGTONE", "state">>
    BY <1>3 DEF Orders
  <2>2. Elements(<<"PLAY_RINGTONE", "state">>) = {"PLAY_RINGTONE", "state"}
    BY ElementsTuples
  <2>3. Once(<<"PLAY_RINGTONE", "state">>)
    BY DEF Once
  <2> QED
    BY <1>3, <2>1, <2>2, <2>3 DEF Starts, OrdersAre
<1>4. CASE m = "OUTGOING_CALL_ACCEPTED"
  <2>1. Orders(m) = <<"START_FRIEND", "STOP_RINGTONE">>
    BY <1>4 DEF Orders
  <2>2. Elements(<<"START_FRIEND", "STOP_RINGTONE">>) = {"START_FRIEND", "STOP_RINGTONE"}
    BY ElementsTuples
  <2>3. Once(<<"START_FRIEND", "STOP_RINGTONE">>)
    BY DEF Once
  <2> QED
    BY <1>4, <2>1, <2>2, <2>3 DEF Starts, OrdersAre
<1>5. CASE m \notin {"INCOMING_CALL_ANSWER", "CALL_END", "OUTGOING_CALL_PENDING",
                    "OUTGOING_CALL_ACCEPTED"}
  <2>1. PICK a \in {"PLAY_RINGTONE", "GROUPCHAT_START", "GROUPCHAT_STOP", "START_PREVIEW",
                   "STOP_PREVIEW", "video_on", "video_off", "device"} :
          Orders(m) = <<a>> /\ OrdersAre(m, {a})
    BY <1>5 DEF Orders, Orderable, OrdersAre, Starts
  <2>2. Elements(<<a>>) = {a}
    BY ElementsTuples
  <2>3. Once(<<a>>)
    BY DEF Once
  <2> QED
    BY <2>1, <2>2, <2>3
<1> QED
  BY <1>1, <1>2, <1>3, <1>4, <1>5

LEMMA TakeInv == ASSUME Inv, TakeMessage, Types' PROVE Passes /\ Inv'
<1> DEFINE m == Head(toxav_msg).msg
<1>1. Types /\ Up /\ pc = "poll" /\ toxav_msg # <<>> /\ pc' = "work" /\ now' = Head(toxav_msg)
  BY DEF Inv, TakeMessage
<1>2. Waiting /\ ~Waiting'
  BY <1>1 DEF Waiting
<1>3. m \in Orderable
  BY <1>1, OneHead DEF Types, PostTypes, Messages
<1>4. now.friend = Nobody /\ Nobody \notin Friends
  BY <1>1, CallsAssumption DEF Inv, Shapes, NowShape, General, Msg, CallsAssumption, Nobody
<1>5. /\ UNCHANGED <<toxav, call_state_self, call_state_friend, toxav_msg, work, lost>>
      /\ UNCHANGED <<audio_msg, audio_dest>>
  BY DEF TakeMessage, friendVars, boxVars, audioVars
<1>6. /\ "START_FRIEND" \in Elements(orders') <=> m \in Starts
      /\ "STOP_FRIEND" \in Elements(orders') <=> m = "CALL_END"
      /\ m \in {"INCOMING_CALL_ANSWER", "OUTGOING_CALL_PENDING"} => "state" \in Elements(orders')
  <2>1. CASE Refused(m)
    <3>1. orders' = <<>> /\ m \in {"GROUPCALL_END", "STOP_AUDIO"}
      BY <2>1 DEF TakeMessage, Refused
    <3>2. Elements(orders') = {}
      BY <3>1, ElementsTuples
    <3> QED
      BY <3>1, <3>2 DEF Starts
  <2>2. CASE ~Refused(m)
    <3>1. orders' = Orders(m)
      BY <2>2 DEF TakeMessage
    <3> QED
      BY <1>3, <3>1, OrdersElements DEF OrdersAre
  <2> QED
    BY <2>1, <2>2
<1>7. \A f : AfterAudio(f)' <=> AfterAudio(f)
  BY <1>5 DEF AfterAudio, HeardAbout
<1> HIDE DEF m
<1>8. ASSUME NEW f \in Friends PROVE AfterMessage(f)' <=> AfterMessage(f)
  <2>1. AfterMessage(f) <=> IF Says(Head(toxav_msg), f) THEN m \in Starts ELSE AfterAudio(f)
    BY <1>2, <1>4 DEF AfterMessage, AfterOrders, m
  <2>2. AfterMessage(f)' <=> IF Says(Head(toxav_msg), f) THEN m \in Starts ELSE AfterAudio(f)'
    BY <1>1, <1>2, <1>6 DEF AfterMessage, AfterOrders, Says, m
  <2> QED
    BY <1>7, <2>1, <2>2
<1>9. ASSUME NEW f \in Friends PROVE StateComes(f) => StateComes(f)'
  BY <1>1, <1>4, <1>5, <1>6 DEF StateComes, Sets, Todo, m
<1>10. Passes
  BY <1>1, <1>5, <1>8, <1>9 DEF Passes, Todo, Up
<1>11. Shapes'
  BY <1>1, <1>5, <1>6 DEF Inv, Shapes, CallShape, Placing, ClearShape, UIShape, OneSource,
     NowShape, TakenShape, Todo, Starts
<1> QED
  BY <1>10, <1>11, PassesInv

\* An order that is about no source and no state.
LEMMA OrderedTail ==
    ASSUME Types, orders # <<>>, orders' = Tail(orders)
    PROVE  Elements(orders) = Elements(orders') \cup {Head(orders)}
BY ElementsTail DEF Types, ControlTypes

LEMMA PostAudioInv == ASSUME Inv, PostAudio, Types'
    PROVE  Passes /\ Inv' /\ \A f \in Friends : AfterOrders(f)' <=> AfterOrders(f)
<1> DEFINE order == Head(orders)
<1>1. /\ Types /\ Up /\ pc = "work" /\ order \in AudioOrders /\ audio_msg = <<>>
      /\ Elements(orders) = Elements(orders') \cup {order}
  BY OrderedTail DEF Inv, PostAudio, Ordered
<1>2. /\ audio_msg' # <<>> /\ Head(audio_msg').msg = order /\ Head(audio_msg').friend = now.friend
  BY DEF PostAudio, Msg
<1>3. UNCHANGED <<toxav, call_state_self, call_state_friend, toxav_msg, work, lost, pc, now,
                  audio_dest>>
  BY DEF PostAudio, friendVars, boxVars, histVars
<1> HIDE DEF order
<1>4. ~("START_FRIEND" \in Elements(orders) /\ "STOP_FRIEND" \in Elements(orders))
  BY DEF Inv, Shapes, OneSource
<1>5. ASSUME NEW f \in Friends PROVE AfterOrders(f)' <=> AfterOrders(f)
  <2>1. AfterAudio(f) <=> audio_dest[f] = TRUE
    BY <1>1 DEF AfterAudio, HeardAbout
  <2>2. AfterAudio(f)' <=> IF now.friend = f /\ order \in {"START_FRIEND", "STOP_FRIEND"}
                          THEN order = "START_FRIEND" ELSE audio_dest[f] = TRUE
    BY <1>2, <1>3 DEF AfterAudio, HeardAbout
  <2> QED
    BY <1>1, <1>3, <1>4, <2>1, <2>2 DEF AfterOrders
<1>6. ASSUME NEW f \in Friends PROVE AfterMessage(f)' <=> AfterMessage(f)
  BY <1>3, <1>5 DEF AfterMessage, Waiting
<1>7. ASSUME NEW f \in Friends PROVE StateComes(f) => StateComes(f)'
  <2>1. order # "state"
    BY <1>1 DEF AudioOrders
  <2> QED
    BY <1>1, <1>3, <2>1 DEF StateComes, Waiting, Todo
<1>8. Passes
  BY <1>3, <1>6, <1>7 DEF Passes, Todo, Up
<1>9. Shapes'
  BY <1>1, <1>3 DEF Inv, Shapes, CallShape, Placing, ClearShape, UIShape, OneSource, NowShape,
     TakenShape, Todo, Up
<1> QED
  BY <1>5, <1>8, <1>9, PassesInv

LEMMA SetStateInv == ASSUME Inv, SetState, Types' PROVE Passes /\ Inv'
<1>1. /\ Types /\ Up /\ pc = "work" /\ Head(orders) = "state"
      /\ Elements(orders) = Elements(orders') \cup {Head(orders)}
  BY OrderedTail DEF Inv, SetState, Ordered
<1>2. UNCHANGED <<toxav, call_state_friend, toxav_msg, work, lost, pc, now, audio_msg, audio_dest>>
  BY DEF SetState, boxVars, audioVars, histVars
<1>3. \A f \in Friends :
        /\ call_state_self'[f] \in {call_state_self[f], {"A"}, {"A", "SV", "AV"}}
        /\ f = now.friend => call_state_self'[f] # {}
  <2>1. \A f \in Friends : call_state_self'[f] =
          IF f = now.friend THEN (IF now.video THEN {"A", "SV", "AV"} ELSE {"A"})
          ELSE call_state_self[f]
    BY DEF SetState, Set
  <2>2. {"A", "SV", "AV"} # {} /\ {"A"} # {}
    OBVIOUS
  <2> QED
    BY <2>1, <2>2
<1>4. ASSUME NEW f \in Friends PROVE AfterMessage(f)' <=> AfterMessage(f)
  BY <1>1, <1>2 DEF AfterMessage, AfterOrders, AfterAudio, HeardAbout, Waiting
<1>5. ASSUME NEW f \in Friends PROVE StateComes(f) => StateComes(f)' \/ call_state_self'[f] # {}
  BY <1>2, <1>3 DEF StateComes, Waiting, Todo
<1>6. Passes
  BY <1>2, <1>3, <1>4, <1>5 DEF Passes, Todo, Up
<1>7. Shapes'
  BY <1>1, <1>2 DEF Inv, Shapes, CallShape, Placing, ClearShape, UIShape, OneSource, NowShape,
     TakenShape, Todo, Up
<1> QED
  BY <1>6, <1>7, PassesInv

\* The flag is lowered over a message that was handled.
LEMMA LowerInv == ASSUME Inv, Lower, Types' PROVE Passes /\ Inv'
<1>1. /\ Types /\ Up /\ toxav_msg' = <<>> /\ now' = General("none") /\ pc' = "poll"
      /\ now'.friend = Nobody /\ Nobody \notin Friends /\ ~Waiting'
  BY CallsAssumption DEF Inv, Lower, General, Msg, CallsAssumption, Nobody, Waiting
<1>2. UNCHANGED <<toxav, call_state_self, call_state_friend, work, orders, audio_msg, audio_dest>>
  BY DEF Lower, friendVars, audioVars
<1>3. ASSUME Up' PROVE ~Waiting
  <2>1. pc # "work" => now.msg = "none"
    BY DEF Inv, Shapes, NowShape, General, Msg
  <2>2. ~(toxav_msg # <<>> /\ now.msg = "none")
    BY <1>3 DEF Lower, Up
  <2> QED
    BY <2>1, <2>2 DEF Waiting
<1>4. ASSUME NEW f \in Friends
      PROVE  ~(now.friend = f /\ Elements(orders) # {})
  <2>1. CASE orders = <<>>
    BY <2>1, ElementsTuples
  <2>2. CASE orders # <<>>
    BY <1>1, <2>2 DEF Lower, Inv, Shapes, NowShape, General, Msg
  <2> QED
    BY <2>1, <2>2
<1>5. ASSUME Up', NEW f \in Friends PROVE AfterMessage(f)' <=> AfterMessage(f)
  <2>1. AfterMessage(f) <=> AfterAudio(f)
    BY <1>3, <1>4, <1>5 DEF AfterMessage, AfterOrders
  <2>2. AfterMessage(f)' <=> AfterAudio(f)'
    BY <1>1 DEF AfterMessage, AfterOrders
  <2> QED
    BY <1>2, <2>1, <2>2 DEF AfterAudio, HeardAbout
<1>6. ASSUME Up', NEW f \in Friends PROVE StateComes(f) => StateComes(f)'
  BY <1>2, <1>3, <1>4, <1>6 DEF StateComes, Todo
<1>7. Passes
  BY <1>1, <1>2, <1>5, <1>6 DEF Passes, Todo
<1>8. Shapes'
  BY <1>1, <1>2 DEF Inv, Shapes, CallShape, Placing, ClearShape, UIShape, OneSource, NowShape,
     TakenShape, Todo
<1> QED
  BY <1>7, <1>8, PassesInv

\* An order about the camera or the microphone, and the end of an idle poll.
LEMMA OtherControlInv ==
    ASSUME Inv, Types', NoMessage \/ GiveUpAudio \/ SwitchVideo \/ SetAudioIn
    PROVE  Passes /\ Inv'
<1>1. /\ UNCHANGED <<toxav, friendVars, toxav_msg, work, now, audio_msg, audio_dest>>
      /\ Up' => Up
  BY DEF NoMessage, GiveUpAudio, SwitchVideo, SetAudioIn, Ordered, ctrlVars, boxVars, audioVars,
     histVars
<1>2. /\ \A o \in {"START_FRIEND", "STOP_FRIEND", "state"} :
           o \in Elements(orders') <=> o \in Elements(orders)
      /\ pc' # pc => pc = "poll" /\ pc' = "lower"
  <2>1. CASE NoMessage \/ GiveUpAudio
    BY <2>1 DEF NoMessage, GiveUpAudio, ctrlVars
  <2>2. CASE SwitchVideo \/ SetAudioIn
    <3>1. /\ Elements(orders) = Elements(orders') \cup {Head(orders)}
          /\ Head(orders) \in {"video_on", "video_off", "device"} /\ pc' = pc
      BY <2>2, OrderedTail DEF SwitchVideo, SetAudioIn, Ordered, Inv
    <3> QED
      BY <3>1
  <2> QED
    BY <2>1, <2>2
<1>3. Waiting' <=> Waiting
  BY <1>1, <1>2 DEF Waiting
<1>4. ASSUME NEW f \in Friends
      PROVE  (AfterMessage(f)' <=> AfterMessage(f)) /\ (StateComes(f) => StateComes(f)')
  <2>1. AfterAudio(f)' <=> AfterAudio(f)
    BY <1>1 DEF AfterAudio, HeardAbout
  <2>2. AfterOrders(f)' <=> AfterOrders(f)
    BY <1>1, <1>2, <2>1 DEF AfterOrders
  <2> QED
    BY <1>1, <1>2, <1>3, <2>2 DEF AfterMessage, StateComes, Todo
<1>5. Passes
  BY <1>1, <1>4 DEF Passes, Todo, friendVars
<1>6. Shapes'
  BY <1>1, <1>2 DEF Inv, Shapes, CallShape, Placing, ClearShape, UIShape, OneSource, NowShape,
     TakenShape, Todo
<1> QED
  BY <1>5, <1>6, PassesInv

LEMMA ControlInv == ASSUME Inv, ControlStep PROVE Inv'
<1>1. Types'
  BY ControlStepTypes DEF Inv
<1> QED
  BY <1>1, TakeInv, PostAudioInv, SetStateInv, LowerInv, OtherControlInv DEF ControlStep

\* The audio thread does what it has heard.
LEMMA AudioInv == ASSUME Inv, AudioStep
    PROVE  Passes /\ Inv' /\ \A f \in Friends : AfterAudio(f)' <=> AfterAudio(f)
<1>1. Types' /\ Types /\ Up
  BY AudioStepTypes DEF Inv, AudioStep, StartFriend, StopFriend, StartOther, StopOther, Ring, Heard
<1>2. UNCHANGED <<toxav, call_state_self, call_state_friend, toxav_msg, work, lost, pc, now, orders>>
  BY DEF AudioStep, StartFriend, StopFriend, StartOther, StopOther, Ring, friendVars, boxVars,
     ctrlVars, histVars
<1>3. audio_msg # <<>> /\ audio_msg' = <<>>
  BY DEF AudioStep, StartFriend, StopFriend, StartOther, StopOther, Ring, Heard
<1>4. ASSUME NEW f \in Friends PROVE AfterAudio(f)' <=> AfterAudio(f)
  <2>1. AfterAudio(f)' <=> audio_dest'[f] = TRUE
    BY <1>3 DEF AfterAudio, HeardAbout
  <2>2. CASE StartFriend
    <3>1. /\ Head(audio_msg).msg = "START_FRIEND"
          /\ audio_dest'[f] = IF f = Head(audio_msg).friend THEN TRUE ELSE audio_dest[f]
      BY <2>2 DEF StartFriend, Heard, Set
    <3> QED
      BY <1>3, <2>1, <3>1 DEF AfterAudio, HeardAbout
  <2>3. CASE StopFriend
    <3>1. /\ Head(audio_msg).msg = "STOP_FRIEND"
          /\ audio_dest'[f] = IF f = Head(audio_msg).friend THEN FALSE ELSE audio_dest[f]
      BY <2>3 DEF StopFriend, Heard, Set
    <3> QED
      BY <1>3, <2>1, <3>1 DEF AfterAudio, HeardAbout
  <2>4. CASE StartOther \/ StopOther \/ Ring
    <3>1. audio_dest' = audio_dest /\ Head(audio_msg).msg \notin {"START_FRIEND", "STOP_FRIEND"}
      BY <2>4 DEF StartOther, StopOther, Ring, Heard
    <3> QED
      BY <1>3, <2>1, <3>1 DEF AfterAudio, HeardAbout
  <2> QED
    BY <2>2, <2>3, <2>4 DEF AudioStep
<1>5. ASSUME NEW f \in Friends
      PROVE  (AfterMessage(f)' <=> AfterMessage(f)) /\ (StateComes(f) => StateComes(f)')
  BY <1>2, <1>4 DEF AfterMessage, AfterOrders, StateComes, Waiting, Todo
<1>6. Passes
  BY <1>2, <1>5 DEF Passes, Todo, Up
<1>7. Shapes'
  BY <1>2 DEF Inv, Shapes, CallShape, Placing, ClearShape, UIShape, OneSource, NowShape,
     TakenShape, Todo, Up
<1> QED
  BY <1>1, <1>4, <1>6, <1>7, PassesInv

-----------------------------------------------------------------------------
(* What is on keeps its cause *)

LEMMA PlainStays == ASSUME [Next]_vars PROVE Plain' => Plain
<1>1. CASE UNCHANGED vars
  BY <1>1 DEF vars, histVars, Plain, Up
<1>2. CASE CommandStep
  <2>1. Up
    BY <1>2 DEF CommandStep, CallSend, CallAnswer, CallDisconnect, PauseVideo, ResumeVideo,
       GroupAudio, Command, CoreIdle, PlaceCall, CoreStep
  <2>2. odd \subseteq odd'
    BY <1>2 DEF CommandStep, CallSend, CallAnswer, CallDisconnect, PauseVideo, ResumeVideo,
       GroupAudio, PlaceCall, CoreStep, histVars
  <2> QED
    BY <2>1, <2>2 DEF Plain
<1>3. CASE CallbackStep
  <2>1. Up
    BY <1>3 DEF CallbackStep, IncomingCall, ChangeState, Finish, Offline, Callback, CoreIdle
  <2>2. odd \subseteq odd'
    BY <1>3 DEF CallbackStep, IncomingCall, ChangeState, Finish, Offline
  <2> QED
    BY <2>1, <2>2 DEF Plain
<1>4. CASE UIStep
  <2>1. ASSUME NEW m, Press(m) PROVE Up /\ odd' = odd
    BY <2>1 DEF Press, UIIdle
  <2>2. CASE \E f \in Friends : PressAudio(f) \/ PressDecline(f) \/ PressVideo(f)
    <3>1. \E m : Press(m)
      BY <2>2 DEF PressAudio, PressDecline, PressVideo
    <3> QED
      BY <2>1, <3>1 DEF Plain
  <2>3. CASE PressGroup
    BY <2>1, <2>3 DEF PressGroup, Plain
  <2>4. CASE PostCommand \/ PressPreview \/ GroupMessage \/ \E same \in BOOLEAN : SelectAudioIn(same)
    <3>1. Up /\ odd \subseteq odd'
      BY <2>4 DEF PostCommand, PressPreview, GroupMessage, SelectAudioIn, UIIdle, histVars
    <3> QED
      BY <3>1 DEF Plain
  <2> QED
    BY <1>4, <2>2, <2>3, <2>4 DEF UIStep
<1>5. CASE PostStep
  BY <1>5 DEF PostStep, SeeFlagDown, WriteMessage, GiveUp, Posting, histVars, Plain
<1>6. CASE ControlStep
  <2>1. Up
    BY <1>6 DEF ControlStep, TakeMessage, NoMessage, PostAudio, GiveUpAudio, SetState, SwitchVideo,
       SetAudioIn, Lower, Ordered
  <2>2. odd \subseteq odd'
    BY <1>6 DEF ControlStep, TakeMessage, NoMessage, PostAudio, GiveUpAudio, SetState, SwitchVideo,
       SetAudioIn, Lower, histVars
  <2> QED
    BY <2>1, <2>2 DEF Plain
<1>7. CASE AudioStep
  BY <1>7 DEF AudioStep, StartFriend, StopFriend, StartOther, StopOther, Ring, Heard, histVars, Plain
<1> QED
  BY <1>1, <1>2, <1>3, <1>4, <1>5, <1>6, <1>7 DEF Next

\* The microphone and the sources stay as they are, and no use ends.
LEMMA BoundKeeps ==
    ASSUME Bounded, Types, Types', Plain' => Plain, UNCHANGED <<microphone_count, audio_dest>>,
           Plain' => \A k \in Uses : BeforeAudio(k) => BeforeAudio(k)'
    PROVE  Bounded'
<1>1. Listened' = Listened
  BY DEF Listened
<1>2. Plain' => /\ N(BeforeAudio("group")) <= N(BeforeAudio("group")')
                /\ N(BeforeAudio("preview")) <= N(BeforeAudio("preview")')
  BY DEF Uses, N
<1>3. \A b : N(b) \in Nat
  BY DEF N
<1>4. Cardinality(Listened) \in Nat /\ microphone_count \in Nat
  BY FS_CardinalityType DEF Bounded, Types, AudioTypes
<1>5. ASSUME Plain'
      PROVE  microphone_count <= Cardinality(Listened) + N(BeforeAudio("group")')
                                 + N(BeforeAudio("preview")')
  <2>1. microphone_count <= Cardinality(Listened) + N(BeforeAudio("group"))
                            + N(BeforeAudio("preview"))
    BY <1>5 DEF Bounded
  <2> QED
    BY <1>2, <1>3, <1>4, <1>5, <2>1
<1>6. microphone_count' = microphone_count
  OBVIOUS
<1>7. Bounded' <=> /\ IsFiniteSet(Listened')
                   /\ Plain' => microphone_count' <= Cardinality(Listened') + N(BeforeAudio("group")')
                                   + N(BeforeAudio("preview")')
  BY DEF Bounded
<1> QED
  BY <1>1, <1>5, <1>6, <1>7 DEF Bounded

\* A step that takes no message from the toxcore thread.
LEMMA SteadyCauses ==
    ASSUME Causes, Types, Types', Arranged', Plain' => Plain, Todo' = Todo, toxav' = toxav,
           UNCHANGED <<microphone_count, audio_dest>>,
           Plain' => \A k \in Signals : OnAfterMessage(k)' => OnAfterMessage(k),
           Plain' => \A f \in Friends : Fresh(f)',
           Plain' => \A k \in Uses : UseBegins(k)' /\ (BeforeAudio(k) => BeforeAudio(k)')
    PROVE  Causes'
<1>1. Bounded'
  BY BoundKeeps DEF Causes
<1>2. ASSUME Plain', NEW k \in Signals PROVE HasCause(k)'
  <2>1. HasCause(k) /\ (OnAfterMessage(k)' => OnAfterMessage(k))
    BY <1>2 DEF Causes, SignalsCaused
  <2>2. \A f : Cause(k, f)' <=> Cause(k, f)
    BY DEF Cause, Called
  <2> QED
    BY <2>1, <2>2 DEF HasCause
<1> QED
  BY <1>1, <1>2 DEF Causes, SignalsCaused, StartsFresh, UsesBegin

\* The handlers of the toxcore thread.
LEMMA LeavesCauses ==
    ASSUME Inv, Causes, Types', Plain' => Plain, NEW f \in Friends, Handles(f), Leaves(f)
    PROVE  Causes'
<1>1. /\ Up /\ Todo = {}
      /\ UNCHANGED <<pc, now, orders, toxav_msg, audio_msg, audio_dest, video_active, ringtone>>
      /\ UNCHANGED <<microphone_count, audio_preview, active_call>>
      /\ work'["ui"] = work["ui"]
      /\ \A g \in Friends \ {f} : toxav'[g] = toxav[g]
  BY DEF Handles, Leaves
<1>2. \A k : OnAfterMessage(k)' <=> OnAfterMessage(k)
  BY <1>1 DEF OnAfterMessage, OnAfterOrders, OrdersOn, OrdersOff, IsOn, Waiting
<1>3. \A g : /\ AfterAudio(g)' <=> AfterAudio(g)
             /\ AfterOrders(g)' <=> AfterOrders(g)
             /\ AfterMessage(g)' <=> AfterMessage(g)
  BY <1>1 DEF AfterMessage, AfterOrders, AfterAudio, HeardAbout, Waiting
<1>4. \A k : (BeforeAudio(k)' <=> BeforeAudio(k)) /\ (UseBegins(k)' <=> UseBegins(k))
  BY <1>1 DEF BeforeAudio, BeforeOrders, BeforeMessage, BeforeUI, UseBegins, UIHas, BoxHas,
     OrdersHave, AudioHas, Used, Waiting
<1>5. Arranged'
  BY <1>1 DEF Handles, Leaves, Arranged, Causes, UIMessages, Waiting
<1>6. Bounded'
  BY <1>1, <1>4, BoundKeeps DEF Causes, Inv
<1>7. ASSUME Plain', NEW k \in Signals PROVE HasCause(k)'
  <2>1. HasCause(k)
    BY <1>7 DEF Causes, SignalsCaused
  <2>2. ASSUME NEW s \in Todo', s.do = "post", On(k, s.arg) PROVE Cause(k, s.arg.friend)'
    <3>1. s.arg.friend = f
      BY <2>2 DEF Handles
    <3>2. CASE k = "camera"
      <4>1. Called(f)'
        BY <2>2, <3>2 DEF Leaves, On
      <4> QED
        BY <3>1, <4>1 DEF Cause
    <3>3. CASE k = "ringtone"
      <4>1. Called(f)' \/ toxav'[f] = "in"
        BY <2>2, <3>3 DEF Leaves, On
      <4> QED
        BY <3>1, <3>3, <4>1 DEF Cause
    <3> QED
      BY <3>2, <3>3 DEF Signals
  <2>3. ASSUME \A s \in Todo' : s.do = "post" => ~Off(k, s.arg), OnAfterMessage(k)'
        PROVE  \E g \in Friends : Cause(k, g)'
    <3>1. PICK g \in Friends : Cause(k, g)
      BY <1>1, <1>2, <2>1, <2>3 DEF HasCause
    <3>2. ~Ends(f)'
      BY <2>3 DEF Ends, Off
    <3>3. /\ Called(f) => Called(f)'
          /\ toxav[f] = "in" => toxav'[f] = "in" \/ Called(f)'
      BY <3>2 DEF Leaves
    <3>4. CASE g = f
      BY <3>1, <3>3, <3>4 DEF Cause
    <3>5. CASE g # f
      <4>1. toxav'[g] = toxav[g] /\ (Called(g) => Called(g)')
        BY <1>1, <3>5 DEF Called
      <4> QED
        BY <3>1, <4>1 DEF Cause
    <3> QED
      BY <3>4, <3>5
  <2> QED
    BY <2>2, <2>3 DEF HasCause
<1>8. ASSUME Plain', NEW g \in Friends PROVE Fresh(g)'
  <2>1. Fresh(g)
    BY <1>8 DEF Causes, StartsFresh
  <2>2. ASSUME NEW s \in Todo', PostsAbout(s, g), s.arg.msg \in Starts PROVE ~AfterMessage(g)'
    <3>1. g = f /\ IsStart(s)
      BY <2>2 DEF Handles, PostsAbout, Says, IsStart
    <3>2. toxav[g] # "active"
      BY <1>8, <3>1 DEF Leaves, Plain
    <3>3. AfterMessage(g) <=> toxav[g] = "active"
      BY <1>1 DEF Inv, SourcesFollow, SourceFollows
    <3> QED
      BY <1>3, <3>2, <3>3
  <2> QED
    BY <1>1, <1>3, <2>1, <2>2 DEF Fresh, Waiting, HeardAbout
<1> QED
  BY <1>4, <1>5, <1>6, <1>7, <1>8 DEF Causes, SignalsCaused, StartsFresh, UsesBegin

\* A call is placed, or was odd; a call that came in is on.
LEMMA PlaceCauses == ASSUME Inv, Causes, Types', Plain' => Plain, PlaceCall PROVE Causes'
<1>1. PICK f \in Friends, v \in BOOLEAN : Places(f, v)
  BY PlaceEffect
<1>2. /\ Up /\ UNCHANGED <<pc, now, orders, toxav_msg, audio_msg, audio_dest>>
      /\ UNCHANGED <<video_active, ringtone, microphone_count, audio_preview, active_call>>
  BY DEF PlaceCall, uiVars, boxVars, ctrlVars, audioVars
<1>3. \A k : OnAfterMessage(k)' <=> OnAfterMessage(k)
  BY <1>2 DEF OnAfterMessage, OnAfterOrders, OrdersOn, OrdersOff, IsOn, Waiting
<1>4. \A g : /\ AfterAudio(g)' <=> AfterAudio(g)
             /\ AfterOrders(g)' <=> AfterOrders(g)
             /\ AfterMessage(g)' <=> AfterMessage(g)
  BY <1>2 DEF AfterMessage, AfterOrders, AfterAudio, HeardAbout, Waiting
<1>5. \A k : (BeforeAudio(k)' <=> BeforeAudio(k)) /\ (UseBegins(k)' <=> UseBegins(k))
  BY <1>1, <1>2 DEF Places, BeforeAudio, BeforeOrders, BeforeMessage, BeforeUI, UseBegins, UIHas,
     BoxHas, OrdersHave, AudioHas, Used, Waiting
<1>6. /\ \A s \in Todo : s.do # "post"
      /\ \A s \in Todo' : s.do # "call"
      /\ \A s \in Todo' : s.do = "post" => toxav[f] = "in" /\ s = Post("OUTGOING_CALL_ACCEPTED", f, v)
      /\ Called(f)
  BY <1>1 DEF Places, Do, Post, Msg, Called
<1>7. Plain' => toxav'[f] \in {"out", "active"}
  BY <1>1, CommandTypes DEF Places, Plain, Inv, CommandStep, Types, FriendTypes
<1>8. StartsLast(work'["core"])
  <2> DEFINE last == <<Do("done", f, v)>>
  <2>1. Do("done", f, v) \in Step /\ Post("OUTGOING_CALL_ACCEPTED", f, v) \in Step
    BY StepTypes DEF Others, Orderable
  <2>2. /\ last \in Seq(Step) /\ Elements(last) = {Do("done", f, v)} /\ StartsLast(last)
        /\ FirstSteps(f, v) \in Seq(Step) /\ StartsLast(FirstSteps(f, v))
    BY <2>1, TupleTypes, ElementsTuples, OneStart DEF FirstSteps
  <2>3. \A x \in Elements(last) : x.do = "done"
    BY <2>2 DEF Do
  <2>4. work'["core"] = FirstSteps(f, v) \o last
    BY <1>1 DEF Places
  <2> HIDE DEF last
  <2> QED
    BY <2>2, <2>3, <2>4, JoinedStarts
<1>9. Arranged'
  <2>1. \A s \in Todo' : s.do = "post" => s.arg.msg \notin UserMessages /\ s.arg.friend \in Friends
    BY <1>6 DEF Post, Msg, UserMessages
  <2> QED
    BY <1>1, <1>2, <1>8, <2>1 DEF Arranged, Causes, UIMessages, Places, Waiting
<1>10. Bounded'
  BY <1>2, <1>5, BoundKeeps DEF Causes, Inv
<1>11. ASSUME Plain', NEW k \in Signals PROVE HasCause(k)'
  <2>1. HasCause(k)
    BY <1>11 DEF Causes, SignalsCaused
  <2>2. \A s \in Todo' : s.do = "post" => ~On(k, s.arg)
    BY <1>6 DEF Post, Msg, On
  <2>3. ASSUME OnAfterMessage(k)' PROVE \E g \in Friends : Cause(k, g)'
    <3>1. PICK g \in Friends : Cause(k, g)
      BY <1>3, <1>6, <2>1, <2>3 DEF HasCause
    <3>2. CASE g = f
      <4>1. Called(f)'
        BY <1>7, <1>11 DEF Called
      <4> QED
        BY <4>1 DEF Cause
    <3>3. CASE g # f
      <4>1. toxav'[g] = toxav[g]
        BY <1>1, <3>3 DEF Places
      <4>2. Called(g) => Called(g)'
        <5>1. \A s \in Todo : s.arg.friend = f
          BY <1>1 DEF Places, Do, Msg
        <5> QED
          BY <3>3, <4>1, <5>1 DEF Called
      <4> QED
        BY <3>1, <4>1, <4>2 DEF Cause
    <3> QED
      BY <3>2, <3>3
  <2> QED
    BY <2>2, <2>3 DEF HasCause
<1>12. ASSUME Plain', NEW g \in Friends PROVE Fresh(g)'
  <2>1. Fresh(g)
    BY <1>12 DEF Causes, StartsFresh
  <2>2. ASSUME NEW s \in Todo', PostsAbout(s, g) PROVE ~AfterMessage(g)'
    <3>1. toxav[f] = "in" /\ g = f
      BY <1>6, <2>2 DEF PostsAbout, Says, Post, Msg
    <3>2. AfterMessage(g) <=> toxav[g] = "active"
      BY <1>2, <1>6 DEF Inv, SourcesFollow, SourceFollows, PostsAbout
    <3> QED
      BY <1>4, <3>1, <3>2
  <2> QED
    BY <1>2, <1>4, <2>1, <2>2 DEF Fresh, Waiting, HeardAbout
<1> QED
  BY <1>5, <1>9, <1>10, <1>11, <1>12 DEF Causes, SignalsCaused, StartsFresh, UsesBegin

LEMMA CoreStepCauses == ASSUME Inv, Causes, Types', Plain' => Plain, CoreStep PROVE Causes'
<1> DEFINE head == Head(work["core"])
<1>1. /\ work["core"] \in Seq(Step) /\ work["core"] # <<>> /\ head.do \in {"hide", "show", "clear", "done"}
      /\ work'["core"] = Tail(work["core"]) /\ work'["ui"] = work["ui"]
  BY DEF CoreStep, Inv, Types, PostTypes
<1>2. Todo = Todo' \cup {head}
  BY <1>1, ElementsTail DEF Todo
<1>3. StartsLast(work'["core"])
  BY <1>1, StartsTail DEF Causes, Arranged
<1>4. /\ UNCHANGED <<pc, now, orders, toxav, toxav_msg, audio_msg, audio_dest>>
      /\ UNCHANGED <<video_active, ringtone, microphone_count, audio_preview, active_call>>
  BY DEF CoreStep, uiVars, boxVars, ctrlVars, audioVars
<1>5. \A s \in Todo : s.do \in {"post", "call"} => s \in Todo'
  BY <1>1, <1>2
<1> HIDE DEF head
<1>6. \A k : OnAfterMessage(k)' <=> OnAfterMessage(k)
  BY <1>4 DEF OnAfterMessage, OnAfterOrders, OrdersOn, OrdersOff, IsOn, Waiting
<1>7. \A g : /\ AfterAudio(g)' <=> AfterAudio(g)
             /\ AfterOrders(g)' <=> AfterOrders(g)
             /\ AfterMessage(g)' <=> AfterMessage(g)
  BY <1>4 DEF AfterMessage, AfterOrders, AfterAudio, HeardAbout, Waiting
<1>8. \A k : (BeforeAudio(k)' <=> BeforeAudio(k)) /\ (UseBegins(k)' <=> UseBegins(k))
  BY <1>1, <1>4 DEF BeforeAudio, BeforeOrders, BeforeMessage, BeforeUI, UseBegins, UIHas, BoxHas,
     OrdersHave, AudioHas, Used, Waiting
<1>9. Arranged'
  BY <1>1, <1>2, <1>3, <1>4 DEF Arranged, Causes, UIMessages, Waiting
<1>10. Bounded'
  BY <1>4, <1>8, BoundKeeps DEF Causes, Inv
<1>11. ASSUME Plain', NEW k \in Signals PROVE HasCause(k)'
  <2>1. HasCause(k)
    BY <1>11 DEF Causes, SignalsCaused
  <2>2. \A g : Cause(k, g)' <=> Cause(k, g)
    BY <1>2, <1>4, <1>5 DEF Cause, Called
  <2>3. \A s \in Todo' : s \in Todo
    BY <1>2
  <2> QED
    BY <1>5, <1>6, <2>1, <2>2, <2>3 DEF HasCause
<1>12. ASSUME Plain', NEW g \in Friends PROVE Fresh(g)'
  <2>1. Fresh(g)
    BY <1>12 DEF Causes, StartsFresh
  <2> QED
    BY <1>2, <1>4, <1>7, <2>1 DEF Fresh, Waiting, HeardAbout
<1> QED
  BY <1>8, <1>9, <1>10, <1>11, <1>12 DEF Causes, SignalsCaused, StartsFresh, UsesBegin

\* Steps that move no message and turn nothing on.
LEMMA StandsCauses ==
    ASSUME Inv, Causes, Types', Plain' => Plain, Waiting' <=> Waiting, Waiting => toxav_msg' = toxav_msg,
           pc' = pc \/ (pc = "poll" /\ pc' = "lower"),
           UNCHANGED <<toxav, work, now, orders, audio_msg, audio_dest, video_active, ringtone>>,
           UNCHANGED <<microphone_count, audio_preview, active_call>>
    PROVE  Causes'
<1>1. \A k : OnAfterMessage(k)' <=> OnAfterMessage(k)
  BY DEF OnAfterMessage, OnAfterOrders, OrdersOn, OrdersOff, IsOn
<1>2. \A g : Fresh(g)' <=> Fresh(g)
  BY DEF Fresh, AfterMessage, AfterOrders, AfterAudio, HeardAbout, Todo
<1>3. \A k : (BeforeAudio(k)' <=> BeforeAudio(k)) /\ (UseBegins(k)' <=> UseBegins(k))
  BY DEF BeforeAudio, BeforeOrders, BeforeMessage, BeforeUI, UseBegins, UIHas, BoxHas, OrdersHave,
     AudioHas, Used
<1>4. Arranged'
  BY DEF Arranged, Causes, UIMessages, Todo
<1>5. Todo' = Todo
  BY DEF Todo
<1>6. /\ Plain' => \A g \in Friends : Fresh(g)'
      /\ Plain' => \A k \in Uses : UseBegins(k)' /\ (BeforeAudio(k) => BeforeAudio(k)')
  BY <1>2, <1>3 DEF Causes, StartsFresh, UsesBegin
<1> QED
  BY <1>1, <1>4, <1>5, <1>6, SteadyCauses DEF Inv

\* A message of the UI thread begins or ends a use of the microphone.
UIPosts(m, v) ==
    /\ work["ui"] = <<>> /\ work' = [work EXCEPT !["ui"] = <<Post(m, Nobody, v)>>]
    /\ UNCHANGED <<toxav, pc, now, orders, toxav_msg, audio_msg, audio_dest>>
    /\ UNCHANGED <<video_active, ringtone, microphone_count>>
    /\ Plain' => \A k \in Uses :
         /\ m = Begin(k) => ~Used(k) /\ Used(k)'
         /\ m \notin {Begin(k), End(k)} => (Used(k)' <=> Used(k))

LEMMA UIPostCauses ==
    ASSUME Inv, Causes, Types', Plain' => Plain,
           NEW m, NEW v, UIPosts(m, v), m \in UserMessages, v \in BOOLEAN
    PROVE  Causes'
<1> USE DEF UIPosts
<1>1. /\ work'["core"] = work["core"] /\ work'["ui"] = <<Post(m, Nobody, v)>>
      /\ Todo' = Todo
  BY DEF Inv, Types, PostTypes, Todo
<1>2. \A k : OnAfterMessage(k)' <=> OnAfterMessage(k)
  BY DEF OnAfterMessage, OnAfterOrders, OrdersOn, OrdersOff, IsOn, Waiting
<1>3. \A g : Fresh(g)' <=> Fresh(g)
  BY <1>1 DEF Fresh, AfterMessage, AfterOrders, AfterAudio, HeardAbout, Waiting
<1>4. ASSUME Plain', NEW k \in Uses PROVE UseBegins(k)' /\ (BeforeAudio(k) => BeforeAudio(k)')
  <2>1. UseBegins(k)
    BY <1>4 DEF Causes, UsesBegin
  <2>2. \A o : (BoxHas(o)' <=> BoxHas(o)) /\ (OrdersHave(o)' <=> OrdersHave(o)) /\ (AudioHas(o)' <=> AudioHas(o))
    BY DEF BoxHas, OrdersHave, AudioHas, Waiting
  <2>3. \A o : ~UIHas(o) /\ (UIHas(o)' <=> m = o)
    BY <1>1 DEF UIHas, Post, Msg
  <2>4. BeforeUI(k) => BeforeUI(k)'
    BY <1>4, <2>3 DEF BeforeUI
  <2>5. UIHas(Begin(k))' => Used(k)'
    BY <1>4, <2>3
  <2> QED
    BY <2>1, <2>2, <2>4, <2>5 DEF UseBegins, BeforeAudio, BeforeOrders, BeforeMessage
<1>5. Arranged'
  BY <1>1 DEF Arranged, Causes, UIMessages, Waiting
<1>6. Plain' => \A g \in Friends : Fresh(g)'
  BY <1>3 DEF Causes, StartsFresh
<1> QED
  BY <1>1, <1>2, <1>4, <1>5, <1>6, SteadyCauses DEF Inv

LEMMA UICauses == ASSUME Inv, Causes, Types', Plain' => Plain, UIStep PROVE Causes'
<1>1. ASSUME NEW m, Press(m) PROVE Causes'
  <2>1. /\ UNCHANGED <<toxav, work, now, orders, audio_msg, audio_dest, video_active, ringtone>>
        /\ UNCHANGED <<microphone_count, audio_preview, active_call, pc, toxav_msg>>
    BY <1>1 DEF Press, boxVars, ctrlVars, audioVars
  <2> QED
    BY <2>1, StandsCauses DEF Waiting
<1>2. CASE \E f \in Friends : PressAudio(f) \/ PressDecline(f) \/ PressVideo(f)
  <2>1. \E m : Press(m)
    BY <1>2 DEF PressAudio, PressDecline, PressVideo
  <2> QED
    BY <1>1, <2>1
<1>3. CASE PressGroup
  BY <1>1, <1>3 DEF PressGroup
<1>4. CASE PostCommand
  <2>1. /\ UNCHANGED <<toxav, work, now, orders, audio_msg, audio_dest, video_active, ringtone>>
        /\ UNCHANGED <<microphone_count, audio_preview, active_call, pc, toxav_msg>>
    BY <1>4 DEF PostCommand, boxVars, ctrlVars, audioVars
  <2> QED
    BY <2>1, StandsCauses DEF Waiting
<1>5. ASSUME NEW same \in BOOLEAN, SelectAudioIn(same) PROVE Causes'
  <2>1. /\ UNCHANGED <<toxav, pc, now, orders, toxav_msg, audio_msg, audio_dest>>
        /\ UNCHANGED <<video_active, ringtone, microphone_count, audio_preview, active_call>>
        /\ work["ui"] = <<>> /\ work' = [work EXCEPT !["ui"] = <<Post("SET_AUDIO_IN", Nobody, same)>>]
    BY <1>5 DEF SelectAudioIn, UIIdle, uiVars, boxVars, ctrlVars, audioVars
  <2>2. "SET_AUDIO_IN" \in UserMessages
    BY DEF UserMessages
  <2>3. \A k \in Uses : "SET_AUDIO_IN" # Begin(k) /\ (Used(k)' <=> Used(k))
    BY <2>1 DEF Uses, Begin, Used
  <2>4. UIPosts("SET_AUDIO_IN", same)
    BY <2>1, <2>3 DEF UIPosts
  <2> QED
    BY <2>2, <2>4, UIPostCauses
<1>6. CASE PressPreview
  <2> DEFINE m == IF audio_preview THEN "STOP_AUDIO" ELSE "START_AUDIO"
             off == FALSE
  <2>1. /\ UNCHANGED <<toxav, pc, now, orders, toxav_msg, audio_msg, audio_dest>>
        /\ UNCHANGED <<video_active, ringtone, microphone_count, active_call>>
        /\ work["ui"] = <<>> /\ work' = [work EXCEPT !["ui"] = <<Post(m, Nobody, off)>>]
        /\ audio_preview' = ~audio_preview
    BY <1>6 DEF PressPreview, UIIdle, boxVars, ctrlVars, audioVars
  <2>2. m \in UserMessages /\ off \in BOOLEAN
    BY DEF UserMessages
  <2>3. audio_preview \in BOOLEAN
    BY DEF Inv, Types, UserTypes
  <2>4. Plain' => \A k \in Uses : /\ m = Begin(k) => ~Used(k) /\ Used(k)'
                                  /\ m \notin {Begin(k), End(k)} => (Used(k)' <=> Used(k))
    BY <2>1, <2>3 DEF Uses, Begin, End, Used
  <2> HIDE DEF m, off
  <2>5. UIPosts(m, off)
    BY <2>1, <2>4 DEF UIPosts
  <2> QED
    BY <2>2, <2>5, UIPostCauses
<1>7. CASE GroupMessage
  <2> DEFINE start == Head(utox_msgs) = "TOX_GROUP_AUDIO_START"
             m == IF start THEN "GROUPCALL_START" ELSE "GROUPCALL_END"
             off == FALSE
  <2>1. /\ UNCHANGED <<toxav, pc, now, orders, toxav_msg, audio_msg, audio_dest>>
        /\ UNCHANGED <<video_active, ringtone, microphone_count, audio_preview>>
        /\ work["ui"] = <<>> /\ work' = [work EXCEPT !["ui"] = <<Post(m, Nobody, off)>>]
        /\ active_call' = start
        /\ odd' = {} => ~(start /\ active_call = TRUE)
    BY <1>7 DEF GroupMessage, UIIdle, boxVars, ctrlVars, audioVars
  <2>2. m \in UserMessages /\ off \in BOOLEAN
    BY DEF UserMessages
  <2>3. active_call \in BOOLEAN
    BY DEF Inv, Types, UserTypes
  <2>4. Plain' => \A k \in Uses : /\ m = Begin(k) => ~Used(k) /\ Used(k)'
                                  /\ m \notin {Begin(k), End(k)} => (Used(k)' <=> Used(k))
    BY <2>1, <2>3 DEF Uses, Begin, End, Used, Plain
  <2> HIDE DEF m, off, start
  <2>5. UIPosts(m, off)
    BY <2>1, <2>4 DEF UIPosts
  <2> QED
    BY <2>2, <2>5, UIPostCauses
<1> QED
  BY <1>2, <1>3, <1>4, <1>5, <1>6, <1>7 DEF UIStep

\* A message is written into an empty mailbox, or is lost.
LEMMA WriteUICauses ==
    ASSUME Inv, Causes, Types', Passes, Plain' => Plain, WriteMessage("ui") PROVE Causes'
<1>1. PICK m \in UserMessages, v \in BOOLEAN : work["ui"] = <<Post(m, Nobody, v)>>
  BY DEF WriteMessage, Posting, Causes, Arranged, UIMessages
<1>2. /\ toxav_msg' = <<Msg(m, Nobody, v)>> /\ work'["ui"] = <<>> /\ work'["core"] = work["core"]
      /\ Todo' = Todo
  <2>1. work' = [work EXCEPT !["ui"] = Tail(work["ui"])] /\ toxav_msg' = <<Head(work["ui"]).arg>>
    BY DEF WriteMessage
  <2>2. Tail(work["ui"]) = <<>> /\ Head(work["ui"]).arg = Msg(m, Nobody, v)
    BY <1>1 DEF Post
  <2> QED
    BY <2>1, <2>2 DEF Inv, Types, PostTypes, Todo
<1>3. /\ UNCHANGED <<toxav, pc, now, orders, audio_msg, audio_dest, video_active, ringtone>>
      /\ UNCHANGED <<microphone_count, audio_preview, active_call>>
  BY DEF WriteMessage, uiVars, ctrlVars, audioVars
<1>4. Plain' => ~Waiting /\ Waiting'
  <2>1. Plain' => toxav_msg = <<>>
    BY DEF WriteMessage, Plain, Up
  <2>2. Plain' => pc # "work"
    BY <2>1 DEF Inv, Shapes, TakenShape, WriteMessage, Posting
  <2> QED
    BY <1>2, <1>3, <2>1, <2>2 DEF Waiting
<1>5. /\ Head(toxav_msg').msg = m /\ Head(toxav_msg').friend = Nobody
      /\ \A f \in Friends : ~Says(Head(toxav_msg'), f)
  BY <1>2, CallsAssumption DEF Msg, Says, CallsAssumption, Nobody
<1>6. ASSUME Plain', NEW k \in Signals PROVE OnAfterMessage(k)' => OnAfterMessage(k)
  <2>1. ~On(k, Head(toxav_msg'))
    BY <1>5 DEF On, UserMessages
  <2>2. OnAfterOrders(k)' <=> OnAfterOrders(k)
    BY <1>3 DEF OnAfterOrders, OrdersOn, OrdersOff, IsOn
  <2> QED
    BY <1>4, <1>6, <2>1, <2>2 DEF OnAfterMessage
<1>7. ASSUME Plain', NEW f \in Friends PROVE Fresh(f)'
  <2>1. Fresh(f) /\ (AfterMessage(f)' <=> AfterMessage(f))
    BY <1>7 DEF Causes, StartsFresh, Passes, Plain
  <2>2. AfterAudio(f)' <=> AfterAudio(f)
    BY <1>3 DEF AfterAudio, HeardAbout
  <2> QED
    BY <1>2, <1>3, <1>5, <2>1, <2>2 DEF Fresh, HeardAbout
<1>8. ASSUME Plain', NEW k \in Uses PROVE UseBegins(k)' /\ (BeforeAudio(k) => BeforeAudio(k)')
  <2>1. UseBegins(k)
    BY <1>8 DEF Causes, UsesBegin
  <2>2. \A o : (OrdersHave(o)' <=> OrdersHave(o)) /\ (AudioHas(o)' <=> AudioHas(o))
    BY <1>3 DEF OrdersHave, AudioHas
  <2>3. \A o : (UIHas(o) <=> m = o) /\ ~UIHas(o)'
    BY <1>1, <1>2 DEF UIHas, Post, Msg
  <2>4. \A o : ~BoxHas(o) /\ (BoxHas(o)' <=> m = o)
    BY <1>4, <1>5, <1>8 DEF BoxHas
  <2>5. Used(k)' <=> Used(k)
    BY <1>3 DEF Used
  <2>6. /\ BeforeMessage(k)' <=> BeforeMessage(k)
        /\ BoxHas(Begin(k))' => BeforeUI(k)'
    BY <2>1, <2>3, <2>4, <2>5 DEF BeforeMessage, BeforeUI, UseBegins
  <2> QED
    BY <2>1, <2>2, <2>3, <2>6 DEF UseBegins, BeforeAudio, BeforeOrders
<1>9. Arranged'
  BY <1>2, <1>3, <1>5 DEF Arranged, Causes, UIMessages, UserMessages, Starts, Waiting
<1> QED
  BY <1>2, <1>3, <1>6, <1>7, <1>8, <1>9, SteadyCauses DEF Inv

LEMMA WriteCoreCauses ==
    ASSUME Inv, Causes, Types', Plain' => Plain, WriteMessage("core") PROVE Causes'
<1> DEFINE head == Head(work["core"])
<1>1. /\ Up /\ work["core"] \in Seq(Step) /\ work["core"] # <<>> /\ head.do = "post"
      /\ work'["core"] = Tail(work["core"]) /\ work'["ui"] = work["ui"]
      /\ toxav_msg' = <<head.arg>>
  BY DEF Inv, Types, PostTypes, WriteMessage, Posting
<1>2. Todo = Todo' \cup {head}
  BY <1>1, ElementsTail DEF Todo
<1>3. /\ UNCHANGED <<toxav, pc, now, orders, audio_msg, audio_dest, video_active, ringtone>>
      /\ UNCHANGED <<microphone_count, audio_preview, active_call>>
  BY DEF WriteMessage, uiVars, ctrlVars, audioVars
<1>4. Plain' => ~Waiting /\ Waiting'
  <2>1. Plain' => toxav_msg = <<>>
    BY DEF WriteMessage, Plain, Up
  <2>2. Plain' => pc # "work"
    BY <1>1, <2>1 DEF Inv, Shapes, TakenShape
  <2> QED
    BY <1>1, <1>3, <2>1, <2>2 DEF Waiting
<1>5. /\ StartsLast(work'["core"])
      /\ IsStart(head) => \A s \in Todo' : s.do = "done"
  BY <1>1, StartsTail DEF Causes, Arranged, Todo
<1>6. /\ Head(toxav_msg') = head.arg
      /\ head.arg.msg \notin UserMessages /\ head.arg.friend \in Friends
  BY <1>1, <1>2 DEF Causes, Arranged
<1> HIDE DEF head
<1>7. Arranged'
  BY <1>1, <1>2, <1>3, <1>5 DEF Arranged, Causes, UIMessages
<1>8. ASSUME Plain', NEW k \in Signals PROVE HasCause(k)'
  <2>1. HasCause(k)
    BY <1>8 DEF Causes, SignalsCaused
  <2>2. \A g : Cause(k, g)' <=> Cause(k, g)
    BY <1>1, <1>2, <1>3 DEF Cause, Called
  <2>3. OnAfterOrders(k)' <=> OnAfterOrders(k)
    BY <1>3 DEF OnAfterOrders, OrdersOn, OrdersOff, IsOn
  <2>4. ASSUME \A s \in Todo' : s.do = "post" => ~Off(k, s.arg), OnAfterMessage(k)'
        PROVE  \E g \in Friends : Cause(k, g)
    <3>1. CASE On(k, head.arg)
      <4>1. Cause(k, head.arg.friend)
        BY <1>1, <1>2, <2>1, <3>1 DEF HasCause, head
      <4>2. head.arg.friend \in Friends
        BY <1>6
      <4> QED
        BY <4>1, <4>2
    <3>2. CASE ~On(k, head.arg)
      <4>1. OnAfterOrders(k) /\ ~Off(k, head.arg)
        BY <1>4, <1>6, <1>8, <2>3, <2>4, <3>2 DEF OnAfterMessage
      <4>2. OnAfterMessage(k)
        BY <1>4, <1>8, <4>1 DEF OnAfterMessage
      <4> QED
        BY <1>2, <2>1, <2>4, <4>1, <4>2 DEF HasCause
    <3> QED
      BY <3>1, <3>2
  <2> QED
    BY <1>2, <2>1, <2>2, <2>4 DEF HasCause
<1>9. ASSUME Plain', NEW f \in Friends PROVE Fresh(f)'
  <2>1. Fresh(f)
    BY <1>9 DEF Causes, StartsFresh
  <2>2. /\ AfterAudio(f)' <=> AfterAudio(f)
        /\ AfterOrders(f)' <=> AfterOrders(f)
    BY <1>3 DEF AfterOrders, AfterAudio, HeardAbout
  <2>3. AfterMessage(f) <=> AfterOrders(f)
    BY <1>4, <1>9 DEF AfterMessage
  <2>4. AfterMessage(f)' <=> IF Says(head.arg, f) THEN head.arg.msg \in Starts ELSE AfterOrders(f)'
    BY <1>4, <1>6, <1>9 DEF AfterMessage
  <2>5. ASSUME NEW s \in Todo', PostsAbout(s, f), s.arg.msg \in Starts PROVE ~AfterMessage(f)'
    <3>1. ~IsStart(head)
      BY <1>5, <2>5 DEF PostsAbout
    <3>2. ~(head.arg.msg \in Starts)
      BY <1>1, <3>1 DEF IsStart, head
    <3>3. ~AfterMessage(f)
      BY <1>2, <2>1, <2>5 DEF Fresh
    <3> QED
      BY <2>2, <2>3, <2>4, <3>2, <3>3
  <2>6. Says(head.arg, f) /\ head.arg.msg \in Starts => ~AfterOrders(f)'
    BY <1>1, <1>2, <2>1, <2>2, <2>3 DEF Fresh, PostsAbout, head
  <2> QED
    BY <1>3, <1>6, <2>1, <2>2, <2>5, <2>6 DEF Fresh, HeardAbout
<1>10. ASSUME Plain', NEW k \in Uses PROVE UseBegins(k)' /\ (BeforeAudio(k)' <=> BeforeAudio(k))
  <2>1. UseBegins(k)
    BY <1>10 DEF Causes, UsesBegin
  <2>2. /\ \A o : (OrdersHave(o)' <=> OrdersHave(o)) /\ (AudioHas(o)' <=> AudioHas(o)) /\ (UIHas(o)' <=> UIHas(o))
        /\ Used(k)' <=> Used(k)
    BY <1>1, <1>3 DEF OrdersHave, AudioHas, UIHas, Used
  <2>3. ~BoxHas(Begin(k)) /\ ~BoxHas(Begin(k))' /\ ~BoxHas(End(k)) /\ ~BoxHas(End(k))'
    BY <1>4, <1>6, <1>10 DEF BoxHas, Begin, End, UserMessages
  <2> QED
    BY <2>1, <2>2, <2>3 DEF UseBegins, BeforeAudio, BeforeOrders, BeforeMessage, BeforeUI
<1>11. Bounded'
  BY <1>3, <1>10, BoundKeeps DEF Causes, Inv
<1> QED
  BY <1>7, <1>8, <1>9, <1>10, <1>11 DEF Causes, SignalsCaused, StartsFresh, UsesBegin

LEMMA PostCauses == ASSUME Inv, Causes, Types', Plain' => Plain, PostStep PROVE Causes'
<1>1. ASSUME NEW p \in {"core", "ui"}, SeeFlagDown(p) \/ GiveUp(p) PROVE Causes'
  <2>1. /\ UNCHANGED <<toxav, work, now, orders, audio_msg, audio_dest, video_active, ringtone>>
        /\ UNCHANGED <<microphone_count, audio_preview, active_call, pc, toxav_msg>>
    BY <1>1 DEF SeeFlagDown, GiveUp, uiVars, boxVars, ctrlVars, audioVars
  <2> QED
    BY <2>1, StandsCauses DEF Waiting
<1> QED
  BY <1>1, WriteUICauses, WriteUIInv, WriteCoreCauses DEF PostStep

LEMMA OnceTail ==
    ASSUME NEW S, NEW w \in Seq(S), w # <<>>, Once(w)
    PROVE  Once(Tail(w)) /\ Head(w) \notin Elements(Tail(w))
<1>1. /\ Tail(w) \in Seq(S) /\ Len(Tail(w)) = Len(w) - 1 /\ Len(w) \in Nat \ {0}
      /\ \A i \in 1 .. Len(w) - 1 : Tail(w)[i] = w[i + 1]
      /\ Head(w) = w[1]
  OBVIOUS
<1>2. DOMAIN w = 1 .. Len(w) /\ DOMAIN Tail(w) = 1 .. Len(w) - 1
  BY <1>1
<1>3. ASSUME NEW i \in DOMAIN Tail(w), NEW j \in DOMAIN Tail(w), Tail(w)[i] = Tail(w)[j] PROVE i = j
  <2>1. i + 1 \in DOMAIN w /\ j + 1 \in DOMAIN w /\ w[i + 1] = w[j + 1]
    BY <1>1, <1>2, <1>3
  <2>2. i + 1 = j + 1
    BY <2>1 DEF Once
  <2> QED
    BY <1>2, <2>2
<1>4. ASSUME NEW i \in DOMAIN Tail(w) PROVE Tail(w)[i] # Head(w)
  <2>1. i + 1 \in DOMAIN w /\ 1 \in DOMAIN w /\ Tail(w)[i] = w[i + 1] /\ i + 1 # 1
    BY <1>1, <1>2
  <2> QED
    BY <1>1, <2>1 DEF Once
<1> QED
  BY <1>3, <1>4 DEF Once, Elements

\* The message taken has the same effect, now as orders.
LEMMA TakeCauses ==
    ASSUME Inv, Causes, Types', Passes, Plain' => Plain, TakeMessage PROVE Causes'
<1> DEFINE m == Head(toxav_msg)
<1>1. /\ Types /\ Up /\ pc = "poll" /\ toxav_msg # <<>> /\ pc' = "work" /\ now' = m
      /\ Waiting /\ ~Waiting'
  BY DEF Inv, TakeMessage, Waiting
<1>2. /\ UNCHANGED <<toxav, toxav_msg, work, audio_msg, audio_dest, video_active, ringtone>>
      /\ UNCHANGED <<microphone_count, audio_preview, active_call>>
  BY DEF TakeMessage, uiVars, boxVars, audioVars
<1>3. m.msg \in Orderable
  BY <1>1, OneHead DEF Types, PostTypes, Messages
<1>4. Elements(orders) = {}
  BY <1>1, ElementsTuples DEF Causes, Arranged
<1>5. orders' = <<>> \/ orders' = Orders(m.msg)
  BY DEF TakeMessage
<1>6. Plain' => orders' = Orders(m.msg)
  BY DEF TakeMessage, Plain
<1>7. OrdersAre(m.msg, Elements(Orders(m.msg))) /\ Once(Orders(m.msg))
  BY <1>3, OrdersElements
<1>8. Once(<<>>) /\ Elements(<<>>) = {}
  BY DEF Once, Elements
<1> HIDE DEF m
<1>9. Arranged'
  <2>1. Once(orders')
    BY <1>5, <1>7, <1>8
  <2>2. "START_FRIEND" \in Elements(orders') => m.msg \in Starts
    BY <1>5, <1>7, <1>8 DEF OrdersAre
  <2>3. m.msg \in Starts => m.friend \in Friends
    BY <1>1 DEF Causes, Arranged, m
  <2> QED
    BY <1>1, <1>2, <2>1, <2>2, <2>3 DEF Arranged, Causes, UIMessages, Todo
<1>10. ASSUME Plain', NEW k \in Signals PROVE OnAfterMessage(k)' => OnAfterMessage(k)
  <2>1. OrdersAre(m.msg, Elements(orders'))
    BY <1>6, <1>7, <1>10
  <2>2. OrdersOn(k)' <=> On(k, m)
    BY <1>1, <2>1 DEF OrdersOn, On, OrdersAre
  <2>3. OrdersOff(k)' <=> Off(k, m)
    BY <2>1 DEF OrdersOff, Off, OrdersAre
  <2>4. IsOn(k)' <=> IsOn(k)
    BY <1>2 DEF IsOn
  <2>5. OnAfterOrders(k) <=> IsOn(k)
    BY <1>4 DEF OnAfterOrders, OrdersOn, OrdersOff
  <2>6. OnAfterMessage(k) <=> On(k, m) \/ (IsOn(k) /\ ~Off(k, m))
    BY <1>1, <2>5 DEF OnAfterMessage, m
  <2>7. OnAfterMessage(k)' <=> On(k, m) \/ (IsOn(k) /\ ~Off(k, m))
    BY <1>1, <2>2, <2>3, <2>4 DEF OnAfterMessage, OnAfterOrders
  <2> QED
    BY <2>6, <2>7
<1>11. ASSUME Plain', NEW f \in Friends PROVE Fresh(f)'
  <2>1. Fresh(f) /\ (AfterMessage(f)' <=> AfterMessage(f))
    BY <1>11 DEF Causes, StartsFresh, Passes, Plain
  <2>2. AfterAudio(f)' <=> AfterAudio(f)
    BY <1>2 DEF AfterAudio, HeardAbout
  <2>3. AfterOrders(f) <=> AfterAudio(f)
    BY <1>4 DEF AfterOrders
  <2>4. "START_FRIEND" \in Elements(orders') => m.msg \in Starts
    BY <1>6, <1>7, <1>11 DEF OrdersAre
  <2>5. now'.friend = f /\ "START_FRIEND" \in Elements(orders') => ~AfterAudio(f)'
    BY <1>1, <2>1, <2>2, <2>3, <2>4 DEF Fresh, Says, m
  <2> QED
    BY <1>1, <1>2, <2>1, <2>5 DEF Fresh, HeardAbout, Todo
<1>12. ASSUME Plain', NEW k \in Uses PROVE UseBegins(k)' /\ (BeforeAudio(k) => BeforeAudio(k)')
  <2>1. UseBegins(k)
    BY <1>12 DEF Causes, UsesBegin
  <2>2. \A o : (UIHas(o)' <=> UIHas(o)) /\ (AudioHas(o)' <=> AudioHas(o))
    BY <1>2 DEF UIHas, AudioHas
  <2>3. \A o : ~BoxHas(o)' /\ (BoxHas(o) <=> m.msg = o) /\ ~OrdersHave(o)
    BY <1>1, <1>4 DEF BoxHas, OrdersHave, m
  <2>4. Used(k)' <=> Used(k)
    BY <1>2 DEF Used
  <2>5. /\ OrdersHave(BeginOrder(k))' <=> m.msg = Begin(k)
        /\ OrdersHave(EndOrder(k))' <=> m.msg = End(k)
    BY <1>6, <1>7, <1>12 DEF OrdersHave, OrdersAre, Uses, Begin, End, BeginOrder, EndOrder
  <2>6. (BeforeUI(k)' <=> BeforeUI(k)) /\ (BeforeMessage(k)' <=> BeforeUI(k))
    BY <2>2, <2>3, <2>4 DEF BeforeMessage, BeforeUI
  <2>7. BeforeOrders(k)' <=> BeforeOrders(k)
    BY <2>3, <2>5, <2>6 DEF BeforeOrders, BeforeMessage
  <2>8. OrdersHave(BeginOrder(k))' => BeforeMessage(k)'
    BY <2>1, <2>3, <2>5, <2>6 DEF UseBegins
  <2>9. UseBegins(k)'
    BY <2>1, <2>2, <2>3, <2>4, <2>7, <2>8 DEF UseBegins
  <2> QED
    BY <2>2, <2>7, <2>9 DEF BeforeAudio
<1> QED
  BY <1>2, <1>9, <1>10, <1>11, <1>12, SteadyCauses DEF Inv, Todo

\* An order posted has the same effect, now as a message; one that ends a use
\* ends it no more than before.
LEMMA PostAudioCauses ==
    ASSUME Inv, Causes, Types', Passes, Plain' => Plain, PostAudio PROVE Causes'
<1> DEFINE order == Head(orders)
<1>1. /\ Types /\ Up /\ pc = "work" /\ pc' = "work" /\ order \in AudioOrders /\ audio_msg = <<>>
      /\ orders \in Seq(AudioSteps) /\ orders # <<>> /\ orders' = Tail(orders)
      /\ Elements(orders) = Elements(orders') \cup {order}
  BY OrderedTail DEF Inv, PostAudio, Ordered, Types, ControlTypes
<1>2. Once(orders') /\ order \notin Elements(orders')
  BY <1>1, OnceTail DEF Causes, Arranged
<1>3. /\ audio_msg' # <<>> /\ Head(audio_msg').msg = order /\ Head(audio_msg').friend = now.friend
  BY DEF PostAudio, Msg
<1>4. /\ UNCHANGED <<toxav, toxav_msg, work, now, audio_dest, video_active, ringtone>>
      /\ UNCHANGED <<microphone_count, audio_preview, active_call>>
  BY DEF PostAudio, uiVars, boxVars
<1>5. ~Waiting /\ ~Waiting'
  BY <1>1 DEF Waiting
<1>6. \A f \in Friends : AfterOrders(f)' <=> AfterOrders(f)
  BY PostAudioInv
<1> HIDE DEF order
<1>7. Arranged'
  BY <1>1, <1>2, <1>3, <1>4, <1>5 DEF Arranged, Causes, UIMessages, Todo
<1>8. ASSUME Plain', NEW k \in Signals PROVE OnAfterMessage(k)' => OnAfterMessage(k)
  <2>1. CASE k = "camera"
    <3>1. order \notin {"video_on", "video_off", "state"}
      BY <1>1 DEF AudioOrders
    <3>2. OnAfterOrders(k)' <=> OnAfterOrders(k)
      BY <1>1, <1>4, <2>1, <3>1 DEF OnAfterOrders, OrdersOn, OrdersOff, IsOn
    <3> QED
      BY <1>5, <3>2 DEF OnAfterMessage
  <2>2. CASE k = "ringtone"
    <3>1. IsOn(k) <=> ringtone = TRUE
      BY <1>1, <2>2 DEF IsOn
    <3>2. IsOn(k)' <=> order = "PLAY_RINGTONE" \/ (order # "STOP_RINGTONE" /\ ringtone = TRUE)
      BY <1>3, <1>4, <2>2 DEF IsOn
    <3>3. OnAfterOrders(k)' => OnAfterOrders(k)
      BY <1>1, <2>2, <3>1, <3>2 DEF OnAfterOrders, OrdersOn, OrdersOff
    <3> QED
      BY <1>5, <3>3 DEF OnAfterMessage
  <2> QED
    BY <2>1, <2>2 DEF Signals
<1>9. ASSUME Plain', NEW f \in Friends PROVE Fresh(f)'
  <2>1. Fresh(f) /\ (AfterMessage(f)' <=> AfterMessage(f))
    BY <1>9 DEF Causes, StartsFresh, Passes, Plain
  <2>2. AfterAudio(f) <=> audio_dest[f] = TRUE
    BY <1>1 DEF AfterAudio, HeardAbout
  <2>3. now.friend = f /\ "START_FRIEND" \in Elements(orders) => audio_dest[f] # TRUE
    BY <2>1, <2>2 DEF Fresh
  <2>4. now'.friend = f /\ "START_FRIEND" \in Elements(orders') => ~AfterAudio(f)'
    <3>1. "START_FRIEND" \in Elements(orders') => order # "START_FRIEND"
      BY <1>2
    <3> QED
      BY <1>1, <1>3, <1>4, <2>3, <3>1 DEF AfterAudio, HeardAbout
  <2>5. HeardAbout(f)' /\ Head(audio_msg').msg = "START_FRIEND" => audio_dest'[f] = FALSE
    <3>1. audio_dest[f] \in BOOLEAN
      BY <1>1 DEF Types, AudioTypes, FriendTypes
    <3> QED
      BY <1>1, <1>3, <1>4, <2>3, <3>1 DEF HeardAbout
  <2> QED
    BY <1>4, <1>5, <2>1, <2>4, <2>5 DEF Fresh, Todo
<1>10. ASSUME Plain', NEW k \in Uses PROVE UseBegins(k)' /\ (BeforeAudio(k) => BeforeAudio(k)')
  <2> DEFINE begin == BeginOrder(k)
             end == EndOrder(k)
  <2>1. UseBegins(k)
    BY <1>10 DEF Causes, UsesBegin
  <2>2. /\ AudioHas(begin)' <=> order = begin
        /\ AudioHas(end)' <=> order = end
        /\ ~AudioHas(begin) /\ ~AudioHas(end)
    BY <1>1, <1>3 DEF AudioHas
  <2>3. /\ OrdersHave(begin) <=> OrdersHave(begin)' \/ order = begin
        /\ OrdersHave(end) <=> OrdersHave(end)' \/ order = end
        /\ ~(OrdersHave(begin)' /\ order = begin)
    BY <1>1, <1>2 DEF OrdersHave
  <2>4. begin # end
    BY DEF Uses, BeginOrder, EndOrder
  <2>5. /\ BeforeMessage(k)' <=> BeforeMessage(k)
        /\ UIHas(Begin(k))' => Used(k)'
        /\ BoxHas(Begin(k))' => BeforeUI(k)'
    BY <1>4, <1>5, <2>1 DEF BeforeMessage, BeforeUI, UIHas, BoxHas, Used, UseBegins
  <2>6. BeforeOrders(k) <=> ~OrdersHave(begin) /\ (OrdersHave(end) \/ BeforeMessage(k))
    BY DEF BeforeOrders
  <2>7. BeforeOrders(k)' <=> ~OrdersHave(begin)' /\ (OrdersHave(end)' \/ BeforeMessage(k)')
    BY DEF BeforeOrders
  <2>8. BeforeAudio(k) <=> ~AudioHas(begin) /\ (AudioHas(end) \/ BeforeOrders(k))
    BY DEF BeforeAudio
  <2>9. BeforeAudio(k)' <=> ~AudioHas(begin)' /\ (AudioHas(end)' \/ BeforeOrders(k)')
    BY DEF BeforeAudio
  <2>10. OrdersHave(begin) => BeforeMessage(k)
    BY <2>1 DEF UseBegins
  <2>11. UseBegins(k)' <=> /\ UIHas(Begin(k))' => Used(k)'
                           /\ BoxHas(Begin(k))' => BeforeUI(k)'
                           /\ OrdersHave(begin)' => BeforeMessage(k)'
                           /\ AudioHas(begin)' => BeforeOrders(k)'
    BY DEF UseBegins
  <2> HIDE DEF begin, end
  <2> QED
    BY <2>2, <2>3, <2>4, <2>5, <2>6, <2>7, <2>8, <2>9, <2>10, <2>11
<1> QED
  BY <1>4, <1>7, <1>8, <1>9, <1>10, SteadyCauses DEF Inv, Todo

\* An order that the control thread carries out itself.
LEMMA OwnOrderCauses ==
    ASSUME Inv, Causes, Types', Passes, Plain' => Plain, SetState \/ SwitchVideo \/ SetAudioIn
    PROVE  Causes'
<1> DEFINE order == Head(orders)
<1>1. /\ Types /\ Up /\ pc = "work" /\ pc' = "work"
      /\ order \in {"state", "video_on", "video_off", "device"}
      /\ orders \in Seq(AudioSteps) /\ orders # <<>> /\ orders' = Tail(orders)
      /\ Elements(orders) = Elements(orders') \cup {order}
  BY OrderedTail DEF Inv, SetState, SwitchVideo, SetAudioIn, Ordered, Types, ControlTypes
<1>2. Once(orders')
  BY <1>1, OnceTail DEF Causes, Arranged
<1>3. /\ UNCHANGED <<toxav, toxav_msg, work, now, audio_msg, audio_dest, ringtone>>
      /\ UNCHANGED <<microphone_count, audio_preview, active_call>>
  BY DEF SetState, SwitchVideo, SetAudioIn, uiVars, boxVars, audioVars
<1>4. video_active' = TRUE =>
        \/ order = "state" /\ (now.video \/ video_active = TRUE)
        \/ order = "video_on"
        \/ order = "device" /\ video_active = TRUE
  <2>1. video_active \in BOOLEAN
    BY <1>1 DEF Types, ControlTypes
  <2>2. now.video \in BOOLEAN
    BY <1>1 DEF Types, ControlTypes, Messages
  <2> QED
    BY <1>1, <2>1, <2>2 DEF SetState, SwitchVideo, SetAudioIn, Ordered
<1>5. ~Waiting /\ ~Waiting'
  BY <1>1 DEF Waiting
<1> HIDE DEF order
<1>6. Arranged'
  BY <1>1, <1>2, <1>3, <1>5 DEF Arranged, Causes, UIMessages, Todo
<1>7. ASSUME Plain', NEW k \in Signals PROVE OnAfterMessage(k)' => OnAfterMessage(k)
  <2>1. CASE k = "camera"
    <3>1. OnAfterOrders(k)' => OnAfterOrders(k)
      BY <1>1, <1>3, <1>4, <2>1 DEF OnAfterOrders, OrdersOn, OrdersOff, IsOn
    <3> QED
      BY <1>5, <3>1 DEF OnAfterMessage
  <2>2. CASE k = "ringtone"
    <3>1. OnAfterOrders(k)' <=> OnAfterOrders(k)
      BY <1>1, <1>3, <2>2 DEF OnAfterOrders, OrdersOn, OrdersOff, IsOn
    <3> QED
      BY <1>5, <3>1 DEF OnAfterMessage
  <2> QED
    BY <2>1, <2>2 DEF Signals
<1>8. ASSUME Plain', NEW f \in Friends PROVE Fresh(f)'
  <2>1. Fresh(f) /\ (AfterMessage(f)' <=> AfterMessage(f))
    BY <1>8 DEF Causes, StartsFresh, Passes, Plain
  <2>2. AfterAudio(f)' <=> AfterAudio(f)
    BY <1>3 DEF AfterAudio, HeardAbout
  <2>3. "START_FRIEND" \in Elements(orders') => "START_FRIEND" \in Elements(orders)
    BY <1>1
  <2> QED
    BY <1>3, <1>5, <2>1, <2>2, <2>3 DEF Fresh, HeardAbout, Todo
<1>9. ASSUME Plain', NEW k \in Uses PROVE UseBegins(k)' /\ (BeforeAudio(k) => BeforeAudio(k)')
  <2>1. UseBegins(k)
    BY <1>9 DEF Causes, UsesBegin
  <2>2. /\ OrdersHave(BeginOrder(k))' <=> OrdersHave(BeginOrder(k))
        /\ OrdersHave(EndOrder(k))' <=> OrdersHave(EndOrder(k))
    BY <1>1 DEF OrdersHave, Uses, BeginOrder, EndOrder
  <2>3. \A o : /\ UIHas(o)' <=> UIHas(o)
               /\ AudioHas(o)' <=> AudioHas(o)
               /\ ~BoxHas(o) /\ ~BoxHas(o)'
    BY <1>3, <1>5 DEF UIHas, AudioHas, BoxHas
  <2>4. Used(k)' <=> Used(k)
    BY <1>3 DEF Used
  <2>5. (BeforeMessage(k)' <=> BeforeMessage(k)) /\ (BeforeOrders(k)' <=> BeforeOrders(k))
    BY <2>2, <2>3, <2>4 DEF BeforeOrders, BeforeMessage, BeforeUI
  <2> QED
    BY <2>1, <2>2, <2>3, <2>4, <2>5 DEF UseBegins, BeforeAudio
<1> QED
  BY <1>3, <1>6, <1>7, <1>8, <1>9, SteadyCauses DEF Inv, Todo

\* The flag is lowered once there is nothing left to do.
LEMMA LowerCauses ==
    ASSUME Inv, Causes, Types', Passes, Plain' => Plain, Lower PROVE Causes'
<1>1. /\ toxav_msg' = <<>> /\ pc' = "poll" /\ ~Waiting' /\ orders = <<>> /\ orders' = orders
      /\ pc \in {"lower", "work"}
  BY DEF Lower, Causes, Arranged, Waiting
<1>2. Elements(orders) = {}
  BY <1>1, ElementsTuples
<1>3. /\ UNCHANGED <<toxav, work, audio_msg, audio_dest, video_active, ringtone>>
      /\ UNCHANGED <<microphone_count, audio_preview, active_call>>
  BY DEF Lower, uiVars, audioVars
<1>4. Plain' => ~Waiting
  <2>1. pc # "work" => now.msg = "none"
    BY DEF Inv, Shapes, NowShape, General, Msg
  <2>2. Plain' => ~(toxav_msg # <<>> /\ now.msg = "none")
    BY DEF Lower, Plain, Up
  <2> QED
    BY <2>1, <2>2 DEF Waiting
<1>5. Arranged'
  BY <1>1, <1>2, <1>3 DEF Arranged, Causes, UIMessages, Todo
<1>6. ASSUME Plain', NEW k \in Signals PROVE OnAfterMessage(k)' => OnAfterMessage(k)
  <2>1. OnAfterOrders(k)' <=> OnAfterOrders(k)
    BY <1>1, <1>2, <1>3 DEF OnAfterOrders, OrdersOn, OrdersOff, IsOn
  <2> QED
    BY <1>1, <1>4, <1>6, <2>1 DEF OnAfterMessage
<1>7. ASSUME Plain', NEW f \in Friends PROVE Fresh(f)'
  <2>1. Fresh(f) /\ (AfterMessage(f)' <=> AfterMessage(f))
    BY <1>7 DEF Causes, StartsFresh, Passes, Plain
  <2> QED
    BY <1>1, <1>2, <1>3, <2>1 DEF Fresh, HeardAbout, Todo
<1>8. ASSUME Plain', NEW k \in Uses PROVE UseBegins(k)' /\ (BeforeAudio(k) => BeforeAudio(k)')
  <2>1. UseBegins(k)
    BY <1>8 DEF Causes, UsesBegin
  <2>2. \A o : /\ UIHas(o)' <=> UIHas(o)
               /\ AudioHas(o)' <=> AudioHas(o)
               /\ OrdersHave(o)' <=> OrdersHave(o)
               /\ ~BoxHas(o) /\ ~BoxHas(o)'
    BY <1>1, <1>3, <1>4, <1>8 DEF UIHas, AudioHas, OrdersHave, BoxHas
  <2>3. Used(k)' <=> Used(k)
    BY <1>3 DEF Used
  <2>4. (BeforeMessage(k)' <=> BeforeMessage(k)) /\ (BeforeOrders(k)' <=> BeforeOrders(k))
    BY <2>2, <2>3 DEF BeforeOrders, BeforeMessage, BeforeUI
  <2> QED
    BY <2>1, <2>2, <2>3, <2>4 DEF UseBegins, BeforeAudio
<1> QED
  BY <1>3, <1>5, <1>6, <1>7, <1>8, SteadyCauses DEF Inv, Todo

LEMMA ControlCauses == ASSUME Inv, Causes, Types', Plain' => Plain, ControlStep PROVE Causes'
<1>1. CASE NoMessage \/ GiveUpAudio
  <2>1. /\ UNCHANGED <<toxav, work, now, orders, audio_msg, audio_dest, video_active, ringtone>>
        /\ UNCHANGED <<microphone_count, audio_preview, active_call, toxav_msg>>
        /\ pc' = pc \/ (pc = "poll" /\ pc' = "lower")
    BY <1>1 DEF NoMessage, GiveUpAudio, uiVars, boxVars, ctrlVars, audioVars
  <2> QED
    BY <2>1, StandsCauses DEF Waiting
<1>2. CASE TakeMessage
  BY <1>2, TakeInv, TakeCauses
<1>3. CASE PostAudio
  BY <1>3, PostAudioInv, PostAudioCauses
<1>4. CASE SetState \/ SwitchVideo \/ SetAudioIn
  BY <1>4, SetStateInv, OtherControlInv, OwnOrderCauses
<1>5. CASE Lower
  BY <1>5, LowerInv, LowerCauses
<1> QED
  BY <1>1, <1>2, <1>3, <1>4, <1>5 DEF ControlStep

\* The microphone's count and what it is for change together.
LEMMA AudioBounded ==
    ASSUME Inv, Causes, Types', AudioStep, Plain' => Plain,
           \A k \in Uses : (AudioHas(BeginOrder(k)) => BeforeOrders(k)) \/ ~Plain',
           \A k \in Uses : BeforeOrders(k)' <=> BeforeOrders(k)
    PROVE  Bounded'
<1> DEFINE m == Head(audio_msg)
           g == N(BeforeAudio("group"))
           p == N(BeforeAudio("preview"))
           g1 == N(BeforeOrders("group"))
           p1 == N(BeforeOrders("preview"))
           L == Listened
<1>1. /\ audio_msg # <<>> /\ audio_msg' = <<>>
      /\ m.msg \in AudioOrders
  BY OneHead DEF AudioStep, StartFriend, StopFriend, StartOther, StopOther, Ring, Heard, AudioOrders
<1>2. /\ IsFiniteSet(L) /\ Cardinality(L) \in Nat /\ microphone_count \in Nat
      /\ Plain' => microphone_count <= Cardinality(L) + g + p
  BY FS_CardinalityType DEF Causes, Bounded, Inv, Types, AudioTypes
<1>3. /\ g \in {0, 1} /\ p \in {0, 1} /\ g1 \in {0, 1} /\ p1 \in {0, 1}
  BY DEF N
<1>4. N(BeforeAudio("group")') = g1 /\ N(BeforeAudio("preview")') = p1
  BY <1>1 DEF BeforeAudio, AudioHas, N, Uses
<1>5. /\ m.msg \notin {"GROUPCHAT_START", "GROUPCHAT_STOP"} => g = g1
      /\ m.msg \notin {"START_PREVIEW", "STOP_PREVIEW"} => p = p1
      /\ m.msg = "GROUPCHAT_START" /\ Plain' => g = 0 /\ g1 = 1
      /\ m.msg = "START_PREVIEW" /\ Plain' => p = 0 /\ p1 = 1
      /\ m.msg = "GROUPCHAT_STOP" => g = 1
      /\ m.msg = "STOP_PREVIEW" => p = 1
  BY <1>1 DEF BeforeAudio, AudioHas, N, Uses, BeginOrder, EndOrder
<1>6. Bounded' <=> /\ IsFiniteSet(Listened')
                   /\ Plain' => microphone_count' <= Cardinality(Listened') + N(BeforeAudio("group")')
                                   + N(BeforeAudio("preview")')
  BY DEF Bounded
<1>7. CASE StartFriend
  <2>1. m.msg = "START_FRIEND" /\ m.friend \in Friends /\ microphone_count' = microphone_count + 1
    BY <1>1, <1>7 DEF StartFriend, Heard, Listen, Causes, Arranged
  <2>2. \A f \in Friends : audio_dest'[f] = IF f = m.friend THEN TRUE ELSE audio_dest[f]
    BY <1>7 DEF StartFriend, Set
  <2>3. Listened' = L \cup {m.friend}
    BY <2>1, <2>2 DEF Listened
  <2>4. Plain' => m.friend \notin L
    <3> SUFFICES ASSUME Plain' PROVE m.friend \notin L
      OBVIOUS
    <3>1. Fresh(m.friend)
      BY <2>1 DEF Causes, StartsFresh
    <3> QED
      BY <1>1, <2>1, <3>1 DEF Fresh, HeardAbout, Listened
  <2> HIDE DEF m, g, p, g1, p1, L
  <2>5. /\ IsFiniteSet(Listened')
        /\ m.friend \notin L => Cardinality(Listened') = Cardinality(L) + 1
    BY <1>2, <2>3, FS_AddElement
  <2>6. g = g1 /\ p = p1
    BY <1>5, <2>1
  <2> QED
    BY <1>2, <1>3, <1>4, <1>6, <2>1, <2>4, <2>5, <2>6
<1>8. CASE StopFriend
  <2>1. /\ m.msg = "STOP_FRIEND"
        /\ microphone_count' = IF microphone_count > 0 THEN microphone_count - 1 ELSE 0
    BY <1>8 DEF StopFriend, Heard, Ignore
  <2>2. \A f \in Friends : audio_dest'[f] = IF f = m.friend THEN FALSE ELSE audio_dest[f]
    BY <1>8 DEF StopFriend, Set
  <2>3. Listened' = L \ {m.friend}
    BY <2>2 DEF Listened
  <2> HIDE DEF m, g, p, g1, p1, L
  <2>4. /\ IsFiniteSet(Listened') /\ Cardinality(Listened') \in Nat
        /\ Cardinality(Listened') >= Cardinality(L) - 1
    <3> DEFINE f == m.friend
    <3>1. /\ IsFiniteSet(L \ {f})
          /\ Cardinality(L \ {f}) = IF f \in L THEN Cardinality(L) - 1 ELSE Cardinality(L)
      BY <1>2, FS_RemoveElement
    <3>2. Cardinality(L \ {f}) \in Nat
      BY <3>1, FS_CardinalityType
    <3> HIDE DEF f
    <3> QED
      BY <1>2, <2>3, <3>1, <3>2 DEF f
  <2>5. g = g1 /\ p = p1
    BY <1>5, <2>1
  <2> QED
    BY <1>2, <1>3, <1>4, <1>6, <2>1, <2>4, <2>5
<1>9. CASE StartOther \/ StopOther \/ Ring
  <2>1. Listened' = L
    BY <1>9 DEF StartOther, StopOther, Ring, Listened
  <2>2. \/ m.msg \in {"GROUPCHAT_START", "START_PREVIEW"} /\ microphone_count' = microphone_count + 1
        \/ /\ m.msg \in {"GROUPCHAT_STOP", "STOP_PREVIEW"}
           /\ microphone_count' = IF microphone_count > 0 THEN microphone_count - 1 ELSE 0
        \/ m.msg \in {"PLAY_RINGTONE", "STOP_RINGTONE"} /\ microphone_count' = microphone_count
    BY <1>9 DEF StartOther, StopOther, Ring, Heard, Listen, Ignore
  <2> HIDE DEF m, g, p, g1, p1, L
  <2>3. CASE m.msg = "GROUPCHAT_START"
    <3>1. microphone_count' = microphone_count + 1 /\ p = p1 /\ (Plain' => g = 0 /\ g1 = 1)
      BY <1>5, <2>2, <2>3
    <3> QED
      BY <1>2, <1>3, <1>4, <1>6, <2>1, <3>1
  <2>4. CASE m.msg = "START_PREVIEW"
    <3>1. microphone_count' = microphone_count + 1 /\ g = g1 /\ (Plain' => p = 0 /\ p1 = 1)
      BY <1>5, <2>2, <2>4
    <3> QED
      BY <1>2, <1>3, <1>4, <1>6, <2>1, <3>1
  <2>5. CASE m.msg = "GROUPCHAT_STOP"
    <3>1. /\ microphone_count' = IF microphone_count > 0 THEN microphone_count - 1 ELSE 0
          /\ p = p1 /\ g = 1
      BY <1>5, <2>2, <2>5
    <3> QED
      BY <1>2, <1>3, <1>4, <1>6, <2>1, <3>1
  <2>6. CASE m.msg = "STOP_PREVIEW"
    <3>1. /\ microphone_count' = IF microphone_count > 0 THEN microphone_count - 1 ELSE 0
          /\ g = g1 /\ p = 1
      BY <1>5, <2>2, <2>6
    <3> QED
      BY <1>2, <1>3, <1>4, <1>6, <2>1, <3>1
  <2>7. CASE m.msg \in {"PLAY_RINGTONE", "STOP_RINGTONE"}
    <3>1. microphone_count' = microphone_count /\ g = g1 /\ p = p1
      BY <1>5, <2>2, <2>7
    <3> QED
      BY <1>2, <1>3, <1>4, <1>6, <2>1, <3>1
  <2> QED
    BY <2>2, <2>3, <2>4, <2>5, <2>6, <2>7
<1> QED
  BY <1>7, <1>8, <1>9 DEF AudioStep

LEMMA AudioCauses == ASSUME Inv, Causes, Types', Plain' => Plain, AudioStep PROVE Causes'
<1>1. /\ UNCHANGED <<toxav, toxav_msg, work, pc, now, orders, video_active>>
      /\ UNCHANGED <<audio_preview, active_call>>
      /\ audio_msg # <<>> /\ audio_msg' = <<>>
  BY DEF AudioStep, StartFriend, StopFriend, StartOther, StopOther, Ring, Heard, uiVars, boxVars,
     ctrlVars
<1>2. Passes /\ \A f \in Friends : AfterAudio(f)' <=> AfterAudio(f)
  BY AudioInv
<1>3. Arranged'
  BY <1>1 DEF Arranged, Causes, UIMessages, Todo, Waiting
<1>4. /\ Waiting' <=> Waiting
      /\ Waiting => toxav_msg' = toxav_msg
      /\ Todo' = Todo
  BY <1>1 DEF Waiting, Todo
<1>5. ASSUME NEW k \in Signals PROVE OnAfterMessage(k)' <=> OnAfterMessage(k)
  <2>1. IsOn(k)' <=> IsOn(k)
    <3>1. CASE Ring
      <4>1. Head(audio_msg).msg \in {"PLAY_RINGTONE", "STOP_RINGTONE"}
        BY <3>1 DEF Ring, Heard
      <4>2. ringtone' = (Head(audio_msg).msg = "PLAY_RINGTONE")
        BY <3>1 DEF Ring
      <4> QED
        BY <1>1, <4>1, <4>2 DEF IsOn
    <3>2. CASE StartFriend \/ StopFriend \/ StartOther \/ StopOther
      <4>1. /\ Head(audio_msg).msg \notin {"PLAY_RINGTONE", "STOP_RINGTONE"}
            /\ ringtone' = ringtone
        BY <3>2 DEF StartFriend, StopFriend, StartOther, StopOther, Heard
      <4> QED
        BY <1>1, <4>1 DEF IsOn
    <3> QED
      BY <3>1, <3>2 DEF AudioStep
  <2>2. OnAfterOrders(k)' <=> OnAfterOrders(k)
    BY <1>1, <2>1 DEF OnAfterOrders, OrdersOn, OrdersOff
  <2> QED
    BY <1>1, <1>4, <2>2 DEF OnAfterMessage
<1>6. ASSUME Plain', NEW k \in Signals PROVE HasCause(k)'
  <2>1. HasCause(k)
    BY <1>6 DEF Causes, SignalsCaused
  <2>2. \A f : Cause(k, f)' <=> Cause(k, f)
    BY <1>1, <1>4 DEF Cause, Called
  <2> QED
    BY <1>4, <1>5, <2>1, <2>2 DEF HasCause
<1>7. ASSUME Plain', NEW f \in Friends PROVE Fresh(f)'
  <2>1. Fresh(f) /\ (AfterMessage(f)' <=> AfterMessage(f))
    BY <1>2, <1>7 DEF Causes, StartsFresh, Passes, Plain
  <2>2. (AfterAudio(f)' <=> AfterAudio(f)) /\ (AfterOrders(f)' <=> AfterOrders(f))
    BY <1>1, <1>2 DEF AfterOrders
  <2> QED
    BY <1>1, <1>4, <2>1, <2>2 DEF Fresh, HeardAbout
<1>8. ASSUME NEW k \in Uses
      PROVE  /\ BeforeOrders(k)' <=> BeforeOrders(k)
             /\ Plain' => UseBegins(k) /\ UseBegins(k)'
  <2>1. Plain' => UseBegins(k)
    BY DEF Causes, UsesBegin
  <2>2. \A o : /\ UIHas(o)' <=> UIHas(o)
               /\ OrdersHave(o)' <=> OrdersHave(o)
               /\ BoxHas(o)' <=> BoxHas(o)
               /\ ~AudioHas(o)'
    BY <1>1, <1>4 DEF UIHas, AudioHas, OrdersHave, BoxHas
  <2>3. Used(k)' <=> Used(k)
    BY <1>1 DEF Used
  <2>4. /\ BeforeUI(k)' <=> BeforeUI(k)
        /\ BeforeMessage(k)' <=> BeforeMessage(k)
        /\ BeforeOrders(k)' <=> BeforeOrders(k)
    BY <2>2, <2>3 DEF BeforeOrders, BeforeMessage, BeforeUI
  <2> QED
    BY <2>1, <2>2, <2>3, <2>4 DEF UseBegins
<1>9. Bounded'
  <2>1. \A k \in Uses : (AudioHas(BeginOrder(k)) => BeforeOrders(k)) \/ ~Plain'
    BY <1>8 DEF UseBegins
  <2> QED
    BY <1>8, <2>1, AudioBounded
<1> QED
  BY <1>3, <1>6, <1>7, <1>8, <1>9 DEF Causes, SignalsCaused, StartsFresh, UsesBegin

LEMMA CommandCauses == ASSUME Inv, Causes, Types', Plain' => Plain, CommandStep PROVE Causes'
<1>1. CASE \E f \in Friends : Handles(f) /\ Leaves(f)
  BY <1>1, LeavesCauses
<1>2. CASE PlaceCall \/ CoreStep
  BY <1>2, PlaceCauses, CoreStepCauses
<1> QED
  BY <1>1, <1>2, SendHandles, AnswerHandles, DisconnectHandles, PauseHandles, ResumeHandles,
     GroupHandles DEF CommandStep

LEMMA CallbackCauses == ASSUME Inv, Causes, Types', Plain' => Plain, CallbackStep PROVE Causes'
<1>1. PICK f \in Friends : Handles(f) /\ Leaves(f)
  BY IncomingHandles, ChangeHandles, FinishHandles, OfflineHandles DEF CallbackStep
<1> QED
  BY <1>1, LeavesCauses

LEMMA CausesInit == Init => Causes
<1> SUFFICES ASSUME Init PROVE Causes
  OBVIOUS
<1>1. /\ work["core"] = <<>> /\ work["ui"] = <<>> /\ orders = <<>> /\ Todo = {}
      /\ Elements(orders) = {} /\ audio_msg = <<>> /\ toxav_msg = <<>> /\ ~Waiting
  BY ElementsTuples DEF Init, Todo, Waiting
<1>2. Arranged
  BY <1>1 DEF Arranged, StartsLast, Once, UIMessages
<1>3. \A k \in Signals : ~OnAfterMessage(k)
  BY <1>1 DEF Init, OnAfterMessage, OnAfterOrders, OrdersOn, IsOn
<1>4. SignalsCaused
  BY <1>1, <1>3 DEF SignalsCaused, HasCause
<1>5. StartsFresh
  BY <1>1 DEF StartsFresh, Fresh, HeardAbout
<1>6. UsesBegin
  BY <1>1 DEF UsesBegin, UseBegins, UIHas, BoxHas, OrdersHave, AudioHas
<1>7. \A k \in Uses : ~BeforeAudio(k)
  BY <1>1 DEF Init, Uses, BeforeAudio, BeforeOrders, BeforeMessage, BeforeUI, UIHas, BoxHas,
     OrdersHave, AudioHas, Used
<1>8. Listened = {}
  BY DEF Init, Listened
<1>9. Bounded
  <2>1. N(BeforeAudio("group")) = 0 /\ N(BeforeAudio("preview")) = 0
    BY <1>7 DEF N, Uses
  <2>2. IsFiniteSet(Listened) /\ Cardinality(Listened) = 0 /\ microphone_count = 0
    BY <1>8, FS_EmptySet DEF Init
  <2> QED
    BY <2>1, <2>2 DEF Bounded
<1> QED
  BY <1>2, <1>4, <1>5, <1>6, <1>9 DEF Causes

LEMMA CausesNext == Inv /\ Causes /\ [Next]_vars => Causes'
<1> SUFFICES ASSUME Inv, Causes, [Next]_vars PROVE Causes'
  OBVIOUS
<1>1. Types' /\ (Plain' => Plain)
  BY TypesNext, PlainStays DEF Inv
<1>2. CASE UNCHANGED vars
  <2>1. /\ UNCHANGED <<toxav, work, now, orders, audio_msg, audio_dest, video_active, ringtone>>
        /\ UNCHANGED <<microphone_count, audio_preview, active_call, pc, toxav_msg>>
    BY <1>2 DEF vars, uiVars, boxVars, ctrlVars, audioVars
  <2> QED
    BY <1>1, <2>1, StandsCauses DEF Waiting
<1> QED
  BY <1>1, <1>2, CommandCauses, CallbackCauses, UICauses, PostCauses, ControlCauses, AudioCauses
  DEF Next

-----------------------------------------------------------------------------
(* The theorems *)

LEMMA InvInit == Init => Inv
<1> SUFFICES ASSUME Init PROVE Inv
  OBVIOUS
<1>1. Types
  BY TypesInit
<1>2. /\ work["core"] = <<>> /\ work["ui"] = <<>> /\ orders = <<>> /\ Todo = {}
      /\ Elements(work["ui"]) = {} /\ Elements(orders) = {} /\ audio_msg = <<>> /\ toxav_msg = <<>>
  BY ElementsTuples DEF Init, Todo
<1>3. \A f \in Friends :
        /\ toxav[f] = "none" /\ call_state_self[f] = {} /\ call_state_friend[f] = {}
        /\ audio_dest[f] = FALSE
  BY DEF Init
<1>4. Shapes
  BY <1>2 DEF Init, Shapes, CallShape, ClearShape, UIShape, OneSource, NowShape, TakenShape
<1>5. \A f \in Friends : ~AfterMessage(f)
  BY <1>2, <1>3 DEF AfterMessage, AfterOrders, AfterAudio, HeardAbout, Waiting
<1>6. SourcesFollow
  BY <1>2, <1>3, <1>5 DEF SourcesFollow, SourceFollows
<1>7. \A f \in Friends : {} # {"SV"} /\ FriendShown(f) /\ SelfShown(f)
  BY <1>2, <1>3 DEF FriendShown, SelfShown, Called
<1> QED
  BY <1>1, <1>4, <1>6, <1>7 DEF Inv, FriendsShown, SelvesShown

LEMMA InvNext == Inv /\ [Next]_vars => Inv'
<1> SUFFICES ASSUME Inv, [Next]_vars PROVE Inv'
  OBVIOUS
<1>1. CASE UNCHANGED vars
  <2>1. Types'
    BY <1>1, TypesNext DEF Inv
  <2>2. UNCHANGED <<toxav, friendVars, now, orders, audio_msg, audio_dest, pc, toxav_msg, work, lost>>
    BY <1>1 DEF vars, boxVars, ctrlVars, audioVars, histVars
  <2>3. Passes
    BY <2>2, StandsPasses DEF Waiting, Todo, Up
  <2>4. Shapes'
    BY <2>2 DEF Inv, Shapes, CallShape, Placing, ClearShape, UIShape, OneSource, NowShape,
       TakenShape, Todo, Up
  <2> QED
    BY <2>1, <2>3, <2>4, PassesInv
<1> QED
  BY <1>1, CommandInv, CallbackInv, UIInv, PostInv, ControlInv, AudioInv DEF Next

LEMMA InvAlways == Spec => []Inv
BY InvInit, InvNext, PTL DEF Spec

\* The types, for any number of friends and of events: call_count in 32 bits,
\* one message in each mailbox, of those that its thread knows.
THEOREM TypeCorrect == Spec => []TypeOK
<1>1. Inv => TypeOK
  BY TypesOK DEF Inv
<1> QED
  BY <1>1, InvAlways, PTL

\* Nothing is on its way once all is quiet.
LEMMA QuietAfter ==
    ASSUME Inv, Quiet, NEW f \in Friends
    PROVE  Todo = {} /\ (AfterMessage(f) <=> audio_dest[f] = TRUE) /\ ~StateComes(f)
<1>1. Todo = {}
  BY ElementsTuples DEF Quiet, Todo
<1>2. now.friend # f
  BY CallsAssumption DEF Quiet, Inv, Shapes, NowShape, General, Msg, CallsAssumption, Nobody
<1> QED
  BY <1>1, <1>2 DEF Quiet, AfterMessage, AfterOrders, AfterAudio, HeardAbout, Waiting, StateComes

\* Once all is quiet, a FRIEND has a source exactly when toxav has a call with
\* him, whatever was done by whom in the meantime.
THEOREM SourcesMatch == Spec => []AudioMatchesCalls
<1>1. Inv => AudioMatchesCalls
  <2> SUFFICES ASSUME Inv, Quiet, NEW f \in Friends PROVE audio_dest[f] = (toxav[f] = "active")
    BY DEF AudioMatchesCalls
  <2>1. Up /\ audio_dest[f] \in BOOLEAN
    BY DEF Quiet, Inv, Types, FriendTypes
  <2>2. AfterMessage(f) <=> toxav[f] = "active"
    BY <2>1, QuietAfter DEF Inv, SourcesFollow, SourceFollows
  <2>3. AfterMessage(f) <=> audio_dest[f] = TRUE
    BY QuietAfter
  <2> QED
    BY <2>1, <2>2, <2>3
<1> QED
  BY <1>1, InvAlways, PTL

\* Once all is quiet, every call that toxav has can be ended, and one that
\* comes in be answered, from the buttons of its FRIEND.
THEOREM CallsShown == Spec => []CallsAreShown
<1>1. Inv => CallsAreShown
  <2> SUFFICES ASSUME Inv, Quiet, NEW f \in Friends
               PROVE  /\ toxav[f] \in {"out", "active"} => call_state_self[f] # {}
                      /\ toxav[f] = "in" => call_state_friend[f] # {}
    BY DEF CallsAreShown
  <2>1. Up
    BY DEF Quiet
  <2>2. SelfShown(f) /\ FriendShown(f)
    BY <2>1 DEF Inv, SelvesShown, FriendsShown
  <2> QED
    BY <2>2, QuietAfter DEF SelfShown, FriendShown, Called
<1> QED
  BY <1>1, InvAlways, PTL

\* Once all is quiet, and nothing odd has happened, what is on is on for
\* something the user sees: the microphone for a call, a call in a group or the
\* preview, the camera and the ringtone for a call.
THEOREM NothingIsUnseen == Spec => []NothingUnseen
<1>1. Inv /\ Causes => NothingUnseen
  <2> DEFINE shown == {f \in Friends : call_state_self[f] # {}}
             ringing == {f \in Friends : call_state_friend[f] # {}}
  <2> SUFFICES ASSUME Inv, Causes, Quiet, odd = {}
               PROVE  /\ microphone_count > 0 => shown # {} \/ audio_preview \/ active_call
                      /\ video_active => shown # {}
                      /\ ringtone => shown \cup ringing # {}
    BY DEF NothingUnseen
  <2>1. /\ Plain /\ audio_msg = <<>> /\ ~Waiting /\ work["ui"] = <<>> /\ orders = <<>> /\ Todo = {}
        /\ Elements(orders) = {}
    BY ElementsTuples DEF Quiet, Plain, Waiting, Causes, Arranged, Todo
  <2>2. ASSUME NEW f \in Friends, Called(f) PROVE f \in shown
    <3>1. SelfShown(f) /\ ~StateComes(f)
      BY <2>1, QuietAfter DEF Inv, SelvesShown, Plain
    <3> QED
      BY <2>2, <3>1 DEF SelfShown
  <2>3. ASSUME NEW f \in Friends, toxav[f] = "in" PROVE f \in ringing
    BY <2>3 DEF Inv, FriendsShown, FriendShown
  <2>4. ASSUME NEW k \in Signals, IsOn(k) PROVE \E f \in Friends : Cause(k, f)
    <3>1. OnAfterMessage(k)
      BY <2>1, <2>4 DEF OnAfterMessage, OnAfterOrders, OrdersOff
    <3> QED
      BY <2>1, <3>1 DEF Causes, SignalsCaused, HasCause
  <2>5. video_active => shown # {}
    <3> SUFFICES ASSUME video_active = TRUE PROVE shown # {}
      BY DEF Inv, Types, ControlTypes
    <3>1. PICK f \in Friends : Called(f)
      BY <2>4 DEF Signals, IsOn, Cause
    <3> QED
      BY <2>2, <3>1
  <2>6. ringtone => shown \cup ringing # {}
    <3> SUFFICES ASSUME ringtone = TRUE PROVE shown \cup ringing # {}
      BY DEF Inv, Types, AudioTypes
    <3>1. IsOn("ringtone")
      BY <2>1 DEF IsOn
    <3>2. PICK f \in Friends : Called(f) \/ toxav[f] = "in"
      BY <2>4, <3>1 DEF Signals, Cause
    <3> QED
      BY <2>2, <2>3, <3>2
  <2>7. ASSUME microphone_count > 0, ~(audio_preview = TRUE), ~(active_call = TRUE)
        PROVE  shown # {}
    <3>1. ~BeforeAudio("group") /\ ~BeforeAudio("preview")
      BY <2>1, <2>7 DEF BeforeAudio, BeforeOrders, BeforeMessage, BeforeUI, UIHas, BoxHas,
         OrdersHave, AudioHas, Used
    <3>2. N(BeforeAudio("group")) = 0 /\ N(BeforeAudio("preview")) = 0
      BY <3>1 DEF N
    <3>3. IsFiniteSet(Listened) /\ microphone_count <= Cardinality(Listened) + 0 + 0
      BY <2>1, <3>2 DEF Causes, Bounded
    <3>4. Cardinality(Listened) # 0
      BY <2>7, <3>3 DEF Inv, Types, AudioTypes
    <3>5. Listened # {}
      BY <3>4, FS_EmptySet
    <3>6. PICK f \in Friends : audio_dest[f] = TRUE
      BY <3>5 DEF Listened
    <3>7. toxav[f] = "active"
      BY <2>1, <3>6, QuietAfter DEF Inv, SourcesFollow, SourceFollows, Plain
    <3> QED
      BY <2>2, <3>7 DEF Called
  <2>8. audio_preview \in BOOLEAN /\ active_call \in BOOLEAN
    BY DEF Inv, Types, UserTypes
  <2> HIDE DEF shown, ringing
  <2> QED
    BY <2>5, <2>6, <2>7, <2>8
<1>2. Spec => [](Inv /\ Causes)
  BY InvInit, InvNext, CausesInit, CausesNext, PTL DEF Spec
<1> QED
  BY <1>1, <1>2, PTL

=============================================================================
