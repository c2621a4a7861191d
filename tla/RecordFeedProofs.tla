-------------------------- MODULE RecordFeedProofs --------------------------
(***************************************************************************)
(* The components MCRecordFeed puts together, each for all its constants:  *)
(* while the recording callback writes, the play device has its ring, and  *)
(* no frame comes late; an open ALSA device is ready; the tuner is where   *)
(* it was told to be; and lines arrive as they were written.               *)
(***************************************************************************)
EXTENDS MCRecordFeed, Integers, TLAPS

(* A call does its steps in the order of their ranks, none of them twice.  *)
Rank(op) ==
  CASE op = "playOpen" -> 0
    [] op \in {"recPause", "recClose"} -> 1
    [] op = "playPause" -> 2
    [] op = "dropSink" -> 3
    [] op = "clear" -> 4
    [] op = "putSink" -> 5
    [] op = "recStart" -> 6
    [] op \in {"playStart", "playClose"} -> 7
    [] op \in {"radio", "player"} -> 8

LEMMA Ranks ==
  /\ Rank("playOpen") = 0
  /\ Rank("recPause") = 1 /\ Rank("recClose") = 1
  /\ Rank("playPause") = 2
  /\ Rank("dropSink") = 3
  /\ Rank("clear") = 4
  /\ Rank("putSink") = 5
  /\ Rank("recStart") = 6
  /\ Rank("playStart") = 7 /\ Rank("playClose") = 7
  /\ Rank("radio") = 8 /\ Rank("player") = 8
BY DEF Rank

LEMMA RankNat == \A op \in Ops : Rank(op) \in Nat
BY Ranks DEF Ops

(* The steps S are those of s, in their order.                             *)
Plan(s, S) ==
  /\ s \in Seq(Ops) /\ S = {s[i] : i \in 1 .. Len(s)}
  /\ \A i, j \in 1 .. Len(s) : i < j => Rank(s[i]) < Rank(s[j])

LEMMA PlanNone == Plan(<<>>, {})
BY DEF Plan

LEMMA PlanOne == ASSUME NEW a \in Ops PROVE Plan(<<a>>, {a})
BY DEF Plan

LEMMA PlanTwo ==
  ASSUME NEW a \in Ops, NEW b \in Ops, Rank(a) < Rank(b)
  PROVE  Plan(<<a, b>>, {a, b})
<1> DEFINE s == <<a, b>>
<1>1. s \in Seq(Ops) /\ Len(s) = 2 /\ s[1] = a /\ s[2] = b
  OBVIOUS
<1>2. \A i \in 1 .. 2 : i = 1 \/ i = 2
  OBVIOUS
<1> HIDE DEF s
<1>3. {a, b} = {s[i] : i \in 1 .. 2}
  BY <1>1, <1>2
<1>4. \A i, j \in 1 .. 2 : i < j => i = 1 /\ j = 2
  OBVIOUS
<1>5. Plan(s, {a, b})
  BY <1>1, <1>3, <1>4 DEF Plan
<1> QED
  BY <1>5 DEF s

LEMMA PlanJoin ==
  ASSUME NEW s, NEW S, NEW t, NEW T, Plan(s, S), Plan(t, T),
         \A x \in S, y \in T : Rank(x) < Rank(y)
  PROVE  Plan(s \o t, S \cup T)
<1> DEFINE u == s \o t
           m == Len(s)
           n == Len(t)
<1>1. s \in Seq(Ops) /\ t \in Seq(Ops) /\ m \in Nat /\ n \in Nat
  BY DEF Plan
<1>2. /\ u \in Seq(Ops) /\ Len(u) = m + n
      /\ \A i \in 1 .. m : u[i] = s[i]
      /\ \A i \in 1 .. m + n : i > m => u[i] = t[i - m] /\ i - m \in 1 .. n
  BY <1>1
<1>3. \A j \in 1 .. n : m + j \in 1 .. m + n /\ (m + j) - m = j /\ m + j > m
  BY <1>1
<1>4. \A i \in 1 .. m : i \in 1 .. m + n
  BY <1>1
<1>5. /\ S = {s[i] : i \in 1 .. m} /\ T = {t[i] : i \in 1 .. n}
      /\ \A i, j \in 1 .. m : i < j => Rank(s[i]) < Rank(s[j])
      /\ \A i, j \in 1 .. n : i < j => Rank(t[i]) < Rank(t[j])
  BY DEF Plan
<1> HIDE DEF u, m, n
<1>6. \A i \in 1 .. m + n : i \in 1 .. m \/ i > m
  BY <1>1
<1>7. \A j \in 1 .. n : u[m + j] = t[j]
  BY <1>2, <1>3
<1>8. S \cup T = {u[i] : i \in 1 .. m + n}
  <2>1. \A i \in 1 .. m + n : u[i] \in S \cup T
    BY <1>2, <1>5, <1>6
  <2>2. \A x \in S : \E i \in 1 .. m + n : x = u[i]
    BY <1>2, <1>4, <1>5
  <2>3. \A x \in T : \E i \in 1 .. m + n : x = u[i]
    BY <1>3, <1>5, <1>7
  <2> QED
    BY <2>1, <2>2, <2>3
<1>9. ASSUME NEW i \in 1 .. m + n, NEW j \in 1 .. m + n, i < j
      PROVE  Rank(u[i]) < Rank(u[j])
  <2>1. CASE j \in 1 .. m
    <3>1. i \in 1 .. m
      BY <1>1, <1>9, <2>1
    <3> QED
      BY <1>2, <1>5, <1>9, <2>1, <3>1
  <2>2. CASE i \in 1 .. m /\ j > m
    BY <1>2, <1>5, <2>2
  <2>3. CASE i > m /\ j > m
    <3>1. i - m \in 1 .. n /\ j - m \in 1 .. n /\ i - m < j - m
      BY <1>1, <1>9, <2>3
    <3> QED
      BY <1>2, <1>5, <2>3, <3>1
  <2> QED
    BY <1>1, <1>6, <1>9, <2>1, <2>2, <2>3
<1>10. Plan(u, S \cup T)
  BY <1>2, <1>8, <1>9 DEF Plan
<1> QED
  BY <1>10 DEF u

(* What a call has still to do, and what will be once it has.              *)
Rest == {todo[i] : i \in 1 .. Len(todo)}

RecAfter == {"recPause", "recStart"} \cap Rest # {} \/ ("recClose" \notin Rest /\ recDev # "closed")
PlayAfter == "playClose" \notin Rest /\ ("playOpen" \in Rest \/ playDev # "closed")
SinkAfter == "putSink" \in Rest \/ ("dropSink" \notin Rest /\ sink)
After == holders \ Rest

(* The first step is done, and the others come after it.                   *)
LEMMA Step ==
  ASSUME Plan(todo, Rest), NEW op \in Ops, Doing(op)
  PROVE  /\ Plan(todo, Rest)' /\ Rest' = Rest \ {op} /\ op \in Rest
         /\ \A x \in Rest : x = op \/ Rank(op) < Rank(x)
<1> DEFINE n == Len(todo)
<1>1. /\ todo \in Seq(Ops) /\ todo # <<>> /\ todo[1] = op /\ todo' = Tail(todo)
      /\ \A i, j \in 1 .. n : i < j => Rank(todo[i]) < Rank(todo[j])
  BY DEF Plan, Doing
<1>2. n \in Nat \ {0}
  BY <1>1
<1>3. /\ todo' \in Seq(Ops) /\ Len(todo') = n - 1
      /\ \A i \in 1 .. n - 1 : todo'[i] = todo[i + 1] /\ i + 1 \in 1 .. n
  <2>1. \A s \in Seq(Ops) :
          s # <<>> => /\ Tail(s) \in Seq(Ops) /\ Len(Tail(s)) = Len(s) - 1
                      /\ \A i \in 1 .. Len(s) - 1 : Tail(s)[i] = s[i + 1]
    OBVIOUS
  <2>2. \A i \in 1 .. n - 1 : i + 1 \in 1 .. n
    BY <1>2
  <2> QED
    BY <1>1, <2>1, <2>2
<1> HIDE DEF n
<1>4. \A i \in 2 .. n : i \in 1 .. n /\ i - 1 \in 1 .. n - 1 /\ (i - 1) + 1 = i /\ 1 < i
  BY <1>2
<1>5. \A i \in 1 .. n : i = 1 \/ i \in 2 .. n
  BY <1>2
<1>6. 1 \in 1 .. n
  BY <1>2
<1>7. Rest = {todo[i] : i \in 1 .. n} /\ Rest' = {todo'[i] : i \in 1 .. n - 1}
  BY <1>3 DEF Rest, n
<1>8. \A i \in 2 .. n : Rank(op) < Rank(todo[i]) /\ todo[i] # op
  <2> TAKE i \in 2 .. n
  <2>1. Rank(op) < Rank(todo[i])
    BY <1>1, <1>4, <1>6
  <2>2. Rank(op) \in Nat
    BY RankNat
  <2> QED
    BY <2>1, <2>2
<1>9. Rest' = Rest \ {op}
  <2>1. \A i \in 1 .. n - 1 : todo'[i] \in Rest /\ todo'[i] # op
    <3> TAKE i \in 1 .. n - 1
    <3>1. i + 1 \in 2 .. n
      BY <1>2
    <3> QED
      BY <1>3, <1>7, <1>8, <3>1
  <2>2. \A i \in 2 .. n : \E k \in 1 .. n - 1 : todo[i] = todo'[k]
    BY <1>3, <1>4
  <2>3. Rest' \subseteq Rest \ {op}
    BY <1>7, <2>1
  <2>4. ASSUME NEW x \in Rest, x # op PROVE x \in Rest'
    <3>1. PICK i \in 1 .. n : x = todo[i]
      BY <1>7
    <3>2. i \in 2 .. n
      BY <1>1, <1>5, <2>4, <3>1
    <3> QED
      BY <1>7, <2>2, <3>1, <3>2
  <2> QED
    BY <2>3, <2>4
<1>10. \A i, j \in 1 .. n - 1 : i < j => Rank(todo'[i]) < Rank(todo'[j])
  <2> TAKE i, j \in 1 .. n - 1
  <2> HAVE i < j
  <2>1. i + 1 < j + 1 /\ i + 1 \in 1 .. n /\ j + 1 \in 1 .. n
    BY <1>2
  <2> QED
    BY <1>1, <1>3, <2>1
<1>11. Plan(todo, Rest)'
  BY <1>3, <1>10 DEF Plan, Rest
<1>12. \A x \in Rest : x = op \/ Rank(op) < Rank(x)
  BY <1>1, <1>5, <1>7, <1>8
<1> QED
  BY <1>1, <1>6, <1>7, <1>9, <1>11, <1>12

-----------------------------------------------------------------------------
(* Once the call has returned: the mixer is a sink of the recording device *)
(* while the radio is the source, whose device is open, and so is the play *)
(* device that it writes to.  A player that is a source has been loaded,   *)
(* and one that is loaded has the play device open.                        *)
Settles ==
  /\ SinkAfter <=> top = "radio"
  /\ top = "radio" \/ "radio" \in below => RecAfter
  /\ RecAfter => PlayAfter /\ "radio" \in After
  /\ top = "player" \/ "player" \in below => player # "STOPPED"
  /\ player # "STOPPED" => PlayAfter /\ "player" \in After
  /\ player \in {"RUNNING", "PAUSED"} => top = "player" \/ "player" \in below
  /\ top = "none" => below = {}

(* On the way there.  Nothing pauses or starts a closed play device.       *)
Meanwhile ==
  /\ playDev \in DevStates
  /\ {"playStart", "playPause"} \cap Rest # {} => playDev # "closed" /\ "playOpen" \notin Rest
  /\ {"playStart", "playClose"} \cap Rest # {"playStart", "playClose"}
  /\ sink => playDev # "closed"
  /\ "dropSink" \in Rest => "radio" \in holders
  /\ "playOpen" \in Rest => ~ sink /\ "putSink" \notin Rest
  /\ callback = "sending" => sink

FeedInv == TypeOK /\ Plan(todo, Rest) /\ Settles /\ Meanwhile

(* Clients that keep the play device open while the radio may write to it. *)
Mannered == {"reopen", "idleClose"} \cap Env = {}

LEMMA FeedStarts == ASSUME Init PROVE FeedInv
<1>1. todo = <<>> /\ Rest = {}
  BY DEF Init, Rest
<1>2. Plan(todo, Rest)
  BY <1>1, PlanNone
<1>3. TypeOK
  <2>1. todo \in Seq(Ops) /\ FrameLen \in Nat /\ FCapcity \in Nat
    BY <1>1, RecordFeedAssumption
  <2>2. raced \in BOOLEAN /\ mute \in BOOLEAN /\ sink \in BOOLEAN
    BY DEF Init
  <2>3. left \in 0 .. FrameLen /\ ring \in 0 .. FCapcity
    BY <2>1 DEF Init
  <2> QED
    BY <2>1, <2>2, <2>3 DEF Init, TypeOK, DevStates
<1>4. Settles /\ Meanwhile
  BY <1>1 DEF Init, Settles, Meanwhile, SinkAfter, RecAfter, PlayAfter, After, DevStates
<1> QED
  BY <1>2, <1>3, <1>4 DEF FeedInv

(* A step of a call changes nothing of what will be.                       *)
LEMMA StepKeeps ==
  ASSUME FeedInv, NEW op \in Ops, Doing(op),
         SinkAfter' = SinkAfter, RecAfter' = RecAfter, After' = After,
         RecAfter \/ player # "STOPPED" => PlayAfter',
         playDev' \in DevStates,
         {"playStart", "playPause"} \cap (Rest \ {op}) # {} => playDev' # "closed",
         sink' => playDev' # "closed",
         "dropSink" \in Rest /\ op # "dropSink" => "radio" \in holders',
         "playOpen" \in Rest /\ op # "playOpen" => ~ sink',
         callback' = "sending" => sink',
         TypeOK'
  PROVE  FeedInv'
<1>1. /\ Plan(todo, Rest)' /\ Rest' = Rest \ {op} /\ op \in Rest
      /\ \A x \in Rest : x = op \/ Rank(op) < Rank(x)
  BY Step DEF FeedInv
<1>2. top' = top /\ below' = below /\ player' = player
  BY DEF Doing, calls
<1>3. Settles'
  BY <1>2 DEF FeedInv, Settles
<1>4. Meanwhile'
  BY <1>1, <1>2 DEF FeedInv, Meanwhile
<1> QED
  BY <1>1, <1>3, <1>4 DEF FeedInv

LEMMA AppKeeps ==
  ASSUME FeedInv, AppStep
  PROVE  FeedInv'
<1> USE DEF Ops
<1>1. /\ TypeOK /\ Settles /\ Meanwhile /\ Plan(todo, Rest)
      /\ \A op \in Ops : Doing(op) => /\ Plan(todo, Rest)' /\ Rest' = Rest \ {op} /\ op \in Rest
                                      /\ \A x \in Rest : x = op \/ Rank(op) < Rank(x)
                                      /\ todo' \in Seq(Ops) /\ UNCHANGED calls
  BY Step DEF FeedInv, Plan, Doing
<1>2. CASE DropSink
  <2>1. /\ Rest' = Rest \ {"dropSink"} /\ "dropSink" \in Rest /\ UNCHANGED calls
        /\ todo' \in Seq(Ops)
        /\ sink' = FALSE /\ callback # "sending" /\ UNCHANGED <<mixer, recDev, callback, left, ring>>
    BY <1>1, <1>2 DEF DropSink
  <2>2. TypeOK'
    BY <1>1, <2>1 DEF TypeOK, calls, mixer
  <2>3. SinkAfter' = SinkAfter /\ RecAfter' = RecAfter /\ PlayAfter' = PlayAfter /\ After' = After
    <3>1. After' = After
      BY <1>1, <2>1 DEF After, TypeOK, mixer
    <3> QED
      BY <2>1, <3>1 DEF SinkAfter, RecAfter, PlayAfter, mixer
  <2> QED
    BY <1>1, <1>2, <2>1, <2>2, <2>3, StepKeeps DEF DropSink, Settles, Meanwhile, mixer
<1>3. CASE PutSink
  <2>1. /\ Rest' = Rest \ {"putSink"} /\ "putSink" \in Rest /\ UNCHANGED calls
        /\ todo' \in Seq(Ops) /\ (\A x \in Rest : x = "putSink" \/ Rank("putSink") < Rank(x))
        /\ sink' = TRUE /\ callback # "sending" /\ UNCHANGED <<mixer, recDev, callback, left, ring>>
    BY <1>1, <1>3 DEF PutSink
  <2>2. TypeOK'
    BY <1>1, <2>1 DEF TypeOK, calls, mixer
  <2>3. "dropSink" \notin Rest
    BY <2>1, Ranks
  <2>4. SinkAfter' = SinkAfter /\ RecAfter' = RecAfter /\ PlayAfter' = PlayAfter /\ After' = After
    <3>1. After' = After
      BY <1>1, <2>1 DEF After, TypeOK, mixer
    <3> QED
      BY <2>1, <2>3, <3>1 DEF SinkAfter, RecAfter, PlayAfter, mixer
  <2>5. playDev # "closed" /\ "playOpen" \notin Rest
    BY <1>1, <2>1 DEF Settles, Meanwhile, SinkAfter, PlayAfter
  <2> QED
    BY <1>1, <1>3, <2>1, <2>2, <2>3, <2>4, <2>5, StepKeeps DEF PutSink, Settles, Meanwhile, mixer
<1>4. CASE Clear
  <2>1. /\ Rest' = Rest \ {"clear"} /\ UNCHANGED calls /\ todo' \in Seq(Ops)
        /\ ring' = 0 /\ UNCHANGED <<mixer, recDev, sink, callback, left>>
    BY <1>1, <1>4 DEF Clear
  <2>2. TypeOK'
    BY <1>1, <2>1, RecordFeedAssumption DEF TypeOK, calls, mixer
  <2>3. SinkAfter' = SinkAfter /\ RecAfter' = RecAfter /\ PlayAfter' = PlayAfter /\ After' = After
    <3>1. After' = After
      BY <1>1, <2>1 DEF After, TypeOK, mixer
    <3> QED
      BY <2>1, <3>1 DEF SinkAfter, RecAfter, PlayAfter, mixer
  <2> QED
    BY <1>1, <1>4, <2>1, <2>2, <2>3, StepKeeps DEF Clear, Settles, Meanwhile, mixer
<1>5. ASSUME NEW op \in {"recStart", "recPause", "recClose"},
             NEW state \in {"running", "paused", "closed"},
             state = "closed" <=> op = "recClose", Record(op, state)
      PROVE  FeedInv'
  <2>1. /\ Rest' = Rest \ {op} /\ op \in Rest /\ UNCHANGED calls /\ todo' \in Seq(Ops)
        /\ (\A x \in Rest : x = op \/ Rank(op) < Rank(x))
        /\ recDev' = state /\ UNCHANGED <<mixer, sink, callback, left, ring>>
    BY <1>1, <1>5 DEF Record
  <2>2. TypeOK'
    BY <1>1, <2>1 DEF TypeOK, calls, mixer, DevStates
  <2>3. SinkAfter' = SinkAfter /\ RecAfter' = RecAfter /\ PlayAfter' = PlayAfter /\ After' = After
    <3>1. After' = After
      BY <1>1, <2>1 DEF After, TypeOK, mixer
    <3>2. RecAfter' = RecAfter
      <4>1. CASE op = "recClose"
        BY <1>5, <2>1, <4>1, Ranks DEF RecAfter
      <4>2. CASE op # "recClose"
        <5>1. "recClose" \notin Rest
          BY <2>1, <4>2, Ranks
        <5> QED
          BY <1>5, <2>1, <4>2, <5>1 DEF RecAfter
      <4> QED
        BY <4>1, <4>2
    <3> QED
      BY <2>1, <3>1, <3>2 DEF SinkAfter, PlayAfter, mixer
  <2> QED
    BY <1>1, <1>5, <2>1, <2>2, <2>3, StepKeeps DEF Record, Settles, Meanwhile, mixer
<1>6. CASE PlayOpen
  <2>1. /\ Rest' = Rest \ {"playOpen"} /\ "playOpen" \in Rest /\ UNCHANGED calls
        /\ todo' \in Seq(Ops)
        /\ playDev' = "open" /\ ring' = 0 /\ mute' \in BOOLEAN
        /\ UNCHANGED <<holders, recDev, sink, callback, left>>
    BY <1>1, <1>6 DEF PlayOpen
  <2>2. TypeOK'
    BY <1>1, <2>1, RecordFeedAssumption DEF TypeOK, calls, DevStates
  <2>3. SinkAfter' = SinkAfter /\ RecAfter' = RecAfter /\ PlayAfter' = PlayAfter /\ After' = After
    <3>1. After' = After
      BY <1>1, <2>1 DEF After, TypeOK
    <3> QED
      BY <2>1, <3>1 DEF SinkAfter, RecAfter, PlayAfter
  <2> QED
    BY <1>1, <1>6, <2>1, <2>2, <2>3, StepKeeps DEF PlayOpen, Settles, Meanwhile, DevStates
<1>7. ASSUME NEW op \in {"playStart", "playPause"}, NEW state \in {"running", "paused"},
             PlayPause(op, state)
      PROVE  FeedInv'
  <2>1. /\ Rest' = Rest \ {op} /\ op \in Rest /\ UNCHANGED calls /\ todo' \in Seq(Ops)
        /\ playDev # "closed" /\ playDev' = state
        /\ UNCHANGED <<holders, mute, recDev, sink, callback, left, ring>>
    BY <1>1, <1>7 DEF PlayPause, Meanwhile, DevStates, Ringless
  <2>2. TypeOK'
    BY <1>1, <2>1 DEF TypeOK, calls, DevStates
  <2>3. SinkAfter' = SinkAfter /\ RecAfter' = RecAfter /\ PlayAfter' = PlayAfter /\ After' = After
    <3>1. After' = After
      BY <1>1, <2>1 DEF After, TypeOK
    <3> QED
      BY <2>1, <3>1 DEF SinkAfter, RecAfter, PlayAfter
  <2> QED
    BY <1>1, <1>7, <2>1, <2>2, <2>3, StepKeeps DEF PlayPause, Settles, Meanwhile, DevStates
<1>8. CASE PlayClose
  <2>1. /\ Rest' = Rest \ {"playClose"} /\ "playClose" \in Rest /\ UNCHANGED calls
        /\ todo' \in Seq(Ops) /\ (\A x \in Rest : x = "playClose" \/ Rank("playClose") < Rank(x))
        /\ playDev' = "closed" /\ mute' = FALSE /\ ring' = 0
        /\ UNCHANGED <<holders, recDev, sink, callback, left>>
    BY <1>1, <1>8 DEF PlayClose
  <2>2. TypeOK'
    <3>1. mute' \in BOOLEAN
      BY <1>1, <2>1 DEF TypeOK
    <3> QED
      BY <1>1, <2>1, <3>1, RecordFeedAssumption DEF TypeOK, calls, DevStates
  <2>3. /\ "dropSink" \notin Rest /\ "putSink" \notin Rest
        /\ {"playStart", "playPause"} \cap (Rest \ {"playClose"}) = {}
    BY <1>1, <2>1, Ranks DEF Meanwhile
  <2>4. SinkAfter' = SinkAfter /\ RecAfter' = RecAfter /\ After' = After
    <3>1. After' = After
      BY <1>1, <2>1 DEF After, TypeOK
    <3> QED
      BY <2>1, <3>1 DEF SinkAfter, RecAfter
  <2>5. ~ PlayAfter
    BY <2>1 DEF PlayAfter
  <2>6. ~ RecAfter /\ player = "STOPPED"
    BY <1>1, <2>5 DEF Settles
  <2>7. ~ sink
    BY <1>1, <2>3, <2>6 DEF Settles, SinkAfter
  <2> QED
    BY <1>1, <1>8, <2>1, <2>2, <2>3, <2>4, <2>6, <2>7, StepKeeps
       DEF PlayClose, Meanwhile, DevStates
<1>9. ASSUME NEW s \in {"radio", "player"}, Release(s) PROVE FeedInv'
  <2>1. /\ Rest' = Rest \ {s} /\ s \in Rest /\ UNCHANGED calls /\ todo' \in Seq(Ops)
        /\ (\A x \in Rest : x = s \/ Rank(s) < Rank(x))
        /\ holders' = holders \ {s}
        /\ \/ holders = {s} /\ playDev' = "closed" /\ mute' = FALSE /\ ring' = 0
           \/ holders # {s} /\ UNCHANGED <<playDev, mute, ring>>
        /\ UNCHANGED <<recDev, sink, callback, left>>
    BY <1>1, <1>9 DEF Release
  <2>2. TypeOK'
    <3>1. mute' \in BOOLEAN
      BY <1>1, <2>1 DEF TypeOK
    <3> QED
      BY <1>1, <2>1, <3>1, RecordFeedAssumption DEF TypeOK, calls, DevStates
  <2>3. "dropSink" \notin Rest /\ "putSink" \notin Rest /\ "playOpen" \notin Rest
        /\ "playClose" \notin Rest /\ {"playStart", "playPause"} \cap Rest = {}
    BY <2>1, Ranks
  <2>4. SinkAfter' = SinkAfter /\ RecAfter' = RecAfter /\ After' = After
    <3>1. After' = After
      BY <1>1, <2>1 DEF After, TypeOK
    <3> QED
      BY <2>1, <3>1 DEF SinkAfter, RecAfter
  <2>5. RecAfter \/ player # "STOPPED" => holders # {s}
    BY <1>1, <2>1 DEF Settles, After
  <2>6. sink => RecAfter
    BY <1>1, <2>3 DEF Settles, SinkAfter
  <2>7. RecAfter \/ player # "STOPPED" => PlayAfter' /\ playDev' # "closed"
    BY <1>1, <2>1, <2>3, <2>5 DEF Settles, PlayAfter
  <2> QED
    BY <1>1, <1>9, <2>1, <2>2, <2>3, <2>4, <2>6, <2>7, StepKeeps
       DEF Release, Meanwhile, DevStates
<1> QED
  BY <1>2, <1>3, <1>4, <1>5, <1>6, <1>7, <1>8, <1>9 DEF AppStep

-----------------------------------------------------------------------------
(* Between two calls what will be is what is.                              *)
LEMMA IdleFacts ==
  ASSUME FeedInv, Idle
  PROVE  /\ TypeOK /\ Rest = {}
         /\ sink <=> top = "radio"
         /\ top = "radio" \/ "radio" \in below => recDev # "closed"
         /\ recDev # "closed" => playDev # "closed" /\ "radio" \in holders
         /\ top = "player" \/ "player" \in below => player # "STOPPED"
         /\ player # "STOPPED" => playDev # "closed" /\ "player" \in holders
         /\ player \in {"RUNNING", "PAUSED"} => top = "player" \/ "player" \in below
         /\ top = "none" => below = {}
         /\ callback = "sending" => sink
<1>1. Rest = {}
  BY DEF Idle, Rest
<1> QED
  BY <1>1 DEF FeedInv, Settles, Meanwhile, SinkAfter, RecAfter, PlayAfter, After

(* A new call, which is decided at once and then done.                     *)
LEMMA CallKeeps ==
  ASSUME FeedInv, Idle, NEW S, Plan(todo', S),
         UNCHANGED <<mixer, recDev, sink, callback, left, ring>>,
         top' \in {"none", "radio", "player"}, below' \subseteq {"radio", "player"} \ {top'},
         player' \in {"STOPPED", "LOADED", "RUNNING", "PAUSED"}, raced' \in BOOLEAN,
         "putSink" \in S \/ ("dropSink" \notin S /\ sink) <=> top' = "radio",
         top' = "radio" \/ "radio" \in below'
           => {"recPause", "recStart"} \cap S # {} \/ ("recClose" \notin S /\ recDev # "closed"),
         {"recPause", "recStart"} \cap S # {} \/ ("recClose" \notin S /\ recDev # "closed")
           => /\ "playClose" \notin S /\ ("playOpen" \in S \/ playDev # "closed")
              /\ "radio" \in holders \ S,
         top' = "player" \/ "player" \in below' => player' # "STOPPED",
         player' # "STOPPED"
           => /\ "playClose" \notin S /\ ("playOpen" \in S \/ playDev # "closed")
              /\ "player" \in holders \ S,
         player' \in {"RUNNING", "PAUSED"} => top' = "player" \/ "player" \in below',
         {"playStart", "playPause"} \cap S # {} => playDev # "closed" /\ "playOpen" \notin S,
         {"playStart", "playClose"} \cap S # {"playStart", "playClose"},
         top' = "none" => below' = {},
         "dropSink" \in S => "radio" \in holders,
         "playOpen" \in S => playDev = "closed" /\ "putSink" \notin S
  PROVE  FeedInv'
<1>1. /\ TypeOK /\ playDev \in DevStates
      /\ (sink => playDev # "closed") /\ (callback = "sending" => sink)
  BY DEF FeedInv, Meanwhile
<1>2. Rest' = S /\ Plan(todo', Rest') /\ todo' \in Seq(Ops)
  BY DEF Plan, Rest
<1>3. TypeOK'
  BY <1>1, <1>2 DEF TypeOK, mixer
<1>4. Settles'
  BY <1>2 DEF Settles, SinkAfter, RecAfter, PlayAfter, After, mixer
<1>5. Meanwhile'
  BY <1>1, <1>2 DEF Meanwhile, mixer
<1> QED
  BY <1>2, <1>3, <1>4, <1>5 DEF FeedInv

LEMMA HeirIs ==
  ASSUME TypeOK, NEW s \in {"radio", "player"}
  PROVE  /\ top # s => Heir(s) = top
         /\ top = s /\ below = {} => Heir(s) = "none"
         /\ top = s /\ below # {} => Heir(s) \in below
<1> DEFINE P(x) == x \in below \/ (x = "none" /\ below = {})
<1>1. below \subseteq {"radio", "player"} \ {top}
  BY DEF TypeOK
<1>2. top = s => Heir(s) = CHOOSE x \in {"radio", "player", "none"} : P(x)
  BY DEF Heir
<1>3. \E x \in {"radio", "player", "none"} : P(x)
  BY <1>1
<1>4. P(CHOOSE x \in {"radio", "player", "none"} : P(x))
  BY <1>3
<1> HIDE DEF P
<1>5. top = s => P(Heir(s))
  BY <1>2, <1>4
<1>6. \A x : P(x) => (below = {} => x = "none") /\ (below # {} => x \in below)
  BY DEF P
<1> QED
  BY <1>5, <1>6 DEF Heir

LEMMA RadioOpenKeeps == ASSUME Mannered, FeedInv, RadioOpen PROVE FeedInv'
<1>1. /\ Idle /\ "radio" \in holders /\ recDev = "closed" /\ UNCHANGED calls
      /\ UNCHANGED <<mixer, recDev, sink, callback, left, ring>>
  BY DEF RadioOpen, Does
<1>2. PICK ops \in Opens : todo' = ops \o <<"recPause">>
  BY DEF RadioOpen, Does
<1>3. \/ ops = <<"playOpen">> /\ playDev = "closed"
      \/ ops = <<>> /\ playDev # "closed"
  BY <1>2 DEF Opens, Mannered
<1>4. Plan(<<"recPause">>, {"recPause"}) /\ Plan(<<"playOpen">>, {"playOpen"}) /\ Plan(<<>>, {})
  BY PlanOne, PlanNone DEF Ops
<1>5. \/ Plan(todo', {"playOpen"} \cup {"recPause"}) /\ playDev = "closed"
      \/ Plan(todo', {} \cup {"recPause"}) /\ playDev # "closed"
  <2>1. \A x \in {"playOpen"}, y \in {"recPause"} : Rank(x) < Rank(y)
    BY Ranks
  <2> QED
    BY <1>2, <1>3, <1>4, <2>1, PlanJoin
<1>6. PICK S : /\ Plan(todo', S) /\ S \subseteq {"playOpen", "recPause"} /\ "recPause" \in S
               /\ "playOpen" \in S <=> playDev = "closed"
  <2>1. CASE playDev = "closed"
    BY <1>5, <2>1
  <2>2. CASE playDev # "closed"
    BY <1>5, <2>2
  <2> QED
    BY <2>1, <2>2
<1> QED
  BY <1>1, <1>6, IdleFacts, CallKeeps DEF calls, TypeOK

LEMMA RadioPlayKeeps == ASSUME FeedInv, RadioPlay PROVE FeedInv'
<1> DEFINE first == IF top # "player" THEN <<>>
                    ELSE IF player = "RUNNING" THEN <<"playPause", "clear">> ELSE <<"clear">>
           put == IF top = "radio" THEN <<>> ELSE <<"putSink">>
           start == <<"recStart", "playStart">>
<1>1. /\ Idle /\ recDev # "closed" /\ top' = "radio"
      /\ below' = (below \cup {top}) \ {"radio", "none"}
      /\ player' = (IF player = "RUNNING" THEN "PAUSED" ELSE player)
      /\ raced' \in {TRUE, raced}
      /\ UNCHANGED <<mixer, recDev, sink, callback, left, ring>>
      /\ todo' = first \o put \o start
  BY DEF RadioPlay, Does
<1>2. PICK A \in {{}, {"clear"}, {"playPause", "clear"}} : Plan(first, A)
  BY PlanNone, PlanOne, PlanTwo, Ranks DEF Ops
<1>3. PICK B \in {{}, {"putSink"}} : Plan(put, B) /\ (B = {} <=> top = "radio")
  BY PlanNone, PlanOne DEF Ops
<1>4. Plan(start, {"recStart", "playStart"})
  BY PlanTwo, Ranks DEF Ops
<1> HIDE DEF first, put, start
<1>5. Plan(first \o put, A \cup B)
  <2>1. \A x \in A, y \in B : Rank(x) < Rank(y)
    BY Ranks
  <2> QED
    BY <1>2, <1>3, <2>1, PlanJoin
<1>6. Plan(todo', A \cup B \cup {"recStart", "playStart"})
  <2>1. \A x \in A \cup B, y \in {"recStart", "playStart"} : Rank(x) < Rank(y)
    BY Ranks
  <2> QED
    BY <1>1, <1>4, <1>5, <2>1, PlanJoin
<1> DEFINE S == A \cup B \cup {"recStart", "playStart"}
<1>7. /\ "putSink" \in S <=> top # "radio"
      /\ S \subseteq {"playPause", "clear", "putSink", "recStart", "playStart"}
      /\ "recStart" \in S
  BY <1>3
<1> HIDE DEF S
<1>8. Plan(todo', S)
  BY <1>6 DEF S
<1>9. raced' \in BOOLEAN
  BY <1>1, IdleFacts DEF TypeOK
<1> QED
  BY <1>1, <1>7, <1>8, <1>9, IdleFacts, CallKeeps DEF TypeOK

LEMMA RadioPauseKeeps == ASSUME FeedInv, RadioPause PROVE FeedInv'
<1> DEFINE pause == IF top = "radio" THEN <<"playPause">> ELSE <<>>
<1>1. /\ Idle /\ recDev # "closed" /\ UNCHANGED calls
      /\ UNCHANGED <<mixer, recDev, sink, callback, left, ring>>
      /\ todo' = <<"recPause">> \o pause
  BY DEF RadioPause, Does
<1>2. PICK A \in {{}, {"playPause"}} : Plan(pause, A)
  BY PlanNone, PlanOne DEF Ops
<1>3. Plan(<<"recPause">>, {"recPause"})
  BY PlanOne DEF Ops
<1> HIDE DEF pause
<1> DEFINE S == {"recPause"} \cup A
<1>4. Plan(todo', S)
  <2>1. \A x \in {"recPause"}, y \in A : Rank(x) < Rank(y)
    BY Ranks
  <2> QED
    BY <1>1, <1>2, <1>3, <2>1, PlanJoin
<1>5. S \subseteq {"recPause", "playPause"} /\ "recPause" \in S
  OBVIOUS
<1> HIDE DEF S
<1> QED
  BY <1>1, <1>4, <1>5, IdleFacts, CallKeeps DEF TypeOK, calls

(* What a call ends with: the destructors release the mixer.               *)
Lasts(last, L) == \/ last = <<>> /\ L = {}
                  \/ last = <<"radio">> /\ L = {"radio"}
                  \/ last = <<"player">> /\ L = {"player"}

LEMMA LastPlans == ASSUME NEW last, NEW L, Lasts(last, L) PROVE Plan(last, L)
BY PlanNone, PlanOne DEF Lasts, Ops

LEMMA RadioCloseKeeps ==
  ASSUME Mannered, FeedInv, NEW last, NEW L \in {{}, {"radio"}}, Lasts(last, L), RadioClose(last)
  PROVE  FeedInv'
<1> DEFINE resumed == top = "radio" /\ Heir("radio") = "player" /\ raced /\ player = "PAUSED"
           mid == IF LeavesNone("radio") THEN <<"playClose">>
                  ELSE IF resumed THEN <<"playStart">> ELSE <<>>
           close == <<"recClose", "dropSink">>
<1>1. /\ Idle /\ "radio" \in holders
      /\ top' = Heir("radio") /\ below' = below \ {"radio", Heir("radio")}
      /\ player' = IF resumed THEN "RUNNING" ELSE player
      /\ UNCHANGED <<mixer, recDev, sink, callback, left, ring>>
      /\ todo' = close \o mid \o last
  BY DEF RadioClose, Removes, Does
<1>2. raced' \in BOOLEAN
  BY DEF RadioClose
<1>3. PICK A \in {{}, {"playClose"}, {"playStart"}} :
        /\ Plan(mid, A)
        /\ "playClose" \in A <=> LeavesNone("radio")
        /\ "playStart" \in A => resumed
  BY PlanNone, PlanOne DEF Ops
<1>4. Plan(close, {"recClose", "dropSink"})
  BY PlanTwo, Ranks DEF Ops
<1>5. resumed => player = "PAUSED"
  OBVIOUS
<1> HIDE DEF mid, close, resumed
<1> DEFINE S == {"recClose", "dropSink"} \cup A \cup L
<1>6. Plan(todo', S)
  <2>1. \A x \in {"recClose", "dropSink"}, y \in A : Rank(x) < Rank(y)
    BY Ranks
  <2>2. Plan(close \o mid, {"recClose", "dropSink"} \cup A)
    BY <1>3, <1>4, <2>1, PlanJoin
  <2>3. \A x \in {"recClose", "dropSink"} \cup A, y \in L : Rank(x) < Rank(y)
    BY Ranks
  <2> QED
    BY <1>1, <2>2, <2>3, LastPlans, PlanJoin
<1>7. /\ S \subseteq {"recClose", "dropSink", "playClose", "playStart", "radio"}
      /\ "recClose" \in S /\ "dropSink" \in S
      /\ "playClose" \in S <=> LeavesNone("radio")
      /\ "playStart" \in S => resumed /\ "playClose" \notin S
  BY <1>3
<1> HIDE DEF S
<1>8. /\ TypeOK
      /\ top # "radio" => Heir("radio") = top
      /\ top = "radio" /\ below = {} => Heir("radio") = "none"
      /\ top = "radio" /\ below # {} => Heir("radio") \in below
  BY IdleFacts, HeirIs, <1>1
<1>9. /\ top' \in {"none", "player"} /\ below' \subseteq {"player"} \ {top'}
      /\ top' = "player" \/ "player" \in below' <=> top = "player" \/ "player" \in below
      /\ top' = "none" => below' = {}
  BY <1>1, <1>8, IdleFacts DEF TypeOK
<1>10. /\ player' # "STOPPED" <=> player # "STOPPED"
       /\ player' \in {"STOPPED", "LOADED", "RUNNING", "PAUSED"}
       /\ player' \in {"RUNNING", "PAUSED"} <=> player \in {"RUNNING", "PAUSED"}
  BY <1>1, <1>5, <1>8 DEF TypeOK
<1>11. LeavesNone("radio") => player # "LOADED"
  BY DEF RadioClose, Mannered
<1>12. LeavesNone("radio") => player = "STOPPED"
  <2>1. LeavesNone("radio") => top # "player" /\ "player" \notin below
    BY <1>8 DEF LeavesNone, TypeOK
  <2> QED
    BY <1>1, <1>8, <1>11, <2>1, IdleFacts DEF TypeOK
<1>13. /\ player' \in {"RUNNING", "PAUSED"} => top' = "player" \/ "player" \in below'
       /\ player' # "STOPPED" => /\ "playClose" \notin S /\ playDev # "closed"
                                 /\ "player" \in holders \ S
       /\ "playStart" \in S => playDev # "closed"
  BY <1>1, <1>5, <1>7, <1>9, <1>10, <1>12, IdleFacts
<1>14. S \cap {"putSink", "playOpen", "playPause", "recPause", "recStart"} = {}
  BY <1>7
<1> QED
  BY <1>1, <1>2, <1>6, <1>7, <1>9, <1>10, <1>13, <1>14, IdleFacts, CallKeeps

LEMMA PlayerLoadKeeps == ASSUME Mannered, FeedInv, PlayerLoad PROVE FeedInv'
<1>1. /\ Idle /\ "player" \in holders /\ player' = "LOADED" /\ UNCHANGED <<top, below, raced>>
      /\ UNCHANGED <<mixer, recDev, sink, callback, left, ring>>
  BY DEF PlayerLoad, Does
<1>2. todo' \in Opens
  BY DEF PlayerLoad, Does
<1>3. \/ todo' = <<"playOpen">> /\ playDev = "closed"
      \/ todo' = <<>> /\ playDev # "closed"
  BY <1>2 DEF Opens, Mannered
<1>4. \/ Plan(todo', {"playOpen"}) /\ playDev = "closed"
      \/ Plan(todo', {}) /\ playDev # "closed"
  BY <1>3, PlanOne, PlanNone DEF Ops
<1>5. PICK S : Plan(todo', S) /\ S \subseteq {"playOpen"} /\ ("playOpen" \in S <=> playDev = "closed")
  <2>1. CASE playDev = "closed"
    BY <1>4, <2>1
  <2>2. CASE playDev # "closed"
    BY <1>4, <2>2
  <2> QED
    BY <2>1, <2>2
<1> QED
  BY <1>1, <1>5, IdleFacts, CallKeeps DEF TypeOK

LEMMA PlayerPlayKeeps == ASSUME FeedInv, PlayerPlay PROVE FeedInv'
<1> DEFINE drop == IF top = "radio" THEN <<"dropSink", "clear">> ELSE <<>>
<1>1. /\ Idle /\ player \in {"LOADED", "PAUSED"} /\ player' = "RUNNING" /\ top' = "player"
      /\ below' = (below \cup {top}) \ {"player", "none"}
      /\ UNCHANGED <<mixer, recDev, sink, callback, left, ring>>
      /\ todo' = drop \o <<"playStart">>
  BY DEF PlayerPlay, Does
<1>2. raced' \in BOOLEAN
  BY DEF PlayerPlay
<1>3. PICK A \in {{}, {"dropSink", "clear"}} : Plan(drop, A) /\ (A = {} <=> top # "radio")
  BY PlanNone, PlanTwo, Ranks DEF Ops
<1>4. Plan(<<"playStart">>, {"playStart"})
  BY PlanOne DEF Ops
<1> HIDE DEF drop
<1> DEFINE S == A \cup {"playStart"}
<1>5. Plan(todo', S)
  <2>1. \A x \in A, y \in {"playStart"} : Rank(x) < Rank(y)
    BY Ranks
  <2> QED
    BY <1>1, <1>3, <1>4, <2>1, PlanJoin
<1>6. S \subseteq {"dropSink", "clear", "playStart"} /\ ("dropSink" \in S <=> top = "radio")
  BY <1>3
<1> HIDE DEF S
<1> QED
  BY <1>1, <1>2, <1>5, <1>6, IdleFacts, CallKeeps DEF TypeOK

LEMMA PlayerPauseKeeps == ASSUME FeedInv, PlayerPause PROVE FeedInv'
<1>1. /\ Idle /\ player = "RUNNING" /\ player' = "PAUSED" /\ UNCHANGED <<top, below, raced>>
      /\ UNCHANGED <<mixer, recDev, sink, callback, left, ring>>
      /\ todo' = IF top = "player" THEN <<"playPause">> ELSE <<>>
  BY DEF PlayerPause, Does
<1>2. PICK S \in {{}, {"playPause"}} : Plan(todo', S)
  BY <1>1, PlanNone, PlanOne DEF Ops
<1>3. S \subseteq {"playPause"}
  OBVIOUS
<1> QED
  BY <1>1, <1>2, <1>3, IdleFacts, CallKeeps DEF TypeOK

LEMMA PlayerStopKeeps ==
  ASSUME Mannered, FeedInv, NEW last, NEW L \in {{}, {"player"}}, Lasts(last, L), PlayerStop(last)
  PROVE  FeedInv'
<1> DEFINE first == IF LeavesNone("player") THEN <<"playClose">>
                    ELSE IF top = "player" THEN <<"putSink">> ELSE <<>>
<1>1. /\ Idle /\ player' = "STOPPED" /\ raced' = raced
      /\ top' = Heir("player") /\ below' = below \ {"player", Heir("player")}
      /\ LeavesNone("player") => recDev = "closed"
      /\ UNCHANGED <<mixer, recDev, sink, callback, left, ring>>
      /\ todo' = first \o last
  BY DEF PlayerStop, Removes, Does, Mannered
<1>2. PICK A \in {{}, {"playClose"}, {"putSink"}} :
        /\ Plan(first, A)
        /\ "playClose" \in A <=> LeavesNone("player")
        /\ "putSink" \in A <=> ~ LeavesNone("player") /\ top = "player"
  BY PlanNone, PlanOne DEF Ops
<1> HIDE DEF first
<1> DEFINE S == A \cup L
<1>3. Plan(todo', S)
  <2>1. \A x \in A, y \in L : Rank(x) < Rank(y)
    BY Ranks
  <2> QED
    BY <1>1, <1>2, <2>1, LastPlans, PlanJoin
<1>4. /\ S \subseteq {"playClose", "putSink", "player"}
      /\ "playClose" \in S <=> LeavesNone("player")
      /\ "putSink" \in S <=> ~ LeavesNone("player") /\ top = "player"
  BY <1>2
<1> HIDE DEF S
<1>5. /\ TypeOK
      /\ top # "player" => Heir("player") = top
      /\ top = "player" /\ below = {} => Heir("player") = "none"
      /\ top = "player" /\ below # {} => Heir("player") \in below
  BY <1>1, IdleFacts, HeirIs
<1>6. /\ top' \in {"none", "radio"} /\ below' \subseteq {"radio"} \ {top'}
      /\ top' = "radio" \/ "radio" \in below' <=> top = "radio" \/ "radio" \in below
      /\ top' = "none" => below' = {}
      /\ top' = "radio" <=> top = "radio" \/ (~ LeavesNone("player") /\ top = "player")
  BY <1>1, <1>5, IdleFacts DEF TypeOK, LeavesNone
<1>7. raced' \in BOOLEAN
  BY <1>1, <1>5 DEF TypeOK
<1> QED
  BY <1>1, <1>3, <1>4, <1>6, <1>7, IdleFacts, CallKeeps

LEMMA DeleteKeeps ==
  ASSUME Mannered, FeedInv, NEW s \in {"radio", "player"}, Delete(s)
  PROVE  FeedInv'
<1>1. CASE s = "radio" /\ RadioClose(<<s>>)
  BY <1>1, RadioCloseKeeps DEF Lasts
<1>2. CASE s = "player" /\ PlayerStop(<<s>>)
  BY <1>2, PlayerStopKeeps DEF Lasts
<1>3. CASE s = "player" /\ player = "STOPPED" /\ Idle /\ Does(<<s>>) /\ UNCHANGED calls
  <2>1. /\ UNCHANGED <<mixer, recDev, sink, callback, left, ring>>
        /\ Plan(todo', {"player"})
    BY <1>3, PlanOne DEF Does, Ops
  <2> DEFINE S == {"player"}
  <2>2. Plan(todo', S) /\ S \subseteq {"player"}
    BY <2>1
  <2> HIDE DEF S
  <2> QED
    BY <1>3, <2>1, <2>2, IdleFacts, CallKeeps DEF TypeOK, calls
<1> QED
  BY <1>1, <1>2, <1>3 DEF Delete

LEMMA InstRefKeeps ==
  ASSUME FeedInv, NEW s \in {"radio", "player"}, InstRef(s)
  PROVE  FeedInv'
<1>1. /\ holders' = holders \cup {s} /\ Rest' = Rest
      /\ UNCHANGED <<todo, calls, playDev, mute, recDev, sink, callback, left, ring>>
  BY DEF InstRef, Rest
<1>2. TypeOK'
  BY <1>1 DEF FeedInv, TypeOK, calls
<1>3. Settles' /\ Meanwhile'
  BY <1>1 DEF FeedInv, Settles, Meanwhile, SinkAfter, RecAfter, PlayAfter, After, calls
<1> QED
  BY <1>1, <1>2, <1>3 DEF FeedInv

LEMMA CallbackKeeps ==
  ASSUME FeedInv, Send \/ SendLocks \/ OnFrame \/ HandleCallback
  PROVE  FeedInv'
<1>1. /\ UNCHANGED <<todo, calls, mixer, recDev, sink>> /\ Rest' = Rest
      /\ callback' = "sending" => callback = "sending" \/ sink
  BY DEF Send, SendLocks, OnFrame, HandleCallback, Rest
<1>2. callback' \in {"idle", "locking", "sending"} /\ left' \in 0 .. FrameLen /\ ring' \in 0 .. FCapcity
  <2>1. TypeOK /\ FrameLen \in 1 .. FCapcity /\ FCapcity \in Nat
    BY RecordFeedAssumption DEF FeedInv
  <2>2. CASE Send \/ SendLocks
    BY <2>1, <2>2 DEF TypeOK, Send, SendLocks
  <2>3. CASE OnFrame
    BY <2>1, <2>3 DEF TypeOK, OnFrame, Written
  <2>4. CASE HandleCallback
    BY <2>1, <2>4 DEF TypeOK, HandleCallback
  <2> QED
    BY <2>2, <2>3, <2>4
<1>3. TypeOK'
  BY <1>1, <1>2 DEF FeedInv, TypeOK, calls, mixer
<1>4. Settles' /\ Meanwhile'
  BY <1>1 DEF FeedInv, Settles, Meanwhile, SinkAfter, RecAfter, PlayAfter, After, calls, mixer
<1> QED
  BY <1>1, <1>3, <1>4 DEF FeedInv

LEMMA FeedStep == ASSUME Mannered, FeedInv, [Next]_vars PROVE FeedInv'
<1>1. CASE UNCHANGED vars
  <2>1. UNCHANGED <<todo, calls, mixer, recDev, sink, callback, left, ring>> /\ Rest' = Rest
    BY <1>1 DEF vars, Rest
  <2>2. TypeOK' /\ Plan(todo, Rest)'
    BY <2>1 DEF FeedInv, TypeOK, Plan, calls, mixer
  <2>3. Settles' /\ Meanwhile'
    BY <2>1 DEF FeedInv, Settles, Meanwhile, SinkAfter, RecAfter, PlayAfter, After, calls, mixer
  <2> QED
    BY <2>2, <2>3 DEF FeedInv
<1>2. CASE Call
  <2>1. CASE RadioOpen \/ RadioPlay \/ RadioPause \/ PlayerLoad \/ PlayerPlay \/ PlayerPause
    BY <2>1, RadioOpenKeeps, RadioPlayKeeps, RadioPauseKeeps, PlayerLoadKeeps, PlayerPlayKeeps,
       PlayerPauseKeeps
  <2>2. CASE RadioClose(<<>>) \/ PlayerStop(<<>>)
    BY <2>2, RadioCloseKeeps, PlayerStopKeeps DEF Lasts
  <2>3. CASE \E s \in {"radio", "player"} : InstRef(s) \/ Delete(s)
    BY <2>3, InstRefKeeps, DeleteKeeps
  <2> QED
    BY <1>2, <2>1, <2>2, <2>3 DEF Call
<1>3. CASE AppStep
  BY <1>3, AppKeeps
<1>4. CASE Send \/ SendLocks \/ OnFrame \/ HandleCallback
  BY <1>4, CallbackKeeps
<1> QED
  BY <1>1, <1>2, <1>3, <1>4 DEF Next

(* Frames go into the ring only while the mixer is a sink.                 *)
LEMMA FramesOfTheRadio ==
  ASSUME FeedInv, [Next]_vars
  PROVE  ring' > ring /\ Idle => top = "radio"
<1> SUFFICES ASSUME ring' > ring, Idle PROVE top = "radio"
  OBVIOUS
<1>1. ring \in Nat /\ TypeOK /\ (sink <=> top = "radio") /\ (callback = "sending" => sink)
  BY IdleFacts DEF TypeOK
<1>2. ring' # ring
  BY <1>1
<1>3. CASE AppStep
  BY <1>3 DEF AppStep, Idle, Doing, DropSink, PutSink, Clear, Record, PlayOpen, PlayPause,
              PlayClose, Release
<1>4. CASE Call
  BY <1>2, <1>4 DEF Call, RadioOpen, RadioPlay, RadioPause, RadioClose, PlayerLoad, PlayerPlay,
                    PlayerPause, PlayerStop, InstRef, Delete, Does
<1>5. CASE Send \/ SendLocks \/ UNCHANGED vars
  BY <1>2, <1>5 DEF Send, SendLocks, vars
<1>6. CASE HandleCallback
  BY <1>1, <1>6 DEF HandleCallback
<1>7. CASE OnFrame
  BY <1>1, <1>7 DEF OnFrame
<1> QED
  BY <1>3, <1>4, <1>5, <1>6, <1>7 DEF Next

LEMMA FeedInvariant == ASSUME Mannered PROVE Spec => []FeedInv
<1>1. Init => FeedInv
  BY FeedStarts
<1>2. FeedInv /\ [Next]_vars => FeedInv'
  BY FeedStep
<1> QED
  BY <1>1, <1>2, PTL DEF Spec

LEMMA FeedHasRing == ASSUME FeedInv PROVE RingThere
<1>1. TypeOK /\ Settles /\ Meanwhile
  BY DEF FeedInv
<1>2. sink => holders # {}
  BY <1>1 DEF Settles, Meanwhile, SinkAfter, After
<1>3. {top} \cup below \subseteq holders \cup {"none"}
  BY <1>1 DEF Settles, After, TypeOK
<1> QED
  BY <1>1, <1>2, <1>3 DEF Meanwhile, RingThere, DevStates, Ringless

(* While OnFrame writes, the play device is open, and whoever may be       *)
(* called exists: for every ring, frame and order of calls and callbacks,  *)
(* whether SDL opens the device or not and however long calls last; for    *)
(* clients that neither open the device anew nor close it under the radio  *)
(* (include/radio_player.h:17-21, 35-42, src/audio_mixer.cpp:23-33, 96-97, *)
(* 111-124).                                                               *)
THEOREM RingOutlivesFrames ==
  ASSUME Mannered
  PROVE  Spec => []RingThere
<1> QED
  BY FeedInvariant, FeedHasRing, PTL

(* Nor does a frame of the radio get into the ring once another source has *)
(* displaced it or it was removed (src/audio_mixer.cpp:66-73,              *)
(* include/hc_audio.h:105-125).                                            *)
THEOREM DisplacedIsSilent ==
  ASSUME Mannered
  PROVE  Spec => NoLateFrame
<1>1. FeedInv /\ [Next]_vars => [ring' > ring /\ Idle => top = "radio"]_vars
  BY FramesOfTheRadio
<1> QED
  BY <1>1, FeedInvariant, PTL DEF Spec, NoLateFrame

-----------------------------------------------------------------------------
(* Clients close before they open anew, and handles are no null pointers.  *)
Orderly == "reopen" \notin DeviceEnv /\ Handle \cap {ALSA!NULL, ALSA!Unset} = {}

Pcms == [state : ALSA!States, pause : BOOLEAN, period : Period \cup {0}]

(* A closed device holds the log of a failed Open at most.                 *)
DeviceInv ==
  /\ FPcmHandle \in Handle \cup {ALSA!NULL} /\ FLog \in Handle \cup {ALSA!NULL, ALSA!Unset}
  /\ FCanPause \in BOOLEAN /\ FPeriodSize \in Period \cup {0}
  /\ held \subseteq Handle
  /\ pcm \in Pcms
  /\ OpenIsReady

(* No pcm, and the record of one, have their type.                         *)
LEMMA PcmTypes ==
  /\ ALSA!NoPcm \in Pcms
  /\ \A state \in ALSA!States, pause \in BOOLEAN, period \in Period :
       ALSA!Pcm(state, pause, period) \in Pcms
BY DEF ALSA!NoPcm, ALSA!Pcm, ALSA!States, Pcms

(* Open starts without handles and ends with those it keeps.               *)
LEMMA OpenKeeps ==
  ASSUME Orderly, DeviceInv, ALSA!Open
  PROVE  DeviceInv'
<1>1. held = {} /\ FLog \in {ALSA!NULL, ALSA!Unset}
  BY DEF ALSA!Open, ALSA!MayOpen, Orderly, DeviceInv, OpenIsReady, ALSA!OpenIsReady
<1> PICK log \in Handle \cup {FLog}, handle \in Handle, got \in 0 .. 4, pause \in BOOLEAN,
         period \in Period :
      /\ log \in {ALSA!NULL, ALSA!Unset} => got = 0 \/ (got = 1 /\ log = ALSA!NULL)
      /\ ALSA!SetParams(got, pause)
      /\ FPeriodSize' = IF got >= 3 THEN period ELSE FPeriodSize
      /\ CASE got = 0 -> ALSA!Keeps(FPcmHandle, log) /\ pcm' = pcm
           [] got = 4 -> ALSA!Keeps(handle, log) /\ pcm' = ALSA!Pcm("prepared", pause, period)
           [] OTHER -> ALSA!ErrParams(handle, log,
                         ALSA!Pcm(IF got = 3 THEN "setup" ELSE "open", pause, period))
  BY DEF ALSA!Open
<1>2. FPcmHandle = ALSA!NULL
  BY DEF ALSA!Open, ALSA!MayOpen, Orderly
<1>3. FCanPause' \in BOOLEAN /\ FPeriodSize' \in Period \cup {0}
  BY DEF ALSA!SetParams, DeviceInv
<1>4. CASE got = 0
  BY <1>1, <1>2, <1>3, <1>4 DEF ALSA!Keeps, DeviceInv, OpenIsReady, ALSA!OpenIsReady, Orderly
<1>5. CASE got = 4
  <2>1. /\ FPcmHandle' = handle /\ FLog' = log /\ held' \subseteq {handle, log}
        /\ pcm' = ALSA!Pcm("prepared", pause, period) /\ log \in Handle
    BY <1>1, <1>5 DEF ALSA!Keeps
  <2>2. FCanPause' = pause /\ FPeriodSize' = period
    BY <1>5 DEF ALSA!SetParams
  <2>3. pcm'.state = "prepared" /\ pcm'.pause = pause /\ pcm'.period = period
    BY <2>1 DEF ALSA!Pcm
  <2> QED
    BY <1>3, <2>1, <2>2, <2>3, PcmTypes DEF DeviceInv, OpenIsReady, ALSA!OpenIsReady, ALSA!States
<1>6. CASE got \notin {0, 4}
  BY <1>1, <1>3, <1>6, PcmTypes DEF ALSA!ErrParams, DeviceInv, OpenIsReady, ALSA!OpenIsReady
<1> QED
  BY <1>4, <1>5, <1>6

(* ALSA moves the pcm between the states of one that is set up.            *)
LEMMA BecomesKeeps ==
  ASSUME DeviceInv, NEW state \in ALSA!States \ {"none", "open", "setup"}, ALSA!Becomes(state),
         NEW old \in ALSA!States \ {"none", "open", "setup"}, pcm.state = old
  PROVE  DeviceInv'
<1>1. /\ pcm' = [pcm EXCEPT !.state = state]
      /\ UNCHANGED <<FPcmHandle, FLog, FCanPause, FPeriodSize, held>>
  BY DEF ALSA!Becomes
<1> QED
  BY <1>1 DEF DeviceInv, OpenIsReady, ALSA!OpenIsReady, ALSA!States, Pcms

LEMMA DeviceStarts == ASSUME ALSA!Init PROVE DeviceInv
BY PcmTypes DEF ALSA!Init, DeviceInv, OpenIsReady, ALSA!OpenIsReady

LEMMA DeviceStep ==
  ASSUME Orderly, DeviceInv, [ALSA!Next]_(ALSA!vars)
  PROVE  DeviceInv'
<1>1. CASE ALSA!Open
  BY <1>1, OpenKeeps
<1>2. CASE ALSA!Close \/ ALSA!Destroy
  BY <1>2, PcmTypes DEF ALSA!Close, ALSA!Destroy, DeviceInv, OpenIsReady, ALSA!OpenIsReady
<1>3. ASSUME NEW enable \in BOOLEAN, ALSA!Pause(enable) PROVE DeviceInv'
  BY <1>3, BecomesKeeps DEF ALSA!Pause, ALSA!States
<1>4. CASE ALSA!Transfer \/ ALSA!Xrun \/ ALSA!Suspend
  BY <1>4, BecomesKeeps DEF ALSA!Transfer, ALSA!Xrun, ALSA!Suspend, ALSA!States
<1>5. CASE UNCHANGED ALSA!vars
  BY <1>5 DEF ALSA!vars, DeviceInv, OpenIsReady, ALSA!OpenIsReady
<1> QED
  BY <1>1, <1>2, <1>3, <1>4, <1>5 DEF ALSA!Next

(* An open device is prepared, with the values of its own pcm, and nothing *)
(* ALSA gave out is lost, however far earlier calls of Open have got       *)
(* (src/alsa_device.cpp:36-107).                                           *)
THEOREM OpenLeavesReady ==
  ASSUME Orderly
  PROVE  ALSA!Spec => []OpenIsReady
<1>1. ALSA!Init => DeviceInv
  BY DeviceStarts
<1>2. DeviceInv /\ [ALSA!Next]_(ALSA!vars) => DeviceInv'
  BY DeviceStep
<1>3. DeviceInv => OpenIsReady
  BY DEF DeviceInv
<1> QED
  BY <1>1, <1>2, <1>3, PTL DEF ALSA!Spec

-----------------------------------------------------------------------------
(* The unit after the one a frequency falls into, where a Seek may end.    *)
UnitsOf(f, c) == (f * Tuner!FacOf(c)) \div Kilo + 1

(* FM stations in kHz times 16 are far below 2^32; in Hz, times 1000, they *)
(* are not.                                                                *)
InRange ==
  /\ Kilo \in Nat \ {0} /\ Word \in Nat \ {0}
  /\ Freq \subseteq Nat /\ 0 \notin Freq
  /\ \A f \in Freq, c \in Caps : UnitsOf(f, c) * Kilo < Word

Heedful == "heedless" \notin TunerEnv

(* StartUp has found the factor, and the tuner is where the word reaches.  *)
TunerInv ==
  /\ cap \in Caps /\ units \in Nat /\ units * Kilo < Word
  /\ asked \in Freq \cup {0}
  /\ ready => Fac = Tuner!FacOf(cap)
  /\ FreqKept

(* Division rounds down.                                                   *)
LEMMA Rounds ==
  ASSUME NEW n \in Nat, NEW k \in Nat \ {0}
  PROVE  /\ n \div k \in Nat
         /\ n \in (n \div k) * k .. (n \div k) * k + k - 1
OBVIOUS

(* A number times a positive one does not shrink.                          *)
LEMMA Grows ==
  ASSUME NEW n \in Nat, NEW k \in Nat \ {0}
  PROVE  n <= n * k
OBVIOUS

(* Every factor is positive.                                               *)
LEMMA FacPositive == ASSUME InRange, NEW c PROVE Tuner!FacOf(c) \in Nat \ {0}
<1>1. 16 * Kilo \in Nat \ {0} /\ 16 \in Nat \ {0}
  BY DEF InRange
<1>2. Kilo * Kilo \in Nat \ {0}
  BY DEF InRange
<1> QED
  BY <1>1, <1>2 DEF Tuner!FacOf

(* What a heedful client is told is where the tuner is.                    *)
LEMMA ReportedExactly ==
  ASSUME InRange, Fac = Tuner!FacOf(cap), NEW u \in Nat, u * Kilo < Word
  PROVE  Tuner!Reported(u) = Tuner!KHz(u)
<1>1. u * Kilo \in Nat
  BY DEF InRange
<1>2. (u * Kilo) % Word = u * Kilo
  BY <1>1 DEF InRange
<1> QED
  BY <1>2 DEF Tuner!Reported, Tuner!KHz

(* A frequency that is tuned to goes into the word, and into its unit.     *)
LEMMA TunedExactly ==
  ASSUME InRange, NEW c \in Caps, NEW f \in Freq, NEW u \in Tuner!ToUint((f * Tuner!FacOf(c)) \div Kilo)
  PROVE  /\ u \in Nat /\ u * Kilo < Word
         /\ f * Tuner!FacOf(c) \in u * Kilo .. u * Kilo + Kilo - 1
<1> DEFINE n == f * Tuner!FacOf(c)
<1>1. n \in Nat
  BY FacPositive DEF InRange
<1>2. n \div Kilo \in Nat /\ n \in (n \div Kilo) * Kilo .. (n \div Kilo) * Kilo + Kilo - 1
  BY <1>1, Rounds DEF InRange
<1>3. (n \div Kilo + 1) * Kilo < Word
  BY DEF InRange, UnitsOf
<1> HIDE DEF n
<1>4. (n \div Kilo + 1) * Kilo = (n \div Kilo) * Kilo + Kilo
  BY <1>2 DEF InRange
<1>5. (n \div Kilo) * Kilo < Word /\ (n \div Kilo) * Kilo \in Nat
  BY <1>2, <1>3, <1>4 DEF InRange
<1>6. n \div Kilo < Word
  BY <1>2, <1>5, Grows DEF InRange
<1>7. u = n \div Kilo
  BY <1>6 DEF Tuner!ToUint, n
<1> QED
  BY <1>2, <1>5, <1>7 DEF n

-----------------------------------------------------------------------------
LEMMA TunerStarts == ASSUME InRange, Tuner!Init PROVE TunerInv
<1>1. units * Kilo < Word
  <2>1. 0 * Kilo = 0
    BY DEF InRange
  <2> QED
    BY <2>1 DEF Tuner!Init, InRange
<1> QED
  BY <1>1 DEF Tuner!Init, TunerInv, FreqKept, Tuner!FreqKept

LEMMA TunerStep ==
  ASSUME InRange, Heedful, TunerInv, [Tuner!Next]_(Tuner!vars)
  PROVE  TunerInv'
<1> DEFINE Told == status' \in {Tuner!Reported(units'), 0}
<1>1. CASE Tuner!StartUp \/ Tuner!Close
  BY <1>1 DEF Tuner!StartUp, Tuner!Close, TunerInv, FreqKept, Tuner!FreqKept, Tuner!KHz
<1>2. CASE Tuner!Ioctl /\ Tuner!Fails
  BY <1>2 DEF Tuner!Ioctl, Tuner!Fails, Tuner!tuner, TunerInv, FreqKept, Tuner!FreqKept
<1>3. ASSUME Tuner!Ioctl, Told, units' \in Nat, units' * Kilo < Word, asked' \in Freq \cup {0},
             asked' # 0 => asked' * Tuner!FacOf(cap) \in units' * Kilo .. units' * Kilo + Kilo - 1
      PROVE  TunerInv'
  <2>1. /\ Fac = Tuner!FacOf(cap) /\ ready /\ cap' = cap /\ Fac' = Fac /\ ready' = ready
        /\ private' = private
    BY <1>3 DEF Tuner!Ioctl, Tuner!Heeds, Heedful, Tuner!tuner, TunerInv
  <2>2. Tuner!Reported(units') = Tuner!KHz(units')
    BY <1>3, <2>1, ReportedExactly
  <2>3. Tuner!KHz(units)' = Tuner!KHz(units')
    BY <2>1 DEF Tuner!KHz
  <2> QED
    BY <1>3, <2>1, <2>2, <2>3 DEF TunerInv, FreqKept, Tuner!FreqKept
<1>4. CASE Tuner!QueryStat
  BY <1>3, <1>4 DEF Tuner!QueryStat, TunerInv, FreqKept, Tuner!FreqKept
<1>5. ASSUME NEW freq \in Freq, Tuner!Tune(freq) PROVE TunerInv'
  <2>1. Tuner!Ioctl /\ Fac = Tuner!FacOf(cap) /\ cap \in Caps
    BY <1>5 DEF Tuner!Tune, Tuner!Ioctl, Tuner!Heeds, Heedful, TunerInv
  <2>2. CASE Tuner!Fails
    BY <1>2, <2>1, <2>2
  <2>3. ASSUME units' \in Tuner!ToUint((freq * Fac) \div Kilo), asked' = freq, Told PROVE TunerInv'
    <3>1. /\ units' \in Nat /\ units' * Kilo < Word
          /\ freq * Tuner!FacOf(cap) \in units' * Kilo .. units' * Kilo + Kilo - 1
      BY <2>1, <2>3, TunedExactly
    <3> QED
      BY <1>3, <2>1, <2>3, <3>1
  <2> QED
    BY <1>5, <2>2, <2>3 DEF Tuner!Tune
<1>6. CASE Tuner!Seek
  <2>1. ASSUME NEW f \in Freq, units' = (f * Tuner!FacOf(cap)) \div Kilo + 1
        PROVE  units' \in Nat /\ units' * Kilo < Word
    <3>1. f * Tuner!FacOf(cap) \in Nat
      BY FacPositive DEF InRange
    <3>2. (f * Tuner!FacOf(cap)) \div Kilo \in Nat
      BY <3>1, Rounds DEF InRange
    <3> QED
      BY <2>1, <3>2 DEF InRange, UnitsOf, TunerInv
  <2> QED
    BY <1>2, <1>3, <1>6, <2>1 DEF Tuner!Seek
<1>7. CASE UNCHANGED Tuner!vars
  BY <1>7 DEF Tuner!vars, Tuner!tuner, TunerInv, FreqKept, Tuner!FreqKept, Tuner!KHz
<1> QED
  BY <1>1, <1>4, <1>5, <1>6, <1>7 DEF Tuner!Next

(* The tuner is in the unit of the frequency that was last asked for, and  *)
(* every status tells the frequency it is at, for every tuner, order of    *)
(* calls and failure (src/v4l2_radio.cpp:28-33, 68-71, 87).                *)
THEOREM TunedAsAsked ==
  ASSUME InRange, Heedful
  PROVE  Tuner!Spec => []FreqKept
<1>1. Tuner!Init => TunerInv
  BY TunerStarts
<1>2. TunerInv /\ [Tuner!Next]_(Tuner!vars) => TunerInv'
  BY TunerStep
<1>3. TunerInv => FreqKept
  BY DEF TunerInv
<1> QED
  BY <1>1, <1>2, <1>3, PTL DEF Tuner!Spec
-----------------------------------------------------------------------------
(* Lines are sequences of bytes without a line feed, and the writer leaves *)
(* the stream open.                                                        *)
Plain ==
  /\ Line \subseteq Seq(Lines!Byte \ {"LF"})
  /\ bufsize \in Nat \ {0} /\ MaxLines \in Nat /\ PipeSize \in Nat
  /\ "closes" \notin LineEnv

LineTypes ==
  /\ Lines!TypeOK /\ ~ closed
  /\ writing # "no" => line \in Line

(* The first n items of s are those of A behind the first o.               *)
Slice(s, n, A, o) == \A k \in 1 .. n : s[k] = A[o + k]

(* The line m begins at o in the text A.                                   *)
LineAt(m, A, o) ==
  /\ Slice(m, Len(m), A, o)
  /\ A[o + Len(m) + 1] = "CR" /\ A[o + Len(m) + 2] = "LF"
  /\ Lines!Fits(m)

(* The lines that were sent begin at p[0], p[1] and so on in the text that *)
(* ever went into the stream.                                              *)
Laid(all, p) ==
  /\ all \in Seq(Lines!Byte) /\ p \in [0 .. Len(sent) -> Nat]
  /\ \A i \in 0 .. Len(sent) - 1 :
       /\ p[i + 1] = p[i] + Len(sent[i + 1]) + 2 /\ p[i + 1] <= Len(all)
       /\ LineAt(sent[i + 1], all, p[i])
  /\ writing # "no" => Lines!Fits(line)
  /\ IF writing = "break"
       THEN /\ Len(all) = p[Len(sent)] + Len(line)
            /\ Slice(line, Len(line), all, p[Len(sent)])
       ELSE Len(all) = p[Len(sent)]

Got == IF reading THEN Len(buf) ELSE 0

(* The reader has d of the lines and some bytes of the next; what it has   *)
(* not taken out is the end of the text.                                   *)
Taken(all, p, d) ==
  /\ d = Len(delivered) /\ d <= Len(sent)
  /\ \A i \in 1 .. d : delivered[i] = sent[i]
  /\ Len(pipe) + p[d] + Got = Len(all)
  /\ Slice(pipe, Len(pipe), all, p[d] + Got)
  /\ Slice(buf, Got, all, p[d])
  /\ d < Len(sent) => Got < Len(sent[d + 1]) + 2

LineInv == LineTypes /\ (broken \/ \E all, p, d : Laid(all, p) /\ Taken(all, p, d))

(* B begins with the first a items of A; behind the first u items of t and *)
(* the first a of B follow the same v.                                     *)
Begins(B, a, A) == \A i \in 1 .. a : B[i] = A[i]

Follow(t, u, B, a, v) == \A i \in 1 .. v : t[u + i] = B[a + i]

(* Slices, without sequences.                                              *)
LEMMA SliceOn ==
  ASSUME NEW s, NEW u \in Nat, NEW A, NEW o \in Nat, NEW a \in Nat, u + o <= a, Slice(s, u, A, o),
         NEW B, Begins(B, a, A)
  PROVE  Slice(s, u, B, o)
<1> SUFFICES ASSUME NEW k \in 1 .. u PROVE s[k] = B[o + k]
  BY DEF Slice
<1>1. o + k \in 1 .. a
  OBVIOUS
<1> QED
  BY <1>1 DEF Slice, Begins

LEMMA SliceGrows ==
  ASSUME NEW s, NEW u \in Nat, NEW A, NEW o \in Nat, NEW a \in Nat, u + o = a, Slice(s, u, A, o),
         NEW t, NEW v \in Nat, NEW B,
         Begins(B, a, A), Begins(t, u, s), Follow(t, u, B, a, v)
  PROVE  Slice(t, u + v, B, o)
<1> SUFFICES ASSUME NEW k \in 1 .. u + v PROVE t[k] = B[o + k]
  BY DEF Slice
<1>1. CASE k <= u
  <2>1. k \in 1 .. u /\ o + k \in 1 .. a
    BY <1>1
  <2> QED
    BY <2>1 DEF Slice, Begins
<1>2. CASE k > u
  <2>1. PICK j \in 1 .. v : k = u + j
    <3>1. k - u \in 1 .. v /\ k = u + (k - u)
      BY <1>2
    <3> QED
      BY <3>1
  <2>2. t[u + j] = B[a + j]
    BY DEF Follow
  <2>3. u + j = k /\ a + j = o + k
    BY <2>1
  <2> QED
    BY <2>2, <2>3
<1> QED
  BY <1>1, <1>2

LEMMA SliceTail ==
  ASSUME NEW s, NEW u \in Nat \ {0}, NEW A, NEW o \in Nat, Slice(s, u, A, o),
         NEW t, \A i \in 1 .. u - 1 : t[i] = s[i + 1]
  PROVE  Slice(t, u - 1, A, o + 1) /\ s[1] = A[o + 1]
<1>1. ASSUME NEW k \in 1 .. u - 1 PROVE t[k] = A[o + 1 + k]
  <2>1. k + 1 \in 1 .. u /\ o + (k + 1) = o + 1 + k
    OBVIOUS
  <2>2. s[k + 1] = A[o + (k + 1)]
    BY <2>1 DEF Slice
  <2> QED
    BY <2>1, <2>2
<1>2. s[1] = A[o + 1]
  BY DEF Slice
<1> QED
  BY <1>1, <1>2 DEF Slice

LEMMA SliceOne ==
  ASSUME NEW s, NEW u \in Nat, NEW A, NEW o \in Nat, Slice(s, u, A, o),
         NEW t, \A i \in 1 .. u : t[i] = s[i], t[u + 1] = A[o + u + 1]
  PROVE  Slice(t, u + 1, A, o)
<1> SUFFICES ASSUME NEW k \in 1 .. u + 1 PROVE t[k] = A[o + k]
  BY DEF Slice
<1>1. CASE k \in 1 .. u
  BY <1>1 DEF Slice
<1>2. CASE k = u + 1
  <2>1. o + k = o + u + 1
    BY <1>2
  <2> QED
    BY <1>2, <2>1
<1> QED
  BY <1>1, <1>2

(* What the proofs need of sequences.                                      *)
LEMMA Catenates ==
  ASSUME NEW B, NEW s \in Seq(B), NEW t \in Seq(B)
  PROVE  /\ s \o t \in Seq(B) /\ Len(s \o t) = Len(s) + Len(t)
         /\ \A i \in 1 .. Len(s) : (s \o t)[i] = s[i]
         /\ \A i \in 1 .. Len(t) : (s \o t)[Len(s) + i] = t[i]
OBVIOUS

LEMMA Appends ==
  ASSUME NEW B, NEW s \in Seq(B), NEW x \in B
  PROVE  /\ Append(s, x) \in Seq(B) /\ Len(Append(s, x)) = Len(s) + 1
         /\ \A i \in 1 .. Len(s) : Append(s, x)[i] = s[i]
         /\ Append(s, x)[Len(s) + 1] = x
OBVIOUS

LEMMA Tails ==
  ASSUME NEW B, NEW s \in Seq(B), s # <<>>
  PROVE  /\ Tail(s) \in Seq(B) /\ Len(Tail(s)) = Len(s) - 1 /\ Len(s) >= 1
         /\ \A i \in 1 .. Len(s) - 1 : Tail(s)[i] = s[i + 1]
         /\ Head(s) = s[1] /\ Head(s) \in B
OBVIOUS

LEMMA Prefix ==
  ASSUME NEW B, NEW s \in Seq(B), NEW n \in 0 .. Len(s)
  PROVE  /\ SubSeq(s, 1, n) \in Seq(B) /\ Len(SubSeq(s, 1, n)) = n
         /\ \A i \in 1 .. n : SubSeq(s, 1, n)[i] = s[i]
OBVIOUS

LEMMA SameSeq ==
  ASSUME NEW B, NEW C, NEW s \in Seq(B), NEW t \in Seq(C), Len(s) = Len(t),
         \A i \in 1 .. Len(s) : s[i] = t[i]
  PROVE  s = t
OBVIOUS

LEMMA Bytes ==
  ASSUME Plain
  PROVE  /\ Lines!LineBreak \in Seq(Lines!Byte) /\ Len(Lines!LineBreak) = 2
         /\ Lines!LineBreak[1] = "CR" /\ Lines!LineBreak[2] = "LF"
         /\ \A l \in Line : /\ l \in Seq(Lines!Byte) /\ Len(l) \in Nat
                            /\ \A i \in 1 .. Len(l) : l[i] \in Lines!Byte /\ l[i] # "LF"
<1> DEFINE lb == Lines!LineBreak
           bytes(l) == {l[i] : i \in DOMAIN l}
<1>1. Lines!Byte = UNION {bytes(l) : l \in Line \cup {lb}}
  BY DEF Lines!Byte
<1>2. lb = <<"CR", "LF">>
  BY DEF Lines!LineBreak
<1>3. "CR" \in bytes(lb) /\ "LF" \in bytes(lb)
  <2>1. 1 \in DOMAIN lb /\ 2 \in DOMAIN lb /\ lb[1] = "CR" /\ lb[2] = "LF"
    BY <1>2
  <2> QED
    BY <2>1
<1>4. bytes(lb) \in {bytes(l) : l \in Line \cup {lb}}
  OBVIOUS
<1> HIDE DEF bytes, lb
<1>5. "CR" \in Lines!Byte /\ "LF" \in Lines!Byte
  BY <1>1, <1>3, <1>4
<1>6. lb \in Seq(Lines!Byte) /\ Len(lb) = 2 /\ lb[1] = "CR" /\ lb[2] = "LF"
  BY <1>2, <1>5
<1>7. ASSUME NEW l \in Line
      PROVE  /\ l \in Seq(Lines!Byte) /\ Len(l) \in Nat
             /\ \A i \in 1 .. Len(l) : l[i] \in Lines!Byte /\ l[i] # "LF"
  <2>1. l \in Seq(Lines!Byte \ {"LF"})
    BY DEF Plain
  <2> QED
    BY <2>1
<1> QED
  BY <1>6, <1>7 DEF lb

LEMMA LinesStart ==
  ASSUME Plain, Lines!Init
  PROVE  LineInv
<1>1. writing = "no" /\ line = <<>> /\ begun = 0 /\ closed = FALSE /\ reading = FALSE /\ broken = FALSE
      /\ sent = <<>> /\ delivered = <<>> /\ pipe = <<>> /\ buf = <<>>
  BY DEF Lines!Init
<1>2. /\ pipe \in Seq(Lines!Byte) /\ Len(pipe) = 0 /\ buf \in Seq(Lines!Byte) /\ Len(buf) = 0
      /\ sent \in Seq(Line) /\ delivered \in Seq(Seq(Lines!Byte))
      /\ Len(sent) = 0 /\ Len(delivered) = 0
  BY <1>1
<1>3. bufsize \in Nat /\ 0 < bufsize /\ MaxLines \in Nat /\ PipeSize \in Nat
  BY DEF Plain
<1>4. 0 <= PipeSize /\ 0 \in 0 .. MaxLines
  BY <1>3
<1>5. Lines!TypeOK
  <2>1. /\ writing \in {"text", "break", "no"} /\ line \in Line \cup {<<>>}
        /\ begun \in 0 .. MaxLines
        /\ closed \in BOOLEAN /\ reading \in BOOLEAN /\ broken \in BOOLEAN
    BY <1>1, <1>4
  <2>2. Len(pipe) <= PipeSize /\ Len(buf) < bufsize
    BY <1>2, <1>3, <1>4
  <2> QED
    BY <1>2, <2>1, <2>2 DEF Lines!TypeOK
<1>6. LineTypes
  BY <1>1, <1>5 DEF LineTypes
<1> DEFINE p == [i \in 0 .. 0 |-> 0]
<1>7. p \in [0 .. 0 -> Nat] /\ p[0] = 0 /\ 1 .. 0 = {} /\ 0 .. 0 - 1 = {}
  OBVIOUS
<1> HIDE DEF p
<1>8. Laid(pipe, p)
  BY <1>1, <1>2, <1>7 DEF Laid
<1>9. Taken(pipe, p, 0)
  BY <1>1, <1>2, <1>7 DEF Taken, Got, Slice
<1> QED
  BY <1>6, <1>8, <1>9 DEF LineInv

LEMMA Sizes ==
  ASSUME Plain, LineTypes, NEW all, NEW p, NEW d, Laid(all, p), Taken(all, p, d)
  PROVE  /\ Len(sent) \in Nat /\ Len(pipe) \in Nat /\ Len(all) \in Nat /\ Len(buf) \in Nat
         /\ Got \in Nat /\ d \in 0 .. Len(sent)
         /\ \A i \in 0 .. Len(sent) : p[i] \in Nat
         /\ p[d] \in Nat /\ Len(pipe) + (p[d] + Got) = Len(all)
         /\ p[d] + Got <= Len(all) /\ p[d] + Got \in Nat
<1>1. /\ all \in Seq(Lines!Byte) /\ pipe \in Seq(Lines!Byte) /\ sent \in Seq(Line)
      /\ buf \in Seq(Lines!Byte) /\ delivered \in Seq(Seq(Lines!Byte)) /\ reading \in BOOLEAN
  BY DEF Laid, LineTypes, Lines!TypeOK
<1>2. /\ Len(sent) \in Nat /\ Len(pipe) \in Nat /\ Len(all) \in Nat /\ Len(buf) \in Nat
      /\ Len(delivered) \in Nat
  BY <1>1
<1>3. Got \in Nat
  BY <1>1, <1>2 DEF Got
<1>4. d = Len(delivered) /\ d <= Len(sent) /\ Len(pipe) + p[d] + Got = Len(all)
  BY DEF Taken
<1>5. d \in 0 .. Len(sent)
  BY <1>2, <1>4
<1>6. \A i \in 0 .. Len(sent) : p[i] \in Nat
  BY DEF Laid
<1>7. p[d] \in Nat
  BY <1>5, <1>6
<1> QED
  BY <1>2, <1>3, <1>4, <1>5, <1>6, <1>7

(* Where the reader is does not depend on what is written behind it.       *)
LEMMA ReaderStays ==
  ASSUME Plain, LineTypes, NEW all, NEW p, NEW d, Laid(all, p), Taken(all, p, d),
         NEW all2, NEW q, NEW v \in Nat,
         Len(all2) = Len(all) + v, Begins(all2, Len(all), all),
         Len(pipe') = Len(pipe) + v, Begins(pipe', Len(pipe), pipe),
         Follow(pipe', Len(pipe), all2, Len(all), v),
         Len(sent') \in Nat, Len(sent') >= Len(sent), Begins(sent', Len(sent), sent),
         q[d] = p[d],
         d = Len(sent) /\ Len(sent') # Len(sent) => Got < Len(sent'[d + 1]) + 2,
         UNCHANGED <<reading, buf, delivered>>
  PROVE  Taken(all2, q, d)'
<1>1. /\ Len(sent) \in Nat /\ Len(pipe) \in Nat /\ Len(all) \in Nat /\ Len(buf) \in Nat
      /\ Got \in Nat /\ d \in 0 .. Len(sent) /\ p[d] \in Nat
      /\ Len(pipe) + (p[d] + Got) = Len(all) /\ p[d] + Got \in Nat /\ p[d] + Got <= Len(all)
  BY Sizes
<1>2. Got' = Got
  BY DEF Got
<1>3. Slice(pipe', Len(pipe) + v, all2, p[d] + Got)
  <2>1. Slice(pipe, Len(pipe), all, p[d] + Got)
    BY DEF Taken
  <2> QED
    BY <1>1, <2>1, SliceGrows
<1>4. Slice(buf, Got, all2, p[d])
  <2>1. Slice(buf, Got, all, p[d]) /\ Got + p[d] <= Len(all)
    BY <1>1 DEF Taken
  <2> QED
    BY <1>1, <2>1, SliceOn
<1>5. d < Len(sent') => Got < Len(sent'[d + 1]) + 2
  <2>1. CASE d < Len(sent)
    <3>1. d + 1 \in 1 .. Len(sent)
      BY <1>1, <2>1
    <3>2. Got < Len(sent[d + 1]) + 2
      BY <2>1 DEF Taken
    <3> QED
      BY <3>1, <3>2 DEF Begins
  <2>2. CASE d = Len(sent)
    BY <1>1, <2>2
  <2> QED
    BY <1>1, <2>1, <2>2
<1>6. \A i \in 1 .. d : delivered[i] = sent'[i]
  <2>1. \A i \in 1 .. d : i \in 1 .. Len(sent)
    BY <1>1
  <2> QED
    BY <2>1 DEF Taken, Begins
<1>7. Len(pipe') + p[d] + Got = Len(all2)
  <2> DEFINE u == Len(pipe)
             x == p[d]
             y == Got
             a == Len(all)
  <2>1. u \in Nat /\ x \in Nat /\ y \in Nat /\ a \in Nat /\ u + (x + y) = a
    BY <1>1
  <2>2. Len(pipe') = u + v /\ Len(all2) = a + v
    OBVIOUS
  <2> HIDE DEF u, x, y, a
  <2>3. (u + v) + x + y = a + v
    BY <2>1
  <2>4. Len(pipe') + x + y = Len(all2)
    BY <2>2, <2>3
  <2> QED
    BY <2>4 DEF x, y
<1>8. d = Len(delivered) /\ d <= Len(sent')
  BY <1>1 DEF Taken
<1> QED
  BY <1>2, <1>3, <1>4, <1>5, <1>6, <1>7, <1>8 DEF Taken
-----------------------------------------------------------------------------
(* The writer.                                                             *)
LEMMA WriteLnKeeps ==
  ASSUME Plain, LineInv, NEW l \in Line, Lines!WriteLn(l)
  PROVE  LineInv'
<1>1. /\ writing = "no" /\ line' = l /\ begun < MaxLines /\ begun' = begun + 1
      /\ writing' = IF l = <<>> THEN "break" ELSE "text"
      /\ broken' = (broken \/ ~ Lines!Fits(l))
      /\ UNCHANGED <<pipe, closed, reading, buf, delivered, sent>>
  BY DEF Lines!WriteLn, Lines!reader
<1>2. LineTypes'
  <2>1. begun \in 0 .. MaxLines /\ MaxLines \in Nat
    BY DEF LineInv, LineTypes, Lines!TypeOK, Plain
  <2>2. begun' \in 0 .. MaxLines
    BY <1>1, <2>1
  <2>3. broken' \in BOOLEAN /\ writing' \in {"text", "break", "no"}
    BY <1>1
  <2> QED
    BY <1>1, <2>2, <2>3 DEF LineInv, LineTypes, Lines!TypeOK
<1>3. CASE ~ broken'
  <2>1. ~ broken /\ Lines!Fits(l)
    BY <1>1, <1>3
  <2>2. PICK all, p, d : Laid(all, p) /\ Taken(all, p, d)
    BY <2>1 DEF LineInv
  <2>3. /\ all \in Seq(Lines!Byte) /\ p \in [0 .. Len(sent) -> Nat]
        /\ \A i \in 0 .. Len(sent) - 1 :
             /\ p[i + 1] = p[i] + Len(sent[i + 1]) + 2 /\ p[i + 1] <= Len(all)
             /\ LineAt(sent[i + 1], all, p[i])
        /\ Len(all) = p[Len(sent)]
    BY <1>1, <2>2 DEF Laid
  <2>4. Len(sent) \in Nat /\ p[Len(sent)] \in Nat
    <3>1. Len(sent) \in Nat
      BY DEF LineInv, LineTypes, Lines!TypeOK
    <3> QED
      BY <2>3, <3>1
  <2>5. Lines!Fits(line)'
    BY <1>1, <2>1 DEF Lines!Fits
  <2>6. writing' = "break" => Len(line') = 0 /\ Slice(line', 0, all, p[Len(sent)])
    BY <1>1 DEF Slice
  <2>7. Laid(all, p)'
    BY <1>1, <2>3, <2>4, <2>5, <2>6 DEF Laid, LineAt, Slice, Lines!Fits
  <2>8. Taken(all, p, d)'
    BY <1>1, <2>2 DEF Taken, Got, Slice
  <2> QED
    BY <1>2, <2>7, <2>8 DEF LineInv
<1> QED
  BY <1>2, <1>3 DEF LineInv

LEMMA PartBytes ==
  ASSUME Plain, LineTypes, writing # "no"
  PROVE  /\ Lines!Part \in Seq(Lines!Byte) /\ Len(Lines!Part) \in Nat
         /\ SubSeq(Lines!Part, 1, Len(Lines!Part)) = Lines!Part
         /\ \A n \in 0 .. Len(Lines!Part) : SubSeq(Lines!Part, 1, n) \in Seq(Lines!Byte)
         /\ writing = "text" => Lines!Part = line
         /\ writing = "break" => Lines!Part = Lines!LineBreak
<1>1. line \in Line /\ writing \in {"text", "break", "no"}
  BY DEF LineTypes, Lines!TypeOK
<1>2. line \in Seq(Lines!Byte) /\ Lines!LineBreak \in Seq(Lines!Byte)
  BY <1>1, Bytes
<1>3. /\ Lines!Part \in Seq(Lines!Byte)
      /\ writing = "text" => Lines!Part = line
      /\ writing = "break" => Lines!Part = Lines!LineBreak
  BY <1>2 DEF Lines!Part
<1> DEFINE s == Lines!Part
<1>4. s \in Seq(Lines!Byte)
  BY <1>3
<1> HIDE DEF s
<1>5. /\ Len(s) \in Nat /\ SubSeq(s, 1, Len(s)) = s
      /\ \A n \in 0 .. Len(s) : SubSeq(s, 1, n) \in Seq(Lines!Byte)
  BY <1>4
<1> QED
  BY <1>3, <1>5 DEF s

LEMMA WriteTypes ==
  ASSUME Plain, LineTypes, Lines!Write
  PROVE  /\ LineTypes'
         /\ \/ broken'
            \/ /\ broken' = broken /\ pipe' = pipe \o Lines!Part /\ UNCHANGED <<line, reading, buf, delivered>>
               /\ writing = "text" => writing' = "break" /\ sent' = sent
               /\ writing = "break" => writing' = "no" /\ sent' = Append(sent, line)
<1>1. writing # "no" /\ UNCHANGED <<line, begun, closed, reading, buf, delivered>>
  BY DEF Lines!Write, Lines!reader
<1> DEFINE s == Lines!Part
<1>2. PICK n \in {Len(s)} \cup IF "short" \in LineEnv THEN 0 .. Len(s) ELSE {} :
       /\ Len(pipe) + n <= PipeSize
       /\ pipe' = pipe \o SubSeq(s, 1, n)
       /\ writing' = IF writing = "text" /\ n = Len(s) THEN "break" ELSE "no"
       /\ sent' = IF writing = "break" /\ n = Len(s) THEN Append(sent, line) ELSE sent
       /\ broken' = (broken \/ n < Len(s))
  BY DEF Lines!Write
<1>3. /\ s \in Seq(Lines!Byte) /\ Len(s) \in Nat /\ SubSeq(s, 1, Len(s)) = s
      /\ \A i \in 0 .. Len(s) : SubSeq(s, 1, i) \in Seq(Lines!Byte)
  BY <1>1, PartBytes
<1>4. pipe \in Seq(Lines!Byte) /\ sent \in Seq(Line) /\ line \in Line /\ PipeSize \in Nat
  BY <1>1 DEF LineTypes, Lines!TypeOK, Plain
<1> HIDE DEF s
<1>10. Len(s) \in Nat
  BY <1>3
<1>5. n \in 0 .. Len(s)
  BY <1>2, <1>10
<1>6. pipe' \in Seq(Lines!Byte) /\ Len(pipe') = Len(pipe) + n
  <2>1. SubSeq(s, 1, n) \in Seq(Lines!Byte) /\ Len(SubSeq(s, 1, n)) = n
    BY <1>3, <1>5, Prefix
  <2> QED
    BY <1>2, <1>4, <2>1, Catenates
<1>7. sent' \in Seq(Line)
  BY <1>2, <1>4
<1>8. LineTypes'
  <2>1. Len(pipe') <= PipeSize
    BY <1>2, <1>6
  <2>2. broken' \in BOOLEAN /\ writing' \in {"text", "break", "no"}
    BY <1>2
  <2> QED
    BY <1>1, <1>4, <1>6, <1>7, <2>1, <2>2 DEF LineTypes, Lines!TypeOK
<1>9. CASE ~ broken'
  <2>1. n = Len(s) /\ ~ broken
    <3> DEFINE few == n < Len(s)
    <3>3. broken' = (broken \/ few)
      BY <1>2
    <3> HIDE DEF few
    <3>4. ~ few /\ ~ broken
      BY <1>9, <3>3
    <3>1. ~ (n < Len(s))
      BY <3>4 DEF few
    <3> QED
      BY <1>5, <1>10, <3>1, <3>4
  <2>2. pipe' = pipe \o s
    BY <1>2, <1>3, <2>1
  <2>3. broken' = broken
    BY <1>9, <2>1, <1>8 DEF LineTypes, Lines!TypeOK
  <2>4. writing = "text" => writing' = "break" /\ sent' = sent
    BY <1>2, <2>1
  <2>5. writing = "break" => writing' = "no" /\ sent' = Append(sent, line)
    BY <1>2, <2>1
  <2> QED
    BY <1>1, <1>8, <2>2, <2>3, <2>4, <2>5 DEF s
<1> QED
  BY <1>8, <1>9

(* A longer text has the same lines where it had them.                     *)
LEMMA LineOn ==
  ASSUME NEW m, Len(m) \in Nat, NEW A, NEW o \in Nat, NEW a \in Nat,
         o + Len(m) + 2 <= a, LineAt(m, A, o), NEW B, Begins(B, a, A)
  PROVE  LineAt(m, B, o)
<1>1. Slice(m, Len(m), B, o)
  <2>1. Len(m) + o <= a
    OBVIOUS
  <2> QED
    BY <2>1, SliceOn DEF LineAt
<1>2. o + Len(m) + 1 \in 1 .. a /\ o + Len(m) + 2 \in 1 .. a
  OBVIOUS
<1> QED
  BY <1>1, <1>2 DEF LineAt, Begins

LEMMA LinesOn ==
  ASSUME Plain, LineTypes, NEW all, NEW p, Laid(all, p), NEW B, Begins(B, Len(all), all),
         NEW i \in 0 .. Len(sent) - 1
  PROVE  LineAt(sent[i + 1], B, p[i])
<1>1. sent \in Seq(Line) /\ all \in Seq(Lines!Byte)
  BY DEF LineTypes, Lines!TypeOK, Laid
<1>2. Len(sent) \in Nat /\ Len(all) \in Nat /\ (i + 1 \in 1 .. Len(sent) => sent[i + 1] \in Line)
  BY <1>1
<1>3. i \in 0 .. Len(sent) /\ i + 1 \in 1 .. Len(sent)
  BY <1>2
<1>4. Len(sent[i + 1]) \in Nat
  BY <1>2, <1>3, Bytes
<1>5. /\ p[i] \in Nat /\ p[i + 1] = p[i] + Len(sent[i + 1]) + 2 /\ p[i + 1] <= Len(all)
      /\ LineAt(sent[i + 1], all, p[i])
  BY <1>3 DEF Laid
<1>6. p[i] + Len(sent[i + 1]) + 2 <= Len(all)
  BY <1>5
<1> HIDE <1>1
<1> QED
  BY <1>2, <1>4, <1>5, <1>6, LineOn

LEMMA TextWritten ==
  ASSUME Plain, LineInv, Lines!Write, writing = "text"
  PROVE  LineInv'
<1>1. LineTypes' /\ LineTypes
  BY WriteTypes DEF LineInv
<1>2. CASE ~ broken'
  <2>1. /\ ~ broken /\ pipe' = pipe \o line /\ UNCHANGED <<line, reading, buf, delivered, sent>>
        /\ writing' = "break"
    BY <1>1, <1>2, WriteTypes, PartBytes
  <2>2. PICK all, p, d : Laid(all, p) /\ Taken(all, p, d)
    BY <2>1 DEF LineInv
  <2>3. PICK a2 : a2 = all \o line
    OBVIOUS
  <2>4. /\ line \in Seq(Lines!Byte) /\ all \in Seq(Lines!Byte) /\ pipe \in Seq(Lines!Byte)
        /\ Lines!Fits(line)
    BY <1>1, <2>2, Bytes DEF LineTypes, Lines!TypeOK, Laid
  <2>5. /\ a2 \in Seq(Lines!Byte) /\ Len(a2) = Len(all) + Len(line)
        /\ Begins(a2, Len(all), all) /\ \A k \in 1 .. Len(line) : a2[Len(all) + k] = line[k]
    BY <2>3, <2>4, Catenates DEF Begins
  <2>6. /\ Len(pipe') = Len(pipe) + Len(line)
        /\ Begins(pipe', Len(pipe), pipe) /\ \A k \in 1 .. Len(line) : pipe'[Len(pipe) + k] = line[k]
    BY <2>1, <2>4, Catenates DEF Begins
  <2>7. Follow(pipe', Len(pipe), a2, Len(all), Len(line))
    BY <2>5, <2>6 DEF Follow
  <2>8. Len(line) \in Nat /\ Len(sent) \in Nat /\ p[Len(sent)] \in Nat /\ Len(all) = p[Len(sent)]
    <3>1. Len(line) \in Nat
      BY <2>4
    <3>2. Len(sent) \in Nat /\ p[Len(sent)] \in Nat
      BY <1>1, <2>2, Sizes
    <3> QED
      BY <2>2, <3>1, <3>2 DEF Laid
  <2> HIDE <2>3
  <2>9. Begins(sent', Len(sent), sent) /\ Len(sent') \in Nat /\ Len(sent') >= Len(sent) /\ Len(sent') = Len(sent)
    BY <2>1, <2>8 DEF Begins
  <2>10. Taken(a2, p, d)'
    BY <1>1, <2>1, <2>2, <2>5, <2>6, <2>7, <2>8, <2>9, ReaderStays
  <2>11. Slice(line, Len(line), a2, p[Len(sent)])
    BY <2>5, <2>8 DEF Slice
  <2>12. p \in [0 .. Len(sent) -> Nat]
    BY <2>2 DEF Laid
  <2>13. ASSUME NEW i \in 0 .. Len(sent) - 1
         PROVE  /\ p[i + 1] = p[i] + Len(sent[i + 1]) + 2 /\ p[i + 1] <= Len(a2)
                /\ LineAt(sent[i + 1], a2, p[i])
    <3>1. p[i + 1] = p[i] + Len(sent[i + 1]) + 2 /\ p[i + 1] <= Len(all)
      BY <2>2 DEF Laid
    <3>2. p[i + 1] \in Nat
      <4>1. i + 1 \in 0 .. Len(sent)
        BY <2>8
      <4> QED
        BY <2>12, <4>1
    <3>3. p[i + 1] <= Len(all) + Len(line)
      BY <2>8, <3>1, <3>2
    <3> QED
      BY <1>1, <2>2, <2>5, <3>1, <3>3, LinesOn
  <2>14. Laid(a2, p)'
    BY <2>1, <2>4, <2>5, <2>8, <2>11, <2>12, <2>13 DEF Laid, LineAt, Slice, Lines!Fits
  <2> QED
    BY <1>1, <2>10, <2>14 DEF LineInv
<1> QED
  BY <1>1, <1>2 DEF LineInv
LEMMA BreakWritten ==
  ASSUME Plain, LineInv, Lines!Write, writing = "break"
  PROVE  LineInv'
<1>1. LineTypes' /\ LineTypes
  BY WriteTypes DEF LineInv
<1>2. CASE ~ broken'
  <2> DEFINE lb == Lines!LineBreak
             m == Len(sent)
  <2>1. /\ ~ broken /\ pipe' = pipe \o lb /\ UNCHANGED <<line, reading, buf, delivered>>
        /\ writing' = "no" /\ sent' = Append(sent, line)
    BY <1>1, <1>2, WriteTypes, PartBytes
  <2>2. PICK all, p, d : Laid(all, p) /\ Taken(all, p, d)
    BY <2>1 DEF LineInv
  <2>3. PICK a2 : a2 = all \o lb
    OBVIOUS
  <2>4. /\ lb \in Seq(Lines!Byte) /\ Len(lb) = 2 /\ lb[1] = "CR" /\ lb[2] = "LF"
        /\ all \in Seq(Lines!Byte) /\ pipe \in Seq(Lines!Byte)
        /\ line \in Line /\ Len(line) \in Nat /\ Lines!Fits(line)
    BY <1>1, <2>2, Bytes DEF LineTypes, Lines!TypeOK, Laid
  <2>5. /\ a2 \in Seq(Lines!Byte) /\ Len(a2) = Len(all) + 2
        /\ Begins(a2, Len(all), all) /\ \A k \in 1 .. 2 : a2[Len(all) + k] = lb[k]
    <3>1. lb \in Seq(Lines!Byte) /\ all \in Seq(Lines!Byte)
      BY <2>4
    <3>4. /\ all \o lb \in Seq(Lines!Byte) /\ Len(all \o lb) = Len(all) + Len(lb)
          /\ \A i \in 1 .. Len(all) : (all \o lb)[i] = all[i]
          /\ \A i \in 1 .. Len(lb) : (all \o lb)[Len(all) + i] = lb[i]
      BY <3>1, Catenates
    <3>5. a2 = all \o lb
      BY <2>3
    <3>2. /\ a2 \in Seq(Lines!Byte) /\ Len(a2) = Len(all) + Len(lb)
          /\ Begins(a2, Len(all), all) /\ \A k \in 1 .. Len(lb) : a2[Len(all) + k] = lb[k]
      BY <3>4, <3>5 DEF Begins
    <3>3. Len(lb) = 2
      BY <2>4
    <3> HIDE <3>1, <3>4, <3>5
    <3> QED
      BY <3>2, <3>3
  <2>6. /\ Len(pipe') = Len(pipe) + 2
        /\ Begins(pipe', Len(pipe), pipe) /\ \A k \in 1 .. 2 : pipe'[Len(pipe) + k] = lb[k]
    <3>1. lb \in Seq(Lines!Byte) /\ pipe \in Seq(Lines!Byte)
      BY <2>4
    <3>4. /\ pipe \o lb \in Seq(Lines!Byte) /\ Len(pipe \o lb) = Len(pipe) + Len(lb)
          /\ \A i \in 1 .. Len(pipe) : (pipe \o lb)[i] = pipe[i]
          /\ \A i \in 1 .. Len(lb) : (pipe \o lb)[Len(pipe) + i] = lb[i]
      BY <3>1, Catenates
    <3>5. pipe' = pipe \o lb
      BY <2>1
    <3>2. /\ Len(pipe') = Len(pipe) + Len(lb)
          /\ Begins(pipe', Len(pipe), pipe) /\ \A k \in 1 .. Len(lb) : pipe'[Len(pipe) + k] = lb[k]
      BY <3>4, <3>5 DEF Begins
    <3>3. Len(lb) = 2
      BY <2>4
    <3> HIDE <3>1, <3>4, <3>5
    <3> QED
      BY <3>2, <3>3
  <2>7. Follow(pipe', Len(pipe), a2, Len(all), 2)
    BY <2>5, <2>6 DEF Follow
  <2>8. /\ m \in Nat /\ Len(all) \in Nat /\ p[m] \in Nat /\ Len(all) = p[m] + Len(line)
        /\ Slice(line, Len(line), all, p[m]) /\ d \in 0 .. m
    <3>1. m \in Nat /\ Len(all) \in Nat /\ p[m] \in Nat /\ d \in 0 .. m
      BY <1>1, <2>2, Sizes
    <3> QED
      BY <2>2, <3>1 DEF Laid
  <2>9. /\ Len(sent') = m + 1 /\ Begins(sent', m, sent) /\ sent'[m + 1] = line
        /\ \A i \in 0 .. m - 1 : sent'[i + 1] = sent[i + 1]
    <3>1. sent \in Seq(Line)
      BY <1>1 DEF LineTypes, Lines!TypeOK
    <3>2. Begins(sent', m, sent) /\ Len(sent') = m + 1 /\ sent'[m + 1] = line
      <4>1. line \in Line /\ sent' = Append(sent, line)
        BY <2>1, <2>4
      <4> QED
        BY <3>1, <4>1, Appends DEF Begins
    <3> HIDE <3>1, <2>1
    <3>3. ASSUME NEW i \in 0 .. m - 1 PROVE sent'[i + 1] = sent[i + 1]
      <4>1. i + 1 \in 1 .. m
        BY <2>8
      <4> QED
        BY <3>2, <4>1 DEF Begins
    <3> QED
      BY <3>2, <3>3
  <2>10. PICK q : q = [i \in 0 .. m + 1 |-> IF i = m + 1 THEN Len(a2) ELSE p[i]]
    OBVIOUS
  <2> HIDE <2>3
  <2>11. /\ q \in [0 .. m + 1 -> Nat] /\ q[m + 1] = Len(a2)
         /\ \A i \in 0 .. m : q[i] = p[i] /\ q[i] \in Nat
    <3>1. p \in [0 .. m -> Nat]
      BY <2>2 DEF Laid
    <3>2. Len(a2) \in Nat
      BY <2>5, <2>8
    <3>3. \A i \in 0 .. m : p[i] \in Nat /\ i \in 0 .. m + 1 /\ i # m + 1
      BY <2>8, <3>1
    <3>4. \A i \in 0 .. m + 1 : i # m + 1 => i \in 0 .. m
      BY <2>8
    <3>5. m + 1 \in 0 .. m + 1
      BY <2>8
    <3> QED
      BY <2>10, <3>2, <3>3, <3>4, <3>5
  <2> HIDE <2>10
  <2>12. d = m => Got < Len(sent'[d + 1]) + 2
    <3>1. Len(pipe) \in Nat /\ Got \in Nat /\ Len(pipe) + (p[d] + Got) = Len(all)
      BY <1>1, <2>2, Sizes
    <3>2. d = m => Len(pipe) + (p[m] + Got) = p[m] + Len(line)
      BY <2>8, <3>1
    <3>3. d = m => Got < Len(line) + 2
      BY <2>4, <2>8, <3>1, <3>2
    <3> QED
      BY <2>9, <3>3
  <2>13. Taken(a2, q, d)'
    <3>1. q[d] = p[d]
      BY <2>8, <2>11
    <3>2. Len(sent') \in Nat /\ Len(sent') >= Len(sent)
      BY <2>8, <2>9
    <3> QED
      BY <1>1, <2>1, <2>2, <2>5, <2>6, <2>7, <2>9, <2>12, <3>1, <3>2, ReaderStays
  <2>14. ASSUME NEW i \in 0 .. (m + 1) - 1
         PROVE  /\ q[i + 1] = q[i] + Len(sent'[i + 1]) + 2 /\ q[i + 1] <= Len(a2)
                /\ LineAt(sent'[i + 1], a2, q[i])
    <3>1. CASE i \in 0 .. m - 1
      <4>1. p[i + 1] = p[i] + Len(sent[i + 1]) + 2 /\ p[i + 1] <= Len(all)
        BY <2>2, <3>1 DEF Laid
      <4>2. LineAt(sent[i + 1], a2, p[i])
        BY <1>1, <2>2, <2>5, <3>1, LinesOn
      <4>3. i + 1 \in 0 .. m /\ i \in 0 .. m
        BY <2>8, <3>1
      <4>4. q[i + 1] = p[i + 1] /\ q[i] = p[i] /\ p[i + 1] \in Nat
        BY <2>11, <4>3
      <4>5. p[i + 1] <= Len(all) + 2
        BY <2>8, <4>1, <4>4
      <4> QED
        BY <2>5, <2>9, <3>1, <4>1, <4>2, <4>4, <4>5
    <3>2. CASE i = m
      <4>1. q[m] = p[m] /\ q[m + 1] = p[m] + Len(line) + 2 /\ q[m + 1] <= Len(a2)
        <5>1. m \in 0 .. m /\ p[m] \in Nat
          BY <2>8
        <5>2. q[m] = p[m] /\ q[m + 1] = Len(all) + 2 /\ q[m + 1] = Len(a2)
          BY <2>5, <2>11, <5>1
        <5>3. Len(all) + 2 = p[m] + Len(line) + 2 /\ Len(all) + 2 <= Len(all) + 2
          BY <2>4, <2>8
        <5>4. Len(a2) = Len(all) + 2
          BY <2>5
        <5> QED
          BY <5>2, <5>3, <5>4
      <4>2. Slice(line, Len(line), a2, p[m])
        <5>1. Len(line) + p[m] <= Len(all)
          BY <2>4, <2>8
        <5> QED
          BY <2>4, <2>5, <2>8, <5>1, SliceOn
      <4>3. a2[p[m] + Len(line) + 1] = "CR" /\ a2[p[m] + Len(line) + 2] = "LF"
        <5>1. a2[Len(all) + 1] = "CR" /\ a2[Len(all) + 2] = "LF"
          BY <2>4, <2>5
        <5>2. p[m] + Len(line) + 1 = Len(all) + 1 /\ p[m] + Len(line) + 2 = Len(all) + 2
          BY <2>8
        <5> QED
          BY <5>1, <5>2
      <4> QED
        BY <2>4, <2>9, <3>2, <4>1, <4>2, <4>3 DEF LineAt
    <3>3. i \in 0 .. m - 1 \/ i = m
      BY <2>8
    <3> QED
      BY <3>1, <3>2, <3>3
  <2>15. Laid(a2, q)'
    <3>1. Len(sent') = m + 1 /\ writing' = "no" /\ q[m + 1] = Len(a2) /\ q \in [0 .. m + 1 -> Nat]
          /\ a2 \in Seq(Lines!Byte)
      BY <2>1, <2>5, <2>9, <2>11
    <3> QED
      BY <2>14, <3>1 DEF Laid, LineAt, Slice, Lines!Fits
  <2> QED
    BY <1>1, <2>13, <2>15 DEF LineInv
<1> QED
  BY <1>1, <1>2 DEF LineInv
-----------------------------------------------------------------------------
(* The reader.                                                             *)
LEMMA ReadLnKeeps ==
  ASSUME Plain, LineInv, Lines!ReadLn
  PROVE  LineInv'
<1>1. /\ ~ reading /\ reading' = TRUE /\ buf' = <<>>
      /\ UNCHANGED <<writing, line, begun, sent, pipe, closed, delivered, broken>>
  BY DEF Lines!ReadLn, Lines!writer
<1>2. buf' \in Seq(Lines!Byte) /\ Len(buf') = 0 /\ bufsize \in Nat /\ 0 < bufsize
  BY <1>1 DEF Plain
<1>3. LineTypes'
  BY <1>1, <1>2 DEF LineInv, LineTypes, Lines!TypeOK
<1>4. ASSUME NEW all, NEW p, NEW d, Laid(all, p), Taken(all, p, d)
      PROVE  Laid(all, p)' /\ Taken(all, p, d)'
  <2>1. Laid(all, p)'
    BY <1>1, <1>4 DEF Laid, LineAt, Slice, Lines!Fits
  <2>2. Got = 0 /\ Got' = 0
    BY <1>1, <1>2 DEF Got
  <2>3. Slice(buf', 0, all, p[d])
    BY DEF Slice
  <2> QED
    BY <1>1, <1>4, <2>1, <2>2, <2>3 DEF Taken, Slice
<1> QED
  BY <1>1, <1>3, <1>4 DEF LineInv

LEMMA GetsTypes ==
  ASSUME Plain, LineTypes, NEW CH \in Lines!Byte, Lines!Gets(CH), reading
  PROVE  /\ buf' \in Seq(Lines!Byte) /\ Len(buf') < bufsize /\ reading' \in BOOLEAN
         /\ delivered' \in Seq(Seq(Lines!Byte))
<1>1. /\ buf \in Seq(Lines!Byte) /\ Len(buf) < bufsize /\ delivered \in Seq(Seq(Lines!Byte))
      /\ Len(buf) \in Nat /\ bufsize \in Nat
  BY DEF LineTypes, Lines!TypeOK, Plain
<1>2. ASSUME NEW m \in Seq(Lines!Byte), Lines!Returns(m)
      PROVE  /\ buf' \in Seq(Lines!Byte) /\ Len(buf') < bufsize /\ reading' \in BOOLEAN
             /\ delivered' \in Seq(Seq(Lines!Byte))
  <2>1. buf' = buf /\ reading' = FALSE /\ delivered' = Append(delivered, m)
    BY <1>2 DEF Lines!Returns
  <2> QED
    BY <1>1, <2>1, Appends
<1>3. CASE Lines!Fails
  BY <1>1, <1>3 DEF Lines!Fails
<1>4. CASE Lines!EndLine
  <2>1. CASE buf = <<>>
    <3>1. <<>> \in Seq(Lines!Byte)
      OBVIOUS
    <3> QED
      BY <1>2, <1>3, <1>4, <2>1, <3>1 DEF Lines!EndLine
  <2>2. CASE buf # <<>>
    <3>1. Len(buf) - 1 \in 0 .. Len(buf)
      BY <1>1, <2>2
    <3>2. Lines!WithoutCR \in Seq(Lines!Byte)
      <4>1. SubSeq(buf, 1, Len(buf) - 1) \in Seq(Lines!Byte)
        BY <1>1, <3>1, Prefix
      <4> QED
        BY <1>1, <4>1 DEF Lines!WithoutCR
    <3> QED
      BY <1>2, <1>4, <2>2, <3>2 DEF Lines!EndLine
  <2> QED
    BY <2>1, <2>2
<1>5. CASE Lines!Stores(CH)
  <2>1. CASE Len(buf) + 1 < bufsize
    <3>1. buf' = Append(buf, CH) /\ UNCHANGED <<reading, delivered>>
      BY <1>5, <2>1 DEF Lines!Stores
    <3>2. buf' \in Seq(Lines!Byte) /\ Len(buf') = Len(buf) + 1
      BY <1>1, <3>1, Appends
    <3> QED
      BY <1>1, <2>1, <3>1, <3>2
  <2> QED
    BY <1>3, <1>5, <2>1 DEF Lines!Stores
<1> QED
  BY <1>4, <1>5 DEF Lines!Gets

(* What the next byte is.                                                  *)
LEMMA NextByte ==
  ASSUME Plain, LineTypes, NEW all, NEW p, NEW d, Laid(all, p), Taken(all, p, d), pipe # <<>>
  PROVE  IF d < Len(sent) /\ Got = Len(sent[d + 1]) + 1
           THEN all[p[d] + Got + 1] = "LF"
           ELSE Got + 2 <= bufsize /\ all[p[d] + Got + 1] # "LF"
<1>1. /\ Len(sent) \in Nat /\ d \in 0 .. Len(sent) /\ p[d] \in Nat /\ Got \in Nat
      /\ Len(pipe) \in Nat /\ Len(pipe) + (p[d] + Got) = Len(all) /\ Len(all) \in Nat
  BY Sizes
<1>2. Len(pipe) >= 1
  <2>1. pipe \in Seq(Lines!Byte)
    BY DEF LineTypes, Lines!TypeOK
  <2> QED
    BY <2>1
<1>3. ASSUME NEW m \in Line, Slice(m, Len(m), all, p[d]), Got < Len(m), Lines!Fits(m)
      PROVE  Got + 2 <= bufsize /\ all[p[d] + Got + 1] # "LF"
  <2>1. Len(m) \in Nat /\ \A i \in 1 .. Len(m) : m[i] # "LF"
    BY Bytes
  <2>2. Got + 1 \in 1 .. Len(m) /\ p[d] + (Got + 1) = p[d] + Got + 1
    BY <1>1, <1>3, <2>1
  <2>3. m[Got + 1] = all[p[d] + (Got + 1)] /\ m[Got + 1] # "LF"
    BY <1>3, <2>1, <2>2 DEF Slice
  <2>4. Got + 2 <= bufsize
    <3>1. Len(m) + 2 <= bufsize /\ bufsize \in Nat
      BY <1>3 DEF Lines!Fits, Plain
    <3> QED
      BY <1>1, <1>3, <2>1, <3>1
  <2> QED
    BY <2>2, <2>3, <2>4
<1>4. CASE d < Len(sent)
  <2> DEFINE m == sent[d + 1]
  <2>1. d \in 0 .. Len(sent) - 1 /\ d + 1 \in 1 .. Len(sent)
    BY <1>1, <1>4
  <2>2. m \in Line
    <3>1. sent \in Seq(Line)
      BY DEF LineTypes, Lines!TypeOK
    <3> QED
      BY <2>1, <3>1
  <2>3. LineAt(m, all, p[d]) /\ Got < Len(m) + 2
    BY <1>4, <2>1 DEF Laid, Taken
  <2>4. Len(m) \in Nat
    BY <2>2, Bytes
  <2>5. /\ Slice(m, Len(m), all, p[d]) /\ Lines!Fits(m)
        /\ all[p[d] + Len(m) + 1] = "CR" /\ all[p[d] + Len(m) + 2] = "LF"
    BY <2>3 DEF LineAt
  <2> HIDE DEF m
  <2>6. Got < Len(m) \/ Got = Len(m) \/ Got = Len(m) + 1
    BY <1>1, <2>3, <2>4
  <2>7. CASE Got < Len(m)
    <3>1. Got + 2 <= bufsize /\ all[p[d] + Got + 1] # "LF"
      BY <1>3, <2>2, <2>5, <2>7
    <3>2. Got # Len(m) + 1
      BY <1>1, <2>4, <2>7
    <3> QED
      BY <3>1, <3>2 DEF m
  <2>8. CASE Got = Len(m)
    <3>1. all[p[d] + Got + 1] = "CR"
      BY <2>5, <2>8
    <3>2. Got # Len(m) + 1
      BY <2>4, <2>8
    <3>3. Got + 2 <= bufsize
      BY <2>5, <2>8 DEF Lines!Fits
    <3> QED
      BY <3>1, <3>2, <3>3 DEF m
  <2>9. CASE Got = Len(m) + 1
    <3>1. p[d] + Got + 1 = p[d] + Len(m) + 2
      BY <1>1, <2>4, <2>9
    <3> QED
      BY <1>4, <2>5, <2>9, <3>1 DEF m
  <2> QED
    BY <2>6, <2>7, <2>8, <2>9
<1>5. CASE d = Len(sent)
  <2>1. /\ writing # "no" => Lines!Fits(line)
        /\ IF writing = "break"
             THEN Len(all) = p[d] + Len(line) /\ Slice(line, Len(line), all, p[d])
             ELSE Len(all) = p[d]
    BY <1>5 DEF Laid
  <2>2. writing = "break"
    BY <1>1, <1>2, <2>1
  <2>3. line \in Line
    BY <2>2 DEF LineTypes
  <2>4. Len(line) \in Nat
    BY <2>3, Bytes
  <2>5. Got < Len(line)
    <3>1. Len(pipe) + (p[d] + Got) = p[d] + Len(line)
      BY <1>1, <2>1, <2>2
    <3> QED
      BY <1>1, <1>2, <2>4, <3>1
  <2>6. Got + 2 <= bufsize /\ all[p[d] + Got + 1] # "LF"
    BY <1>3, <2>1, <2>2, <2>3, <2>5
  <2>7. ~ (d < Len(sent))
    BY <1>1, <1>5
  <2> QED
    BY <2>6, <2>7
<1> QED
  BY <1>1, <1>4, <1>5

(* A step that delivers the line the writer sent next, or nothing.         *)
Delivers ==
  \/ delivered' = delivered
  \/ Len(delivered) < Len(sent) /\ delivered' = Append(delivered, sent[Len(delivered) + 1])

(* A byte of a line is put behind the others.                              *)
LEMMA ByteRead ==
  ASSUME Plain, LineTypes, NEW all, NEW p, NEW d, Laid(all, p), Taken(all, p, d), reading,
         pipe # <<>>, pipe' = Tail(pipe), UNCHANGED sent,
         Lines!Stores(Head(pipe)), ~ (d < Len(sent) /\ Got = Len(sent[d + 1]) + 1), Got + 2 <= bufsize
  PROVE  Taken(all, p, d)' /\ delivered' = delivered
<1>1. /\ Len(sent) \in Nat /\ d \in 0 .. Len(sent) /\ p[d] \in Nat /\ Got \in Nat
      /\ Len(pipe) \in Nat /\ Len(pipe) + (p[d] + Got) = Len(all) /\ Len(all) \in Nat
      /\ p[d] + Got \in Nat
  BY Sizes
<1>2. /\ pipe' \in Seq(Lines!Byte) /\ Len(pipe') = Len(pipe) - 1 /\ Len(pipe) >= 1
      /\ \A i \in 1 .. Len(pipe) - 1 : pipe'[i] = pipe[i + 1]
      /\ Head(pipe) = pipe[1] /\ Head(pipe) \in Lines!Byte
  <2>1. pipe \in Seq(Lines!Byte)
    BY DEF LineTypes, Lines!TypeOK
  <2> QED
    BY <2>1, Tails
<1>3. Got = Len(buf) /\ bufsize \in Nat
  BY DEF Got, Plain
<1>4. buf' = Append(buf, Head(pipe)) /\ UNCHANGED <<reading, delivered>>
  <2>1. Len(buf) + 1 < bufsize
    BY <1>1, <1>3
  <2> QED
    BY <2>1 DEF Lines!Stores
<1>5. /\ buf' \in Seq(Lines!Byte) /\ Len(buf') = Got + 1
      /\ \A i \in 1 .. Got : buf'[i] = buf[i]
      /\ buf'[Got + 1] = Head(pipe)
  <2>1. buf \in Seq(Lines!Byte)
    BY DEF LineTypes, Lines!TypeOK
  <2> QED
    BY <1>2, <1>3, <1>4, <2>1, Appends
<1>6. Got' = Got + 1
  BY <1>4, <1>5 DEF Got
<1>7. Slice(pipe', Len(pipe) - 1, all, (p[d] + Got) + 1) /\ pipe[1] = all[(p[d] + Got) + 1]
  <2>1. Slice(pipe, Len(pipe), all, p[d] + Got) /\ Len(pipe) \in Nat \ {0}
    BY <1>1, <1>2 DEF Taken
  <2>2. p[d] + Got \in Nat /\ \A i \in 1 .. Len(pipe) - 1 : pipe'[i] = pipe[i + 1]
    BY <1>1, <1>2
  <2>3. Slice(pipe', Len(pipe) - 1, all, (p[d] + Got) + 1)
    BY <2>1, <2>2, SliceTail
  <2>4. 1 \in 1 .. Len(pipe)
    BY <2>1
  <2> QED
    BY <2>1, <2>3, <2>4 DEF Slice
<1>8. Slice(buf', Got + 1, all, p[d])
  <2>1. p[d] + Got + 1 = (p[d] + Got) + 1
    OBVIOUS
  <2>2. buf'[Got + 1] = all[p[d] + Got + 1]
    BY <1>2, <1>5, <1>7, <2>1
  <2>3. Slice(buf, Got, all, p[d])
    BY DEF Taken
  <2> QED
    BY <1>1, <1>5, <2>2, <2>3, SliceOne
<1>9. Len(pipe') + p[d] + Got' = Len(all) /\ p[d] + Got' = (p[d] + Got) + 1
  <2> DEFINE u == Len(pipe)
             x == p[d]
             y == Got
             a == Len(all)
  <2>1. u \in Nat /\ x \in Nat /\ y \in Nat /\ a \in Nat /\ u + (x + y) = a /\ u >= 1
    BY <1>1, <1>2
  <2>2. Len(pipe') = u - 1 /\ Got' = y + 1
    BY <1>2, <1>6
  <2> HIDE DEF u, x, y, a
  <2>3. (u - 1) + x + (y + 1) = a /\ x + (y + 1) = (x + y) + 1
    BY <2>1
  <2>4. Len(pipe') + x + Got' = a /\ x + Got' = (x + y) + 1
    BY <2>2, <2>3
  <2> QED
    BY <2>4 DEF u, x, y, a
<1>10. d < Len(sent) => Got' < Len(sent[d + 1]) + 2
  <2>1. CASE d < Len(sent)
    <3>1. sent \in Seq(Line)
      BY DEF LineTypes, Lines!TypeOK
    <3>2. d + 1 \in 1 .. Len(sent)
      BY <1>1, <2>1
    <3>3. Len(sent[d + 1]) \in Nat
      BY <3>1, <3>2, Bytes
    <3>4. Got < Len(sent[d + 1]) + 2 /\ Got # Len(sent[d + 1]) + 1
      BY <2>1 DEF Taken
    <3> QED
      BY <1>1, <1>6, <3>3, <3>4
  <2> QED
    BY <2>1
<1>11. /\ d = Len(delivered) /\ d <= Len(sent)
       /\ \A i \in 1 .. d : delivered[i] = sent[i]
  BY DEF Taken
<1>12. /\ Slice(pipe', Len(pipe'), all, p[d] + Got')
       /\ Slice(buf', Got', all, p[d])
  BY <1>2, <1>6, <1>7, <1>8, <1>9
<1>13. UNCHANGED <<sent, delivered>>
  BY <1>4
<1> HIDE <1>4
<1> QED
  BY <1>9, <1>10, <1>11, <1>12, <1>13 DEF Taken

(* The line feed ends a line, and it is the one that was sent next.        *)
LEMMA LineRead ==
  ASSUME Plain, LineTypes, NEW all, NEW p, NEW d, Laid(all, p), Taken(all, p, d), reading,
         pipe # <<>>, pipe' = Tail(pipe), UNCHANGED sent,
         Lines!EndLine, d < Len(sent), Got = Len(sent[d + 1]) + 1
  PROVE  /\ Taken(all, p, d + 1)'
         /\ Len(delivered) < Len(sent) /\ delivered' = Append(delivered, sent[Len(delivered) + 1])
<1> DEFINE m == sent[d + 1]
<1>1. /\ Len(sent) \in Nat /\ d \in 0 .. Len(sent) /\ p[d] \in Nat /\ Got \in Nat
      /\ Len(pipe) \in Nat /\ Len(pipe) + (p[d] + Got) = Len(all) /\ Len(all) \in Nat
      /\ p[d] + Got \in Nat /\ d + 1 \in 1 .. Len(sent) /\ d \in 0 .. Len(sent) - 1
  <2>1. /\ Len(sent) \in Nat /\ d \in 0 .. Len(sent) /\ p[d] \in Nat /\ Got \in Nat
        /\ Len(pipe) \in Nat /\ Len(pipe) + (p[d] + Got) = Len(all) /\ Len(all) \in Nat
        /\ p[d] + Got \in Nat
    BY Sizes
  <2>2. d + 1 \in 1 .. Len(sent) /\ d \in 0 .. Len(sent) - 1
    BY <2>1
  <2> QED
    BY <2>1, <2>2
<1>2. /\ pipe' \in Seq(Lines!Byte) /\ Len(pipe') = Len(pipe) - 1 /\ Len(pipe) >= 1
      /\ \A i \in 1 .. Len(pipe) - 1 : pipe'[i] = pipe[i + 1]
  <2>1. pipe \in Seq(Lines!Byte)
    BY DEF LineTypes, Lines!TypeOK
  <2> QED
    BY <2>1, Tails
<1>3. m \in Line /\ m \in Seq(Lines!Byte) /\ Len(m) \in Nat
  <2>1. sent \in Seq(Line)
    BY DEF LineTypes, Lines!TypeOK
  <2>2. m \in Line
    BY <1>1, <2>1
  <2> QED
    BY <2>2, Bytes
<1>4. buf \in Seq(Lines!Byte) /\ Len(buf) = Len(m) + 1
  BY DEF LineTypes, Lines!TypeOK, Got
<1>5. /\ p[d + 1] = p[d] + Len(m) + 2 /\ Slice(m, Len(m), all, p[d])
      /\ all[p[d] + Len(m) + 1] = "CR"
  BY <1>1 DEF Laid, LineAt
<1>6. Slice(buf, Len(m) + 1, all, p[d])
  BY <1>4 DEF Taken, Got
<1> HIDE DEF m
<1>7. buf[Len(buf)] = "CR"
  <2>1. Len(m) + 1 \in 1 .. Len(m) + 1 /\ p[d] + (Len(m) + 1) = p[d] + Len(m) + 1
    BY <1>1, <1>3
  <2>2. buf[Len(m) + 1] = all[p[d] + (Len(m) + 1)]
    BY <1>6, <2>1 DEF Slice
  <2>3. buf[Len(m) + 1] = "CR"
    BY <1>5, <2>1, <2>2
  <2> QED
    BY <1>4, <2>3
<1>8. Lines!WithoutCR = m
  <2>1. Len(buf) - 1 = Len(m) /\ Len(m) \in 0 .. Len(buf)
    BY <1>3, <1>4
  <2>2. /\ SubSeq(buf, 1, Len(m)) \in Seq(Lines!Byte) /\ Len(SubSeq(buf, 1, Len(m))) = Len(m)
        /\ \A i \in 1 .. Len(m) : SubSeq(buf, 1, Len(m))[i] = buf[i]
    BY <1>4, <2>1, Prefix
  <2>3. \A i \in 1 .. Len(m) : buf[i] = m[i]
    <3>1. \A i \in 1 .. Len(m) : i \in 1 .. Len(m) + 1
      BY <1>3
    <3> QED
      BY <1>5, <1>6, <3>1 DEF Slice
  <2> DEFINE s == SubSeq(buf, 1, Len(m))
  <2>4. s \in Seq(Lines!Byte) /\ Len(s) = Len(m) /\ \A i \in 1 .. Len(s) : s[i] = m[i]
    BY <2>2, <2>3
  <2> HIDE DEF s
  <2>5. s = m
    BY <1>3, <2>4, SameSeq
  <2>6. Lines!WithoutCR = SubSeq(buf, 1, Len(buf) - 1)
    BY <1>7 DEF Lines!WithoutCR
  <2>7. SubSeq(buf, 1, Len(buf) - 1) = SubSeq(buf, 1, Len(m))
    BY <2>1
  <2> QED
    BY <2>5, <2>6, <2>7 DEF s
<1>9. delivered' = Append(delivered, m) /\ reading' = FALSE /\ buf' = buf
  <2>1. buf # <<>>
    <3>1. Len(buf) # 0
      BY <1>3, <1>4
    <3> QED
      BY <3>1
  <2> QED
    BY <1>8, <2>1 DEF Lines!EndLine, Lines!Returns
<1>10. /\ d = Len(delivered) /\ \A i \in 1 .. d : delivered[i] = sent[i]
  BY DEF Taken
<1>11. /\ Len(delivered') = d + 1 /\ \A i \in 1 .. d : delivered'[i] = delivered[i]
       /\ delivered'[d + 1] = m
  <2>1. delivered \in Seq(Seq(Lines!Byte))
    BY DEF LineTypes, Lines!TypeOK
  <2>2. m \in Seq(Lines!Byte) /\ delivered' = Append(delivered, m) /\ d = Len(delivered)
    BY <1>3, <1>9, <1>10
  <2>3. /\ Len(delivered') = Len(delivered) + 1 /\ delivered'[Len(delivered) + 1] = m
        /\ \A i \in 1 .. Len(delivered) : delivered'[i] = delivered[i]
    BY <2>1, <2>2, Appends
  <2> HIDE <2>1
  <2>4. d = Len(delivered)
    BY <2>2
  <2> QED
    BY <2>3, <2>4
<1>12. Got' = 0
  BY <1>9 DEF Got
<1>13. p[d] + Got + 1 = p[d + 1]
  <2>1. Got = Len(m) + 1
    BY DEF m
  <2>2. p[d + 1] = p[d] + Len(m) + 2
    BY <1>5
  <2>3. p[d] \in Nat /\ Len(m) \in Nat
    BY <1>1, <1>3
  <2>4. p[d] + (Len(m) + 1) + 1 = p[d] + Len(m) + 2
    <3>1. \A x, y \in Nat : x + (y + 1) + 1 = x + y + 2
      OBVIOUS
    <3> QED
      BY <2>3, <3>1
  <2>5. p[d] + Got + 1 = p[d] + (Len(m) + 1) + 1
    BY <2>1
  <2> QED
    BY <2>2, <2>4, <2>5
<1>14. Slice(pipe', Len(pipe'), all, p[d + 1] + 0)
  <2>1. Slice(pipe, Len(pipe), all, p[d] + Got) /\ Len(pipe) \in Nat \ {0}
    BY <1>1, <1>2 DEF Taken
  <2>2. Slice(pipe', Len(pipe) - 1, all, (p[d] + Got) + 1)
    BY <1>1, <1>2, <2>1, SliceTail
  <2>3. (p[d] + Got) + 1 = p[d + 1] + 0
    BY <1>1, <1>13
  <2> QED
    BY <1>2, <2>2, <2>3
<1>15. Len(pipe') + p[d + 1] + 0 = Len(all)
  <2> DEFINE u == Len(pipe)
             x == p[d]
             y == Got
             a == Len(all)
  <2>1. u \in Nat /\ x \in Nat /\ y \in Nat /\ a \in Nat /\ u + (x + y) = a /\ u >= 1
    BY <1>1, <1>2
  <2>2. Len(pipe') = u - 1 /\ p[d + 1] = x + y + 1
    BY <1>2, <1>13
  <2> HIDE DEF u, x, y, a
  <2>3. (u - 1) + (x + y + 1) + 0 = a
    BY <2>1
  <2>4. Len(pipe') + p[d + 1] + 0 = a
    BY <2>2, <2>3
  <2> QED
    BY <2>4 DEF a
<1>16. d + 1 < Len(sent) => 0 < Len(sent[(d + 1) + 1]) + 2
  <2>1. CASE d + 1 < Len(sent)
    <3>1. sent \in Seq(Line)
      BY DEF LineTypes, Lines!TypeOK
    <3>2. (d + 1) + 1 \in 1 .. Len(sent)
      BY <1>1, <2>1
    <3>3. Len(sent[(d + 1) + 1]) \in Nat
      BY <3>1, <3>2, Bytes
    <3> QED
      BY <3>3
  <2> QED
    BY <2>1
<1>17. \A i \in 1 .. d + 1 : delivered'[i] = sent[i]
  <2>1. \A i \in 1 .. d + 1 : i \in 1 .. d \/ i = d + 1
    BY <1>1
  <2> QED
    BY <1>10, <1>11, <2>1 DEF m
<1>18. d + 1 <= Len(sent) /\ Slice(buf', 0, all, p[d + 1])
  BY <1>1 DEF Slice
<1>19. Taken(all, p, d + 1)'
  <2>1. sent' = sent
    OBVIOUS
  <2> HIDE <1>9
  <2> QED
    BY <1>11, <1>12, <1>14, <1>15, <1>16, <1>17, <1>18, <2>1 DEF Taken
<1> QED
  BY <1>9, <1>10, <1>19 DEF m

LEMMA ReadKeeps ==
  ASSUME Plain, LineInv, Lines!Read
  PROVE  LineInv' /\ (broken \/ Delivers)
<1>1. /\ reading /\ pipe # <<>> /\ pipe' = Tail(pipe) /\ Lines!Gets(Head(pipe))
      /\ UNCHANGED <<writing, line, begun, sent, closed, broken>>
  BY DEF Lines!Read, Lines!writer
<1>2. LineTypes
  BY DEF LineInv
<1>3. /\ pipe' \in Seq(Lines!Byte) /\ Len(pipe') = Len(pipe) - 1 /\ Len(pipe) \in Nat
      /\ Head(pipe) \in Lines!Byte /\ Len(pipe) <= PipeSize /\ PipeSize \in Nat
      /\ Head(pipe) = pipe[1] /\ Len(pipe) >= 1
  <2>1. pipe \in Seq(Lines!Byte) /\ Len(pipe) <= PipeSize
    BY <1>2 DEF LineTypes, Lines!TypeOK
  <2>2. Len(pipe) \in Nat
    BY <2>1
  <2> QED
    BY <1>1, <2>1, <2>2, Tails DEF Plain
<1>4. LineTypes'
  <2>1. /\ buf' \in Seq(Lines!Byte) /\ Len(buf') < bufsize /\ reading' \in BOOLEAN
        /\ delivered' \in Seq(Seq(Lines!Byte))
    BY <1>1, <1>2, <1>3, GetsTypes
  <2>2. Len(pipe') <= PipeSize
    BY <1>3
  <2>3. pipe' \in Seq(Lines!Byte)
    BY <1>3
  <2>4. UNCHANGED <<writing, line, begun, sent, closed, broken>>
    BY <1>1
  <2> HIDE <1>1, <1>3
  <2> QED
    BY <1>2, <2>1, <2>2, <2>3, <2>4 DEF LineTypes, Lines!TypeOK
<1>5. CASE ~ broken
  <2>1. PICK all, p, d : Laid(all, p) /\ Taken(all, p, d)
    BY <1>5 DEF LineInv
  <2>2. Laid(all, p)'
    BY <1>1, <2>1 DEF Laid, LineAt, Slice, Lines!Fits
  <2>3. Head(pipe) = all[p[d] + Got + 1]
    <3>1. p[d] \in Nat /\ Got \in Nat
      BY <1>2, <2>1, Sizes
    <3>2. Slice(pipe, Len(pipe), all, p[d] + Got) /\ 1 \in 1 .. Len(pipe)
      BY <1>3, <2>1 DEF Taken
    <3>3. pipe[1] = all[p[d] + Got + 1]
      BY <3>2 DEF Slice
    <3> QED
      BY <1>3, <3>3
  <2>4. IF d < Len(sent) /\ Got = Len(sent[d + 1]) + 1
          THEN Head(pipe) = "LF" ELSE Got + 2 <= bufsize /\ Head(pipe) # "LF"
    BY <1>1, <1>2, <2>1, <2>3, NextByte
  <2>5. (Head(pipe) = "LF" /\ Lines!EndLine) \/ (Head(pipe) # "LF" /\ Lines!Stores(Head(pipe)))
    BY <1>1 DEF Lines!Gets
  <2>6. CASE d < Len(sent) /\ Got = Len(sent[d + 1]) + 1
    <3>1. Lines!EndLine
      BY <2>4, <2>5, <2>6
    <3>2. Taken(all, p, d + 1)' /\ Delivers
      BY <1>1, <1>2, <2>1, <2>6, <3>1, LineRead DEF Delivers
    <3> QED
      BY <1>4, <2>2, <3>2 DEF LineInv
  <2>7. CASE ~ (d < Len(sent) /\ Got = Len(sent[d + 1]) + 1)
    <3>1. Lines!Stores(Head(pipe)) /\ Got + 2 <= bufsize
      BY <2>4, <2>5, <2>7
    <3>2. Taken(all, p, d)' /\ Delivers
      BY <1>1, <1>2, <2>1, <2>7, <3>1, ByteRead DEF Delivers
    <3> QED
      BY <1>4, <2>2, <3>2 DEF LineInv
  <2> QED
    BY <2>6, <2>7
<1>6. CASE broken
  BY <1>1, <1>4, <1>6 DEF LineInv
<1> QED
  BY <1>2, <1>5, <1>6 DEF LineTypes, Lines!TypeOK
-----------------------------------------------------------------------------
(* No other step disturbs them.                                            *)
LEMMA LineStep ==
  ASSUME Plain, LineInv, [Lines!Next]_Lines!vars
  PROVE  LineInv' /\ (broken \/ broken' \/ Delivers)
<1>1. LineTypes
  BY DEF LineInv
<1>2. CASE \E l \in Line : Lines!WriteLn(l)
  <2>1. delivered' = delivered
    BY <1>2 DEF Lines!WriteLn, Lines!reader
  <2> QED
    BY <1>2, <2>1, WriteLnKeeps DEF Delivers
<1>3. CASE Lines!Write
  <2>1. writing \in {"text", "break"} /\ delivered' = delivered
    BY <1>1, <1>3 DEF Lines!Write, Lines!reader, LineTypes, Lines!TypeOK
  <2> QED
    BY <1>3, <2>1, TextWritten, BreakWritten DEF Delivers
<1>4. CASE Lines!CloseStream
  BY <1>4 DEF Lines!CloseStream, Plain
<1>5. CASE Lines!ReadLn
  BY <1>5, ReadLnKeeps DEF Lines!ReadLn, Delivers
<1>6. CASE Lines!Read
  BY <1>6, ReadKeeps
<1>7. CASE Lines!ReadNothing
  BY <1>1, <1>7 DEF Lines!ReadNothing, LineTypes
<1>8. CASE Lines!ReadFails
  <2>1. /\ reading' = FALSE /\ UNCHANGED <<buf, delivered>> /\ broken' = TRUE
        /\ UNCHANGED <<writing, line, begun, sent, pipe, closed>>
    BY <1>8 DEF Lines!ReadFails, Lines!Fails, Lines!writer
  <2>2. LineTypes'
    BY <1>1, <2>1 DEF LineTypes, Lines!TypeOK
  <2> QED
    BY <2>1, <2>2 DEF LineInv
<1>9. CASE UNCHANGED Lines!vars
  <2>1. UNCHANGED <<writing, line, begun, sent, pipe, closed, reading, buf, delivered, broken>>
    BY <1>9 DEF Lines!vars, Lines!writer, Lines!reader
  <2>2. LineTypes'
    BY <1>1, <2>1 DEF LineTypes, Lines!TypeOK
  <2>3. ASSUME NEW all, NEW p, NEW d, Laid(all, p), Taken(all, p, d)
        PROVE  Laid(all, p)' /\ Taken(all, p, d)'
    BY <2>1, <2>3 DEF Laid, Taken, LineAt, Slice, Lines!Fits, Got
  <2> QED
    BY <2>1, <2>2, <2>3 DEF LineInv, Delivers
<1> QED
  BY <1>2, <1>3, <1>4, <1>5, <1>6, <1>7, <1>8, <1>9 DEF Lines!Next

(* What is sent is one line at a time, and never by a step of the reader;  *)
(* and what is broken stays so.                                            *)
LEMMA LineSent ==
  ASSUME LineTypes, [Lines!Next]_Lines!vars
  PROVE  /\ \/ sent' = sent
            \/ delivered' = delivered /\ \E f \in Line : sent' = Append(sent, f)
         /\ broken => broken'
<1>1. CASE \E l \in Line : Lines!WriteLn(l)
  BY <1>1 DEF Lines!WriteLn
<1>2. CASE Lines!Write
  <2>1. /\ writing # "no" /\ delivered' = delivered /\ (sent' = sent \/ sent' = Append(sent, line))
        /\ broken => broken'
    <3>1. /\ writing # "no" /\ delivered' = delivered
          /\ \E n \in {Len(Lines!Part)} \cup IF "short" \in LineEnv THEN 0 .. Len(Lines!Part) ELSE {} :
               /\ sent' = IF writing = "break" /\ n = Len(Lines!Part) THEN Append(sent, line) ELSE sent
               /\ broken' = (broken \/ n < Len(Lines!Part))
      BY <1>2 DEF Lines!Write, Lines!reader
    <3> QED
      BY <3>1
  <2> QED
    BY <2>1 DEF LineTypes
<1>3. CASE Lines!CloseStream \/ Lines!ReadLn \/ Lines!Read \/ Lines!ReadNothing \/ Lines!ReadFails
  BY <1>3 DEF Lines!CloseStream, Lines!ReadLn, Lines!Read, Lines!ReadNothing, Lines!ReadFails, Lines!writer
<1>4. CASE UNCHANGED Lines!vars
  BY <1>4 DEF Lines!vars, Lines!writer
<1> QED
  BY <1>1, <1>2, <1>3, <1>4 DEF Lines!Next

(* Lines of any length, however long the writer and the reader go on:      *)
(* lines that fit into the reader's buffer arrive as they were written, in *)
(* order and once, until a write is short, a read fails or a line is too   *)
(* long, and on a stream the writer leaves open.                           *)
THEOREM LinesAsWritten ==
  ASSUME Plain
  PROVE  Lines!Spec => LinesArrive
<1>1. ASSUME LineInv, [Lines!Next]_Lines!vars
      PROVE  [Lines!Channel!Next]_<<sent, delivered, broken>>
  <2>1. LineTypes /\ LineTypes' /\ (broken \/ broken' \/ Delivers)
    BY <1>1, LineStep DEF LineInv
  <2>2. broken \in BOOLEAN /\ broken' \in BOOLEAN
    BY <2>1 DEF LineTypes, Lines!TypeOK
  <2>3. CASE broken'
    BY <2>3 DEF Lines!Channel!Next
  <2>4. broken => broken'
    BY <1>1, <2>1, LineSent
  <2>5. CASE ~ broken' /\ ~ broken
    <3>1. broken' = broken
      BY <2>2, <2>5
    <3>2. CASE sent' = sent
      BY <2>1, <2>5, <3>1, <3>2 DEF Delivers, Lines!Channel!Next, Lines!Channel!Deliver
    <3>3. CASE delivered' = delivered /\ \E f \in Line : sent' = Append(sent, f)
      BY <2>5, <3>3 DEF Lines!Channel!Next, Lines!Channel!Send
    <3> QED
      BY <1>1, <2>1, <3>2, <3>3, LineSent
  <2> QED
    BY <2>3, <2>4, <2>5
<1>2. Lines!Init => Lines!Channel!Init
  BY DEF Lines!Init, Lines!Channel!Init
<1>3. Lines!Init => LineInv
  BY LinesStart
<1>4. LineInv /\ [Lines!Next]_Lines!vars => LineInv'
  BY LineStep
<1> QED
  BY <1>1, <1>2, <1>3, <1>4, PTL DEF Lines!Spec, LinesArrive, Lines!LinesArrive, Lines!Channel!Spec
-----------------------------------------------------------------------------
(* What the tuner's TypeOK says beyond TunerInv.                           *)
TunerKinds ==
  /\ FHandle \in {"none", "own", "stray"} /\ Fac \in {Tuner!FacOf(c) : c \in {"low", "1hz", "plain"}}
  /\ private \in BOOLEAN /\ ready \in BOOLEAN

LEMMA TunerKindsKept ==
  ASSUME TunerKinds, [Tuner!Next]_(Tuner!vars)
  PROVE  TunerKinds'
<1>1. \A c : Tuner!FacOf(c) \in {Tuner!FacOf(x) : x \in {"low", "1hz", "plain"}}
  BY DEF Tuner!FacOf
<1> QED
  BY <1>1 DEF TunerKinds, Tuner!Next, Tuner!StartUp, Tuner!Open, Tuner!Close, Tuner!QueryStat,
              Tuner!Tune, Tuner!Seek, Tuner!Ioctl, Tuner!tuner, Tuner!vars

LEMMA TunerTypes == ASSUME InRange, TunerInv, TunerKinds PROVE Tuner!TypeOK
<1>1. units \in 0 .. Word - 1 /\ units * Kilo \in 0 .. Word - 1
  <2>1. units \in Nat /\ Kilo \in Nat \ {0} /\ Word \in Nat /\ units * Kilo < Word
    BY DEF TunerInv, InRange
  <2>2. units <= units * Kilo /\ units * Kilo \in Nat
    BY <2>1, Grows
  <2> HIDE DEF Tuner!FacOf
  <2> QED
    BY <2>1, <2>2
<1>2. Tuner!KHz(units) \in 0 .. Word - 1
  <2> DEFINE n == units * Kilo
             k == Tuner!FacOf(cap)
  <2>1. n \in Nat /\ k \in Nat \ {0} /\ n <= Word - 1 /\ Word \in Nat
    BY <1>1, FacPositive DEF InRange
  <2> HIDE DEF n, k
  <2>2. n \div k \in Nat /\ n \in (n \div k) * k .. (n \div k) * k + k - 1
    BY <2>1, Rounds
  <2>3. n \div k <= (n \div k) * k /\ (n \div k) * k \in Nat
    BY <2>1, <2>2, Grows
  <2>4. n \div k \in 0 .. Word - 1
    BY <2>1, <2>2, <2>3
  <2> QED
    BY <2>4 DEF n, k, Tuner!KHz
<1>3. status \in 0 .. Word - 1
  <2>1. status = 0 \/ status = Tuner!KHz(units)
    BY DEF TunerInv, FreqKept, Tuner!FreqKept
  <2>2. 0 \in 0 .. Word - 1
    BY <1>1 DEF InRange
  <2> QED
    BY <1>2, <2>1, <2>2
<1> QED
  BY <1>1, <1>3 DEF TunerInv, TunerKinds, Tuner!TypeOK

LEMMA TunerBegins == ASSUME InRange, Tuner!Init PROVE TunerInv /\ TunerKinds
<1>1. 16 * Kilo = Tuner!FacOf("low")
  BY DEF Tuner!FacOf
<1> QED
  BY <1>1, TunerStarts DEF Tuner!Init, TunerKinds

PartsInv == FeedInv /\ DeviceInv /\ TunerInv /\ TunerKinds /\ LineInv

(* The components side by side: each keeps its invariant, whichever moves, *)
(* and so every variable has its type.                                     *)
THEOREM PartsKeepTypes ==
  ASSUME Mannered, Orderly, InRange, Heedful, Plain
  PROVE  MCSpec => []MCTypeOK
<1>1. MCInit => PartsInv
  BY FeedStarts, DeviceStarts, TunerBegins, LinesStart DEF MCInit, PartsInv
<1>2. PartsInv /\ [MCNext]_<<part, vars, device, tuner, lines>> => PartsInv'
  <2> SUFFICES ASSUME PartsInv, [MCNext]_<<part, vars, device, tuner, lines>> PROVE PartsInv'
    OBVIOUS
  <2>1. [Next]_vars
    BY DEF MCNext
  <2>2. [ALSA!Next]_(ALSA!vars)
    BY DEF MCNext, device, ALSA!vars
  <2>3. [Tuner!Next]_(Tuner!vars)
    BY DEF MCNext, tuner, Tuner!vars, Tuner!tuner
  <2>4. [Lines!Next]_(Lines!vars)
    BY DEF MCNext, lines, Lines!vars, Lines!writer, Lines!reader
  <2> QED
    BY <2>1, <2>2, <2>3, <2>4, FeedStep, DeviceStep, TunerStep, TunerKindsKept, LineStep DEF PartsInv
<1>3. PartsInv => MCTypeOK
  <2> SUFFICES ASSUME PartsInv PROVE MCTypeOK
    OBVIOUS
  <2>1. TypeOK /\ Lines!TypeOK
    BY DEF PartsInv, FeedInv, LineInv, LineTypes
  <2>2. ALSA!TypeOK
    BY DEF PartsInv, DeviceInv, ALSA!TypeOK, Pcms
  <2>3. Tuner!TypeOK
    BY TunerTypes DEF PartsInv
  <2> QED
    BY <2>1, <2>2, <2>3 DEF MCTypeOK
<1> QED
  BY <1>1, <1>2, <1>3, PTL DEF MCSpec
=============================================================================
