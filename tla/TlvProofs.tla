------------------------------ MODULE TlvProofs -----------------------------
(***************************************************************************)
(* TlvStream implements FrameChannel for all payloads, streams and numbers *)
(* of frames, however short the reads and writes are and whichever fail,   *)
(* when nobody sends in the middle of another's frame.                     *)
(***************************************************************************)
EXTENDS TlvStream, Integers, TLAPS

(* A sender finishes its frame before another begins, and a write that     *)
(* fails is seen, as there is a payload.                                   *)
Orderly == "unlocked" \notin Env /\ ("writeFails" \in Env => Shortest > 0)

LEMMA Numbers ==
  /\ HeaderLen \in Nat \ {0} /\ MaxFrames \in Nat /\ Shortest \in Nat
  /\ \A l \in Lens : l \in Nat
BY TlvStreamAssumption

-----------------------------------------------------------------------------
(* What the proofs need of sequences.                                      *)
LEMMA Catenates ==
  ASSUME NEW B, NEW s \in Seq(B), NEW t \in Seq(B)
  PROVE  /\ s \o t \in Seq(B) /\ Len(s \o t) = Len(s) + Len(t)
         /\ \A i \in 1 .. Len(s) : (s \o t)[i] = s[i]
         /\ \A i \in 1 .. Len(t) : (s \o t)[Len(s) + i] = t[i]
OBVIOUS

LEMMA Appends ==
  ASSUME NEW B, NEW s \in Seq(B), NEW x \in B
  PROVE  /\ Append(s, x) \in Seq(B) /\ Len(Append(s, x)) = Len(s) + 1
         /\ \A i \in 1 .. Len(s) : Append(s, x)[i] = s[i]
         /\ Append(s, x)[Len(s) + 1] = x
OBVIOUS

LEMMA Lists ==
  ASSUME NEW B, NEW k \in Nat, NEW f \in [1 .. k -> B]
  PROVE  f \in Seq(B) /\ Len(f) = k
OBVIOUS

LEMMA Splits ==
  ASSUME NEW B, NEW s \in Seq(B), NEW k \in 0 .. Len(s)
  PROVE  /\ SubSeq(s, 1, k) \in Seq(B) /\ Len(SubSeq(s, 1, k)) = k
         /\ \A i \in 1 .. k : SubSeq(s, 1, k)[i] = s[i]
         /\ SubSeq(s, k + 1, Len(s)) \in Seq(B) /\ Len(SubSeq(s, k + 1, Len(s))) = Len(s) - k
         /\ \A i \in 1 .. Len(s) - k : SubSeq(s, k + 1, Len(s))[i] = s[k + i]
OBVIOUS

-----------------------------------------------------------------------------
(* The bytes of all frames make one text.  p[f] is how many come before    *)
(* frame f.                                                                *)
Size(f) == HeaderLen + len[f]
Begun == Len(len)
Piece == [frame : Nat, at : Nat]

Laid(p) ==
  /\ p \in [Nat -> Nat]
  /\ \A f \in 1 .. Begun : p[f + 1] = p[f] + Size(f)
  /\ \A f \in 1 .. Begun, g \in 1 .. Begun + 1 : f < g => p[f + 1] <= p[g]

(* How far the reader has come: the frame after those delivered, as far as *)
(* it is read.                                                             *)
Got == IF phase = "idle" THEN 0 ELSE Len(got)
Reached(p) == p[Len(delivered) + 1] + Got

(* And the writer: at the end of what was begun, or in the last frame.     *)
Quiet == \A s \in Sender : sending[s] = 0
Ahead(p) == IF Quiet THEN {p[Begun + 1]}
            ELSE {p[Begun] + wrote[s] : s \in {r \in Sender : sending[r] # 0}}

Senders ==
  /\ len \in Seq(Nat) /\ Begun <= MaxFrames
  /\ \A f \in 1 .. Begun : len[f] >= Shortest
  /\ sending \in [Sender -> Nat] /\ wrote \in [Sender -> Nat]
  /\ \A s \in Sender : sending[s] # 0 => sending[s] = Begun /\ wrote[s] < Size(Begun)
  /\ \A s, r \in Sender : sending[s] # 0 /\ sending[r] # 0 => s = r
  /\ sent \in Seq(Nat) /\ Len(sent) = (IF Quiet THEN Begun ELSE Begun - 1)
  /\ \A i \in 1 .. Len(sent) : sent[i] = i

Receiver ==
  /\ delivered \in Seq(Nat) /\ Len(delivered) <= Len(sent)
  /\ \A i \in 1 .. Len(delivered) : delivered[i] = i
  /\ phase \in {"idle", "header", "payload"}
  /\ phase # "idle" =>
       /\ got \in Seq(Piece)
       /\ \A i \in 1 .. Len(got) : got[i] = [frame |-> Len(delivered) + 1, at |-> i]
  /\ phase = "header" => Len(got) < HeaderLen /\ want = 0
  /\ phase = "payload" => /\ Len(delivered) < Begun /\ want = len[Len(delivered) + 1]
                          /\ HeaderLen <= Len(got) /\ Len(got) < HeaderLen + want

(* What is in the stream lies between the two.                             *)
Between(p) ==
  /\ pipe \in Seq(Piece)
  /\ \A i \in 1 .. Len(pipe) :
       /\ pipe[i].frame \in 1 .. Begun /\ pipe[i].at \in 1 .. Size(pipe[i].frame)
       /\ p[pipe[i].frame] + pipe[i].at = Reached(p) + i
  /\ Reached(p) + Len(pipe) \in Ahead(p)

InOrder(p) == Laid(p) /\ Senders /\ Receiver /\ Between(p)

(* Until someone is told of a failure.                                     *)
Inv == ~ reported => \E p : InOrder(p)

-----------------------------------------------------------------------------
LEMMA InvInit == Init => Inv
<1> SUFFICES ASSUME Init PROVE Inv
  OBVIOUS
<1> DEFINE p == [f \in Nat |-> 0]
<1>1. Len(len) = 0 /\ Len(sent) = 0 /\ Len(delivered) = 0 /\ Len(pipe) = 0
  BY DEF Init
<1>2. Laid(p)
  BY <1>1 DEF Laid, Begun
<1>3. Quiet
  BY DEF Init, Quiet
<1>4. Senders
  <2>1. /\ len \in Seq(Nat) /\ sent \in Seq(Nat)
        /\ sending \in [Sender -> Nat] /\ wrote \in [Sender -> Nat]
    BY DEF Init
  <2>2. 0 <= MaxFrames
    BY Numbers
  <2>3. \A s \in Sender : sending[s] = 0
    BY DEF Init
  <2> QED
    BY <1>1, <1>3, <2>1, <2>2, <2>3 DEF Senders, Begun
<1>5. Receiver
  BY <1>1 DEF Init, Receiver
<1>6. Between(p)
  <2>1. Reached(p) = 0
    BY <1>1 DEF Init, Reached, Got
  <2>2. Ahead(p) = {0}
    BY <1>1, <1>3 DEF Ahead, Begun
  <2>3. pipe \in Seq(Piece)
    BY DEF Init
  <2> QED
    BY <1>1, <2>1, <2>2, <2>3 DEF Between
<1> HIDE DEF p
<1> QED
  BY <1>2, <1>4, <1>5, <1>6 DEF Inv, InOrder

-----------------------------------------------------------------------------
(* A frame is begun.                                                       *)
LEMMA FrameBegins ==
  ASSUME Orderly, NEW p, InOrder(p), NEW s \in Sender, NEW l \in Lens, SendTLV(s, l)
  PROVE  \E q : InOrder(q)'
<1>1. PICK n \in Nat, d \in Nat : n = Begun /\ d = Len(delivered)
  BY DEF InOrder, Senders, Receiver, Begun
<1>2. l \in Nat /\ l >= Shortest /\ n < MaxFrames /\ HeaderLen \in Nat \ {0} /\ MaxFrames \in Nat
  BY <1>1, Numbers DEF SendTLV, Accepts, Begun
<1>3. /\ len' = Append(len, l)
      /\ sending' = [sending EXCEPT ![s] = n + 1] /\ wrote' = [wrote EXCEPT ![s] = 0]
      /\ UNCHANGED <<phase, want, got, delivered, pipe, sent, reported>>
  BY <1>1 DEF SendTLV, receiver, Begun
<1>4. Quiet
  BY DEF SendTLV, Quiet, Orderly
<1>5. /\ sending \in [Sender -> Nat] /\ wrote \in [Sender -> Nat]
      /\ sent \in Seq(Nat) /\ Len(sent) = n
  BY <1>1, <1>4 DEF InOrder, Senders
<1>6. d <= n
  BY <1>1, <1>5 DEF InOrder, Receiver
<1>7. /\ len' \in Seq(Nat) /\ Begun' = n + 1
      /\ \A f \in 1 .. n : len'[f] = len[f]
      /\ len'[n + 1] = l
  <2>1. len \in Seq(Nat) /\ n = Len(len)
    BY <1>1 DEF InOrder, Senders, Begun
  <2>2. l \in Nat
    BY <1>2
  <2> QED
    BY <1>3, <2>1, <2>2, Appends DEF Begun
<1>8. /\ \A f \in 1 .. n : Size(f)' = Size(f)
      /\ Size(n + 1)' = HeaderLen + l
  BY <1>7 DEF Size
<1>9. p \in [Nat -> Nat]
  BY DEF InOrder, Laid
<1>10. PICK q \in [Nat -> Nat] : /\ \A f \in 1 .. n + 1 : q[f] = p[f]
                                 /\ q[n + 2] = p[n + 1] + (HeaderLen + l)
  <2> DEFINE q == [p EXCEPT ![n + 2] = p[n + 1] + (HeaderLen + l)]
  <2>1. n + 2 \in Nat /\ \A f \in 1 .. n + 1 : f # n + 2 /\ f \in Nat
    OBVIOUS
  <2>2. p[n + 1] \in Nat
    BY <1>9
  <2>3. p[n + 1] + (HeaderLen + l) \in Nat
    BY <1>2, <2>2
  <2>4. /\ q \in [Nat -> Nat] /\ \A f \in 1 .. n + 1 : q[f] = p[f]
        /\ q[n + 2] = p[n + 1] + (HeaderLen + l)
    BY <1>9, <2>1, <2>3
  <2> QED
    BY <2>4
<1>11. Laid(q)'
  <2>1. ASSUME NEW f \in 1 .. n + 1
        PROVE  q[f + 1] = q[f] + Size(f)'
    <3>1. CASE f = n + 1
      <4>1. q[n + 2] = q[n + 1] + (HeaderLen + l) /\ f + 1 = n + 2
        BY <1>10, <3>1
      <4> QED
        BY <1>8, <3>1, <4>1
    <3>2. CASE f # n + 1
      <4>1. f \in 1 .. n /\ f + 1 \in 1 .. n + 1
        BY <3>2
      <4>2. p[f + 1] = p[f] + Size(f)
        BY <1>1, <4>1 DEF InOrder, Laid
      <4> QED
        BY <1>8, <1>10, <4>1, <4>2
    <3> QED
      BY <3>1, <3>2
  <2>2. ASSUME NEW f \in 1 .. n + 1, NEW g \in 1 .. n + 2, f < g
        PROVE  q[f + 1] <= q[g]
    <3>1. CASE f = n + 1
      <4>1. f + 1 = n + 2 /\ g = n + 2 /\ q[n + 2] \in Nat
        BY <2>2, <3>1
      <4> QED
        BY <4>1
    <3>2. CASE f # n + 1 /\ g = n + 2
      <4>1. f \in 1 .. n /\ f + 1 \in 1 .. n + 1 /\ f < n + 1 /\ n + 1 \in 1 .. n + 1
        BY <3>2
      <4>2. p[f + 1] <= p[n + 1] /\ q[f + 1] = p[f + 1]
        BY <1>1, <1>10, <4>1 DEF InOrder, Laid
      <4>3. p[f + 1] \in Nat /\ p[n + 1] \in Nat
        BY <1>9
      <4>4. p[f + 1] <= p[n + 1] + (HeaderLen + l)
        <5> DEFINE x == p[f + 1]
                   y == p[n + 1]
        <5>1. x \in Nat /\ y \in Nat /\ x <= y
          BY <4>2, <4>3
        <5> HIDE DEF x, y
        <5>2. x <= y + (HeaderLen + l)
          BY <1>2, <5>1
        <5> QED
          BY <5>2 DEF x, y
      <4> QED
        BY <1>10, <3>2, <4>2, <4>4
    <3>3. CASE f # n + 1 /\ g # n + 2
      <4>1. f \in 1 .. n /\ f + 1 \in 1 .. n + 1 /\ g \in 1 .. n + 1
        BY <3>3
      <4>2. p[f + 1] <= p[g]
        BY <1>1, <2>2, <4>1 DEF InOrder, Laid
      <4> QED
        BY <1>10, <4>1, <4>2
    <3> QED
      BY <3>1, <3>2, <3>3
  <2>3. (n + 1) + 1 = n + 2
    OBVIOUS
  <2> QED
    BY <1>7, <2>1, <2>2, <2>3 DEF Laid
<1>12. n + 1 # 0 /\ sending'[s] = n + 1 /\ wrote'[s] = 0 /\ \A r \in Sender : r # s => sending'[r] = 0
  <2>1. n + 1 # 0
    OBVIOUS
  <2> QED
    BY <1>3, <1>4, <1>5, <2>1 DEF Quiet
<1>13. ~ Quiet'
  BY <1>12 DEF Quiet
<1>14. Senders'
  <2>1. sending' \in [Sender -> Nat] /\ wrote' \in [Sender -> Nat]
    <3>1. n + 1 \in Nat /\ 0 \in Nat
      OBVIOUS
    <3>2. sending \in [Sender -> Nat] /\ wrote \in [Sender -> Nat]
      BY <1>5
    <3>3. sending' = [sending EXCEPT ![s] = n + 1] /\ wrote' = [wrote EXCEPT ![s] = 0]
      BY <1>3
    <3> QED
      BY <3>1, <3>2, <3>3
  <2>2. \A f \in 1 .. n + 1 : len'[f] >= Shortest
    <3>1. \A f \in 1 .. n : len[f] >= Shortest
      BY <1>1 DEF InOrder, Senders
    <3>2. \A f \in 1 .. n + 1 : f = n + 1 \/ f \in 1 .. n
      OBVIOUS
    <3> QED
      BY <1>2, <1>7, <3>1, <3>2
  <2>3. \A r \in Sender : sending'[r] # 0 => sending'[r] = n + 1 /\ wrote'[r] < Size(n + 1)'
    <3>1. 0 < HeaderLen + l
      BY <1>2
    <3> QED
      BY <1>8, <1>12, <3>1
  <2>4. \A r, t \in Sender : sending'[r] # 0 /\ sending'[t] # 0 => r = t
    BY <1>12
  <2>5. n + 1 <= MaxFrames /\ n = (n + 1) - 1
    BY <1>2
  <2>6. sent' = sent /\ \A i \in 1 .. Len(sent) : sent[i] = i
    BY <1>3 DEF InOrder, Senders
  <2>7. \A r \in Sender : sending'[r] # 0 => sending'[r] = Begun' /\ wrote'[r] < Size(Begun)'
    BY <1>7, <2>3
  <2> QED
    BY <1>5, <1>7, <1>13, <2>1, <2>2, <2>4, <2>5, <2>6, <2>7 DEF Senders
<1>15. Receiver'
  <2>1. phase = "payload" => d < n /\ want = len[d + 1]
    BY <1>1 DEF InOrder, Receiver
  <2>2. d < n => d + 1 \in 1 .. n /\ d < n + 1
    OBVIOUS
  <2>3. phase = "payload" => d < n + 1 /\ want = len'[d + 1]
    BY <1>7, <2>1, <2>2
  <2> QED
    BY <1>1, <1>3, <1>7, <2>3 DEF InOrder, Receiver
<1>16. Reached(q)' = Reached(p)
  <2>1. d + 1 \in 1 .. n + 1
    BY <1>6
  <2>2. q[d + 1] = p[d + 1]
    BY <1>10, <2>1
  <2> QED
    BY <1>1, <1>3, <2>2 DEF Reached, Got
<1>17. Between(q)'
  <2>1. Reached(p) + Len(pipe) = p[n + 1]
    BY <1>1, <1>4 DEF InOrder, Between, Ahead
  <2>2. q[n + 1] + 0 = p[n + 1]
    <3>1. n + 1 \in 1 .. n + 1
      OBVIOUS
    <3>2. p[n + 1] \in Nat /\ q[n + 1] = p[n + 1]
      BY <1>9, <1>10, <3>1
    <3> QED
      BY <3>2
  <2>3. q[n + 1] + wrote'[s] \in Ahead(q)'
    BY <1>7, <1>12, <1>13 DEF Ahead
  <2>4. Reached(p) + Len(pipe) \in Ahead(q)'
    BY <1>12, <2>1, <2>2, <2>3
  <2>5. ASSUME NEW i \in 1 .. Len(pipe)
        PROVE  /\ pipe[i].frame \in 1 .. n + 1 /\ pipe[i].at \in 1 .. Size(pipe[i].frame)'
               /\ q[pipe[i].frame] + pipe[i].at = Reached(p) + i
    <3>1. /\ pipe[i].frame \in 1 .. n /\ pipe[i].at \in 1 .. Size(pipe[i].frame)
          /\ p[pipe[i].frame] + pipe[i].at = Reached(p) + i
      BY <1>1 DEF InOrder, Between
    <3>2. \A f \in 1 .. n : f \in 1 .. n + 1
      OBVIOUS
    <3>3. Size(pipe[i].frame)' = Size(pipe[i].frame)
      BY <1>3, <1>7, <3>1 DEF Size
    <3> QED
      BY <1>3, <1>10, <3>1, <3>2, <3>3
  <2>6. pipe \in Seq(Piece)
    BY DEF InOrder, Between
  <2> QED
    BY <1>3, <1>7, <1>16, <2>4, <2>5, <2>6 DEF Between
<1> QED
  BY <1>11, <1>14, <1>15, <1>17 DEF InOrder

-----------------------------------------------------------------------------
(* Some of a frame is written.                                             *)
LEMMA FrameWritten ==
  ASSUME NEW p, InOrder(p), ~ reported, NEW s \in Sender, Write(s)
  PROVE  InOrder(p)' /\ [Channel!Next]_<<sent, delivered, reported>>
<1>1. PICK n \in Nat, d \in Nat : n = Begun /\ d = Len(delivered)
  BY DEF InOrder, Senders, Receiver, Begun
<1>2. PICK w \in Nat, z \in Nat : w = wrote[s] /\ z = Size(n) /\ z >= HeaderLen /\ w < z /\ n # 0
  <2>1. sending[s] # 0 /\ sending[s] = n /\ wrote[s] < Size(n) /\ wrote[s] \in Nat
    BY <1>1 DEF Write, InOrder, Senders
  <2>2. n \in 1 .. n
    BY <2>1
  <2>3. len[n] \in Nat
    BY <1>1, <2>2 DEF InOrder, Senders, Begun
  <2>4. Size(n) \in Nat /\ Size(n) >= HeaderLen
    BY <2>3, Numbers DEF Size
  <2> QED
    BY <2>1, <2>4
<1>3. sending[s] = n /\ ~ Quiet
  BY <1>1 DEF Write, InOrder, Senders, Quiet
<1>4. PICK k \in Nat :
        /\ 1 <= k /\ w + k <= z
        /\ pipe' = pipe \o Bytes(s, k)
        /\ wrote' = [wrote EXCEPT ![s] = w + k]
        /\ IF w + k = z THEN sending' = [sending EXCEPT ![s] = 0] /\ sent' = Append(sent, n)
           ELSE UNCHANGED <<sending, sent>>
  <2>1. PartEnd(s) \in Nat /\ PartEnd(s) <= z
    BY <1>2, <1>3, Numbers DEF PartEnd, Size
  <2>2. PICK k \in 1 .. PartEnd(s) - w :
          /\ pipe' = pipe \o Bytes(s, k)
          /\ wrote' = [wrote EXCEPT ![s] = w + k]
          /\ IF w + k = z THEN sending' = [sending EXCEPT ![s] = 0] /\ sent' = Append(sent, n)
             ELSE UNCHANGED <<sending, sent>>
    BY <1>2, <1>3 DEF Write, Size
  <2>3. k \in Nat /\ 1 <= k /\ w + k <= z
    BY <2>1
  <2> QED
    BY <2>2, <2>3
<1>5. UNCHANGED <<phase, want, got, delivered, len, reported>>
  BY DEF Write, receiver
<1>6. Laid(p)'
  BY <1>5 DEF InOrder, Laid, Begun, Size
<1>7. p[n] \in Nat /\ p[n + 1] \in Nat /\ p[n + 1] = p[n] + z
  <2>1. n \in 1 .. n
    BY <1>2
  <2> QED
    BY <1>1, <1>2, <2>1 DEF InOrder, Laid
<1>8. PICK u \in Nat, b \in Nat : u = Len(pipe) /\ b = Reached(p) /\ b + u = p[n] + w
  <2>1. Len(pipe) \in Nat
    BY DEF InOrder, Between
  <2>2. Reached(p) + Len(pipe) = p[n] + w
    BY <1>1, <1>2, <1>3 DEF InOrder, Between, Ahead, Senders
  <2>3. Reached(p) \in Nat
    <3>1. p[d + 1] \in Nat
      BY DEF InOrder, Laid
    <3>2. Got \in Nat
      BY DEF InOrder, Receiver, Got
    <3> QED
      BY <1>1, <3>1, <3>2 DEF Reached
  <2> QED
    BY <2>1, <2>2, <2>3
<1>9. Reached(p)' = b
  BY <1>5, <1>8 DEF Reached, Got
<1>10. /\ Bytes(s, k) \in Seq(Piece) /\ Len(Bytes(s, k)) = k
       /\ \A j \in 1 .. k : Bytes(s, k)[j] = [frame |-> n, at |-> w + j]
  <2>1. \A j \in 1 .. k : [frame |-> n, at |-> w + j] \in Piece
    BY DEF Piece
  <2>2. Bytes(s, k) = [j \in 1 .. k |-> [frame |-> n, at |-> w + j]]
    BY <1>2, <1>3 DEF Bytes
  <2>3. Bytes(s, k) \in [1 .. k -> Piece]
    BY <2>1, <2>2
  <2>4. Bytes(s, k) \in Seq(Piece) /\ Len(Bytes(s, k)) = k
    BY <2>3, Lists
  <2> QED
    BY <2>2, <2>4
<1>11. /\ pipe' \in Seq(Piece) /\ Len(pipe') = u + k
       /\ \A i \in 1 .. u : pipe'[i] = pipe[i]
       /\ \A j \in 1 .. k : pipe'[u + j] = [frame |-> n, at |-> w + j]
  <2>1. pipe \in Seq(Piece)
    BY DEF InOrder, Between
  <2> DEFINE t == Bytes(s, k)
  <2>2. t \in Seq(Piece)
    BY <1>10
  <2> HIDE DEF t
  <2>3. /\ (pipe \o t) \in Seq(Piece)
        /\ Len(pipe \o t) = Len(pipe) + Len(t)
        /\ \A i \in 1 .. Len(pipe) : (pipe \o t)[i] = pipe[i]
        /\ \A j \in 1 .. Len(t) : (pipe \o t)[Len(pipe) + j] = t[j]
    BY <2>1, <2>2, Catenates
  <2> QED
    BY <1>4, <1>8, <1>10, <2>3 DEF t
<1>12. ASSUME NEW i \in 1 .. u + k
       PROVE  /\ pipe'[i].frame \in 1 .. n /\ pipe'[i].at \in 1 .. Size(pipe'[i].frame)
              /\ p[pipe'[i].frame] + pipe'[i].at = b + i
  <2>1. CASE i \in 1 .. u
    BY <1>1, <1>8, <1>11, <2>1 DEF InOrder, Between
  <2>2. CASE i \notin 1 .. u
    <3>1. PICK j \in 1 .. k : i = u + j
      <4>1. i - u \in 1 .. k /\ i = u + (i - u)
        BY <2>2
      <4> QED
        BY <4>1
    <3>2. pipe'[i].frame = n /\ pipe'[i].at = w + j
      <4>1. pipe'[i] = [frame |-> n, at |-> w + j]
        BY <1>11, <3>1
      <4> QED
        BY <4>1
    <3>3. w + j \in 1 .. z /\ n \in 1 .. n
      BY <1>2, <1>4
    <3>4. p[n] + (w + j) = b + i
      <4> DEFINE x == p[n]
      <4>1. x \in Nat /\ b + u = x + w
        BY <1>7, <1>8
      <4> HIDE DEF x
      <4>2. x + (w + j) = b + i
        BY <3>1, <4>1
      <4> QED
        BY <4>2 DEF x
    <3> QED
      BY <1>2, <3>2, <3>3, <3>4
  <2> QED
    BY <2>1, <2>2
<1>13. b + (u + k) = p[n] + (w + k)
  <2> DEFINE x == p[n]
  <2>1. x \in Nat /\ b + u = x + w
    BY <1>7, <1>8
  <2> HIDE DEF x
  <2>2. b + (u + k) = x + (w + k)
    BY <2>1
  <2> QED
    BY <2>2 DEF x
<1>14. /\ sent \in Seq(Nat) /\ Len(sent) = n - 1
       /\ \A i \in 1 .. n - 1 : sent[i] = i
       /\ sending \in [Sender -> Nat] /\ wrote \in [Sender -> Nat]
       /\ \A r \in Sender : sending[r] # 0 => r = s
  BY <1>1, <1>3, <1>2 DEF InOrder, Senders
<1>15. wrote' \in [Sender -> Nat] /\ wrote'[s] = w + k
  <2>1. w + k \in Nat
    OBVIOUS
  <2> QED
    BY <1>4, <1>14, <2>1
<1>16. d <= n - 1
  BY <1>1, <1>14 DEF InOrder, Receiver
<1>17. ASSUME Ahead(p)' = {p[n] + (w + k)}
       PROVE  Between(p)'
  <2>1. Begun' = n /\ \A f : Size(f)' = Size(f)
    BY <1>1, <1>5 DEF Begun, Size
  <2>2. \A i \in 1 .. Len(pipe') : pipe'[i].at \in 1 .. (HeaderLen + len'[pipe'[i].frame])
    BY <1>5, <1>11, <1>12 DEF Size
  <2> QED
    BY <1>9, <1>11, <1>12, <1>13, <1>17, <2>1, <2>2 DEF Between, Size
<1>18. Begun' = n /\ len' = len
  BY <1>1, <1>5 DEF Begun
<1>19. CASE w + k = z
  <2>1. sending' = [sending EXCEPT ![s] = 0] /\ sent' = Append(sent, n)
    BY <1>4, <1>19
  <2>2. sending' \in [Sender -> Nat] /\ \A r \in Sender : sending'[r] = 0
    BY <1>14, <2>1
  <2>3. Quiet'
    BY <2>2 DEF Quiet
  <2>4. /\ sent' \in Seq(Nat) /\ Len(sent') = n
        /\ \A i \in 1 .. n : sent'[i] = i
    <3>1. /\ sent' \in Seq(Nat) /\ Len(sent') = (n - 1) + 1
          /\ \A i \in 1 .. n - 1 : sent'[i] = sent[i]
          /\ sent'[(n - 1) + 1] = n
      BY <1>14, <2>1, Appends
    <3>2. (n - 1) + 1 = n /\ \A i \in 1 .. n : i = n \/ i \in 1 .. n - 1
      BY <1>2
    <3> QED
      BY <1>14, <3>1, <3>2
  <2>5. Senders'
    <3>1. len \in Seq(Nat) /\ n <= MaxFrames /\ \A f \in 1 .. n : len[f] >= Shortest
      BY <1>1 DEF InOrder, Senders
    <3> QED
      BY <1>15, <1>18, <2>2, <2>3, <2>4, <3>1 DEF Senders
  <2>6. Receiver'
    <3>1. d <= n
      BY <1>16
    <3> QED
      BY <1>1, <1>5, <1>18, <2>4, <3>1 DEF InOrder, Receiver
  <2>7. Ahead(p)' = {p[n] + (w + k)}
    BY <1>7, <1>18, <1>19, <2>3 DEF Ahead
  <2>8. Channel!Send(n)
    BY <1>5, <2>1 DEF Channel!Send
  <2>9. n \in Frame
    <3>1. n <= MaxFrames
      BY <1>1 DEF InOrder, Senders
    <3> QED
      BY <1>2, <3>1, Numbers DEF Frame
  <2>10. Channel!Next
    BY <1>5, <2>8, <2>9 DEF Channel!Next
  <2> QED
    BY <1>6, <1>17, <2>5, <2>6, <2>7, <2>10 DEF InOrder
<1>20. CASE w + k # z
  <2>1. sending' = sending /\ sent' = sent
    BY <1>4, <1>20
  <2>2. ~ Quiet'
    BY <1>3, <2>1 DEF Quiet
  <2>3. Senders'
    <3>1. len \in Seq(Nat) /\ n <= MaxFrames /\ \A f \in 1 .. n : len[f] >= Shortest
      BY <1>1 DEF InOrder, Senders
    <3>2. w + k < z
      BY <1>4, <1>20
    <3>3. \A r \in Sender : sending'[r] # 0 => sending'[r] = n /\ wrote'[r] < Size(n)'
      BY <1>2, <1>3, <1>14, <1>15, <1>18, <2>1, <3>2 DEF Size
    <3>4. \A r \in Sender : sending'[r] # 0 => sending'[r] = Begun' /\ wrote'[r] < Size(Begun)'
      BY <1>18, <3>3
    <3> QED
      BY <1>14, <1>15, <1>18, <2>1, <2>2, <3>1, <3>4 DEF Senders
  <2>4. Receiver'
    BY <1>1, <1>5, <1>18, <2>1 DEF InOrder, Receiver
  <2>5. Ahead(p)' = {p[n] + (w + k)}
    <3>1. {r \in Sender : sending'[r] # 0} = {s}
      BY <1>2, <1>3, <1>14, <2>1
    <3> QED
      BY <1>15, <1>18, <2>2, <3>1 DEF Ahead
  <2> QED
    BY <1>5, <1>6, <1>17, <2>1, <2>3, <2>4, <2>5 DEF InOrder
<1> QED
  BY <1>19, <1>20

-----------------------------------------------------------------------------
(* What a read takes out of the stream continues the frame that the reader *)
(* is in.                                                                  *)
LEMMA Taken ==
  ASSUME NEW p, InOrder(p), phase # "idle", NEW k \in Nat, k >= 1, Take(k),
         \/ phase = "header" /\ Len(got) + k <= HeaderLen
         \/ phase = "payload" /\ Len(got) + k <= HeaderLen + want
  PROVE  /\ Len(delivered) < Begun
         /\ got' \in Seq(Piece) /\ Len(got') = Len(got) + k
         /\ \A i \in 1 .. Len(got') : got'[i] = [frame |-> Len(delivered) + 1, at |-> i]
         /\ pipe' \in Seq(Piece)
         /\ \A i \in 1 .. Len(pipe') :
              /\ pipe'[i].frame \in 1 .. Begun /\ pipe'[i].at \in 1 .. Size(pipe'[i].frame)
              /\ p[pipe'[i].frame] + pipe'[i].at = (p[Len(delivered) + 1] + Len(got')) + i
         /\ (p[Len(delivered) + 1] + Len(got')) + Len(pipe') \in Ahead(p)
         /\ Len(got') = Size(Len(delivered) + 1) => Len(delivered) < Len(sent)
<1>1. PICK n \in Nat, d \in Nat : n = Begun /\ d = Len(delivered) /\ d <= n
  <2>1. Begun \in Nat /\ Len(delivered) \in Nat
    BY DEF InOrder, Senders, Receiver, Begun
  <2>2. Len(delivered) <= Len(sent) /\ Len(sent) \in {Begun, Begun - 1}
    BY DEF InOrder, Senders, Receiver
  <2>3. Len(delivered) <= Begun
    BY <2>1, <2>2
  <2> QED
    BY <2>1, <2>3
<1>2. /\ p \in [Nat -> Nat]
      /\ \A f \in 1 .. n : p[f + 1] = p[f] + Size(f)
      /\ \A f \in 1 .. n, g \in 1 .. n + 1 : f < g => p[f + 1] <= p[g]
  BY <1>1 DEF InOrder, Laid
<1>3. PICK x \in Nat : x = p[d + 1]
  BY <1>2
<1>4. got \in Seq(Piece) /\ \A i \in 1 .. Len(got) : got[i] = [frame |-> d + 1, at |-> i]
  BY <1>1 DEF InOrder, Receiver
<1>5. pipe \in Seq(Piece)
  BY DEF InOrder, Between
<1>6. PICK v \in Nat, u \in Nat : v = Len(got) /\ u = Len(pipe) /\ k <= u
  BY <1>4, <1>5 DEF Take
<1>7. Reached(p) = x + v
  BY <1>1, <1>3, <1>6 DEF Reached, Got
<1>8. ASSUME NEW i \in 1 .. u
      PROVE  /\ pipe[i].frame \in 1 .. n /\ pipe[i].at \in 1 .. Size(pipe[i].frame)
             /\ p[pipe[i].frame] + pipe[i].at = (x + v) + i
  BY <1>1, <1>6, <1>7 DEF InOrder, Between
<1>9. \A f \in 1 .. n : Size(f) \in Nat /\ Size(f) >= HeaderLen
  BY <1>1, Numbers DEF InOrder, Senders, Begun, Size
(* A byte of frame f comes before the next frame.                          *)
<1>10. ASSUME NEW i \in 1 .. u, NEW g \in 1 .. n + 1, pipe[i].frame < g
       PROVE  (x + v) + i <= p[g]
  <2>1. PICK f \in 1 .. n, a \in Nat :
          f = pipe[i].frame /\ a = pipe[i].at /\ a <= Size(f) /\ p[f] + a = (x + v) + i
    <3>1. pipe[i].at \in Nat /\ pipe[i].at <= Size(pipe[i].frame)
      BY <1>8, <1>9
    <3> QED
      BY <1>8, <3>1
  <2>2. p[f + 1] <= p[g] /\ p[f + 1] = p[f] + Size(f)
    BY <1>2, <1>10, <2>1
  <2>3. p[f] \in Nat /\ p[g] \in Nat /\ Size(f) \in Nat
    <3>1. f \in Nat /\ g \in Nat
      OBVIOUS
    <3> QED
      BY <1>2, <1>9, <3>1
  <2> DEFINE pf == p[f]
             pg == p[g]
             sf == Size(f)
  <2>4. pf \in Nat /\ pg \in Nat /\ sf \in Nat /\ pf + sf <= pg /\ a <= sf /\ pf + a = (x + v) + i
    BY <2>1, <2>2, <2>3
  <2> HIDE DEF pf, pg, sf
  <2>5. (x + v) + i <= pg
    BY <2>4
  <2> QED
    BY <2>5 DEF pg
<1>11. d < n
  <2> SUFFICES ASSUME d = n
               PROVE  FALSE
    BY <1>1
  <2>1. 1 \in 1 .. u /\ n + 1 \in 1 .. n + 1
    BY <1>6
  <2>2. pipe[1].frame < n + 1
    BY <1>8, <2>1
  <2>3. (x + v) + 1 <= x
    BY <1>3, <1>10, <2>1, <2>2
  <2> QED
    BY <2>3
<1>12. d + 1 \in 1 .. n /\ d + 1 \in 1 .. n + 1
  BY <1>11
<1>13. PICK z \in Nat : z = Size(d + 1) /\ v + k <= z
  <2>1. Size(d + 1) \in Nat /\ Size(d + 1) >= HeaderLen
    BY <1>9, <1>12
  <2>2. CASE phase = "header"
    BY <1>6, <2>1, <2>2, Numbers
  <2>3. CASE phase = "payload"
    <3>1. want = len[d + 1]
      BY <1>1, <2>3 DEF InOrder, Receiver
    <3> QED
      BY <1>6, <2>1, <2>3, <3>1 DEF Size
  <2> QED
    BY <2>2, <2>3
<1>14. ASSUME NEW i \in 1 .. k
       PROVE  pipe[i] = [frame |-> d + 1, at |-> v + i]
  <2>1. i \in 1 .. u
    BY <1>6
  <2>2. PICK f \in 1 .. n, a \in Nat :
          f = pipe[i].frame /\ a = pipe[i].at /\ a >= 1 /\ p[f] + a = (x + v) + i
    <3>1. pipe[i].at \in Nat /\ pipe[i].at >= 1
      BY <1>8, <1>9, <2>1
    <3> QED
      BY <1>8, <2>1, <3>1
  <2>3. ~ (f < d + 1)
    <3> SUFFICES ASSUME f < d + 1
                 PROVE  FALSE
      OBVIOUS
    <3>1. (x + v) + i <= x
      BY <1>3, <1>10, <1>12, <2>1, <2>2
    <3> QED
      BY <3>1
  <2>4. ~ (d + 1 < f)
    <3> SUFFICES ASSUME d + 1 < f
                 PROVE  FALSE
      OBVIOUS
    <3>1. f \in 1 .. n + 1
      OBVIOUS
    <3>2. p[(d + 1) + 1] <= p[f] /\ p[(d + 1) + 1] = x + z
      BY <1>2, <1>3, <1>12, <1>13, <3>1
    <3> DEFINE pf == p[f]
    <3>3. f \in Nat /\ p[f] \in Nat
      BY <1>2
    <3>4. pf \in Nat /\ x + z <= pf /\ pf + a = (x + v) + i
      BY <2>2, <3>2, <3>3
    <3> HIDE DEF pf
    <3> QED
      BY <1>13, <2>2, <3>4
  <2>5. f = d + 1
    BY <2>3, <2>4
  <2>6. a = v + i
    <3>1. x + a = (x + v) + i
      BY <1>3, <2>2, <2>5
    <3> QED
      BY <3>1
  <2>7. pipe[i] \in Piece
    BY <1>5, <1>6, <2>1
  <2>8. pipe[i] = [frame |-> pipe[i].frame, at |-> pipe[i].at]
    BY <2>7 DEF Piece
  <2> QED
    BY <2>2, <2>5, <2>6, <2>8
<1>15. /\ SubSeq(pipe, 1, k) \in Seq(Piece) /\ Len(SubSeq(pipe, 1, k)) = k
       /\ \A i \in 1 .. k : SubSeq(pipe, 1, k)[i] = pipe[i]
       /\ SubSeq(pipe, k + 1, u) \in Seq(Piece) /\ Len(SubSeq(pipe, k + 1, u)) = u - k
       /\ \A i \in 1 .. u - k : SubSeq(pipe, k + 1, u)[i] = pipe[k + i]
  <2>1. k \in 0 .. Len(pipe)
    BY <1>6
  <2> QED
    BY <1>5, <1>6, <2>1, Splits
<1>16. /\ got' \in Seq(Piece) /\ Len(got') = v + k
       /\ \A i \in 1 .. v + k : got'[i] = [frame |-> d + 1, at |-> i]
  <2> DEFINE t == SubSeq(pipe, 1, k)
  <2>1. t \in Seq(Piece) /\ Len(t) = k /\ \A i \in 1 .. k : t[i] = [frame |-> d + 1, at |-> v + i]
    BY <1>14, <1>15
  <2>2. got' = got \o t
    BY DEF Take
  <2> HIDE DEF t
  <2>3. /\ got' \in Seq(Piece) /\ Len(got') = Len(got) + Len(t)
        /\ \A i \in 1 .. Len(got) : got'[i] = got[i]
        /\ \A i \in 1 .. Len(t) : got'[Len(got) + i] = t[i]
    <3>1. got \in Seq(Piece) /\ t \in Seq(Piece)
      BY <1>4, <2>1
    <3>2. /\ (got \o t) \in Seq(Piece) /\ Len(got \o t) = Len(got) + Len(t)
          /\ \A i \in 1 .. Len(got) : (got \o t)[i] = got[i]
          /\ \A i \in 1 .. Len(t) : (got \o t)[Len(got) + i] = t[i]
      BY <3>1, Catenates
    <3> QED
      BY <2>2, <3>2
  <2>4. \A i \in 1 .. v + k : i \in 1 .. v \/ \E j \in 1 .. k : i = v + j
    <3> SUFFICES ASSUME NEW i \in 1 .. v + k, i \notin 1 .. v
                 PROVE  \E j \in 1 .. k : i = v + j
      OBVIOUS
    <3>1. i - v \in 1 .. k /\ i = v + (i - v)
      OBVIOUS
    <3> QED
      BY <3>1
  <2>5. ASSUME NEW i \in 1 .. v + k
        PROVE  got'[i] = [frame |-> d + 1, at |-> i]
    <3>1. CASE i \in 1 .. v
      BY <1>4, <1>6, <2>3, <3>1
    <3>2. CASE \E j \in 1 .. k : i = v + j
      BY <1>6, <2>1, <2>3, <3>2
    <3> QED
      BY <2>4, <3>1, <3>2
  <2> QED
    BY <1>6, <2>1, <2>3, <2>5
<1>17. /\ pipe' \in Seq(Piece) /\ Len(pipe') = u - k
       /\ \A i \in 1 .. u - k : pipe'[i] = pipe[k + i]
  BY <1>6, <1>15 DEF Take
<1>18. ASSUME NEW i \in 1 .. u - k
       PROVE  /\ pipe'[i].frame \in 1 .. n /\ pipe'[i].at \in 1 .. Size(pipe'[i].frame)
              /\ p[pipe'[i].frame] + pipe'[i].at = (x + (v + k)) + i
  <2>1. k + i \in 1 .. u /\ (x + v) + (k + i) = (x + (v + k)) + i
    BY <1>6
  <2> QED
    BY <1>8, <1>17, <2>1
<1>19. (x + (v + k)) + (u - k) \in Ahead(p) /\ (x + v) + u \in Ahead(p)
  <2>1. (x + v) + u \in Ahead(p)
    BY <1>6, <1>7 DEF InOrder, Between
  <2>2. (x + (v + k)) + (u - k) = (x + v) + u
    OBVIOUS
  <2> QED
    BY <2>1, <2>2
<1>20. ASSUME v + k = z
       PROVE  d < Len(sent)
  <2>1. CASE Quiet
    BY <1>1, <1>11, <2>1 DEF InOrder, Senders
  <2>2. CASE ~ Quiet
    <3>1. PICK s \in Sender : sending[s] # 0 /\ (x + v) + u = p[n] + wrote[s]
      BY <1>1, <1>19, <2>2 DEF Ahead
    <3>2. wrote[s] < Size(n) /\ wrote[s] \in Nat /\ Len(sent) = n - 1
      BY <1>1, <2>2, <3>1 DEF InOrder, Senders
    <3>3. d + 1 # n
      <4> SUFFICES ASSUME d + 1 = n
                   PROVE  FALSE
        OBVIOUS
      <4> DEFINE w == wrote[s]
      <4>1. w \in Nat /\ w < z /\ (x + v) + u = x + w
        BY <1>3, <1>13, <3>1, <3>2
      <4> HIDE DEF w
      <4> QED
        BY <1>6, <1>20, <4>1
    <3> QED
      BY <1>11, <3>2, <3>3
  <2> QED
    BY <2>1, <2>2
<1> QED
  <2>1. Len(got') = v + k /\ p[d + 1] = x /\ Len(pipe') = u - k
    BY <1>3, <1>16, <1>17
  <2> QED
    BY <1>1, <1>6, <1>11, <1>13, <1>16, <1>17, <1>18, <1>19, <1>20, <2>1

-----------------------------------------------------------------------------
(* The senders and the text stay as they are while the reader reads.       *)
LEMMA SendersStay ==
  ASSUME NEW p, InOrder(p), UNCHANGED sender
  PROVE  /\ Laid(p)' /\ Senders' /\ Begun' = Begun /\ len' = len /\ sent' = sent
         /\ Ahead(p)' = Ahead(p)
<1>1. UNCHANGED <<len, sending, wrote, sent>>
  BY DEF sender
<1>2. Begun' = Begun /\ (Quiet' <=> Quiet)
  BY <1>1 DEF Begun, Quiet
<1>3. Laid(p)'
  BY <1>1, <1>2 DEF InOrder, Laid, Size
<1>4. Senders'
  BY <1>1, <1>2 DEF InOrder, Senders, Size
<1> QED
  BY <1>1, <1>2, <1>3, <1>4 DEF Ahead

(* The reader stays in its frame.                                          *)
LEMMA FrameGoesOn ==
  ASSUME NEW p, InOrder(p), phase # "idle", NEW k \in Nat, k >= 1, Take(k),
         \/ phase = "header" /\ Len(got) + k <= HeaderLen
         \/ phase = "payload" /\ Len(got) + k <= HeaderLen + want,
         UNCHANGED sender, delivered' = delivered,
         \/ phase' = "header" /\ want' = 0 /\ Len(got') < HeaderLen
         \/ /\ phase' = "payload" /\ want' = len[Len(delivered) + 1]
            /\ HeaderLen <= Len(got') /\ Len(got') < HeaderLen + want'
  PROVE  InOrder(p)'
<1>1. /\ Laid(p)' /\ Senders' /\ Begun' = Begun /\ len' = len /\ sent' = sent
      /\ Ahead(p)' = Ahead(p)
  BY SendersStay
<1>2. Receiver'
  <2>1. /\ Len(delivered) < Begun /\ got' \in Seq(Piece)
        /\ \A i \in 1 .. Len(got') : got'[i] = [frame |-> Len(delivered) + 1, at |-> i]
    BY Taken
  <2>2. /\ delivered \in Seq(Nat) /\ Len(delivered) <= Len(sent)
        /\ \A i \in 1 .. Len(delivered) : delivered[i] = i
    BY DEF InOrder, Receiver
  <2> QED
    BY <1>1, <2>1, <2>2 DEF Receiver
<1>3. Reached(p)' = p[Len(delivered) + 1] + Len(got')
  BY DEF Reached, Got
<1>4. Between(p)'
  <2>1. /\ pipe' \in Seq(Piece)
        /\ \A i \in 1 .. Len(pipe') :
             /\ pipe'[i].frame \in 1 .. Begun /\ pipe'[i].at \in 1 .. Size(pipe'[i].frame)
             /\ p[pipe'[i].frame] + pipe'[i].at = (p[Len(delivered) + 1] + Len(got')) + i
        /\ (p[Len(delivered) + 1] + Len(got')) + Len(pipe') \in Ahead(p)
    BY Taken
  <2>2. \A i \in 1 .. Len(pipe') : Size(pipe'[i].frame) = HeaderLen + len'[pipe'[i].frame]
    BY <1>1 DEF Size
  <2> QED
    BY <1>1, <1>3, <2>1, <2>2 DEF Between, Size
<1> QED
  BY <1>1, <1>2, <1>4 DEF InOrder

LEMMA HeaderRead ==
  ASSUME NEW p, InOrder(p), ~ reported, ReadHeader
  PROVE  \/ reported'
         \/ InOrder(p)' /\ UNCHANGED <<sent, delivered, reported>>
<1> SUFFICES ASSUME ~ reported'
             PROVE  InOrder(p)' /\ UNCHANGED <<sent, delivered, reported>>
  OBVIOUS
<1>1. phase = "header" /\ want = 0 /\ Len(got) \in Nat /\ Len(got) < HeaderLen
  BY DEF ReadHeader, InOrder, Receiver
<1>2. PICK k \in Nat : k >= 1 /\ Take(k) /\ Len(got) + k <= HeaderLen
  <2>1. PICK k \in 1 .. HeaderLen - Len(got) : Take(k)
    BY DEF ReadHeader, ReadBuf
  <2>2. k \in Nat /\ k >= 1 /\ Len(got) + k <= HeaderLen
    BY <1>1, Numbers
  <2> QED
    BY <2>1, <2>2
<1>3. UNCHANGED sender /\ sent' = sent
  BY DEF ReadHeader, sender
<1>4. /\ Len(delivered) < Begun /\ Len(got') = Len(got) + k
      /\ \A i \in 1 .. Len(got') : got'[i] = [frame |-> Len(delivered) + 1, at |-> i]
      /\ got' \in Seq(Piece)
  BY <1>1, <1>2, Taken
<1>5. CASE Len(got') < HeaderLen
  <2>1. UNCHANGED <<phase, want, delivered, reported>>
    BY <1>5 DEF ReadHeader
  <2>2. InOrder(p)'
    BY <1>1, <1>2, <1>3, <1>5, <2>1, FrameGoesOn
  <2> QED
    BY <1>3, <2>1, <2>2
<1>6. CASE ~ (Len(got') < HeaderLen)
  <2>1. Len(got') = HeaderLen
    BY <1>1, <1>2, <1>4, <1>6, Numbers
  <2>2. Begins(got') /\ got'[1].frame = Len(delivered) + 1
    <3>1. DOMAIN got' = 1 .. Len(got')
      BY <1>4
    <3>2. 1 \in 1 .. Len(got')
      BY <2>1, Numbers
    <3>3. got'[1] = [frame |-> Len(delivered) + 1, at |-> 1]
      BY <1>4, <3>2
    <3>4. got'[1].frame = Len(delivered) + 1
      BY <3>3
    <3> QED
      BY <1>4, <3>1, <3>4 DEF Begins
  <2>3. want' = len[Len(delivered) + 1] /\ phase' = "payload" /\ want' > 0 /\ UNCHANGED <<delivered, reported>>
    BY <1>6, <2>2 DEF ReadHeader, LenIn
  <2>4. want' \in Nat
    <3>1. Len(delivered) \in Nat
      BY DEF InOrder, Receiver
    <3>2. Len(delivered) + 1 \in 1 .. Len(len)
      BY <1>4, <3>1 DEF Begun, InOrder, Senders
    <3> QED
      BY <2>3, <3>2 DEF InOrder, Senders
  <2>5. HeaderLen <= Len(got') /\ Len(got') < HeaderLen + want'
    BY <2>1, <2>3, <2>4, Numbers
  <2>6. InOrder(p)'
    BY <1>1, <1>2, <1>3, <2>3, <2>5, FrameGoesOn
  <2> QED
    BY <1>3, <2>3, <2>6
<1> QED
  BY <1>5, <1>6

LEMMA PayloadRead ==
  ASSUME NEW p, InOrder(p), ~ reported, ReadPayload
  PROVE  InOrder(p)' /\ [Channel!Next]_<<sent, delivered, reported>>
<1>1. PICK n \in Nat, d \in Nat : n = Begun /\ d = Len(delivered) /\ d < n
  BY DEF ReadPayload, InOrder, Senders, Receiver, Begun
<1>2. phase = "payload" /\ want = len[d + 1] /\ HeaderLen + want = Size(d + 1)
  BY <1>1 DEF ReadPayload, InOrder, Receiver, Size
<1>3. PICK v \in Nat, z \in Nat : v = Len(got) /\ HeaderLen <= v /\ v < z /\ z = HeaderLen + want /\ want \in Nat
  <2>1. d + 1 \in 1 .. n
    BY <1>1
  <2>2. want \in Nat
    BY <1>1, <1>2, <2>1 DEF InOrder, Senders, Begun
  <2>3. HeaderLen + want \in Nat
    BY <2>2, Numbers
  <2> QED
    BY <1>2, <2>2, <2>3 DEF InOrder, Receiver
<1>4. PICK k \in Nat : k >= 1 /\ Take(k) /\ v + k <= z
  <2>1. PICK k \in 1 .. z - v : Take(k)
    <3>1. \E k \in 1 .. HeaderLen + want - Len(got) : Take(k)
      BY DEF ReadPayload, ReadBuf
    <3>2. HeaderLen + want - Len(got) = z - v
      BY <1>3, Numbers
    <3> QED
      BY <3>1, <3>2
  <2>2. k \in Nat /\ k >= 1 /\ v + k <= z
    OBVIOUS
  <2> QED
    BY <2>1, <2>2
<1>5. UNCHANGED sender /\ want' = want /\ sent' = sent /\ reported' = reported
  BY DEF ReadPayload, sender
<1>6. /\ got' \in Seq(Piece) /\ Len(got') = v + k
      /\ \A i \in 1 .. Len(got') : got'[i] = [frame |-> d + 1, at |-> i]
      /\ pipe' \in Seq(Piece)
      /\ \A i \in 1 .. Len(pipe') :
           /\ pipe'[i].frame \in 1 .. n /\ pipe'[i].at \in 1 .. Size(pipe'[i].frame)
           /\ p[pipe'[i].frame] + pipe'[i].at = (p[d + 1] + Len(got')) + i
      /\ (p[d + 1] + Len(got')) + Len(pipe') \in Ahead(p)
      /\ Len(got') = Size(d + 1) => d < Len(sent)
  BY <1>1, <1>2, <1>3, <1>4, Taken
<1>7. CASE v + k < z
  <2>1. UNCHANGED <<phase, delivered>>
    BY <1>3, <1>6, <1>7 DEF ReadPayload
  <2>2. HeaderLen <= Len(got') /\ Len(got') < HeaderLen + want'
    BY <1>3, <1>5, <1>6, <1>7, Numbers
  <2>3. InOrder(p)'
    BY <1>1, <1>2, <1>3, <1>4, <1>5, <2>1, <2>2, FrameGoesOn
  <2> QED
    BY <1>5, <2>1, <2>3
<1>8. CASE ~ (v + k < z)
  <2>1. v + k = z
    BY <1>4, <1>8
  <2>2. phase' = "idle" /\ delivered' = Append(delivered, FrameOf(got'))
    BY <1>3, <1>6, <1>8 DEF ReadPayload
  <2>3. FrameOf(got') = d + 1
    <3>1. DOMAIN got' = 1 .. Len(got')
      BY <1>6
    <3>2. 1 \in 1 .. Len(got')
      BY <1>4, <1>6
    <3>3. got'[1] = [frame |-> d + 1, at |-> 1]
      BY <1>6, <3>2
    <3>4. got'[1].frame = d + 1
      BY <3>3
    <3>5. Begins(got')
      BY <1>6, <3>1, <3>4 DEF Begins
    <3>6. Len(got') = HeaderLen + len[d + 1]
      BY <1>2, <1>3, <1>6, <2>1
    <3> QED
      BY <3>4, <3>5, <3>6 DEF FrameOf
  <2>4. /\ Laid(p)' /\ Senders' /\ Begun' = n /\ len' = len /\ sent' = sent
        /\ Ahead(p)' = Ahead(p)
    BY <1>1, <1>5, SendersStay
  <2>5. d < Len(sent)
    BY <1>2, <1>3, <1>6, <2>1
  <2>6. /\ delivered \in Seq(Nat) /\ \A i \in 1 .. d : delivered[i] = i
    BY <1>1 DEF InOrder, Receiver
  <2>7. /\ delivered' \in Seq(Nat) /\ Len(delivered') = d + 1
        /\ \A i \in 1 .. d + 1 : delivered'[i] = i
    <3>1. /\ delivered' \in Seq(Nat) /\ Len(delivered') = d + 1
          /\ \A i \in 1 .. d : delivered'[i] = delivered[i]
          /\ delivered'[d + 1] = d + 1
      <4>1. delivered \in Seq(Nat) /\ d + 1 \in Nat /\ d = Len(delivered)
        BY <1>1, <2>6
      <4> QED
        BY <2>2, <2>3, <4>1, Appends
    <3>2. \A i \in 1 .. d + 1 : i = d + 1 \/ i \in 1 .. d
      OBVIOUS
    <3> QED
      BY <2>6, <3>1, <3>2
  <2>8. Receiver'
    <3>1. Len(sent) \in Nat
      BY DEF InOrder, Senders
    <3>2. d + 1 <= Len(sent)
      BY <2>5, <3>1
    <3> QED
      BY <2>2, <2>4, <2>7, <3>2 DEF Receiver
  <2>9. Reached(p)' = p[d + 1] + Len(got')
    <3>1. d + 1 \in 1 .. n
      BY <1>1
    <3>2. p[(d + 1) + 1] = p[d + 1] + z
      BY <1>1, <1>2, <1>3, <3>1 DEF InOrder, Laid
    <3>3. p[(d + 1) + 1] \in Nat
      BY DEF InOrder, Laid
    <3>4. p[(d + 1) + 1] + 0 = p[(d + 1) + 1]
      BY <3>3
    <3>5. Reached(p)' = p[(d + 1) + 1] + 0
      BY <2>2, <2>7 DEF Reached, Got
    <3> QED
      BY <1>6, <2>1, <3>2, <3>4, <3>5
  <2>10. Between(p)'
    <3>1. \A i \in 1 .. Len(pipe') : Size(pipe'[i].frame) = HeaderLen + len'[pipe'[i].frame]
      BY <2>4 DEF Size
    <3> QED
      BY <1>6, <2>4, <2>9, <3>1 DEF Between, Size
  <2>11. Channel!Deliver
    <3>1. d + 1 \in 1 .. Len(sent)
      <4>1. Len(sent) \in Nat
        BY DEF InOrder, Senders
      <4> QED
        BY <2>5, <4>1
    <3>2. sent[d + 1] = d + 1
      BY <3>1 DEF InOrder, Senders
    <3> QED
      BY <1>1, <1>5, <2>2, <2>3, <2>5, <3>2 DEF Channel!Deliver
  <2>12. Channel!Next
    BY <1>5, <2>11 DEF Channel!Next
  <2> QED
    BY <2>4, <2>8, <2>10, <2>12 DEF InOrder
<1> QED
  BY <1>7, <1>8

-----------------------------------------------------------------------------
(* Every step keeps the order, or someone is told, and is one of the       *)
(* channel's.                                                              *)
LEMMA StepImplements ==
  ASSUME Orderly, Inv, [Next]_vars
  PROVE  Inv' /\ [Channel!Next]_<<sent, delivered, reported>>
<1>1. CASE reported'
  BY <1>1 DEF Inv, Channel!Next
<1>2. CASE ~ reported'
  <2>1. ~ reported
    BY <1>2 DEF Next, Read, SendTLV, Write, WriteFails, ReceiveTLV, ReadHeader, ReadPayload, ReadFails, vars
  <2>2. PICK p : InOrder(p)
    BY <2>1 DEF Inv
  <2> SUFFICES (\E q : InOrder(q)') /\ [Channel!Next]_<<sent, delivered, reported>>
    BY DEF Inv
  <2>3. ASSUME NEW s \in Sender, NEW l \in Lens, SendTLV(s, l)
        PROVE  (\E q : InOrder(q)') /\ [Channel!Next]_<<sent, delivered, reported>>
    <3>1. UNCHANGED <<sent, delivered, reported>>
      BY <2>3 DEF SendTLV, receiver
    <3>2. \E q : InOrder(q)'
      BY <2>2, <2>3, FrameBegins
    <3> QED
      BY <3>1, <3>2
  <2>4. ASSUME NEW s \in Sender, Write(s)
        PROVE  (\E q : InOrder(q)') /\ [Channel!Next]_<<sent, delivered, reported>>
    BY <2>1, <2>2, <2>4, FrameWritten
  <2>5. ASSUME NEW s \in Sender, WriteFails(s)
        PROVE  FALSE
    <3>1. Shortest > 0 /\ sending[s] # 0 /\ len[sending[s]] = 0
      BY <1>2, <2>5 DEF WriteFails, Orderly
    <3>2. sending[s] = Begun /\ Begun \in Nat
      BY <2>2, <3>1 DEF InOrder, Senders, Begun
    <3>3. Begun \in 1 .. Begun
      BY <3>1, <3>2
    <3>4. len[Begun] >= Shortest
      BY <2>2, <3>3 DEF InOrder, Senders
    <3> QED
      BY <3>1, <3>2, <3>4, Numbers
  <2>6. CASE ReceiveTLV
    <3>1. UNCHANGED sender /\ pipe' = pipe /\ delivered' = delivered /\ reported' = reported
          /\ sent' = sent
      BY <2>6 DEF ReceiveTLV, sender
    <3>2. /\ Laid(p)' /\ Senders' /\ Begun' = Begun /\ len' = len /\ sent' = sent
          /\ Ahead(p)' = Ahead(p)
      BY <2>2, <3>1, SendersStay
    <3>3. phase = "idle" /\ phase' = "header" /\ want' = 0 /\ got' = <<>>
      BY <2>6 DEF ReceiveTLV
    <3>4. Receiver'
      <4>1. got' \in Seq(Piece) /\ Len(got') = 0 /\ 0 < HeaderLen
        BY <3>3, Numbers
      <4>2. \A i \in 1 .. Len(got') : got'[i] = [frame |-> Len(delivered) + 1, at |-> i]
        BY <4>1
      <4>3. /\ delivered \in Seq(Nat) /\ Len(delivered) <= Len(sent)
            /\ \A i \in 1 .. Len(delivered) : delivered[i] = i
        BY <2>2 DEF InOrder, Receiver
      <4> QED
        BY <3>1, <3>3, <4>1, <4>2, <4>3 DEF Receiver
    <3>5. Reached(p)' = Reached(p)
      <4>1. Len(got') = 0
        BY <3>3
      <4> QED
        BY <3>1, <3>3, <4>1 DEF Reached, Got
    <3>6. Between(p)'
      <4>1. \A i \in 1 .. Len(pipe) : Size(pipe[i].frame) = HeaderLen + len'[pipe[i].frame]
        BY <3>2 DEF Size
      <4> QED
        BY <2>2, <3>1, <3>2, <3>5, <4>1 DEF InOrder, Between, Size
    <3> QED
      BY <3>1, <3>2, <3>4, <3>6 DEF InOrder
  <2>7. CASE ReadHeader
    BY <1>2, <2>1, <2>2, <2>7, HeaderRead
  <2>8. CASE ReadPayload
    BY <2>1, <2>2, <2>8, PayloadRead
  <2>9. CASE ReadFails
    BY <1>2, <2>9 DEF ReadFails
  <2>10. CASE UNCHANGED vars
    <3>1. /\ UNCHANGED <<len, sending, wrote, sent>> /\ UNCHANGED <<phase, want, got, delivered>>
          /\ UNCHANGED <<pipe, reported>>
      BY <2>10 DEF vars, sender, receiver
    <3>2. InOrder(p)'
      <4>1. UNCHANGED sender
        BY <3>1 DEF sender
      <4>2. /\ Laid(p)' /\ Senders' /\ Begun' = Begun /\ len' = len /\ sent' = sent
            /\ Ahead(p)' = Ahead(p)
        BY <2>2, <4>1, SendersStay
      <4>3. Receiver'
        BY <2>2, <3>1, <4>2 DEF InOrder, Receiver
      <4>4. Reached(p)' = Reached(p)
        BY <3>1 DEF Reached, Got
      <4>5. Between(p)'
        BY <2>2, <3>1, <4>2, <4>4 DEF InOrder, Between, Size
      <4> QED
        BY <4>2, <4>3, <4>5 DEF InOrder
    <3> QED
      BY <3>1, <3>2
  <2> QED
    BY <2>3, <2>4, <2>5, <2>6, <2>7, <2>8, <2>9, <2>10 DEF Next, Read
<1> QED
  BY <1>1, <1>2

(* However short the reads and the writes are, frames arrive whole, in     *)
(* order and once, until SendTLV or ReceiveTLV returns a failure           *)
(* (WriteBuf, ReadBuf, SendTLV, ReceiveTLV).                               *)
THEOREM FramesArrive ==
  ASSUME Orderly
  PROVE  Spec => ImplementsChannel
<1>1. Init => Inv /\ Channel!Init
  BY InvInit DEF Init, Channel!Init
<1>2. Inv /\ [Next]_vars => Inv' /\ [Channel!Next]_<<sent, delivered, reported>>
  BY StepImplements
<1> QED
  BY <1>1, <1>2, PTL DEF Spec, ImplementsChannel, Channel!Spec
=============================================================================
