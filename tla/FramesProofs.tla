---------------------------- MODULE FramesProofs ----------------------------
(***************************************************************************)
(* Theorems about Frames, for messages of all the sizes that send accepts, *)
(* in any number, any size of the buffer and any of the loops that call    *)
(* Receive: what Receive returns is a first-in first-out queue of whole    *)
(* messages.  A message of which Receive misreads the size stays in its    *)
(* buffer, and nothing comes past it; that what was sent arrives, unless   *)
(* that happens, is left to the model checker.                             *)
(*                                                                         *)
(* The bytes in the buffer, in the kernel, under way and not yet written   *)
(* are one stretch of the stream, Flow, which begins with a message and in *)
(* which every byte follows the one before.  Reading moves bytes from one  *)
(* part of it to another; what Scan cuts off at its front are whole        *)
(* messages, numbered as they were sent.                                   *)
(***************************************************************************)
EXTENDS Frames, SeqFacts

-----------------------------------------------------------------------------
(* The invariant.                                                          *)

\* b is the byte that follows a, in the same message or the next.
Follows(a, b) ==
    \/ a.at < a.of /\ b.msg = a.msg /\ b.at = a.at + 1 /\ b.of = a.of
    \/ a.at = a.of /\ b.msg = a.msg + 1 /\ b.at = 0

\* s is a stretch of the stream from the beginning of message m.
Runs(s, m) ==
    /\ s # <<>> => s[1].msg = m /\ s[1].at = 0
    /\ \A i \in 1 .. Len(s) : s[i].at <= s[i].of
    /\ \A i \in 1 .. Len(s) - 1 : Follows(s[i], s[i + 1])

\* s ends where message l begins; without a byte it begins there.
Ends(s, m, l) ==
    IF s = <<>> THEN l = m
    ELSE s[Len(s)].msg + 1 = l /\ s[Len(s)].at = s[Len(s)].of

\* After n messages comes what flows: bytes of messages up to number top, to
\* the end of that if it is whole.
Stream(n, flow, top, whole) ==
    /\ n <= top
    /\ Runs(flow, n + 1)
    /\ \A i \in 1 .. Len(flow) : flow[i].msg <= top
    /\ whole => Ends(flow, n + 1, top + 1)

\* The messages that Receive has found are numbered as they were sent.
Handed ==
    /\ \A i \in 1 .. Len(delivered) : delivered[i] = i
    /\ \A i \in 1 .. Len(inbound) : inbound[i] = Len(delivered) + i

\* What send has still to write; with a reset it never will.
Left == IF ended = "reset" THEN <<>> ELSE out.left

\* The bytes on their way from send to Receive.
Flow == buf \o (arrived \o (flight \o Left))

\* b is not yet, or by its size as Receive reads it never will be, a message.
Short(b) == Legible(b[1].of) => Len(b) <= b[1].of

\* The thread keeps bytes only of a message of which it waits for more.
Cut == /\ pc \in {"wait", "receive"} => buf = <<>>
       /\ pc = "read" => buf # <<>> /\ Short(buf)

Inv ==
    /\ TypeOK
    /\ Handed
    /\ Stream(Len(delivered) + Len(inbound), Flow, out.msg, ended # "reset")
    /\ Cut

-----------------------------------------------------------------------------
(* Stretches of the stream.                                                *)

\* What is in a byte.
LEMMA ByteFields ==
    /\ \A b \in Byte : /\ b.msg \in 1 .. MaxMsgs /\ b.msg \in Nat /\ b.at \in Nat
                       /\ b.of \in Sizes /\ b.of \in Nat /\ b.of >= 1
                       /\ b.of < BufSize
    /\ \A m \in 1 .. MaxMsgs, s \in Sizes, i \in 0 .. BufSize :
          [msg |-> m, at |-> i, of |-> s] \in Byte
    /\ MaxMsgs \in Nat /\ BufSize \in Nat
<1>1. /\ MaxMsgs \in Nat /\ BufSize \in Nat
      /\ \A s \in Sizes : s \in Nat /\ s >= 1 /\ s < BufSize
  BY FramesAssumption
<1>2. ASSUME NEW b \in Byte
      PROVE  b.msg \in 1 .. MaxMsgs /\ b.at \in 0 .. BufSize /\ b.of \in Sizes
  BY DEF Byte
<1>3. ASSUME NEW b \in Byte PROVE b.msg \in Nat /\ b.at \in Nat
  BY <1>1, <1>2
<1>4. \A m \in 1 .. MaxMsgs, s \in Sizes, i \in 0 .. BufSize :
         [msg |-> m, at |-> i, of |-> s] \in Byte
  BY DEF Byte
<1> QED BY <1>1, <1>2, <1>3, <1>4

\* The front of a stretch is one.
LEMMA RunsFront ==
    ASSUME NEW r, NEW s, NEW t, Joined(r, s, t, Byte), NEW m, Runs(r, m)
    PROVE  Runs(s, m)
<1>1. /\ Len(s) \in Nat /\ Len(t) \in Nat /\ Len(r) = Len(s) + Len(t)
      /\ \A i \in 1 .. Len(s) : i \in 1 .. Len(r) /\ r[i] = s[i]
  BY PlacesConcat
<1>2. /\ r # <<>> => r[1].msg = m /\ r[1].at = 0
      /\ \A i \in 1 .. Len(r) : r[i].at <= r[i].of
      /\ \A i \in 1 .. Len(r) - 1 : Follows(r[i], r[i + 1])
  BY Zenon DEF Runs
<1>3. ASSUME s # <<>> PROVE s[1].msg = m /\ s[1].at = 0
  <2>1. s \in Seq(Byte)
    BY DEF Joined
  <2>2. 1 \in 1 .. Len(s)
    BY <1>3, <2>1
  <2>3. r # <<>> /\ r[1] = s[1]
    BY <1>1, <2>2
  <2> QED BY <1>2, <2>3
<1>4. \A i \in 1 .. Len(s) : s[i].at <= s[i].of
  BY <1>1, <1>2
<1>5. ASSUME NEW i \in 1 .. Len(s) - 1 PROVE Follows(s[i], s[i + 1])
  <2>1. i \in 1 .. Len(s) /\ i + 1 \in 1 .. Len(s) /\ i \in 1 .. Len(r) - 1
    BY <1>1
  <2>2. r[i] = s[i] /\ r[i + 1] = s[i + 1]
    BY <1>1, <2>1
  <2> QED BY <1>2, <2>1, <2>2
<1> QED BY <1>3, <1>4, <1>5, Zenon DEF Runs

\* What comes behind whole messages is a stretch.
LEMMA RunsBehind ==
    ASSUME NEW r, NEW s, NEW t, Joined(r, s, t, Byte), NEW m, NEW l,
           Runs(r, m), Ends(s, m, l)
    PROVE  Runs(t, l)
<1>1. /\ Len(s) \in Nat /\ Len(t) \in Nat /\ Len(r) = Len(s) + Len(t)
      /\ \A i \in 1 .. Len(s) : i \in 1 .. Len(r) /\ r[i] = s[i]
      /\ \A i \in 1 .. Len(t) : Len(s) + i \in 1 .. Len(r) /\ r[Len(s) + i] = t[i]
  BY PlacesConcat
<1>2. /\ r # <<>> => r[1].msg = m /\ r[1].at = 0
      /\ \A i \in 1 .. Len(r) : r[i].at <= r[i].of
      /\ \A i \in 1 .. Len(r) - 1 : Follows(r[i], r[i + 1])
  BY Zenon DEF Runs
<1>3. s \in Seq(Byte) /\ t \in Seq(Byte)
  BY DEF Joined
<1>4. ASSUME t # <<>> PROVE t[1].msg = l /\ t[1].at = 0
  <2>1. 1 \in 1 .. Len(t) /\ r[Len(s) + 1] = t[1] /\ Len(s) + 1 \in 1 .. Len(r)
    BY <1>1, <1>3, <1>4
  <2>2. CASE s = <<>>
    <3>1. Len(s) = 0 /\ l = m
      BY <2>2, Zenon DEF Ends
    <3>2. r # <<>> /\ r[1] = t[1]
      BY <2>1, <3>1
    <3> QED BY <1>2, <3>1, <3>2
  <2>3. CASE s # <<>>
    <3>1. s[Len(s)].msg + 1 = l /\ s[Len(s)].at = s[Len(s)].of
      BY <2>3, Zenon DEF Ends
    <3>2. Len(s) \in 1 .. Len(s) /\ Len(s) \in 1 .. Len(r) - 1
      BY <1>1, <1>3, <2>1, <2>3
    <3>3. r[Len(s)] = s[Len(s)]
      BY <1>1, <3>2
    <3>4. Follows(s[Len(s)], t[1])
      BY <1>2, <2>1, <3>2, <3>3
    <3>5. s[Len(s)].at \in Nat
      BY <1>3, <3>2, ByteFields
    <3> QED BY <3>1, <3>4, <3>5 DEF Follows
  <2> QED BY <2>2, <2>3
<1>5. \A i \in 1 .. Len(t) : t[i].at <= t[i].of
  BY <1>1, <1>2
<1>6. ASSUME NEW i \in 1 .. Len(t) - 1 PROVE Follows(t[i], t[i + 1])
  <2>1. i \in 1 .. Len(t) /\ i + 1 \in 1 .. Len(t) /\ Len(s) + i \in 1 .. Len(r) - 1
    BY <1>1
  <2>2. r[Len(s) + i] = t[i] /\ r[Len(s) + (i + 1)] = t[i + 1]
    BY <1>1, <2>1
  <2>3. Len(s) + (i + 1) = (Len(s) + i) + 1
    BY <1>1
  <2>4. Follows(r[Len(s) + i], r[(Len(s) + i) + 1])
    BY <1>2, <2>1
  <2> QED BY <2>2, <2>3, <2>4
<1> QED BY <1>4, <1>5, <1>6, Zenon DEF Runs

\* Whole messages and what comes behind them are a stretch.
LEMMA RunsOn ==
    ASSUME NEW r, NEW s, NEW t, Joined(r, s, t, Byte), NEW m, NEW l,
           Runs(s, m), Ends(s, m, l), Runs(t, l)
    PROVE  Runs(r, m)
<1>1. /\ Len(s) \in Nat /\ Len(t) \in Nat /\ Len(r) = Len(s) + Len(t)
      /\ \A i \in 1 .. Len(s) : i \in 1 .. Len(r) /\ r[i] = s[i]
      /\ \A i \in 1 .. Len(t) : Len(s) + i \in 1 .. Len(r) /\ r[Len(s) + i] = t[i]
  BY PlacesConcat
<1>2. /\ s # <<>> => s[1].msg = m /\ s[1].at = 0
      /\ \A i \in 1 .. Len(s) : s[i].at <= s[i].of
      /\ \A i \in 1 .. Len(s) - 1 : Follows(s[i], s[i + 1])
  BY Zenon DEF Runs
<1>3. /\ t # <<>> => t[1].msg = l /\ t[1].at = 0
      /\ \A i \in 1 .. Len(t) : t[i].at <= t[i].of
      /\ \A i \in 1 .. Len(t) - 1 : Follows(t[i], t[i + 1])
  BY Zenon DEF Runs
<1>4. s \in Seq(Byte) /\ t \in Seq(Byte) /\ r \in Seq(Byte)
  BY DEF Joined
<1>5. \A j \in 1 .. Len(r) : \/ \E i \in 1 .. Len(s) : r[j] = s[i]
                             \/ \E i \in 1 .. Len(t) : r[j] = t[i]
  BY EachOf
<1>6. \A i \in 1 .. Len(r) : r[i].at <= r[i].of
  BY <1>2, <1>3, <1>5, Zenon
<1>7. ASSUME r # <<>> PROVE r[1].msg = m /\ r[1].at = 0
  <2>1. CASE s # <<>>
    <3>1. 1 \in 1 .. Len(s)
      BY <1>4, <2>1
    <3> QED BY <1>1, <1>2, <2>1, <3>1
  <2>2. CASE s = <<>>
    <3>1. Len(s) = 0 /\ l = m
      BY <2>2, Zenon DEF Ends
    <3>2. 1 \in 1 .. Len(t)
      BY <1>1, <1>4, <1>7, <3>1
    <3>3. r[1] = t[1] /\ t # <<>>
      BY <1>1, <3>1, <3>2
    <3> QED BY <1>3, <3>1, <3>3
  <2> QED BY <2>1, <2>2
<1>8. ASSUME NEW j \in 1 .. Len(r) - 1 PROVE Follows(r[j], r[j + 1])
  <2>1. CASE j < Len(s)
    <3>1. j \in 1 .. Len(s) - 1 /\ j \in 1 .. Len(s) /\ j + 1 \in 1 .. Len(s)
      BY <1>1, <2>1
    <3>2. r[j] = s[j] /\ r[j + 1] = s[j + 1]
      BY <1>1, <3>1
    <3> QED BY <1>2, <3>1, <3>2
  <2>2. CASE j = Len(s)
    <3>1. j \in 1 .. Len(s) /\ 1 \in 1 .. Len(t)
      BY <1>1, <2>2
    <3>2. r[j] = s[Len(s)] /\ r[j + 1] = t[1] /\ s # <<>> /\ t # <<>>
      BY <1>1, <2>2, <3>1
    <3>3. s[Len(s)].msg + 1 = l /\ s[Len(s)].at = s[Len(s)].of
      BY <3>2, Zenon DEF Ends
    <3> QED BY <1>3, <3>2, <3>3 DEF Follows
  <2>3. CASE j > Len(s)
    <3> DEFINE i == j - Len(s)
    <3>1. i \in 1 .. Len(t) - 1 /\ i \in 1 .. Len(t) /\ i + 1 \in 1 .. Len(t)
          /\ j = Len(s) + i /\ j + 1 = Len(s) + (i + 1)
      BY <1>1, <2>3
    <3> HIDE DEF i
    <3>2. r[j] = t[i] /\ r[j + 1] = t[i + 1]
      BY <1>1, <3>1
    <3>3. Follows(t[i], t[i + 1])
      BY <1>3, <3>1
    <3> QED BY <3>2, <3>3
  <2>4. j \in Nat
    BY <1>1
  <2> QED BY <1>1, <2>1, <2>2, <2>3, <2>4
<1> QED BY <1>6, <1>7, <1>8, Zenon DEF Runs

\* Where whole messages end that come behind others.
LEMMA EndsOn ==
    ASSUME NEW r, NEW s, NEW t, Joined(r, s, t, Byte), NEW m, NEW l, NEW k,
           Ends(s, m, l)
    PROVE  Ends(r, m, k) <=> Ends(t, l, k)
<1>1. /\ Len(s) \in Nat /\ Len(t) \in Nat /\ Len(r) = Len(s) + Len(t)
      /\ \A i \in 1 .. Len(s) : i \in 1 .. Len(r) /\ r[i] = s[i]
      /\ \A i \in 1 .. Len(t) : Len(s) + i \in 1 .. Len(r) /\ r[Len(s) + i] = t[i]
  BY PlacesConcat
<1>2. s \in Seq(Byte) /\ t \in Seq(Byte) /\ r = s \o t
  BY DEF Joined
<1>3. CASE t = <<>>
  <2>1. r = s
    BY <1>2, <1>3
  <2>2. Ends(t, l, k) <=> k = l
    BY <1>3, Zenon DEF Ends
  <2>3. CASE s = <<>>
    BY <2>1, <2>2, <2>3, Zenon DEF Ends
  <2>4. CASE s # <<>>
    <3>1. s[Len(s)].msg + 1 = l /\ s[Len(s)].at = s[Len(s)].of
      BY <2>4, Zenon DEF Ends
    <3>2. Ends(r, m, k) <=> s[Len(s)].msg + 1 = k /\ s[Len(s)].at = s[Len(s)].of
      BY <2>1, <2>4, Zenon DEF Ends
    <3> QED BY <2>2, <3>1, <3>2
  <2> QED BY <2>3, <2>4
<1>4. CASE t # <<>>
  <2>1. Len(t) \in 1 .. Len(t)
    BY <1>2, <1>4
  <2>2. r[Len(r)] = t[Len(t)] /\ r # <<>>
    BY <1>1, <2>1
  <2> QED BY <1>4, <2>2, Zenon DEF Ends
<1> QED BY <1>3, <1>4

-----------------------------------------------------------------------------
(* What flows.                                                             *)

\* A message is sent.
LEMMA StreamMore ==
    ASSUME NEW r, NEW s, NEW t, Joined(r, s, t, Byte), NEW n \in Nat, NEW top \in Nat,
           Stream(n, s, top, TRUE), Runs(t, top + 1), Ends(t, top + 1, top + 1 + 1),
           \A i \in 1 .. Len(t) : t[i].msg = top + 1
    PROVE  Stream(n, r, top + 1, TRUE)
<1>1. /\ n <= top
      /\ Runs(s, n + 1)
      /\ \A i \in 1 .. Len(s) : s[i].msg <= top
      /\ Ends(s, n + 1, top + 1)
  BY Zenon DEF Stream
<1>2. Runs(r, n + 1)
  BY <1>1, RunsOn
<1>3. Ends(r, n + 1, top + 1 + 1)
  BY <1>1, EndsOn
<1>4. \A j \in 1 .. Len(r) : \/ \E i \in 1 .. Len(s) : r[j] = s[i]
                             \/ \E i \in 1 .. Len(t) : r[j] = t[i]
  BY EachOf
<1>5. ASSUME NEW j \in 1 .. Len(r) PROVE r[j].msg <= top + 1
  <2>1. CASE \E i \in 1 .. Len(s) : r[j] = s[i]
    <3>1. PICK i \in 1 .. Len(s) : r[j] = s[i]
      BY <2>1
    <3>2. s \in Seq(Byte)
      BY DEF Joined
    <3>3. s[i].msg \in Nat /\ s[i].msg <= top
      BY <1>1, <3>2, ByteFields
    <3> QED BY <3>1, <3>3
  <2>2. CASE \E i \in 1 .. Len(t) : r[j] = t[i]
    BY <2>2
  <2> QED BY <1>4, <2>1, <2>2
<1>6. n <= top + 1
  BY <1>1
<1> QED BY <1>2, <1>3, <1>5, <1>6, Zenon DEF Stream

\* The bytes behind are lost, and nothing will be sent any more.
LEMMA StreamLost ==
    ASSUME NEW r, NEW s, NEW t, Joined(r, s, t, Byte), NEW n, NEW top, NEW w,
           Stream(n, r, top, w)
    PROVE  Stream(n, s, top, FALSE)
<1>1. n <= top /\ Runs(r, n + 1) /\ \A i \in 1 .. Len(r) : r[i].msg <= top
  BY Zenon DEF Stream
<1>2. Runs(s, n + 1)
  BY <1>1, RunsFront
<1>3. \A i \in 1 .. Len(s) : i \in 1 .. Len(r) /\ r[i] = s[i]
  BY PlacesConcat
<1>4. \A i \in 1 .. Len(s) : s[i].msg <= top
  BY <1>1, <1>3
<1> QED BY <1>1, <1>2, <1>4, Zenon DEF Stream

\* Whole messages are taken from the front, j of them.
LEMMA StreamTaken ==
    ASSUME NEW r, NEW s, NEW t, Joined(r, s, t, Byte), NEW n \in Nat, NEW top \in Nat,
           NEW w, NEW j \in Nat, Ends(s, n + 1, (n + j) + 1), s = <<>> => j = 0,
           Stream(n, r, top, w)
    PROVE  Stream(n + j, t, top, w)
<1>1. /\ n <= top /\ Runs(r, n + 1) /\ \A i \in 1 .. Len(r) : r[i].msg <= top
      /\ w => Ends(r, n + 1, top + 1)
  BY Zenon DEF Stream
<1>2. Runs(t, (n + j) + 1)
  BY <1>1, RunsBehind
<1>3. w => Ends(t, (n + j) + 1, top + 1)
  BY <1>1, EndsOn
<1>4. /\ Len(s) \in Nat
      /\ \A i \in 1 .. Len(s) : i \in 1 .. Len(r) /\ r[i] = s[i]
      /\ \A i \in 1 .. Len(t) : Len(s) + i \in 1 .. Len(r) /\ r[Len(s) + i] = t[i]
  BY PlacesConcat
<1>5. \A i \in 1 .. Len(t) : t[i].msg <= top
  BY <1>1, <1>4
<1>6. n + j <= top
  <2>1. CASE s = <<>>
    BY <1>1, <2>1
  <2>2. CASE s # <<>>
    <3>1. s \in Seq(Byte)
      BY DEF Joined
    <3>2. Len(s) \in 1 .. Len(s)
      BY <2>2, <3>1
    <3>3. s[Len(s)].msg + 1 = (n + j) + 1 /\ s[Len(s)].msg <= top
      BY <1>1, <1>4, <2>2, <3>2 DEF Ends
    <3>4. s[Len(s)].msg \in Nat
      BY <3>1, <3>2, ByteFields
    <3> QED BY <3>3, <3>4
  <2> QED BY <2>1, <2>2
<1> QED BY <1>2, <1>3, <1>5, <1>6, Zenon DEF Stream

-----------------------------------------------------------------------------
(* One message.                                                            *)

\* A frame is a whole message.
LEMMA FrameFacts ==
    ASSUME NEW m \in 1 .. MaxMsgs, NEW s \in Sizes
    PROVE  /\ Frame(m, s) \in Seq(Byte) /\ Len(Frame(m, s)) = s + 1
           /\ Runs(Frame(m, s), m) /\ Ends(Frame(m, s), m, m + 1)
           /\ \A i \in 1 .. Len(Frame(m, s)) : Frame(m, s)[i].msg = m
<1> DEFINE f == Frame(m, s)
<1>1. s \in Nat /\ s >= 1 /\ s < BufSize /\ MaxMsgs \in Nat /\ BufSize \in Nat
  BY FramesAssumption
<1>2. \A i \in 1 .. s + 1 : [msg |-> m, at |-> i - 1, of |-> s] \in Byte
  <2>1. \A i \in 1 .. s + 1 : i - 1 \in 0 .. BufSize
    BY <1>1
  <2> QED BY <2>1, ByteFields
<1>3. f \in Seq(Byte) /\ Len(f) = s + 1
  BY <1>1, <1>2 DEF Frame
<1>4. \A i \in 1 .. s + 1 : f[i].msg = m /\ f[i].at = i - 1 /\ f[i].of = s
  BY <1>1 DEF Frame
<1> HIDE DEF f
<1>5. f # <<>>
  BY <1>1, <1>3
<1>6. 1 \in 1 .. s + 1 /\ s + 1 \in 1 .. s + 1
  BY <1>1
<1>7. f[1].msg = m /\ f[1].at = 0
  BY <1>4, <1>6
<1>8. f[s + 1].msg = m /\ f[s + 1].at = s /\ f[s + 1].of = s
  BY <1>1, <1>4, <1>6
<1>9. ASSUME NEW i \in 1 .. Len(f) PROVE f[i].at <= f[i].of
  <2>1. i \in 1 .. s + 1 /\ i - 1 <= s
    BY <1>1, <1>3
  <2> QED BY <1>4, <2>1
<1>10. ASSUME NEW i \in 1 .. Len(f) - 1 PROVE Follows(f[i], f[i + 1])
  <2>1. /\ i \in 1 .. s + 1 /\ i + 1 \in 1 .. s + 1
        /\ i - 1 < s /\ (i + 1) - 1 = (i - 1) + 1
    BY <1>1, <1>3
  <2>2. /\ f[i].msg = m /\ f[i].at = i - 1 /\ f[i].of = s
        /\ f[i + 1].msg = m /\ f[i + 1].at = (i - 1) + 1 /\ f[i + 1].of = s
    BY <1>4, <2>1
  <2> QED BY <2>1, <2>2 DEF Follows
<1>11. Runs(f, m)
  BY <1>7, <1>9, <1>10, Zenon DEF Runs
<1>12. Ends(f, m, m + 1)
  BY <1>3, <1>5, <1>8 DEF Ends
<1> QED BY <1>3, <1>4, <1>11, <1>12 DEF f

\* As long as the first message lasts, its bytes come one after the other.
LEMMA FirstBytes ==
    ASSUME NEW b \in Seq(Byte), b # <<>>, NEW m, Runs(b, m)
    PROVE  \A i \in Nat : i <= b[1].of /\ i + 1 <= Len(b) =>
              b[i + 1].msg = m /\ b[i + 1].at = i /\ b[i + 1].of = b[1].of
<1> DEFINE s == b[1].of
           G == {i \in Nat : i <= s /\ i + 1 <= Len(b) =>
                    b[i + 1].msg = m /\ b[i + 1].at = i /\ b[i + 1].of = s}
<1>1. /\ b[1].msg = m /\ b[1].at = 0
      /\ \A i \in 1 .. Len(b) - 1 : Follows(b[i], b[i + 1])
  BY Zenon DEF Runs
<1>2. Len(b) \in Nat /\ 1 \in 1 .. Len(b)
  OBVIOUS
<1>3. s \in Nat
  BY <1>2, ByteFields
<1> HIDE DEF s
<1>4. 0 \in G
  BY <1>1 DEF s
<1>5. ASSUME NEW i \in Nat, i \in G PROVE i + 1 \in G
  <2> SUFFICES ASSUME i + 1 <= s, (i + 1) + 1 <= Len(b)
               PROVE  /\ b[(i + 1) + 1].msg = m /\ b[(i + 1) + 1].at = i + 1
                      /\ b[(i + 1) + 1].of = s
    OBVIOUS
  <2>1. i <= s /\ i + 1 <= Len(b) /\ i + 1 \in 1 .. Len(b) - 1 /\ i # s
    BY <1>2, <1>3
  <2>2. b[i + 1].msg = m /\ b[i + 1].at = i /\ b[i + 1].of = s
    BY <1>5, <2>1
  <2>3. Follows(b[i + 1], b[(i + 1) + 1])
    BY <1>1, <2>1
  <2> QED BY <2>1, <2>2, <2>3, Zenon DEF Follows
<1> HIDE DEF G
<1>6. \A i \in Nat : i \in G
  BY <1>4, <1>5, Induction
<1> QED BY <1>6 DEF G, s

\* What has come of a message is a frame as soon as it is long enough.
LEMMA FirstFrame ==
    ASSUME NEW b \in Seq(Byte), b # <<>>, NEW m, Runs(b, m), Len(b) >= b[1].of + 1
    PROVE  /\ SubSeq(b, 1, b[1].of + 1) = Frame(m, b[1].of)
           /\ Decoded(b) = m /\ m \in 1 .. MaxMsgs /\ b[1].of \in Sizes
<1> DEFINE s == b[1].of
           f == SubSeq(b, 1, s + 1)
<1>1. b[1].msg = m
  BY Zenon DEF Runs
<1>2. Len(b) \in Nat /\ b[1] \in Byte
  OBVIOUS
<1>3. s \in Nat /\ s \in Sizes /\ m \in 1 .. MaxMsgs
  BY <1>1, <1>2, ByteFields
<1>4. \A i \in Nat : i <= s /\ i + 1 <= Len(b) =>
         b[i + 1].msg = m /\ b[i + 1].at = i /\ b[i + 1].of = s
  BY FirstBytes
<1>5. Len(b) >= s + 1
  OBVIOUS
<1> HIDE DEF s
<1>6. f \in Seq(Byte) /\ Len(f) = s + 1 /\ \A i \in 1 .. s + 1 : f[i] = b[i] /\ b[i] \in Byte
  BY <1>2, <1>3, <1>5
<1>7. /\ Frame(m, s) \in Seq(Byte) /\ Len(Frame(m, s)) = s + 1
      /\ \A i \in 1 .. s + 1 : Frame(m, s)[i] = [msg |-> m, at |-> i - 1, of |-> s]
  BY <1>3, FrameFacts DEF Frame
<1>8. ASSUME NEW i \in 1 .. s + 1 PROVE f[i] = Frame(m, s)[i]
  <2>1. i - 1 \in Nat /\ i - 1 <= s /\ (i - 1) + 1 = i /\ i <= Len(b)
    BY <1>3, <1>5
  <2>2. b[i].msg = m /\ b[i].at = i - 1 /\ b[i].of = s
    BY <1>4, <2>1
  <2>3. b[i] \in Byte
    BY <1>6
  <2>4. b[i] = [msg |-> m, at |-> i - 1, of |-> s]
    BY <2>2, <2>3 DEF Byte
  <2> QED BY <1>6, <1>7, <2>4
<1> HIDE DEF f
<1>9. f = Frame(m, s)
  BY <1>6, <1>7, <1>8, SeqEqual
<1>10. Decoded(b) = m
  BY <1>1, <1>9 DEF Decoded, f, s
<1> QED BY <1>3, <1>9, <1>10 DEF f, s

-----------------------------------------------------------------------------
(* Scan: the equation of its definition has a solution, so Scan is one.    *)

\* The bytes that follow the first message of b.
Behind(b) == SubSeq(b, b[1].of + 2, Len(b))

\* What Scan does with b, if f does the rest.
Scanned(f, b) ==
    IF b = <<>> \/ ~Legible(b[1].of) \/ Len(b) < b[1].of + 1
    THEN [msgs |-> <<>>, rest |-> b]
    ELSE [f[Behind(b)] EXCEPT !.msgs = <<Decoded(b)>> \o @]

\* f solves the equation for up to n bytes.
Solves(f, n) == \A b \in Seq(Byte) : Len(b) <= n => f[b] = Scanned(f, b)

\* Whatever follows the first message is shorter.
LEMMA BehindShorter ==
    ASSUME NEW b \in Seq(Byte), b # <<>>, Len(b) >= b[1].of + 1
    PROVE  /\ Behind(b) \in Seq(Byte)
           /\ Len(Behind(b)) = Len(b) - (b[1].of + 1) /\ Len(Behind(b)) < Len(b)
<1> DEFINE s == b[1].of
<1>1. Len(b) \in Nat /\ b[1] \in Byte
  OBVIOUS
<1>2. s \in Nat
  BY <1>1, ByteFields
<1>3. Len(b) >= s + 1
  OBVIOUS
<1>4. Behind(b) = SubSeq(b, s + 2, Len(b))
  BY DEF Behind
<1> HIDE DEF s
<1>5. /\ SubSeq(b, s + 2, Len(b)) \in Seq(Byte)
      /\ Len(SubSeq(b, s + 2, Len(b))) = Len(b) - (s + 1)
  <2>1. \A i \in s + 2 .. Len(b) : b[i] \in Byte
    BY <1>1, <1>2
  <2>2. s + 2 \in Int /\ Len(b) \in Int
    BY <1>1, <1>2
  <2>3. /\ SubSeq(b, s + 2, Len(b)) \in Seq(Byte)
        /\ Len(SubSeq(b, s + 2, Len(b)))
              = IF s + 2 <= Len(b) THEN Len(b) - (s + 2) + 1 ELSE 0
    BY <2>1, <2>2, SubSeqProperties
  <2> QED BY <1>1, <1>2, <1>3, <2>3
<1> QED BY <1>1, <1>2, <1>4, <1>5 DEF s

\* Scanned looks at f only for shorter sequences.
LEMMA ScannedSame ==
    ASSUME NEW f, NEW g, NEW b \in Seq(Byte),
           \A t \in Seq(Byte) : Len(t) < Len(b) => f[t] = g[t]
    PROVE  Scanned(f, b) = Scanned(g, b)
<1>1. CASE b = <<>> \/ ~Legible(b[1].of) \/ Len(b) < b[1].of + 1
  BY <1>1, Zenon DEF Scanned
<1>2. CASE ~(b = <<>> \/ ~Legible(b[1].of) \/ Len(b) < b[1].of + 1)
  <2>1. Len(b) \in Nat /\ b[1] \in Byte
    BY <1>2
  <2>2. b # <<>> /\ Len(b) >= b[1].of + 1
    BY <1>2, <2>1, ByteFields
  <2>3. Behind(b) \in Seq(Byte) /\ Len(Behind(b)) < Len(b)
    BY <2>2, BehindShorter
  <2>4. f[Behind(b)] = g[Behind(b)]
    BY <2>3, Zenon
  <2> QED BY <1>2, <2>4, Zenon DEF Scanned
<1> QED BY <1>1, <1>2

\* Two solutions agree.
LEMMA SolutionsAgree ==
    ASSUME NEW f, NEW g, NEW n \in Nat, Solves(f, n), NEW k \in Nat, Solves(g, k)
    PROVE  \A b \in Seq(Byte) : Len(b) <= n /\ Len(b) <= k => f[b] = g[b]
<1> DEFINE G == {i \in Nat : i <= n /\ i <= k => \A b \in Seq(Byte) : Len(b) <= i => f[b] = g[b]}
<1>1. ASSUME NEW i \in Nat, i <= n, i <= k,
             NEW b \in Seq(Byte), Len(b) <= i,
             \A t \in Seq(Byte) : Len(t) < Len(b) => f[t] = g[t]
      PROVE  f[b] = g[b]
  <2>1. Len(b) <= n /\ Len(b) <= k
    BY <1>1
  <2>2. f[b] = Scanned(f, b) /\ g[b] = Scanned(g, b)
    BY <2>1, Zenon DEF Solves
  <2>3. Scanned(f, b) = Scanned(g, b)
    BY <1>1, ScannedSame
  <2> QED BY <2>2, <2>3
<1>2. 0 \in G
  <2> SUFFICES ASSUME 0 <= n, 0 <= k, NEW b \in Seq(Byte), Len(b) <= 0
               PROVE  f[b] = g[b]
    OBVIOUS
  <2>1. \A t \in Seq(Byte) : Len(t) < Len(b) => f[t] = g[t]
    OBVIOUS
  <2> QED BY <1>1, <2>1
<1>3. ASSUME NEW i \in Nat, i \in G PROVE i + 1 \in G
  <2> SUFFICES ASSUME i + 1 <= n, i + 1 <= k, NEW b \in Seq(Byte), Len(b) <= i + 1
               PROVE  f[b] = g[b]
    OBVIOUS
  <2>1. \A t \in Seq(Byte) : Len(t) <= i => f[t] = g[t]
    BY <1>3
  <2>2. \A t \in Seq(Byte) : Len(t) < Len(b) => f[t] = g[t]
    BY <2>1
  <2> QED BY <1>1, <2>2
<1> HIDE DEF G
<1>4. \A i \in Nat : i \in G
  BY <1>2, <1>3, Induction
<1> SUFFICES ASSUME NEW b \in Seq(Byte), Len(b) <= n, Len(b) <= k
             PROVE  f[b] = g[b]
  OBVIOUS
<1>5. Len(b) \in Nat /\ Len(b) \in G
  BY <1>4
<1> QED BY <1>5 DEF G

\* There is a solution for any number of bytes.
LEMMA SolutionExists == \A n \in Nat : \E f : Solves(f, n)
<1> DEFINE G == {n \in Nat : \E f : Solves(f, n)}
           next(f) == [b \in Seq(Byte) |-> Scanned(f, b)]
<1>1. ASSUME NEW f, NEW n \in Nat,
             \A t \in Seq(Byte) : Len(t) < n => f[t] = Scanned(f, t)
      PROVE  Solves(next(f), n)
  <2> SUFFICES ASSUME NEW b \in Seq(Byte), Len(b) <= n
               PROVE  next(f)[b] = Scanned(next(f), b)
    BY Zenon DEF Solves
  <2>1. next(f)[b] = Scanned(f, b)
    OBVIOUS
  <2>2. ASSUME NEW t \in Seq(Byte), Len(t) < Len(b) PROVE f[t] = next(f)[t]
    <3>1. Len(t) < n
      BY <2>2
    <3>2. f[t] = Scanned(f, t)
      BY <1>1, <3>1
    <3> QED BY <3>2
  <2> HIDE DEF next
  <2>3. Scanned(f, b) = Scanned(next(f), b)
    BY <2>2, ScannedSame
  <2> QED BY <2>1, <2>3
<1> HIDE DEF next
<1>2. 0 \in G
  <2>1. ASSUME NEW f PROVE Solves(next(f), 0)
    <3>1. \A t \in Seq(Byte) : Len(t) < 0 => f[t] = Scanned(f, t)
      OBVIOUS
    <3> QED BY <1>1, <3>1
  <2> QED BY <2>1
<1>3. ASSUME NEW n \in Nat, n \in G PROVE n + 1 \in G
  <2>1. PICK f : Solves(f, n)
    BY <1>3
  <2>2. \A t \in Seq(Byte) : Len(t) <= n => f[t] = Scanned(f, t)
    BY <2>1, Zenon DEF Solves
  <2>3. \A t \in Seq(Byte) : Len(t) < n + 1 => f[t] = Scanned(f, t)
    BY <2>2
  <2>4. Solves(next(f), n + 1)
    BY <1>1, <2>3
  <2> QED BY <2>4
<1> HIDE DEF G
<1>4. \A n \in Nat : n \in G
  BY <1>2, <1>3, Induction
<1> QED BY <1>4 DEF G

\* Scan does what its definition says.
LEMMA ScanEquation == \A b \in Seq(Byte) : Scan[b] = Scanned(Scan, b)
<1> DEFINE F(n) == CHOOSE f : Solves(f, n)
           whole == [b \in Seq(Byte) |-> F(Len(b))[b]]
           T(f) == [b \in Seq(Byte) |->
                       IF b = <<>> \/ ~Legible(b[1].of) \/ Len(b) < b[1].of + 1
                       THEN [msgs |-> <<>>, rest |-> b]
                       ELSE [f[SubSeq(b, b[1].of + 2, Len(b))] EXCEPT !.msgs = <<Decoded(b)>> \o @]]
<1>1. ASSUME NEW n \in Nat PROVE Solves(F(n), n)
  BY SolutionExists, Zenon
<1> HIDE DEF F
<1>2. ASSUME NEW b \in Seq(Byte) PROVE whole[b] = Scanned(whole, b)
  <2>1. Len(b) \in Nat /\ Len(b) <= Len(b)
    OBVIOUS
  <2>2. F(Len(b))[b] = Scanned(F(Len(b)), b)
    BY <1>1, <2>1, Zenon DEF Solves
  <2>3. ASSUME NEW t \in Seq(Byte), Len(t) < Len(b)
        PROVE  F(Len(b))[t] = whole[t]
    <3>1. Len(t) \in Nat /\ Len(t) <= Len(b) /\ Len(t) <= Len(t)
      BY <2>1, <2>3
    <3>2. Solves(F(Len(b)), Len(b)) /\ Solves(F(Len(t)), Len(t))
      BY <1>1, <2>1, <3>1
    <3>3. F(Len(b))[t] = F(Len(t))[t]
      BY <2>1, <3>1, <3>2, SolutionsAgree
    <3> QED BY <3>3
  <2>4. whole[b] = F(Len(b))[b]
    OBVIOUS
  <2> HIDE DEF whole
  <2>5. Scanned(F(Len(b)), b) = Scanned(whole, b)
    BY <2>3, ScannedSame
  <2> QED BY <2>2, <2>4, <2>5
<1>3. whole = [b \in Seq(Byte) |-> Scanned(whole, b)]
  BY <1>2, Zenon
<1>4. \A f : T(f) = [b \in Seq(Byte) |-> Scanned(f, b)]
  BY Zenon DEF Scanned, Behind
<1> HIDE DEF whole
<1>5. whole = T(whole)
  BY <1>3, <1>4, Zenon
<1>6. Scan = CHOOSE f : f = T(f)
  BY DEF Scan
<1>7. Scan = T(Scan)
  BY <1>5, <1>6, Zenon
<1> HIDE DEF T
<1>8. Scan = [b \in Seq(Byte) |-> Scanned(Scan, b)]
  BY <1>4, <1>7, Zenon
<1> QED BY <1>8, Zenon

\* A sequence of bytes is cut in two.
LEMMA Split ==
    ASSUME NEW s \in Seq(Byte), NEW n \in Nat, n <= Len(s)
    PROVE  /\ Joined(s, SubSeq(s, 1, n), SubSeq(s, n + 1, Len(s)), Byte)
           /\ Len(SubSeq(s, 1, n)) = n
<1>1. Len(s) \in Nat
  OBVIOUS
<1>2. 1 \in 1 .. Len(s) + 1 /\ n \in 1 - 1 .. Len(s) /\ Len(s) \in n .. Len(s)
  BY <1>1
<1>3. SubSeq(s, 1, n) \o SubSeq(s, n + 1, Len(s)) = SubSeq(s, 1, Len(s))
  BY <1>2, ConcatAdjacentSubSeq
<1>4. SubSeq(s, 1, Len(s)) = s
  BY SubSeqFull
<1>5. SubSeq(s, 1, n) \in Seq(Byte) /\ Len(SubSeq(s, 1, n)) = n
  BY <1>1
<1>6. SubSeq(s, n + 1, Len(s)) \in Seq(Byte)
  BY <1>1
<1>7. s = SubSeq(s, 1, n) \o SubSeq(s, n + 1, Len(s))
  BY <1>3, <1>4, Zenon
<1> QED BY <1>5, <1>6, <1>7, Zenon DEF Joined

\* Where stretches of bytes are joined first does not matter.
LEMMA JoinedAgain ==
    ASSUME NEW r, NEW s, NEW t, Joined(r, s, t, Byte), NEW x \in Seq(Byte)
    PROVE  Joined(r \o x, s, t \o x, Byte) /\ Joined(x \o r, x \o s, t, Byte)
<1>1. s \in Seq(Byte) /\ t \in Seq(Byte) /\ r = s \o t
  BY Zenon DEF Joined
<1>2. \A a, b, c \in Seq(Byte) : (a \o b) \o c = a \o (b \o c)
  BY Associative
<1>3. \A a, b \in Seq(Byte) : a \o b \in Seq(Byte)
  OBVIOUS
<1>4. (s \o t) \o x = s \o (t \o x) /\ (x \o s) \o t = x \o (s \o t)
  BY <1>1, <1>2, Zenon
<1>5. r \o x = s \o (t \o x) /\ x \o r = (x \o s) \o t
  BY <1>1, <1>4, Zenon
<1>6. t \o x \in Seq(Byte) /\ x \o s \in Seq(Byte)
  BY <1>1, <1>3, Zenon
<1> QED BY <1>1, <1>5, <1>6, Zenon DEF Joined

\* r is what there is in a stretch b that begins after message n: the whole
\* messages at its front, and what is no message, or none yet.
Parses(b, n, r) ==
    /\ r \in [msgs : Seq(1 .. MaxMsgs), rest : Seq(Byte)]
    /\ \A i \in 1 .. Len(r.msgs) : r.msgs[i] = n + i
    /\ r.rest # <<>> => Short(r.rest)
    /\ \E s : /\ Joined(b, s, r.rest, Byte)
              /\ Ends(s, n + 1, (n + Len(r.msgs)) + 1)
              /\ r.msgs = <<>> => s = <<>>

\* Too few bytes for a message are left alone.
LEMMA ParsesNothing ==
    ASSUME NEW b \in Seq(Byte), NEW n \in Nat, b # <<>> => Short(b)
    PROVE  Parses(b, n, [msgs |-> <<>>, rest |-> b])
<1> DEFINE r == [msgs |-> <<>>, rest |-> b]
           none == <<>>
<1>1. none \in Seq(1 .. MaxMsgs) /\ none \in Seq(Byte) /\ Len(none) = 0
  OBVIOUS
<1>2. r \in [msgs : Seq(1 .. MaxMsgs), rest : Seq(Byte)] /\ r.msgs = none /\ r.rest = b
  BY <1>1
<1>3. Joined(b, none, b, Byte)
  BY <1>1 DEF Joined
<1>4. Ends(none, n + 1, (n + Len(none)) + 1)
  <2>1. (n + Len(none)) + 1 = n + 1
    BY <1>1
  <2> QED BY <2>1 DEF Ends
<1>5. \A i \in 1 .. Len(none) : none[i] = n + i
  BY <1>1
<1> HIDE DEF r
<1>6. Parses(b, n, r)
  BY <1>2, <1>3, <1>4, <1>5, Zenon DEF Parses
<1> QED BY <1>6 DEF r

\* One message more in front.
LEMMA ParsesOne ==
    ASSUME NEW b, NEW f, NEW t, Joined(b, f, t, Byte), NEW n \in Nat,
           n + 1 \in 1 .. MaxMsgs, Ends(f, n + 1, (n + 1) + 1),
           NEW p, Parses(t, n + 1, p)
    PROVE  Parses(b, n, [p EXCEPT !.msgs = <<n + 1>> \o @])
<1> DEFINE q == <<n + 1>> \o p.msgs
           r == [p EXCEPT !.msgs = <<n + 1>> \o @]
<1>1. /\ p \in [msgs : Seq(1 .. MaxMsgs), rest : Seq(Byte)]
      /\ \A i \in 1 .. Len(p.msgs) : p.msgs[i] = (n + 1) + i
      /\ p.rest # <<>> => Short(p.rest)
  BY Zenon DEF Parses
<1>2. PICK s : /\ Joined(t, s, p.rest, Byte)
               /\ Ends(s, (n + 1) + 1, ((n + 1) + Len(p.msgs)) + 1)
  BY Zenon DEF Parses
<1>3. p.msgs \in Seq(1 .. MaxMsgs) /\ p.rest \in Seq(Byte)
  BY <1>1
<1>4. /\ q \in Seq(1 .. MaxMsgs) /\ Len(q) = 1 + Len(p.msgs) /\ q # <<>>
      /\ \A i \in 1 .. Len(q) : q[i] = IF i = 1 THEN n + 1 ELSE p.msgs[i - 1]
      /\ Len(p.msgs) \in Nat
  BY <1>3
<1>5. r.msgs = q /\ r.rest = p.rest /\ r \in [msgs : Seq(1 .. MaxMsgs), rest : Seq(Byte)]
  BY <1>1, <1>4
<1> HIDE DEF q
<1>6. ASSUME NEW i \in 1 .. Len(q) PROVE q[i] = n + i
  <2>1. CASE i = 1
    BY <1>4, <2>1
  <2>2. CASE i # 1
    <3>1. i - 1 \in 1 .. Len(p.msgs) /\ (n + 1) + (i - 1) = n + i
      BY <1>4, <2>2
    <3> QED BY <1>1, <1>4, <2>2, <3>1
  <2> QED BY <2>1, <2>2
<1>7. f \in Seq(Byte) /\ t \in Seq(Byte) /\ s \in Seq(Byte) /\ f \o s \in Seq(Byte)
  <2>1. f \in Seq(Byte) /\ t \in Seq(Byte) /\ s \in Seq(Byte)
    BY <1>2 DEF Joined
  <2> QED BY <2>1
<1> DEFINE g == f \o s
<1>8. Joined(g, f, s, Byte)
  BY <1>7 DEF Joined
<1>9. Joined(b, g, p.rest, Byte)
  <2>1. Joined(f \o t, f \o s, p.rest, Byte)
    BY <1>2, <1>7, JoinedAgain
  <2>2. b = f \o t
    BY Zenon DEF Joined
  <2> QED BY <2>1, <2>2
<1> HIDE DEF g, r
<1>10. Ends(g, n + 1, (n + Len(q)) + 1)
  <2>1. ((n + 1) + Len(p.msgs)) + 1 = (n + Len(q)) + 1
    <3>1. \A k \in Nat : ((n + 1) + k) + 1 = (n + (1 + k)) + 1
      OBVIOUS
    <3>2. Len(p.msgs) \in Nat /\ Len(q) = 1 + Len(p.msgs)
      BY <1>4, Zenon
    <3> QED BY <3>1, <3>2, Zenon
  <2>2. Ends(s, (n + 1) + 1, (n + Len(q)) + 1)
    BY <1>2, <2>1
  <2> QED BY <1>8, <2>2, EndsOn
<1>11. Parses(b, n, r)
  BY <1>1, <1>4, <1>5, <1>6, <1>9, <1>10, Zenon DEF Parses
<1> QED BY <1>11 DEF r

\* Scan finds the whole messages of a stretch.
LEMMA ScanRuns ==
    ASSUME NEW b \in Seq(Byte), NEW n \in Nat, Runs(b, n + 1)
    PROVE  Parses(b, n, Scan[b])
<1> DEFINE G == {k \in Nat : \A d \in Seq(Byte), i \in Nat :
                    Len(d) <= k /\ Runs(d, i + 1) => Parses(d, i, Scan[d])}
<1>1. ASSUME NEW d \in Seq(Byte), NEW i \in Nat, Runs(d, i + 1),
             \A e \in Seq(Byte), j \in Nat :
                Len(e) < Len(d) /\ Runs(e, j + 1) => Parses(e, j, Scan[e])
      PROVE  Parses(d, i, Scan[d])
  <2>1. Scan[d] = Scanned(Scan, d)
    BY ScanEquation
  <2>2. d # <<>> => Len(d) \in Nat /\ d[1] \in Byte /\ d[1].of \in Nat
    BY ByteFields
  <2>3. CASE d = <<>> \/ ~Legible(d[1].of) \/ Len(d) < d[1].of + 1
    <3>1. Scan[d] = [msgs |-> <<>>, rest |-> d]
      BY <2>1, <2>3, Zenon DEF Scanned
    <3>2. d # <<>> => Short(d)
      BY <2>2, <2>3 DEF Short
    <3>3. Parses(d, i, [msgs |-> <<>>, rest |-> d])
      BY <3>2, ParsesNothing
    <3> QED BY <3>1, <3>3
  <2>4. CASE ~(d = <<>> \/ ~Legible(d[1].of) \/ Len(d) < d[1].of + 1)
    <3>1. d # <<>> /\ Len(d) >= d[1].of + 1
      BY <2>2, <2>4
    <3> DEFINE f == SubSeq(d, 1, d[1].of + 1)
               e == Behind(d)
    <3>2. f = Frame(i + 1, d[1].of) /\ Decoded(d) = i + 1 /\ i + 1 \in 1 .. MaxMsgs
          /\ d[1].of \in Sizes
      BY <1>1, <3>1, FirstFrame
    <3>3. f \in Seq(Byte) /\ Ends(f, i + 1, (i + 1) + 1)
      BY <3>2, FrameFacts
    <3>4. e \in Seq(Byte) /\ Len(e) < Len(d)
      BY <3>1, BehindShorter
    <3>5. Joined(d, f, e, Byte)
      <4> DEFINE k == d[1].of + 1
      <4>1. k \in Nat /\ k + 1 = d[1].of + 2 /\ k <= Len(d) /\ Len(d) \in Nat
        BY <2>2, <3>1
      <4>2. Joined(d, SubSeq(d, 1, k), SubSeq(d, k + 1, Len(d)), Byte)
        BY <4>1, Split
      <4> QED BY <4>1, <4>2 DEF Behind
    <3> HIDE DEF f, e
    <3>6. Runs(e, (i + 1) + 1)
      BY <1>1, <3>3, <3>5, RunsBehind
    <3>7. Parses(e, i + 1, Scan[e])
      BY <1>1, <3>4, <3>6
    <3>8. Parses(d, i, [Scan[e] EXCEPT !.msgs = <<i + 1>> \o @])
      BY <3>2, <3>3, <3>5, <3>7, ParsesOne
    <3>9. Scan[d] = [Scan[e] EXCEPT !.msgs = <<i + 1>> \o @]
      BY <2>1, <2>4, <3>2, Zenon DEF Scanned, e
    <3> QED BY <3>8, <3>9
  <2> QED BY <2>3, <2>4
<1>2. 0 \in G
  <2> SUFFICES ASSUME NEW d \in Seq(Byte), NEW i \in Nat, Len(d) <= 0, Runs(d, i + 1)
               PROVE  Parses(d, i, Scan[d])
    OBVIOUS
  <2>1. \A e \in Seq(Byte), j \in Nat :
           Len(e) < Len(d) /\ Runs(e, j + 1) => Parses(e, j, Scan[e])
    OBVIOUS
  <2> QED BY <1>1, <2>1
<1>3. ASSUME NEW k \in Nat, k \in G PROVE k + 1 \in G
  <2> SUFFICES ASSUME NEW d \in Seq(Byte), NEW i \in Nat, Len(d) <= k + 1, Runs(d, i + 1)
               PROVE  Parses(d, i, Scan[d])
    OBVIOUS
  <2>1. \A e \in Seq(Byte), j \in Nat :
           Len(e) <= k /\ Runs(e, j + 1) => Parses(e, j, Scan[e])
    BY <1>3
  <2>2. \A e \in Seq(Byte), j \in Nat :
           Len(e) < Len(d) /\ Runs(e, j + 1) => Parses(e, j, Scan[e])
    BY <2>1
  <2> QED BY <1>1, <2>2
<1> HIDE DEF G
<1>4. \A k \in Nat : k \in G
  BY <1>2, <1>3, Induction
<1>5. Len(b) \in Nat /\ Len(b) \in G /\ Len(b) <= Len(b)
  BY <1>4
<1> QED BY <1>5 DEF G

-----------------------------------------------------------------------------
(* What the actions move.                                                  *)

\* The parts of the flow are bytes.
LEMMA FlowType ==
    ASSUME TypeOK
    PROVE  /\ Left \in Seq(Byte) /\ flight \o Left \in Seq(Byte)
           /\ arrived \o (flight \o Left) \in Seq(Byte) /\ Flow \in Seq(Byte)
           /\ out.left \in Seq(Byte) /\ out.msg \in Nat
           /\ Len(delivered) + Len(inbound) \in Nat
<1>1. /\ out.left \in Seq(Byte) /\ flight \in Seq(Byte) /\ arrived \in Seq(Byte)
      /\ buf \in Seq(Byte) /\ out.msg \in 0 .. MaxMsgs
      /\ Len(delivered) \in Nat /\ Len(inbound) \in Nat
  BY DEF TypeOK
<1>2. Left \in Seq(Byte)
  BY <1>1 DEF Left
<1>3. \A a, b \in Seq(Byte) : a \o b \in Seq(Byte)
  OBVIOUS
<1>4. /\ flight \o Left \in Seq(Byte) /\ arrived \o (flight \o Left) \in Seq(Byte)
      /\ Flow \in Seq(Byte)
  BY <1>1, <1>2, <1>3, Zenon DEF Flow
<1>5. out.msg \in Nat /\ Len(delivered) + Len(inbound) \in Nat
  BY <1>1, FramesAssumption
<1> QED BY <1>1, <1>2, <1>4, <1>5

LEMMA InvInit == Init => Inv
<1> SUFFICES ASSUME Init PROVE Inv
  OBVIOUS
<1> DEFINE none == <<>>
<1>1. /\ out = [msg |-> 0, left |-> none] /\ flight = none /\ arrived = none
      /\ ended = "no" /\ fin = FALSE /\ edge = FALSE
      /\ pc = "wait" /\ buf = none /\ inbound = none /\ delivered = none
  BY DEF Init
<1>2. /\ MaxMsgs \in Nat /\ BufSize \in Nat
      /\ none \in Seq(Byte) /\ none \in Seq(1 .. MaxMsgs) /\ Len(none) = 0
      /\ none \o none = none
  BY FramesAssumption
<1>3. TypeOK
  <2>1. out \in [msg : 0 .. MaxMsgs, left : Seq(Byte)]
    BY <1>1, <1>2
  <2>2. buf \in Seq(Byte) /\ Len(buf) <= BufSize
    BY <1>1, <1>2
  <2>3. flight \in Seq(Byte) /\ arrived \in Seq(Byte)
    BY <1>1, <1>2
  <2>4. inbound \in Seq(1 .. MaxMsgs) /\ delivered \in Seq(1 .. MaxMsgs)
    BY <1>1, <1>2
  <2>5. /\ ended \in {"no", "closed", "killed", "reset", "stuck"}
        /\ fin \in BOOLEAN /\ edge \in BOOLEAN
        /\ pc \in {"wait", "receive", "read", "failed", "spin", "overrun", "gone"}
    BY <1>1
  <2> QED BY <2>1, <2>2, <2>3, <2>4, <2>5 DEF TypeOK
<1>4. Handed /\ Cut
  BY <1>1, <1>2 DEF Handed, Cut
<1>5. Flow = none /\ out.msg = 0
  <2>1. Left = none
    BY <1>1 DEF Left
  <2> QED BY <1>1, <1>2, <2>1 DEF Flow
<1>6. Len(delivered) + Len(inbound) = 0
  BY <1>1
<1>7. Stream(0, none, 0, ended # "reset")
  BY DEF Stream, Runs, Ends
<1> QED BY <1>3, <1>4, <1>5, <1>6, <1>7, Zenon DEF Inv

\* If no bytes are lost and no message is returned or begun, the stream is as
\* it was.
LEMMA Still ==
    ASSUME Inv, TypeOK', Cut', Flow' = Flow, out'.msg = out.msg,
           (ended' # "reset") <=> (ended # "reset"),
           UNCHANGED <<inbound, delivered>>
    PROVE  Inv'
<1>1. /\ Handed
      /\ Stream(Len(delivered) + Len(inbound), Flow, out.msg, ended # "reset")
  BY Zenon DEF Inv
<1>2. inbound' = inbound /\ delivered' = delivered
  OBVIOUS
<1>3. Handed'
  BY <1>1, <1>2, Zenon DEF Handed
<1>4. Stream(Len(delivered) + Len(inbound), Flow, out.msg, ended' # "reset")
  BY <1>1, Zenon DEF Stream
<1>5. Stream(Len(delivered)' + Len(inbound)', Flow', out'.msg, ended' # "reset")
  BY <1>2, <1>4, Zenon
<1> QED BY <1>3, <1>5, Zenon DEF Inv

-----------------------------------------------------------------------------
(* The invariant is inductive: sending.                                    *)

LEMMA BeginKeeps ==
    ASSUME Inv, NEW s \in Sizes, Begin(s)
    PROVE  Inv' /\ out'.msg = out.msg + 1 /\ UNCHANGED delivered
<1> DEFINE m == out.msg + 1
           f == Frame(m, s)
<1>1. /\ TypeOK /\ Handed /\ Cut
      /\ Stream(Len(delivered) + Len(inbound), Flow, out.msg, ended # "reset")
  BY Zenon DEF Inv
<1>2. /\ ended = "no" /\ out.left = <<>> /\ out.msg < MaxMsgs
      /\ ended' = ended /\ arrived' = arrived /\ fin' = fin /\ edge' = edge
      /\ pc' = pc /\ buf' = buf /\ inbound' = inbound /\ delivered' = delivered
  BY DEF Begin, receiver
<1>3. PICK n \in 1 .. s + 1 : /\ flight' = flight \o SubSeq(f, 1, n)
                              /\ out' = [msg |-> m, left |-> SubSeq(f, n + 1, s + 1)]
  BY Zenon DEF Begin
<1>4. /\ out \in [msg : 0 .. MaxMsgs, left : Seq(Byte)]
      /\ flight \in Seq(Byte) /\ arrived \in Seq(Byte) /\ buf \in Seq(Byte)
  BY <1>1, Zenon DEF TypeOK
<1>5. m \in 1 .. MaxMsgs /\ out.msg \in Nat /\ MaxMsgs \in Nat /\ s \in Nat
  BY <1>2, <1>4, FramesAssumption
<1>6. /\ f \in Seq(Byte) /\ Len(f) = s + 1 /\ Runs(f, m) /\ Ends(f, m, m + 1)
      /\ \A i \in 1 .. Len(f) : f[i].msg = m
  BY <1>5, FrameFacts
<1> DEFINE g == SubSeq(f, 1, n)
           h == SubSeq(f, n + 1, s + 1)
<1> HIDE DEF f
<1>7. Joined(f, g, h, Byte)
  <2>1. n \in Nat /\ n <= Len(f)
    BY <1>5, <1>6
  <2>2. Joined(f, SubSeq(f, 1, n), SubSeq(f, n + 1, Len(f)), Byte)
    BY <1>6, <2>1, Split
  <2> QED BY <1>6, <2>2
<1> HIDE DEF g, h
<1>8. flight' = flight \o g /\ out' = [msg |-> m, left |-> h] /\ h \in Seq(Byte)
      /\ g \in Seq(Byte) /\ f = g \o h
  <2>1. flight' = flight \o g /\ out' = [msg |-> m, left |-> h]
    BY <1>3 DEF g, h
  <2>2. h \in Seq(Byte) /\ g \in Seq(Byte) /\ f = g \o h
    BY <1>7, Zenon DEF Joined
  <2> QED BY <2>1, <2>2
<1>9. out'.msg = m /\ out'.left = h /\ out' \in [msg : 0 .. MaxMsgs, left : Seq(Byte)]
  BY <1>5, <1>8
<1>10. flight' \in Seq(Byte)
  <2>1. \A a, b \in Seq(Byte) : a \o b \in Seq(Byte)
    OBVIOUS
  <2> QED BY <1>4, <1>8, <2>1, Zenon
<1>11. TypeOK'
  BY <1>1, <1>2, <1>9, <1>10, Zenon DEF TypeOK
<1>12. Handed' /\ Cut'
  BY <1>1, <1>2, Zenon DEF Handed, Cut
<1>13. Joined(Flow', Flow, f, Byte)
  <2>1. Joined((flight \o g) \o h, flight, f, Byte)
    <3>1. Joined(flight \o g, flight, g, Byte)
      BY <1>4, <1>8, Zenon DEF Joined
    <3>2. Joined((flight \o g) \o h, flight, g \o h, Byte)
      BY <1>8, <3>1, JoinedAgain
    <3> QED BY <1>8, <3>2
  <2>2. Joined(arrived \o ((flight \o g) \o h), arrived \o flight, f, Byte)
    BY <1>4, <2>1, JoinedAgain
  <2>3. Joined(buf \o (arrived \o ((flight \o g) \o h)), buf \o (arrived \o flight), f, Byte)
    BY <1>4, <2>2, JoinedAgain
  <2>4. Flow = buf \o (arrived \o flight)
    <3>1. flight \o <<>> = flight
      BY <1>4
    <3>2. Left = <<>>
      BY <1>2 DEF Left
    <3> QED BY <3>1, <3>2, Zenon DEF Flow
  <2>5. Flow' = buf \o (arrived \o ((flight \o g) \o h))
    <3>1. Left' = h
      BY <1>2, <1>9 DEF Left
    <3> QED BY <1>2, <1>8, <3>1, Zenon DEF Flow
  <2> QED BY <2>3, <2>4, <2>5
<1>14. Len(delivered) + Len(inbound) \in Nat
  BY <1>1, FlowType
<1>15. (ended # "reset") = TRUE /\ (ended' # "reset") = TRUE
  BY <1>2
<1>16. Stream(Len(delivered) + Len(inbound), Flow, out.msg, TRUE)
  BY <1>1, <1>15
<1>17. Stream(Len(delivered) + Len(inbound), Flow', out.msg + 1, TRUE)
  <2>1. /\ Runs(f, out.msg + 1) /\ Ends(f, out.msg + 1, out.msg + 1 + 1)
        /\ \A i \in 1 .. Len(f) : f[i].msg = out.msg + 1
    BY <1>6
  <2> HIDE DEF m
  <2> QED BY <1>5, <1>13, <1>14, <1>16, <2>1, StreamMore
<1>18. Stream(Len(delivered)' + Len(inbound)', Flow', out'.msg, ended' # "reset")
  BY <1>2, <1>9, <1>15, <1>17
<1> QED BY <1>2, <1>9, <1>11, <1>12, <1>18 DEF Inv

LEMMA ContinueKeeps ==
    ASSUME Inv, Continue
    PROVE  Inv' /\ out'.msg = out.msg /\ UNCHANGED delivered
<1> DEFINE g(n) == SubSeq(out.left, 1, n)
           h(n) == SubSeq(out.left, n + 1, Len(out.left))
<1>1. TypeOK /\ Cut
  BY Zenon DEF Inv
<1>2. /\ ended = "no"
      /\ ended' = ended /\ arrived' = arrived /\ fin' = fin /\ edge' = edge
      /\ pc' = pc /\ buf' = buf /\ inbound' = inbound /\ delivered' = delivered
  BY DEF Continue, receiver
<1>3. PICK n \in 1 .. Len(out.left) : /\ flight' = flight \o g(n)
                                      /\ out' = [out EXCEPT !.left = h(n)]
  BY DEF Continue
<1>4. /\ out \in [msg : 0 .. MaxMsgs, left : Seq(Byte)] /\ out.left \in Seq(Byte)
      /\ flight \in Seq(Byte) /\ arrived \in Seq(Byte) /\ buf \in Seq(Byte)
  BY <1>1 DEF TypeOK
<1>5. Joined(out.left, g(n), h(n), Byte)
  <2>1. n \in Nat /\ n <= Len(out.left)
    BY <1>4
  <2> QED BY <1>4, <2>1, Split
<1> HIDE DEF g, h
<1>6. g(n) \in Seq(Byte) /\ h(n) \in Seq(Byte) /\ out.left = g(n) \o h(n)
  BY <1>5, Zenon DEF Joined
<1>7. /\ out'.left = h(n) /\ out'.msg = out.msg
      /\ out' \in [msg : 0 .. MaxMsgs, left : Seq(Byte)]
  BY <1>3, <1>4, <1>6
<1>8. \A a, b \in Seq(Byte) : a \o b \in Seq(Byte)
  OBVIOUS
<1>9. flight' \in Seq(Byte)
  BY <1>3, <1>4, <1>6, <1>8, Zenon
<1>10. TypeOK'
  BY <1>1, <1>2, <1>7, <1>9, Zenon DEF TypeOK
<1>11. Cut'
  BY <1>1, <1>2, Zenon DEF Cut
<1>12. Flow' = Flow
  <2>1. Joined(flight \o out.left, flight \o g(n), h(n), Byte)
    BY <1>4, <1>5, JoinedAgain
  <2>2. flight' \o h(n) = flight \o out.left
    BY <1>3, <2>1, Zenon DEF Joined
  <2>3. Left = out.left /\ Left' = h(n)
    BY <1>2, <1>7 DEF Left
  <2> QED BY <1>2, <2>2, <2>3, Zenon DEF Flow
<1>13. Inv'
  BY <1>2, <1>7, <1>10, <1>11, <1>12, Still
<1> QED BY <1>2, <1>7, <1>13

\* The sender ends, or gets stuck.
LEMMA EndKeeps ==
    ASSUME Inv, End \/ WriteFails
    PROVE  Inv' /\ out'.msg = out.msg /\ UNCHANGED delivered
<1>1. TypeOK /\ Cut
  BY Zenon DEF Inv
<1>2. /\ ended = "no" /\ ended' \in {"closed", "killed", "stuck"}
      /\ out' = out /\ flight' = flight /\ arrived' = arrived /\ fin' = fin /\ edge' = edge
      /\ pc' = pc /\ buf' = buf /\ inbound' = inbound /\ delivered' = delivered
  BY DEF End, WriteFails, kernel, receiver
<1>3. TypeOK' /\ Cut'
  <2>1. ended' \in {"no", "closed", "killed", "reset", "stuck"}
    BY <1>2
  <2>2. TypeOK'
    BY <1>1, <1>2, <2>1, Zenon DEF TypeOK
  <2>3. Cut'
    BY <1>1, <1>2, Zenon DEF Cut
  <2> QED BY <2>2, <2>3
<1>4. Flow' = Flow
  <2>1. Left' = Left
    BY <1>2 DEF Left
  <2> QED BY <1>2, <2>1, Zenon DEF Flow
<1>5. Inv'
  BY <1>2, <1>3, <1>4, Still
<1> QED BY <1>2, <1>5

LEMMA ResetKeeps ==
    ASSUME Inv, Reset
    PROVE  Inv' /\ out'.msg = out.msg /\ UNCHANGED delivered
<1> DEFINE none == <<>>
<1>1. /\ TypeOK /\ Handed /\ Cut
      /\ Stream(Len(delivered) + Len(inbound), Flow, out.msg, ended # "reset")
  BY Zenon DEF Inv
<1>2. /\ ended' = "reset" /\ flight' = none /\ fin' = TRUE /\ edge' = TRUE
      /\ out' = out /\ arrived' = arrived
      /\ pc' = pc /\ buf' = buf /\ inbound' = inbound /\ delivered' = delivered
  BY DEF Reset, receiver
<1>3. none \in Seq(Byte) /\ none \o none = none
  OBVIOUS
<1>4. TypeOK'
  BY <1>1, <1>2, <1>3 DEF TypeOK
<1>5. Handed' /\ Cut'
  BY <1>1, <1>2, Zenon DEF Handed, Cut
<1>6. arrived \in Seq(Byte) /\ buf \in Seq(Byte) /\ flight \o Left \in Seq(Byte)
  BY <1>1, FlowType DEF TypeOK
<1>7. Flow' = buf \o arrived
  <2>1. Left' = none
    BY <1>2 DEF Left
  <2>2. arrived \o none = arrived
    BY <1>6
  <2> QED BY <1>2, <1>3, <2>1, <2>2, Zenon DEF Flow
<1>8. Joined(Flow, Flow', flight \o Left, Byte)
  <2>1. Joined(arrived \o (flight \o Left), arrived, flight \o Left, Byte)
    BY <1>6, Zenon DEF Joined
  <2>2. Joined(buf \o (arrived \o (flight \o Left)), buf \o arrived, flight \o Left, Byte)
    BY <1>6, <2>1, JoinedAgain
  <2> QED BY <1>7, <2>2, Zenon DEF Flow
<1>9. Stream(Len(delivered) + Len(inbound), Flow', out.msg, FALSE)
  BY <1>1, <1>8, StreamLost
<1>10. (ended' # "reset") = FALSE
  BY <1>2
<1>11. Stream(Len(delivered)' + Len(inbound)', Flow', out'.msg, ended' # "reset")
  BY <1>2, <1>9, <1>10
<1> QED BY <1>2, <1>4, <1>5, <1>11 DEF Inv

-----------------------------------------------------------------------------
(* The network, and the steps of the receiver that return nothing.         *)

LEMMA ArriveKeeps ==
    ASSUME Inv, Arrive
    PROVE  Inv' /\ out'.msg = out.msg /\ UNCHANGED delivered
<1> DEFINE g(n) == SubSeq(flight, 1, n)
           h(n) == SubSeq(flight, n + 1, Len(flight))
<1>1. TypeOK /\ Cut
  BY Zenon DEF Inv
<1>2. /\ edge' = TRUE /\ out' = out /\ ended' = ended /\ fin' = fin
      /\ pc' = pc /\ buf' = buf /\ inbound' = inbound /\ delivered' = delivered
  BY DEF Arrive, sender, receiver
<1>3. PICK n \in 1 .. Len(flight) : arrived' = arrived \o g(n) /\ flight' = h(n)
  BY Zenon DEF Arrive
<1>4. flight \in Seq(Byte) /\ arrived \in Seq(Byte) /\ Left \in Seq(Byte)
  BY <1>1, FlowType DEF TypeOK
<1>5. Joined(flight, g(n), h(n), Byte)
  <2>1. n \in Nat /\ n <= Len(flight)
    BY <1>4
  <2> QED BY <1>4, <2>1, Split
<1> HIDE DEF g, h
<1>6. g(n) \in Seq(Byte) /\ h(n) \in Seq(Byte)
  BY <1>5, Zenon DEF Joined
<1>7. arrived' \in Seq(Byte) /\ flight' \in Seq(Byte)
  <2>1. \A a, b \in Seq(Byte) : a \o b \in Seq(Byte)
    OBVIOUS
  <2> QED BY <1>3, <1>4, <1>6, <2>1, Zenon
<1>8. TypeOK'
  BY <1>1, <1>2, <1>7 DEF TypeOK
<1>9. Cut'
  BY <1>1, <1>2, Zenon DEF Cut
<1>10. Flow' = Flow
  <2>1. Joined(flight \o Left, g(n), h(n) \o Left, Byte)
    BY <1>4, <1>5, JoinedAgain
  <2>2. Joined(arrived \o (flight \o Left), arrived \o g(n), h(n) \o Left, Byte)
    BY <1>4, <2>1, JoinedAgain
  <2>3. arrived \o (flight \o Left) = arrived' \o (flight' \o Left)
    BY <1>3, <2>2, Zenon DEF Joined
  <2>4. Left' = Left
    BY <1>2 DEF Left
  <2> QED BY <1>2, <2>3, <2>4, Zenon DEF Flow
<1>11. Inv'
  BY <1>2, <1>8, <1>9, <1>10, Still
<1> QED BY <1>2, <1>11

\* The end of the stream arrives, or is noticed; the event loop hears of it;
\* the receiver writes behind its buffer or leaves.
LEMMA QuietKeeps ==
    ASSUME Inv, ArriveEnd \/ Notified \/ Overrun \/ Eof \/ ReadError \/ GiveUp
    PROVE  Inv' /\ out'.msg = out.msg /\ UNCHANGED delivered
<1>1. TypeOK /\ Cut
  BY Zenon DEF Inv
<1>2. /\ out' = out /\ ended' = ended /\ flight' = flight /\ arrived' = arrived
      /\ buf' = buf /\ inbound' = inbound /\ delivered' = delivered
  BY DEF ArriveEnd, Notified, Overrun, Eof, ReadError, GiveUp,
         sender, kernel, receiver
<1>3. /\ fin' \in BOOLEAN /\ edge' \in BOOLEAN
      /\ \/ pc' = pc
         \/ pc = "wait" /\ pc' = "receive"
         \/ pc' \in {"failed", "spin", "overrun", "gone"}
  BY <1>1 DEF TypeOK, ArriveEnd, Notified, Overrun, Eof, ReadError, GiveUp,
         sender, kernel, receiver
<1>4. TypeOK'
  <2>1. pc' \in {"wait", "receive", "read", "failed", "spin", "overrun", "gone"}
    BY <1>1, <1>3 DEF TypeOK
  <2> QED BY <1>1, <1>2, <1>3, <2>1 DEF TypeOK
<1>5. Cut'
  BY <1>1, <1>2, <1>3 DEF Cut
<1>6. Flow' = Flow
  <2>1. Left' = Left
    BY <1>2 DEF Left
  <2> QED BY <1>2, <2>1, Zenon DEF Flow
<1>7. Inv'
  BY <1>2, <1>4, <1>5, <1>6, Still
<1> QED BY <1>2, <1>7

-----------------------------------------------------------------------------
(* The steps that return a message.                                        *)

\* q is a queue of the messages that come next.
Upcoming(q) == /\ q \in Seq(1 .. MaxMsgs)
            /\ \A i \in 1 .. Len(q) : q[i] = Len(delivered) + i

LEMMA ReturnedFacts ==
    ASSUME NEW q, Upcoming(q), q # <<>>, Returned(q),
           delivered \in Seq(1 .. MaxMsgs), Handed
    PROVE  /\ Handed'
           /\ delivered' \in Seq(1 .. MaxMsgs) /\ inbound' \in Seq(1 .. MaxMsgs)
           /\ Len(delivered)' + Len(inbound)' = Len(delivered) + Len(q)
           /\ delivered' = Append(delivered, Len(delivered) + 1)
           /\ pc' \in {"wait", "receive"}
<1>1. /\ q \in Seq(1 .. MaxMsgs) /\ q # <<>>
      /\ \A i \in 1 .. Len(q) : q[i] = Len(delivered) + i
      /\ \A i \in 1 .. Len(delivered) : delivered[i] = i
  BY DEF Upcoming, Handed
<1>2. /\ delivered' = Append(delivered, Head(q)) /\ inbound' = Tail(q)
      /\ pc' \in {"wait", "receive"}
  BY DEF Returned
<1>3. Len(delivered) \in Nat /\ Len(q) \in Nat /\ 1 \in 1 .. Len(q)
  BY <1>1
<1>4. Head(q) = Len(delivered) + 1 /\ Head(q) \in 1 .. MaxMsgs
  <2>1. Head(q) = q[1] /\ q[1] \in 1 .. MaxMsgs
    <3>1. q \in Seq(1 .. MaxMsgs) /\ q # <<>>
      BY <1>1, Zenon
    <3>2. Head(q) = q[1]
      BY <3>1
    <3>3. q[1] \in 1 .. MaxMsgs
      BY <1>3, <3>1, ElementOfSeq
    <3> QED BY <3>2, <3>3
  <2> QED BY <1>1, <1>3, <2>1
<1> DEFINE d == Append(delivered, Head(q))
           t == Tail(q)
<1>5. /\ d \in Seq(1 .. MaxMsgs) /\ Len(d) = Len(delivered) + 1
      /\ \A i \in 1 .. Len(delivered) : d[i] = delivered[i]
      /\ d[Len(delivered) + 1] = Len(delivered) + 1
  BY <1>4, AppendProperties
<1>6. /\ t \in Seq(1 .. MaxMsgs) /\ Len(t) = Len(q) - 1
      /\ \A i \in 1 .. Len(t) : t[i] = q[i + 1]
  BY <1>1, HeadTailProperties
<1>7. delivered' = d /\ inbound' = t
  BY <1>2
<1> HIDE DEF d, t
<1>8. ASSUME NEW i \in 1 .. Len(d) PROVE d[i] = i
  <2>1. i \in 1 .. Len(delivered) \/ i = Len(delivered) + 1
    BY <1>3, <1>5
  <2> QED BY <1>1, <1>5, <2>1
<1>9. ASSUME NEW i \in 1 .. Len(t) PROVE t[i] = Len(d) + i
  <2>1. i + 1 \in 1 .. Len(q) /\ Len(delivered) + (i + 1) = (Len(delivered) + 1) + i
    BY <1>3, <1>6
  <2> QED BY <1>1, <1>5, <1>6, <2>1
<1>10. Handed'
  BY <1>7, <1>8, <1>9 DEF Handed
<1>11. Len(d) + Len(t) = Len(delivered) + Len(q)
  BY <1>3, <1>5, <1>6
<1> QED BY <1>2, <1>4, <1>5, <1>6, <1>7, <1>10, <1>11

LEMMA FromQueueKeeps ==
    ASSUME Inv, FromQueue
    PROVE  /\ Inv' /\ out'.msg = out.msg
           /\ delivered' = Append(delivered, Len(delivered) + 1)
<1>1. /\ TypeOK /\ Handed /\ Cut
      /\ Stream(Len(delivered) + Len(inbound), Flow, out.msg, ended # "reset")
  BY Zenon DEF Inv
<1>2. /\ pc = "receive" /\ inbound # <<>> /\ Returned(inbound)
      /\ out' = out /\ ended' = ended /\ flight' = flight /\ arrived' = arrived
      /\ fin' = fin /\ edge' = edge /\ buf' = buf
  BY DEF FromQueue, sender, kernel
<1>3. Upcoming(inbound) /\ delivered \in Seq(1 .. MaxMsgs)
  BY <1>1 DEF TypeOK, Handed, Upcoming
<1>4. /\ Handed'
      /\ delivered' \in Seq(1 .. MaxMsgs) /\ inbound' \in Seq(1 .. MaxMsgs)
      /\ Len(delivered)' + Len(inbound)' = Len(delivered) + Len(inbound)
      /\ delivered' = Append(delivered, Len(delivered) + 1)
      /\ pc' \in {"wait", "receive"}
  BY <1>1, <1>2, <1>3, ReturnedFacts
<1>5. pc' \in {"wait", "receive", "read", "failed", "spin", "overrun", "gone"} /\ pc' # "read"
  BY <1>4
<1>6. TypeOK'
  BY <1>1, <1>2, <1>4, <1>5, Zenon DEF TypeOK
<1>7. Cut'
  BY <1>1, <1>2, <1>5 DEF Cut
<1>8. Flow' = Flow
  <2>1. Left' = Left
    BY <1>2 DEF Left
  <2> QED BY <1>2, <2>1, Zenon DEF Flow
<1>9. Stream(Len(delivered)' + Len(inbound)', Flow', out'.msg, ended' # "reset")
  BY <1>1, <1>2, <1>4, <1>8, Zenon
<1> QED BY <1>2, <1>4, <1>6, <1>7, <1>9 DEF Inv

LEMMA ReadKeeps ==
    ASSUME Inv, Read
    PROVE  /\ Inv' /\ out'.msg = out.msg
           /\ \/ UNCHANGED delivered
              \/ delivered' = Append(delivered, Len(delivered) + 1)
<1> DEFINE n == IF Len(arrived) < BufSize THEN Len(arrived) ELSE BufSize
           b == SubSeq(arrived, 1, n)
           a == SubSeq(arrived, n + 1, Len(arrived))
           p == Parsed(b)
           k == Len(delivered)
           x == flight \o Left
<1>1. /\ TypeOK /\ Handed /\ Cut
      /\ Stream(Len(delivered) + Len(inbound), Flow, out.msg, ended # "reset")
  BY Zenon DEF Inv
<1>2. /\ pc = "receive" /\ inbound = <<>> /\ arrived # <<>>
      /\ arrived' = a /\ buf' = p.rest
      /\ out' = out /\ ended' = ended /\ flight' = flight /\ fin' = fin /\ edge' = edge
  BY DEF Read, sender
<1>3. /\ p.rest = <<>> => Returned(p.msgs)
      /\ p.rest # <<>> => /\ inbound' = p.msgs /\ delivered' = delivered
                         /\ pc' = IF p.rest[1].of + 1 = BufSize THEN "spin" ELSE "read"
  BY Zenon DEF Read
<1>4. /\ arrived \in Seq(Byte) /\ delivered \in Seq(1 .. MaxMsgs)
      /\ x \in Seq(Byte) /\ out.msg \in Nat /\ buf = <<>>
  BY <1>1, <1>2, FlowType DEF TypeOK, Cut
<1>5. n \in Nat /\ n <= Len(arrived) /\ n <= BufSize /\ n # 0 /\ BufSize \in Nat
  <2>1. Len(arrived) \in Nat /\ Len(arrived) # 0
    BY <1>2, <1>4
  <2>2. BufSize \in Nat
    BY FramesAssumption
  <2>3. BufSize # 0
    <3>1. arrived[1] \in Byte
      BY <1>2, <1>4
    <3> QED BY <2>2, <3>1, ByteFields
  <2> QED BY <2>1, <2>2, <2>3
<1> HIDE DEF n
<1>6. Joined(arrived, b, a, Byte) /\ Len(b) = n
  BY <1>4, <1>5, Split
<1> HIDE DEF a, b
<1>7. a \in Seq(Byte) /\ b \in Seq(Byte) /\ b # <<>> /\ a \o x \in Seq(Byte)
  <2>1. a \in Seq(Byte) /\ b \in Seq(Byte)
    BY <1>6, Zenon DEF Joined
  <2>2. b # <<>>
    BY <1>5, <1>6, <2>1
  <2> QED BY <1>4, <2>1, <2>2
<1>8. k \in Nat /\ Len(inbound) = 0 /\ k + Len(inbound) = k
  BY <1>2, <1>4
<1>9. Flow = arrived \o x
  <2>1. arrived \o x \in Seq(Byte)
    BY <1>4
  <2>2. <<>> \o (arrived \o x) = arrived \o x
    BY <2>1
  <2> QED BY <1>4, <2>2, Zenon DEF Flow
<1> HIDE DEF x
<1>10. Joined(Flow, b, a \o x, Byte)
  BY <1>4, <1>6, <1>9, JoinedAgain
<1>11. Stream(k, Flow, out.msg, ended # "reset")
  BY <1>1, <1>8
<1> HIDE DEF k
<1>12. Runs(b, k + 1)
  <2>1. Runs(Flow, k + 1)
    BY <1>11, Zenon DEF Stream
  <2> QED BY <1>10, <2>1, RunsFront
<1>13. Parses(b, k, p)
  <2>1. Parses(b, k, Scan[b])
    BY <1>7, <1>8, <1>12, ScanRuns
  <2> QED BY <2>1, Zenon DEF Parsed
<1> HIDE DEF p
<1>14. /\ p \in [msgs : Seq(1 .. MaxMsgs), rest : Seq(Byte)]
       /\ \A i \in 1 .. Len(p.msgs) : p.msgs[i] = k + i
       /\ p.rest # <<>> => Short(p.rest)
  BY <1>13, Zenon DEF Parses
<1>15. PICK s : /\ Joined(b, s, p.rest, Byte)
                /\ Ends(s, k + 1, (k + Len(p.msgs)) + 1)
                /\ p.msgs = <<>> => s = <<>>
  BY <1>13, Zenon DEF Parses
<1>16. p.msgs \in Seq(1 .. MaxMsgs) /\ p.rest \in Seq(Byte) /\ Len(p.msgs) \in Nat
  BY <1>14
<1>17. Flow' = p.rest \o (a \o x)
  <2>1. Left' = Left
    BY <1>2 DEF Left
  <2> QED BY <1>2, <2>1, Zenon DEF Flow, x
<1>18. Joined(Flow, s, Flow', Byte)
  <2>1. Joined(b \o (a \o x), s, p.rest \o (a \o x), Byte)
    BY <1>7, <1>15, JoinedAgain
  <2>2. Flow = b \o (a \o x)
    BY <1>10, Zenon DEF Joined
  <2> QED BY <1>17, <2>1, <2>2
<1>19. s = <<>> => Len(p.msgs) = 0
  <2> HAVE s = <<>>
  <2>1. (k + Len(p.msgs)) + 1 = k + 1
    BY <1>15 DEF Ends
  <2> QED BY <1>8, <1>16, <2>1
<1>20. Stream(k + Len(p.msgs), Flow', out.msg, ended # "reset")
  BY <1>4, <1>8, <1>11, <1>15, <1>16, <1>18, <1>19, StreamTaken
<1>21. Len(p.rest) <= BufSize
  <2>1. s \in Seq(Byte) /\ p.rest \in Seq(Byte) /\ b = s \o p.rest
    BY <1>15, Zenon DEF Joined
  <2>2. Len(s) \in Nat /\ Len(p.rest) \in Nat /\ Len(b) = Len(s) + Len(p.rest)
    BY <2>1
  <2> QED BY <1>5, <1>6, <2>2
<1>22. /\ arrived' \in Seq(Byte) /\ buf' \in Seq(Byte) /\ Len(buf') <= BufSize
  BY <1>2, <1>7, <1>16, <1>21
<1>23. CASE p.rest = <<>>
  <2>1. p.msgs # <<>>
    <3> SUFFICES ASSUME p.msgs = <<>> PROVE FALSE
      OBVIOUS
    <3>1. s = <<>> /\ b = s \o p.rest
      BY <1>15, Zenon DEF Joined
    <3>2. b = <<>> \o <<>>
      BY <1>23, <3>1
    <3> QED BY <1>7, <3>2
  <2>2. Upcoming(p.msgs)
    BY <1>14, <1>16, Zenon DEF Upcoming, k
  <2>3. /\ Handed'
        /\ delivered' \in Seq(1 .. MaxMsgs) /\ inbound' \in Seq(1 .. MaxMsgs)
        /\ Len(delivered)' + Len(inbound)' = Len(delivered) + Len(p.msgs)
        /\ delivered' = Append(delivered, Len(delivered) + 1)
        /\ pc' \in {"wait", "receive"}
    BY <1>1, <1>3, <1>4, <1>23, <2>1, <2>2, ReturnedFacts
  <2>4. pc' \in {"wait", "receive", "read", "failed", "spin", "overrun", "gone"} /\ pc' # "read"
    BY <2>3
  <2>5. TypeOK'
    BY <1>1, <1>2, <1>22, <2>3, <2>4, Zenon DEF TypeOK
  <2>6. Cut'
    BY <1>2, <1>23, <2>4, Zenon DEF Cut
  <2>7. Stream(Len(delivered)' + Len(inbound)', Flow', out'.msg, ended' # "reset")
    BY <1>2, <1>20, <2>3, Zenon DEF k
  <2> QED BY <1>2, <2>3, <2>5, <2>6, <2>7 DEF Inv
<1>24. CASE p.rest # <<>>
  <2>1. inbound' = p.msgs /\ pc' \in {"read", "spin"} /\ delivered' = delivered
    BY <1>3, <1>24
  <2>2. TypeOK'
    <3>1. pc' \in {"wait", "receive", "read", "failed", "spin", "overrun", "gone"}
      BY <2>1
    <3>2. inbound' \in Seq(1 .. MaxMsgs) /\ delivered' \in Seq(1 .. MaxMsgs)
      BY <1>4, <1>16, <2>1
    <3> QED BY <1>1, <1>2, <1>22, <3>1, <3>2, Zenon DEF TypeOK
  <2>3. Handed'
    BY <1>1, <1>14, <2>1, Zenon DEF Handed, k
  <2>4. Cut'
    <3>1. pc' \notin {"wait", "receive"}
      BY <2>1
    <3>2. buf' # <<>> /\ Short(buf')
      BY <1>2, <1>14, <1>24, Zenon
    <3> QED BY <3>1, <3>2, Zenon DEF Cut, Short
  <2>5. Stream(Len(delivered)' + Len(inbound)', Flow', out'.msg, ended' # "reset")
    BY <1>2, <1>20, <2>1, Zenon DEF k
  <2> QED BY <1>2, <2>1, <2>2, <2>3, <2>4, <2>5 DEF Inv
<1> QED BY <1>23, <1>24

LEMMA ReadByteKeeps ==
    ASSUME Inv, ReadByte
    PROVE  /\ Inv' /\ out'.msg = out.msg
           /\ \/ UNCHANGED delivered
              \/ delivered' = Append(delivered, Len(delivered) + 1)
<1> DEFINE b == Append(buf, Head(arrived))
           a == Tail(arrived)
           k == Len(delivered) + Len(inbound)
           x == flight \o Left
<1>1. /\ TypeOK /\ Handed /\ Cut
      /\ Stream(Len(delivered) + Len(inbound), Flow, out.msg, ended # "reset")
  BY Zenon DEF Inv
<1>2. /\ pc = "read" /\ arrived # <<>> /\ Len(buf) < BufSize /\ arrived' = a
      /\ out' = out /\ ended' = ended /\ flight' = flight /\ fin' = fin /\ edge' = edge
  BY DEF ReadByte, sender
<1>3. /\ Legible(b[1].of) /\ Len(b) = b[1].of + 1 =>
            Returned(Append(inbound, Decoded(b))) /\ buf' = <<>>
      /\ ~(Legible(b[1].of) /\ Len(b) = b[1].of + 1) =>
            /\ buf' = b /\ pc' = pc /\ inbound' = inbound /\ delivered' = delivered
  BY Zenon DEF ReadByte
<1>4. /\ arrived \in Seq(Byte) /\ delivered \in Seq(1 .. MaxMsgs)
      /\ inbound \in Seq(1 .. MaxMsgs)
      /\ x \in Seq(Byte) /\ out.msg \in Nat /\ k \in Nat
      /\ buf \in Seq(Byte) /\ buf # <<>> /\ Short(buf)
  <2>1. x \in Seq(Byte) /\ out.msg \in Nat /\ k \in Nat
    BY <1>1, FlowType
  <2>2. buf # <<>> /\ Short(buf)
    BY <1>1, <1>2, Zenon DEF Cut
  <2> QED BY <1>1, <2>1, <2>2, Zenon DEF TypeOK
<1>5. /\ b \in Seq(Byte) /\ b # <<>> /\ Len(b) = Len(buf) + 1 /\ b[1] = buf[1]
      /\ Len(buf) \in Nat /\ a \in Seq(Byte) /\ a \o x \in Seq(Byte)
      /\ b[1] \in Byte
  <2>1. Head(arrived) \in Byte /\ a \in Seq(Byte)
    BY <1>2, <1>4, TailFacts
  <2>2. 1 \in 1 .. Len(buf) /\ Len(buf) \in Nat
    BY <1>4
  <2> HIDE DEF x
  <2>3. a \o x \in Seq(Byte)
    BY <1>4, <2>1
  <2> HIDE DEF a
  <2>4. /\ b \in Seq(Byte) /\ b # <<>> /\ Len(b) = Len(buf) + 1
        /\ \A i \in 1 .. Len(buf) : b[i] = buf[i]
    <3>1. buf \in Seq(Byte) /\ Head(arrived) \in Byte
      BY <1>4, <2>1, Zenon
    <3> QED BY <3>1, AppendProperties
  <2>5. buf[1] \in Byte
    BY <1>4, <2>2, ElementOfSeq
  <2> QED BY <2>1, <2>2, <2>3, <2>4, <2>5
<1>6. b[1].of \in Nat /\ b[1].of < BufSize /\ BufSize \in Nat
  BY <1>5, ByteFields
<1>7. Flow = b \o (a \o x)
  <2> DEFINE h == <<Head(arrived)>>
  <2>1. h \in Seq(Byte) /\ b = buf \o h
    <3>1. Head(arrived) \in Byte
      BY <1>2, <1>4
    <3> QED BY <1>4, <3>1, AppendIsConcat
  <2>2. arrived = h \o a
    BY <1>2, <1>4
  <2> HIDE DEF h, a, x
  <2>3. Joined(arrived, h, a, Byte)
    BY <1>5, <2>1, <2>2, Zenon DEF Joined
  <2>4. Joined(arrived \o x, h, a \o x, Byte)
    BY <1>4, <2>3, JoinedAgain
  <2>5. Joined(buf \o (arrived \o x), buf \o h, a \o x, Byte)
    BY <1>4, <2>4, JoinedAgain
  <2> QED BY <2>1, <2>5, Zenon DEF Joined, Flow, x
<1> HIDE DEF a, b, x
<1>8. Joined(Flow, b, a \o x, Byte)
  BY <1>5, <1>7, Zenon DEF Joined
<1> HIDE DEF k
<1>9. Stream(k, Flow, out.msg, ended # "reset") /\ Runs(b, k + 1)
  <2>1. Stream(k, Flow, out.msg, ended # "reset")
    BY <1>1 DEF k
  <2>2. Runs(Flow, k + 1)
    BY <2>1, Zenon DEF Stream
  <2>3. Runs(b, k + 1)
    BY <1>8, <2>2, RunsFront
  <2> QED BY <2>1, <2>3
<1>10. Left' = Left /\ arrived' \in Seq(Byte)
  BY <1>2, <1>5 DEF Left
<1>11. CASE Legible(b[1].of) /\ Len(b) = b[1].of + 1
  <2>1. Returned(Append(inbound, Decoded(b))) /\ buf' = <<>>
    BY <1>3, <1>11
  <2>2. /\ SubSeq(b, 1, b[1].of + 1) = Frame(k + 1, b[1].of)
        /\ Decoded(b) = k + 1 /\ k + 1 \in 1 .. MaxMsgs /\ b[1].of \in Sizes
    <3>1. Len(b) >= b[1].of + 1
      BY <1>5, <1>6, <1>11
    <3> QED BY <1>5, <1>9, <3>1, FirstFrame
  <2>3. Ends(b, k + 1, (k + 1) + 1)
    <3>1. SubSeq(b, 1, Len(b)) = b
      BY <1>5, SubSeqFull
    <3>2. b = Frame(k + 1, b[1].of)
      BY <1>11, <2>2, <3>1
    <3>3. Ends(Frame(k + 1, b[1].of), k + 1, (k + 1) + 1)
      BY <2>2, FrameFacts
    <3> QED BY <3>2, <3>3
  <2>4. Stream(k + 1, a \o x, out.msg, ended # "reset")
    <3>1. 1 \in Nat /\ (b = <<>> => 1 = 0)
      BY <1>5
    <3> QED BY <1>4, <1>8, <1>9, <2>3, <3>1, StreamTaken
  <2>5. Flow' = a \o x
    <3>1. <<>> \o (a \o x) = a \o x
      BY <1>5
    <3> QED BY <1>2, <1>10, <2>1, <3>1, Zenon DEF Flow, x
  <2> DEFINE q == Append(inbound, k + 1)
  <2>6. q \in Seq(1 .. MaxMsgs) /\ q # <<>> /\ Len(q) = Len(inbound) + 1
        /\ (\A i \in 1 .. Len(inbound) : q[i] = inbound[i]) /\ q[Len(inbound) + 1] = k + 1
    <3>1. inbound \in Seq(1 .. MaxMsgs) /\ k + 1 \in 1 .. MaxMsgs
      BY <1>4, <2>2, Zenon
    <3> QED BY <3>1, AppendProperties
  <2>7. Returned(q)
    BY <2>1, <2>2
  <2> HIDE DEF q
  <2>8. Len(delivered) \in Nat /\ Len(inbound) \in Nat /\ k = Len(delivered) + Len(inbound)
    BY <1>4 DEF k
  <2>9. Upcoming(q)
    <3>1. ASSUME NEW i \in 1 .. Len(q) PROVE q[i] = Len(delivered) + i
      <4>1. i \in 1 .. Len(inbound) \/ i = Len(inbound) + 1
        BY <2>6, <2>8
      <4>2. i \in 1 .. Len(inbound) => inbound[i] = Len(delivered) + i
        BY <1>1 DEF Handed
      <4>3. k + 1 = Len(delivered) + (Len(inbound) + 1)
        BY <2>8
      <4> QED BY <2>6, <4>1, <4>2, <4>3
    <3> QED BY <2>6, <3>1, Zenon DEF Upcoming
  <2>10. /\ Handed'
         /\ delivered' \in Seq(1 .. MaxMsgs) /\ inbound' \in Seq(1 .. MaxMsgs)
         /\ Len(delivered)' + Len(inbound)' = Len(delivered) + Len(q)
         /\ delivered' = Append(delivered, Len(delivered) + 1)
         /\ pc' \in {"wait", "receive"}
    BY <1>1, <1>4, <2>6, <2>7, <2>9, ReturnedFacts
  <2>11. pc' \in {"wait", "receive", "read", "failed", "spin", "overrun", "gone"} /\ pc' # "read"
    BY <2>10
  <2>12. TypeOK'
    <3>1. buf' \in Seq(Byte) /\ Len(buf') <= BufSize
      BY <1>6, <2>1
    <3> QED BY <1>1, <1>2, <1>10, <2>10, <2>11, <3>1, Zenon DEF TypeOK
  <2>13. Cut'
    BY <2>1, <2>11, Zenon DEF Cut
  <2>14. Len(delivered)' + Len(inbound)' = k + 1
    BY <2>6, <2>8, <2>10
  <2>15. Stream(Len(delivered)' + Len(inbound)', Flow', out'.msg, ended' # "reset")
    BY <1>2, <2>4, <2>5, <2>14, Zenon
  <2> QED BY <1>2, <2>10, <2>12, <2>13, <2>15 DEF Inv
<1>12. CASE ~(Legible(b[1].of) /\ Len(b) = b[1].of + 1)
  <2>1. buf' = b /\ pc' = pc /\ inbound' = inbound /\ delivered' = delivered
    BY <1>3, <1>12
  <2>2. Short(b) /\ Len(b) <= BufSize
    BY <1>2, <1>4, <1>5, <1>6, <1>12 DEF Short
  <2>3. TypeOK'
    BY <1>1, <1>2, <1>5, <1>10, <2>1, <2>2, Zenon DEF TypeOK
  <2>4. Cut'
    <3>1. pc' \notin {"wait", "receive"}
      BY <1>2, <2>1
    <3> QED BY <1>5, <2>1, <2>2, <3>1, Zenon DEF Cut
  <2>5. Flow' = Flow
    BY <1>2, <1>7, <1>10, <2>1, Zenon DEF Flow, x
  <2>6. Inv'
    BY <1>2, <2>1, <2>3, <2>4, <2>5, Still
  <2> QED BY <1>2, <2>1, <2>6
<1> QED BY <1>11, <1>12

-----------------------------------------------------------------------------
(* The theorems.                                                           *)

\* Every step keeps the invariant, and to the sender and the caller of Receive
\* it is a Put, a Get or nothing.
LEMMA Steps ==
    ASSUME Inv, [Next]_vars
    PROVE  /\ Inv'
           /\ \/ out'.msg = out.msg + 1 /\ UNCHANGED delivered
              \/ /\ out'.msg = out.msg
                 /\ \/ UNCHANGED delivered
                    \/ delivered' = Append(delivered, Len(delivered) + 1)
<1>1. ASSUME NEW s \in Sizes, Begin(s)
      PROVE  Inv' /\ out'.msg = out.msg + 1 /\ UNCHANGED delivered
  BY <1>1, BeginKeeps
<1>2. CASE Continue
  BY <1>2, ContinueKeeps
<1>3. CASE End \/ WriteFails
  BY <1>3, EndKeeps
<1>4. CASE Reset
  BY <1>4, ResetKeeps
<1>5. CASE Arrive
  BY <1>5, ArriveKeeps
<1>6. CASE ArriveEnd \/ Notified \/ Overrun \/ Eof \/ ReadError \/ GiveUp
  BY <1>6, QuietKeeps
<1>7. CASE FromQueue
  BY <1>7, FromQueueKeeps
<1>8. CASE Read
  BY <1>8, ReadKeeps
<1>9. CASE ReadByte
  BY <1>9, ReadByteKeeps
<1>10. CASE UNCHANGED vars
  <2>1. TypeOK /\ Cut
    BY Zenon DEF Inv
  <2>2. /\ out' = out /\ ended' = ended /\ flight' = flight /\ arrived' = arrived
        /\ fin' = fin /\ edge' = edge /\ pc' = pc /\ buf' = buf
        /\ inbound' = inbound /\ delivered' = delivered
    BY <1>10 DEF vars, sender, kernel, receiver
  <2>3. TypeOK' /\ Cut'
    BY <2>1, <2>2, Zenon DEF TypeOK, Cut
  <2>4. Flow' = Flow
    BY <2>2, Zenon DEF Flow, Left
  <2>5. Inv'
    BY <2>2, <2>3, <2>4, Still
  <2> QED BY <2>2, <2>5
<1> QED
  BY <1>1, <1>2, <1>3, <1>4, <1>5, <1>6, <1>7, <1>8, <1>9, <1>10, Zenon
  DEF Next, Network, Receiver

\* The bytes between the message Receive returned last and what send has still
\* to write are always one stretch of whole messages.
THEOREM Invariance == Spec => []Inv
<1>1. Inv /\ [Next]_vars => Inv'
  BY Steps
<1> QED BY InvInit, <1>1, PTL DEF Spec

\* Sender, kernel and receiver are always in states of their kind; the bytes
\* kept for a message that has not come whole never outgrow Receive's buffer.
THEOREM Typing == Spec => []TypeOK
<1>1. Inv => TypeOK
  BY Zenon DEF Inv
<1> QED BY <1>1, Invariance, PTL

\* The caller of Receive sees a first-in first-out queue of whole messages:
\* each one that was sent at most once, in order, however TCP cuts the stream
\* and wherever it ends.
THEOREM Implements == Spec => PipeSpec
<1>1. Init => Pipe!Init
  BY DEF Init, Pipe!Init
<1>2. ASSUME Inv, [Next]_vars PROVE [Pipe!Put \/ Pipe!Get]_Pipe!vars
  <2>1. Inv'
    BY <1>2, Steps
  <2>2. CASE out'.msg = out.msg + 1 /\ UNCHANGED delivered
    BY <2>2 DEF Pipe!Put
  <2>3. CASE out'.msg = out.msg /\ UNCHANGED delivered
    BY <2>3 DEF Pipe!vars
  <2>4. CASE out'.msg = out.msg /\ delivered' = Append(delivered, Len(delivered) + 1)
    <3>1. Len(delivered) \in Nat /\ out.msg \in Nat
      BY <1>2, FramesAssumption DEF Inv, TypeOK
    <3>2. Len(delivered') = Len(delivered) + 1
      BY <1>2, <2>4 DEF Inv, TypeOK
    <3>3. Len(delivered)' + Len(inbound)' <= out'.msg
      BY <2>1, Zenon DEF Inv, Stream
    <3>4. Len(inbound') \in Nat
      BY <2>1 DEF Inv, TypeOK
    <3>5. Len(delivered) < out.msg
      BY <2>4, <3>1, <3>2, <3>3, <3>4
    <3> QED BY <2>4, <3>5 DEF Pipe!Get
  <2> QED BY <1>2, <2>2, <2>3, <2>4, Steps
<1>3. Inv /\ [Next]_vars => [Pipe!Put \/ Pipe!Get]_Pipe!vars
  BY <1>2
<1> QED BY <1>1, <1>3, Invariance, PTL DEF Spec, PipeSpec, Pipe!Spec
=============================================================================
