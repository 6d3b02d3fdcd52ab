------------------------------- MODULE Frames -------------------------------
(***************************************************************************)
(* One direction of a Connection: send at one end, Receive and the loop    *)
(* that calls it at the other.                                             *)
(*                                                                         *)
(* A message travels as a length byte and its bytes.  TCP cuts the stream  *)
(* where it likes; Receive reads once up to the end of its buffer, keeps   *)
(* the whole messages it finds in inboundQueue and reads the rest of the   *)
(* last one byte by byte.  The loops that call Receive differ in two ways: *)
(* whether they empty inboundQueue, and whether they hear of new bytes     *)
(* (epoll with EPOLLET) or of unread ones (poll).                          *)
(*                                                                         *)
(* The length byte is a char, and so signed where it is read: the sizes    *)
(* from one half of BufSize on, which send accepts, become huge numbers.   *)
(* Receive then waits for a message that never ends, and for the largest   *)
(* of them for one that takes no bytes.                                    *)
(*                                                                         *)
(* Reads and writes wait here as long as it takes: the socket timeouts are *)
(* beyond eight minutes.                                                   *)
(***************************************************************************)
EXTENDS Naturals, Sequences, SequencesExt

CONSTANTS Sizes,          \* sizes of messages, as sent in the length byte
          BufSize,        \* size of Receive's buffer, and number of lengths a byte holds
          MaxMsgs,        \* bound: messages sent
          Drains,         \* the caller empties inboundQueue
          EdgeTriggered   \* the caller hears of a socket by EPOLLET

\* The sizes are those that send does not refuse.
ASSUME FramesAssumption ==
    /\ BufSize \in Nat /\ MaxMsgs \in Nat
    /\ Sizes # {} /\ \A s \in Sizes : s \in Nat /\ s >= 1 /\ s < BufSize
    /\ Drains \in BOOLEAN /\ EdgeTriggered \in BOOLEAN

VARIABLES
    out,        \* send: messages begun, and what is left to write of the last
    flight,     \* bytes under way
    arrived,    \* bytes in the receiver's kernel
    ended,      \* how the sender's side of the connection ended
    fin,        \* the receiver's kernel knows of that
    edge,       \* bytes or the end have come since the caller last heard
    pc,         \* where the receiving thread is
    buf,        \* Receive's buffer
    inbound,    \* inboundQueue
    delivered   \* history: what Receive has returned

sender == <<out, ended>>
kernel == <<flight, arrived, fin>>
receiver == <<pc, buf, inbound, delivered>>
vars == <<sender, kernel, edge, receiver>>

\* Receive reads the size s as what it is, and not as a negative number.
Legible(s) == 2 * s < BufSize

\* Byte number at of message number msg, which has size of; byte 0 holds of.
Byte == [msg : 1 .. MaxMsgs, at : 0 .. BufSize, of : Sizes]

Frame(m, s) == [i \in 1 .. s + 1 |-> [msg |-> m, at |-> i - 1, of |-> s]]

\* What ParseFromArray makes of the first bytes of b: 0 if they are no frame.
Decoded(b) == IF SubSeq(b, 1, b[1].of + 1) = Frame(b[1].msg, b[1].of)
              THEN b[1].msg ELSE 0

TypeOK == /\ out \in [msg : 0 .. MaxMsgs, left : Seq(Byte)]
          /\ flight \in Seq(Byte) /\ arrived \in Seq(Byte)
          /\ ended \in {"no", "closed", "killed", "reset", "stuck"}
          /\ fin \in BOOLEAN /\ edge \in BOOLEAN
          /\ pc \in {"wait", "receive", "read", "failed", "spin", "overrun", "gone"}
          /\ buf \in Seq(Byte) /\ Len(buf) <= BufSize
          /\ inbound \in Seq(1 .. MaxMsgs) /\ delivered \in Seq(1 .. MaxMsgs)

Init == /\ out = [msg |-> 0, left |-> <<>>]
        /\ flight = <<>> /\ arrived = <<>>
        /\ ended = "no" /\ fin = FALSE /\ edge = FALSE
        /\ pc = "wait" /\ buf = <<>> /\ inbound = <<>> /\ delivered = <<>>

-----------------------------------------------------------------------------
(* Sending.                                                                *)

Begin(s) ==
    /\ ended = "no"
    /\ out.left = <<>> /\ out.msg < MaxMsgs
    /\ \E n \in 1 .. s + 1 :
          LET f == Frame(out.msg + 1, s)
          IN  /\ flight' = flight \o SubSeq(f, 1, n)
              /\ out' = [msg |-> out.msg + 1, left |-> SubSeq(f, n + 1, s + 1)]
    /\ UNCHANGED <<ended, arrived, fin, edge, receiver>>

\* The loop of send after a write that did not take everything.  (A message
\* that fills the buffer of send and goes out at once is reported as failed.)
Continue ==
    /\ ended = "no"
    /\ \E n \in 1 .. Len(out.left) :
          /\ flight' = flight \o SubSeq(out.left, 1, n)
          /\ out' = [out EXCEPT !.left = SubSeq(@, n + 1, Len(@))]
    /\ UNCHANGED <<ended, arrived, fin, edge, receiver>>

\* In that loop a write fails, as it does when the receiver has gone.  It
\* returns -1, which as a size_t is not <= 0: send counts one byte back and
\* tries again, for ever.
WriteFails == /\ ended = "no"
              /\ pc = "gone" /\ out.left # <<>>
              /\ ended' = "stuck"
              /\ UNCHANGED <<out, kernel, edge, receiver>>

\* The sender closes the socket, or ends in the middle of a message.
End == /\ ended = "no"
       /\ ended' = IF out.left = <<>> THEN "closed" ELSE "killed"
       /\ UNCHANGED <<out, kernel, edge, receiver>>

\* The sender ends with bytes unread: the connection is reset.
Reset == /\ ended = "no"
         /\ ended' = "reset"
         /\ flight' = <<>> /\ fin' = TRUE /\ edge' = TRUE
         /\ UNCHANGED <<out, arrived, receiver>>

-----------------------------------------------------------------------------
(* The network.                                                            *)

Arrive == /\ \E n \in 1 .. Len(flight) :
                /\ arrived' = arrived \o SubSeq(flight, 1, n)
                /\ flight' = SubSeq(flight, n + 1, Len(flight))
          /\ edge' = TRUE
          /\ UNCHANGED <<sender, fin, receiver>>

ArriveEnd == /\ flight = <<>> /\ ended \in {"closed", "killed"} /\ ~fin
             /\ fin' = TRUE /\ edge' = TRUE
             /\ UNCHANGED <<sender, flight, arrived, receiver>>

-----------------------------------------------------------------------------
(* Receiving.                                                              *)

\* The whole messages at the front of b, and the bytes that follow them: the
\* beginning of a message, or a message of which the size is misread.
Scan[b \in Seq(Byte)] ==
    IF b = <<>> \/ ~Legible(b[1].of) \/ Len(b) < b[1].of + 1
    THEN [msgs |-> <<>>, rest |-> b]
    ELSE LET r == Scan[SubSeq(b, b[1].of + 2, Len(b))]
         IN  [r EXCEPT !.msgs = <<Decoded(b)>> \o @]

\* Faulty: after a message the bytes that follow it are not moved up.
UnmovedScan[b \in Seq(Byte)] ==
    IF b = <<>> \/ ~Legible(b[1].of) \/ Len(b) < b[1].of + 1
    THEN [msgs |-> <<>>, rest |-> b]
    ELSE LET r == UnmovedScan[SubSeq(b, 1, Len(b) - b[1].of - 1)]
         IN  [r EXCEPT !.msgs = <<Decoded(b)>> \o @]

ParsedUnmoved(b) == UnmovedScan[b]

Parsed(b) == Scan[b]

\* The event loop hears of the socket.
Notified ==
    /\ pc = "wait"
    /\ arrived # <<>> \/ fin
    /\ EdgeTriggered => edge
    /\ pc' = "receive" /\ edge' = FALSE
    /\ UNCHANGED <<sender, kernel, buf, inbound, delivered>>

\* Faulty: the caller leaves what is queued for the next event.
ReturnedOnce(q) == /\ delivered' = Append(delivered, Head(q))
                   /\ inbound' = Tail(q)
                   /\ pc' = "wait"

\* Faulty: what was read last is returned before what was queued.
ReturnedLast(q) == /\ delivered' = Append(delivered, Last(q))
                   /\ inbound' = Front(q)
                   /\ pc' = IF Drains /\ Front(q) # <<>> THEN "receive" ELSE "wait"

\* Receive returns the head of the queue q, and its caller goes on.
Returned(q) == /\ delivered' = Append(delivered, Head(q))
               /\ inbound' = Tail(q)
               /\ pc' = IF Drains /\ Tail(q) # <<>> THEN "receive" ELSE "wait"

FromQueue == /\ pc = "receive"
             /\ inbound # <<>>
             /\ Returned(inbound)
             /\ UNCHANGED <<sender, kernel, edge, buf>>

\* The first read, and the messages that came whole.  A message of the largest
\* size has msg_size + 1 = 0: Receive cuts empty messages off the buffer, which
\* does not get shorter.
Read == /\ pc = "receive"
        /\ inbound = <<>> /\ arrived # <<>>
        /\ LET n == IF Len(arrived) < BufSize THEN Len(arrived) ELSE BufSize
               p == Parsed(SubSeq(arrived, 1, n))
           IN  /\ arrived' = SubSeq(arrived, n + 1, Len(arrived))
               /\ buf' = p.rest
               /\ IF p.rest = <<>>
                  THEN Returned(p.msgs)
                  ELSE /\ inbound' = p.msgs
                       /\ pc' = IF p.rest[1].of + 1 = BufSize THEN "spin" ELSE "read"
                       /\ UNCHANGED delivered
        /\ UNCHANGED <<sender, flight, fin, edge>>

\* The loop that reads the rest of a message byte by byte; of a message with a
\* misread size it never has enough.
ReadByte == /\ pc = "read"
            /\ arrived # <<>> /\ Len(buf) < BufSize
            /\ LET b == Append(buf, Head(arrived))
               IN  IF Legible(b[1].of) /\ Len(b) = b[1].of + 1
                   THEN Returned(Append(inbound, Decoded(b))) /\ buf' = <<>>
                   ELSE buf' = b /\ UNCHANGED <<pc, inbound, delivered>>
            /\ arrived' = Tail(arrived)
            /\ UNCHANGED <<sender, flight, fin, edge>>

\* The next byte goes behind the buffer.  What comes of that is undefined, and
\* the thread is followed no further.
Overrun == /\ pc = "read"
           /\ arrived # <<>> /\ Len(buf) = BufSize
           /\ pc' = "overrun"
           /\ UNCHANGED <<sender, kernel, edge, buf, inbound, delivered>>

\* Faulty: only the loop looks for the end of the stream.
EofIgnored == /\ fin /\ arrived = <<>> /\ ended # "reset"
              /\ pc = "read"
              /\ pc' = "failed"
              /\ UNCHANGED <<sender, kernel, edge, buf, inbound, delivered>>

\* read(2) returns 0, and Receive nothing: the caller gives the peer up.
Eof == /\ fin /\ arrived = <<>> /\ ended # "reset"
       /\ pc = "read" \/ (pc = "receive" /\ inbound = <<>>)
       /\ pc' = "failed"
       /\ UNCHANGED <<sender, kernel, edge, buf, inbound, delivered>>

\* read(2) returns -1, which as a size_t passes for a number of bytes.  In the
\* loop that takes one byte back and reads again, which returns 0; the first
\* read goes on to cut empty messages out of its buffer without end.
ReadError == /\ fin /\ arrived = <<>> /\ ended = "reset"
             /\ pc = "read" \/ (pc = "receive" /\ inbound = <<>>)
             /\ pc' = IF pc = "read" THEN "failed" ELSE "spin"
             /\ UNCHANGED <<sender, kernel, edge, buf, inbound, delivered>>

\* The receiver closes the socket on its own account, or its process ends.
GiveUp == /\ pc \notin {"failed", "gone"}
          /\ pc' = "gone"
          /\ UNCHANGED <<sender, kernel, edge, buf, inbound, delivered>>

-----------------------------------------------------------------------------
Network == Arrive \/ ArriveEnd

Receiver == Notified \/ FromQueue \/ Read \/ ReadByte \/ Overrun \/ Eof
            \/ ReadError

Next == \/ \E s \in Sizes : Begin(s)
        \/ Continue
        \/ WriteFails
        \/ End
        \/ Reset
        \/ Network
        \/ Receiver
        \/ GiveUp

Spec == Init /\ [][Next]_vars

\* TCP delivers what was sent, send finishes what it began while the receiver is
\* there, and the receiving thread runs.
FairSpec == Spec /\ WF_vars(Continue) /\ WF_vars(Network) /\ WF_vars(Receiver)

-----------------------------------------------------------------------------
(* Properties.                                                             *)

\* The caller of Receive sees a first-in first-out queue of whole messages,
\* however the stream is cut and wherever it ends, for as long as Receive
\* returns: a message of misread size lets nothing through, no wrong message.
Pipe == INSTANCE Fifo WITH sent <- out.msg, got <- delivered
PipeSpec == Pipe!Spec

Sent(m) == m < out.msg \/ (m = out.msg /\ out.left = <<>>)

Broken == ended \in {"killed", "reset"} \/ pc = "gone"

\* Receive is at a message of which it misread the size.
Misled == pc \in {"spin", "overrun"} \/ (buf # <<>> /\ ~Legible(buf[1].of))

\* A message that was sent whole is returned, unless the connection breaks or
\* Receive has come upon a size that it misreads.
EveryMessageArrives ==
    \A m \in 1 .. MaxMsgs : Sent(m) ~> (m \in ToSet(delivered) \/ Broken \/ Misled)

\* The end of the stream is noticed and the caller gets to clean up, unless
\* Receive does not return from a message of misread size.
EofIsNoticed ==
    (ended \in {"closed", "killed"}) ~> (pc \in {"failed", "spin", "overrun", "gone"})

-----------------------------------------------------------------------------
(* What the repository says and the code does not do.                      *)

\* Connection.h on Receive: "If there is an error/timeout while reading return
\* nothing".
ErrorReturnsNothing == (ended = "reset") ~> (pc \in {"failed", "gone"})

\* Receive's loop: "Read until we get the message".  Any message that send has
\* taken is returned, whatever its size.
EverySizeArrives == \A m \in 1 .. MaxMsgs : Sent(m) ~> (m \in ToSet(delivered) \/ Broken)
=============================================================================
