----------------------------- MODULE Connection -----------------------------
(***************************************************************************)
(* Messages over a pipe or a socket, as Connection of                      *)
(* billiard/connection.py sends and receives them: a header with the       *)
(* length, then the payload, through write and read calls that transfer as *)
(* much as there is room for or data.  One process sends, one receives;    *)
(* the sender may close or die between two write calls.  The pipe carries  *)
(* units (bytes): a header is HeaderUnits of them, and unit k of message m *)
(* is [msg, at]: at = 0 in the header, and the position in the payload.    *)
(***************************************************************************)
EXTENDS Integers, Sequences

CONSTANTS
  Payloads,      \* the lengths of the messages that are sent, in order
  HeaderUnits,   \* units of a header
  Large,         \* a payload longer than this is sent apart from its header
  PipeUnits,     \* capacity of the pipe
  MaxLength      \* the argument maxlength of recv_bytes, the buffer of recv_bytes_into

ASSUME ConnectionAssumption ==
  /\ Payloads \in Seq(Nat)
  /\ HeaderUnits \in Nat \ {0} /\ PipeUnits \in Nat \ {0}
  /\ Large \in Nat /\ MaxLength \in Nat

VARIABLES
  cnMsg,       \* messages whose sending has begun
  cnBuf,       \* what the current write call has still to write
  cnAfter,     \* the buffer of the write call that follows
  cnClosed,    \* the sending end is closed
  cnPipe,      \* units in the pipe
  cnCall,      \* "none", "recv", "bytes" or "into": the call of the receiver
  cnWant,      \* units that _recv has still to read
  cnPart,      \* "head" or "body": what it reads
  cnRead,      \* the units read by it
  cnHead,      \* the header read before
  cnGot,       \* what the calls have returned: messages, TooShort or Refused
  cnEnd,       \* "no", or the error that ended the receiving: "eof", "broken" or "length"
  cnReadable   \* _readable and not closed

cnSendVars == <<cnMsg, cnBuf, cnAfter, cnClosed>>
cnRecvVars == <<cnCall, cnWant, cnPart, cnRead, cnHead, cnGot, cnEnd, cnReadable>>
cnVars == <<cnSendVars, cnPipe, cnRecvVars>>

Header(m) == [k \in 1..HeaderUnits |-> [msg |-> m, at |-> 0]]
Payload(m) == [k \in 1..Payloads[m] |-> [msg |-> m, at |-> k]]

\* In place of a message: BufferTooShort, and "bad message length".
TooShort == <<[msg |-> 0, at |-> 0]>>
Refused  == <<[msg |-> 0, at |-> 1]>>

CnInit ==
  /\ cnMsg = 0 /\ cnBuf = <<>> /\ cnAfter = <<>> /\ cnClosed = FALSE
  /\ cnPipe = <<>>
  /\ cnCall = "none" /\ cnWant = 0 /\ cnPart = "head" /\ cnRead = <<>> /\ cnHead = <<>>
  /\ cnGot = <<>> /\ cnEnd = "no" /\ cnReadable = TRUE

(***************************************************************************)
(* The sender                                                              *)
(***************************************************************************)

\* send, send_bytes: _send_bytes with one buffer, or two for a large payload.
CnSend ==
  /\ cnBuf = <<>> /\ cnAfter = <<>> /\ ~cnClosed /\ cnMsg < Len(Payloads)
  /\ cnMsg' = cnMsg + 1
  /\ IF Payloads[cnMsg + 1] > Large
     THEN cnBuf' = Header(cnMsg + 1) /\ cnAfter' = Payload(cnMsg + 1)
     ELSE cnBuf' = Header(cnMsg + 1) \o Payload(cnMsg + 1) /\ cnAfter' = <<>>
  /\ UNCHANGED <<cnClosed, cnPipe, cnRecvVars>>

\* Mutant of CnWrite: a short write counts as a whole one.
CnWriteOnce(n) ==
  /\ cnBuf # <<>> /\ ~cnClosed
  /\ n \in 1..Len(cnBuf) /\ Len(cnPipe) + n <= PipeUnits
  /\ cnPipe' = cnPipe \o SubSeq(cnBuf, 1, n)
  /\ cnBuf' = cnAfter /\ cnAfter' = <<>>
  /\ UNCHANGED <<cnMsg, cnClosed, cnRecvVars>>

\* Mutant of CnWrite: nothing is written until there is room for all of it.
CnWriteWhole(n) ==
  /\ cnBuf # <<>> /\ ~cnClosed
  /\ n = Len(cnBuf) /\ Len(cnPipe) + n <= PipeUnits
  /\ cnPipe' = cnPipe \o cnBuf
  /\ cnBuf' = cnAfter /\ cnAfter' = <<>>
  /\ UNCHANGED <<cnMsg, cnClosed, cnRecvVars>>

\* One write call of _send: n units fit; the rest is written by the next one.
CnWrite(n) ==
  /\ cnBuf # <<>> /\ ~cnClosed
  /\ n \in 1..Len(cnBuf) /\ Len(cnPipe) + n <= PipeUnits
  /\ cnPipe' = cnPipe \o SubSeq(cnBuf, 1, n)
  /\ IF n < Len(cnBuf)
     THEN cnBuf' = SubSeq(cnBuf, n + 1, Len(cnBuf)) /\ UNCHANGED cnAfter
     ELSE cnBuf' = cnAfter /\ cnAfter' = <<>>
  /\ UNCHANGED <<cnMsg, cnClosed, cnRecvVars>>

\* close, or the death of the sender, between two write calls.
CnClose ==
  /\ ~cnClosed /\ cnMsg > 0 /\ cnClosed' = TRUE
  /\ UNCHANGED <<cnMsg, cnBuf, cnAfter, cnPipe, cnRecvVars>>

(***************************************************************************)
(* The receiver                                                            *)
(***************************************************************************)

\* recv, recv_bytes(maxlength), recv_bytes_into: _recv(4) begins.
CnReceive(call) ==
  /\ cnCall = "none" /\ cnReadable /\ cnEnd \notin {"eof", "broken"}
  /\ cnCall' = call
  /\ cnPart' = "head" /\ cnWant' = HeaderUnits /\ cnRead' = <<>>
  /\ UNCHANGED <<cnSendVars, cnPipe, cnHead, cnGot, cnEnd, cnReadable>>

\* One read call of _recv.
CnReadSome(n) ==
  /\ cnCall # "none" /\ cnWant > 0
  /\ n \in 1..cnWant /\ n <= Len(cnPipe)
  /\ cnRead' = cnRead \o SubSeq(cnPipe, 1, n)
  /\ cnPipe' = SubSeq(cnPipe, n + 1, Len(cnPipe))
  /\ cnWant' = cnWant - n
  /\ UNCHANGED <<cnSendVars, cnCall, cnPart, cnHead, cnGot, cnEnd, cnReadable>>

\* read returns nothing: EOFError before the first unit of this part,
\* otherwise "got end of file during message".
CnReadEof ==
  /\ cnCall # "none" /\ cnWant > 0 /\ cnPipe = <<>> /\ cnClosed
  /\ cnEnd' = IF cnRead = <<>> THEN "eof" ELSE "broken"
  /\ cnCall' = "none"
  /\ UNCHANGED <<cnSendVars, cnPipe, cnWant, cnPart, cnRead, cnHead, cnGot,
                 cnReadable>>

\* The length that a header announces.  Any other unit is not a length.
Announced(units) == IF units[1].at = 0 THEN Payloads[units[1].msg] ELSE 0

\* _recv_bytes has the header.  A length above maxlength is refused by
\* _bad_message_length: a writable end cannot be read any more, another one is
\* closed.
CnGotHeader ==
  /\ cnCall # "none" /\ cnPart = "head" /\ cnWant = 0
  /\ cnHead' = cnRead /\ cnRead' = <<>>
  /\ IF cnCall = "bytes" /\ Announced(cnRead) > MaxLength
     THEN /\ cnReadable' = FALSE
          /\ cnCall' = "none" /\ cnEnd' = "length"
          /\ cnGot' = Append(cnGot, Refused)
          /\ UNCHANGED <<cnPart, cnWant>>
     ELSE /\ cnPart' = "body" /\ cnWant' = Announced(cnRead)
          /\ UNCHANGED <<cnCall, cnGot, cnEnd, cnReadable>>
  /\ UNCHANGED <<cnSendVars, cnPipe>>

\* ... and the payload: the message, or BufferTooShort, which takes it too.
CnGotPayload ==
  /\ cnCall # "none" /\ cnPart = "body" /\ cnWant = 0
  /\ cnGot' = Append(cnGot, IF cnCall = "into" /\ Len(cnRead) > MaxLength THEN TooShort
                            ELSE cnHead \o cnRead)
  /\ cnCall' = "none"
  /\ UNCHANGED <<cnSendVars, cnPipe, cnWant, cnPart, cnRead, cnHead, cnEnd,
                 cnReadable>>

CnWriteStep == \E n \in 1..PipeUnits : CnWrite(n)
CnReadStep == (\E n \in 1..PipeUnits : CnReadSome(n)) \/ CnGotHeader \/ CnGotPayload \/ CnReadEof
CnReceiveAny == \E call \in {"recv", "bytes", "into"} : CnReceive(call)

CnNext ==
  \/ CnSend \/ CnWriteStep \/ CnClose
  \/ (cnMsg > 0 /\ CnReceiveAny) \/ CnReadStep

CnSpec == CnInit /\ [][CnNext]_cnVars

\* The sender writes on as long as there is room and the receiver goes on
\* calling; interrupted calls (EINTR) are repeated.
CnProgress == CnWriteStep \/ CnReadStep \/ (cnMsg > 0 /\ CnReceiveAny)
CnFairness == WF_cnVars(CnProgress)

(***************************************************************************)
(* Properties                                                              *)
(***************************************************************************)

\* The calls return the messages that were sent, whole, in order and each once,
\* however writes and reads split them, and no payload is ever taken for a
\* header, also after a message was refused.
MessagesIntact ==
  /\ Len(cnGot) <= cnMsg
  /\ \A k \in DOMAIN cnGot : cnGot[k] \in {TooShort, Refused, Header(k) \o Payload(k)}

\* EOFError comes only when every message of which some payload was written has
\* been returned: at most a message without any of its payload is dropped silently.
EofAfterAll ==
  cnEnd = "eof" =>
    \/ Len(cnGot) = cnMsg
    \/ /\ Len(cnGot) = cnMsg - 1 /\ cnBuf \o cnAfter # <<>>
       /\ cnBuf \o cnAfter \in {Payload(cnMsg), Header(cnMsg) \o Payload(cnMsg)}

\* A receiver sees whole messages in their order, and an end of the stream only
\* where it is one.
StreamSafe ==
  /\ MessagesIntact
  /\ EofAfterAll

\* A message that the sender has begun is written to its end while the receiver
\* goes on reading, whatever the capacity of the pipe.
SendCompletes ==
  cnBuf # <<>> ~> cnBuf \o cnAfter = <<>> \/ cnClosed \/ ~cnReadable

=============================================================================
