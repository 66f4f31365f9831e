----------------------------- MODULE MiniClient -----------------------------
(***************************************************************************)
(* tools/miniclient/miniclient.py: one OP_MSG request at a time over a TCP *)
(* connection with a 1 s timeout.  The reply is framed by its first four   *)
(* bytes, and TCP may deliver it in pieces of any size.                    *)
(*                                                                         *)
(* A byte of the reply to request q is the pair <<q, i>>.  A reply starts  *)
(* with SizeField bytes that carry its length.  Any exception ends the use *)
(* of the connection: the callers (test_opmsg_limits.py) let it propagate  *)
(* and close the socket in tearDown before the next connect.               *)
(*                                                                         *)
(* An operator whose name starts with Mutant is a broken variant of the    *)
(* definition that follows it; no specification uses it.                   *)
(***************************************************************************)
EXTENDS Integers, Sequences, FiniteSetsExt

CONSTANTS
  SizeField,    \* length of messageLength in bytes (4 in the protocol)
  BodyLengths,  \* lengths a reply may have after messageLength
  MaxRequests   \* bound on the requests sent

ASSUME MiniAssumption ==
  /\ SizeField \in Nat \ {0}
  /\ BodyLengths \subseteq Nat \ {0}
  /\ MaxRequests \in Nat

VARIABLES
  pc,          \* "closed", "idle", "header", "body", "raised"
  opened,      \* request_id when the connection was opened
  request_id,  \* the module's global counter
  body,        \* per request: length of its reply after messageLength, 0 = none
  wire,        \* bytes of the server's replies still under way
  rcvbuf,      \* bytes that arrived and were not received yet
  want, out,   \* parameter and local of _recvall
  returned     \* per request: what send_opmsg returned, <<>> = nothing yet

vars == <<pc, opened, request_id, body, wire, rcvbuf, want, out, returned>>

Requests == 1..MaxRequests

\* The bytes of a reply to request q whose body has n bytes.
Reply(q, n) == [i \in 1..(SizeField + n) |-> <<q, i>>]

Init ==
  /\ pc = "closed"
  /\ opened = 0
  /\ request_id = 0
  /\ body = [q \in Requests |-> 0]
  /\ wire = <<>>
  /\ rcvbuf = <<>>
  /\ want = 0
  /\ out = <<>>
  /\ returned = [q \in Requests |-> <<>>]

-----------------------------------------------------------------------------
\* socket.create_connection in connect().
Connect ==
  /\ pc = "closed"
  /\ pc' = "idle"
  /\ opened' = request_id
  /\ UNCHANGED <<request_id, body, wire, rcvbuf, want, out, returned>>

(* build_opmsg and sendall: a fresh requestID, then _recvall(conn, 4).  The *)
(* first request of a connection is connect()'s hello.                     *)
Send ==
  /\ pc = "idle"
  /\ request_id < MaxRequests
  /\ request_id' = request_id + 1
  /\ pc' = "header"
  /\ want' = SizeField
  /\ out' = <<>>
  /\ UNCHANGED <<opened, body, wire, rcvbuf, returned>>

\* One turn of _recvall's loop: recv is asked for `want' bytes again.
Recv ==
  /\ pc \in {"header", "body"}
  /\ Len(out) < want
  /\ rcvbuf # <<>>
  /\ LET n == Min({want, Len(rcvbuf)})
     IN  /\ out' = out \o SubSeq(rcvbuf, 1, n)
         /\ rcvbuf' = SubSeq(rcvbuf, n + 1, Len(rcvbuf))
  /\ UNCHANGED <<pc, opened, request_id, body, wire, want, returned>>

MutantExceptionState == "idle"

\* Where an exception leaves the connection: nobody uses it again.
ExceptionState == "raised"

MutantRemaining(msg_size) == msg_size - SizeField - 1

\* What is left to receive of a reply of msg_size bytes.
Remaining(msg_size) == msg_size - SizeField

(* struct.unpack("<i", ...) raises unless it is given exactly four bytes.  *)
(* Otherwise they are the messageLength of the reply they belong to, since *)
(* FramingKept puts them at its beginning.                                 *)
UnpackSize ==
  /\ pc = "header"
  /\ Len(out) >= want
  /\ IF Len(out) = SizeField
       THEN /\ pc' = "body"
            /\ want' = Remaining(SizeField + body[out[1][1]])
            /\ out' = <<>>
       ELSE /\ pc' = ExceptionState
            /\ UNCHANGED <<want, out>>
  /\ UNCHANGED <<opened, request_id, body, wire, rcvbuf, returned>>

(* parse_opmsg and bson.decode.  decode rejects a document that is not     *)
(* followed by the end of the message.  In connect(), a reply without ok:1 *)
(* raises as well.                                                         *)
ParseReply ==
  /\ pc = "body"
  /\ Len(out) >= want
  /\ IF Len(out) = want
       THEN /\ returned' = [returned EXCEPT ![request_id] = out]
            /\ pc' = "idle"
       ELSE /\ pc' = ExceptionState
            /\ UNCHANGED returned
  /\ UNCHANGED <<opened, request_id, body, wire, rcvbuf, want, out>>

(* sendall or recv fails, recv returns no bytes because the peer closed,   *)
(* the 1 s timeout of the socket strikes, the reply is not an OP_MSG with  *)
(* a payload 0 section, or the handshake is refused.                       *)
Raise ==
  /\ pc \in {"header", "body"}
  /\ pc' = ExceptionState
  /\ UNCHANGED <<opened, request_id, body, wire, rcvbuf, want, out, returned>>

\* tearDown closes the socket: what was under way on it is gone.
Close ==
  /\ pc = "raised" \/ (pc = "idle" /\ request_id > opened)
  /\ pc' = "closed"
  /\ wire' = <<>>
  /\ rcvbuf' = <<>>
  /\ UNCHANGED <<opened, request_id, body, want, out, returned>>

-----------------------------------------------------------------------------
(* The server answers the requests of this connection in order, perhaps    *)
(* after the client gave up waiting (external).                            *)
Answer(q) ==
  /\ pc # "closed"
  /\ q \in (opened + 1)..request_id
  /\ body[q] = 0
  /\ \A p \in (opened + 1)..(q - 1) : body[p] # 0
  /\ \E n \in BodyLengths :
       /\ body' = [body EXCEPT ![q] = n]
       /\ wire' = wire \o Reply(q, n)
  /\ UNCHANGED <<pc, opened, request_id, rcvbuf, want, out, returned>>

\* TCP delivers the next segment, of any length.
Deliver ==
  /\ wire # <<>>
  /\ \E n \in 1..Len(wire) :
       /\ rcvbuf' = rcvbuf \o SubSeq(wire, 1, n)
       /\ wire' = SubSeq(wire, n + 1, Len(wire))
  /\ UNCHANGED <<pc, opened, request_id, body, want, out, returned>>

Next ==
  \/ Connect \/ Send \/ Recv \/ UnpackSize \/ ParseReply \/ Raise \/ Close
  \/ (\E q \in Requests : Answer(q)) \/ Deliver

Spec == Init /\ [][Next]_vars

-----------------------------------------------------------------------------
(* Whatever send_opmsg returns is the whole body of the reply to its own   *)
(* request, although parse_opmsg never looks at responseTo: a reply that   *)
(* came late or in pieces is never taken for the answer to a later one.    *)
ReplyIsForRequest ==
  \A q \in Requests : returned[q] # <<>> =>
    returned[q] = SubSeq(Reply(q, body[q]), SizeField + 1, SizeField + body[q])

(* Between two commands nothing of an earlier reply is left on the way, so *)
(* the next four bytes are a messageLength again.                          *)
FramingKept ==
  pc \in {"closed", "idle"} => wire = <<>> /\ rcvbuf = <<>>

(* The docstring of _recvall: "Receives exactly `want` bytes on a socket   *)
(* or raises an exception."  _recvall returns when it has at least `want'. *)
RecvallExact ==
  pc \in {"header", "body"} /\ Len(out) >= want => Len(out) = want
=============================================================================
