-------------------------- MODULE MiniClientProofs --------------------------
(***************************************************************************)
(* Proofs about MiniClient: for any number of requests, any reply lengths  *)
(* and any way TCP cuts the replies into segments, the framing of the      *)
(* stream is kept and send_opmsg returns the reply to its own request.     *)
(*                                                                         *)
(* What is inductive is a statement about the whole stream of a            *)
(* connection: the bytes _recvall holds, then those in the socket's        *)
(* buffer, then those under way are together exactly what is left of the   *)
(* reply to the request in progress.                                       *)
(***************************************************************************)
EXTENDS MiniClient, SequenceTheorems, TLAPS

Bytes == Nat \X Nat

\* Concatenation under a name, so that nested ones stay terms to the provers.
Cat(s, t) == s \o t

\* What is left of the stream, from the first byte _recvall holds.
Stream == Cat(out, Cat(rcvbuf, wire))

\* The bytes of the reply to q after messageLength.
Rest(q) == SubSeq(Reply(q, body[q]), SizeField + 1, SizeField + body[q])

TypeOK ==
  /\ pc \in {"closed", "idle", "header", "body", "raised"}
  /\ opened \in Nat
  /\ request_id \in Nat
  /\ body \in [Requests -> Nat]
  /\ wire \in Seq(Bytes)
  /\ rcvbuf \in Seq(Bytes)
  /\ want \in Nat
  /\ out \in Seq(Bytes)
  /\ returned \in [Requests -> Seq(Bytes)]

\* The requests of the connection, and those that are not sent yet.
Counted ==
  /\ opened <= request_id
  /\ request_id <= MaxRequests
  /\ pc \in {"header", "body"} => opened < request_id
  /\ \A p \in Requests : p > request_id => body[p] = 0
  /\ \A p \in Requests : body[p] = 0 => returned[p] = <<>>

\* While the connection is in use only the last request can lack its answer.
Answered ==
  /\ pc \in {"idle", "header", "body"} =>
       \A p \in Requests : opened < p /\ p < request_id => body[p] # 0
  /\ pc \in {"idle", "body"} /\ opened < request_id => body[request_id] # 0

\* What the stream of the connection holds.
StreamRight ==
  /\ pc = "header" =>
       /\ want = SizeField
       /\ body[request_id] = 0 => Stream = <<>>
       /\ body[request_id] # 0 => Stream = Reply(request_id, body[request_id])
  /\ pc = "body" =>
       /\ want = body[request_id]
       /\ Stream = Rest(request_id)

Inv ==
  /\ TypeOK
  /\ Counted
  /\ Answered
  /\ StreamRight
  /\ FramingKept
  /\ ReplyIsForRequest

-----------------------------------------------------------------------------
LEMMA CatInSeq ==
  ASSUME NEW S, NEW s \in Seq(S), NEW t \in Seq(S)
  PROVE  Cat(s, t) \in Seq(S) /\ Len(Cat(s, t)) = Len(s) + Len(t)
BY ConcatProperties DEF Cat

LEMMA CatAssociative ==
  ASSUME NEW S, NEW s \in Seq(S), NEW t \in Seq(S), NEW u \in Seq(S)
  PROVE  Cat(Cat(s, t), u) = Cat(s, Cat(t, u))
BY ConcatAssociative DEF Cat

\* A sequence cut in two is the concatenation of its pieces.
LEMMA CutInTwo ==
  ASSUME NEW S, NEW t \in Seq(S), NEW n \in 0..Len(t)
  PROVE  /\ SubSeq(t, 1, n) \in Seq(S)
         /\ SubSeq(t, n + 1, Len(t)) \in Seq(S)
         /\ Cat(SubSeq(t, 1, n), SubSeq(t, n + 1, Len(t))) = t
<1> DEFINE a == SubSeq(t, 1, n)
           b == SubSeq(t, n + 1, Len(t))
<1>0. Len(t) \in Nat /\ n \in Nat
  BY LenProperties
<1>1. a \in Seq(S)
  <2>1. \A i \in 1..n : t[i] \in S
    BY <1>0, ElementOfSeq
  <2> QED
    BY <2>1, <1>0, SubSeqProperties
<1>2. b \in Seq(S)
  <2>1. \A i \in (n + 1)..Len(t) : t[i] \in S
    BY <1>0, ElementOfSeq
  <2> QED
    BY <2>1, <1>0, SubSeqProperties
<1>3. a \o b = t
  <2>1. 1 \in 1..(Len(t) + 1) /\ n \in (1 - 1)..Len(t) /\ Len(t) \in n..Len(t)
    BY <1>0
  <2>2. a \o b = SubSeq(t, 1, Len(t))
    BY <2>1, ConcatAdjacentSubSeq
  <2> QED
    BY <2>2, SubSeqFull
<1> QED
  BY <1>1, <1>2, <1>3 DEF Cat

(* Recv moves bytes from the buffer to out, Deliver from the wire to the   *)
(* buffer: neither changes the stream.                                     *)
LEMMA BytesMove ==
  ASSUME NEW S, NEW s \in Seq(S), NEW t \in Seq(S), NEW u \in Seq(S),
         NEW a \in Seq(S), NEW b \in Seq(S), t = Cat(a, b)
  PROVE  /\ Cat(Cat(s, a), Cat(b, u)) = Cat(s, Cat(t, u))
         /\ Cat(s, Cat(Cat(u, a), b)) = Cat(s, Cat(u, t))
<1>1. Cat(Cat(s, a), Cat(b, u)) = Cat(s, Cat(a, Cat(b, u)))
  BY CatInSeq, CatAssociative
<1>2. Cat(a, Cat(b, u)) = Cat(t, u)
  BY CatAssociative
<1>3. Cat(Cat(u, a), b) = Cat(u, t)
  BY CatAssociative
<1> QED
  BY <1>1, <1>2, <1>3

\* What follows the first bytes of a stream is the rest of it.
LEMMA RestOfStream ==
  ASSUME NEW S, NEW s \in Seq(S), NEW t \in Seq(S), NEW r \in Seq(S),
         Cat(s, t) = r
  PROVE  /\ Len(r) = Len(s) + Len(t)
         /\ \A i \in 1..Len(s) : s[i] = r[i]
         /\ t = SubSeq(r, Len(s) + 1, Len(r))
<1>0. Len(s) \in Nat /\ Len(t) \in Nat
  BY LenProperties
<1>1. Len(r) = Len(s) + Len(t)
  BY ConcatProperties DEF Cat
<1>2. \A i \in 1..(Len(s) + Len(t)) :
        r[i] = IF i <= Len(s) THEN s[i] ELSE t[i - Len(s)]
  BY ConcatProperties DEF Cat
<1>3. \A i \in 1..Len(s) : s[i] = r[i]
  BY <1>0, <1>2
<1>4. \A i \in (Len(s) + 1)..Len(r) : r[i] \in S
  BY <1>0, <1>1, ElementOfSeq
<1> DEFINE b == SubSeq(r, Len(s) + 1, Len(r))
<1>5. /\ b \in Seq(S)
      /\ Len(b) = IF Len(s) + 1 <= Len(r) THEN Len(r) - (Len(s) + 1) + 1 ELSE 0
      /\ \A i \in 1..(Len(r) - (Len(s) + 1) + 1) : b[i] = r[Len(s) + 1 + i - 1]
  BY <1>0, <1>1, <1>4, SubSeqProperties
<1>6. Len(b) = Len(t)
  BY <1>0, <1>1, <1>5
<1>7. \A i \in 1..Len(t) : b[i] = t[i]
  <2> SUFFICES ASSUME NEW i \in 1..Len(t) PROVE b[i] = t[i]
    OBVIOUS
  <2>1. b[i] = r[Len(s) + i]
    BY <1>0, <1>1, <1>5
  <2>2. r[Len(s) + i] = t[i]
    BY <1>0, <1>2
  <2> QED
    BY <2>1, <2>2
<1>8. b = t
  BY <1>5, <1>6, <1>7, SeqEqual
<1> QED
  BY <1>1, <1>3, <1>8

\* A sequence without elements is the empty one.
LEMMA LengthZero ==
  ASSUME NEW S, NEW s \in Seq(S), Len(s) = 0
  PROVE  s = <<>>
BY EmptySeq

\* The bytes of a reply, and of its part after messageLength.
LEMMA ReplyBytes ==
  ASSUME NEW q \in Nat, NEW n \in Nat
  PROVE  /\ Reply(q, n) \in Seq(Bytes)
         /\ Len(Reply(q, n)) = SizeField + n
         /\ Reply(q, n)[1] = <<q, 1>>
         /\ SubSeq(Reply(q, n), SizeField + 1, SizeField + n) \in Seq(Bytes)
         /\ Len(SubSeq(Reply(q, n), SizeField + 1, SizeField + n)) = n
<1>0. SizeField \in Nat /\ SizeField > 0
  BY MiniAssumption
<1>1. Reply(q, n) \in Seq(Bytes) /\ Len(Reply(q, n)) = SizeField + n
  <2>1. \A i \in 1..(SizeField + n) : <<q, i>> \in Bytes
    BY <1>0 DEF Bytes
  <2> QED
    BY <1>0, <2>1 DEF Reply
<1>2. Reply(q, n)[1] = <<q, 1>>
  BY <1>0 DEF Reply
<1>3. \A i \in (SizeField + 1)..(SizeField + n) : Reply(q, n)[i] \in Bytes
  BY <1>0, <1>1, ElementOfSeq
<1>4. /\ SubSeq(Reply(q, n), SizeField + 1, SizeField + n) \in Seq(Bytes)
      /\ Len(SubSeq(Reply(q, n), SizeField + 1, SizeField + n))
           = IF SizeField + 1 <= SizeField + n
               THEN SizeField + n - (SizeField + 1) + 1 ELSE 0
  BY <1>0, <1>3, SubSeqProperties
<1>5. Len(SubSeq(Reply(q, n), SizeField + 1, SizeField + n)) = n
  BY <1>0, <1>4
<1> QED
  BY <1>1, <1>2, <1>4, <1>5

\* The empty sequence on either side of a concatenation.
LEMMA CatEmpty ==
  ASSUME NEW S, NEW s \in Seq(S), NEW t \in Seq(S)
  PROVE  /\ Cat(<<>>, s) = s
         /\ Cat(s, <<>>) = s
         /\ Cat(s, t) = <<>> => s = <<>> /\ t = <<>>
<1>1. Cat(<<>>, s) = s /\ Cat(s, <<>>) = s
  BY ConcatEmptySeq DEF Cat
<1>2. Cat(s, t) = <<>> => s = <<>> /\ t = <<>>
  BY ConcatEqualIffEmpty DEF Cat
<1> QED
  BY <1>1, <1>2

LEMMA InitInv == Init => Inv
<1> SUFFICES ASSUME Init PROVE Inv
  OBVIOUS
<1>1. TypeOK
  <2>1. <<>> \in Seq(Bytes)
    BY EmptySeq
  <2> QED
    BY <2>1 DEF Init, TypeOK
<1>2. Counted /\ Answered
  BY MiniAssumption DEF Init, Counted, Answered, Requests
<1>3. StreamRight /\ FramingKept /\ ReplyIsForRequest
  BY DEF Init, StreamRight, FramingKept, ReplyIsForRequest
<1> QED
  BY <1>1, <1>2, <1>3 DEF Inv

-----------------------------------------------------------------------------
\* One lemma per action.

LEMMA ConnectInv == Inv /\ Connect => Inv'
<1> SUFFICES ASSUME Inv, Connect PROVE Inv'
  OBVIOUS
<1>1. TypeOK' /\ Counted' /\ Answered'
  BY DEF Inv, Connect, TypeOK, Counted, Answered, Requests
<1>2. StreamRight' /\ FramingKept' /\ ReplyIsForRequest'
  BY DEF Inv, Connect, StreamRight, FramingKept, ReplyIsForRequest
<1> QED
  BY <1>1, <1>2 DEF Inv

LEMMA SendInv == Inv /\ Send => Inv'
<1> SUFFICES ASSUME Inv, Send PROVE Inv'
  OBVIOUS
<1>1. TypeOK'
  <2>1. <<>> \in Seq(Bytes)
    BY EmptySeq
  <2> QED
    BY <2>1, MiniAssumption DEF Inv, Send, TypeOK
<1>2. Counted'
  BY MiniAssumption DEF Inv, Send, TypeOK, Counted, Requests
<1>3. Answered'
  <2>1. pc' = "header" /\ opened' = opened /\ body' = body
    BY DEF Send
  <2>2. ASSUME NEW p \in Requests, opened < p, p < request_id'
        PROVE  body[p] # 0
    <3>1. p \in Nat /\ request_id' = request_id + 1 /\ request_id \in Nat
      BY DEF Inv, Send, TypeOK, Requests
    <3>2. p < request_id \/ p = request_id
      BY <2>2, <3>1
    <3>3. CASE p < request_id
      BY <2>2, <3>3 DEF Inv, Send, Answered
    <3>4. CASE p = request_id
      BY <2>2, <3>4 DEF Inv, Send, Answered
    <3> QED
      BY <3>2, <3>3, <3>4
  <2> QED
    BY <2>1, <2>2 DEF Answered
<1>4. StreamRight'
  <2>1. request_id' \in Requests /\ body'[request_id'] = 0
    BY MiniAssumption DEF Inv, Send, TypeOK, Counted, Requests
  <2>2. out' = <<>> /\ rcvbuf' = <<>> /\ wire' = <<>>
    BY DEF Inv, Send, FramingKept
  <2>3. Cat(<<>>, <<>>) = <<>>
    BY EmptySeq, CatEmpty
  <2>4. Stream' = <<>>
    BY <2>2, <2>3 DEF Stream
  <2> QED
    BY <2>1, <2>4 DEF Send, StreamRight
<1>5. FramingKept' /\ ReplyIsForRequest'
  BY DEF Inv, Send, FramingKept, ReplyIsForRequest
<1> QED
  BY <1>1, <1>2, <1>3, <1>4, <1>5 DEF Inv

LEMMA RecvInv == Inv /\ Recv => Inv'
<1> SUFFICES ASSUME Inv, Recv PROVE Inv'
  OBVIOUS
<1> DEFINE n == Min({want, Len(rcvbuf)})
           a == SubSeq(rcvbuf, 1, n)
           b == SubSeq(rcvbuf, n + 1, Len(rcvbuf))
<1>1. out' = Cat(out, a) /\ rcvbuf' = b /\ wire' = wire
  BY DEF Recv, Cat
<1>2. n \in 0..Len(rcvbuf)
  <2>1. Len(rcvbuf) \in Nat /\ want \in Nat
    BY LenProperties DEF Inv, TypeOK
  <2>2. \E x \in {want, Len(rcvbuf)} : \A y \in {want, Len(rcvbuf)} : x <= y
    BY <2>1
  <2>3. n \in {want, Len(rcvbuf)} /\ \A y \in {want, Len(rcvbuf)} : n <= y
    BY <2>2 DEF Min
  <2> QED
    BY <2>1, <2>3
<1>3. a \in Seq(Bytes) /\ b \in Seq(Bytes) /\ rcvbuf = Cat(a, b)
  BY <1>2, CutInTwo DEF Inv, TypeOK
<1> HIDE DEF n, a, b
<1>4. TypeOK'
  BY <1>1, <1>3, CatInSeq DEF Inv, Recv, TypeOK
<1>5. Stream' = Stream
  BY <1>1, <1>3, BytesMove DEF Inv, TypeOK, Stream
<1>6. Counted' /\ Answered'
  BY DEF Inv, Recv, Counted, Answered
<1>7. StreamRight'
  BY <1>5 DEF Inv, Recv, StreamRight, Rest
<1>8. FramingKept' /\ ReplyIsForRequest'
  BY DEF Inv, Recv, FramingKept, ReplyIsForRequest
<1> QED
  BY <1>4, <1>6, <1>7, <1>8 DEF Inv

LEMMA DeliverInv == Inv /\ Deliver => Inv'
<1> SUFFICES ASSUME Inv, Deliver PROVE Inv'
  OBVIOUS
<1>0. PICK n \in 1..Len(wire) :
        /\ rcvbuf' = rcvbuf \o SubSeq(wire, 1, n)
        /\ wire' = SubSeq(wire, n + 1, Len(wire))
  BY DEF Deliver
<1> DEFINE a == SubSeq(wire, 1, n)
           b == SubSeq(wire, n + 1, Len(wire))
<1>1. out' = out /\ rcvbuf' = Cat(rcvbuf, a) /\ wire' = b
  BY <1>0 DEF Deliver, Cat
<1>2. n \in 0..Len(wire)
  BY <1>0, LenProperties DEF Inv, TypeOK
<1>3. a \in Seq(Bytes) /\ b \in Seq(Bytes) /\ wire = Cat(a, b)
  BY <1>2, CutInTwo DEF Inv, TypeOK
<1> HIDE DEF a, b
<1>4. TypeOK'
  BY <1>1, <1>3, CatInSeq DEF Inv, Deliver, TypeOK
<1>5. Stream' = Stream
  BY <1>1, <1>3, BytesMove DEF Inv, TypeOK, Stream
<1>6. Counted' /\ Answered'
  BY DEF Inv, Deliver, Counted, Answered
<1>7. StreamRight'
  BY <1>5 DEF Inv, Deliver, StreamRight, Rest
<1>8. FramingKept' /\ ReplyIsForRequest'
  BY DEF Inv, Deliver, FramingKept, ReplyIsForRequest
<1> QED
  BY <1>4, <1>6, <1>7, <1>8 DEF Inv

LEMMA RaiseInv == Inv /\ Raise => Inv'
<1> SUFFICES ASSUME Inv, Raise PROVE Inv'
  OBVIOUS
<1>1. TypeOK' /\ Counted' /\ Answered' /\ StreamRight'
  BY DEF Inv, Raise, ExceptionState, TypeOK, Counted, Answered, StreamRight
<1>2. FramingKept' /\ ReplyIsForRequest'
  BY DEF Inv, Raise, ExceptionState, FramingKept, ReplyIsForRequest
<1> QED
  BY <1>1, <1>2 DEF Inv

LEMMA CloseInv == Inv /\ Close => Inv'
<1> SUFFICES ASSUME Inv, Close PROVE Inv'
  OBVIOUS
<1>1. TypeOK'
  <2>1. <<>> \in Seq(Bytes)
    BY EmptySeq
  <2> QED
    BY <2>1 DEF Inv, Close, TypeOK
<1>2. Counted' /\ Answered' /\ StreamRight'
  BY DEF Inv, Close, Counted, Answered, StreamRight
<1>3. FramingKept' /\ ReplyIsForRequest'
  BY DEF Inv, Close, FramingKept, ReplyIsForRequest
<1> QED
  BY <1>1, <1>2, <1>3 DEF Inv

(* Four bytes in out are the first four of the reply to request_id, so the *)
(* length they carry is its own and what follows is its body.              *)
LEMMA UnpackSizeInv == Inv /\ UnpackSize => Inv'
<1> SUFFICES ASSUME Inv, UnpackSize PROVE Inv'
  OBVIOUS
<1> DEFINE q == request_id
<1>0. SizeField \in Nat /\ SizeField > 0
  BY MiniAssumption
<1>1. /\ q \in Requests /\ q \in Nat /\ body[q] \in Nat
      /\ out \in Seq(Bytes) /\ rcvbuf \in Seq(Bytes) /\ wire \in Seq(Bytes)
  BY DEF Inv, UnpackSize, TypeOK, Counted, Requests
<1>2. CASE Len(out) # SizeField
  <2>1. /\ pc' = "raised"
        /\ UNCHANGED <<want, out, opened, request_id, body, wire, rcvbuf, returned>>
    BY <1>2 DEF UnpackSize, ExceptionState
  <2>2. TypeOK' /\ Counted' /\ Answered' /\ StreamRight'
    BY <2>1 DEF Inv, UnpackSize, TypeOK, Counted, Answered, StreamRight
  <2>3. FramingKept' /\ ReplyIsForRequest'
    BY <2>1 DEF Inv, FramingKept, ReplyIsForRequest
  <2> QED
    BY <2>2, <2>3 DEF Inv
<1>3. CASE Len(out) = SizeField
  <2> DEFINE rest == Cat(rcvbuf, wire)
  <2>1. rest \in Seq(Bytes)
    BY <1>1, CatInSeq
  <2>2. body[q] # 0
    <3> SUFFICES ASSUME body[q] = 0 PROVE FALSE
      OBVIOUS
    <3>1. Cat(out, rest) = <<>>
      BY DEF Inv, UnpackSize, StreamRight, Stream
    <3>2. out = <<>>
      BY <3>1, <2>1, <1>1, CatEmpty
    <3> QED
      BY <3>2, <1>3, <1>0, EmptySeq
  <2>3. Cat(out, rest) = Reply(q, body[q])
    BY <2>2 DEF Inv, UnpackSize, StreamRight, Stream
  <2>4. Reply(q, body[q]) \in Seq(Bytes) /\ Len(Reply(q, body[q])) = SizeField + body[q]
        /\ Reply(q, body[q])[1] = <<q, 1>>
    BY <1>1, ReplyBytes
  <2> DEFINE r == Reply(q, body[q])
  <2> HIDE DEF rest, r
  <2>5. rest \in Seq(Bytes) /\ r \in Seq(Bytes) /\ Cat(out, rest) = r
    BY <2>1, <2>3, <2>4 DEF rest, r
  <2>6. out[1] = r[1] /\ rest = SubSeq(r, Len(out) + 1, Len(r))
    <3>1. /\ \A i \in 1..Len(out) : out[i] = r[i]
          /\ rest = SubSeq(r, Len(out) + 1, Len(r))
      BY <2>5, <1>1, RestOfStream
    <3> QED
      BY <3>1, <1>3, <1>0
  <2>7. rest = Rest(q)
    BY <2>6, <2>4, <1>3 DEF Rest, r
  <2>8. out[1][1] = q
    BY <2>6, <2>4 DEF r
  <2>9. want' = body[q]
    <3>1. want' = Remaining(SizeField + body[out[1][1]])
      BY <1>3 DEF UnpackSize
    <3>2. Remaining(SizeField + body[q]) = body[q]
      BY <1>0, <1>1 DEF Remaining
    <3> QED
      BY <3>1, <3>2, <2>8
  <2>10. /\ pc' = "body" /\ out' = <<>>
         /\ UNCHANGED <<opened, request_id, body, wire, rcvbuf, returned>>
    BY <1>3 DEF UnpackSize
  <2>11. Stream' = Rest(q)
    <3>1. Stream' = Cat(<<>>, rest)
      BY <2>10 DEF Stream, rest
    <3>2. Cat(<<>>, rest) = rest
      BY <2>5, CatEmpty
    <3> QED
      BY <3>1, <3>2, <2>7
  <2>12. TypeOK'
    <3>1. <<>> \in Seq(Bytes)
      BY EmptySeq
    <3> QED
      BY <3>1, <2>9, <2>10, <1>1 DEF Inv, TypeOK
  <2>13. Counted'
    BY <2>10 DEF Inv, Counted, UnpackSize
  <2>14. Answered'
    BY <2>10, <2>2 DEF Inv, Answered, UnpackSize
  <2>15. StreamRight'
    BY <2>9, <2>10, <2>11 DEF StreamRight, Rest
  <2>16. FramingKept' /\ ReplyIsForRequest'
    BY <2>10 DEF Inv, FramingKept, ReplyIsForRequest
  <2> QED
    BY <2>12, <2>13, <2>14, <2>15, <2>16 DEF Inv
<1> QED
  BY <1>2, <1>3

(* When out has as many bytes as the body, it is the whole body and the    *)
(* rest of the stream is empty.                                            *)
LEMMA ParseReplyInv == Inv /\ ParseReply => Inv'
<1> SUFFICES ASSUME Inv, ParseReply PROVE Inv'
  OBVIOUS
<1> DEFINE q == request_id
<1>1. /\ q \in Requests /\ q \in Nat /\ body[q] \in Nat /\ body[q] # 0
      /\ out \in Seq(Bytes) /\ rcvbuf \in Seq(Bytes) /\ wire \in Seq(Bytes)
      /\ want = body[q]
  BY DEF Inv, ParseReply, TypeOK, Counted, Answered, StreamRight, Requests
<1>2. CASE Len(out) # want
  <2>1. /\ pc' = "raised"
        /\ UNCHANGED <<want, out, opened, request_id, body, wire, rcvbuf, returned>>
    BY <1>2 DEF ParseReply, ExceptionState
  <2>2. TypeOK' /\ Counted' /\ Answered' /\ StreamRight'
    BY <2>1 DEF Inv, ParseReply, TypeOK, Counted, Answered, StreamRight
  <2>3. FramingKept' /\ ReplyIsForRequest'
    BY <2>1 DEF Inv, FramingKept, ReplyIsForRequest
  <2> QED
    BY <2>2, <2>3 DEF Inv
<1>3. CASE Len(out) = want
  <2> DEFINE rest == Cat(rcvbuf, wire)
             r == Rest(q)
  <2>1. rest \in Seq(Bytes)
    BY <1>1, CatInSeq
  <2>2. Cat(out, rest) = r
    BY DEF Inv, ParseReply, StreamRight, Stream
  <2>3. r \in Seq(Bytes) /\ Len(r) = body[q]
    BY <1>1, ReplyBytes DEF Rest
  <2> HIDE DEF rest, r
  <2>4. rest \in Seq(Bytes) /\ r \in Seq(Bytes) /\ Cat(out, rest) = r /\ Len(r) = body[q]
    BY <2>1, <2>2, <2>3 DEF rest, r
  <2>5. rest = <<>>
    <3>1. Len(r) = Len(out) + Len(rest)
      BY <2>4, <1>1, CatInSeq
    <3>2. Len(rest) = 0
      BY <3>1, <2>4, <1>1, <1>3, LenProperties
    <3> QED
      BY <3>2, <2>4, LengthZero
  <2>6. out = Rest(q)
    <3>1. Cat(out, <<>>) = out
      BY <1>1, CatEmpty
    <3> QED
      BY <3>1, <2>4, <2>5 DEF r
  <2>7. rcvbuf = <<>> /\ wire = <<>>
    BY <2>5, <1>1, CatEmpty DEF rest
  <2>8. /\ pc' = "idle" /\ returned' = [returned EXCEPT ![q] = out]
        /\ UNCHANGED <<opened, request_id, body, wire, rcvbuf, want, out>>
    BY <1>3 DEF ParseReply
  <2>9. TypeOK'
    BY <2>8, <1>1 DEF Inv, TypeOK
  <2>10. Counted'
    BY <2>8, <1>1 DEF Inv, TypeOK, Counted
  <2>11. Answered'
    BY <2>8 DEF Inv, ParseReply, Answered
  <2>12. StreamRight' /\ FramingKept'
    BY <2>7, <2>8 DEF StreamRight, FramingKept
  <2>13. ReplyIsForRequest'
    <3> SUFFICES ASSUME NEW p \in Requests, returned'[p] # <<>>
                 PROVE  returned'[p] = Rest(p)
      BY <2>8 DEF ReplyIsForRequest, Rest
    <3>1. CASE p = q
      BY <3>1, <2>6, <2>8 DEF Inv, TypeOK
    <3>2. CASE p # q
      <4>1. returned'[p] = returned[p]
        BY <3>2, <2>8 DEF Inv, TypeOK
      <4> QED
        BY <4>1 DEF Inv, ReplyIsForRequest, Rest
    <3> QED
      BY <3>1, <3>2
  <2> QED
    BY <2>9, <2>10, <2>11, <2>12, <2>13 DEF Inv
<1> QED
  BY <1>2, <1>3

(* The server answers in order, so while the connection is in use only the *)
(* request in progress can be answered, and its stream was empty.          *)
LEMMA AnswerInv ==
  ASSUME NEW q \in Requests
  PROVE  Inv /\ Answer(q) => Inv'
<1> SUFFICES ASSUME Inv, Answer(q) PROVE Inv'
  OBVIOUS
<1>0. PICK n \in BodyLengths : /\ body' = [body EXCEPT ![q] = n]
                               /\ wire' = wire \o Reply(q, n)
  BY DEF Answer
<1>1. /\ n \in Nat /\ n # 0 /\ q \in Nat /\ request_id \in Nat /\ opened \in Nat
      /\ opened < q /\ q <= request_id /\ body[q] = 0 /\ body'[q] = n
      /\ pc # "closed"
      /\ out \in Seq(Bytes) /\ rcvbuf \in Seq(Bytes) /\ wire \in Seq(Bytes)
      /\ UNCHANGED <<pc, opened, request_id, rcvbuf, want, out, returned>>
  BY <1>0, MiniAssumption DEF Answer, Inv, TypeOK, Requests
<1>2. \A p \in Requests : p # q => body'[p] = body[p]
  BY <1>0 DEF Inv, TypeOK
<1>3. wire' = Cat(wire, Reply(q, n))
  BY <1>0 DEF Cat
<1>4. Reply(q, n) \in Seq(Bytes)
  BY <1>1, ReplyBytes
<1>5. TypeOK'
  <2>1. wire' \in Seq(Bytes)
    BY <1>1, <1>3, <1>4, CatInSeq
  <2>2. body' \in [Requests -> Nat]
    BY <1>0, <1>1 DEF Inv, TypeOK
  <2> QED
    BY <2>1, <2>2, <1>1 DEF Inv, TypeOK
<1>6. Counted'
  BY <1>1, <1>2 DEF Inv, TypeOK, Counted
<1>7. pc \in {"header", "raised"} /\ (pc = "header" => q = request_id)
  <2>1. pc \in {"idle", "header", "body"} => ~(q < request_id)
    BY <1>1 DEF Inv, Answered
  <2>2. pc \in {"idle", "header", "body"} => q = request_id
    BY <2>1, <1>1
  <2>3. pc \notin {"idle", "body"}
    BY <2>2, <1>1 DEF Inv, Answered
  <2> QED
    BY <2>2, <2>3, <1>1 DEF Inv, TypeOK
<1>8. Answered'
  BY <1>1, <1>2, <1>7 DEF Inv, Answered
<1>9. StreamRight'
  <2> SUFFICES ASSUME pc = "header"
               PROVE  want' = SizeField /\ Stream' = Reply(q, n)
    BY <1>1, <1>7 DEF StreamRight
  <2>1. q = request_id
    BY <1>7
  <2>2. Stream = <<>> /\ want = SizeField
    BY <2>1, <1>1 DEF Inv, StreamRight
  <2>3. Cat(rcvbuf, wire) \in Seq(Bytes)
    BY <1>1, CatInSeq
  <2>4. out = <<>> /\ Cat(rcvbuf, wire) = <<>>
    BY <2>2, <2>3, <1>1, CatEmpty DEF Stream
  <2>5. rcvbuf = <<>> /\ wire = <<>>
    BY <2>4, <1>1, CatEmpty
  <2>6. Stream' = Cat(<<>>, Cat(<<>>, Cat(<<>>, Reply(q, n))))
    BY <2>4, <2>5, <1>1, <1>3 DEF Stream
  <2>7. Cat(<<>>, Reply(q, n)) = Reply(q, n)
    BY <1>4, CatEmpty
  <2> QED
    BY <2>2, <2>6, <2>7, <1>1
<1>10. FramingKept'
  BY <1>1, <1>7 DEF FramingKept
<1>11. ReplyIsForRequest'
  <2> SUFFICES ASSUME NEW p \in Requests, returned[p] # <<>>
               PROVE  /\ body'[p] = body[p]
                      /\ returned[p] = Rest(p)
    BY <1>1 DEF ReplyIsForRequest, Rest
  <2>1. p # q
    BY <1>1 DEF Inv, Counted
  <2> QED
    BY <2>1, <1>2 DEF Inv, ReplyIsForRequest, Rest
<1> QED
  BY <1>5, <1>6, <1>8, <1>9, <1>10, <1>11 DEF Inv

LEMMA StutterInv == Inv /\ UNCHANGED vars => Inv'
BY DEF vars, Inv, TypeOK, Counted, Answered, StreamRight, FramingKept,
       ReplyIsForRequest, Stream, Rest

LEMMA NextInv == Inv /\ [Next]_vars => Inv'
BY ConnectInv, SendInv, RecvInv, UnpackSizeInv, ParseReplyInv, RaiseInv, CloseInv,
   AnswerInv, DeliverInv, StutterInv DEF Next

(* The stream of a connection in use is exactly what is left of the reply  *)
(* to the request in progress.                                             *)
THEOREM StreamInv == Spec => []Inv
BY InitInv, NextInv, PTL DEF Spec

-----------------------------------------------------------------------------
(* send_opmsg returns the whole body of the reply to its own request and   *)
(* nothing else, although parse_opmsg never looks at responseTo: for any   *)
(* number of requests and any segmentation of the replies.                 *)
THEOREM OwnReply == Spec => []ReplyIsForRequest
<1>1. Inv => ReplyIsForRequest
  BY DEF Inv
<1> QED
  BY <1>1, StreamInv, PTL

(* Between two commands nothing of an earlier reply is left on the way, so *)
(* the next bytes _recvall reads are a messageLength.                      *)
THEOREM FramingHolds == Spec => []FramingKept
<1>1. Inv => FramingKept
  BY DEF Inv
<1> QED
  BY <1>1, StreamInv, PTL

(* _recvall asks for `want' bytes in every turn, so it can return more     *)
(* (RecvallExact), but only for the size field: after it the stream holds  *)
(* no more than the body, and ParseReply never sees a byte too many.       *)
BodyNeverOverread == pc = "body" => Len(out) <= want

(* What _recvall returns for the body of a reply is never more than was    *)
(* asked for, whatever the segmentation.                                   *)
THEOREM BodyExact == Spec => []BodyNeverOverread
<1>1. Inv => BodyNeverOverread
  <2> SUFFICES ASSUME Inv, pc = "body" PROVE Len(out) <= want
    BY DEF BodyNeverOverread
  <2> DEFINE rest == Cat(rcvbuf, wire)
  <2>1. /\ request_id \in Nat /\ body[request_id] \in Nat /\ want = body[request_id]
        /\ out \in Seq(Bytes) /\ rcvbuf \in Seq(Bytes) /\ wire \in Seq(Bytes)
    BY DEF Inv, TypeOK, Counted, StreamRight, Requests
  <2>2. rest \in Seq(Bytes)
    BY <2>1, CatInSeq
  <2>3. Len(Cat(out, rest)) = body[request_id]
    <3>1. Cat(out, rest) = Rest(request_id)
      BY DEF Inv, StreamRight, Stream
    <3>2. Len(Rest(request_id)) = body[request_id]
      BY <2>1, ReplyBytes DEF Rest
    <3> QED
      BY <3>1, <3>2
  <2> HIDE DEF rest
  <2>4. Len(Cat(out, rest)) = Len(out) + Len(rest)
    BY <2>1, <2>2, CatInSeq DEF rest
  <2>5. Len(out) \in Nat /\ Len(rest) \in Nat
    BY <2>1, <2>2, LenProperties DEF rest
  <2> QED
    BY <2>1, <2>3, <2>4, <2>5 DEF rest
<1> QED
  BY <1>1, StreamInv, PTL
=============================================================================
