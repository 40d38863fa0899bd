------------------------- MODULE RpcTransportProofs -------------------------
(***************************************************************************)
(* Theorems about RpcTransport, for every set of callers.                  *)
(*                                                                         *)
(* Ids are taken once (IdsInv), so a message that bears the id of a        *)
(* request in progress is about that very request (MessageInv): an answer  *)
(* goes home, and every stream has its request.  For the refinement:       *)
(* a request is on the wire at most once and only before it is executed    *)
(* (WireInv), and what is answered was executed (AnsweredInv).             *)
(***************************************************************************)
EXTENDS RpcTransport, TLAPS

Busy(c) == pc[c] # "idle"

\* Ids in use are below the counter, and of one request in progress each,
\* which has a number.
IdsInv ==
  /\ \A c \in Callers : Busy(c) => mine[c] < counter /\ nth[c] # 0
  /\ \A c, d \in Callers : Busy(c) /\ Busy(d) /\ mine[c] = mine[d] => c = d
  /\ \A s \in streams : s.id < counter
  /\ \A m \in wire : m.id < counter
  /\ \A m \in replies : m.id < counter

\* A message with the id of a request in progress is about that request.
MessageInv ==
  \A c \in Callers : Busy(c) =>
    /\ \A m \in wire : m.id = mine[c] => m.from = Current(c)
    /\ \A m \in replies : m.id = mine[c] => m.from = Current(c)

IInv == RpcTypeOK /\ IdsInv /\ MessageInv /\ AnswersGoHome /\ StreamsMatchRequests

-----------------------------------------------------------------------------

LEMMA InitIInv == RpcInit => IInv
BY TransportAssumption
   DEF RpcInit, IInv, RpcTypeOK, IdsInv, MessageInv, AnswersGoHome, StreamsMatchRequests, Busy,
       Asked, Outcomes, Nothing, Kinds

\* A new id is in no message and no other request.
LEMMA RequestIInv == ASSUME IInv, NEW c \in Callers, Request(c) PROVE IInv'
<1> USE TransportAssumption DEF Request, TakeId, IInv, Busy, Current
<1>1. RpcTypeOK'
  BY DEF RpcTypeOK, Asked, Outcomes
<1>2. IdsInv'
  BY DEF RpcTypeOK, IdsInv, Requested, Replies
<1>3. MessageInv'
  BY DEF RpcTypeOK, IdsInv, MessageInv, Requested, Replies
<1>4. AnswersGoHome'
  BY DEF RpcTypeOK, AnswersGoHome, Nothing, Kinds
<1>5. StreamsMatchRequests'
  <2> DEFINE new == [id |-> counter, reader |-> c]
  <2>1. /\ streams' = streams \cup {new}
        /\ mine' = [mine EXCEPT ![c] = counter]
        /\ pc' = [pc EXCEPT ![c] = "sending"]
        /\ new.id = counter /\ new.reader = c
    BY DEF RpcTypeOK, IdsInv
  <2>2. \A s \in streams : s.reader # c /\ s.reader \in Callers
    BY DEF RpcTypeOK, StreamsMatchRequests
  <2> HIDE DEF new
  <2>3. \A s \in streams' : pc'[s.reader] # "idle" /\ mine'[s.reader] = s.id
    BY <2>1, <2>2 DEF RpcTypeOK, StreamsMatchRequests
  <2>4. ASSUME link' = "up", NEW d \in Callers, pc'[d] # "idle", buffer'[d] = Nothing
        PROVE  \E s \in streams' : s.reader = d /\ s.id = mine'[d]
    BY <2>1, <2>4 DEF RpcTypeOK, StreamsMatchRequests
  <2> QED BY <2>3, <2>4 DEF StreamsMatchRequests
<1> QED BY <1>1, <1>2, <1>3, <1>4, <1>5

LEMMA SentIInv == ASSUME IInv, NEW c \in Callers, Sent(c) PROVE IInv'
<1> USE TransportAssumption DEF Sent, IInv, Busy, Current
<1>1. Current(c) \in Asked
  BY DEF RpcTypeOK, IdsInv, Asked
<1>2. RpcTypeOK'
  BY <1>1 DEF RpcTypeOK, Requested
<1>3. IdsInv'
  BY DEF RpcTypeOK, IdsInv
<1>4. MessageInv'
  BY DEF RpcTypeOK, IdsInv, MessageInv
<1>5. AnswersGoHome' /\ StreamsMatchRequests'
  BY DEF RpcTypeOK, AnswersGoHome, StreamsMatchRequests
<1> QED BY <1>2, <1>3, <1>4, <1>5

LEMMA HandleIInv ==
  ASSUME IInv, NEW m \in wire, NEW kind \in Kinds, Handle(m, kind) PROVE IInv'
<1> USE DEF Handle, IInv, Busy, Current, own
<1>1. RpcTypeOK'
  BY DEF RpcTypeOK, Requested, Replies
<1>2. IdsInv' /\ MessageInv'
  BY DEF RpcTypeOK, IdsInv, MessageInv
<1>3. AnswersGoHome' /\ StreamsMatchRequests'
  BY DEF AnswersGoHome, StreamsMatchRequests
<1> QED BY <1>1, <1>2, <1>3

\* The stream of an id is read by the request that took it.
LEMMA DeliverIInv == ASSUME IInv, NEW r \in replies, Deliver(r) PROVE IInv'
<1> USE DEF Deliver, IInv, Busy, Current, own
<1>1. PICK s \in streams : /\ s.id = r.id
                           /\ streams' = streams \ {s}
                           /\ buffer' = [buffer EXCEPT ![s.reader] = r]
  OBVIOUS
<1>2. s.reader \in Callers /\ r \in Replies
  BY DEF RpcTypeOK
<1>3. RpcTypeOK'
  BY <1>1, <1>2 DEF RpcTypeOK
<1>4. IdsInv' /\ MessageInv'
  BY <1>1 DEF IdsInv, MessageInv
<1>5. Busy(s.reader) /\ mine[s.reader] = r.id /\ r.from = Current(s.reader)
  BY <1>1, <1>2 DEF StreamsMatchRequests, MessageInv
<1>6. AnswersGoHome'
  BY <1>1, <1>2, <1>5 DEF AnswersGoHome, RpcTypeOK
<1>7. r # Nothing
  BY <1>2 DEF Replies, Kinds, Nothing
<1>8. StreamsMatchRequests'
  BY <1>1, <1>2, <1>7 DEF StreamsMatchRequests, RpcTypeOK
<1> QED BY <1>3, <1>4, <1>6, <1>8

LEMMA DisconnectIInv == ASSUME IInv, Disconnect PROVE IInv'
<1> USE DEF Disconnect, IInv, Busy, Current, own
<1>1. RpcTypeOK'
  BY DEF RpcTypeOK
<1>2. IdsInv' /\ MessageInv'
  BY DEF IdsInv, MessageInv
<1>3. AnswersGoHome'
  BY DEF AnswersGoHome, Closed, Kinds
<1>4. StreamsMatchRequests'
  BY DEF StreamsMatchRequests
<1> QED BY <1>1, <1>2, <1>3, <1>4

\* The finally block pops the request's own stream and no other.
LEMMA EndIInv ==
  ASSUME IInv, NEW c \in Callers, Busy(c), NEW how \in Outcomes, End(c, how) PROVE IInv'
<1> USE DEF End, IInv, Busy, Current
<1>1. RpcTypeOK'
  BY DEF RpcTypeOK
<1>2. IdsInv' /\ MessageInv'
  BY DEF RpcTypeOK, IdsInv, MessageInv
<1>3. AnswersGoHome'
  BY DEF RpcTypeOK, AnswersGoHome
<1>4. StreamsMatchRequests'
  BY DEF RpcTypeOK, IdsInv, StreamsMatchRequests
<1> QED BY <1>1, <1>2, <1>3, <1>4

\* Every way a request ends is an End with one of two outcomes.
Ends(c) == Receive(c) \/ TimesOut(c) \/ SendFails(c) \/ Cancelled(c)

LEMMA EndsIsEnd ==
  ASSUME NEW c \in Callers, Ends(c)
  PROVE Busy(c) /\ \E how \in {"answered", "failed"} : End(c, how)
BY DEF Ends, Receive, TimesOut, SendFails, Cancelled, How, Busy

LEMMA NextIInv == ASSUME IInv, [RpcNext]_rpcVars PROVE IInv'
<1>1. ASSUME NEW c \in Callers, Ends(c) PROVE IInv'
  BY <1>1, EndsIsEnd, EndIInv DEF Outcomes
<1>2. CASE UNCHANGED rpcVars
  BY <1>2 DEF rpcVars, own, IInv, RpcTypeOK, IdsInv, MessageInv, AnswersGoHome,
              StreamsMatchRequests, Busy, Current
<1> QED BY <1>1, <1>2, RequestIInv, SentIInv, HandleIInv, DeliverIInv, DisconnectIInv
        DEF RpcNext, Ends

\* The session's variables keep their types.
THEOREM TypeCorrect == RpcSpec => []RpcTypeOK
<1>1. IInv => RpcTypeOK
  BY DEF IInv
<1> QED BY <1>1, InitIInv, NextIInv, PTL DEF RpcSpec

\* A caller reads the answer to the request it has in progress, whatever was
\* timed out, cancelled, answered late or answered twice before.
THEOREM Home == RpcSpec => []AnswersGoHome
<1>1. IInv => AnswersGoHome
  BY DEF IInv
<1> QED BY <1>1, InitIInv, NextIInv, PTL DEF RpcSpec

\* Whoever waits can be answered, and no stream outlives its request.
THEOREM Matched == RpcSpec => []StreamsMatchRequests
<1>1. IInv => StreamsMatchRequests
  BY DEF IInv
<1> QED BY <1>1, InitIInv, NextIInv, PTL DEF RpcSpec

-----------------------------------------------------------------------------

\* A request is on the wire once, and before it is executed; one that was not
\* made yet has left no trace.
WireInv ==
  /\ \A m1, m2 \in wire : m1.from = m2.from => m1 = m2
  /\ \A m \in wire : m.from \notin executed /\ outcome[m.from] # "new"
  /\ \A c \in Callers : pc[c] = "sending" =>
       /\ Current(c) \notin executed
       /\ \A m \in wire : m.from # Current(c)
  /\ \A c \in Callers, n \in 1..MaxRequests : n > nth[c] =>
       /\ outcome[<<c, n>>] = "new"
       /\ <<c, n>> \notin executed

\* What the client answered was executed, and who waits is pending.
AnsweredInv ==
  /\ \A r \in replies : r.kind = "answer" => r.from \in executed
  /\ \A c \in Callers : Busy(c) =>
       /\ outcome[Current(c)] = "pending"
       /\ buffer[c].kind = "answer" => Current(c) \in executed

RInv == IInv /\ WireInv /\ AnsweredInv

LEMMA InitRInv == RpcInit => RInv
<1> SUFFICES ASSUME RpcInit PROVE WireInv /\ AnsweredInv
  BY InitIInv DEF RInv
<1> QED BY TransportAssumption DEF RpcInit, WireInv, AnsweredInv, Busy, Asked

\* Each request the refinement speaks of: what the step does to it.
LEMMA RequestStep ==
  ASSUME RInv, NEW c \in Callers, Request(c)
  PROVE  WireInv' /\ AnsweredInv' /\ R!Ask(<<c, nth[c] + 1>>)
<1> DEFINE r == <<c, nth[c] + 1>>
<1> USE TransportAssumption DEF RInv, IInv
<1>1. /\ r \in Asked /\ outcome[r] = "new" /\ r \notin executed
      /\ nth[c] \in Nat /\ nth[c] + 1 \in 1..MaxRequests
  BY DEF Request, RpcTypeOK, WireInv, Asked
<1>2. /\ outcome' = [outcome EXCEPT ![r] = "pending"] /\ UNCHANGED <<wire, replies, executed>>
      /\ nth' = [nth EXCEPT ![c] = @ + 1] /\ pc' = [pc EXCEPT ![c] = "sending"]
      /\ buffer' = [buffer EXCEPT ![c] = Nothing]
  BY DEF Request
<1>3. \A m \in wire : m.from # r
  BY <1>1 DEF WireInv
<1>4. \A d \in Callers : /\ d = c => nth'[d] = nth[c] + 1 /\ Current(d)' = r
                         /\ d # c => nth'[d] = nth[d] /\ Current(d)' = Current(d) /\ Current(d) # r
  BY <1>2 DEF RpcTypeOK, Current
<1> HIDE DEF r
<1>5. WireInv'
  <2>1. \A d \in Callers : pc'[d] = "sending" =>
          Current(d)' \notin executed' /\ \A m \in wire' : m.from # Current(d)'
    BY <1>1, <1>2, <1>3, <1>4 DEF RpcTypeOK, WireInv
  <2>2. \A d \in Callers, n \in 1..MaxRequests : n > nth'[d] =>
          outcome'[<<d, n>>] = "new" /\ <<d, n>> \notin executed'
    BY <1>1, <1>2, <1>4 DEF RpcTypeOK, WireInv, Asked, r
  <2>3. \A m \in wire' : m.from \notin executed' /\ outcome'[m.from] # "new"
    BY <1>1, <1>2, <1>3 DEF RpcTypeOK, WireInv, Requested
  <2> QED BY <1>2, <2>1, <2>2, <2>3 DEF WireInv
<1>6. AnsweredInv'
  BY <1>1, <1>2, <1>4 DEF RpcTypeOK, AnsweredInv, Busy, Nothing, Asked, IdsInv, Current
<1>7. R!Ask(r)
  BY <1>1, <1>2 DEF R!Ask
<1> QED BY <1>5, <1>6, <1>7 DEF r

LEMMA SentStep ==
  ASSUME RInv, NEW c \in Callers, Sent(c)
  PROVE  WireInv' /\ AnsweredInv' /\ UNCHANGED R!vars
<1> USE TransportAssumption DEF RInv, IInv, Sent
<1>1. \A d \in Callers : Current(d)' = Current(d)
  BY DEF Current
<1>2. PICK m : wire' = wire \cup {m} /\ m.from = Current(c)
  <2>1. [id |-> mine[c], from |-> Current(c)].from = Current(c)
    OBVIOUS
  <2> QED BY <2>1
<1>3. Current(c) \notin executed /\ outcome[Current(c)] = "pending"
      /\ \A k \in wire : k.from # Current(c)
  BY DEF WireInv, AnsweredInv, Busy
<1>4. \A d \in Callers : d # c => Current(d) # Current(c)
  BY DEF Current
<1>5. WireInv'
  BY <1>1, <1>2, <1>3, <1>4 DEF RpcTypeOK, WireInv
<1>6. AnsweredInv'
  BY <1>1 DEF RpcTypeOK, AnsweredInv, Busy
<1> QED BY <1>5, <1>6 DEF R!vars

LEMMA HandleStep ==
  ASSUME RInv, NEW m \in wire, NEW kind \in Kinds, Handle(m, kind)
  PROVE  WireInv' /\ AnsweredInv' /\ (R!Execute(m.from) \/ UNCHANGED R!vars)
<1> USE DEF RInv, IInv, Handle, own
<1>1. \A d \in Callers : Current(d)' = Current(d)
  BY DEF Current
<1>2. m.from \in Asked /\ m.from \notin executed /\ outcome[m.from] # "new"
      /\ \A k \in wire \ {m} : k.from # m.from
  BY DEF RpcTypeOK, Requested, WireInv
<1>3. executed' \in {executed, executed \cup {m.from}}
  OBVIOUS
<1>4. \A c \in Callers : pc[c] = "sending" => m.from # Current(c)
  BY DEF WireInv
<1>5. \A c \in Callers, n \in 1..MaxRequests : outcome[<<c, n>>] = "new" => m.from # <<c, n>>
  BY <1>2
<1>6. WireInv'
  BY <1>1, <1>2, <1>3, <1>4, <1>5 DEF WireInv
<1>7. AnsweredInv'
  BY <1>1 DEF AnsweredInv, Busy, Kinds
<1>8. R!Execute(m.from) \/ UNCHANGED R!vars
  BY <1>2 DEF R!Execute, R!vars
<1> QED BY <1>6, <1>7, <1>8

LEMMA DeliverStep ==
  ASSUME RInv, NEW r \in replies, Deliver(r)
  PROVE  WireInv' /\ AnsweredInv' /\ UNCHANGED R!vars
<1> USE DEF RInv, IInv, Deliver, own
<1>1. PICK s \in streams : s.id = r.id /\ buffer' = [buffer EXCEPT ![s.reader] = r]
  OBVIOUS
<1>2. s.reader \in Callers /\ r.from = Current(s.reader)
  BY <1>1 DEF RpcTypeOK, StreamsMatchRequests, MessageInv, Busy
<1>3. \A d \in Callers : Current(d)' = Current(d)
  BY DEF Current
<1>4. WireInv'
  BY <1>3 DEF WireInv
<1>5. AnsweredInv'
  BY <1>1, <1>2, <1>3 DEF RpcTypeOK, AnsweredInv, Busy
<1> QED BY <1>4, <1>5 DEF R!vars

LEMMA DisconnectStep ==
  ASSUME RInv, Disconnect
  PROVE  WireInv' /\ AnsweredInv' /\ UNCHANGED R!vars
<1> USE DEF RInv, Disconnect, own
<1>1. \A d \in Callers : Current(d)' = Current(d)
  BY DEF Current
<1>2. WireInv'
  BY <1>1 DEF WireInv
<1>3. AnsweredInv'
  BY <1>1 DEF AnsweredInv, Busy, Closed
<1> QED BY <1>2, <1>3 DEF R!vars

LEMMA EndsStep ==
  ASSUME RInv, NEW c \in Callers, Ends(c)
  PROVE  /\ WireInv' /\ AnsweredInv'
         /\ R!Answer(Current(c)) \/ R!Fail(Current(c))
<1> USE TransportAssumption DEF RInv, IInv
<1>1. PICK how \in {"answered", "failed"} : End(c, how) /\ Busy(c)
  BY EndsIsEnd
<1>2. how = "answered" => buffer[c].kind = "answer"
  BY <1>1 DEF Ends, Receive, TimesOut, SendFails, Cancelled, End, How, RpcTypeOK, Asked, IdsInv, Current
<1>3. \A d \in Callers : Current(d)' = Current(d) /\ (d # c => Current(d) # Current(c))
  BY <1>1 DEF End, Current
<1>4. Current(c) \in Asked /\ outcome[Current(c)] = "pending"
  BY <1>1 DEF RpcTypeOK, IdsInv, Asked, Current, AnsweredInv
<1>5. outcome' = [outcome EXCEPT ![Current(c)] = how] /\ executed' = executed
  BY <1>1 DEF End
<1>6. WireInv'
  BY <1>1, <1>3, <1>4, <1>5 DEF RpcTypeOK, WireInv, End, Current, Requested
<1>7. AnsweredInv'
  BY <1>1, <1>3, <1>4, <1>5 DEF RpcTypeOK, AnsweredInv, End, Busy
<1>8. how = "answered" => Current(c) \in executed
  BY <1>1, <1>2 DEF AnsweredInv
<1>9. R!Answer(Current(c)) \/ R!Fail(Current(c))
  BY <1>4, <1>5, <1>8 DEF R!Answer, R!Fail
<1> QED BY <1>6, <1>7, <1>9

\* The requests of a session are Requests: executed at most once, answered
\* only if executed, ended once.
THEOREM Refinement == RpcSpec => ImplementsRequests
<1>1. RpcInit => R!Init
  BY DEF RpcInit, R!Init
<1>2. ASSUME RInv, [RpcNext]_rpcVars PROVE RInv' /\ [R!Next]_R!vars
  <2> USE <1>2
  <2>1. IInv'
    BY NextIInv DEF RInv
  <2>2. ASSUME NEW c \in Callers, Request(c) PROVE RInv' /\ R!Next
    <3>1. <<c, nth[c] + 1>> \in Asked
      <4>1. nth[c] \in 0..MaxRequests /\ nth[c] < MaxRequests
        BY <2>2 DEF RInv, IInv, RpcTypeOK, Request
      <4> QED BY <4>1, TransportAssumption DEF Asked
    <3> QED BY <2>1, <2>2, <3>1, RequestStep DEF RInv, R!Next
  <2>3. ASSUME NEW c \in Callers, Sent(c) PROVE RInv' /\ UNCHANGED R!vars
    BY <2>1, <2>3, SentStep DEF RInv
  <2>4. ASSUME NEW c \in Callers, Ends(c) PROVE RInv' /\ R!Next
    <3>1. Current(c) \in Asked
      BY <2>4, EndsIsEnd DEF RInv, IInv, RpcTypeOK, IdsInv, Asked, Current
    <3> QED BY <2>1, <2>4, <3>1, EndsStep DEF RInv, R!Next
  <2>5. ASSUME NEW m \in wire, NEW kind \in Kinds, Handle(m, kind)
        PROVE  RInv' /\ [R!Next]_R!vars
    <3>1. m.from \in Asked
      BY DEF RInv, IInv, RpcTypeOK, Requested
    <3> QED BY <2>1, <2>5, <3>1, HandleStep DEF RInv, R!Next
  <2>6. ASSUME NEW r \in replies, Deliver(r) PROVE RInv' /\ UNCHANGED R!vars
    BY <2>1, <2>6, DeliverStep DEF RInv
  <2>7. ASSUME Disconnect PROVE RInv' /\ UNCHANGED R!vars
    BY <2>1, <2>7, DisconnectStep DEF RInv
  <2>8. CASE UNCHANGED rpcVars
    BY <2>1, <2>8 DEF rpcVars, own, RInv, WireInv, AnsweredInv, Busy, Current, R!vars
  <2> QED BY <2>2, <2>3, <2>4, <2>5, <2>6, <2>7, <2>8 DEF RpcNext, Ends
<1> QED BY <1>1, <1>2, InitRInv, PTL DEF RpcSpec, ImplementsRequests, R!Spec
=============================================================================
