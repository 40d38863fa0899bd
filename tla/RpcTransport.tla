---------------------------- MODULE RpcTransport ----------------------------
(***************************************************************************)
(* Requests from the server to its client on one session:                  *)
(* _send_custom_request and _make_sync_caller of server.py, beside the     *)
(* requests the MCP SDK sends on the same session (ctx.elicit).            *)
(*                                                                         *)
(* A request takes the session's next id, registers a memory stream under  *)
(* it in the session's _response_streams, hands its message to the writer  *)
(* and waits for the stream.  The SDK's receive loop looks an answer's id  *)
(* up in _response_streams, pops the stream and puts the answer into it;   *)
(* an answer whose id is not there is dropped.  A custom request gives up  *)
(* after its timeout, which does not cover the hand-over to the writer; an *)
(* SDK request has no timeout.  The client may answer at any time, in any  *)
(* order, again, or never.                                                 *)
(*                                                                         *)
(* Statements between two awaits are one step: all of this runs on one     *)
(* event loop.                                                             *)
(***************************************************************************)
EXTENDS Naturals

CONSTANTS
  Callers,     \* who asks: scripts' callbacks, discovery, the SDK
  Custom,      \* those of them that use _send_custom_request
  MaxRequests  \* bound: the requests one caller makes after one another

ASSUME TransportAssumption ==
  /\ Custom \subseteq Callers
  /\ MaxRequests \in Nat

VARIABLES
  counter,   \* the session's _request_id
  streams,   \* _response_streams: which caller reads the stream of an id
  pc,        \* pc[c]: where c is in its request
  mine,      \* mine[c]: request_id, the id c took
  nth,       \* nth[c]: the number of c's current or last request
  buffer,    \* buffer[c]: what is in the stream c reads
  wire,      \* requests the writer took and the client has not looked at
  replies,   \* what the client answered
  link,      \* the connection
  outcome,   \* outcome[<<c, n>>]: how c's n-th request ended (history)
  executed   \* the requests whose function the client called (history)

own == <<pc, mine, nth>>
rpcVars == <<counter, streams, own, buffer, wire, replies, link, outcome, executed>>

Asked == Callers \X (1..MaxRequests)
Requested == [id : Nat, from : Asked]
\* What the function returned or raised, or a JSON-RPC error.
Kinds == {"answer", "error"}
Replies == [id : Nat, from : Asked, kind : Kinds]
Nothing == [kind |-> "nothing"]
Closed == [kind |-> "closed"]   \* the SDK's error for a closed connection

Outcomes == {"new", "pending", "answered", "failed"}

RpcTypeOK ==
  /\ counter \in Nat
  /\ streams \subseteq [id : Nat, reader : Callers]
  /\ pc \in [Callers -> {"idle", "sending", "waiting"}]
  /\ mine \in [Callers -> Nat]
  /\ nth \in [Callers -> 0..MaxRequests]
  /\ buffer \in [Callers -> Replies \cup {Nothing, Closed}]
  /\ wire \subseteq Requested
  /\ replies \subseteq Replies
  /\ link \in {"up", "down"}
  /\ outcome \in [Asked -> Outcomes]
  /\ executed \subseteq Asked

RpcInit ==
  /\ counter = 0
  /\ streams = {}
  /\ pc = [c \in Callers |-> "idle"]
  /\ mine = [c \in Callers |-> 0]
  /\ nth = [c \in Callers |-> 0]
  /\ buffer = [c \in Callers |-> Nothing]
  /\ wire = {}
  /\ replies = {}
  /\ link = "up"
  /\ outcome = [r \in Asked |-> "new"]
  /\ executed = {}

Current(c) == <<c, nth[c]>>

\* Mutant: an await between the reading of the id and its increment.
TakeIdRacing(c) ==
  /\ mine' = [mine EXCEPT ![c] = counter]
  /\ counter' \in {counter, counter + 1}

TakeId(c) ==
  /\ mine' = [mine EXCEPT ![c] = counter]
  /\ counter' = counter + 1

\* The id, the stream, its registration, and the message up to the await.
Request(c) ==
  /\ pc[c] = "idle" /\ nth[c] < MaxRequests
  /\ TakeId(c)
  /\ streams' = {s \in streams : s.id # counter} \cup {[id |-> counter, reader |-> c]}
  /\ buffer' = [buffer EXCEPT ![c] = Nothing]
  /\ nth' = [nth EXCEPT ![c] = @ + 1]
  /\ outcome' = [outcome EXCEPT ![<<c, nth[c] + 1>>] = "pending"]
  /\ pc' = [pc EXCEPT ![c] = "sending"]
  /\ UNCHANGED <<wire, replies, link, executed>>

\* The writer takes the message: when it does is up to the client.
Sent(c) ==
  /\ pc[c] = "sending" /\ link = "up"
  /\ wire' = wire \cup {[id |-> mine[c], from |-> Current(c)]}
  /\ pc' = [pc EXCEPT ![c] = "waiting"]
  /\ UNCHANGED <<counter, streams, mine, nth, buffer, replies, link, outcome, executed>>

\* The client calls the function, or refuses to.
Handle(m, kind) ==
  /\ m \in wire
  /\ wire' = wire \ {m}
  /\ replies' = replies \cup {[id |-> m.id, from |-> m.from, kind |-> kind]}
  /\ executed' = IF kind = "error" THEN executed ELSE executed \cup {m.from}
  /\ UNCHANGED <<counter, streams, own, buffer, link, outcome>>

\* The receive loop reads an answer, perhaps not for the first time, whose
\* id is registered.  (It drops every other: no step.)
Deliver(r) ==
  /\ link = "up" /\ r \in replies
  /\ \E s \in streams :
       /\ s.id = r.id
       /\ streams' = streams \ {s}
       /\ buffer' = [buffer EXCEPT ![s.reader] = r]
  /\ UNCHANGED <<counter, own, wire, replies, link, outcome, executed>>

\* The receive loop ends and tells the registered streams that the
\* connection is closed, unless one that is popped meanwhile stops it.
Disconnect ==
  /\ link = "up"
  /\ link' = "down"
  /\ \E told \in SUBSET streams :
       /\ buffer' = [c \in Callers |->
                       IF \E s \in told : s.reader = c THEN Closed ELSE buffer[c]]
       /\ streams' \in {{}, streams}
  /\ UNCHANGED <<counter, own, wire, replies, outcome, executed>>

\* Mutant: the stream stays registered.
EndKeeping(c, how) ==
  /\ pc' = [pc EXCEPT ![c] = "idle"]
  /\ outcome' = [outcome EXCEPT ![Current(c)] = how]
  /\ UNCHANGED <<counter, streams, mine, nth, buffer, wire, replies, link, executed>>

\* The finally block, on every way out.
End(c, how) ==
  /\ streams' = {s \in streams : s.id # mine[c]}
  /\ pc' = [pc EXCEPT ![c] = "idle"]
  /\ outcome' = [outcome EXCEPT ![Current(c)] = how]
  /\ UNCHANGED <<counter, mine, nth, buffer, wire, replies, link, executed>>

\* Mutant: the answer's kind is taken for the outcome.
HowRaw(b) == b.kind

\* Mutant: an error answer is not told from a result.
HowBlind(b) == IF b.kind = "closed" THEN "failed" ELSE "answered"

\* What an answer becomes: the function's value or exception, or an McpError,
\* also for a closed connection.
How(b) == IF b.kind = "answer" THEN "answered" ELSE "failed"

Receive(c) ==
  /\ pc[c] = "waiting" /\ buffer[c] # Nothing
  /\ End(c, How(buffer[c]))

\* Mutant: fail_after is forgotten for a link that is up.
TimesOutLate(c) ==
  /\ pc[c] = "waiting" /\ buffer[c] = Nothing /\ link = "down"
  /\ c \in Custom
  /\ End(c, "failed")

TimesOut(c) ==
  /\ pc[c] = "waiting" /\ buffer[c] = Nothing
  /\ c \in Custom
  /\ End(c, "failed")

\* The write stream is closed.
SendFails(c) ==
  /\ pc[c] = "sending" /\ link = "down"
  /\ End(c, "failed")

\* The client cancels the call the request is made for; an answer that is
\* there already is not lost.
Cancelled(c) ==
  /\ \/ pc[c] = "sending"
     \/ pc[c] = "waiting" /\ buffer[c] = Nothing
  /\ End(c, "failed")

RpcNext ==
  \/ \E c \in Callers :
       \/ Request(c) \/ Sent(c) \/ Receive(c) \/ TimesOut(c) \/ SendFails(c) \/ Cancelled(c)
  \/ \E m \in wire, kind \in Kinds : Handle(m, kind)
  \/ \E r \in replies : Deliver(r)
  \/ Disconnect

RpcSpec == RpcInit /\ [][RpcNext]_rpcVars

\* A task whose stream has something runs, and the timeout passes.  Nothing
\* is assumed of the client: neither that it answers nor that it reads.
RpcFairness == \A c \in Callers : WF_rpcVars(Receive(c) \/ TimesOut(c))

RpcFairSpec == RpcSpec /\ RpcFairness

-----------------------------------------------------------------------------

\* What a caller reads is the answer to the request it has in progress, and
\* to no earlier one of its own, timed out meanwhile, nor to another's.
AnswersGoHome ==
  \A c \in Callers :
    pc[c] # "idle" /\ buffer[c].kind \in Kinds => buffer[c].from = Current(c)

\* While the connection is up, whoever waits can be answered, or has been;
\* and no stream outlives its request, however that ended.
StreamsMatchRequests ==
  /\ \A s \in streams : pc[s.reader] # "idle" /\ mine[s.reader] = s.id
  /\ link = "up" =>
       \A c \in Callers : pc[c] # "idle" /\ buffer[c] = Nothing =>
         \E s \in streams : s.reader = c /\ s.id = mine[c]

\* A request of our own ends once the writer took it, whatever the client
\* does.  (Before that it need not: the hand-over is outside fail_after.)
SentRequestsEnd == \A c \in Custom : []<>(pc[c] # "waiting")

R == INSTANCE Requests WITH status <- outcome

\* A callback is executed at most once, is reported as answered only if it
\* was, and ends once, for good: the requests of a session are Requests.
ImplementsRequests == R!Spec
=============================================================================
