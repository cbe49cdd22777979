----------------------------- MODULE HTTPClient -----------------------------
(***************************************************************************)
(* The HTTP client of the RSS reader (src/src/hooks/HTTPClient.cc, driven  *)
(* by src/src/hooks/rsshook.cc): one queue of requests, one socket, and a  *)
(* state machine fed by select() and by the timer of the hook.             *)
(*                                                                         *)
(* A reply is a sequence of lines.  A line is one unit of length and       *)
(* arrives whole: a partial line waits in m_recv until its end is there.   *)
(* The server sends a reply in any pieces and may close at any point.      *)
(***************************************************************************)
EXTENDS Naturals, Sequences, FiniteSets

CONSTANTS
  Requests,  \* the feeds; two requests for one feed are equal (operator==)
  Replies,   \* what a server may answer: sequences of Lines
  MaxTries,  \* the 10 of "connectTries++ > 10"
  Timeout    \* m_timeout, in clock ticks

Codes == {"200", "302", "401"}
Lines == Codes \cup
  {"404", "length", "location", "authenticate", "header", "blank", "text"}

ASSUME HTTPAssumption ==
  Replies \subseteq Seq(Lines) /\ MaxTries \in Nat /\ Timeout \in Nat

VARIABLES
  m_queue,   \* the requests waiting, the current one first
  m_state,   \* the client's own state
  m_code,    \* the status code of the reply being read
  m_length,  \* its Content-Length, 0 when none was seen in this Recv()
  sock,      \* the TCP socket: "off", "connecting", "on"
  watch,     \* how the hook watches its descriptor: "none", "write", "read"
  reply,     \* what the server has to say on this connection
  got,       \* the lines of it in m_recv
  parsed,    \* the lines of it Parse() has taken from m_recv
  from,      \* where the present call of Parse() began
  pc,        \* "idle", or where in Recv() the program is
  idle,      \* ticks since m_last_operation, up to Timeout + 1
  tries,     \* connectTries
  auth,      \* authTries
  outcome,   \* what messageack last told of a feed
  asked      \* the feeds whose request went out since they were queued

net == <<reply, got, parsed, from>>
conn == <<m_code, m_length, sock, watch, net>>
vars == <<m_queue, m_state, conn, pc, idle, tries, auth, outcome, asked>>

(* SendEvent() looks for an equal request in the whole queue. *)
InQueueFrontMutant(r) == m_queue # <<>> /\ m_queue[1] = r
InQueue(r) == \E i \in DOMAIN m_queue : m_queue[i] = r

Init ==
  /\ m_queue = <<>> /\ m_state = "NOT_CONNECTED"
  /\ m_code = "200" /\ m_length = 0 /\ sock = "off" /\ watch = "none"
  /\ reply = <<>> /\ got = 0 /\ parsed = 0 /\ from = 0
  /\ pc = "idle" /\ idle = 0
  /\ tries = [r \in Requests |-> 0] /\ auth = [r \in Requests |-> 0]
  /\ outcome = [r \in Requests |-> "none"] /\ asked = {}

(* The socket is closed and its handle leaves the select() sets. *)
HangupWatchedMutant ==
  sock' = "off" /\ UNCHANGED watch
Hangup ==
  sock' = "off" /\ watch' = "none"

Disconnect ==
  Hangup /\ m_state' = "NOT_CONNECTED"

ReportLastMutant(result) ==
  /\ m_queue' = SubSeq(m_queue, 1, Len(m_queue) - 1)
  /\ outcome' = [outcome EXCEPT ![Head(m_queue)] = result]

(* messageack.emit() for the front of the queue, then delete and pop. *)
Report(result) ==
  /\ m_queue' = Tail(m_queue)
  /\ outcome' = [outcome EXCEPT ![Head(m_queue)] = result]

-----------------------------------------------------------------------------
(* Connect() for the front of q, which leaves m_state as s if it has begun *)
(* to connect and f, with the clock at t, if not.                          *)
Connect(q, out, tr, s, f, t) ==
  /\ reply' = <<>> /\ got' = 0 /\ parsed' = 0 /\ from' = 0
  /\ tries' = [tr EXCEPT ![Head(q)] = @ + 1]
  /\ \/ /\ tr[Head(q)] <= MaxTries
        /\ sock' \in {"connecting", "on"} /\ watch' = "write"
        /\ m_state' = s /\ idle' = 0
        /\ m_queue' = q /\ outcome' = out
     \/ /\ Hangup
        /\ m_state' = f /\ idle' = t
        /\ m_queue' = Tail(q) /\ outcome' = [out EXCEPT ![Head(q)] = "failed"]

(* rsshook::ping() and SendEvent(): an equal request already queued makes  *)
(* the new one redundant.                                                  *)
SendEvent(r) ==
  LET q == Append(m_queue, r)
      out == [outcome EXCEPT ![r] = "waiting"]
      tr == [tries EXCEPT ![r] = 0]
  IN
  /\ pc = "idle" /\ ~InQueue(r)
  /\ auth' = [auth EXCEPT ![r] = 0] /\ asked' = asked \ {r}
  /\ IF m_state = "NOT_CONNECTED"
     THEN Connect(q, out, tr, "WAITING_FOR_CONNECT", "NOT_CONNECTED", idle)
     ELSE /\ m_queue' = q /\ outcome' = out /\ tries' = tr
          /\ UNCHANGED <<m_state, sock, watch, net, idle>>
  /\ UNCHANGED <<m_code, m_length, pc>>

(* check_timeout() when the last operation is old enough. *)
CheckTimeoutRestartMutant ==
  /\ idle > Timeout /\ idle' = 0
  /\ UNCHANGED <<m_queue, m_state, sock, watch, net, tries, outcome>>
CheckTimeout ==
  /\ idle > Timeout
  /\ Report("failed") /\ Disconnect
  /\ UNCHANGED <<net, idle, tries>>

(* rsshook::exectimers(): clearoutMessagesPoll(). *)
Poll ==
  /\ pc = "idle" /\ m_queue # <<>>
  /\ IF m_state = "NOT_CONNECTED"
     THEN Connect(m_queue, outcome, tries, "WAITING_FOR_CONNECT", "NOT_CONNECTED", idle)
     ELSE CheckTimeout
  /\ UNCHANGED <<m_code, m_length, pc, auth, asked>>

Tick ==
  /\ idle <= Timeout /\ idle' = idle + 1
  /\ UNCHANGED <<m_queue, m_state, conn, pc, tries, auth, outcome, asked>>

-----------------------------------------------------------------------------
(* socket_cb() with SocketEvent::WRITE. *)

ConnectFailed ==
  /\ pc = "idle" /\ sock = "connecting" /\ watch = "write"
  /\ Hangup
  /\ UNCHANGED <<m_queue, m_state, m_code, m_length, net, pc, idle, tries,
                 auth, outcome, asked>>

(* SendRequest(): the request is on its way, the answer is up to the server. *)
SendRequest ==
  /\ pc = "idle" /\ sock = "connecting" /\ watch = "write"
  /\ sock' = "on" /\ watch' = "read" /\ m_state' = "WAITING_FOR_HEADER"
  /\ reply' \in Replies /\ asked' = asked \cup {Head(m_queue)}
  /\ UNCHANGED <<m_queue, m_code, m_length, got, parsed, from, pc, idle, tries,
                 auth, outcome>>

SendFailed ==
  /\ pc = "idle" /\ sock = "connecting" /\ watch = "write"
  /\ Disconnect
  /\ UNCHANGED <<m_queue, m_code, m_length, net, pc, idle, tries, auth,
                 outcome, asked>>

(* A socket that connected at once is not in the state the callback wants. *)
Inconsistent ==
  /\ pc = "idle" /\ sock = "on" /\ watch = "write"
  /\ watch' = "none"
  /\ UNCHANGED <<m_queue, m_state, m_code, m_length, sock, net, pc, idle,
                 tries, auth, outcome, asked>>

-----------------------------------------------------------------------------
(* socket_cb() with SocketEvent::READ: Recv() and Parse().                  *)

Chunk(n) ==
  /\ n > 0 /\ got + n <= Len(reply)
  /\ got' = got + n /\ from' = parsed /\ pc' = "parse"
  /\ UNCHANGED <<reply, parsed>>

Readable == pc = "idle" /\ sock = "on" /\ watch = "read"

RecvFirst(n) ==
  /\ Readable /\ m_length' = 0 /\ Chunk(n)
  /\ UNCHANGED <<m_queue, m_state, m_code, sock, watch, idle, tries, auth,
                 outcome, asked>>

RecvMore(n) ==
  /\ pc = "recv" /\ Chunk(n)
  /\ UNCHANGED <<m_queue, m_state, m_code, m_length, sock, watch, idle, tries,
                 auth, outcome, asked>>

(* EAGAIN: nothing more for now. *)
RecvAgain ==
  /\ pc = "recv" /\ pc' = "idle"
  /\ UNCHANGED <<m_queue, m_state, conn, idle, tries, auth, outcome, asked>>

(* Recv() has thrown a DisconnectedException: the request is delivered. *)
Delivered ==
  /\ Report("delivered") /\ Disconnect /\ pc' = "idle"
  /\ UNCHANGED <<m_code, net, idle, tries, auth, asked>>

RecvClosed ==
  \/ Readable /\ m_length' = 0 /\ Delivered
  \/ pc = "recv" /\ UNCHANGED m_length /\ Delivered

(* The whole of the page is in m_recv, if its length was in the header. *)
AnnouncedNoLengthMutant == got >= m_length
Announced == m_length > 0 /\ got >= m_length

(* Parse() has taken every line; Recv() looks at the length. *)
ParseEnd ==
  /\ pc = "parse" /\ parsed = got
  /\ \/ Announced /\ Delivered /\ UNCHANGED m_length
     \/ /\ ~Announced /\ pc' = "recv"
        /\ UNCHANGED <<m_queue, m_state, conn, idle, tries, auth, outcome, asked>>

Line == reply[parsed + 1]
Parsing(s) == pc = "parse" /\ parsed < got /\ m_state = s

(* One line is done with and Parse() goes on to the next. *)
NextLine ==
  /\ parsed' = parsed + 1 /\ idle' = 0
  /\ UNCHANGED <<m_queue, sock, watch, reply, got, from, pc, tries, outcome, asked>>

(* Parse() has thrown an HTTPException.  Recv() reports the request and    *)
(* then looks at the length all the same: if that much is in m_recv, the   *)
(* next request is reported as well, and without one the front of an       *)
(* empty list is used.                                                     *)
Fail ==
  /\ Disconnect /\ idle' = 0 /\ parsed' = parsed + 1
  /\ IF ~Announced
     THEN Report("failed") /\ pc' = "idle"
     ELSE IF Len(m_queue) > 1
     THEN /\ outcome' = [outcome EXCEPT ![m_queue[1]] = "failed",
                                        ![m_queue[2]] = "delivered"]
          /\ m_queue' = Tail(Tail(m_queue)) /\ pc' = "idle"
     ELSE Report("failed") /\ pc' = "undefined"
  /\ UNCHANGED <<m_code, m_length, reply, got, from, tries, asked>>

ParseStatus ==
  /\ Parsing("WAITING_FOR_HEADER")
  /\ \/ /\ Line \in Codes
        /\ m_code' = Line /\ m_state' = "RECEIVING_HEADER"
        /\ NextLine /\ UNCHANGED m_length
     \/ Line \notin Codes /\ Fail
  /\ UNCHANGED auth

(* The name of the last header stays in "head" for the empty line after    *)
(* it: a Content-Length that comes last, in one call of Parse(), is reset. *)
ParseHeader ==
  /\ Parsing("RECEIVING_HEADER")
  /\ ~(m_code = "302" /\ Line = "location")
  /\ ~(m_code = "401" /\ Line = "authenticate")
  /\ m_length' = CASE Line = "length" -> Cardinality({i \in DOMAIN reply : reply[i] = "text"})
                   [] Line = "blank" /\ parsed > from /\ reply[parsed] = "length" -> 0
                   [] OTHER -> m_length
  /\ m_state' = IF Line = "blank" THEN "RECEIVING_CONTENT" ELSE m_state
  /\ NextLine /\ UNCHANGED <<m_code, auth>>

ParseContent ==
  /\ Parsing("RECEIVING_CONTENT")
  /\ NextLine /\ UNCHANGED <<m_state, m_code, m_length, auth>>

(* m_recv is cleared and the socket is a new one: Parse() ends, and Recv() *)
(* too unless that socket connected at once.                               *)
LeaveParse == pc' = IF sock' = "on" THEN "recv" ELSE "idle"

(* A redirection. *)
Redirect ==
  /\ Parsing("RECEIVING_HEADER") /\ m_code = "302" /\ Line = "location"
  /\ Connect(m_queue, outcome, tries, "WAITING_FOR_CONNECT", "NOT_CONNECTED", 0)
  /\ LeaveParse
  /\ UNCHANGED <<m_code, m_length, auth, asked>>

(* A request for authentication: once per request the client connects      *)
(* again, and if nothing of the header is left then it sets m_state as at  *)
(* the end of the headers.                                                 *)
Authenticate ==
  /\ Parsing("RECEIVING_HEADER") /\ m_code = "401" /\ Line = "authenticate"
  /\ auth' = [auth EXCEPT ![Head(m_queue)] = @ + 1]
  /\ IF auth[Head(m_queue)] > 0
     THEN Fail
     ELSE /\ \/ Connect(m_queue, outcome, tries, "WAITING_FOR_CONNECT", "NOT_CONNECTED", 0)
             \/ Connect(m_queue, outcome, tries, "RECEIVING_CONTENT", "RECEIVING_CONTENT", 0)
          /\ LeaveParse /\ UNCHANGED <<m_code, m_length, asked>>

(* What the program does after it has used the front of an empty list is   *)
(* not followed any further.                                               *)
Undefined == pc = "undefined" /\ UNCHANGED vars

-----------------------------------------------------------------------------
RecvStep ==
  \/ \E n \in 1 .. Len(reply) : RecvMore(n)
  \/ RecvAgain \/ (pc = "recv" /\ RecvClosed)
  \/ ParseStatus \/ ParseHeader \/ ParseContent \/ ParseEnd
  \/ Redirect \/ Authenticate

Next ==
  \/ \E r \in Requests : SendEvent(r)
  \/ Poll \/ Tick
  \/ ConnectFailed \/ SendRequest \/ SendFailed \/ Inconsistent
  \/ \E n \in 1 .. Len(reply) : RecvFirst(n)
  \/ (pc = "idle" /\ RecvClosed)
  \/ RecvStep
  \/ Undefined

Spec == Init /\ [][Next]_vars

(* The main loop runs the hook's timers in every round, time passes, and a *)
(* call of Recv() runs to its end.                                         *)
FairSpec == Spec /\ WF_vars(Poll) /\ WF_vars(Tick) /\ WF_vars(RecvStep)

-----------------------------------------------------------------------------
States == {"NOT_CONNECTED", "WAITING_FOR_CONNECT", "WAITING_FOR_HEADER",
           "RECEIVING_HEADER", "RECEIVING_CONTENT"}
Outcomes == {"none", "waiting", "delivered", "failed"}

(* The types; m_recv holds a part of the reply of this very connection. *)
TypeOK ==
  /\ m_queue \in Seq(Requests) /\ m_state \in States /\ m_code \in Codes
  /\ m_length \in Nat /\ sock \in {"off", "connecting", "on"}
  /\ watch \in {"none", "write", "read"} /\ reply \in Seq(Lines)
  /\ got \in 0 .. Len(reply) /\ parsed \in 0 .. got /\ from \in 0 .. parsed
  /\ pc \in {"idle", "recv", "parse", "undefined"} /\ idle \in 0 .. Timeout + 1
  /\ tries \in [Requests -> Nat] /\ auth \in [Requests -> Nat]
  /\ outcome \in [Requests -> Outcomes] /\ asked \subseteq Requests

(* The socket follows the state machine through every failure: a closed    *)
(* descriptor is never handed to select(), Connect() never finds the       *)
(* socket in use, while it is in use there is a request it is for, and     *)
(* nothing of an earlier reply is left when a request goes out.            *)
Coherent ==
  /\ watch # "none" => sock # "off"
  /\ sock = "connecting" => watch = "write" /\ got = 0
  /\ m_state = "NOT_CONNECTED" => sock = "off"
  /\ sock # "off" => m_queue # <<>>
  /\ pc \in {"recv", "parse"} => sock = "on"

(* Just the requests that wait are queued, each of them once. *)
QueueSound ==
  /\ \A r \in Requests : outcome[r] = "waiting" <=> InQueue(r)
  /\ \A i, j \in DOMAIN m_queue : m_queue[i] = m_queue[j] => i = j

(* The server refuses the password a second time and had given a length    *)
(* before, of which that much has arrived.                                 *)
Overrun ==
  /\ Parsing("RECEIVING_HEADER") /\ m_code = "401" /\ Line = "authenticate"
  /\ auth[Head(m_queue)] > 0 /\ Announced

(* What a feed is told to be delivered is an answer to a request for that  *)
(* feed: one that timed out, failed or was redirected leaves nothing for   *)
(* the next in the queue, and nothing is reported from an empty one.  In   *)
(* an Overrun() alone, where Recv() reports twice, does the next one take  *)
(* the refusal for its page, or the program the front of an empty list.    *)
Tells ==
  /\ pc' = "undefined" /\ pc # "undefined" => Overrun /\ Len(m_queue) = 1
  /\ \A r \in Requests : outcome'[r] = "delivered" /\ outcome[r] # "delivered" =>
       r \in asked \/ (Overrun /\ r = m_queue[2])
OwnAnswer == [][Tells]_vars

(* The client serves the feeds as FeedQueue has it: in the order in which  *)
(* they asked, each with the outcome of its own request, one at a time,    *)
(* but for one that was asked for a password and takes the next with it.   *)
Turns == INSTANCE FeedQueue WITH
  queue <- m_queue, sent <- asked, barred <- {r \in Requests : auth[r] > 0}
ServedInTurn == Turns!Spec

(* Every request is answered, or given up, in the end. *)
EventuallyReported ==
  \A r \in Requests : outcome[r] = "waiting" ~> outcome[r] # "waiting"
=============================================================================
