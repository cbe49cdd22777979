-------------------------- MODULE HTTPClientProofs --------------------------
(* Proofs about HTTPClient: types, the agreement of the socket with the    *)
(* state machine, and the soundness of the queue.                          *)
EXTENDS HTTPClient, FiniteSetTheorems, TLAPS

(* Taking the front of a queue. *)
LEMMA PopFacts ==
  ASSUME NEW S, NEW q \in Seq(S), q # <<>>
  PROVE  /\ Head(q) \in S /\ Head(q) = q[1] /\ Len(q) \in Nat /\ Len(q) > 0
         /\ Tail(q) \in Seq(S) /\ Len(Tail(q)) = Len(q) - 1
         /\ \A i \in 1 .. Len(q) - 1 : Tail(q)[i] = q[i + 1]
  OBVIOUS

(* The number of lines of text in a page. *)
LEMMA BodyLength ==
  ASSUME NEW p \in Seq(Lines)
  PROVE  Cardinality({i \in DOMAIN p : p[i] = "text"}) \in Nat
<1>1. DOMAIN p = 1 .. Len(p) /\ Len(p) \in Nat
  OBVIOUS
<1>2. IsFiniteSet(DOMAIN p)
  BY <1>1, FS_Interval
<1>3. IsFiniteSet({i \in DOMAIN p : p[i] = "text"})
  BY <1>2, FS_Subset
<1> QED BY <1>3, FS_CardinalityType

(* The types of the variables that Connect() and SendEvent() change. *)
QueueTypes(q, out, tr) ==
  q \in Seq(Requests) /\ out \in [Requests -> Outcomes] /\ tr \in [Requests -> Nat]

(* The types of the connection and its buffer, and Coherent between two    *)
(* calls of Recv().                                                        *)
NetTypes ==
  /\ m_state \in States /\ sock \in {"off", "connecting", "on"}
  /\ watch \in {"none", "write", "read"} /\ reply \in Seq(Lines)
  /\ got \in 0 .. Len(reply) /\ parsed \in 0 .. got /\ from \in 0 .. parsed
  /\ idle \in 0 .. Timeout + 1
Linked ==
  /\ watch # "none" => sock # "off"
  /\ sock = "connecting" => watch = "write" /\ got = 0
  /\ m_state = "NOT_CONNECTED" => sock = "off"
  /\ sock # "off" => m_queue # <<>>

(* What Connect() does to the types and to the socket, from wherever it is *)
(* called.                                                                 *)
LEMMA ConnectSound ==
  ASSUME NEW q, NEW out, NEW tr, QueueTypes(q, out, tr), q # <<>>,
         NEW s \in States \ {"NOT_CONNECTED"}, NEW f \in States,
         NEW t \in 0 .. Timeout + 1, Connect(q, out, tr, s, f, t)
  PROVE  QueueTypes(m_queue', outcome', tries') /\ NetTypes' /\ Linked'
<1> USE DEF QueueTypes
<1>1. /\ Head(q) \in Requests /\ Tail(q) \in Seq(Requests)
  BY PopFacts
<1>2. /\ reply' = <<>> /\ got' = 0 /\ parsed' = 0 /\ from' = 0
      /\ tries' \in [Requests -> Nat]
  BY <1>1 DEF Connect
<1>3. /\ reply' \in Seq(Lines)
      /\ got' \in 0 .. Len(reply') /\ parsed' \in 0 .. got' /\ from' \in 0 .. parsed'
  BY <1>2
<1>4. CASE /\ sock' \in {"connecting", "on"} /\ watch' = "write"
           /\ m_state' = s /\ idle' = 0
           /\ m_queue' = q /\ outcome' = out
  <2>1. 0 \in 0 .. Timeout + 1
    BY HTTPAssumption
  <2>2. NetTypes'
    BY <1>3, <1>4, <2>1 DEF NetTypes
  <2>3. Linked'
    BY <1>2, <1>4 DEF Linked
  <2> QED BY <1>2, <1>4, <2>2, <2>3
<1>5. CASE /\ Hangup
           /\ m_state' = f /\ idle' = t
           /\ m_queue' = Tail(q) /\ outcome' = [out EXCEPT ![Head(q)] = "failed"]
  <2>1. NetTypes'
    BY <1>3, <1>5 DEF NetTypes, Hangup
  <2>2. Linked'
    BY <1>5 DEF Linked, Hangup
  <2>3. outcome' \in [Requests -> Outcomes]
    BY <1>1, <1>5 DEF Outcomes
  <2> QED BY <1>1, <1>2, <1>5, <2>1, <2>2, <2>3
<1> QED BY <1>4, <1>5 DEF Connect

(* The rest of the two invariants. *)
OtherTypes ==
  /\ m_code \in Codes /\ m_length \in Nat
  /\ pc \in {"idle", "recv", "parse", "undefined"}
  /\ auth \in [Requests -> Nat] /\ asked \subseteq Requests
Receiving == pc \in {"recv", "parse"} => sock = "on"

Sane == TypeOK /\ Coherent

LEMMA SaneParts ==
  Sane <=> /\ QueueTypes(m_queue, outcome, tries) /\ NetTypes /\ Linked
           /\ OtherTypes /\ Receiving
BY DEF Sane, TypeOK, Coherent, QueueTypes, NetTypes, Linked, OtherTypes, Receiving

LEMMA SanePartsNext ==
  ASSUME QueueTypes(m_queue', outcome', tries'), NetTypes', Linked', OtherTypes', Receiving'
  PROVE  Sane'
BY DEF Sane, TypeOK, Coherent, QueueTypes, NetTypes, Linked, OtherTypes, Receiving

LEMMA ReportTypes ==
  ASSUME TypeOK, m_queue # <<>>, NEW v \in Outcomes, Report(v)
  PROVE  m_queue' \in Seq(Requests) /\ outcome' \in [Requests -> Outcomes]
<1>1. /\ Head(m_queue) \in Requests /\ Tail(m_queue) \in Seq(Requests)
  BY PopFacts DEF TypeOK
<1> QED BY <1>1 DEF Report, TypeOK

LEMMA InitSane == Init => Sane
<1> SUFFICES ASSUME Init PROVE Sane
  OBVIOUS
<1>1. QueueTypes(m_queue, outcome, tries)
  BY DEF Init, QueueTypes, Outcomes
<1>2. NetTypes
  BY HTTPAssumption DEF Init, NetTypes, States
<1>3. Linked /\ OtherTypes /\ Receiving
  BY DEF Init, Linked, OtherTypes, Receiving, Codes
<1> QED BY <1>1, <1>2, <1>3, SaneParts

LEMMA SendEventSane ==
  ASSUME Sane, NEW r \in Requests, SendEvent(r) PROVE Sane'
<1> DEFINE q == Append(m_queue, r)
           out == [outcome EXCEPT ![r] = "waiting"]
           tr == [tries EXCEPT ![r] = 0]
<1>0. /\ m_queue \in Seq(Requests) /\ outcome \in [Requests -> Outcomes]
      /\ tries \in [Requests -> Nat] /\ idle \in 0 .. Timeout + 1
  BY DEF Sane, TypeOK
<1>1. q \in Seq(Requests) /\ q # <<>>
  <2>1. q \in Seq(Requests) /\ Len(q) = Len(m_queue) + 1 /\ Len(m_queue) \in Nat
    BY <1>0
  <2> QED BY <2>1
<1>2. out \in [Requests -> Outcomes] /\ tr \in [Requests -> Nat]
  BY <1>0 DEF Outcomes
<1>3. QueueTypes(q, out, tr)
  BY <1>1, <1>2 DEF QueueTypes
<1>4. /\ pc = "idle" /\ pc' = pc /\ m_code' = m_code /\ m_length' = m_length
      /\ auth' = [auth EXCEPT ![r] = 0] /\ asked' = asked \ {r}
  BY DEF SendEvent
<1>5. OtherTypes' /\ Receiving'
  BY <1>4 DEF Sane, TypeOK, OtherTypes, Receiving
<1>6. CASE m_state = "NOT_CONNECTED"
  <2>1. Connect(q, out, tr, "WAITING_FOR_CONNECT", "NOT_CONNECTED", idle)
    BY <1>6 DEF SendEvent
  <2> HIDE DEF q, out, tr
  <2>2. QueueTypes(m_queue', outcome', tries') /\ NetTypes' /\ Linked'
    BY <1>0, <1>1, <1>3, <2>1, ConnectSound DEF States
  <2> QED BY <1>5, <2>2, SanePartsNext
<1>7. CASE m_state # "NOT_CONNECTED"
  <2>1. /\ m_queue' = q /\ outcome' = out /\ tries' = tr
        /\ UNCHANGED <<m_state, sock, watch, net, idle>>
    BY <1>7 DEF SendEvent
  <2> HIDE DEF q, out, tr
  <2>2. NetTypes'
    BY <2>1 DEF Sane, TypeOK, NetTypes, net
  <2>3. Linked'
    BY <1>1, <2>1 DEF Sane, Coherent, Linked, net
  <2> QED BY <1>3, <1>5, <2>1, <2>2, <2>3, SanePartsNext
<1> QED BY <1>6, <1>7

LEMMA PollSane ==
  ASSUME Sane, Poll PROVE Sane'
<1>1. /\ pc = "idle" /\ m_queue # <<>>
      /\ UNCHANGED <<m_code, m_length, pc, auth, asked>>
  BY DEF Poll
<1>2. QueueTypes(m_queue, outcome, tries) /\ idle \in 0 .. Timeout + 1
  BY DEF Sane, TypeOK, QueueTypes
<1>3. OtherTypes' /\ Receiving'
  BY <1>1 DEF Sane, TypeOK, OtherTypes, Receiving
<1>4. CASE m_state = "NOT_CONNECTED"
  <2>1. Connect(m_queue, outcome, tries, "WAITING_FOR_CONNECT", "NOT_CONNECTED", idle)
    BY <1>4 DEF Poll
  <2>2. QueueTypes(m_queue', outcome', tries') /\ NetTypes' /\ Linked'
    BY <1>1, <1>2, <2>1, ConnectSound DEF States
  <2> QED BY <1>3, <2>2, SanePartsNext
<1>5. CASE m_state # "NOT_CONNECTED"
  <2>1. CheckTimeout
    BY <1>5 DEF Poll
  <2>2. m_queue' \in Seq(Requests) /\ outcome' \in [Requests -> Outcomes]
    BY <1>1, <2>1, ReportTypes DEF CheckTimeout, Sane, Outcomes
  <2>3. QueueTypes(m_queue', outcome', tries')
    BY <1>2, <2>1, <2>2 DEF QueueTypes, CheckTimeout
  <2>4. NetTypes' /\ Linked'
    BY <2>1 DEF CheckTimeout, Disconnect, Hangup, Sane, TypeOK, NetTypes, Linked, net, States
  <2> QED BY <1>3, <2>3, <2>4, SanePartsNext
<1> QED BY <1>4, <1>5

LEMMA TickSane ==
  ASSUME Sane, Tick PROVE Sane'
<1>1. idle' \in 0 .. Timeout + 1
  BY HTTPAssumption DEF Tick, Sane, TypeOK
<1>2. UNCHANGED <<m_queue, m_state, conn, pc, tries, auth, outcome, asked>>
  BY DEF Tick
<1> QED BY <1>1, <1>2 DEF Sane, TypeOK, Coherent, conn, net

(* The callback for a socket that can be written to. *)
LEMMA WriteSane ==
  ASSUME Sane, ConnectFailed \/ SendRequest \/ SendFailed \/ Inconsistent
  PROVE  Sane'
<1>0. QueueTypes(m_queue, outcome, tries) /\ NetTypes /\ Linked /\ OtherTypes /\ Receiving
  BY SaneParts
<1>1. UNCHANGED <<m_queue, outcome, tries>>
  BY DEF ConnectFailed, SendRequest, SendFailed, Inconsistent
<1>2. QueueTypes(m_queue', outcome', tries')
  BY <1>0, <1>1
<1>3. CASE ConnectFailed
  <2>1. NetTypes' /\ Linked'
    BY <1>0, <1>3 DEF ConnectFailed, Hangup, NetTypes, Linked, net
  <2>2. OtherTypes' /\ Receiving'
    BY <1>0, <1>3 DEF ConnectFailed, OtherTypes, Receiving
  <2> QED BY <1>2, <2>1, <2>2, SanePartsNext
<1>4. CASE SendRequest
  <2>1. m_queue # <<>>
    BY <1>0, <1>4 DEF SendRequest, Linked
  <2>2. Head(m_queue) \in Requests
    BY <1>0, <2>1, PopFacts DEF QueueTypes
  <2>3. reply' \in Seq(Lines)
    BY <1>4, HTTPAssumption DEF SendRequest
  <2>4. NetTypes' /\ Linked'
    <3>1. got' = 0 /\ parsed' = 0 /\ from' = 0
      BY <1>0, <1>4 DEF SendRequest, NetTypes, Linked
    <3> QED BY <1>0, <1>4, <2>1, <2>3, <3>1 DEF SendRequest, NetTypes, Linked, States
  <2>5. OtherTypes' /\ Receiving'
    BY <1>0, <1>4, <2>2 DEF SendRequest, OtherTypes, Receiving
  <2> QED BY <1>2, <2>4, <2>5, SanePartsNext
<1>5. CASE SendFailed
  <2>1. NetTypes' /\ Linked'
    BY <1>0, <1>5 DEF SendFailed, Disconnect, Hangup, NetTypes, Linked, net, States
  <2>2. OtherTypes' /\ Receiving'
    BY <1>0, <1>5 DEF SendFailed, OtherTypes, Receiving
  <2> QED BY <1>2, <2>1, <2>2, SanePartsNext
<1>6. CASE Inconsistent
  <2>1. NetTypes' /\ Linked'
    BY <1>0, <1>6 DEF Inconsistent, NetTypes, Linked, net
  <2>2. OtherTypes' /\ Receiving'
    BY <1>0, <1>6 DEF Inconsistent, OtherTypes, Receiving
  <2> QED BY <1>2, <2>1, <2>2, SanePartsNext
<1> QED BY <1>3, <1>4, <1>5, <1>6

(* The arrival of lines, and the end of a call of Recv(). *)
LEMMA RecvSane ==
  ASSUME Sane,
         (\E n \in 1 .. Len(reply) : RecvFirst(n) \/ RecvMore(n)) \/ RecvAgain
  PROVE  Sane'
<1>0. QueueTypes(m_queue, outcome, tries) /\ NetTypes /\ Linked /\ OtherTypes /\ Receiving
  BY SaneParts
<1>1. UNCHANGED <<m_queue, m_state, m_code, sock, watch, idle, tries, auth, outcome, asked>>
  BY DEF RecvFirst, RecvMore, RecvAgain, conn
<1>2. QueueTypes(m_queue', outcome', tries')
  BY <1>0, <1>1
<1>3. sock = "on" /\ m_length' \in Nat
  BY <1>0 DEF RecvFirst, RecvMore, RecvAgain, Readable, Receiving, OtherTypes, conn
<1>4. CASE RecvAgain
  BY <1>0, <1>1, <1>2, <1>3, <1>4, SanePartsNext
     DEF RecvAgain, NetTypes, Linked, OtherTypes, Receiving, conn, net
<1>5. ASSUME NEW n \in 1 .. Len(reply), Chunk(n) PROVE Sane'
  <2>1. NetTypes'
    BY <1>0, <1>1, <1>5 DEF Chunk, NetTypes
  <2>2. Linked'
    BY <1>0, <1>1, <1>3 DEF Linked
  <2>3. OtherTypes' /\ Receiving'
    BY <1>0, <1>1, <1>3, <1>5 DEF Chunk, OtherTypes, Receiving
  <2> QED BY <1>2, <2>1, <2>2, <2>3, SanePartsNext
<1> QED BY <1>4, <1>5 DEF RecvFirst, RecvMore

(* A request that is delivered. *)
LEMMA DeliveredSane ==
  ASSUME Sane, sock = "on", Delivered, m_length' \in Nat PROVE Sane'
<1>1. m_queue # <<>>
  BY DEF Sane, Coherent
<1>2. m_queue' \in Seq(Requests) /\ outcome' \in [Requests -> Outcomes]
  BY <1>1, ReportTypes DEF Delivered, Sane, Outcomes
<1>3. QueueTypes(m_queue', outcome', tries')
  BY <1>2 DEF Delivered, QueueTypes, Sane, TypeOK
<1>4. NetTypes' /\ Linked'
  BY DEF Delivered, Disconnect, Hangup, Sane, TypeOK, NetTypes, Linked, net, States
<1>5. OtherTypes' /\ Receiving'
  BY DEF Delivered, Sane, TypeOK, OtherTypes, Receiving
<1> QED BY <1>3, <1>4, <1>5, SanePartsNext

LEMMA RecvEndSane ==
  ASSUME Sane, RecvClosed \/ ParseEnd PROVE Sane'
<1>1. sock = "on" /\ m_length \in Nat
  BY DEF Sane, TypeOK, Coherent, RecvClosed, ParseEnd, Readable
<1>2. CASE Delivered /\ m_length' \in Nat
  BY <1>1, <1>2, DeliveredSane
<1>3. CASE /\ pc = "parse" /\ pc' = "recv"
           /\ UNCHANGED <<m_queue, m_state, conn, idle, tries, auth, outcome, asked>>
  BY <1>3 DEF Sane, TypeOK, Coherent, conn, net
<1> QED BY <1>1, <1>2, <1>3 DEF RecvClosed, ParseEnd

(* Parse() within a reply. *)
LEMMA LineTypes ==
  ASSUME Sane, NEW s \in States, Parsing(s)
  PROVE  /\ Line \in Lines /\ parsed + 1 \in 0 .. got /\ from \in 0 .. parsed + 1
         /\ m_queue # <<>> /\ sock = "on" /\ Head(m_queue) \in Requests
<1>1. /\ reply \in Seq(Lines) /\ got \in 0 .. Len(reply) /\ parsed \in 0 .. got
      /\ from \in 0 .. parsed /\ parsed < got /\ m_queue \in Seq(Requests)
  BY DEF Sane, TypeOK, Parsing
<1>2. parsed + 1 \in 1 .. Len(reply)
  BY <1>1
<1>3. Line \in Lines
  BY <1>1, <1>2 DEF Line
<1>4. m_queue # <<>> /\ sock = "on"
  BY DEF Sane, Coherent, Parsing
<1>5. Head(m_queue) \in Requests
  BY <1>1, <1>4, PopFacts
<1> QED BY <1>1, <1>2, <1>3, <1>4, <1>5

(* A queue that holds a request is not the empty one. *)
LEMMA NotEmpty ==
  ASSUME NEW q \in Seq(Requests), Len(q) > 0
  PROVE  q # <<>>
OBVIOUS

(* Parse() throws: the request at the front fails. *)
LEMMA FailSane ==
  ASSUME Sane, NEW s \in States, Parsing(s), Fail, auth' \in [Requests -> Nat]
  PROVE  Sane'
<1>1. /\ parsed + 1 \in 0 .. got /\ from \in 0 .. parsed + 1 /\ m_queue # <<>>
      /\ m_queue \in Seq(Requests) /\ outcome \in [Requests -> Outcomes]
  BY LineTypes DEF Sane, TypeOK
<1>2. m_queue' \in Seq(Requests) /\ outcome' \in [Requests -> Outcomes]
  <2>1. CASE Report("failed")
    BY <1>1, <2>1, ReportTypes DEF Sane, Outcomes
  <2>2. CASE /\ Len(m_queue) > 1 /\ m_queue' = Tail(Tail(m_queue))
             /\ outcome' = [outcome EXCEPT ![m_queue[1]] = "failed",
                                           ![m_queue[2]] = "delivered"]
    <3>1. Tail(m_queue) \in Seq(Requests) /\ Len(Tail(m_queue)) = Len(m_queue) - 1
      BY <1>1, PopFacts
    <3>2. Tail(m_queue) # <<>>
      <4>1. Len(Tail(m_queue)) > 0
        BY <1>1, <2>2, <3>1
      <4> QED BY <3>1, <4>1, NotEmpty
    <3>3. Tail(Tail(m_queue)) \in Seq(Requests)
      BY <3>1, <3>2, PopFacts
    <3> QED BY <1>1, <2>2, <3>3 DEF Outcomes
  <2> QED BY <2>1, <2>2 DEF Fail
<1>3. QueueTypes(m_queue', outcome', tries')
  BY <1>2 DEF Fail, QueueTypes, Sane, TypeOK
<1>4. NetTypes' /\ Linked'
  BY <1>1, HTTPAssumption
     DEF Fail, Disconnect, Hangup, Sane, TypeOK, NetTypes, Linked, States
<1>5. pc' \in {"idle", "undefined"}
  BY DEF Fail
<1>6. OtherTypes' /\ Receiving'
  BY <1>5 DEF Fail, Sane, TypeOK, OtherTypes, Receiving
<1> QED BY <1>3, <1>4, <1>6, SanePartsNext

LEMMA ParseSane ==
  ASSUME Sane, ParseStatus \/ ParseHeader \/ ParseContent PROVE Sane'
<1>0. QueueTypes(m_queue, outcome, tries) /\ NetTypes /\ Linked /\ OtherTypes /\ Receiving
  BY SaneParts
<1>1. ASSUME NEW s \in States, Parsing(s), NextLine, m_state' \in States \ {"NOT_CONNECTED"},
             m_code' \in Codes, m_length' \in Nat, auth' = auth
      PROVE  Sane'
  <2>1. /\ parsed + 1 \in 0 .. got /\ from \in 0 .. parsed + 1 /\ sock = "on"
        /\ m_queue # <<>>
    BY <1>1, LineTypes
  <2>2. 0 \in 0 .. Timeout + 1
    BY HTTPAssumption
  <2>3. QueueTypes(m_queue', outcome', tries')
    BY <1>0, <1>1 DEF NextLine
  <2>4. NetTypes' /\ Linked'
    BY <1>0, <1>1, <2>1, <2>2 DEF NextLine, NetTypes, Linked
  <2>5. OtherTypes' /\ Receiving'
    BY <1>0, <1>1, <2>1 DEF NextLine, OtherTypes, Receiving
  <2> QED BY <2>3, <2>4, <2>5, SanePartsNext
<1>2. CASE ParseStatus
  <2>1. Parsing("WAITING_FOR_HEADER") /\ auth' = auth /\ auth' \in [Requests -> Nat]
    BY <1>0, <1>2 DEF ParseStatus, OtherTypes
  <2>2. CASE Fail
    BY <2>1, <2>2, FailSane DEF States
  <2>3. CASE /\ Line \in Codes /\ m_code' = Line /\ m_state' = "RECEIVING_HEADER"
             /\ NextLine /\ UNCHANGED m_length
    BY <1>0, <1>1, <2>1, <2>3 DEF States, OtherTypes
  <2> QED BY <1>2, <2>2, <2>3 DEF ParseStatus
<1>3. CASE ParseHeader
  <2>1. /\ Parsing("RECEIVING_HEADER") /\ NextLine /\ UNCHANGED <<m_code, auth>>
        /\ m_state' = IF Line = "blank" THEN "RECEIVING_CONTENT" ELSE m_state
    BY <1>3 DEF ParseHeader
  <2>2. m_state' \in States \ {"NOT_CONNECTED"}
    BY <2>1 DEF Parsing, States
  <2>3. m_length' \in Nat
    <3>1. Cardinality({i \in DOMAIN reply : reply[i] = "text"}) \in Nat
      BY <1>0, BodyLength DEF NetTypes
    <3> DEFINE size == Cardinality({i \in DOMAIN reply : reply[i] = "text"})
    <3>2. size \in Nat /\ m_length \in Nat
      BY <1>0, <3>1 DEF OtherTypes
    <3>3. m_length' = CASE Line = "length" -> size
                        [] Line = "blank" /\ parsed > from /\ reply[parsed] = "length" -> 0
                        [] OTHER -> m_length
      BY <1>3 DEF ParseHeader
    <3> HIDE DEF size
    <3> QED BY <3>2, <3>3
  <2> QED BY <1>0, <1>1, <2>1, <2>2, <2>3 DEF States, OtherTypes
<1>4. CASE ParseContent
  <2>1. /\ Parsing("RECEIVING_CONTENT") /\ NextLine
        /\ UNCHANGED <<m_state, m_code, m_length, auth>>
    BY <1>4 DEF ParseContent
  <2>2. m_state' \in States \ {"NOT_CONNECTED"}
    BY <2>1 DEF Parsing, States
  <2> QED BY <1>0, <1>1, <2>1, <2>2 DEF States, OtherTypes
<1> QED BY <1>2, <1>3, <1>4

LEMMA ReconnectSane ==
  ASSUME Sane, Redirect \/ Authenticate PROVE Sane'
<1>0. QueueTypes(m_queue, outcome, tries) /\ OtherTypes
  BY SaneParts
<1>1. Parsing("RECEIVING_HEADER") /\ m_queue # <<>> /\ Head(m_queue) \in Requests
  BY LineTypes DEF Redirect, Authenticate, States
<1>2. 0 \in 0 .. Timeout + 1
  BY HTTPAssumption
<1>3. ASSUME NEW s \in States \ {"NOT_CONNECTED"}, NEW f \in States,
             Connect(m_queue, outcome, tries, s, f, 0), LeaveParse,
             UNCHANGED <<m_code, m_length, asked>>, auth' \in [Requests -> Nat]
      PROVE  Sane'
  <2>1. QueueTypes(m_queue', outcome', tries') /\ NetTypes' /\ Linked'
    BY <1>0, <1>1, <1>2, <1>3, ConnectSound
  <2>2. OtherTypes' /\ Receiving'
    BY <1>0, <1>3 DEF LeaveParse, OtherTypes, Receiving
  <2> QED BY <2>1, <2>2, SanePartsNext
<1>4. CASE Redirect
  BY <1>0, <1>3, <1>4 DEF Redirect, States, OtherTypes
<1>5. CASE Authenticate
  <2>1. auth' \in [Requests -> Nat]
    BY <1>0, <1>1, <1>5 DEF Authenticate, OtherTypes
  <2>2. CASE Fail
    BY <1>1, <2>1, <2>2, FailSane DEF States
  <2>3. CASE Connect(m_queue, outcome, tries, "WAITING_FOR_CONNECT", "NOT_CONNECTED", 0)
             /\ LeaveParse /\ UNCHANGED <<m_code, m_length, asked>>
    BY <1>3, <2>1, <2>3 DEF States
  <2>4. CASE Connect(m_queue, outcome, tries, "RECEIVING_CONTENT", "RECEIVING_CONTENT", 0)
             /\ LeaveParse /\ UNCHANGED <<m_code, m_length, asked>>
    BY <1>3, <2>1, <2>4 DEF States
  <2> QED BY <1>5, <2>2, <2>3, <2>4 DEF Authenticate
<1> QED BY <1>4, <1>5

LEMMA NextSane ==
  ASSUME Sane, [Next]_vars PROVE Sane'
<1>1. CASE UNCHANGED vars \/ Undefined
  BY <1>1 DEF Undefined, vars, conn, net, Sane, TypeOK, Coherent
<1>2. CASE \E r \in Requests : SendEvent(r)
  BY <1>2, SendEventSane
<1>3. CASE Poll \/ Tick
  BY <1>3, PollSane, TickSane
<1>4. CASE ConnectFailed \/ SendRequest \/ SendFailed \/ Inconsistent
  BY <1>4, WriteSane
<1>5. CASE (\E n \in 1 .. Len(reply) : RecvFirst(n) \/ RecvMore(n)) \/ RecvAgain
  BY <1>5, RecvSane
<1>6. CASE RecvClosed \/ ParseEnd
  BY <1>6, RecvEndSane
<1>7. CASE ParseStatus \/ ParseHeader \/ ParseContent
  BY <1>7, ParseSane
<1>8. CASE Redirect \/ Authenticate
  BY <1>8, ReconnectSane
<1> QED BY <1>1, <1>2, <1>3, <1>4, <1>5, <1>6, <1>7, <1>8 DEF Next, RecvStep

(* Every variable of the client keeps its type: what is left of m_recv is  *)
(* always a part of the reply on the present connection.                   *)
THEOREM TypeCorrect == Spec => []TypeOK
<1>1. Init => Sane
  BY InitSane
<1>2. Sane /\ [Next]_vars => Sane'
  BY NextSane
<1>3. Sane => TypeOK
  BY DEF Sane
<1> QED BY <1>1, <1>2, <1>3, PTL DEF Spec

(* The socket, the select() sets and the state machine of HTTPClient agree *)
(* whatever the servers answer and wherever a connection fails.            *)
THEOREM AlwaysCoherent == Spec => []Coherent
<1>1. Init => Sane
  BY InitSane
<1>2. Sane /\ [Next]_vars => Sane'
  BY NextSane
<1>3. Sane => Coherent
  BY DEF Sane
<1> QED BY <1>1, <1>2, <1>3, PTL DEF Spec

-----------------------------------------------------------------------------
(* QueueSound of a queue and the outcomes. *)
Waiting(q, out) ==
  /\ \A r \in Requests : out[r] = "waiting" <=> \E i \in DOMAIN q : q[i] = r
  /\ \A i, j \in DOMAIN q : q[i] = q[j] => i = j

LEMMA WaitingIsQueueSound == QueueSound <=> Waiting(m_queue, outcome)
  BY DEF QueueSound, Waiting, InQueue

(* A request that is new to the queue is put at its end. *)
LEMMA PutSound ==
  ASSUME NEW q \in Seq(Requests), NEW out \in [Requests -> Outcomes], Waiting(q, out),
         NEW r \in Requests, ~\E i \in DOMAIN q : q[i] = r
  PROVE  Waiting(Append(q, r), [out EXCEPT ![r] = "waiting"])
<1> DEFINE p == Append(q, r)
<1>1. /\ Len(q) \in Nat /\ DOMAIN q = 1 .. Len(q) /\ DOMAIN p = 1 .. Len(q) + 1
      /\ p[Len(q) + 1] = r /\ \A i \in 1 .. Len(q) : p[i] = q[i]
  OBVIOUS
<1>2. \A x \in Requests :
        (\E i \in DOMAIN p : p[i] = x) <=> (x = r \/ \E i \in DOMAIN q : q[i] = x)
  <2> SUFFICES ASSUME NEW x \in Requests
               PROVE (\E i \in DOMAIN p : p[i] = x) <=> (x = r \/ \E i \in DOMAIN q : q[i] = x)
    OBVIOUS
  <2>1. \A i \in DOMAIN p : i = Len(q) + 1 \/ i \in DOMAIN q
    BY <1>1
  <2>2. Len(q) + 1 \in DOMAIN p /\ \A i \in DOMAIN q : i \in DOMAIN p
    BY <1>1
  <2> HIDE DEF p
  <2> QED BY <1>1, <2>1, <2>2
<1>3. \A i, j \in DOMAIN p : p[i] = p[j] => i = j
  <2> HIDE DEF p
  <2>1. \A i \in DOMAIN p : i = Len(q) + 1 \/ i \in DOMAIN q
    BY <1>1
  <2> QED BY <1>1, <2>1 DEF Waiting
<1> QED BY <1>2, <1>3 DEF Waiting

(* The request at the front leaves the queue with its outcome. *)
LEMMA PopSound ==
  ASSUME NEW q \in Seq(Requests), q # <<>>, NEW out \in [Requests -> Outcomes],
         Waiting(q, out), NEW v \in Outcomes \ {"waiting"}
  PROVE  Waiting(Tail(q), [out EXCEPT ![Head(q)] = v])
<1> DEFINE p == Tail(q)
<1>1. /\ Head(q) = q[1] /\ Len(q) \in Nat /\ Len(q) > 0
      /\ DOMAIN q = 1 .. Len(q) /\ DOMAIN p = 1 .. Len(q) - 1
      /\ \A i \in 1 .. Len(q) - 1 : p[i] = q[i + 1]
      /\ Head(q) \in Requests
  BY PopFacts
<1> HIDE DEF p
<1>2. \A i \in DOMAIN p : i + 1 \in DOMAIN q /\ i + 1 # 1 /\ p[i] = q[i + 1]
  BY <1>1
<1>3. \A i \in DOMAIN q : i = 1 \/ (i - 1 \in DOMAIN p /\ p[i - 1] = q[i])
  BY <1>1
<1>4. 1 \in DOMAIN q
  BY <1>1
<1>5. \A x \in Requests :
        (\E i \in DOMAIN p : p[i] = x) <=> (x # Head(q) /\ \E i \in DOMAIN q : q[i] = x)
  BY <1>1, <1>2, <1>3, <1>4 DEF Waiting
<1>6. \A i, j \in DOMAIN p : p[i] = p[j] => i = j
  <2> SUFFICES ASSUME NEW i \in DOMAIN p, NEW j \in DOMAIN p, p[i] = p[j] PROVE i = j
    OBVIOUS
  <2>1. i + 1 = j + 1
    BY <1>2 DEF Waiting
  <2>2. i \in Nat /\ j \in Nat
    BY <1>1
  <2> QED BY <2>1, <2>2
<1>7. Waiting(p, [out EXCEPT ![Head(q)] = v])
  BY <1>1, <1>5, <1>6 DEF Waiting
<1> QED BY <1>7 DEF p

LEMMA ReportSound ==
  ASSUME TypeOK, QueueSound, m_queue # <<>>, Report("failed") \/ Report("delivered")
  PROVE  QueueSound'
<1>1. Waiting(m_queue, outcome)
  BY WaitingIsQueueSound
<1>2. m_queue \in Seq(Requests) /\ outcome \in [Requests -> Outcomes]
  BY DEF TypeOK
<1>3. ASSUME NEW v \in Outcomes \ {"waiting"}
      PROVE  Waiting(Tail(m_queue), [outcome EXCEPT ![Head(m_queue)] = v])
  BY <1>1, <1>2, PopSound
<1>4. PICK v \in Outcomes \ {"waiting"} : Report(v)
  BY DEF Outcomes
<1>5. Waiting(m_queue', outcome')
  BY <1>3, <1>4 DEF Report
<1> QED BY <1>5 DEF QueueSound, Waiting, InQueue

LEMMA ConnectQueue ==
  ASSUME NEW q \in Seq(Requests), q # <<>>, NEW out \in [Requests -> Outcomes],
         Waiting(q, out), NEW tr, NEW s, NEW f, NEW t, Connect(q, out, tr, s, f, t)
  PROVE  QueueSound'
<1>1. Waiting(m_queue', outcome')
  <2>1. CASE m_queue' = q /\ outcome' = out
    BY <2>1
  <2>2. CASE m_queue' = Tail(q) /\ outcome' = [out EXCEPT ![Head(q)] = "failed"]
    BY <2>2, PopSound DEF Outcomes
  <2> QED BY <2>1, <2>2 DEF Connect
<1> QED BY <1>1 DEF QueueSound, Waiting, InQueue

LEMMA SendEventQueue ==
  ASSUME Sane, QueueSound, NEW r \in Requests, SendEvent(r) PROVE QueueSound'
<1> DEFINE q == Append(m_queue, r)
           out == [outcome EXCEPT ![r] = "waiting"]
<1>1. /\ m_queue \in Seq(Requests) /\ outcome \in [Requests -> Outcomes]
      /\ ~\E i \in DOMAIN m_queue : m_queue[i] = r
  BY DEF Sane, TypeOK, SendEvent, InQueue
<1>2. Waiting(q, out)
  BY <1>1, PutSound, WaitingIsQueueSound
<1>3. q \in Seq(Requests) /\ q # <<>> /\ out \in [Requests -> Outcomes]
  BY <1>1 DEF Outcomes
<1>4. \/ m_queue' = q /\ outcome' = out
      \/ Connect(q, out, [tries EXCEPT ![r] = 0], "WAITING_FOR_CONNECT", "NOT_CONNECTED", idle)
  BY DEF SendEvent
<1> HIDE DEF q, out
<1>5. CASE m_queue' = q /\ outcome' = out
  BY <1>2, <1>5 DEF QueueSound, Waiting, InQueue
<1> QED BY <1>2, <1>3, <1>4, <1>5, ConnectQueue

LEMMA FailQueue ==
  ASSUME Sane, QueueSound, m_queue # <<>>, Fail PROVE QueueSound'
<1>1. TypeOK /\ Waiting(m_queue, outcome)
  BY WaitingIsQueueSound DEF Sane
<1>2. CASE Report("failed")
  BY <1>1, <1>2, ReportSound
<1>3. CASE /\ Len(m_queue) > 1 /\ m_queue' = Tail(Tail(m_queue))
           /\ outcome' = [outcome EXCEPT ![m_queue[1]] = "failed",
                                         ![m_queue[2]] = "delivered"]
  <2> DEFINE q == Tail(m_queue)
             out == [outcome EXCEPT ![Head(m_queue)] = "failed"]
  <2>1. m_queue \in Seq(Requests) /\ outcome \in [Requests -> Outcomes]
    BY <1>1 DEF TypeOK
  <2>2. Waiting(q, out) /\ out \in [Requests -> Outcomes]
    BY <1>1, <2>1, PopSound DEF Outcomes
  <2>3. q \in Seq(Requests) /\ Len(q) = Len(m_queue) - 1 /\ Len(m_queue) \in Nat
        /\ Head(m_queue) = m_queue[1] /\ q[1] = m_queue[2]
    BY <1>3, <2>1, PopFacts
  <2>4. q # <<>>
    <3>1. Len(q) > 0
      BY <1>3, <2>3
    <3> QED BY <2>3, <3>1, NotEmpty
  <2>5. Head(q) = m_queue[2]
    BY <2>3, <2>4, PopFacts
  <2>6. Waiting(Tail(q), [out EXCEPT ![Head(q)] = "delivered"])
    BY <2>2, <2>3, <2>4, PopSound DEF Outcomes
  <2>7. m_queue' = Tail(q) /\ outcome' = [out EXCEPT ![Head(q)] = "delivered"]
    BY <1>3, <2>3, <2>5
  <2> HIDE DEF q, out
  <2> QED BY <2>6, <2>7 DEF QueueSound, Waiting, InQueue
<1> QED BY <1>2, <1>3 DEF Fail

LEMMA NextQueue ==
  ASSUME Sane, QueueSound, [Next]_vars PROVE QueueSound'
<1>1. /\ Waiting(m_queue, outcome) /\ TypeOK /\ m_queue \in Seq(Requests)
      /\ outcome \in [Requests -> Outcomes] /\ (sock = "on" => m_queue # <<>>)
      /\ (pc \in {"recv", "parse"} => sock = "on")
  BY WaitingIsQueueSound DEF Sane, TypeOK, Coherent
<1>2. ASSUME UNCHANGED <<m_queue, outcome>> PROVE QueueSound'
  BY <1>2 DEF QueueSound, InQueue
<1>3. CASE \E r \in Requests : SendEvent(r)
  BY <1>3, SendEventQueue
<1>4. CASE Poll
  <2>1. CASE CheckTimeout
    BY <1>1, <1>4, <2>1, ReportSound DEF Poll, CheckTimeout
  <2>2. CASE Connect(m_queue, outcome, tries, "WAITING_FOR_CONNECT", "NOT_CONNECTED", idle)
    BY <1>1, <1>4, <2>2, ConnectQueue DEF Poll
  <2> QED BY <1>4, <2>1, <2>2 DEF Poll
<1>5. CASE UNCHANGED vars \/ Tick \/ Undefined
  BY <1>2, <1>5 DEF vars, Tick, Undefined
<1>6. CASE ConnectFailed \/ SendRequest \/ SendFailed \/ Inconsistent
  BY <1>2, <1>6 DEF ConnectFailed, SendRequest, SendFailed, Inconsistent
<1>7. CASE (\E n \in 1 .. Len(reply) : RecvFirst(n) \/ RecvMore(n)) \/ RecvAgain
  BY <1>2, <1>7 DEF RecvFirst, RecvMore, RecvAgain
<1>8. CASE RecvClosed \/ ParseEnd
  <2>1. CASE Delivered
    <3>1. m_queue # <<>>
      BY <1>1, <1>8 DEF RecvClosed, ParseEnd, Readable
    <3> QED BY <1>1, <2>1, <3>1, ReportSound DEF Delivered
  <2> QED BY <1>2, <1>8, <2>1 DEF RecvClosed, ParseEnd
<1>9. ASSUME NEW s, Parsing(s) PROVE m_queue # <<>>
  BY <1>1, <1>9 DEF Parsing
<1>10. CASE ParseStatus \/ ParseHeader \/ ParseContent
  <2>1. CASE Fail
    BY <1>9, <1>10, <2>1, FailQueue DEF ParseStatus, ParseHeader, ParseContent
  <2>2. CASE NextLine
    BY <1>2, <2>2 DEF NextLine
  <2> QED BY <1>10, <2>1, <2>2 DEF ParseStatus, ParseHeader, ParseContent
<1>11. CASE Redirect \/ Authenticate
  <2>1. m_queue # <<>>
    BY <1>9, <1>11 DEF Redirect, Authenticate
  <2>2. ASSUME NEW s, NEW f, Connect(m_queue, outcome, tries, s, f, 0) PROVE QueueSound'
    BY <1>1, <2>1, <2>2, ConnectQueue
  <2>3. CASE Fail
    BY <2>1, <2>3, FailQueue
  <2> QED BY <1>11, <2>2, <2>3 DEF Redirect, Authenticate
<1> QED BY <1>3, <1>4, <1>5, <1>6, <1>7, <1>8, <1>10, <1>11 DEF Next, RecvStep

(* Whatever the servers answer, a feed that was told to wait is in the     *)
(* queue of HTTPClient once and every other not at all: no path through    *)
(* Connect(), Parse() and check_timeout() pops a request without telling   *)
(* its feed, or tells it and keeps it.                                     *)
THEOREM QueueAlwaysSound == Spec => []QueueSound
<1>1. Init => Sane /\ QueueSound
  <2>1. Init => QueueSound
    BY DEF Init, QueueSound, InQueue
  <2> QED BY <2>1, InitSane
<1>2. Sane /\ QueueSound /\ [Next]_vars => (Sane /\ QueueSound)'
  BY NextSane, NextQueue
<1> QED BY <1>1, <1>2, PTL DEF Spec

-----------------------------------------------------------------------------
(* Before the status line is taken no length is known, so that a reply of  *)
(* an unknown code is one failure.                                         *)
StatusFirst ==
  m_state = "WAITING_FOR_HEADER" =>
    /\ parsed = 0 /\ pc # "recv"
    /\ pc = "parse" => got > 0 /\ m_length = 0

(* What is received is received for the front of the queue.                *)
FrontAsked ==
  (sock = "on" /\ watch = "read") \/ pc \in {"recv", "parse"} =>
    m_queue # <<>> /\ Head(m_queue) \in asked

Own == StatusFirst /\ FrontAsked

LEMMA Untold ==
  ASSUME outcome' = outcome, pc' # "undefined" \/ pc' = pc PROVE Tells
BY DEF Tells

(* After a request was reported, or given up by Connect(), the socket is   *)
(* closed; after one was begun it waits to be writable.                    *)
LEMMA ConnectOwn ==
  ASSUME NEW q \in Seq(Requests), q # <<>>, NEW out \in [Requests -> Outcomes], NEW tr,
         NEW s \in {"WAITING_FOR_CONNECT", "RECEIVING_CONTENT"},
         NEW f \in {"NOT_CONNECTED", "RECEIVING_CONTENT"}, NEW t,
         Connect(q, out, tr, s, f, t),
         \A r \in Requests : out[r] = "delivered" => outcome[r] = "delivered",
         pc' = "idle" \/ (pc' = "recv" /\ sock' = "on" /\ Head(q) \in asked')
  PROVE  Own' /\ Tells
<1>1. Head(q) \in Requests
  BY PopFacts
<1>2. \A r \in Requests : outcome'[r] = "delivered" => outcome[r] = "delivered"
  BY <1>1 DEF Connect
<1>3. m_state' # "WAITING_FOR_HEADER" /\ pc' \notin {"parse", "undefined"}
  BY DEF Connect, Hangup
<1>4. FrontAsked'
  BY DEF Connect, Hangup, FrontAsked
<1> QED  BY <1>2, <1>3, <1>4 DEF Own, Tells, StatusFirst

LEMMA ReportOwn ==
  ASSUME Sane, m_queue # <<>>, NEW v \in {"delivered", "failed"}, Report(v), Disconnect,
         v = "delivered" => Head(m_queue) \in asked, pc' = "idle"
  PROVE  Own' /\ Tells
<1>1. \A r \in Requests : outcome'[r] = "delivered" /\ outcome[r] # "delivered" => r \in asked
  BY DEF Report, Sane, TypeOK
<1>2. m_state' = "NOT_CONNECTED" /\ sock' = "off"
  BY DEF Disconnect, Hangup
<1> QED  BY <1>1, <1>2 DEF Own, Tells, StatusFirst, FrontAsked

(* A reply of an unknown code fails alone, and a second refusal of the     *)
(* password alone unless it is an overrun.                                 *)
LEMMA FailsAlone ==
  ASSUME Sane, Own, Fail, ParseStatus \/ Authenticate
  PROVE  pc = "parse" /\ m_queue # <<>> /\ (Announced => Overrun)
<1>1. m_length \in Nat /\ m_queue # <<>> /\ pc = "parse"
  BY DEF Sane, TypeOK, Own, FrontAsked, ParseStatus, Authenticate, Parsing
<1>2. CASE ParseStatus
  BY <1>1, <1>2 DEF ParseStatus, Parsing, Own, StatusFirst, Announced
<1>3. CASE Authenticate
  <2>1. Authenticate /\ Fail => auth[Head(m_queue)] > 0
    <3> SUFFICES ASSUME ~(auth[Head(m_queue)] > 0) PROVE FALSE
      BY <1>3
    <3>1. parsed' = parsed + 1 /\ parsed' = 0
      BY <1>3 DEF Authenticate, Fail, Connect
    <3>2. parsed \in Nat
      BY DEF Sane, TypeOK
    <3> QED  BY <3>1, <3>2
  <2> QED  BY <1>1, <1>3, <2>1 DEF Authenticate, Overrun
<1> QED  BY <1>1, <1>2, <1>3

LEMMA FailOwn ==
  ASSUME Sane, Own, Fail, ParseStatus \/ Authenticate
  PROVE  Own' /\ Tells
<1>1. pc = "parse" /\ m_queue # <<>> /\ (Announced => Overrun)
  BY FailsAlone
<1>2. /\ m_queue \in Seq(Requests) /\ Head(m_queue) = m_queue[1]
      /\ Len(m_queue) \in Nat /\ Len(m_queue) > 0
  BY <1>1, PopFacts DEF Sane, TypeOK
<1>3. outcome \in [Requests -> Outcomes]
  BY DEF Sane, TypeOK
<1>4. CASE ~Announced
  BY <1>1, <1>4, ReportOwn DEF Fail
<1>5. CASE Announced
  <2>1. Own'
    <3>1. m_state' = "NOT_CONNECTED" /\ sock' = "off" /\ pc' \in {"idle", "undefined"}
      BY DEF Fail, Disconnect, Hangup
    <3> QED  BY <3>1 DEF Own, StatusFirst, FrontAsked
  <2>2. CASE Len(m_queue) > 1
    <3>1. /\ pc' = "idle"
          /\ outcome' = [outcome EXCEPT ![m_queue[1]] = "failed", ![m_queue[2]] = "delivered"]
      BY <1>5, <2>2 DEF Fail
    <3>2. Tells
      BY <1>1, <1>3, <1>5, <3>1 DEF Tells
    <3> QED  BY <2>1, <3>2
  <2>3. CASE ~(Len(m_queue) > 1)
    <3>1. \A n \in Nat : n > 0 /\ ~(n > 1) => n = 1
      OBVIOUS
    <3>2. Len(m_queue) = 1
      BY <1>2, <2>3, <3>1
    <3>3. outcome' = [outcome EXCEPT ![Head(m_queue)] = "failed"]
      BY <1>5, <2>3 DEF Fail, Report
    <3>4. Tells
      BY <1>1, <1>3, <1>5, <3>2, <3>3 DEF Tells
    <3> QED  BY <2>1, <3>4
  <2> QED  BY <2>1, <2>2, <2>3
<1> QED  BY <1>4, <1>5

LEMMA SendEventOwn ==
  ASSUME Sane, Own, NEW r \in Requests, SendEvent(r) PROVE Own' /\ Tells
<1> DEFINE q == Append(m_queue, r)
           out == [outcome EXCEPT ![r] = "waiting"]
           tr == [tries EXCEPT ![r] = 0]
<1>1. /\ m_queue \in Seq(Requests) /\ outcome \in [Requests -> Outcomes]
      /\ q \in Seq(Requests) /\ q # <<>> /\ out \in [Requests -> Outcomes]
  <2>1. m_queue \in Seq(Requests) /\ outcome \in [Requests -> Outcomes]
    BY DEF Sane, TypeOK
  <2> QED  BY <2>1 DEF Outcomes
<1>2. asked' = asked \ {r} /\ pc = "idle" /\ pc' = "idle" /\ ~InQueue(r)
  BY DEF SendEvent
<1>3. \A x \in Requests : out[x] = "delivered" => outcome[x] = "delivered"
  BY <1>1
<1>4. CASE Connect(q, out, tr, "WAITING_FOR_CONNECT", "NOT_CONNECTED", idle)
  <2> HIDE DEF q, out, tr
  <2> QED  BY <1>1, <1>2, <1>3, <1>4, ConnectOwn
<1>5. CASE /\ m_queue' = q /\ outcome' = out
           /\ UNCHANGED <<m_state, sock, watch, net, m_length>>
  <2>1. m_queue # <<>> => Head(q) = Head(m_queue) /\ Head(m_queue) # r
    BY <1>1, <1>2 DEF InQueue
  <2>2. FrontAsked'
    BY <1>1, <1>2, <1>5, <2>1 DEF Own, FrontAsked
  <2> HIDE DEF q, out
  <2> QED  BY <1>2, <1>3, <1>5, <2>2 DEF Own, Tells, StatusFirst, net
<1> QED  BY <1>4, <1>5 DEF SendEvent

LEMMA ParseOwn ==
  ASSUME Sane, Own,
         ParseStatus \/ ParseHeader \/ ParseContent \/ Redirect \/ Authenticate
  PROVE  Own' /\ Tells
<1>1. m_queue \in Seq(Requests) /\ outcome \in [Requests -> Outcomes]
  BY DEF Sane, TypeOK
<1>2. pc = "parse" /\ m_queue # <<>> /\ Head(m_queue) \in asked
  BY DEF ParseStatus, ParseHeader, ParseContent, Redirect, Authenticate, Parsing, Own,
     FrontAsked
<1>3. ASSUME NextLine, m_state' # "WAITING_FOR_HEADER" PROVE Own' /\ Tells
  BY <1>2, <1>3, Untold DEF NextLine, Own, StatusFirst, FrontAsked
<1>4. CASE ParseStatus
  BY <1>3, <1>4, FailOwn DEF ParseStatus
<1>5. CASE ParseHeader \/ ParseContent
  BY <1>3, <1>5 DEF ParseHeader, ParseContent, Parsing
<1>6. ASSUME NEW s \in {"WAITING_FOR_CONNECT", "RECEIVING_CONTENT"},
             NEW f \in {"NOT_CONNECTED", "RECEIVING_CONTENT"},
             Connect(m_queue, outcome, tries, s, f, 0), LeaveParse, asked' = asked
      PROVE  Own' /\ Tells
  <2>1. pc' = "idle" \/ (pc' = "recv" /\ sock' = "on")
    BY <1>6 DEF LeaveParse
  <2> QED  BY <1>1, <1>2, <1>6, <2>1, ConnectOwn
<1>7. CASE Redirect
  BY <1>6, <1>7 DEF Redirect
<1>8. CASE Authenticate
  BY <1>6, <1>8, FailOwn DEF Authenticate
<1> QED  BY <1>4, <1>5, <1>7, <1>8

LEMMA NextOwn ==
  ASSUME Sane, Own, [Next]_vars PROVE Own' /\ Tells
<1>1. /\ m_queue \in Seq(Requests) /\ outcome \in [Requests -> Outcomes] /\ got \in Nat
      /\ got \in 0 .. Len(reply) /\ parsed \in 0 .. got /\ (sock = "connecting" => got = 0)
      /\ reply \in Seq(Lines) /\ Len(reply) \in Nat /\ (sock # "off" => m_queue # <<>>)
  BY DEF Sane, TypeOK, Coherent
<1>2. CASE Poll
  <2>1. CASE CheckTimeout
    BY <1>2, <2>1, ReportOwn DEF Poll, CheckTimeout
  <2>2. CASE Connect(m_queue, outcome, tries, "WAITING_FOR_CONNECT", "NOT_CONNECTED", idle)
    BY <1>1, <1>2, <2>2, ConnectOwn DEF Poll
  <2> QED  BY <1>2, <2>1, <2>2 DEF Poll
<1>3. CASE UNCHANGED vars \/ Tick \/ Undefined
  BY <1>3, Untold DEF vars, Tick, Undefined, conn, net, Own, StatusFirst, FrontAsked
<1>4. CASE ConnectFailed \/ SendFailed \/ Inconsistent
  BY <1>4, Untold DEF ConnectFailed, SendFailed, Inconsistent, Disconnect, Hangup, net, Own,
     StatusFirst, FrontAsked
<1>5. CASE SendRequest
  BY <1>1, <1>5, Untold DEF SendRequest, Own, StatusFirst, FrontAsked
<1>6. CASE \E n \in 1 .. Len(reply) : RecvFirst(n) \/ RecvMore(n)
  <2>1. PICK n \in 1 .. Len(reply) : RecvFirst(n) \/ RecvMore(n)
    BY <1>6
  <2>2. /\ n > 0 /\ got' = got + n /\ pc' = "parse" /\ UNCHANGED <<reply, parsed>>
        /\ UNCHANGED <<m_queue, m_state, sock, watch, outcome, asked>>
        /\ m_length' = 0 \/ (m_length' = m_length /\ pc = "recv")
        /\ (sock = "on" /\ watch = "read") \/ pc = "recv"
    BY <2>1 DEF RecvFirst, RecvMore, Chunk, Readable
  <2>3. StatusFirst'
    BY <1>1, <2>1, <2>2 DEF RecvFirst, RecvMore, Own, StatusFirst
  <2> QED  BY <2>2, <2>3, Untold DEF Own, FrontAsked
<1>7. CASE RecvAgain
  BY <1>7, Untold DEF RecvAgain, conn, net, Own, StatusFirst, FrontAsked
<1>8. CASE RecvClosed \/ ParseEnd
  <2>1. CASE Delivered
    <3>1. m_queue # <<>> /\ Head(m_queue) \in asked
      BY <1>8 DEF RecvClosed, ParseEnd, Readable, Own, FrontAsked
    <3> QED  BY <2>1, <3>1, ReportOwn DEF Delivered
  <2>2. CASE /\ pc = "parse" /\ parsed = got /\ pc' = "recv"
             /\ UNCHANGED <<m_queue, m_state, conn, idle, tries, auth, outcome, asked>>
    BY <1>1, <2>2, Untold DEF conn, net, Own, StatusFirst, FrontAsked
  <2> QED  BY <1>8, <2>1, <2>2 DEF RecvClosed, ParseEnd
<1> QED
  BY <1>2, <1>3, <1>4, <1>5, <1>6, <1>7, <1>8, SendEventOwn, ParseOwn DEF Next, RecvStep

(* A step that tells a feed "delivered" finds its request sent since it    *)
(* was queued, and messageack_cb() never uses the front of an empty queue: *)
(* neither a timeout nor a redirection, a closed connection or a failure   *)
(* in Parse() lets the answer to one request be taken for that to the      *)
(* next.  The one exception is the step at which a server refuses a        *)
(* password again, a length read before: there Recv() reports twice.       *)
THEOREM AnswersAreOwn == Spec => OwnAnswer
<1>1. Init => Sane /\ Own
  <2>1. Init => Own
    BY DEF Init, Own, StatusFirst, FrontAsked
  <2> QED  BY <2>1, InitSane
<1>2. Sane /\ Own /\ [Next]_vars => (Sane /\ Own)' /\ [Tells]_vars
  BY NextSane, NextOwn
<1> QED  BY <1>1, <1>2, PTL DEF Spec, OwnAnswer

-----------------------------------------------------------------------------
(* The steps of HTTPClient are steps of FeedQueue.                         *)
Still == UNCHANGED <<m_queue, outcome, asked, auth>>

LEMMA StillTurns == Still => [Turns!Next]_(Turns!vars)
BY DEF Still, Turns!vars

(* authTries of the front, counted or not, as FeedQueue has it. *)
LEMMA Barred ==
  ASSUME Sane, m_queue # <<>>, auth' = [auth EXCEPT ![Head(m_queue)] = @ + 1]
  PROVE  {r \in Requests : auth'[r] > 0} = {r \in Requests : auth[r] > 0} \cup {Head(m_queue)}
<1>1. Head(m_queue) \in Requests /\ auth \in [Requests -> Nat]
  BY PopFacts DEF Sane, TypeOK
<1> QED  BY <1>1

LEMMA ConnectTurns ==
  ASSUME m_queue # <<>>, asked' = asked, auth' = auth, NEW s, NEW f, NEW t,
         Connect(m_queue, outcome, tries, s, f, t)
  PROVE  [Turns!Next]_(Turns!vars)
<1>1. Still \/ Turns!GiveUp
  BY DEF Connect, Still, Turns!GiveUp, Turns!Ended
<1> QED  BY <1>1, StillTurns DEF Turns!Next

LEMMA SendEventTurns ==
  ASSUME Sane, QueueSound, NEW r \in Requests, SendEvent(r)
  PROVE  Turns!Ask(r)
<1> DEFINE q == Append(m_queue, r)
           out == [outcome EXCEPT ![r] = "waiting"]
<1>1. outcome[r] # "waiting" /\ asked' = asked \ {r}
  BY DEF QueueSound, SendEvent
<1>2. {x \in Requests : auth'[x] > 0} = {x \in Requests : auth[x] > 0} \ {r}
  BY DEF SendEvent, Sane, TypeOK
<1>3. \/ m_queue' = q /\ outcome' = out
      \/ Connect(q, out, [tries EXCEPT ![r] = 0], "WAITING_FOR_CONNECT", "NOT_CONNECTED", idle)
  BY DEF SendEvent
<1> HIDE DEF q, out
<1>4. \/ m_queue' = q /\ outcome' = out
      \/ m_queue' = Tail(q) /\ outcome' = [out EXCEPT ![Head(q)] = "failed"]
  BY <1>3 DEF Connect
<1> QED  BY <1>1, <1>2, <1>4 DEF Turns!Ask, Turns!Ended, q, out

(* The server wants a password: the client connects again, or reports the  *)
(* refusal alone or together with the next in the queue.                   *)
LEMMA AuthenticateTurns ==
  ASSUME Sane, Own, Authenticate PROVE [Turns!Next]_(Turns!vars)
<1>1. /\ m_queue # <<>> /\ Head(m_queue) \in asked /\ asked' = asked
      /\ auth' = [auth EXCEPT ![Head(m_queue)] = @ + 1]
      /\ m_queue \in Seq(Requests) /\ outcome \in [Requests -> Outcomes]
      /\ auth \in [Requests -> Nat] /\ Head(m_queue) \in Requests
  BY PopFacts DEF Authenticate, Fail, Parsing, Own, FrontAsked, Sane, TypeOK
<1>2. {r \in Requests : auth'[r] > 0} = {r \in Requests : auth[r] > 0} \cup {Head(m_queue)}
  BY <1>1, Barred
<1>3. CASE auth[Head(m_queue)] > 0
  <2>1. Fail /\ {r \in Requests : auth'[r] > 0} = {r \in Requests : auth[r] > 0}
    BY <1>1, <1>2, <1>3 DEF Authenticate
  <2>2. CASE Report("failed")
    BY <1>1, <2>1, <2>2 DEF Report, Turns!Next, Turns!GiveUp, Turns!Ended
  <2>3. CASE /\ Len(m_queue) > 1 /\ m_queue' = Tail(Tail(m_queue))
             /\ outcome' = [outcome EXCEPT ![m_queue[1]] = "failed",
                                           ![m_queue[2]] = "delivered"]
    <3>1. Head(m_queue) = m_queue[1] /\ Head(Tail(m_queue)) = m_queue[2]
      BY <1>1, <2>3
    <3>2. Turns!Overrun
      BY <1>1, <1>3, <2>1, <2>3, <3>1 DEF Turns!Overrun, Turns!Ended
    <3> QED  BY <3>2 DEF Turns!Next
  <2> QED  BY <2>1, <2>2, <2>3 DEF Fail
<1>4. CASE ~(auth[Head(m_queue)] > 0)
  <2>1. PICK s, f : Connect(m_queue, outcome, tries, s, f, 0)
    BY <1>4 DEF Authenticate
  <2>2. \/ UNCHANGED <<m_queue, outcome>>
        \/ m_queue' = Tail(m_queue) /\ outcome' = [outcome EXCEPT ![Head(m_queue)] = "failed"]
    BY <2>1 DEF Connect
  <2>3. Turns!Challenge
    BY <1>1, <1>2, <2>2 DEF Turns!Challenge, Turns!Ended
  <2> QED  BY <2>3 DEF Turns!Next
<1> QED  BY <1>3, <1>4

LEMMA NextTurns ==
  ASSUME Sane, QueueSound, Own, [Next]_vars
  PROVE  [Turns!Next]_(Turns!vars)
<1>1. CASE \E r \in Requests : SendEvent(r)
  BY <1>1, SendEventTurns DEF Turns!Next
<1>2. CASE Poll
  <2>1. CASE CheckTimeout
    BY <1>2, <2>1 DEF Poll, CheckTimeout, Report, Turns!Next, Turns!GiveUp, Turns!Ended
  <2> QED  BY <1>2, <2>1, ConnectTurns DEF Poll
<1>3. CASE UNCHANGED vars \/ Tick \/ Undefined
  BY <1>3, StillTurns DEF vars, Tick, Undefined, Still
<1>4. CASE ConnectFailed \/ SendFailed \/ Inconsistent
  BY <1>4, StillTurns DEF ConnectFailed, SendFailed, Inconsistent, Still
<1>5. CASE SendRequest
  <2>1. m_queue # <<>>
    BY <1>5 DEF SendRequest, Sane, Coherent
  <2> QED  BY <1>5, <2>1 DEF SendRequest, Turns!Next, Turns!Send
<1>6. CASE (\E n \in 1 .. Len(reply) : RecvFirst(n) \/ RecvMore(n)) \/ RecvAgain
  BY <1>6, StillTurns DEF RecvFirst, RecvMore, RecvAgain, Still
<1>7. CASE RecvClosed \/ ParseEnd
  <2>1. CASE Delivered
    <3>1. m_queue # <<>> /\ Head(m_queue) \in asked
      BY <1>7 DEF RecvClosed, ParseEnd, Readable, Own, FrontAsked
    <3> QED  BY <2>1, <3>1 DEF Delivered, Report, Turns!Next, Turns!Deliver, Turns!Ended
  <2> QED  BY <1>7, <2>1, StillTurns DEF RecvClosed, ParseEnd, Still
<1>8. CASE ParseStatus /\ Fail
  <2>1. ~Announced
    BY <1>8, FailsAlone DEF ParseStatus, Parsing, Overrun
  <2>2. m_queue # <<>>
    BY <1>8, FailsAlone
  <2> QED
    BY <1>8, <2>1, <2>2 DEF ParseStatus, Fail, Report, Turns!Next, Turns!GiveUp, Turns!Ended
<1>9. CASE ParseStatus \/ ParseHeader \/ ParseContent
  BY <1>8, <1>9, StillTurns DEF ParseStatus, ParseHeader, ParseContent, NextLine, Still
<1>10. CASE Redirect
  <2>1. m_queue # <<>>
    BY <1>10 DEF Redirect, Parsing, Own, FrontAsked
  <2> QED  BY <1>10, <2>1, ConnectTurns DEF Redirect
<1>11. CASE Authenticate
  BY <1>11, AuthenticateTurns
<1> QED
  BY <1>1, <1>2, <1>3, <1>4, <1>5, <1>6, <1>7, <1>9, <1>10, <1>11 DEF Next, RecvStep

(* HTTPClient implements FeedQueue: whatever the servers answer, each step *)
(* of Connect(), Recv(), Parse() and check_timeout() leaves the queue and  *)
(* what the feeds were told alone or is a step of that queue, so that      *)
(* feeds are served in the order in which they asked.  They end one at a   *)
(* time, but that one of which a password was wanted, and refused again,   *)
(* may take the next in the queue with it.                                 *)
THEOREM FeedsAreServedInTurn == Spec => ServedInTurn
<1>1. Init => Sane /\ QueueSound /\ Own /\ Turns!Init
  <2>1. Init => QueueSound /\ Own
    BY DEF Init, QueueSound, InQueue, Own, StatusFirst, FrontAsked
  <2>2. Init => Turns!Init
    BY DEF Init, Turns!Init
  <2> QED  BY <2>1, <2>2, InitSane
<1>2. Sane /\ QueueSound /\ Own /\ [Next]_vars
      => (Sane /\ QueueSound /\ Own)' /\ [Turns!Next]_(Turns!vars)
  BY NextSane, NextQueue, NextOwn, NextTurns
<1> QED  BY <1>1, <1>2, PTL DEF Spec, ServedInTurn, Turns!Spec
=============================================================================
