------------------------------- MODULE PoolWire -------------------------------
(***************************************************************************)
(* One connection to a pool at the level of the socket: cp_tcp_connect over *)
(* the addresses of the host with one budget for all of them                *)
(* (src/common/cp_tcp.cpp), and the reader thread that cuts the bytes of    *)
(* the pool into JSON objects (src/common/cp_pool.cpp,                      *)
(* src/common/cp_json_frame.cpp).                                           *)
(*                                                                         *)
(* Time is counted in ticks, several to the millisecond, because the code   *)
(* rounds what is left of its budget down to milliseconds.  Bytes are the   *)
(* characters the scanner tells apart: the four brackets, the quote "q",    *)
(* the backslash "b", and "x" for any other.  How a pool splits its bytes   *)
(* over packets is arbitrary.                                               *)
(***************************************************************************)
EXTENDS Integers, Sequences, SequencesExt, FiniteSets

CONSTANTS
  Budget,        \* CP_CONNECT_TIMEOUT_MS
  Tick,          \* ticks of a millisecond
  MaxAddresses,  \* bound: addresses of the host
  BufferSize,    \* sizeof(net_buf)
  MaxDepth,      \* sizeof(stack): open brackets the scanner remembers
  MaxMessages,   \* bound: messages of a connection
  MaxChunk,      \* bound: bytes of one recv
  MaxDials       \* bound: connections

ASSUME ConnectAssumption == Budget \in Nat \ {0} /\ Tick \in Nat \ {0}
ASSUME FrameAssumption == BufferSize \in Nat \ {0, 1} /\ MaxDepth \in Nat \ {0}
ASSUME WireBoundsAssumption ==
  {MaxAddresses, MaxMessages, MaxChunk, MaxDials} \subseteq Nat

VARIABLES
  \* cp_tcp_connect: where it is, how the addresses answer, the address it is
  \* at, the clock, both deadlines, and when the pending connect is answered
  phase, addresses, address, clock, deadline, attemptEnd, answerAt,
  \* the connection: the messages the pool sends, the bytes of them not
  \* received yet, net_buf[0 .. net_pos - 1], the frames dispatched, how the
  \* reader left it, connections so far
  script, unread, netBuf, dispatched, left, dials

connectVars == <<addresses, address, clock, deadline, attemptEnd, answerAt>>
readVars == <<script, unread, netBuf, dispatched, left>>
wireVars == <<phase, connectVars, readVars, dials>>

Lower(a, b) == IF a < b THEN a ELSE b
Higher(a, b) == IF a > b THEN a ELSE b

-----------------------------------------------------------------------------
(***************************************************************************)
(* External: the addresses.  "at_once" is answered by connect() itself,     *)
(* "later" after some ticks, well when it is up.  "no_socket" is given up   *)
(* at once: socket(), set_nonblocking or connect() fails, or a socket that  *)
(* connect() did connect cannot be made blocking again (cp_tcp.cpp:92).     *)
(* That failure of a socket that answers later is one that is not up.       *)
(***************************************************************************)
Answers == 1..(Budget * Tick + 1)
Addresses == [kind: {"at_once", "no_socket"}, up: {TRUE}, after: {0}]
               \cup [kind: {"later"}, up: BOOLEAN, after: Answers]

WireInit ==
  /\ phase = "idle" /\ addresses = <<>> /\ address = 1 /\ clock = 0
  /\ deadline = 0 /\ attemptEnd = 0 /\ answerAt = 0
  /\ script = <<>> /\ unread = <<>> /\ netBuf = <<>> /\ dispatched = <<>>
  /\ left = "no" /\ dials = 0

\* cp_tcp_connect with the list getaddrinfo made, which may be empty.
Dial ==
  /\ phase = "idle" /\ dials < MaxDials /\ dials' = dials + 1
  /\ \E n \in 0..MaxAddresses : addresses' \in [1..n -> Addresses]
  /\ address' = 1 /\ clock' = 0 /\ deadline' = Budget * Tick
  /\ phase' = "next" /\ UNCHANGED <<attemptEnd, answerAt, readVars>>

Remaining == Len(addresses) - address + 1
Milliseconds(until) == (until - clock) \div Tick

\* Mutant: the budget is divided among all addresses, tried or not.
ShareOfAll ==
  Lower(deadline, clock + Tick * (Milliseconds(deadline) \div Len(addresses)))

\* The address's share of what is left, at least a millisecond.
ShareOfBudget ==
  Lower(deadline, clock + Tick * Higher(1, Milliseconds(deadline) \div Remaining))

(***************************************************************************)
(* One turn of the loop over the addresses up to connect().                 *)
(***************************************************************************)
TryAddress ==
  /\ phase = "next"
  /\ \/ Remaining = 0 /\ phase' = "failed" /\ UNCHANGED <<address, attemptEnd, answerAt>>
     \/ /\ Remaining > 0 /\ Milliseconds(deadline) <= 0
        /\ phase' = "failed" /\ UNCHANGED <<address, attemptEnd, answerAt>>
     \/ /\ Remaining > 0 /\ Milliseconds(deadline) > 0
        /\ attemptEnd' = ShareOfBudget
        /\ CASE addresses[address].kind = "no_socket" ->
                  phase' = "next" /\ address' = address + 1 /\ UNCHANGED answerAt
             [] addresses[address].kind = "at_once" ->
                  phase' = "open" /\ UNCHANGED <<address, answerAt>>
             [] OTHER -> /\ phase' = "pending" /\ UNCHANGED address
                         /\ answerAt' = clock + addresses[address].after
  /\ UNCHANGED <<addresses, clock, deadline, readVars, dials>>

GiveUpAddress == phase' = "next" /\ address' = address + 1

(***************************************************************************)
(* finish_connect: poll for whole milliseconds; it is answered, times out,  *)
(* or is interrupted (EINTR) and polls again for what is left.              *)
(***************************************************************************)
PollPending ==
  LET end == clock + Tick * Milliseconds(attemptEnd) IN
  /\ phase = "pending"
  /\ \/ end <= clock /\ GiveUpAddress /\ UNCHANGED clock
     \/ /\ clock < end /\ answerAt <= end /\ clock' = Higher(clock, answerAt)
        /\ IF addresses[address].up THEN phase' = "open" /\ UNCHANGED address
           ELSE GiveUpAddress
     \/ clock < end /\ answerAt > end /\ clock' = end /\ GiveUpAddress
     \/ /\ clock' \in (clock + 1)..(end - 1) /\ clock' < answerAt
        /\ UNCHANGED <<phase, address>>
  /\ UNCHANGED <<addresses, deadline, attemptEnd, answerAt, readVars, dials>>

\* The locals of cp_tcp_connect are gone when it returns.
ConnectReturns ==
  /\ addresses' = <<>> /\ address' = 1 /\ clock' = 0
  /\ deadline' = 0 /\ attemptEnd' = 0 /\ answerAt' = 0

Connected ==
  /\ phase = "open" /\ phase' = "connected" /\ ConnectReturns
  /\ UNCHANGED <<readVars, dials>>

-----------------------------------------------------------------------------
(***************************************************************************)
(* External: what pools send.  An object with something in it, or objects   *)
(* in objects; a string may hold brackets and an escaped quote.  Such texts *)
(* are frames by the way they are made, nested as deep as their index.      *)
(***************************************************************************)
Braced(text) == <<"{">> \o text \o <<"}">>
Listed(text) == <<"[">> \o text \o <<"]">>
Flat == {<<>>, <<"q", "}", "q">>, <<"q", "b", "q", "{", "q">>}
Object[depth \in 1..(MaxDepth + 1)] ==
  IF depth = 1 THEN {Braced(t) : t \in Flat}
  ELSE {Braced(t) : t \in Object[depth - 1]}
         \cup {Braced(Listed(t)) : t \in IF depth = 2 THEN Flat ELSE Object[depth - 2]}

Sound == [text: UNION {Object[d] : d \in 1..MaxDepth}, sound: {TRUE}]
TooDeep == [text: Object[MaxDepth + 1], sound: {FALSE}]
Crossed == [text: {<<"{", "[", "}", "]">>}, sound: {FALSE}]

\* A message, after none or some bytes outside of it (a newline, a log line).
Messages == [pad: {<<>>, <<"x">>}, of: Sound \cup TooDeep \cup Crossed]
BytesOf(message) == message.pad \o message.of.text

\* The pool's side of a new connection, whose reader starts.
Accept ==
  /\ phase = "connected" /\ phase' = "reading"
  /\ \E n \in 1..MaxMessages : script' \in [1..n -> Messages]
  /\ unread' = FlattenSeq([i \in DOMAIN script' |-> BytesOf(script'[i])])
  /\ UNCHANGED <<connectVars, netBuf, dispatched, left, dials>>

-----------------------------------------------------------------------------
(***************************************************************************)
(* cp_json_object_length: one character, with the brackets open before it,  *)
(* whether it is quoted or escaped, and the result: 0 (not ended), the      *)
(* length, or -1.                                                           *)
(***************************************************************************)
Opens(c) == c \in {"{", "["}
Closes(c) == c \in {"}", "]"}
OpenerOf(c) == IF c = "}" THEN "{" ELSE "["

\* Mutant: a quote ends the string although it is escaped.
InStringUnescaped(scan, c) == [scan EXCEPT !.quoted = c # "q"]

\* A character of a string: one after a backslash does not end it.
InString(scan, c) ==
  [scan EXCEPT !.escaped = ~scan.escaped /\ c = "b", !.quoted = scan.escaped \/ c # "q"]

\* An opening bracket, unless as many are open as can be remembered.
Opened(scan, c) ==
  IF Len(scan.stack) = MaxDepth THEN [scan EXCEPT !.result = -1]
  ELSE [scan EXCEPT !.stack = Append(@, c)]

\* A closing bracket: the last one open, or the frame is refused.
Closed(scan, c) ==
  IF scan.stack = <<>> \/ Last(scan.stack) # OpenerOf(c) THEN [scan EXCEPT !.result = -1]
  ELSE [scan EXCEPT !.stack = Front(@),
                    !.result = IF Len(scan.stack) = 1 THEN scan.at + 1 ELSE 0]

OutsideString(scan, c) ==
  IF c = "q" THEN [scan EXCEPT !.quoted = TRUE]
  ELSE IF Opens(c) THEN Opened(scan, c)
  ELSE IF Closes(c) THEN Closed(scan, c) ELSE scan

ScanChar(scan, c) ==
  IF scan.result # 0 THEN scan
  ELSE LET next == IF scan.quoted THEN InString(scan, c) ELSE OutsideString(scan, c)
       IN  [next EXCEPT !.at = @ + 1]

ObjectLength(bytes) ==
  FoldLeft(ScanChar, [at |-> 0, stack |-> <<>>, quoted |-> FALSE, escaped |-> FALSE,
                      result |-> 0], bytes).result

\* memchr(net_buf, '{', net_pos): bytes before the first brace (all: none).
BeforeFrame == IF \E i \in DOMAIN netBuf : netBuf[i] = "{"
               THEN (CHOOSE i \in DOMAIN netBuf :
                       netBuf[i] = "{" /\ \A j \in 1..(i - 1) : netBuf[j] # "{") - 1
               ELSE Len(netBuf)

\* net_buf_message_state: the length of a whole frame, 0, or -1.
FrameLength == IF BeforeFrame = Len(netBuf) THEN 0
               ELSE ObjectLength(SubSeq(netBuf, BeforeFrame + 1, Len(netBuf)))

\* pop_json_message and the dispatch: the frame and what is before it leave.
PopFrame ==
  /\ phase = "reading" /\ left = "no" /\ FrameLength > 0
  /\ dispatched' = Append(dispatched,
       SubSeq(netBuf, BeforeFrame + 1, BeforeFrame + FrameLength))
  /\ netBuf' = SubSeq(netBuf, BeforeFrame + FrameLength + 1, Len(netBuf))
  /\ UNCHANGED <<phase, connectVars, script, unread, left, dials>>

\* An object that is not one, or the buffer is full without one.
RefuseFrame ==
  /\ phase = "reading" /\ left = "no"
  /\ FrameLength < 0 \/ (FrameLength = 0 /\ Len(netBuf) >= BufferSize - 1)
  /\ left' = "refused"
  /\ UNCHANGED <<phase, connectVars, script, unread, netBuf, dispatched, dials>>

ReceiveUpTo(room) ==
  /\ phase = "reading" /\ left = "no"
  /\ FrameLength = 0 /\ Len(netBuf) < BufferSize - 1
  /\ \E n \in 1..Lower(MaxChunk, Lower(Len(unread), room)) :
       /\ netBuf' = netBuf \o SubSeq(unread, 1, n)
       /\ unread' = SubSeq(unread, n + 1, Len(unread))
  /\ UNCHANGED <<phase, connectVars, script, dispatched, left, dials>>

\* Mutant: the whole rest of the buffer is read into.
ReceiveOneMore == ReceiveUpTo(BufferSize - Len(netBuf))

\* recv into the rest of the buffer, less one byte.
Receive == ReceiveUpTo(BufferSize - 1 - Len(netBuf))

\* The pool closes, a deadline passes, or the reader is told to end: it leaves
\* what it has not dispatched.
Drop ==
  /\ phase = "reading" /\ left = "no" /\ left' = "closed"
  /\ UNCHANGED <<phase, connectVars, script, unread, netBuf, dispatched, dials>>

\* cp_pool_disconnect, with the reader joined; a failed connect has no socket.
Disconnect ==
  /\ (phase = "reading" /\ left # "no") \/ phase = "failed"
  /\ phase' = "idle" /\ ConnectReturns
  /\ script' = <<>> /\ unread' = <<>> /\ netBuf' = <<>> /\ dispatched' = <<>>
  /\ left' = "no" /\ UNCHANGED dials

WireNext == \/ Dial \/ TryAddress \/ PollPending \/ Connected \/ Accept
            \/ PopFrame \/ RefuseFrame \/ Receive \/ Drop \/ Disconnect

-----------------------------------------------------------------------------
(***************************************************************************)
(* Properties                                                               *)
(***************************************************************************)

\* Every variable has its type; the buffer keeps its last byte free.
WireTypeOK ==
  /\ phase \in {"idle", "next", "pending", "open", "failed", "connected",
               "reading"}
  /\ Len(addresses) <= MaxAddresses /\ Range(addresses) \subseteq Addresses
  /\ address \in 1..(Len(addresses) + 1)
  /\ clock \in Nat /\ deadline \in Nat /\ attemptEnd \in Nat /\ answerAt \in Nat
  /\ Range(script) \subseteq Messages /\ Len(netBuf) <= BufferSize - 1
  /\ left \in {"no", "refused", "closed"} /\ dials \in 0..MaxDials

(***************************************************************************)
(* The budget is kept and shared (cp_tcp.cpp:63-66, "Reserve part of the    *)
(* budget for later addresses even if the first one is silent"): connecting *)
(* takes no longer than the budget, and fails only if no address answers    *)
(* within its equal share of it.  An interrupted poll may cost the          *)
(* millisecond that is rounded away.                                        *)
(***************************************************************************)
BudgetShared ==
  /\ phase \in {"next", "pending", "open", "failed"} => clock <= deadline
  /\ phase = "failed" => \A i \in DOMAIN addresses :
       /\ addresses[i].kind # "at_once" \/ Budget < Len(addresses)
       /\ addresses[i].kind = "later" /\ addresses[i].up =>
            addresses[i].after > Tick * (Budget \div Len(addresses) - 1)

(***************************************************************************)
(* However its bytes are split over reads, the frames dispatched are the    *)
(* messages of this connection in their order, and a connection is refused  *)
(* only at a message that is not an object, nests too deep or does not fit  *)
(* the buffer.                                                              *)
(***************************************************************************)
Fits(message) == message.of.sound /\ Len(BytesOf(message)) <= BufferSize - 1
FramesAsSent ==
  phase = "reading" =>
    /\ IsPrefix(dispatched, [i \in DOMAIN script |-> script[i].of.text])
    /\ \A i \in DOMAIN dispatched : Fits(script[i])
    /\ left = "refused" =>
         Len(dispatched) < Len(script) /\ ~Fits(script[Len(dispatched) + 1])
=============================================================================
