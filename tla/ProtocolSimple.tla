---------------------------- MODULE ProtocolSimple ----------------------------
(***************************************************************************)
(* ProtocolSimple (src/tcp_socket/protocol_simple.cpp) on top of the       *)
(* DataSocket of Socket.  SendMessage writes the url and the message with  *)
(* PutMessageData's write loop (socket.cpp, lines 177-236) and shuts the   *)
(* socket down for writing; RecvMessage reads into a std::string that it   *)
(* grows through the StringSizer helper until a read returns 0 bytes.      *)
(*                                                                         *)
(* Both are pure functions of what the wire carries, so they are operators *)
(* returning the SET of outcomes: write() and read() may move any number   *)
(* of bytes from 1 up to what was asked for.  std::string is a record of   *)
(* its characters and its capacity, with libstdc++'s growth rule.  The     *)
(* string's starting capacity and the constant 4096 are scaled down.       *)
(* GetMessageData is in socket.tpp, which is not in the repository; it is  *)
(* modelled as one read() of at most `size` bytes that returns 0 at the    *)
(* end of the stream or when asked for 0 bytes.                            *)
(***************************************************************************)
EXTENDS Socket, Sequences, SequencesExt

CONSTANTS
  MaxPayload,  \* longest url and message sent
  Capacities,  \* capacity() of the string handed to RecvMessage
  DefaultCap,  \* the 4096 of StringSizer's constructor, scaled
  NUL          \* the character resize() fills with

(* Neither side looks at the bytes it moves (the scan_for_end callback  *)
(* returns false), so payloads of distinct bytes stand for all payloads:  *)
(* the url's bytes are 1 .. n and the message's follow them, and a byte   *)
(* lost, repeated or stored at the wrong place shows in the result.       *)
Payload(n, first) == [i \in 1 .. n |-> first + i]

(* std::string's capacity after a request for n characters: libstdc++     *)
(* allocates max(n, 2 * capacity) when n exceeds the capacity.            *)
Grow(cap, n) == IF n > cap THEN Max({n, 2 * cap}) ELSE cap

Resize(str, n) ==
  [cap  |-> Grow(str.cap, n),
   data |-> IF n <= Len(str.data) THEN SubSeq(str.data, 1, n)
            ELSE str.data \o [i \in 1 .. n - Len(str.data) |-> NUL]]

Reserve(str, n) == [str EXCEPT !.cap = Grow(@, n)]

-----------------------------------------------------------------------------
(* PutMessageData, socket.cpp lines 177-236: the outcomes of writing buf   *)
(* from offset `written`.  A write() moves 1 .. the rest; EINTR and EAGAIN *)
(* retry the same write; any other error throws with a prefix on the wire. *)
RECURSIVE PutLoop(_, _)
PutLoop(buf, written) ==
  IF written = Len(buf)
    THEN {[wire |-> buf, ok |-> TRUE]}
    ELSE {[wire |-> SubSeq(buf, 1, written), ok |-> FALSE]}
         \cup UNION {PutLoop(buf, written + k) : k \in 1 .. Len(buf) - written}

PutMessageData(buf) == PutLoop(buf, 0)

(* SendMessage, protocol_simple.cpp lines 10-15: PutMessageData of the    *)
(* url, then of the message, then PutMessageClose.  An exception skips the *)
(* rest; the peer then reads to the end of what was written once the      *)
(* DataSocket is destroyed.                                                *)
SendMessage(url, message) ==
  FoldLeft(LAMBDA outs, buf :
             UNION {IF o.ok
                      THEN {[wire |-> o.wire \o p.wire, ok |-> p.ok] : p \in PutMessageData(buf)}
                      ELSE {o}
                    : o \in outs},
           {[wire |-> <<>>, ok |-> TRUE]}, <<url, message>>)

-----------------------------------------------------------------------------
(* StringSizer's constructor, lines 25-31: open the string to its whole   *)
(* capacity, first giving an empty one 4096 characters.                   *)
SizerOpen(str) ==
  LET s == IF str.cap = 0 THEN Resize(str, DefaultCap) ELSE str
  IN Resize(s, s.cap)

(* GetMessageData(buffer, size): the byte counts one call may return with *)
(* `in` still to be read.                                                  *)
GetMessageData(size, in) ==
  IF size = 0 \/ in = <<>> THEN {0} ELSE 1 .. Min({size, Len(in)})

(* The bytes got stored at buffer + at. *)
Store(data, at, got) ==
  [i \in 1 .. Len(data) |-> IF at < i /\ i <= at + Len(got) THEN got[i - at] ELSE data[i]]

(* Line 63, the growth between two reads. *)
RegrowSame(str) == Reserve(str, str.cap)

Regrow(str) == Reserve(str, str.cap * 2)

(* One pass of RecvMessage's loop, lines 45-64, and the rest of the loop: *)
(* the messages RecvMessage may return.  The StringSizer's destructor      *)
(* resizes to data_read at the end of every pass, after the reserve.      *)
RECURSIVE RecvLoop(_, _, _)
RecvLoop(str, dataRead, in) ==
  LET s       == SizerOpen(str)
      dataMax == s.cap - 1
  IN UNION {LET t  == [s EXCEPT !.data = Store(@, dataRead, SubSeq(in, 1, got))]
                dr == dataRead + got
            IN IF got = 0
                 THEN {Resize(t, dr).data}
                 ELSE RecvLoop(Resize(Regrow(t), dr), dr, SubSeq(in, got + 1, Len(in)))
            : got \in GetMessageData(dataMax - dataRead, in)}

(* RecvMessage, lines 42-65, into a string of capacity cap after clear(). *)
RecvMessage(cap, in) == RecvLoop([cap |-> cap, data |-> <<>>], 0, in)

-----------------------------------------------------------------------------
(* What one SendMessage puts on the wire, for every url and message, every *)
(* starting capacity of the receiving string and every split of the bytes *)
(* into write() and read() calls: the sender's outcomes and the messages   *)
(* RecvMessage at the peer may return.                                    *)
Exchanges ==
  UNION {LET url == Payload(n, 0)
             message == Payload(m, MaxPayload)
         IN {[sent |-> url \o message, out |-> o, got |-> RecvMessage(cap, o.wire)]
             : o \in SendMessage(url, message)}
         : n, m \in 0 .. MaxPayload, cap \in Capacities}

(* A message exchanged over a live DataSocket (ProtocolSimple holds one by *)
(* reference) arrives whole: RecvMessage returns exactly the url and the  *)
(* message when SendMessage returned, and exactly the prefix it wrote when *)
(* it threw.  A pass whose read finds the string full (data_max -          *)
(* data_read = 0) would end the message early.                             *)
RecvReturnsWholeMessage ==
  \A o \in Objects : life[o] = "live" /\ id[o] # INVALID =>
    \A e \in Exchanges :
      /\ e.out.ok => e.out.wire = e.sent
      /\ e.got = {e.out.wire}

=============================================================================
