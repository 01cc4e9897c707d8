----------------------------- MODULE SecureConn -----------------------------
(***************************************************************************)
(* One connection (conn.go) and the frames of its session (session.go):    *)
(* the switch to encryption at the Read that follows Upgrade, the frame    *)
(* counters that several writers take, and what Read hands to net/http.    *)
(*                                                                         *)
(* Two goroutines of net/http read, never at once: the serve loop, and the *)
(* background read that runs while a handler does and that is aborted by a *)
(* read deadline once the response is flushed.  It reads a single byte.    *)
(* The serve loop and the notifications of other goroutines write.         *)
(*                                                                         *)
(* What the controller sends is a sequence of frames of two units each, so *)
(* that TCP can deliver a frame in parts; a unit on the wire and the bytes *)
(* it carries have the same number.  A plain request is one frame.  "Full" *)
(* frames have 0x400 bytes.                                                *)
(***************************************************************************)
EXTENDS Naturals, Sequences, FiniteSets

CONSTANTS
    Notifier,        \* goroutines that send events
    MaxSession,      \* bound on the times the connection is upgraded
    MaxRequest,      \* bound on the requests
    MaxEvent,        \* bound on the events
    MaxIn,           \* bound on the frames of a request
    MaxOut,          \* bound on the frames of a response or an event
    MaxOutstanding   \* requests the controller sends before an answer

ASSUME BoundsAssumption ==
    {MaxSession, MaxRequest, MaxEvent, MaxIn, MaxOut, MaxOutstanding} \subseteq Nat

\* The names of the other goroutines, and of the wire where Frames names it.
ASSUME NotifierAssumption == Notifier \cap {"serve", "background", "wire"} = {}

VARIABLES
    pending,    \* c.s: a session, or 0 for nil
    ss,         \* c.ss
    readBuf,    \* c.readBuf: <<>> for nil, else <<the units it still holds>>
    inCount,    \* decryptCount of each session
    outCount,   \* encryptCount of each session
    rd,         \* where conn.Read of each reader is
    dec,        \* the Decrypt that is running
    wr,         \* where conn.Write of each writer is
    pc,         \* where the serve loop is
    handled,    \* how much of delivered the serve loop has made requests of
    delivered,  \* what Read has returned so far
    sent,       \* frames the controller has sent
    arrived,    \* units that have arrived
    taken,      \* units that were read from the socket
    wire,       \* frames written to the socket
    peer,       \* the controller
    events,     \* events so far
    open        \* nobody has closed the connection

vars == <<pending, ss, readBuf, inCount, outCount, rd, dec, wr, pc, handled,
          delivered, sent, arrived, taken, wire, peer, events, open>>

reading == <<readBuf, inCount, rd, dec, delivered, taken>>
writing == <<outCount, wr, wire>>
remote  == <<sent, arrived, peer>>

-----------------------------------------------------------------------------

Session == 1..MaxSession

Reader == {"serve", "background"}

Writer == Notifier \cup {"serve"}

\* end: the last frame of its message; verify: a pair-verify M3.
Inbound == [ses : 0..MaxSession, num : Nat, full : BOOLEAN, end : BOOLEAN,
            verify : BOOLEAN]

\* to: the session that starts with this response, or 0.
Outbound == [ses : 0..MaxSession, num : Nat, end : BOOLEAN, to : 0..MaxSession,
             event : BOOLEAN]

FrameOf(u) == (u + 1) \div 2

IsFirst(u) == u % 2 = 1

Units(from, to) == [i \in 1..(to - from) |-> from + i]

NoDecrypt == [ses |-> 0, ahead |-> <<>>, out |-> <<>>]

IdleWriter == [at |-> "idle", ses |-> 0, left |-> 0, to |-> 0, frames |-> <<>>]

-----------------------------------------------------------------------------
(* The controller and the network *)

\* A message of n frames: all but the last one are full, the last one may be.
\* The controller may send a request before the last one is answered, but not
\* around the one that changes its keys.
Send(n, exact, verify) ==
    /\ open
    /\ peer.requests < MaxRequest
    /\ peer.requests < peer.answers + MaxOutstanding
    /\ verify => peer.ses < MaxSession
    /\ verify \/ peer.ses = 0 => peer.requests = peer.answers
    /\ sent # <<>> /\ sent[Len(sent)].verify => peer.ses > sent[Len(sent)].ses
    /\ peer.ses = 0 => n = 1 /\ ~exact
    /\ sent' = sent \o [i \in 1..n |->
                          [ses    |-> peer.ses,
                           num    |-> IF peer.ses = 0 THEN 0 ELSE peer.out + i - 1,
                           full   |-> i < n \/ exact,
                           end    |-> i = n,
                           verify |-> verify]]
    /\ peer' = [peer EXCEPT !.out = IF peer.ses = 0 THEN 0 ELSE @ + n,
                            !.requests = @ + 1]
    /\ UNCHANGED <<pending, ss, reading, writing, pc, handled, arrived, events, open>>

Arrive(n) ==
    /\ open
    /\ n \in arrived + 1 .. 2 * Len(sent)
    /\ arrived' = n
    /\ UNCHANGED <<pending, ss, reading, writing, pc, handled, sent, peer, events, open>>

\* The controller reads a frame; it closes the connection if the frame is not
\* the next one of its session.
Receive ==
    /\ open
    /\ peer.seen < Len(wire)
    /\ LET f == wire[peer.seen + 1] IN
       IF f.ses = peer.ses /\ f.num = peer.in
       THEN /\ peer' = [peer EXCEPT
                          !.seen = @ + 1,
                          !.in = IF f.to # 0 \/ f.ses = 0 THEN 0 ELSE @ + 1,
                          !.out = IF f.to # 0 THEN 0 ELSE @,
                          !.ses = IF f.to # 0 THEN f.to ELSE @,
                          !.answers = IF f.end /\ ~f.event THEN @ + 1 ELSE @]
            /\ UNCHANGED open
       ELSE open' = FALSE /\ UNCHANGED peer
    /\ UNCHANGED <<pending, ss, reading, writing, pc, handled, sent, arrived, events>>

-----------------------------------------------------------------------------
(* conn.Read *)

\* The first request in what was delivered and not handled yet, if complete.
IsRequestEnd(i) ==
    /\ i \in handled + 1 .. Len(delivered)
    /\ ~IsFirst(delivered[i].unit)
    /\ sent[FrameOf(delivered[i].unit)].end
    /\ \A j \in handled + 1 .. i : ~delivered[j].raw

HasRequest == \E i \in handled + 1 .. Len(delivered) : IsRequestEnd(i)

MayRead(g) ==
    IF g = "serve" THEN pc = "read" /\ rd[g] = "off" /\ ~HasRequest
                   ELSE rd[g] = "begin"

\* Up to the choice between the plain socket, readBuf and Decrypt: the session
\* of Upgrade is the one in use from now on.
BeginRead(g) ==
    /\ open
    /\ MayRead(g)
    /\ ss' = IF pending # 0 THEN pending ELSE ss
    /\ pending' = 0
    /\ rd' = [rd EXCEPT ![g] = IF ss' = 0 THEN "plain"
                               ELSE IF readBuf # <<>> THEN "buffer" ELSE "decrypt"]
    /\ dec' = [NoDecrypt EXCEPT !.ses = ss']
    /\ UNCHANGED <<readBuf, inCount, delivered, taken, writing, pc, handled,
                   remote, events, open>>

Deliver(g, units, raw) ==
    /\ delivered' = delivered \o [i \in DOMAIN units |-> [unit |-> units[i], raw |-> raw]]
    /\ rd' = [rd EXCEPT ![g] = "off"]
    /\ dec' = NoDecrypt

\* A byte of an encrypted frame that the plain branch returns is garbage.
ReadPlain(g, n) ==
    /\ open
    /\ rd[g] = "plain"
    /\ n \in 1..(arrived - taken)
    /\ g = "background" => n = 1
    /\ Deliver(g, Units(taken, taken + n), sent[FrameOf(taken + n)].ses # 0)
    /\ taken' = taken + n
    /\ UNCHANGED <<pending, ss, readBuf, inCount, writing, pc, handled, remote,
                   events, open>>

\* readBuf is dropped when the caller's buffer was not filled; one that it
\* filled exactly leaves an empty readBuf.
ReturnFrom(g, data, n) ==
    /\ n \in 1..Len(data)
    /\ g = "background" => n = 1
    /\ Deliver(g, SubSeq(data, 1, n), FALSE)
    /\ \/ readBuf' = <<SubSeq(data, n + 1, Len(data))>>
       \/ g = "serve" /\ n = Len(data) /\ readBuf' = <<>>

ReadBuffered(g, n) ==
    /\ open
    /\ rd[g] = "buffer"
    /\ ReturnFrom(g, readBuf[1], n)
    /\ UNCHANGED <<pending, ss, inCount, taken, writing, pc, handled, remote,
                   events, open>>

\* An empty readBuf is an EOF for the caller: the serve loop ends.
ReadEOF(g) ==
    /\ open
    /\ rd[g] = "buffer"
    /\ readBuf[1] = <<>>
    /\ readBuf' = <<>>
    /\ rd' = [rd EXCEPT ![g] = "off"]
    /\ dec' = NoDecrypt
    /\ open' = (g # "serve")
    /\ UNCHANGED <<pending, ss, inCount, delivered, taken, writing, pc, handled,
                   remote, events>>

\* The new bufio.Reader of this Decrypt takes all that has arrived.
Fill(g) ==
    /\ open
    /\ rd[g] = "decrypt"
    /\ Len(dec.ahead) < 2
    /\ taken < arrived
    /\ dec' = [dec EXCEPT !.ahead = @ \o Units(taken, arrived)]
    /\ taken' = arrived
    /\ UNCHANGED <<pending, ss, readBuf, inCount, rd, delivered, writing, pc,
                   handled, remote, events, open>>

\* Mutant: the number of a frame is not checked, as with a nonce of the frame.
VerifiesAnyNumber(count) ==
    LET f == sent[FrameOf(dec.ahead[1])] IN
    IsFirst(dec.ahead[1]) /\ f.ses = dec.ses

\* The reader stands at the start of a frame of its session, with its number.
Verifies(count) ==
    LET f == sent[FrameOf(dec.ahead[1])] IN
    IsFirst(dec.ahead[1]) /\ f.ses = dec.ses /\ f.num = count

\* Decrypt opens the next frame; after one that is not full it returns, and what
\* the bufio.Reader holds of the next message is gone.
DecryptFrame(g, n) ==
    /\ open
    /\ rd[g] = "decrypt"
    /\ Len(dec.ahead) >= 2
    /\ inCount' = [inCount EXCEPT ![dec.ses] = @ + 1]
    /\ IF ~Verifies(inCount[dec.ses])
       THEN open' = FALSE /\ UNCHANGED <<rd, dec, readBuf, delivered>>
       ELSE LET out == dec.out \o SubSeq(dec.ahead, 1, 2) IN
            /\ UNCHANGED open
            /\ IF sent[FrameOf(dec.ahead[1])].full
               THEN /\ dec' = [dec EXCEPT !.out = out,
                                          !.ahead = SubSeq(@, 3, Len(@))]
                    /\ n = 1
                    /\ UNCHANGED <<rd, readBuf, delivered>>
               ELSE ReturnFrom(g, out, n)
    /\ UNCHANGED <<pending, ss, taken, writing, pc, handled, remote, events>>

-----------------------------------------------------------------------------
(* The serve loop *)

StartHandler(i) ==
    /\ open
    /\ pc = "read"
    /\ rd["serve"] = "off"
    /\ IsRequestEnd(i) /\ \A j \in handled + 1 .. i - 1 : ~IsRequestEnd(j)
    /\ handled' = i
    /\ pc' = "handle"
    /\ rd' = [rd EXCEPT !["background"] = "begin"]
    /\ UNCHANGED <<pending, ss, readBuf, inCount, dec, delivered, taken, writing,
                   remote, events, open>>

\* The handler, which leaves its response in the buffers of net/http; that of a
\* pair-verify M3 calls Upgrade.
Handle(n) ==
    /\ open
    /\ pc = "handle"
    /\ pc' = "flush"
    /\ LET f  == sent[FrameOf(delivered[handled].unit)]
           to == IF f.verify THEN f.ses + 1 ELSE 0
       IN  /\ to # 0 => n = 1
           /\ pending' = IF to # 0 THEN to ELSE pending
           /\ wr' = [wr EXCEPT !["serve"] = [IdleWriter EXCEPT !.at = "begin",
                                               !.left = n, !.to = to]]
    /\ UNCHANGED <<ss, reading, outCount, handled, remote, wire, events, open>>

\* abortPendingRead: the deadline ends a background Read that waits for the
\* socket, with what its bufio.Reader holds.
AbortRead ==
    /\ open
    /\ pc = "abort"
    /\ \/ rd["background"] \in {"off", "plain"}
       \/ rd["background"] = "decrypt" /\ Len(dec.ahead) < 2
    /\ rd' = [rd EXCEPT !["background"] = "off"]
    /\ dec' = NoDecrypt
    /\ pc' = "read"
    /\ UNCHANGED <<pending, ss, readBuf, inCount, delivered, taken, writing,
                   handled, remote, events, open>>

-----------------------------------------------------------------------------
(* conn.Write *)

\* sendNotification writes to a connection that has subscribed, which takes an
\* encrypted request.
StartEvent(w, n) ==
    /\ open
    /\ wr[w] = IdleWriter
    /\ events < MaxEvent
    /\ ss # 0
    /\ events' = events + 1
    /\ wr' = [wr EXCEPT ![w] = [IdleWriter EXCEPT !.at = "begin", !.left = n]]
    /\ UNCHANGED <<pending, ss, reading, outCount, pc, handled, remote, wire, open>>

OutFrame(w, ses, num) ==
    [ses |-> ses, num |-> num, end |-> wr[w].left = 1, to |-> wr[w].to,
     event |-> w # "serve"]

\* Write looks at c.ss without the mutex.
BeginWrite(w) ==
    /\ open
    /\ wr[w].at = "begin"
    /\ wr' = [wr EXCEPT ![w] =
                IF ss = 0 THEN [@ EXCEPT !.at = "write", !.left = 0,
                                         !.frames = <<[OutFrame(w, 0, 0) EXCEPT !.end = TRUE]>>]
                          ELSE [@ EXCEPT !.at = "encrypt", !.ses = ss]]
    /\ UNCHANGED <<pending, ss, reading, outCount, pc, handled, remote, wire,
                   events, open>>

\* Mutant: the counter is advanced once for a message, not for each packet.
EncryptCountMessage(w) ==
    /\ open
    /\ wr[w].at = "encrypt"
    /\ LET k == wr[w].ses IN
       /\ wr' = [wr EXCEPT ![w].frames = Append(@, OutFrame(w, k, outCount[k])),
                           ![w].left = @ - 1,
                           ![w].at = IF wr[w].left = 1 THEN "write" ELSE "encrypt"]
       /\ outCount' = [outCount EXCEPT ![k] = IF wr[w].left = 1 THEN @ + 1 ELSE @]
    /\ UNCHANGED <<pending, ss, reading, pc, handled, remote, wire, events, open>>

\* Mutant: the loop makes one packet more than there are.
EncryptOneMore(w) ==
    /\ open
    /\ wr[w].at = "encrypt"
    /\ LET k == wr[w].ses IN
       /\ wr' = [wr EXCEPT ![w].frames = Append(@, OutFrame(w, k, outCount[k])),
                           ![w].left = @ - 1,
                           ![w].at = IF wr[w].left = 0 THEN "write" ELSE "encrypt"]
       /\ outCount' = [outCount EXCEPT ![k] = @ + 1]
    /\ UNCHANGED <<pending, ss, reading, pc, handled, remote, wire, events, open>>

\* One packet of Encrypt: the counter is taken and advanced under the mutex.
EncryptFrame(w) ==
    /\ open
    /\ wr[w].at = "encrypt"
    /\ LET k == wr[w].ses IN
       /\ wr' = [wr EXCEPT ![w].frames = Append(@, OutFrame(w, k, outCount[k])),
                           ![w].left = @ - 1,
                           ![w].at = IF wr[w].left = 1 THEN "write" ELSE "encrypt"]
       /\ outCount' = [outCount EXCEPT ![k] = @ + 1]
    /\ UNCHANGED <<pending, ss, reading, pc, handled, remote, wire, events, open>>

\* Mutant: only the first packet of a message is written.
WriteFirstFrame(w) ==
    /\ open
    /\ wr[w].at = "write"
    /\ wire' = Append(wire, Head(wr[w].frames))
    /\ wr' = [wr EXCEPT ![w] = IdleWriter]
    /\ pc' = IF w = "serve" THEN "abort" ELSE pc
    /\ UNCHANGED <<pending, ss, reading, outCount, handled, remote, events, open>>

\* The Write of the socket is atomic.
WriteSocket(w) ==
    /\ open
    /\ wr[w].at = "write"
    /\ wire' = wire \o wr[w].frames
    /\ wr' = [wr EXCEPT ![w] = IdleWriter]
    /\ pc' = IF w = "serve" THEN "abort" ELSE pc
    /\ UNCHANGED <<pending, ss, reading, outCount, handled, remote, events, open>>

-----------------------------------------------------------------------------

Init ==
    /\ pending = 0 /\ ss = 0
    /\ readBuf = <<>>
    /\ inCount = [k \in Session |-> 0]
    /\ outCount = [k \in Session |-> 0]
    /\ rd = [g \in Reader |-> "off"]
    /\ dec = NoDecrypt
    /\ wr = [w \in Writer |-> IdleWriter]
    /\ pc = "read" /\ handled = 0
    /\ delivered = <<>>
    /\ sent = <<>> /\ arrived = 0 /\ taken = 0
    /\ wire = <<>>
    /\ peer = [ses |-> 0, in |-> 0, out |-> 0, seen |-> 0, requests |-> 0,
               answers |-> 0]
    /\ events = 0
    /\ open = TRUE

\* What the largest message and the largest buffer can hold.
Length == 1..(2 * MaxRequest * MaxIn)

Read(g) ==
    \/ BeginRead(g) \/ Fill(g) \/ ReadEOF(g)
    \/ \E n \in Length : ReadPlain(g, n) \/ ReadBuffered(g, n) \/ DecryptFrame(g, n)

Write(w) == BeginWrite(w) \/ EncryptFrame(w) \/ WriteSocket(w)

Next ==
    \/ \E n \in 1..MaxIn, exact, verify \in BOOLEAN : Send(n, exact, verify)
    \/ \E n \in Length : Arrive(n)
    \/ Receive
    \/ \E g \in Reader : Read(g)
    \/ \E i \in 1..Len(delivered) : StartHandler(i)
    \/ \E n \in 1..MaxOut : Handle(n)
    \/ AbortRead
    \/ \E w \in Notifier, n \in 1..MaxOut : StartEvent(w, n)
    \/ \E w \in Writer : Write(w)

Spec == Init /\ [][Next]_vars

-----------------------------------------------------------------------------
(* Properties *)

\* Every variable has its type.
TypeOK ==
    /\ pending \in 0..MaxSession /\ ss \in 0..MaxSession
    /\ readBuf \in Seq(Seq(Nat)) /\ Len(readBuf) <= 1
    /\ inCount \in [Session -> Nat]
    /\ outCount \in [Session -> Nat]
    /\ rd \in [Reader -> {"off", "begin", "plain", "buffer", "decrypt"}]
    /\ dec \in [ses : 0..MaxSession, ahead : Seq(Nat), out : Seq(Nat)]
    /\ wr \in [Writer -> [at : {"idle", "begin", "encrypt", "write"},
                          ses : 0..MaxSession, left : 0..MaxOut,
                          to : 0..MaxSession, frames : Seq(Outbound)]]
    /\ pc \in {"read", "handle", "flush", "abort"}
    /\ handled \in 0..Len(delivered)
    /\ delivered \in Seq([unit : Nat, raw : BOOLEAN])
    /\ sent \in Seq(Inbound)
    /\ arrived \in 0..(2 * Len(sent))
    /\ taken \in 0..arrived
    /\ wire \in Seq(Outbound)
    /\ peer \in [ses : 0..MaxSession, in : Nat, out : Nat, seen : Nat,
                 requests : Nat, answers : Nat]
    /\ events \in 0..MaxEvent
    /\ open \in BOOLEAN

\* What net/http gets is what the controller sent, in order and without a gap,
\* but for full frames that a read deadline discards in the middle of a message:
\* after any other loss (of a read-ahead, of part of a frame, of a byte that was
\* taken for plain text) nothing more is delivered.
OnlyFullFramesSkipped ==
    \A i \in DOMAIN delivered :
        LET before == IF i = 1 THEN 0 ELSE delivered[i - 1].unit IN
        /\ delivered[i].unit > before
        /\ \A u \in before + 1 .. delivered[i].unit - 1 : sent[FrameOf(u)].full

\* Frames that were encrypted, on the wire or not.
OnWire == {<<"wire", i>> : i \in DOMAIN wire}
Made(w) == {<<w, i>> : i \in DOMAIN wr[w].frames}
Frame(p) == IF p[1] = "wire" THEN wire[p[2]] ELSE wr[p[1]].frames[p[2]]
Frames == OnWire \cup UNION {Made(w) : w \in Writer}

\* No counter of a session is used for two frames, whoever writes at once.
CountersUnique ==
    \A p, q \in Frames :
        p # q /\ Frame(p).ses # 0 /\ Frame(p).ses = Frame(q).ses
            => Frame(p).num # Frame(q).num

\* When nobody is writing, every counter taken so far is on the wire: the peer
\* does not wait for a frame that never comes.
NoCounterSkipped ==
    (open /\ \A w \in Writer : wr[w].at \notin {"encrypt", "write"}) =>
        \A k \in Session :
            {wire[i].num : i \in {j \in DOMAIN wire : wire[j].ses = k}}
                = 0..(outCount[k] - 1)

-----------------------------------------------------------------------------
(* What comments say and the code refutes *)

\* "switching to encryption is done after sending a response": the response
\* that starts a session is not encrypted with it.
ResponseBeforeEncryption ==
    \A i \in DOMAIN wire : wire[i].to # 0 => wire[i].ses # wire[i].to

=============================================================================
