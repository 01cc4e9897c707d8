-------------------------- MODULE SecureConnProofs --------------------------
(***************************************************************************)
(* Theorems about SecureConn for every set of notifying goroutines and     *)
(* every bound.                                                            *)
(***************************************************************************)
EXTENDS SecureConn, SequenceTheorems, TLAPS

-----------------------------------------------------------------------------
(* The inductive invariant *)

\* The session that the next Read uses.
Current == IF pending # 0 THEN pending ELSE ss

\* The last unit that net/http got, the last one that it gets of readBuf, and
\* the last one that the running Decrypt has done with.
Last == IF delivered = <<>> THEN 0 ELSE delivered[Len(delivered)].unit
Kept == IF readBuf = <<>> THEN Last ELSE Last + Len(readBuf[1])
Gone == taken - Len(dec.ahead)

\* The frame that holds the end of the last request a handler got, or 0.
Handled == IF handled = 0 THEN 0 ELSE FrameOf(delivered[handled].unit)

\* The two readers take turns, and readBuf is not used together with Decrypt.
Turns ==
    /\ rd["serve"] # "off" => pc = "read" /\ rd["serve"] # "begin"
    /\ pc = "read" => rd["background"] = "off"
    /\ \A g \in Reader :
          /\ rd[g] = "plain" => ss = 0
          /\ rd[g] = "buffer" => readBuf # <<>> /\ ss # 0
          /\ rd[g] = "decrypt" => readBuf = <<>> /\ ss # 0 /\ dec.ses = ss
    /\ (\A g \in Reader : rd[g] # "decrypt") => dec.ahead = <<>> /\ dec.out = <<>>
    /\ ss = 0 => readBuf = <<>>

\* What was delivered was taken, and keeps its order.
Ordered ==
    /\ \A i \in 1..Len(delivered) : delivered[i].unit \in 1..taken
    /\ \A i, j \in 1..Len(delivered) : i < j => delivered[i].unit < delivered[j].unit

\* Units keep their order on the way to net/http: those in readBuf follow the
\* ones delivered, those of the running Decrypt are the last ones taken.
Stream ==
    /\ Ordered
    /\ readBuf # <<>> =>
          \A i \in DOMAIN readBuf[1] : readBuf[1][i] = Last + i
    /\ \A i \in DOMAIN dec.ahead : dec.ahead[i] = Gone + i
    /\ \A i \in DOMAIN dec.out : dec.out[i] = Gone - Len(dec.out) + i
    /\ Kept + Len(dec.out) <= Gone
    /\ ss = 0 => Kept = taken
    /\ handled # 0 => /\ ~IsFirst(delivered[handled].unit)
                      /\ sent[Handled].end
    /\ pc = "handle" => handled # 0

\* What the controller sends: its counter grows within a session, and after the
\* end of a verification it waits for the next session.
Counting ==
    /\ \A j \in DOMAIN sent :
          /\ sent[j].ses <= peer.ses
          /\ sent[j].ses = peer.ses /\ peer.ses # 0 => sent[j].num < peer.out
          /\ sent[j].verify => sent[j].ses < MaxSession
          /\ sent[j].verify /\ sent[j].end /\ j # Len(sent) => sent[j].ses < peer.ses
    /\ \A i, j \in DOMAIN sent :
          i < j /\ sent[i].ses = sent[j].ses /\ sent[i].ses # 0
             => sent[i].num < sent[j].num

\* The responses that start a session and that the controller has not read.
Unread == peer.seen + 1 .. Len(wire)
Starting == wr["serve"].to # 0 \/ \E i \in Unread : wire[i].to # 0

\* There is one such response at most, and the serve loop writes it.
StartingResponse ==
    /\ \A w \in Writer : \A i \in DOMAIN wr[w].frames : wr[w].frames[i].to = wr[w].to
    /\ \A w \in Notifier : wr[w].to = 0
    /\ wr["serve"].to # 0 => /\ wr["serve"].to = peer.ses + 1
                             /\ wr["serve"].left + Len(wr["serve"].frames) <= 1
                             /\ \A i \in Unread : wire[i].to = 0
    /\ \A i, j \in Unread : wire[i].to # 0 /\ wire[j].to # 0 => i = j
    /\ \A i \in Unread : wire[i].to # 0 => wire[i].to = peer.ses + 1
    /\ peer.seen <= Len(wire)
    /\ pc \in {"handle", "read", "abort"} => wr["serve"] = IdleWriter

\* From Upgrade until the controller has read the response to its verification,
\* which was the last request it sent, the accessory is one session ahead.
OneAhead ==
    /\ Starting => /\ Current = peer.ses + 1
                   /\ Handled = Len(sent) /\ handled # 0 /\ pc # "handle"
                   /\ sent[Handled].verify /\ sent[Handled].ses = peer.ses
    /\ ~Starting => Current = peer.ses
    /\ \A j \in DOMAIN sent :
          (/\ j > Handled \/ (j = Handled /\ pc = "handle")
           /\ sent[j].verify /\ sent[j].end) => sent[j].ses = peer.ses

Upgrading == StartingResponse /\ OneAhead

\* What has not been delivered is of the current session; it still can be
\* opened, or was a full frame that a Decrypt has opened.
Openable ==
    /\ \A u \in Kept + 1 .. 2 * Len(sent) :
          LET f == sent[FrameOf(u)] IN
          /\ f.ses = Current
          /\ Current # 0 => f.num >= inCount[Current] \/ (u <= Gone /\ f.full)
    /\ Current = peer.ses /\ peer.ses # 0 => inCount[peer.ses] <= peer.out
    /\ Starting => inCount[Current] = 0
    /\ \A k \in Session : k > Current => inCount[k] = 0

\* A writer has made packets while it is between Encrypt and the socket.
Writing ==
    \A w \in Writer :
        /\ wr[w].at \notin {"encrypt", "write"} => wr[w].frames = <<>>
        /\ wr[w].at \in {"begin", "encrypt"} => wr[w].left # 0
        /\ wr[w].at = "encrypt" => wr[w].ses # 0
        /\ wr[w].at = "write" => wr[w].frames # <<>>

\* Every counter that was taken is that of a frame, and of one only.
Counters ==
    /\ \A p \in Frames : Frame(p).ses # 0 => Frame(p).num < outCount[Frame(p).ses]
    /\ \A k \in Session : \A n \in 0 .. outCount[k] - 1 :
          \E p \in Frames : Frame(p).ses = k /\ Frame(p).num = n
    /\ CountersUnique

Numbered == Writing /\ Counters

IInv ==
    /\ TypeOK /\ Turns /\ Stream /\ Counting
    /\ open => Upgrading /\ Openable
    /\ OnlyFullFramesSkipped
    /\ Numbered

-----------------------------------------------------------------------------
(* Sequences *)

\* A function on 1..n is a sequence of length n.
LEMMA FunctionIsSeq ==
    ASSUME NEW S, NEW n \in Nat, NEW f \in [1..n -> S]
    PROVE  f \in Seq(S) /\ Len(f) = n
<1>1. f \in Seq(S)
  BY SeqDef
<1>2. QED
  BY <1>1, LenProperties

\* The units from one position to another are consecutive.
LEMMA UnitsProperties ==
    ASSUME NEW from \in Nat, NEW to \in Nat, from <= to
    PROVE  /\ Units(from, to) \in Seq(Nat)
           /\ Len(Units(from, to)) = to - from
           /\ \A i \in 1..(to - from) : Units(from, to)[i] = from + i
<1>1. to - from \in Nat /\ Units(from, to) \in [1..(to - from) -> Nat]
  BY DEF Units
<1>2. QED
  BY <1>1, FunctionIsSeq DEF Units

\* The frame of a unit is one of those sent if the unit is one of theirs.
LEMMA FrameOfUnit ==
    ASSUME NEW n \in Nat, NEW u \in 1..(2 * n)
    PROVE  /\ FrameOf(u) \in 1..n
           /\ 2 * FrameOf(u) = IF IsFirst(u) THEN u + 1 ELSE u
  BY DEF FrameOf, IsFirst

\* What Deliver appends.
LEMMA DeliverProperties ==
    ASSUME TypeOK, NEW g \in Reader, NEW units \in Seq(Nat), NEW raw \in BOOLEAN,
           Deliver(g, units, raw)
    PROVE  /\ delivered' \in Seq([unit : Nat, raw : BOOLEAN])
           /\ Len(delivered') = Len(delivered) + Len(units)
           /\ \A i \in 1..Len(delivered) : delivered'[i] = delivered[i]
           /\ \A i \in 1..Len(units) :
                 delivered'[Len(delivered) + i].unit = units[i]
<1> DEFINE D == [unit : Nat, raw : BOOLEAN]
           new == [i \in DOMAIN units |-> [unit |-> units[i], raw |-> raw]]
<1>1. Len(units) \in Nat /\ DOMAIN units = 1..Len(units)
      /\ \A i \in 1..Len(units) : units[i] \in Nat
  BY LenProperties
<1>2. new \in [1..Len(units) -> D]
  BY <1>1
<1>3. new \in Seq(D) /\ Len(new) = Len(units)
  BY <1>1, <1>2, FunctionIsSeq
<1>4. delivered \in Seq(D) /\ delivered' = delivered \o new
  BY DEF TypeOK, Deliver
<1>5. /\ delivered' \in Seq(D)
      /\ Len(delivered') = Len(delivered) + Len(new)
      /\ \A i \in 1 .. Len(delivered) + Len(new) :
            delivered'[i] = IF i <= Len(delivered) THEN delivered[i]
                                                   ELSE new[i - Len(delivered)]
  BY <1>3, <1>4, ConcatProperties
<1>6. Len(delivered) \in Nat
  BY <1>4, LenProperties
<1>7. \A i \in 1..Len(units) : new[i].unit = units[i]
  BY <1>1
<1> HIDE DEF new
<1>8. ASSUME NEW i \in 1..Len(units)
      PROVE  delivered'[Len(delivered) + i].unit = units[i]
  <2>1. /\ Len(delivered) + i \in 1 .. Len(delivered) + Len(new)
        /\ ~(Len(delivered) + i <= Len(delivered))
        /\ (Len(delivered) + i) - Len(delivered) = i
    BY <1>1, <1>3, <1>6
  <2>2. QED
    BY <1>5, <1>7, <2>1
<1>9. QED
  BY <1>1, <1>3, <1>5, <1>6, <1>8

-----------------------------------------------------------------------------
(* Types *)

\* The frames of a message of n.
Appended(n, verify) ==
    \A i \in 1..n :
        /\ sent'[Len(sent) + i].ses = peer.ses
        /\ peer.ses # 0 => sent'[Len(sent) + i].num = peer.out + i - 1
        /\ sent'[Len(sent) + i].end = (i = n)
        /\ sent'[Len(sent) + i].verify = verify

\* What the controller sends with one message.
LEMMA SendProperties ==
    ASSUME TypeOK, NEW n \in 1..MaxIn, NEW exact \in BOOLEAN, NEW verify \in BOOLEAN,
           Send(n, exact, verify)
    PROVE  /\ sent' \in Seq(Inbound)
           /\ Len(sent') = Len(sent) + n
           /\ \A j \in 1..Len(sent) : sent'[j] = sent[j]
           /\ Appended(n, verify)
<1> DEFINE new == [i \in 1..n |->
                     [ses    |-> peer.ses,
                      num    |-> IF peer.ses = 0 THEN 0 ELSE peer.out + i - 1,
                      full   |-> i < n \/ exact,
                      end    |-> i = n,
                      verify |-> verify]]
<1>1. n \in Nat /\ MaxIn \in Nat
  BY BoundsAssumption
<1>2. new \in [1..n -> Inbound]
  <2> SUFFICES ASSUME NEW i \in 1..n PROVE new[i] \in Inbound
    OBVIOUS
  <2>1. peer.out \in Nat /\ peer.ses \in 0..MaxSession
    BY DEF TypeOK
  <2>2. (IF peer.ses = 0 THEN 0 ELSE peer.out + i - 1) \in Nat
    BY <1>1, <2>1
  <2>3. QED
    BY <2>1, <2>2 DEF Inbound
<1>3. new \in Seq(Inbound) /\ Len(new) = n
  BY <1>1, <1>2, FunctionIsSeq
<1>4. sent \in Seq(Inbound) /\ sent' = sent \o new
  <2>1. sent' = sent \o new
    BY Zenon DEF Send
  <2>2. QED
    BY <2>1 DEF TypeOK
<1>5. /\ sent' \in Seq(Inbound)
      /\ Len(sent') = Len(sent) + Len(new)
      /\ \A i \in 1 .. Len(sent) + Len(new) :
            sent'[i] = IF i <= Len(sent) THEN sent[i] ELSE new[i - Len(sent)]
  BY <1>3, <1>4, ConcatProperties
<1>6. Len(sent) \in Nat
  BY <1>4, LenProperties
<1> HIDE DEF new
<1>7. ASSUME NEW i \in 1..n
      PROVE  sent'[Len(sent) + i] = new[i]
  <2>1. /\ Len(sent) + i \in 1 .. Len(sent) + Len(new)
        /\ ~(Len(sent) + i <= Len(sent))
        /\ (Len(sent) + i) - Len(sent) = i
    BY <1>1, <1>3, <1>6
  <2>2. QED
    BY <1>5, <2>1
<1>8. \A j \in 1..Len(sent) : sent'[j] = sent[j]
  BY <1>3, <1>5, <1>6
<1>9. \A i \in 1..n : /\ new[i].ses = peer.ses
                      /\ peer.ses # 0 => new[i].num = peer.out + i - 1
                      /\ new[i].end = (i = n)
                      /\ new[i].verify = verify
  BY DEF new
<1>10. \A i \in 1..n : /\ sent'[Len(sent) + i].ses = peer.ses
                       /\ peer.ses # 0 => sent'[Len(sent) + i].num = peer.out + i - 1
                       /\ sent'[Len(sent) + i].end = (i = n)
                       /\ sent'[Len(sent) + i].verify = verify
  BY <1>7, <1>9
<1>11. Appended(n, verify)
  BY <1>10, Zenon DEF Appended
<1>12. QED
  BY <1>3, <1>5, <1>8, <1>11

\* ReturnFrom splits what it is given between net/http and readBuf.
LEMMA ReturnFromProperties ==
    ASSUME TypeOK, NEW g \in Reader, NEW data \in Seq(Nat), NEW n \in Nat,
           ReturnFrom(g, data, n)
    PROVE  /\ n \in 1..Len(data)
           /\ delivered' \in Seq([unit : Nat, raw : BOOLEAN])
           /\ Len(delivered') = Len(delivered) + n
           /\ \A i \in 1..Len(delivered) : delivered'[i] = delivered[i]
           /\ \A i \in 1..n : delivered'[Len(delivered) + i].unit = data[i]
           /\ readBuf' \in Seq(Seq(Nat)) /\ Len(readBuf') <= 1
           /\ readBuf' = <<>> => n = Len(data)
           /\ readBuf' # <<>> =>
                 /\ Len(readBuf'[1]) = Len(data) - n
                 /\ \A i \in 1 .. Len(data) - n : readBuf'[1][i] = data[n + i]
           /\ rd' = [rd EXCEPT ![g] = "off"]
           /\ dec' = NoDecrypt
<1>1. n \in 1..Len(data) /\ Len(data) \in Nat
      /\ \A i \in 1..Len(data) : data[i] \in Nat
  BY LenProperties DEF ReturnFrom
<1> DEFINE front == SubSeq(data, 1, n)
           rest == SubSeq(data, n + 1, Len(data))
<1>2. /\ front \in Seq(Nat) /\ Len(front) = n
      /\ \A i \in 1..n : front[i] = data[i]
  <2>1. 1 \in Int /\ n \in Int /\ 1 <= n /\ \A i \in 1..n : data[i] \in Nat
    BY <1>1
  <2>2. /\ front \in Seq(Nat)
        /\ Len(front) = IF 1 <= n THEN n - 1 + 1 ELSE 0
        /\ \A i \in 1 .. n - 1 + 1 : front[i] = data[1 + i - 1]
    BY <2>1, SubSeqProperties
  <2>3. QED
    BY <2>1, <2>2
<1>3. /\ rest \in Seq(Nat) /\ Len(rest) = Len(data) - n
      /\ \A i \in 1 .. Len(data) - n : rest[i] = data[n + i]
  <2>1. n + 1 \in Int /\ Len(data) \in Int
        /\ \A i \in n + 1 .. Len(data) : data[i] \in Nat
    BY <1>1
  <2>2. /\ rest \in Seq(Nat)
        /\ Len(rest) = IF n + 1 <= Len(data) THEN Len(data) - (n + 1) + 1 ELSE 0
        /\ \A i \in 1 .. Len(data) - (n + 1) + 1 : rest[i] = data[n + 1 + i - 1]
    BY <2>1, SubSeqProperties
  <2>3. QED
    BY <1>1, <2>2
<1>4. Deliver(g, front, FALSE)
      /\ (readBuf' = <<rest>> \/ (n = Len(data) /\ readBuf' = <<>>))
  BY DEF ReturnFrom
<1> HIDE DEF front, rest
<1>5. /\ delivered' \in Seq([unit : Nat, raw : BOOLEAN])
      /\ Len(delivered') = Len(delivered) + n
      /\ \A i \in 1..Len(delivered) : delivered'[i] = delivered[i]
      /\ \A i \in 1..n : delivered'[Len(delivered) + i].unit = data[i]
  BY <1>2, <1>4, DeliverProperties
<1>6. /\ readBuf' \in Seq(Seq(Nat)) /\ Len(readBuf') <= 1
      /\ readBuf' = <<>> => n = Len(data)
      /\ readBuf' # <<>> =>
            /\ Len(readBuf'[1]) = Len(data) - n
            /\ \A i \in 1 .. Len(data) - n : readBuf'[1][i] = data[n + i]
  <2>1. CASE readBuf' = <<rest>>
    BY <1>3, <2>1
  <2>2. CASE n = Len(data) /\ readBuf' = <<>>
    BY <2>2
  <2>3. QED
    BY <1>4, <2>1, <2>2
<1>7. QED
  BY <1>1, <1>4, <1>5, <1>6 DEF Deliver

WriterState == [at : {"idle", "begin", "encrypt", "write"}, ses : 0..MaxSession,
                left : 0..MaxOut, to : 0..MaxSession, frames : Seq(Outbound)]

\* The names of goroutines are not mixed up, and the bounds are numbers.
LEMMA ConstantFacts ==
    /\ "serve" \notin Notifier /\ "wire" \notin Writer
    /\ "serve" \in Writer /\ Notifier \subseteq Writer
    /\ MaxSession \in Nat /\ MaxRequest \in Nat /\ MaxEvent \in Nat
    /\ MaxIn \in Nat /\ MaxOut \in Nat /\ MaxOutstanding \in Nat
  BY BoundsAssumption, NotifierAssumption DEF Writer

LEMMA WriterTypes ==
    ASSUME TypeOK
    PROVE  /\ IdleWriter \in WriterState
           /\ wr \in [Writer -> WriterState]
           /\ \A w \in Writer :
                 /\ wr[w].left \in 0..MaxOut /\ wr[w].to \in 0..MaxSession
                 /\ wr[w].ses \in 0..MaxSession /\ wr[w].frames \in Seq(Outbound)
                 /\ wr[w].at \in {"idle", "begin", "encrypt", "write"}
<1>1. wr \in [Writer -> WriterState]
  BY DEF TypeOK, WriterState
<1>2. <<>> \in Seq(Outbound) /\ 0 \in 0..MaxSession /\ 0 \in 0..MaxOut
  BY ConstantFacts, EmptySeq
<1>3. IdleWriter \in WriterState
  BY <1>2 DEF IdleWriter, WriterState
<1>4. QED
  BY <1>1, <1>3 DEF WriterState

\* What TypeOK says of the sequences.
LEMMA SeqTypes ==
    ASSUME TypeOK
    PROVE  /\ Len(delivered) \in Nat /\ DOMAIN delivered = 1..Len(delivered)
           /\ Len(sent) \in Nat /\ DOMAIN sent = 1..Len(sent)
           /\ Len(wire) \in Nat /\ DOMAIN wire = 1..Len(wire)
           /\ \A i \in 1..Len(delivered) : delivered[i] \in [unit : Nat, raw : BOOLEAN]
           /\ \A j \in 1..Len(sent) : sent[j] \in Inbound
           /\ \A i \in 1..Len(wire) : wire[i] \in Outbound
           /\ dec.ahead \in Seq(Nat) /\ Len(dec.ahead) \in Nat
           /\ DOMAIN dec.ahead = 1..Len(dec.ahead)
           /\ dec.out \in Seq(Nat) /\ Len(dec.out) \in Nat
           /\ DOMAIN dec.out = 1..Len(dec.out)
           /\ readBuf # <<>> => /\ readBuf[1] \in Seq(Nat) /\ Len(readBuf[1]) \in Nat
                                /\ DOMAIN readBuf[1] = 1..Len(readBuf[1])
           /\ arrived \in 0 .. 2 * Len(sent) /\ taken \in 0..arrived
<1>1. /\ delivered \in Seq([unit : Nat, raw : BOOLEAN]) /\ sent \in Seq(Inbound)
      /\ wire \in Seq(Outbound) /\ dec.ahead \in Seq(Nat) /\ dec.out \in Seq(Nat)
      /\ readBuf \in Seq(Seq(Nat))
      /\ arrived \in 0 .. 2 * Len(sent) /\ taken \in 0..arrived
  BY DEF TypeOK
<1>2. ASSUME readBuf # <<>> PROVE readBuf[1] \in Seq(Nat)
  <2>1. Len(readBuf) \in Nat \ {0}
    BY <1>1, <1>2, EmptySeq
  <2>2. 1 \in 1..Len(readBuf)
    BY <2>1
  <2>3. QED
    BY <1>1, <2>2, ElementOfSeq
<1>3. QED
  BY <1>1, <1>2, LenProperties

\* A unit that was handed out is one of a frame that was sent.
LEMMA HandledFrame ==
    ASSUME TypeOK, Stream, handled # 0
    PROVE  /\ delivered[handled].unit \in 1 .. 2 * Len(sent)
           /\ delivered[handled].unit = 2 * Handled
           /\ Handled \in 1..Len(sent)
           /\ sent[Handled] \in Inbound
<1>1. /\ Len(delivered) \in Nat /\ Len(sent) \in Nat
      /\ DOMAIN delivered = 1..Len(delivered)
      /\ \A j \in 1..Len(sent) : sent[j] \in Inbound
  BY SeqTypes
<1>2. handled \in 1..Len(delivered)
  BY <1>1 DEF TypeOK
<1>3. arrived \in 0 .. 2 * Len(sent) /\ taken \in 0..arrived
  BY DEF TypeOK
<1>4. delivered[handled].unit \in 1..taken
  BY <1>1, <1>2 DEF Stream, Ordered
<1>5. delivered[handled].unit \in 1 .. 2 * Len(sent)
  BY <1>1, <1>3, <1>4
<1>6. ~IsFirst(delivered[handled].unit)
  BY DEF Stream
<1>7. QED
  BY <1>1, <1>5, <1>6, FrameOfUnit DEF Handled

\* Whatever is new in outFrame is a frame.
LEMMA OutFrameType ==
    ASSUME TypeOK, NEW w \in Writer, NEW k \in 0..MaxSession, NEW n \in Nat
    PROVE  /\ OutFrame(w, k, n) \in Outbound
           /\ [OutFrame(w, k, n) EXCEPT !.end = TRUE] \in Outbound
  BY WriterTypes DEF OutFrame, Outbound


\* Every step keeps the types.
LEMMA TypeStep == IInv /\ [Next]_vars => TypeOK'
<1> SUFFICES ASSUME IInv, [Next]_vars PROVE TypeOK'
  OBVIOUS
<1> USE DEF IInv
<1>1. ASSUME NEW n \in 1..MaxIn, NEW exact \in BOOLEAN, NEW verify \in BOOLEAN,
             Send(n, exact, verify)
      PROVE  TypeOK'
  <2>1. /\ sent' \in Seq(Inbound) /\ Len(sent') = Len(sent) + n /\ n \in Nat
        /\ Len(sent) \in Nat
    <3>1. n \in Nat /\ Len(sent) \in Nat
      BY SeqTypes, ConstantFacts
    <3>2. QED
      BY <1>1, <3>1, SendProperties
  <2>2. arrived \in 0 .. 2 * Len(sent')
    BY <2>1, SeqTypes
  <2>3. peer' \in [ses : 0..MaxSession, in : Nat, out : Nat, seen : Nat,
                   requests : Nat, answers : Nat]
    <3>1. /\ (IF peer.ses = 0 THEN 0 ELSE peer.out + n) \in Nat
          /\ peer.requests + 1 \in Nat
      <4>1. peer.out \in Nat /\ peer.requests \in Nat
        BY DEF TypeOK
      <4>2. QED
        BY <2>1, <4>1
    <3>2. peer' = [peer EXCEPT !.out = IF peer.ses = 0 THEN 0 ELSE @ + n,
                               !.requests = @ + 1]
      BY <1>1, Zenon DEF Send
    <3>3. peer \in [ses : 0..MaxSession, in : Nat, out : Nat, seen : Nat,
                   requests : Nat, answers : Nat]
      BY DEF TypeOK
    <3>4. QED
      BY <3>1, <3>2, <3>3, Zenon
  <2>4. UNCHANGED <<pending, ss, reading, writing, pc, handled, arrived, events, open>>
    BY <1>1, Zenon DEF Send
  <2>5. QED
    BY <2>1, <2>2, <2>3, <2>4 DEF TypeOK, reading, writing
<1>2. ASSUME NEW n \in Length, Arrive(n) PROVE TypeOK'
  <2>1. arrived' \in 0 .. 2 * Len(sent) /\ taken \in 0..arrived'
    BY <1>2, SeqTypes DEF Arrive
  <2>2. QED
    BY <1>2, <2>1 DEF TypeOK, Arrive, reading, writing
<1>3. CASE Receive
  <2>1. CASE UNCHANGED peer /\ open' = FALSE
    BY <1>3, <2>1 DEF TypeOK, Receive, reading, writing
  <2>2. CASE UNCHANGED open
    <3> DEFINE f == wire[peer.seen + 1]
    <3>1. peer' = [peer EXCEPT
                     !.seen = @ + 1,
                     !.in = IF f.to # 0 \/ f.ses = 0 THEN 0 ELSE @ + 1,
                     !.out = IF f.to # 0 THEN 0 ELSE @,
                     !.ses = IF f.to # 0 THEN f.to ELSE @,
                     !.answers = IF f.end /\ ~f.event THEN @ + 1 ELSE @]
      BY <1>3, <2>2, Zenon DEF Receive
    <3>2. f \in Outbound
      <4>1. peer.seen \in Nat /\ peer.seen < Len(wire)
        BY <1>3 DEF TypeOK, Receive
      <4>2. QED
        BY <4>1, SeqTypes
    <3>3. /\ peer.seen + 1 \in Nat
          /\ (IF f.to # 0 \/ f.ses = 0 THEN 0 ELSE peer.in + 1) \in Nat
          /\ (IF f.to # 0 THEN 0 ELSE peer.out) \in Nat
          /\ (IF f.to # 0 THEN f.to ELSE peer.ses) \in 0..MaxSession
          /\ (IF f.end /\ ~f.event THEN peer.answers + 1 ELSE peer.answers) \in Nat
      <4>1. f.to \in 0..MaxSession /\ peer.ses \in 0..MaxSession
            /\ peer.seen \in Nat /\ peer.in \in Nat /\ peer.out \in Nat
            /\ peer.answers \in Nat
        BY <3>2 DEF TypeOK, Outbound
      <4> HIDE DEF f
      <4>2. QED
        BY <4>1
    <3>4. peer \in [ses : 0..MaxSession, in : Nat, out : Nat, seen : Nat,
                   requests : Nat, answers : Nat]
      BY DEF TypeOK
    <3> HIDE DEF f
    <3>5. peer' \in [ses : 0..MaxSession, in : Nat, out : Nat, seen : Nat,
                   requests : Nat, answers : Nat]
      BY <3>1, <3>3, <3>4, Zenon
    <3>6. UNCHANGED <<pending, ss, reading, writing, pc, handled, sent, arrived, events>>
      BY <1>3, Zenon DEF Receive
    <3>7. QED
      BY <2>2, <3>5, <3>6 DEF TypeOK, reading, writing
  <2>3. QED
    BY <1>3, <2>1, <2>2, Zenon DEF Receive
<1>4. ASSUME NEW g \in Reader, BeginRead(g) PROVE TypeOK'
  <2>1. ss' \in 0..MaxSession /\ pending' \in 0..MaxSession
    BY <1>4, ConstantFacts DEF TypeOK, BeginRead
  <2>2. dec' \in [ses : 0..MaxSession, ahead : Seq(Nat), out : Seq(Nat)]
    BY <1>4, <2>1, EmptySeq DEF BeginRead, NoDecrypt
  <2>3. rd' \in [Reader -> {"off", "begin", "plain", "buffer", "decrypt"}]
    BY <1>4 DEF TypeOK, BeginRead
  <2>4. QED
    BY <1>4, <2>1, <2>2, <2>3 DEF TypeOK, BeginRead, writing, remote
<1>5. NoDecrypt \in [ses : 0..MaxSession, ahead : Seq(Nat), out : Seq(Nat)]
  BY ConstantFacts, EmptySeq DEF NoDecrypt
<1>6. ASSUME NEW g \in Reader, NEW n \in Length, ReadPlain(g, n) PROVE TypeOK'
  <2>1. taken + n \in 0..arrived /\ taken \in Nat /\ n \in Nat
    <3>1. n \in 1..(arrived - taken)
      BY <1>6 DEF ReadPlain
    <3>2. QED
      BY <3>1, SeqTypes
  <2>2. Units(taken, taken + n) \in Seq(Nat)
    BY <2>1, UnitsProperties
  <2>3. /\ delivered' \in Seq([unit : Nat, raw : BOOLEAN])
        /\ Len(delivered') = Len(delivered) + Len(Units(taken, taken + n))
    BY <1>6, <2>2, DeliverProperties DEF ReadPlain
  <2>4. handled \in 0..Len(delivered')
    BY <2>1, <2>2, <2>3, LenProperties DEF TypeOK
  <2>5. rd' \in [Reader -> {"off", "begin", "plain", "buffer", "decrypt"}]
        /\ dec' = NoDecrypt
    BY <1>6 DEF TypeOK, ReadPlain, Deliver
  <2>6. QED
    BY <1>5, <1>6, <2>1, <2>3, <2>4, <2>5 DEF TypeOK, ReadPlain, writing, remote
<1>7. ASSUME NEW g \in Reader, NEW data \in Seq(Nat), NEW n \in Length,
             ReturnFrom(g, data, n)
      PROVE  /\ delivered' \in Seq([unit : Nat, raw : BOOLEAN])
             /\ handled \in 0..Len(delivered')
             /\ readBuf' \in Seq(Seq(Nat)) /\ Len(readBuf') <= 1
             /\ rd' \in [Reader -> {"off", "begin", "plain", "buffer", "decrypt"}]
             /\ dec' \in [ses : 0..MaxSession, ahead : Seq(Nat), out : Seq(Nat)]
  <2>1. n \in Nat
    BY DEF Length
  <2>2. handled \in 0..Len(delivered) /\ Len(delivered) \in Nat
        /\ rd \in [Reader -> {"off", "begin", "plain", "buffer", "decrypt"}]
    BY SeqTypes DEF TypeOK
  <2>3. /\ delivered' \in Seq([unit : Nat, raw : BOOLEAN])
        /\ Len(delivered') = Len(delivered) + n
        /\ readBuf' \in Seq(Seq(Nat)) /\ Len(readBuf') <= 1
        /\ rd' = [rd EXCEPT ![g] = "off"] /\ dec' = NoDecrypt
    BY <1>7, <2>1, ReturnFromProperties
  <2>4. handled \in 0..Len(delivered')
    BY <2>1, <2>2, <2>3
  <2>5. QED
    BY <1>5, <2>2, <2>3, <2>4
<1>8. ASSUME NEW g \in Reader, NEW n \in Length, ReadBuffered(g, n) PROVE TypeOK'
  <2>1. readBuf # <<>>
    BY <1>8 DEF ReadBuffered, Turns
  <2>2. readBuf[1] \in Seq(Nat)
    BY <2>1, SeqTypes
  <2>3. QED
    BY <1>7, <1>8, <2>2 DEF TypeOK, ReadBuffered, writing, remote
<1>9. ASSUME NEW g \in Reader, ReadEOF(g) PROVE TypeOK'
  <2>1. readBuf' \in Seq(Seq(Nat)) /\ Len(readBuf') <= 1
    BY <1>9, EmptySeq DEF ReadEOF
  <2>2. QED
    BY <1>5, <1>9, <2>1 DEF TypeOK, ReadEOF, writing, remote
<1>10. ASSUME NEW g \in Reader, Fill(g) PROVE TypeOK'
  <2>1. taken \in Nat /\ arrived \in Nat /\ taken <= arrived
    BY SeqTypes
  <2>2. dec.ahead \o Units(taken, arrived) \in Seq(Nat)
    BY <2>1, SeqTypes, UnitsProperties, ConcatProperties
  <2>3. dec' \in [ses : 0..MaxSession, ahead : Seq(Nat), out : Seq(Nat)]
    BY <1>10, <2>2 DEF TypeOK, Fill
  <2>4. /\ taken' \in 0..arrived
        /\ UNCHANGED <<pending, ss, readBuf, inCount, rd, delivered, writing, pc,
                       handled, remote, events, open>>
    BY <1>10, <2>1 DEF Fill
  <2>5. QED
    BY <2>3, <2>4 DEF TypeOK, writing, remote
<1>11. ASSUME NEW g \in Reader, NEW n \in Length, DecryptFrame(g, n) PROVE TypeOK'
  <2>1. inCount' \in [Session -> Nat]
    <3>1. inCount' = [inCount EXCEPT ![dec.ses] = @ + 1]
      BY <1>11 DEF DecryptFrame
    <3>2. inCount \in [Session -> Nat] /\ ss \in 0..MaxSession
      BY DEF TypeOK
    <3>3. dec.ses \in Session
      BY <1>11, <3>2, ConstantFacts DEF DecryptFrame, Turns, Session
    <3>4. inCount[dec.ses] + 1 \in Nat
      BY <3>2, <3>3
    <3>5. QED
      BY <3>1, <3>2, <3>3, <3>4
  <2> DEFINE first == SubSeq(dec.ahead, 1, 2)
             rest == SubSeq(dec.ahead, 3, Len(dec.ahead))
  <2>2. first \in Seq(Nat) /\ rest \in Seq(Nat)
    <3>1. Len(dec.ahead) >= 2 /\ dec.ahead \in Seq(Nat) /\ Len(dec.ahead) \in Nat
      BY <1>11, SeqTypes DEF DecryptFrame
    <3>2. \A i \in 1..Len(dec.ahead) : dec.ahead[i] \in Nat
      BY <3>1, ElementOfSeq
    <3>3. 1 \in Int /\ 2 \in Int /\ 3 \in Int /\ Len(dec.ahead) \in Int
          /\ (\A i \in 1..2 : dec.ahead[i] \in Nat)
          /\ (\A i \in 3..Len(dec.ahead) : dec.ahead[i] \in Nat)
      BY <3>1, <3>2
    <3>4. QED
      BY <3>3, SubSeqProperties
  <2>3. dec.out \o first \in Seq(Nat)
    BY <2>2, SeqTypes, ConcatProperties
  <2> HIDE DEF first, rest
  <2>4. UNCHANGED <<pending, ss, taken, writing, pc, handled, remote, events>>
    BY <1>11, Zenon DEF DecryptFrame
  <2>5. CASE open' = FALSE /\ UNCHANGED <<rd, dec, readBuf, delivered>>
    BY <2>1, <2>4, <2>5 DEF TypeOK, writing, remote
  <2>6. CASE UNCHANGED <<open, rd, readBuf, delivered>>
             /\ dec' = [dec EXCEPT !.out = dec.out \o first, !.ahead = rest]
    <3>1. dec \in [ses : 0..MaxSession, ahead : Seq(Nat), out : Seq(Nat)]
      BY DEF TypeOK
    <3>2. dec' \in [ses : 0..MaxSession, ahead : Seq(Nat), out : Seq(Nat)]
      BY <2>2, <2>3, <2>6, <3>1, Zenon
    <3>3. QED
      BY <2>1, <2>4, <2>6, <3>2 DEF TypeOK, writing, remote
  <2>7. CASE UNCHANGED open /\ ReturnFrom(g, dec.out \o first, n)
    BY <1>7, <2>1, <2>3, <2>4, <2>7 DEF TypeOK, writing, remote
  <2>8. QED
    BY <1>11, <2>5, <2>6, <2>7, Zenon DEF DecryptFrame, first, rest
<1>12. ASSUME NEW i \in 1..Len(delivered), StartHandler(i) PROVE TypeOK'
  <2>1. i \in 0..Len(delivered)
    BY SeqTypes
  <2>2. rd' \in [Reader -> {"off", "begin", "plain", "buffer", "decrypt"}]
    BY <1>12 DEF TypeOK, StartHandler
  <2>3. QED
    BY <1>12, <2>1, <2>2 DEF TypeOK, StartHandler, writing, remote
<1>13. ASSUME NEW n \in 1..MaxOut, Handle(n) PROVE TypeOK'
  <2> DEFINE f == sent[FrameOf(delivered[handled].unit)]
             to == IF f.verify THEN f.ses + 1 ELSE 0
             w == [IdleWriter EXCEPT !.at = "begin", !.left = n, !.to = to]
  <2>1. to \in 0..MaxSession
    <3>1. handled # 0 /\ f = sent[Handled]
      BY <1>13 DEF Handle, Stream, Handled
    <3>2. f \in Inbound /\ Handled \in DOMAIN sent
      BY <3>1, HandledFrame, SeqTypes
    <3>3. f.verify => f.ses < MaxSession
      BY <3>1, <3>2 DEF Counting
    <3>4. f.ses \in 0..MaxSession
      BY <3>2 DEF Inbound
    <3> HIDE DEF f
    <3>5. QED
      BY <3>3, <3>4, ConstantFacts
  <2> HIDE DEF to
  <2>2. w \in WriterState
    <3>1. n \in 0..MaxOut /\ IdleWriter \in WriterState
      BY WriterTypes, ConstantFacts
    <3>2. QED
      BY <2>1, <3>1, Zenon DEF WriterState
  <2> HIDE DEF w
  <2>3. wr' = [wr EXCEPT !["serve"] = w] /\ pending' \in {pending, to} /\ pc' = "flush"
        /\ UNCHANGED <<ss, reading, outCount, handled, remote, wire, events, open>>
    BY <1>13 DEF Handle, w, to
  <2>4. wr' \in [Writer -> WriterState]
    BY <2>2, <2>3, WriterTypes
  <2>5. QED
    BY <2>1, <2>3, <2>4 DEF TypeOK, WriterState, reading, remote
<1>14. CASE AbortRead
  BY <1>5, <1>14 DEF TypeOK, AbortRead, writing, remote
<1>15. ASSUME NEW w \in Notifier, NEW n \in 1..MaxOut, StartEvent(w, n) PROVE TypeOK'
  <2>1. [IdleWriter EXCEPT !.at = "begin", !.left = n] \in WriterState
    <3>1. n \in 0..MaxOut /\ IdleWriter \in WriterState
      BY WriterTypes, ConstantFacts
    <3>2. QED
      BY <3>1, Zenon DEF WriterState
  <2>2. wr' \in [Writer -> WriterState]
    BY <1>15, <2>1, WriterTypes DEF StartEvent
  <2>3. events' \in 0..MaxEvent
    <3>1. events \in 0..MaxEvent /\ events < MaxEvent /\ events' = events + 1
      BY <1>15 DEF TypeOK, StartEvent
    <3>2. QED
      BY <3>1, ConstantFacts
  <2>4. QED
    BY <1>15, <2>2, <2>3 DEF TypeOK, StartEvent, WriterState, reading, remote
<1>16. ASSUME NEW w \in Writer, BeginWrite(w) PROVE TypeOK'
  <2> DEFINE frame == [OutFrame(w, 0, 0) EXCEPT !.end = TRUE]
             frames == <<frame>>
  <2>1. frame \in Outbound
    <3>1. 0 \in 0..MaxSession /\ 0 \in Nat
      BY ConstantFacts
    <3>2. QED
      BY <3>1, OutFrameType, Zenon
  <2> HIDE DEF frame
  <2>a. frames \in Seq(Outbound)
    BY <2>1
  <2> HIDE DEF frames
  <2>2. /\ [wr[w] EXCEPT !.at = "write", !.left = 0, !.frames = frames] \in WriterState
        /\ [wr[w] EXCEPT !.at = "encrypt", !.ses = ss] \in WriterState
    <3>1. ss \in 0..MaxSession
      BY DEF TypeOK
    <3>2. wr[w] \in WriterState /\ 0 \in 0..MaxOut
      BY WriterTypes, ConstantFacts
    <3>3. QED
      BY <2>a, <3>1, <3>2, Zenon DEF WriterState
  <2>3. wr' = [wr EXCEPT ![w] =
                  IF ss = 0 THEN [wr[w] EXCEPT !.at = "write", !.left = 0, !.frames = frames]
                            ELSE [wr[w] EXCEPT !.at = "encrypt", !.ses = ss]]
    BY <1>16, Zenon DEF BeginWrite, frames, frame
  <2>4. wr' \in [Writer -> WriterState]
    BY <2>2, <2>3, WriterTypes, Zenon
  <2>5. UNCHANGED <<pending, ss, reading, outCount, pc, handled, remote, wire, events, open>>
    BY <1>16, Zenon DEF BeginWrite
  <2>6. QED
    BY <2>4, <2>5 DEF TypeOK, WriterState, reading, remote
<1>17. ASSUME NEW w \in Writer, EncryptFrame(w) PROVE TypeOK'
  <2> DEFINE k == wr[w].ses
             new == OutFrame(w, k, outCount[k])
  <2>1. wr[w].at = "encrypt" /\ k \in Session /\ outCount[k] \in Nat
        /\ wr[w].left \in 1..MaxOut
    <3>1. wr[w].at = "encrypt" /\ k # 0 /\ wr[w].left # 0
      BY <1>17 DEF EncryptFrame, Numbered, Writing
    <3>2. k \in Session /\ wr[w].left \in 1..MaxOut
      BY <3>1, WriterTypes, ConstantFacts DEF Session
    <3>3. outCount \in [Session -> Nat]
      BY DEF TypeOK
    <3>4. QED
      BY <3>1, <3>2, <3>3
  <2>2. new \in Outbound
    <3>1. k \in 0..MaxSession
      BY WriterTypes
    <3>2. QED
      BY <2>1, <3>1, OutFrameType
  <2> HIDE DEF new
  <2>3. Append(wr[w].frames, new) \in Seq(Outbound)
    BY <2>2, WriterTypes, AppendProperties
  <2>4. wr' = [wr EXCEPT ![w].frames = Append(@, new), ![w].left = @ - 1,
                         ![w].at = IF wr[w].left = 1 THEN "write" ELSE "encrypt"]
    BY <1>17, Zenon DEF EncryptFrame, new
  <2>5. wr[w].left - 1 \in 0..MaxOut
        /\ (IF wr[w].left = 1 THEN "write" ELSE "encrypt")
              \in {"idle", "begin", "encrypt", "write"}
    BY <2>1, ConstantFacts
  <2>6. wr' \in [Writer -> WriterState]
    BY <2>3, <2>4, <2>5, WriterTypes, ZenonT(40) DEF WriterState
  <2>7. outCount' \in [Session -> Nat]
        /\ UNCHANGED <<pending, ss, reading, pc, handled, remote, wire, events, open>>
    <3>1. outCount' = [outCount EXCEPT ![k] = @ + 1]
          /\ UNCHANGED <<pending, ss, reading, pc, handled, remote, wire, events, open>>
      BY <1>17, Zenon DEF EncryptFrame
    <3>2. outCount \in [Session -> Nat]
      BY DEF TypeOK
    <3>3. QED
      BY <2>1, <3>1, <3>2
  <2>8. QED
    BY <2>6, <2>7 DEF TypeOK, WriterState, reading, remote
<1>18. ASSUME NEW w \in Writer, WriteSocket(w) PROVE TypeOK'
  <2>1. wire' \in Seq(Outbound)
    BY <1>18, WriterTypes, ConcatProperties DEF TypeOK, WriteSocket
  <2>2. wr' \in [Writer -> WriterState]
    BY <1>18, WriterTypes DEF WriteSocket
  <2>3. QED
    BY <1>18, <2>1, <2>2 DEF TypeOK, WriteSocket, WriterState, reading, remote
<1>19. CASE UNCHANGED vars
  BY <1>19 DEF TypeOK, vars
<1>20. QED
  BY <1>1, <1>2, <1>3, <1>4, <1>6, <1>8, <1>9, <1>10, <1>11, <1>12, <1>13,
     <1>14, <1>15, <1>16, <1>17, <1>18, <1>19
     DEF Next, Read, Write


-----------------------------------------------------------------------------
(* The readers take turns *)

LEMMA TurnsStep == IInv /\ [Next]_vars => Turns'
<1> SUFFICES ASSUME IInv, [Next]_vars PROVE Turns'
  OBVIOUS
<1>a. /\ Turns
      /\ rd \in [Reader -> {"off", "begin", "plain", "buffer", "decrypt"}]
      /\ "serve" \in Reader /\ "background" \in Reader
  BY DEF IInv, TypeOK, Reader
<1>b. \A g \in Reader : g = "serve" \/ g = "background"
  BY DEF Reader
<1>1. CASE UNCHANGED <<rd, pc, ss, readBuf, dec>>
  BY <1>a, <1>1 DEF Turns
<1>2. ASSUME \/ \E n \in 1..MaxIn, exact, verify \in BOOLEAN : Send(n, exact, verify)
             \/ \E n \in Length : Arrive(n)
             \/ Receive
             \/ \E w \in Notifier, n \in 1..MaxOut : StartEvent(w, n)
             \/ \E w \in Writer : BeginWrite(w) \/ EncryptFrame(w)
             \/ UNCHANGED vars
      PROVE  Turns'
  <2>1. UNCHANGED <<rd, pc, ss, readBuf, dec>>
    BY <1>2, Zenon DEF Send, Arrive, Receive, StartEvent, BeginWrite,
                       EncryptFrame, vars, reading
  <2>2. QED
    BY <1>1, <2>1
<1>3. ASSUME NEW w \in Writer, WriteSocket(w) PROVE Turns'
  <2>1. CASE w = "serve"
    <3>1. wr["serve"] # IdleWriter
      BY <1>3, <2>1 DEF WriteSocket, IdleWriter
    <3>2. pc \notin {"handle", "read", "abort"}
      BY <1>3, <3>1 DEF IInv, Upgrading, StartingResponse, WriteSocket
    <3>3. pc' = "abort" /\ UNCHANGED <<rd, ss, readBuf, dec>>
      BY <1>3, <2>1 DEF WriteSocket, reading
    <3>4. QED
      BY <1>a, <3>2, <3>3 DEF Turns
  <2>2. CASE w # "serve"
    BY <1>1, <1>3, <2>2 DEF WriteSocket, reading
  <2>3. QED
    BY <2>1, <2>2
<1>4. ASSUME NEW g \in Reader, BeginRead(g) PROVE Turns'
  <2>1. /\ dec' = [NoDecrypt EXCEPT !.ses = ss']
        /\ rd' = [rd EXCEPT ![g] = IF ss' = 0 THEN "plain"
                               ELSE IF readBuf # <<>> THEN "buffer" ELSE "decrypt"]
        /\ UNCHANGED <<readBuf, pc>>
        /\ IF g = "serve" THEN pc = "read" /\ rd[g] = "off" ELSE rd[g] = "begin"
        /\ ss' = 0 => ss = 0
    BY <1>4 DEF BeginRead, MayRead, writing, remote
  <2>2. dec'.ses = ss' /\ dec'.ahead = <<>> /\ dec'.out = <<>>
    BY <2>1 DEF NoDecrypt
  <2>3. \A h \in Reader : h # g => rd[h] = "off"
    BY <1>a, <1>b, <2>1 DEF Turns
  <2>4. QED
    BY <1>a, <1>b, <2>1, <2>2, <2>3 DEF Turns
<1>5. ASSUME NEW g \in Reader, rd[g] \notin {"off", "begin"},
             rd' = [rd EXCEPT ![g] = "off"], dec' = NoDecrypt, UNCHANGED <<ss, pc>>,
             ss = 0 => UNCHANGED readBuf
      PROVE  Turns'
  <2>1. \A h \in Reader : h # g => rd[h] = "off"
    BY <1>a, <1>b, <1>5 DEF Turns
  <2>2. QED
    BY <1>a, <1>b, <1>5, <2>1 DEF Turns, NoDecrypt
<1>6. ASSUME NEW g \in Reader,
             \/ \E n \in Length : ReadPlain(g, n) \/ ReadBuffered(g, n)
             \/ ReadEOF(g)
      PROVE  Turns'
  <2>1. rd[g] \in {"plain", "buffer"}
    BY <1>6 DEF ReadPlain, ReadBuffered, ReadEOF
  <2>2. rd[g] = "plain" => UNCHANGED readBuf
    BY <1>6 DEF ReadPlain, ReadBuffered, ReadEOF
  <2>3. rd[g] = "buffer" => ss # 0
    BY <1>a DEF Turns
  <2>4. rd' = [rd EXCEPT ![g] = "off"] /\ dec' = NoDecrypt /\ UNCHANGED <<ss, pc>>
    BY <1>6 DEF ReadPlain, ReadBuffered, ReadEOF, ReturnFrom, Deliver
  <2>5. QED
    BY <1>5, <2>1, <2>2, <2>3, <2>4
<1>7. ASSUME NEW g \in Reader, Fill(g) PROVE Turns'
  <2>1. dec'.ses = dec.ses /\ UNCHANGED <<rd, pc, ss, readBuf>> /\ rd[g] = "decrypt"
    BY <1>7 DEF Fill, IInv, TypeOK
  <2>2. QED
    BY <1>a, <2>1 DEF Turns
<1>8. ASSUME NEW g \in Reader, NEW n \in Length, DecryptFrame(g, n) PROVE Turns'
  <2>1. UNCHANGED <<ss, pc>> /\ rd[g] = "decrypt"
    BY <1>8, Zenon DEF DecryptFrame
  <2>2. CASE UNCHANGED <<rd, dec, readBuf>>
    BY <1>1, <2>1, <2>2
  <2>3. CASE /\ dec' = [dec EXCEPT !.out = dec.out \o SubSeq(dec.ahead, 1, 2),
                                   !.ahead = SubSeq(dec.ahead, 3, Len(dec.ahead))]
             /\ UNCHANGED <<rd, readBuf>>
    <3>1. dec'.ses = dec.ses
      BY <2>3
    <3>2. QED
      BY <1>a, <2>1, <2>3, <3>1 DEF Turns
  <2>4. CASE ReturnFrom(g, dec.out \o SubSeq(dec.ahead, 1, 2), n)
    <3>1. ss # 0
      BY <1>a, <2>1 DEF Turns
    <3>2. QED
      BY <1>5, <2>1, <2>4, <3>1 DEF ReturnFrom, Deliver
  <2>5. QED
    BY <1>8, <2>2, <2>3, <2>4, Zenon DEF DecryptFrame
<1>9. ASSUME NEW i \in 1..Len(delivered), StartHandler(i) PROVE Turns'
  BY <1>a, <1>b, <1>9 DEF Turns, StartHandler
<1>10. ASSUME NEW n \in 1..MaxOut, Handle(n) PROVE Turns'
  BY <1>a, <1>b, <1>10 DEF Turns, Handle, reading
<1>11. CASE AbortRead
  BY <1>a, <1>b, <1>11 DEF Turns, AbortRead, NoDecrypt
<1>12. QED
  BY <1>2, <1>3, <1>4, <1>6, <1>7, <1>8, <1>9, <1>10, <1>11
     DEF Next, Read, Write


-----------------------------------------------------------------------------
(* Units keep their order *)

LEMMA Positions ==
    ASSUME TypeOK, Stream
    PROVE  /\ Last \in 0..taken /\ Kept \in Nat /\ Last <= Kept
           /\ Gone \in 0..taken /\ Kept + Len(dec.out) <= Gone
           /\ Kept <= Gone /\ Kept <= taken
           /\ taken \in Nat /\ taken <= 2 * Len(sent)
           /\ \A i \in 1..Len(delivered) : delivered[i].unit <= Last
           /\ readBuf = <<>> => Kept = Last
           /\ readBuf # <<>> => Kept = Last + Len(readBuf[1])
<1>1. /\ Len(delivered) \in Nat /\ DOMAIN delivered = 1..Len(delivered)
      /\ \A i \in 1..Len(delivered) : delivered[i].unit \in 1..taken
      /\ Len(dec.ahead) \in Nat /\ Len(dec.out) \in Nat
      /\ Len(sent) \in Nat /\ arrived \in 0 .. 2 * Len(sent) /\ taken \in 0..arrived
  BY SeqTypes DEF Stream, Ordered
<1>2. Last \in 0..taken
  <2>1. CASE delivered = <<>>
    BY <1>1, <2>1 DEF Last
  <2>2. CASE delivered # <<>>
    <3>1. Len(delivered) \in 1..Len(delivered)
      BY <1>1, <2>2, EmptySeq DEF TypeOK
    <3>2. QED
      BY <1>1, <2>2, <3>1 DEF Last
  <2>3. QED
    BY <2>1, <2>2
<1>3. ASSUME NEW i \in 1..Len(delivered) PROVE delivered[i].unit <= Last
  <2>1. delivered # <<>>
    BY <1>1, EmptySeq
  <2>2. /\ Last = delivered[Len(delivered)].unit
        /\ Len(delivered) \in 1..Len(delivered)
    BY <1>1, <2>1 DEF Last
  <2>3. Ordered
    BY DEF Stream
  <2>4. CASE i = Len(delivered)
    BY <1>2, <2>2, <2>4
  <2>5. CASE i # Len(delivered)
    <3>1. i < Len(delivered)
      <4>1. i \in 1..Len(delivered) /\ Len(delivered) \in Nat
        BY <1>1
      <4>2. QED
        BY <2>5, <4>1
    <3>2. delivered[i].unit < delivered[Len(delivered)].unit
      BY <2>2, <2>3, <3>1 DEF Ordered
    <3>3. delivered[i].unit \in 1..taken
      BY <1>1
    <3>4. QED
      BY <1>2, <2>2, <3>2, <3>3
  <2>6. QED
    BY <2>4, <2>5
<1>4. /\ Kept \in Nat /\ Last <= Kept
      /\ readBuf = <<>> => Kept = Last
      /\ readBuf # <<>> => Kept = Last + Len(readBuf[1])
  BY <1>1, <1>2, SeqTypes DEF Kept
<1>5. Kept + Len(dec.out) <= Gone
  BY DEF Stream
<1>6. Gone \in 0..taken
  <2>1. Gone \in Int /\ Gone <= taken
    BY <1>1 DEF Gone
  <2>2. QED
    BY <1>1, <1>4, <1>5, <2>1
<1>7. Kept <= Gone /\ Kept <= taken
  BY <1>1, <1>4, <1>5, <1>6
<1>8. QED
  BY <1>1, <1>2, <1>3, <1>4, <1>5, <1>6, <1>7


\* Delivering consecutive units of what is left keeps the order, and skips full
\* frames only if those before the first of them are full.
LEMMA DeliverMore ==
    ASSUME TypeOK, Stream, TypeOK', OnlyFullFramesSkipped, UNCHANGED sent,
           NEW n \in Nat, n # 0, NEW first \in Nat, Last <= first,
           first + n <= taken', taken <= taken',
           Len(delivered') = Len(delivered) + n,
           \A i \in 1..Len(delivered) : delivered'[i] = delivered[i],
           \A i \in 1..n : delivered'[Len(delivered) + i].unit = first + i
    PROVE  /\ Ordered'
           /\ Last' = first + n
           /\ (\A u \in Last + 1 .. first : sent[FrameOf(u)].full)
                 => OnlyFullFramesSkipped'
<1>1. /\ Len(delivered) \in Nat /\ DOMAIN delivered = 1..Len(delivered)
      /\ \A i \in 1..Len(delivered) : delivered[i].unit \in 1..taken
      /\ taken \in Nat /\ taken' \in Nat
      /\ DOMAIN delivered' = 1 .. Len(delivered) + n
  <2>1. /\ delivered' \in Seq([unit : Nat, raw : BOOLEAN])
        /\ arrived' \in 0 .. 2 * Len(sent') /\ taken' \in 0..arrived'
        /\ sent' \in Seq(Inbound)
    BY DEF TypeOK
  <2>2. DOMAIN delivered' = 1..Len(delivered') /\ Len(sent') \in Nat
    BY <2>1, LenProperties
  <2>3. taken' \in Nat
    BY <2>1, <2>2
  <2>4. Ordered
    BY DEF Stream
  <2>5. taken \in Nat /\ Len(delivered) \in Nat
        /\ DOMAIN delivered = 1..Len(delivered)
    BY SeqTypes, Positions
  <2>6. QED
    BY <2>2, <2>3, <2>4, <2>5 DEF Ordered
<1>2. /\ Last \in 0..taken
      /\ \A i \in 1..Len(delivered) : delivered[i].unit <= Last
  BY Positions
<1> DEFINE m == Len(delivered)
<1>3. ASSUME NEW i \in m + 1 .. m + n
      PROVE  delivered'[i].unit = first + (i - m) /\ i - m \in 1..n
  <2>1. i - m \in 1..n /\ m + (i - m) = i
    BY <1>1
  <2>2. QED
    BY <2>1
<1> HIDE DEF m
<1>4. m \in Nat /\ m = Len(delivered)
  BY <1>1 DEF m
<1>5. Ordered'
  <2>1. ASSUME NEW i \in 1 .. m + n PROVE delivered'[i].unit \in 1..taken'
    <3>1. CASE i <= m
      BY <1>1, <1>4, <3>1
    <3>2. CASE i > m
      BY <1>1, <1>3, <1>4, <3>2
    <3>3. QED
      BY <1>4, <3>1, <3>2
  <2>2. ASSUME NEW i \in 1 .. m + n, NEW j \in 1 .. m + n, i < j
        PROVE  delivered'[i].unit < delivered'[j].unit
    <3>1. CASE j <= m
      <4>1. Ordered
        BY DEF Stream
      <4>2. i \in 1..Len(delivered) /\ j \in 1..Len(delivered)
        BY <1>4, <2>2, <3>1
      <4>3. QED
        BY <2>2, <4>1, <4>2 DEF Ordered
    <3>2. CASE i <= m /\ j > m
      <4>1. delivered'[i].unit <= Last /\ delivered'[i].unit \in Nat
        BY <1>1, <1>2, <1>4, <3>2
      <4>2. delivered'[j].unit = first + (j - m) /\ j - m \in 1..n
        BY <1>3, <1>4, <3>2
      <4>3. QED
        BY <1>1, <1>2, <4>1, <4>2
    <3>3. CASE i > m
      <4>1. /\ delivered'[i].unit = first + (i - m)
            /\ delivered'[j].unit = first + (j - m)
        BY <1>3, <1>4, <2>2, <3>3
      <4>2. QED
        BY <1>4, <2>2, <4>1
    <3>4. QED
      BY <1>4, <2>2, <3>1, <3>2, <3>3
  <2>3. QED
    BY <1>1, <1>4, <2>1, <2>2 DEF Ordered
<1>6. Last' = first + n
  <2>1. m + n \in m + 1 .. m + n /\ Len(delivered') = m + n /\ m + n # 0
    BY <1>4
  <2>2. delivered'[m + n].unit = first + n
    BY <1>3, <1>4, <2>1
  <2>3. delivered' # <<>>
    BY <2>1, EmptySeq
  <2>4. QED
    BY <2>1, <2>2, <2>3 DEF Last
<1>7. ASSUME \A u \in Last + 1 .. first : sent[FrameOf(u)].full,
             NEW i \in 1 .. m + n
      PROVE  LET before == IF i = 1 THEN 0 ELSE delivered'[i - 1].unit IN
             /\ delivered'[i].unit > before
             /\ \A u \in before + 1 .. delivered'[i].unit - 1 : sent[FrameOf(u)].full
  <2>1. CASE i <= m
    <3>1. delivered'[i] = delivered[i] /\ (i # 1 => delivered'[i - 1] = delivered[i - 1])
      BY <1>4, <2>1
    <3>2. i \in DOMAIN delivered
      BY <1>1, <1>4, <2>1
    <3>3. QED
      BY <3>1, <3>2 DEF OnlyFullFramesSkipped
  <2>2. CASE i = m + 1
    <3>1. (IF i = 1 THEN 0 ELSE delivered'[i - 1].unit) = Last
      <4>1. CASE m = 0
        <5>1. delivered = <<>>
          BY <1>4, <4>1, EmptySeq DEF TypeOK
        <5>2. i = 1 /\ Last = 0
          BY <2>2, <4>1, <5>1 DEF Last
        <5>3. QED
          BY <5>2
      <4>2. CASE m # 0
        <5>1. delivered # <<>> /\ i # 1 /\ i - 1 = m /\ m \in 1..m
          BY <1>4, <2>2, <4>2, EmptySeq
        <5>2. QED
          BY <1>4, <5>1 DEF Last
      <4>3. QED
        BY <4>1, <4>2
    <3>2. delivered'[i].unit = first + 1
      BY <1>3, <1>4, <2>2
    <3>3. QED
      BY <1>1, <1>2, <1>7, <3>1, <3>2
  <2>3. CASE i > m + 1
    <3>1. i - 1 \in m + 1 .. m + n /\ i \in m + 1 .. m + n /\ i # 1
      BY <1>4, <2>3
    <3>2. /\ delivered'[i].unit = first + (i - m)
          /\ delivered'[i - 1].unit = first + (i - 1 - m)
      BY <1>3, <3>1
    <3>3. QED
      BY <1>4, <3>1, <3>2
  <2>4. QED
    BY <1>4, <2>1, <2>2, <2>3
<1>8. QED
  BY <1>1, <1>4, <1>5, <1>6, <1>7 DEF OnlyFullFramesSkipped


\* Of the data that ReturnFrom gets, which are the units after position first,
\* nothing is lost and nothing changes its place.
LEMMA ReturnFromOrder ==
    ASSUME IInv, TypeOK', UNCHANGED sent, taken <= taken',
           NEW g \in Reader, NEW data \in Seq(Nat), NEW n \in Nat,
           ReturnFrom(g, data, n),
           NEW first \in Nat, Last <= first, first + Len(data) <= taken',
           \A i \in 1..Len(data) : data[i] = first + i
    PROVE  /\ Ordered'
           /\ readBuf' # <<>> =>
                 \A i \in DOMAIN readBuf'[1] : readBuf'[1][i] = Last' + i
           /\ Kept' = first + Len(data)
           /\ (\A u \in Last + 1 .. first : sent[FrameOf(u)].full)
                 => OnlyFullFramesSkipped'
<1>a. TypeOK /\ Stream /\ OnlyFullFramesSkipped
  BY DEF IInv
<1>b. n \in 1..Len(data) /\ Len(data) \in Nat
  BY <1>a, ReturnFromProperties, LenProperties
<1>c. /\ Len(delivered') = Len(delivered) + n
      /\ \A i \in 1..Len(delivered) : delivered'[i] = delivered[i]
      /\ \A i \in 1..n : delivered'[Len(delivered) + i].unit = data[i]
  BY <1>a, ReturnFromProperties
<1>d. /\ readBuf' \in Seq(Seq(Nat))
      /\ readBuf' = <<>> => n = Len(data)
      /\ readBuf' # <<>> => Len(readBuf'[1]) = Len(data) - n
  BY <1>a, ReturnFromProperties
<1>e. readBuf' # <<>> => \A i \in 1 .. Len(data) - n : readBuf'[1][i] = data[n + i]
  BY <1>a, ReturnFromProperties
<1>2. taken' \in Nat
  <2>1. /\ arrived' \in 0 .. 2 * Len(sent') /\ taken' \in 0..arrived'
        /\ sent' \in Seq(Inbound)
    BY DEF TypeOK
  <2>2. Len(sent') \in Nat
    BY <2>1, LenProperties
  <2>3. QED
    BY <2>1, <2>2
<1>3. n # 0 /\ first + n <= taken'
  BY <1>b, <1>2
<1>f. ASSUME NEW i \in 1..n
      PROVE  delivered'[Len(delivered) + i].unit = first + i
  <2>1. delivered'[Len(delivered) + i].unit = data[i]
    BY <1>c
  <2>2. i \in 1..Len(data)
    BY <1>b
  <2>3. QED
    BY <2>1, <2>2
<1>4. /\ Ordered'
      /\ Last' = first + n
      /\ (\A u \in Last + 1 .. first : sent[FrameOf(u)].full)
            => OnlyFullFramesSkipped'
  BY <1>a, <1>c, <1>f, <1>3, DeliverMore
<1>5. Kept' = first + Len(data)
  <2>1. CASE readBuf' = <<>>
    BY <1>d, <1>4, <2>1 DEF Kept
  <2>2. CASE readBuf' # <<>>
    <3>1. Kept' = (first + n) + (Len(data) - n)
      BY <1>d, <1>4, <2>2 DEF Kept
    <3>2. QED
      BY <1>b, <3>1
  <2>3. QED
    BY <2>1, <2>2
<1>6. ASSUME readBuf' # <<>>
      PROVE  \A i \in DOMAIN readBuf'[1] : readBuf'[1][i] = Last' + i
  <2>1. readBuf'[1] \in Seq(Nat)
    <3>1. Len(readBuf') \in Nat \ {0}
      BY <1>d, <1>6, EmptySeq
    <3>2. 1 \in 1..Len(readBuf')
      BY <3>1
    <3>3. QED
      BY <1>d, <3>2, ElementOfSeq
  <2>2. DOMAIN readBuf'[1] = 1 .. Len(data) - n
    BY <1>d, <1>6, <2>1, LenProperties
  <2>3. ASSUME NEW i \in 1 .. Len(data) - n
        PROVE  readBuf'[1][i] = Last' + i
    <3>1. n + i \in 1..Len(data)
      BY <1>b
    <3>2. readBuf'[1][i] = data[n + i]
      BY <1>e, <1>6
    <3>3. data[n + i] = first + (n + i)
      BY <3>1
    <3>4. QED
      BY <1>b, <1>4, <3>2, <3>3
  <2>4. QED
    BY <2>2, <2>3
<1>7. QED
  BY <1>4, <1>5, <1>6

\* Parts of Stream that a step can disturb on their own.
Buffered ==
    readBuf # <<>> => \A i \in DOMAIN readBuf[1] : readBuf[1][i] = Last + i

Decrypting ==
    /\ \A i \in DOMAIN dec.ahead : dec.ahead[i] = Gone + i
    /\ \A i \in DOMAIN dec.out : dec.out[i] = Gone - Len(dec.out) + i
    /\ Kept + Len(dec.out) <= Gone

AtRequest ==
    /\ handled # 0 => /\ ~IsFirst(delivered[handled].unit)
                      /\ sent[Handled].end
    /\ pc = "handle" => handled # 0

LEMMA StreamParts ==
    Stream <=> Ordered /\ Buffered /\ Decrypting /\ AtRequest /\ (ss = 0 => Kept = taken)
  BY DEF Stream, Buffered, Decrypting, AtRequest

\* Without a Decrypt its buffers are empty.
LEMMA NothingAhead ==
    ASSUME IInv, \A g \in Reader : rd[g] # "decrypt"
    PROVE  dec.ahead = <<>> /\ dec.out = <<>> /\ Gone = taken
<1>1. dec.ahead = <<>> /\ dec.out = <<>>
  BY DEF IInv, Turns
<1>2. Gone = taken
  BY <1>1, SeqTypes, EmptySeq, Positions DEF IInv, Gone
<1>3. QED
  BY <1>1, <1>2

LEMMA NoDecryptProperties ==
    ASSUME TypeOK', dec'.ahead = <<>>, dec'.out = <<>>,
           Kept' \in Nat, Kept' <= taken'
    PROVE  Gone' = taken' /\ Decrypting'
<1>1. taken' \in Nat
  <2>1. /\ arrived' \in 0 .. 2 * Len(sent') /\ taken' \in 0..arrived'
        /\ sent' \in Seq(Inbound)
    BY DEF TypeOK
  <2>2. Len(sent') \in Nat
    BY <2>1, LenProperties
  <2>3. QED
    BY <2>1, <2>2
<1>2. \A s : s = <<>> => Len(s) = 0 /\ DOMAIN s = {}
  OBVIOUS
<1>3. Len(dec'.ahead) = 0 /\ Len(dec'.out) = 0
  BY <1>2
<1>4. DOMAIN dec'.ahead = {} /\ DOMAIN dec'.out = {}
  BY <1>2
<1>5. \A x \in Nat : x - 0 = x /\ x + 0 = x
  OBVIOUS
<1>6. Gone' = taken'
  BY <1>1, <1>3, <1>5, Zenon DEF Gone
<1>7. Kept' + Len(dec'.out) <= Gone'
  BY <1>3, <1>5, <1>6, Zenon
<1>8. QED
  BY <1>4, <1>6, <1>7 DEF Decrypting


\* A frame that Decrypt opens is of the current session, and whatever has been
\* taken before it and will not be delivered were full frames.
LEMMA Verified ==
    ASSUME IInv, open, NEW g \in Reader, rd[g] = "decrypt", Len(dec.ahead) >= 2,
           Verifies(inCount[dec.ses])
    PROVE  /\ dec.ahead[1] = Gone + 1 /\ dec.ahead[2] = Gone + 2
           /\ Gone + 2 <= taken
           /\ FrameOf(dec.ahead[1]) \in 1..Len(sent)
           /\ 2 * FrameOf(dec.ahead[1]) = Gone + 2
           /\ dec.ses = Current /\ Current \in Session
           /\ sent[FrameOf(dec.ahead[1])].ses = Current
           /\ sent[FrameOf(dec.ahead[1])].num = inCount[Current]
           /\ \A v \in Kept + 1 .. Gone : sent[FrameOf(v)].full
<1> DEFINE j == FrameOf(dec.ahead[1])
<1>1. TypeOK /\ Turns /\ Stream /\ Counting /\ Openable
  BY DEF IInv
<1>2. /\ Gone \in Nat /\ Kept \in Nat /\ Len(dec.ahead) \in Nat
      /\ taken \in Nat /\ taken <= 2 * Len(sent) /\ Len(sent) \in Nat
      /\ Kept + Len(dec.out) <= Gone /\ Len(dec.out) \in Nat
  BY <1>1, Positions, SeqTypes
<1>3. Gone = taken - Len(dec.ahead)
  BY DEF Gone
<1>4. Gone + 2 <= taken
  BY <1>2, <1>3
<1>5. dec.ahead[1] = Gone + 1 /\ dec.ahead[2] = Gone + 2
  <2>1. 1 \in DOMAIN dec.ahead /\ 2 \in DOMAIN dec.ahead
    BY <1>1, <1>2, SeqTypes
  <2>2. QED
    BY <1>1, <2>1 DEF Stream
<1>6. /\ IsFirst(dec.ahead[1])
      /\ sent[j].ses = dec.ses
      /\ sent[j].num = inCount[dec.ses]
  BY DEF Verifies
<1>7. j \in 1..Len(sent) /\ 2 * j = Gone + 2
  <2>1. dec.ahead[1] \in 1..(2 * Len(sent))
    BY <1>2, <1>4, <1>5
  <2>2. QED
    BY <1>2, <1>5, <1>6, <2>1, FrameOfUnit
<1>8. dec.ses = ss /\ ss # 0
  BY <1>1 DEF Turns
<1>9. Gone + 1 \in Kept + 1 .. 2 * Len(sent)
  BY <1>2, <1>4
<1>10. sent[j].ses = Current
  BY <1>1, <1>5, <1>9 DEF Openable
<1>11. Current \in Session
  <2>1. Current = ss /\ ss \in 0..MaxSession
    BY <1>1, <1>6, <1>8, <1>10 DEF TypeOK
  <2>2. QED
    BY <1>8, <2>1, ConstantFacts DEF Session
<1>12. ASSUME NEW v \in Kept + 1 .. Gone PROVE sent[FrameOf(v)].full
  <2>1. v \in Kept + 1 .. 2 * Len(sent) /\ v \in 1..(2 * Len(sent))
    BY <1>2, <1>4
  <2>2. FrameOf(v) \in 1..Len(sent) /\ FrameOf(v) < j
    <3>1. FrameOf(v) \in 1..Len(sent)
          /\ 2 * FrameOf(v) = IF IsFirst(v) THEN v + 1 ELSE v
      BY <1>2, <2>1, FrameOfUnit
    <3>2. 2 * FrameOf(v) <= Gone + 1
      BY <1>2, <3>1
    <3>3. QED
      BY <1>2, <1>7, <3>1, <3>2
  <2>3. sent[FrameOf(v)].ses = Current
    BY <1>1, <2>1 DEF Openable
  <2>4. Current # 0
    BY <1>11 DEF Session
  <2>5. FrameOf(v) \in DOMAIN sent /\ j \in DOMAIN sent
    BY <1>1, <1>7, <2>2, SeqTypes
  <2>6. sent[FrameOf(v)].num < sent[j].num
    BY <1>1, <1>10, <2>2, <2>3, <2>4, <2>5 DEF Counting
  <2>7. sent[FrameOf(v)].num \in Nat /\ sent[j].num \in Nat
    BY <1>1, <1>7, <2>2, SeqTypes DEF Inbound
  <2>8. sent[j].num = inCount[Current]
    BY <1>6, <1>10
  <2>9. ~(sent[FrameOf(v)].num >= inCount[Current])
    BY <2>6, <2>7, <2>8
  <2>10. QED
    BY <1>1, <2>1, <2>4, <2>9 DEF Openable
<1>13. QED
  BY <1>4, <1>5, <1>6, <1>7, <1>10, <1>11, <1>12


\* A step that leaves what was taken where it is keeps the order of the units.
LEMMA StreamUnchanged ==
    ASSUME IInv, UNCHANGED <<delivered, readBuf, dec, taken, handled, ss>>,
           \A j \in 1..Len(sent) : j \in 1..Len(sent') /\ sent'[j] = sent[j],
           pc' = "handle" => handled # 0
    PROVE  Stream'
<1>1. TypeOK /\ Ordered /\ Buffered /\ Decrypting /\ AtRequest
      /\ (ss = 0 => Kept = taken)
  BY StreamParts DEF IInv
<1>2. UNCHANGED <<Last, Kept, Gone, Handled>>
  BY DEF Last, Kept, Gone, Handled
<1>3. Ordered' /\ Buffered' /\ Decrypting'
  BY <1>1, <1>2 DEF Ordered, Buffered, Decrypting
<1>4. AtRequest'
  <2>1. handled # 0 => Handled \in 1..Len(sent)
    BY HandledFrame DEF IInv
  <2>2. QED
    BY <1>1, <1>2, <2>1 DEF AtRequest
<1>5. QED
  BY <1>1, <1>2, <1>3, <1>4 DEF Stream, Buffered, Decrypting, AtRequest

\* Requests stay where they are when more is delivered.
LEMMA AtRequestStep ==
    ASSUME IInv, UNCHANGED <<handled, sent, pc>>,
           \A i \in 1..Len(delivered) : delivered'[i] = delivered[i]
    PROVE  AtRequest'
<1>1. TypeOK /\ AtRequest
  BY StreamParts DEF IInv
<1>2. handled # 0 => handled \in 1..Len(delivered)
  BY <1>1, SeqTypes DEF TypeOK
<1>3. handled # 0 => delivered'[handled] = delivered[handled]
  BY <1>2
<1>4. UNCHANGED Handled
  BY <1>3 DEF Handled
<1>5. QED
  BY <1>1, <1>3, <1>4 DEF AtRequest

\* The reading steps one by one.
LEMMA BeginReadStream ==
    ASSUME IInv, TypeOK', NEW g \in Reader, BeginRead(g)
    PROVE  Stream' /\ Kept <= Kept' /\ Gone <= Gone'
<1>1. TypeOK /\ Turns /\ Ordered /\ Buffered /\ Decrypting /\ AtRequest
      /\ (ss = 0 => Kept = taken)
  BY StreamParts DEF IInv
<1>2. /\ dec' = [NoDecrypt EXCEPT !.ses = ss']
      /\ UNCHANGED <<readBuf, delivered, taken, handled, sent, pc>>
      /\ ss' = 0 => ss = 0
      /\ IF g = "serve" THEN pc = "read" /\ rd[g] = "off" ELSE rd[g] = "begin"
  BY DEF BeginRead, MayRead, remote
<1>3. dec'.ahead = <<>> /\ dec'.out = <<>>
  BY <1>2 DEF NoDecrypt
<1>4. \A h \in Reader : rd[h] # "decrypt"
  BY <1>1, <1>2 DEF Turns, Reader
<1>5. Gone = taken
  BY <1>4, NothingAhead
<1>6. UNCHANGED <<Last, Kept, Handled>>
  BY <1>2 DEF Last, Kept, Handled
<1>7. Kept \in Nat /\ Kept <= taken
  <2>1. Kept \in Nat /\ Kept + Len(dec.out) <= Gone /\ Len(dec.out) \in Nat
        /\ taken \in Nat
    BY Positions, SeqTypes DEF IInv
  <2>2. QED
    BY <1>5, <2>1
<1>8. Decrypting' /\ Gone' = taken'
  BY <1>2, <1>3, <1>6, <1>7, NoDecryptProperties
<1>9. Ordered' /\ Buffered' /\ AtRequest' /\ (ss' = 0 => Kept' = taken')
  BY <1>1, <1>2, <1>6 DEF Ordered, Buffered, AtRequest
<1>10. Kept <= Kept' /\ Gone <= Gone'
  <2>1. taken \in Nat
    BY <1>1, SeqTypes
  <2>2. QED
    BY <1>2, <1>5, <1>6, <1>7, <1>8, <2>1
<1>11. QED
  BY <1>8, <1>9, <1>10 DEF Stream, Buffered, Decrypting, AtRequest

LEMMA ReadPlainStream ==
    ASSUME IInv, TypeOK', NEW g \in Reader, NEW n \in Length, ReadPlain(g, n)
    PROVE  Stream' /\ OnlyFullFramesSkipped' /\ Kept <= Kept' /\ Gone <= Gone'
<1>1. TypeOK /\ Turns /\ Stream /\ OnlyFullFramesSkipped
  BY DEF IInv
<1>2. /\ rd[g] = "plain" /\ n \in 1..(arrived - taken)
      /\ taken' = taken + n
      /\ UNCHANGED <<readBuf, ss, handled, sent, pc>>
      /\ Deliver(g, Units(taken, taken + n), sent[FrameOf(taken + n)].ses # 0)
      /\ dec' = NoDecrypt
  BY DEF ReadPlain, Deliver, remote
<1>3. /\ taken \in Nat /\ n \in Nat /\ n # 0 /\ arrived \in Nat /\ taken' = taken + n
      /\ taken <= taken'
  BY <1>1, <1>2, SeqTypes
<1>4. ss = 0 /\ readBuf = <<>> /\ Kept = taken /\ Last = taken
  <2>1. ss = 0
    BY <1>1, <1>2 DEF Turns
  <2>2. readBuf = <<>> /\ Kept = taken
    BY <1>1, <2>1 DEF Turns, Stream
  <2>3. QED
    BY <1>1, <2>1, <2>2, Positions
<1>5. /\ Units(taken, taken + n) \in Seq(Nat)
      /\ Len(Units(taken, taken + n)) = n
      /\ \A i \in 1..n : Units(taken, taken + n)[i] = taken + i
  <2>1. taken + n \in Nat /\ taken <= taken + n /\ (taken + n) - taken = n
    BY <1>3
  <2>2. QED
    BY <1>3, <2>1, UnitsProperties
<1>6. /\ Len(delivered') = Len(delivered) + n
      /\ \A i \in 1..Len(delivered) : delivered'[i] = delivered[i]
      /\ \A i \in 1..n : delivered'[Len(delivered) + i].unit = taken + i
  BY <1>1, <1>2, <1>5, DeliverProperties
<1>7. /\ Ordered'
      /\ Last' = taken + n
      /\ OnlyFullFramesSkipped'
  <2>1. \A u \in Last + 1 .. taken : sent[FrameOf(u)].full
    BY <1>3, <1>4
  <2>2. taken + n <= taken' /\ Last <= taken
    BY <1>3, <1>4
  <2>3. QED
    BY <1>1, <1>2, <1>3, <1>6, <2>1, <2>2, DeliverMore
<1>8. Kept' = taken'
  BY <1>2, <1>4, <1>7 DEF Kept
<1>9. Decrypting' /\ Gone' = taken'
  <2>1. dec'.ahead = <<>> /\ dec'.out = <<>>
    BY <1>2 DEF NoDecrypt
  <2>2. Kept' \in Nat /\ Kept' <= taken'
    BY <1>3, <1>8
  <2>3. QED
    BY <2>1, <2>2, NoDecryptProperties
<1>10. AtRequest'
  BY <1>2, <1>6, AtRequestStep
<1>11. Buffered' /\ (ss' = 0 => Kept' = taken')
  BY <1>2, <1>4, <1>8 DEF Buffered
<1>12. Kept <= Kept' /\ Gone <= Gone'
  <2>1. Gone \in 0..taken
    BY <1>1, Positions
  <2>2. QED
    BY <1>3, <1>4, <1>8, <1>9, <2>1
<1>13. QED
  BY <1>7, <1>9, <1>10, <1>11, <1>12 DEF Stream, Buffered, Decrypting, AtRequest


LEMMA ReadBufferedStream ==
    ASSUME IInv, TypeOK', NEW g \in Reader, NEW n \in Length, ReadBuffered(g, n)
    PROVE  Stream' /\ OnlyFullFramesSkipped' /\ Kept <= Kept' /\ Gone <= Gone'
<1>1. TypeOK /\ Turns /\ Stream
  BY DEF IInv
<1>2. /\ rd[g] = "buffer"
      /\ ReturnFrom(g, readBuf[1], n)
      /\ UNCHANGED <<ss, taken, handled, sent, pc>>
  BY DEF ReadBuffered, remote
<1>3. readBuf # <<>> /\ ss # 0
  BY <1>1, <1>2 DEF Turns
<1>4. /\ readBuf[1] \in Seq(Nat) /\ Len(readBuf[1]) \in Nat
      /\ \A i \in 1..Len(readBuf[1]) : readBuf[1][i] = Last + i
  BY <1>1, <1>3, SeqTypes DEF Stream
<1>5. /\ Last \in Nat /\ Kept = Last + Len(readBuf[1]) /\ Kept \in Nat
      /\ taken \in Nat /\ Kept <= taken /\ Last <= Last
  <2>1. Last \in 0..taken /\ taken \in Nat
    BY <1>1, Positions
  <2>2. Last \in Nat /\ Last <= Last
    BY <2>1
  <2>3. QED
    BY <1>1, <1>3, <2>1, <2>2, Positions
<1>6. n \in Nat /\ taken <= taken' /\ Last + Len(readBuf[1]) <= taken'
  BY <1>2, <1>5 DEF Length
<1>7. /\ Ordered' /\ Buffered'
      /\ Kept' = Kept
      /\ OnlyFullFramesSkipped'
  <2>1. \A u \in Last + 1 .. Last : sent[FrameOf(u)].full
    BY <1>5
  <2>2. /\ Ordered'
        /\ readBuf' # <<>> =>
              \A i \in DOMAIN readBuf'[1] : readBuf'[1][i] = Last' + i
        /\ Kept' = Last + Len(readBuf[1])
        /\ OnlyFullFramesSkipped'
    BY <1>2, <1>4, <1>5, <1>6, <2>1, ReturnFromOrder
  <2>3. QED
    BY <1>5, <2>2 DEF Buffered
<1>8. Decrypting' /\ Gone' = taken'
  <2>1. dec'.ahead = <<>> /\ dec'.out = <<>>
    BY <1>2 DEF ReturnFrom, Deliver, NoDecrypt
  <2>2. Kept' \in Nat /\ Kept' <= taken'
    BY <1>2, <1>5, <1>7
  <2>3. QED
    BY <2>1, <2>2, NoDecryptProperties
<1>9. AtRequest'
  <2>1. \A i \in 1..Len(delivered) : delivered'[i] = delivered[i]
    BY <1>1, <1>2, <1>4, <1>6, ReturnFromProperties
  <2>2. QED
    BY <1>2, <2>1, AtRequestStep
<1>10. Kept <= Kept' /\ Gone <= Gone'
  <2>1. Gone \in 0..taken
    BY <1>1, Positions
  <2>2. QED
    BY <1>2, <1>5, <1>7, <1>8, <2>1
<1>11. QED
  BY <1>2, <1>3, <1>7, <1>8, <1>9, <1>10 DEF Stream, Buffered, Decrypting, AtRequest

LEMMA ReadEOFStream ==
    ASSUME IInv, TypeOK', NEW g \in Reader, ReadEOF(g)
    PROVE  Stream' /\ Kept <= Kept' /\ Gone <= Gone'
<1>1. TypeOK /\ Turns /\ Ordered /\ Decrypting
  BY StreamParts DEF IInv
<1>2. /\ rd[g] = "buffer" /\ readBuf[1] = <<>> /\ readBuf' = <<>>
      /\ dec' = NoDecrypt
      /\ UNCHANGED <<ss, delivered, taken, handled, sent, pc>>
  BY DEF ReadEOF, remote
<1>3. readBuf # <<>> /\ ss # 0
  BY <1>1, <1>2 DEF Turns
<1>4. UNCHANGED Last
  BY <1>2 DEF Last
<1>5. /\ Last \in Nat /\ Kept = Last + Len(readBuf[1]) /\ Kept \in Nat
      /\ taken \in Nat /\ Kept <= taken
  <2>1. Last \in 0..taken /\ taken \in Nat
    BY Positions DEF IInv
  <2>2. Last \in Nat
    BY <2>1
  <2>3. QED
    BY <1>3, <2>1, <2>2, Positions DEF IInv
<1>6. Kept' = Kept
  <2>1. Len(readBuf[1]) = 0
    BY <1>2
  <2>2. QED
    BY <1>2, <1>4, <1>5, <2>1 DEF Kept
<1>7. Decrypting' /\ Gone' = taken'
  <2>1. dec'.ahead = <<>> /\ dec'.out = <<>>
    BY <1>2 DEF NoDecrypt
  <2>2. Kept' \in Nat /\ Kept' <= taken'
    BY <1>2, <1>5, <1>6
  <2>3. QED
    BY <2>1, <2>2, NoDecryptProperties
<1>8. AtRequest'
  BY <1>2, AtRequestStep
<1>9. Ordered' /\ Buffered'
  BY <1>1, <1>2 DEF Ordered, Buffered
<1>10. Kept <= Kept' /\ Gone <= Gone'
  <2>1. Gone \in 0..taken
    BY Positions DEF IInv
  <2>2. QED
    BY <1>2, <1>5, <1>6, <1>7, <2>1
<1>11. QED
  BY <1>2, <1>3, <1>7, <1>8, <1>9, <1>10 DEF Stream, Buffered, Decrypting, AtRequest

LEMMA FillStream ==
    ASSUME IInv, TypeOK', NEW g \in Reader, Fill(g)
    PROVE  Stream' /\ UNCHANGED <<Kept, Gone>>
<1>1. TypeOK /\ Turns /\ Ordered /\ Buffered /\ Decrypting
  BY StreamParts DEF IInv
<1>2. /\ dec' = [dec EXCEPT !.ahead = dec.ahead \o Units(taken, arrived)]
      /\ taken' = arrived /\ rd[g] = "decrypt"
      /\ UNCHANGED <<readBuf, ss, delivered, handled, sent, pc>>
  BY DEF Fill, remote
<1>3. taken \in Nat /\ arrived \in Nat /\ taken <= arrived /\ taken <= taken'
  BY <1>1, <1>2, SeqTypes
<1>4. dec'.ahead = dec.ahead \o Units(taken, arrived) /\ dec'.out = dec.out
  BY <1>1, <1>2 DEF TypeOK
<1>5. /\ Units(taken, arrived) \in Seq(Nat)
      /\ Len(Units(taken, arrived)) = arrived - taken
      /\ \A i \in 1..(arrived - taken) : Units(taken, arrived)[i] = taken + i
  BY <1>3, UnitsProperties
<1> DEFINE k == Len(dec.ahead)
<1>6. dec.ahead \in Seq(Nat) /\ k \in Nat /\ DOMAIN dec.ahead = 1..k
      /\ Gone = taken - k
  BY <1>1, SeqTypes DEF Gone
<1> DEFINE new == Units(taken, arrived)
           both == dec.ahead \o new
<1>7. /\ dec'.ahead \in Seq(Nat)
      /\ Len(dec'.ahead) = k + (arrived - taken)
      /\ \A i \in 1 .. k + (arrived - taken) :
            dec'.ahead[i] = IF i <= k THEN dec.ahead[i]
                                      ELSE Units(taken, arrived)[i - k]
  <2>1. new \in Seq(Nat) /\ Len(new) = arrived - taken
    BY <1>5
  <2>2. dec.ahead \in Seq(Nat) /\ k = Len(dec.ahead)
    BY <1>6
  <2> HIDE DEF new, k
  <2>3. /\ both \in Seq(Nat)
        /\ Len(both) = Len(dec.ahead) + Len(new)
        /\ \A i \in 1 .. Len(dec.ahead) + Len(new) :
              both[i] = IF i <= Len(dec.ahead) THEN dec.ahead[i]
                                               ELSE new[i - Len(dec.ahead)]
    BY <2>1, <2>2, ConcatProperties
  <2>4. dec'.ahead = both
    BY <1>4 DEF new
  <2> HIDE DEF both
  <2>5. /\ Len(both) = k + (arrived - taken)
        /\ \A i \in 1 .. k + (arrived - taken) :
              both[i] = IF i <= k THEN dec.ahead[i] ELSE new[i - k]
    BY <2>1, <2>2, <2>3, Zenon
  <2>6. QED
    BY <2>3, <2>4, <2>5, Zenon DEF new
<1> HIDE DEF k
<1>8. Gone' = Gone
  <2>1. Gone' = taken' - Len(dec'.ahead)
    BY DEF Gone
  <2>2. QED
    BY <1>2, <1>3, <1>6, <1>7, <2>1
<1>9. ASSUME NEW i \in 1 .. k + (arrived - taken) PROVE dec'.ahead[i] = Gone + i
  <2>1. CASE i <= k
    BY <1>1, <1>6, <1>7, <2>1 DEF Decrypting
  <2>2. CASE i > k
    <3>1. i - k \in 1..(arrived - taken)
      BY <1>3, <1>6, <2>2
    <3>2. dec'.ahead[i] = taken + (i - k)
      BY <1>5, <1>6, <1>7, <2>2, <3>1
    <3>3. QED
      BY <1>3, <1>6, <3>2
  <2>3. QED
    BY <1>6, <2>1, <2>2
<1>10. DOMAIN dec'.ahead = 1 .. k + (arrived - taken)
  BY <1>7, LenProperties
<1>11. UNCHANGED <<Last, Kept>>
  BY <1>2 DEF Last, Kept
<1>12. Decrypting'
  BY <1>1, <1>4, <1>8, <1>9, <1>10, <1>11 DEF Decrypting
<1>13. Ordered'
  <2>1. \A i \in 1..Len(delivered) : delivered[i].unit \in 1..taken'
    BY <1>1, <1>2, <1>3 DEF Ordered
  <2>2. QED
    BY <1>1, <1>2, <2>1 DEF Ordered
<1>14. AtRequest'
  BY <1>2, AtRequestStep
<1>15. Buffered' /\ ss' # 0
  BY <1>1, <1>2, <1>11 DEF Buffered, Turns
<1>16. QED
  BY <1>8, <1>11, <1>12, <1>13, <1>14, <1>15
     DEF Stream, Buffered, Decrypting, AtRequest


\* What Decrypt has once the next frame is opened, and what stays to be read.
LEMMA Opened ==
    ASSUME IInv, Len(dec.ahead) >= 2
    PROVE  LET out  == dec.out \o SubSeq(dec.ahead, 1, 2)
               rest == SubSeq(dec.ahead, 3, Len(dec.ahead))
           IN  /\ out \in Seq(Nat) /\ Len(out) = Len(dec.out) + 2
               /\ \A i \in 1 .. Len(dec.out) + 2 : out[i] = (Gone - Len(dec.out)) + i
               /\ rest \in Seq(Nat) /\ Len(rest) = Len(dec.ahead) - 2
               /\ \A i \in 1 .. Len(dec.ahead) - 2 : rest[i] = (Gone + 2) + i
<1> DEFINE two  == SubSeq(dec.ahead, 1, 2)
           out  == dec.out \o two
           rest == SubSeq(dec.ahead, 3, Len(dec.ahead))
           k    == Len(dec.ahead)
           m    == Len(dec.out)
<1>1. /\ dec.ahead \in Seq(Nat) /\ dec.out \in Seq(Nat)
      /\ k \in Nat /\ m \in Nat /\ 2 <= k
      /\ \A i \in 1..k : dec.ahead[i] \in Nat
  BY SeqTypes, LenProperties DEF IInv
<1>2. /\ Gone \in Nat
      /\ \A i \in 1..k : dec.ahead[i] = Gone + i
      /\ \A i \in 1..m : dec.out[i] = Gone - m + i
  <2>1. Gone \in 0..taken /\ taken \in Nat
    BY Positions DEF IInv
  <2>2. DOMAIN dec.ahead = 1..k /\ DOMAIN dec.out = 1..m
    BY SeqTypes DEF IInv
  <2>3. Decrypting
    BY StreamParts DEF IInv
  <2>4. Gone \in Nat
    BY <2>1
  <2>5. /\ \A i \in 1..k : dec.ahead[i] = Gone + i
        /\ \A i \in 1..m : dec.out[i] = Gone - m + i
    BY <2>2, <2>3 DEF Decrypting
  <2>6. QED
    BY <2>4, <2>5
<1>3. /\ two \in Seq(Nat) /\ Len(two) = 2
      /\ two[1] = dec.ahead[1] /\ two[2] = dec.ahead[2]
  <2>1. \A i \in 1..2 : dec.ahead[i] \in Nat
    BY <1>1
  <2>2. /\ two \in Seq(Nat)
        /\ Len(two) = IF 1 <= 2 THEN 2 - 1 + 1 ELSE 0
        /\ \A i \in 1 .. 2 - 1 + 1 : two[i] = dec.ahead[1 + i - 1]
    BY <2>1, SubSeqProperties
  <2>3. QED
    BY <2>2
<1>4. /\ rest \in Seq(Nat) /\ Len(rest) = k - 2
      /\ \A i \in 1 .. k - 2 : rest[i] = dec.ahead[2 + i]
  <2>1. 3 \in Int /\ k \in Int /\ \A i \in 3..k : dec.ahead[i] \in Nat
    BY <1>1
  <2>2. /\ rest \in Seq(Nat)
        /\ Len(rest) = IF 3 <= k THEN k - 3 + 1 ELSE 0
        /\ \A i \in 1 .. k - 3 + 1 : rest[i] = dec.ahead[3 + i - 1]
    BY <2>1, SubSeqProperties
  <2>3. QED
    BY <1>1, <2>2
<1> HIDE DEF two, rest, k
<1>5. /\ out \in Seq(Nat) /\ Len(out) = Len(dec.out) + Len(two)
      /\ \A i \in 1 .. Len(dec.out) + Len(two) :
            out[i] = IF i <= Len(dec.out) THEN dec.out[i] ELSE two[i - Len(dec.out)]
  <2>1. dec.out \in Seq(Nat) /\ two \in Seq(Nat)
    BY <1>1, <1>3
  <2>2. QED
    BY <2>1, ConcatProperties
<1> HIDE DEF out, m
<1>6. m = Len(dec.out)
  BY DEF m
<1>7. /\ Len(out) = m + 2
      /\ \A i \in 1 .. m + 2 : out[i] = IF i <= m THEN dec.out[i] ELSE two[i - m]
  BY <1>3, <1>5, <1>6
<1>8. ASSUME NEW i \in 1 .. m + 2 PROVE out[i] = (Gone - m) + i
  <2>1. CASE i <= m
    <3>1. i \in 1..m /\ out[i] = dec.out[i]
      BY <1>1, <1>7, <2>1
    <3>2. QED
      BY <1>2, <3>1
  <2>2. CASE i > m
    <3>1. i - m \in {1, 2}
      BY <1>1, <2>2
    <3>2. dec.ahead[1] = Gone + 1 /\ dec.ahead[2] = Gone + 2
      BY <1>1, <1>2
    <3>3. out[i] = Gone + (i - m)
      BY <1>1, <1>3, <1>7, <2>2, <3>1, <3>2
    <3>4. QED
      BY <1>1, <1>2, <3>3
  <2>3. QED
    BY <1>1, <2>1, <2>2
<1>9. ASSUME NEW i \in 1 .. k - 2 PROVE rest[i] = (Gone + 2) + i
  <2>1. 2 + i \in 1..k
    BY <1>1
  <2>2. QED
    BY <1>1, <1>2, <1>4, <2>1
<1>10. QED
  BY <1>4, <1>5, <1>6, <1>7, <1>8, <1>9 DEF out, two, rest, k

LEMMA DecryptFrameStream ==
    ASSUME IInv, TypeOK', NEW g \in Reader, NEW n \in Length, DecryptFrame(g, n)
    PROVE  /\ Stream' /\ OnlyFullFramesSkipped'
           /\ Verifies(inCount[dec.ses]) =>
                 IF sent[FrameOf(dec.ahead[1])].full
                 THEN Kept' = Kept /\ Gone' = Gone + 2
                 ELSE Kept' = Gone + 2 /\ Gone <= Gone'
<1>1. TypeOK /\ Turns /\ Stream /\ Ordered /\ Buffered /\ Decrypting
      /\ OnlyFullFramesSkipped
  BY StreamParts DEF IInv
<1>2. /\ open /\ rd[g] = "decrypt" /\ Len(dec.ahead) >= 2
      /\ UNCHANGED <<ss, taken, handled, sent, pc>>
  BY DEF DecryptFrame, remote
<1>3. readBuf = <<>> /\ ss # 0
  BY <1>1, <1>2 DEF Turns
<1> DEFINE out  == dec.out \o SubSeq(dec.ahead, 1, 2)
           rest == SubSeq(dec.ahead, 3, Len(dec.ahead))
           m    == Len(dec.out)
           k    == Len(dec.ahead)
<1>4. /\ Last \in Nat /\ Kept = Last /\ Gone \in Nat /\ taken \in Nat
      /\ m \in Nat /\ k \in Nat /\ Kept + m <= Gone /\ Gone = taken - k
  <2>1. Last \in 0..taken /\ Gone \in 0..taken /\ taken \in Nat
    BY <1>1, Positions
  <2>2. Last \in Nat /\ Gone \in Nat
    BY <2>1
  <2>3. QED
    BY <1>1, <1>3, <2>1, <2>2, Positions, SeqTypes DEF Gone
<1>5. /\ out \in Seq(Nat) /\ Len(out) = m + 2
      /\ \A i \in 1 .. m + 2 : out[i] = (Gone - m) + i
      /\ rest \in Seq(Nat) /\ Len(rest) = k - 2
      /\ \A i \in 1 .. k - 2 : rest[i] = (Gone + 2) + i
  BY <1>2, Opened
<1>6. CASE ~Verifies(inCount[dec.ses])
  <2>1. UNCHANGED <<dec, readBuf, delivered>>
    BY <1>6 DEF DecryptFrame
  <2>2. pc' = "handle" => handled # 0
    BY <1>1, <1>2 DEF Stream
  <2>3. Stream'
    BY <1>2, <2>1, <2>2, SeqTypes, StreamUnchanged
  <2>4. OnlyFullFramesSkipped'
    BY <1>1, <1>2, <2>1 DEF OnlyFullFramesSkipped
  <2>5. QED
    BY <1>6, <2>3, <2>4
<1>7. CASE Verifies(inCount[dec.ses]) /\ sent[FrameOf(dec.ahead[1])].full
  <2>1. /\ UNCHANGED <<readBuf, delivered>>
        /\ dec'.out = out /\ dec'.ahead = rest
    BY <1>1, <1>7 DEF DecryptFrame, TypeOK
  <2> HIDE DEF out, rest, m, k
  <2>2. Gone' = Gone + 2
    <3>1. Gone' = taken - (k - 2)
      BY <1>2, <1>5, <2>1 DEF Gone
    <3>2. QED
      BY <1>4, <3>1
  <2>3. UNCHANGED <<Last, Kept>>
    BY <2>1 DEF Last, Kept
  <2>4. \A i \in DOMAIN dec'.ahead : dec'.ahead[i] = Gone' + i
    <3>1. DOMAIN rest = 1 .. k - 2
      BY <1>5, LenProperties
    <3>2. QED
      BY <1>5, <2>1, <2>2, <3>1
  <2>5. \A i \in DOMAIN dec'.out : dec'.out[i] = Gone' - Len(dec'.out) + i
    <3>1. DOMAIN out = 1 .. m + 2
      BY <1>5, LenProperties
    <3>2. Gone' - Len(dec'.out) = Gone - m
      <4>1. Len(dec'.out) = m + 2
        BY <1>5, <2>1
      <4>2. QED
        BY <1>4, <2>2, <4>1
    <3>3. QED
      BY <1>5, <2>1, <3>1, <3>2
  <2>6. Kept' + Len(dec'.out) <= Gone'
    BY <1>4, <1>5, <2>1, <2>2, <2>3
  <2>7. Decrypting'
    BY <2>4, <2>5, <2>6 DEF Decrypting
  <2>8. AtRequest'
    BY <1>2, <2>1, AtRequestStep
  <2>9. Ordered' /\ Buffered' /\ OnlyFullFramesSkipped'
    BY <1>1, <1>2, <2>1, <2>3 DEF Ordered, Buffered, OnlyFullFramesSkipped
  <2>10. Stream'
    BY <1>2, <1>3, <2>7, <2>8, <2>9 DEF Stream, Buffered, Decrypting, AtRequest
  <2>11. QED
    BY <1>7, <2>2, <2>3, <2>9, <2>10
<1>8. CASE Verifies(inCount[dec.ses]) /\ ~sent[FrameOf(dec.ahead[1])].full
  <2>1. ReturnFrom(g, out, n)
    BY <1>8 DEF DecryptFrame
  <2>2. /\ \A v \in Kept + 1 .. Gone : sent[FrameOf(v)].full
        /\ Gone + 2 <= taken
    BY <1>2, <1>8, Verified
  <2> HIDE DEF out, rest, m, k
  <2> DEFINE first == Gone - m
  <2>3. /\ first \in Nat /\ Last <= first /\ n \in Nat /\ taken <= taken'
        /\ first + Len(out) = Gone + 2 /\ first + Len(out) <= taken'
    BY <1>2, <1>4, <1>5, <2>2 DEF Length
  <2>4. \A u \in Last + 1 .. first : sent[FrameOf(u)].full
    <3>1. \A u \in Last + 1 .. first : u \in Kept + 1 .. Gone
      BY <1>4
    <3>2. QED
      BY <2>2, <3>1
  <2>5. \A i \in 1..Len(out) : out[i] = first + i
    BY <1>5
  <2> HIDE DEF first
  <2>6. /\ Ordered'
        /\ readBuf' # <<>> =>
              \A i \in DOMAIN readBuf'[1] : readBuf'[1][i] = Last' + i
        /\ Kept' = first + Len(out)
        /\ OnlyFullFramesSkipped'
    BY <1>2, <1>5, <2>1, <2>3, <2>4, <2>5, ReturnFromOrder
  <2>7. Decrypting' /\ Gone' = taken'
    <3>1. dec'.ahead = <<>> /\ dec'.out = <<>>
      BY <2>1 DEF ReturnFrom, Deliver, NoDecrypt
    <3>2. Kept' \in Nat /\ Kept' <= taken'
      BY <1>2, <1>4, <2>2, <2>3, <2>6
    <3>3. QED
      BY <3>1, <3>2, NoDecryptProperties
  <2>8. AtRequest'
    <3>1. \A i \in 1..Len(delivered) : delivered'[i] = delivered[i]
      BY <1>1, <1>5, <2>1, <2>3, ReturnFromProperties
    <3>2. QED
      BY <1>2, <3>1, AtRequestStep
  <2>9. Stream'
    BY <1>2, <1>3, <2>6, <2>7, <2>8
       DEF Stream, Buffered, Decrypting, AtRequest
  <2>10. Kept' = Gone + 2 /\ Gone <= Gone'
    BY <1>2, <1>4, <2>2, <2>3, <2>6, <2>7
  <2>11. QED
    BY <1>8, <2>6, <2>9, <2>10
<1>9. QED
  BY <1>6, <1>7, <1>8


\* Of what was delivered the frames are known.
LEMMA SkippedUnchanged ==
    ASSUME IInv, UNCHANGED delivered, \A j \in 1..Len(sent) : sent'[j] = sent[j]
    PROVE  OnlyFullFramesSkipped'
<1>1. TypeOK /\ Stream /\ Ordered /\ OnlyFullFramesSkipped
  BY StreamParts DEF IInv
<1>2. /\ Len(sent) \in Nat /\ Len(delivered) \in Nat /\ taken \in Nat
      /\ taken <= 2 * Len(sent) /\ DOMAIN delivered = 1..Len(delivered)
      /\ \A i \in 1..Len(delivered) : delivered[i].unit \in 1..taken
  BY <1>1, SeqTypes, Positions DEF Ordered
<1>3. ASSUME NEW i \in DOMAIN delivered
      PROVE  LET before == IF i = 1 THEN 0 ELSE delivered[i - 1].unit IN
             /\ delivered[i].unit > before
             /\ \A u \in before + 1 .. delivered[i].unit - 1 : sent'[FrameOf(u)].full
  <2> DEFINE before == IF i = 1 THEN 0 ELSE delivered[i - 1].unit
  <2>1. /\ delivered[i].unit > before
        /\ \A u \in before + 1 .. delivered[i].unit - 1 : sent[FrameOf(u)].full
    BY <1>1 DEF OnlyFullFramesSkipped
  <2>2. before \in Nat /\ delivered[i].unit \in 1..taken
    BY <1>2
  <2> HIDE DEF before
  <2>3. ASSUME NEW u \in before + 1 .. delivered[i].unit - 1
        PROVE  sent'[FrameOf(u)].full
    <3>1. u \in 1 .. 2 * Len(sent)
      BY <1>2, <2>2
    <3>2. FrameOf(u) \in 1..Len(sent)
      BY <1>2, <3>1, FrameOfUnit
    <3>3. QED
      BY <2>1, <3>2
  <2>4. QED
    BY <2>1, <2>3 DEF before
<1>4. QED
  BY <1>3 DEF OnlyFullFramesSkipped

\* Every step keeps the order of the units, and skips full frames only.
LEMMA StreamStep == IInv /\ TypeOK' /\ [Next]_vars => Stream' /\ OnlyFullFramesSkipped'
<1> SUFFICES ASSUME IInv, TypeOK', [Next]_vars
             PROVE  Stream' /\ OnlyFullFramesSkipped'
  OBVIOUS
<1>a. /\ TypeOK /\ Stream /\ AtRequest
      /\ pc = "handle" => handled # 0
  BY StreamParts DEF IInv, AtRequest
<1>b. ASSUME UNCHANGED <<delivered, readBuf, dec, taken, handled, ss, sent>>,
             pc' = "handle" => pc = "handle"
      PROVE  Stream' /\ OnlyFullFramesSkipped'
  <2>1. pc' = "handle" => handled # 0
    BY <1>a, <1>b
  <2>2. \A j \in 1..Len(sent) : j \in 1..Len(sent') /\ sent'[j] = sent[j]
    BY <1>b
  <2>3. QED
    BY <1>b, <2>1, <2>2, StreamUnchanged, SkippedUnchanged
<1>1. ASSUME NEW n \in 1..MaxIn, NEW exact \in BOOLEAN, NEW verify \in BOOLEAN,
             Send(n, exact, verify)
      PROVE  Stream' /\ OnlyFullFramesSkipped'
  <2>1. UNCHANGED <<delivered, readBuf, dec, taken, handled, ss, pc>>
    BY <1>1, Zenon DEF Send, reading
  <2>2. \A j \in 1..Len(sent) : j \in 1..Len(sent') /\ sent'[j] = sent[j]
    <3>1. /\ Len(sent') = Len(sent) + n
          /\ \A j \in 1..Len(sent) : sent'[j] = sent[j]
      BY <1>1, <1>a, SendProperties, Zenon
    <3>2. Len(sent) \in Nat /\ n \in Nat
      BY <1>a, SeqTypes, ConstantFacts
    <3>3. QED
      BY <3>1, <3>2
  <2>3. QED
    BY <1>a, <2>1, <2>2, StreamUnchanged, SkippedUnchanged
<1>2. ASSUME NEW n \in Length, Arrive(n) PROVE Stream' /\ OnlyFullFramesSkipped'
  BY <1>2, <1>b DEF Arrive, reading
<1>3. ASSUME Receive PROVE Stream' /\ OnlyFullFramesSkipped'
  <2>1. UNCHANGED <<delivered, readBuf, dec, taken, handled, ss, sent, pc>>
    BY <1>3, Zenon DEF Receive, reading
  <2>2. QED
    BY <1>b, <2>1
<1>4. ASSUME NEW g \in Reader, Read(g) PROVE Stream' /\ OnlyFullFramesSkipped'
  <2>1. CASE BeginRead(g)
    <3>1. UNCHANGED <<delivered, sent>>
      BY <2>1 DEF BeginRead, remote
    <3>2. QED
      BY <2>1, <3>1, BeginReadStream, SkippedUnchanged
  <2>2. CASE Fill(g)
    <3>1. UNCHANGED <<delivered, sent>>
      BY <2>2, Zenon DEF Fill, remote
    <3>2. QED
      BY <2>2, <3>1, FillStream, SkippedUnchanged
  <2>3. CASE ReadEOF(g)
    <3>1. UNCHANGED <<delivered, sent>>
      BY <2>3 DEF ReadEOF, remote
    <3>2. QED
      BY <2>3, <3>1, ReadEOFStream, SkippedUnchanged
  <2>4. ASSUME NEW n \in Length, ReadPlain(g, n) PROVE Stream' /\ OnlyFullFramesSkipped'
    BY <2>4, ReadPlainStream
  <2>5. ASSUME NEW n \in Length, ReadBuffered(g, n) PROVE Stream' /\ OnlyFullFramesSkipped'
    BY <2>5, ReadBufferedStream
  <2>6. ASSUME NEW n \in Length, DecryptFrame(g, n) PROVE Stream' /\ OnlyFullFramesSkipped'
    BY <2>6, DecryptFrameStream
  <2>7. QED
    BY <1>4, <2>1, <2>2, <2>3, <2>4, <2>5, <2>6 DEF Read
<1>5. ASSUME NEW i \in 1..Len(delivered), StartHandler(i)
      PROVE  Stream' /\ OnlyFullFramesSkipped'
  <2>1. /\ IsRequestEnd(i) /\ handled' = i /\ i # 0
        /\ UNCHANGED <<delivered, readBuf, dec, taken, ss, sent>>
    BY <1>5, <1>a, SeqTypes DEF StartHandler, remote
  <2>2. AtRequest'
    <3>1. Handled' = FrameOf(delivered[i].unit)
      BY <2>1 DEF Handled
    <3>2. QED
      BY <2>1, <3>1 DEF AtRequest, IsRequestEnd
  <2>3. UNCHANGED <<Last, Kept, Gone>>
    BY <2>1 DEF Last, Kept, Gone
  <2>4. Ordered' /\ Buffered' /\ Decrypting' /\ (ss' = 0 => Kept' = taken')
    BY <2>1, <2>3, StreamParts DEF IInv, Ordered, Buffered, Decrypting
  <2>5. Stream'
    BY <2>2, <2>4 DEF Stream, Buffered, Decrypting, AtRequest
  <2>6. QED
    BY <2>1, <2>5, SkippedUnchanged
<1>6. ASSUME NEW n \in 1..MaxOut, Handle(n) PROVE Stream' /\ OnlyFullFramesSkipped'
  <2>1. /\ UNCHANGED <<delivered, readBuf, dec, taken, handled, ss, sent>>
        /\ pc' = "flush"
    BY <1>6, Zenon DEF Handle, reading, remote
  <2>2. QED
    BY <1>b, <2>1
<1>7. ASSUME AbortRead PROVE Stream' /\ OnlyFullFramesSkipped'
  <2>1. /\ UNCHANGED <<delivered, readBuf, taken, handled, ss, sent>>
        /\ dec' = NoDecrypt /\ pc' = "read"
    BY <1>7 DEF AbortRead, remote
  <2>2. UNCHANGED <<Last, Kept, Handled>>
    BY <2>1 DEF Last, Kept, Handled
  <2>3. Kept' \in Nat /\ Kept' <= taken'
    BY <1>a, <2>1, <2>2, Positions
  <2>4. Decrypting'
    BY <2>1, <2>3, NoDecryptProperties DEF NoDecrypt
  <2>5. Ordered' /\ Buffered' /\ AtRequest' /\ (ss' = 0 => Kept' = taken')
    BY <2>1, <2>2, StreamParts DEF IInv, Ordered, Buffered, AtRequest
  <2>6. Stream'
    BY <2>4, <2>5 DEF Stream, Buffered, Decrypting, AtRequest
  <2>7. QED
    BY <2>1, <2>6, SkippedUnchanged
<1>8. ASSUME NEW w \in Notifier, NEW n \in 1..MaxOut, StartEvent(w, n)
      PROVE  Stream' /\ OnlyFullFramesSkipped'
  <2>1. UNCHANGED <<delivered, readBuf, dec, taken, handled, ss, sent, pc>>
    BY <1>8, Zenon DEF StartEvent, reading, remote
  <2>2. QED
    BY <1>b, <2>1
<1>9. ASSUME NEW w \in Writer, Write(w) PROVE Stream' /\ OnlyFullFramesSkipped'
  <2>1. UNCHANGED <<delivered, readBuf, dec, taken, handled, ss, sent>>
    BY <1>9, Zenon DEF Write, BeginWrite, EncryptFrame, WriteSocket, reading, remote
  <2>2. pc' \in {pc, "abort"}
    BY <1>9, Zenon DEF Write, BeginWrite, EncryptFrame, WriteSocket
  <2>3. QED
    BY <1>b, <2>1, <2>2
<1>10. CASE UNCHANGED vars
  BY <1>10, <1>b DEF vars, reading, remote
<1>11. QED
  BY <1>1, <1>2, <1>3, <1>4, <1>5, <1>6, <1>7, <1>8, <1>9, <1>10 DEF Next


-----------------------------------------------------------------------------
(* The controller counts its frames *)

\* What the controller does with the next frame on the wire, if it accepts it.
LEMMA ReceiveProperties ==
    ASSUME IInv, Receive, open'
    PROVE  LET f == wire[peer.seen + 1] IN
           /\ peer.seen + 1 \in 1..Len(wire) /\ f \in Outbound
           /\ f.ses = peer.ses /\ f.num = peer.in
           /\ peer'.seen = peer.seen + 1
           /\ peer'.in = IF f.to # 0 \/ f.ses = 0 THEN 0 ELSE peer.in + 1
           /\ peer'.out = IF f.to # 0 THEN 0 ELSE peer.out
           /\ peer'.ses = IF f.to # 0 THEN f.to ELSE peer.ses
           /\ f.to # 0 => f.to = peer.ses + 1
           /\ UNCHANGED <<pending, ss, reading, writing, pc, handled, sent, arrived,
                          events, open>>
<1> DEFINE f == wire[peer.seen + 1]
<1>1. TypeOK /\ open
  BY DEF IInv, Receive
<1>2. peer \in [ses : 0..MaxSession, in : Nat, out : Nat, seen : Nat,
                requests : Nat, answers : Nat]
  BY <1>1 DEF TypeOK
<1>3. peer.seen < Len(wire) /\ peer.seen \in Nat /\ Len(wire) \in Nat
  BY <1>1, <1>2, SeqTypes DEF Receive
<1>4. peer.seen + 1 \in 1..Len(wire)
  BY <1>3
<1>5. f \in Outbound
  BY <1>1, <1>4, SeqTypes
<1>6. peer.seen + 1 \in Unread
  BY <1>3 DEF Unread
<1>7. f.to # 0 => f.to = peer.ses + 1
  BY <1>1, <1>6 DEF IInv, Upgrading, StartingResponse
<1> HIDE DEF f
<1>8. /\ f.ses = peer.ses /\ f.num = peer.in
      /\ peer' = [peer EXCEPT
                    !.seen = @ + 1,
                    !.in = IF f.to # 0 \/ f.ses = 0 THEN 0 ELSE @ + 1,
                    !.out = IF f.to # 0 THEN 0 ELSE @,
                    !.ses = IF f.to # 0 THEN f.to ELSE @,
                    !.answers = IF f.end /\ ~f.event THEN @ + 1 ELSE @]
  BY Zenon DEF Receive, f
<1>9. /\ peer'.seen = peer.seen + 1
      /\ peer'.in = IF f.to # 0 \/ f.ses = 0 THEN 0 ELSE peer.in + 1
      /\ peer'.out = IF f.to # 0 THEN 0 ELSE peer.out
      /\ peer'.ses = IF f.to # 0 THEN f.to ELSE peer.ses
  BY <1>2, <1>8
<1>10. UNCHANGED <<pending, ss, reading, writing, pc, handled, sent, arrived,
                   events, open>>
  BY Zenon DEF Receive
<1>11. QED
  BY <1>4, <1>5, <1>7, <1>8, <1>9, <1>10, Zenon DEF f

\* A frame that the controller does not accept closes the connection.
LEMMA NotReceived ==
    ASSUME Receive, ~open'
    PROVE  UNCHANGED <<pending, ss, reading, writing, pc, handled, sent, arrived,
                       peer, events>>
  BY Zenon DEF Receive

LEMMA CountingStep == IInv /\ TypeOK' /\ [Next]_vars => Counting'
<1> SUFFICES ASSUME IInv, TypeOK', [Next]_vars PROVE Counting'
  OBVIOUS
<1>a. TypeOK /\ Counting
  BY DEF IInv
<1>b. /\ Len(sent) \in Nat /\ DOMAIN sent = 1..Len(sent)
      /\ \A j \in 1..Len(sent) : sent[j].ses \in Nat /\ sent[j].num \in Nat
      /\ peer.ses \in Nat /\ peer.out \in Nat
  <2>1. /\ Len(sent) \in Nat /\ DOMAIN sent = 1..Len(sent)
        /\ \A j \in 1..Len(sent) : sent[j] \in Inbound
    BY <1>a, SeqTypes
  <2>2. peer.ses \in 0..MaxSession /\ peer.out \in Nat
    BY <1>a DEF TypeOK
  <2>3. \A f \in Inbound : f.ses \in Nat /\ f.num \in Nat
    BY ConstantFacts DEF Inbound
  <2>4. QED
    BY <2>1, <2>2, <2>3, ConstantFacts
<1>1. CASE UNCHANGED <<sent, peer>>
  BY <1>a, <1>1 DEF Counting
<1>2. ASSUME NEW n \in 1..MaxIn, NEW exact \in BOOLEAN, NEW verify \in BOOLEAN,
             Send(n, exact, verify)
      PROVE  Counting'
  <2> DEFINE m == Len(sent)
  <2>1. /\ sent' \in Seq(Inbound) /\ Len(sent') = m + n
        /\ \A j \in 1..m : sent'[j] = sent[j]
        /\ n \in Nat /\ n # 0
    BY <1>2, <1>a, SendProperties, ConstantFacts
  <2>2. \A i \in 1..n : /\ sent'[m + i].ses = peer.ses
                        /\ peer.ses # 0 => sent'[m + i].num = peer.out + i - 1
                        /\ sent'[m + i].end = (i = n)
                        /\ sent'[m + i].verify = verify
    <3>1. Appended(n, verify)
      BY <1>2, <1>a, SendProperties, Zenon
    <3>2. QED
      BY <3>1, Zenon DEF Appended
  <2>3. /\ peer' = [peer EXCEPT !.out = IF peer.ses = 0 THEN 0 ELSE @ + n,
                                !.requests = @ + 1]
        /\ verify => peer.ses < MaxSession
        /\ (sent # <<>> /\ sent[m].verify) => peer.ses > sent[m].ses
    BY <1>2, Zenon DEF Send, m
  <2>4. peer'.ses = peer.ses /\ (peer.ses # 0 => peer'.out = peer.out + n)
    BY <1>a, <2>3 DEF TypeOK
  <2>5. m \in Nat /\ m = Len(sent) /\ DOMAIN sent' = 1 .. m + n
    BY <1>b, <2>1, LenProperties
  <2> HIDE DEF m
  <2>6. ASSUME NEW j \in m + 1 .. m + n
        PROVE  /\ sent'[j].ses = peer.ses
               /\ peer.ses # 0 => sent'[j].num = peer.out + (j - m) - 1
               /\ sent'[j].end => j = m + n
               /\ sent'[j].verify => verify
    <3>1. j - m \in 1..n /\ m + (j - m) = j
      BY <2>1, <2>5
    <3>2. /\ sent'[j].ses = peer.ses
          /\ peer.ses # 0 => sent'[j].num = peer.out + (j - m) - 1
          /\ sent'[j].end = (j - m = n)
          /\ sent'[j].verify = verify
      BY <2>2, <3>1
    <3>3. j - m = n => j = m + n
      BY <2>1, <2>5
    <3>4. QED
      BY <3>2, <3>3, Zenon
  <2>7. ASSUME NEW j \in 1 .. m + n
        PROVE  /\ sent'[j].ses <= peer'.ses
               /\ sent'[j].ses = peer'.ses /\ peer'.ses # 0 => sent'[j].num < peer'.out
               /\ sent'[j].verify => sent'[j].ses < MaxSession
               /\ sent'[j].verify /\ sent'[j].end /\ j # m + n
                     => sent'[j].ses < peer'.ses
    <3>1. CASE j <= m
      <4>1. j \in 1..m /\ sent'[j] = sent[j] /\ j \in DOMAIN sent
        BY <1>b, <2>1, <2>5, <3>1
      <4>2. /\ sent[j].ses <= peer.ses
            /\ sent[j].ses = peer.ses /\ peer.ses # 0 => sent[j].num < peer.out
            /\ sent[j].verify => sent[j].ses < MaxSession
            /\ sent[j].verify /\ sent[j].end /\ j # m => sent[j].ses < peer.ses
        BY <1>a, <2>5, <4>1 DEF Counting
      <4>3. sent[j].verify /\ j = m => sent[j].ses < peer.ses
        <5>1. m # 0 => sent # <<>>
          BY <2>5
        <5>2. m # 0 /\ sent[m].ses \in Nat
          BY <1>b, <2>5, <4>1
        <5>3. QED
          BY <1>b, <2>3, <5>1, <5>2
      <4>4. sent[j].verify /\ sent[j].end => sent[j].ses < peer.ses
        BY <4>2, <4>3
      <4>5. sent[j].ses = peer.ses /\ peer.ses # 0 => sent[j].num < peer'.out
        <5>1. sent[j].num \in Nat
          BY <1>b, <2>5, <4>1
        <5>2. QED
          BY <1>b, <2>1, <2>4, <4>2, <5>1
      <4>6. QED
        BY <2>4, <4>1, <4>2, <4>4, <4>5
    <3>2. CASE j > m
      <4>1. j \in m + 1 .. m + n
        BY <2>1, <2>5, <3>2
      <4>2. QED
        BY <1>b, <2>1, <2>3, <2>4, <2>5, <2>6, <4>1
    <3>3. QED
      BY <2>5, <3>1, <3>2
  <2>8. ASSUME NEW i \in 1 .. m + n, NEW j \in 1 .. m + n,
               i < j, sent'[i].ses = sent'[j].ses, sent'[i].ses # 0
        PROVE  sent'[i].num < sent'[j].num
    <3>1. CASE j <= m
      <4>1. i \in 1..m /\ j \in 1..m
        BY <2>1, <2>5, <2>8, <3>1
      <4>2. i \in DOMAIN sent /\ j \in DOMAIN sent
            /\ sent'[i] = sent[i] /\ sent'[j] = sent[j]
        BY <1>b, <2>1, <2>5, <4>1
      <4>3. QED
        BY <1>a, <2>8, <4>2 DEF Counting
    <3>2. CASE i <= m /\ j > m
      <4>1. i \in 1..m /\ j \in m + 1 .. m + n
        BY <2>1, <2>5, <3>2
      <4>2. /\ i \in DOMAIN sent /\ sent'[i] = sent[i]
            /\ sent[i].ses = peer.ses /\ peer.ses # 0
        BY <1>b, <2>1, <2>5, <2>6, <2>8, <4>1
      <4>3. sent[i].num < peer.out
        BY <1>a, <4>2 DEF Counting
      <4>4. sent'[j].num = peer.out + (j - m) - 1
        BY <2>6, <4>1, <4>2
      <4>5. sent[i].num \in Nat
        BY <1>b, <2>5, <4>1
      <4>6. QED
        BY <1>b, <2>1, <2>5, <4>1, <4>2, <4>3, <4>4, <4>5
    <3>3. CASE i > m
      <4>1. i \in m + 1 .. m + n /\ j \in m + 1 .. m + n
        BY <2>1, <2>5, <2>8, <3>3
      <4>2. /\ sent'[i].num = peer.out + (i - m) - 1
            /\ sent'[j].num = peer.out + (j - m) - 1
        BY <2>6, <2>8, <4>1
      <4>3. QED
        BY <1>b, <2>5, <2>8, <4>2
    <3>4. QED
      BY <2>5, <3>1, <3>2, <3>3
  <2>9. QED
    BY <2>1, <2>5, <2>7, <2>8 DEF Counting
<1>3. CASE Receive
  <2>1. CASE open'
    <3>1. UNCHANGED sent /\ peer.ses <= peer'.ses
      BY <1>3, <1>b, <2>1, ReceiveProperties
    <3>2. peer'.ses = peer.ses => peer'.out = peer.out
      BY <1>3, <1>b, <2>1, ReceiveProperties
    <3>3. peer'.ses \in Nat
      BY <1>3, <1>b, <2>1, ReceiveProperties
    <3>4. ASSUME NEW j \in DOMAIN sent
          PROVE  /\ sent[j].ses <= peer'.ses
                 /\ sent[j].ses = peer'.ses /\ peer'.ses # 0 => sent[j].num < peer'.out
                 /\ sent[j].verify => sent[j].ses < MaxSession
                 /\ sent[j].verify /\ sent[j].end /\ j # Len(sent)
                       => sent[j].ses < peer'.ses
      <4>1. /\ sent[j].ses <= peer.ses
            /\ sent[j].ses = peer.ses /\ peer.ses # 0 => sent[j].num < peer.out
            /\ sent[j].verify => sent[j].ses < MaxSession
            /\ sent[j].verify /\ sent[j].end /\ j # Len(sent) => sent[j].ses < peer.ses
        BY <1>a DEF Counting
      <4>2. sent[j].ses \in Nat
        BY <1>b
      <4>3. QED
        BY <1>b, <3>1, <3>2, <3>3, <4>1, <4>2
    <3>5. QED
      BY <1>a, <3>1, <3>4 DEF Counting
  <2>2. CASE ~open'
    BY <1>1, <1>3, <2>2, NotReceived
  <2>3. QED
    BY <2>1, <2>2
<1>4. CASE \/ \E n \in Length : Arrive(n)
           \/ \E i \in 1..Len(delivered) : StartHandler(i)
           \/ \E n \in 1..MaxOut : Handle(n)
           \/ AbortRead
           \/ \E w \in Notifier, n \in 1..MaxOut : StartEvent(w, n)
           \/ \E w \in Writer : Write(w)
           \/ UNCHANGED vars
  <2>1. UNCHANGED <<sent, peer>>
    BY <1>4, Zenon DEF Arrive, StartHandler, Handle, AbortRead, StartEvent, Write,
       BeginWrite, EncryptFrame, WriteSocket, vars, remote
  <2>2. QED
    BY <1>1, <2>1
<1>5. CASE \E g \in Reader : Read(g)
  <2>1. UNCHANGED <<sent, peer>>
    BY <1>5, Zenon DEF Read, BeginRead, Fill, ReadEOF, ReadPlain, ReadBuffered,
       DecryptFrame, remote
  <2>2. QED
    BY <1>1, <2>1
<1>6. QED
  BY <1>2, <1>3, <1>4, <1>5 DEF Next


-----------------------------------------------------------------------------
(* The writers *)

\* What one packet of Encrypt changes.
LEMMA EncryptProperties ==
    ASSUME IInv, NEW w \in Writer, EncryptFrame(w)
    PROVE  LET k == wr[w].ses
               new == OutFrame(w, k, outCount[k])
           IN  /\ k \in Session /\ new \in Outbound
               /\ new.ses = k /\ new.num = outCount[k] /\ new.to = wr[w].to
               /\ wr[w].at = "encrypt" /\ wr[w].left \in 1..MaxOut
               /\ wr'[w].frames = Append(wr[w].frames, new)
               /\ wr'[w].left = wr[w].left - 1
               /\ wr'[w].at = (IF wr[w].left = 1 THEN "write" ELSE "encrypt")
               /\ wr'[w].to = wr[w].to /\ wr'[w].ses = wr[w].ses
               /\ \A v \in Writer : v # w => wr'[v] = wr[v]
               /\ outCount' = [outCount EXCEPT ![k] = @ + 1]
               /\ UNCHANGED <<pending, ss, reading, pc, handled, remote, wire, events, open>>
<1> DEFINE k == wr[w].ses
           new == OutFrame(w, k, outCount[k])
<1>1. TypeOK /\ Numbered
  BY DEF IInv
<1>2. wr[w].at = "encrypt" /\ k \in Session /\ wr[w].left \in 1..MaxOut
  <2>1. wr[w].at = "encrypt" /\ k # 0 /\ wr[w].left # 0
    BY <1>1 DEF EncryptFrame, Numbered, Writing
  <2>2. QED
    BY <1>1, <2>1, WriterTypes, ConstantFacts DEF Session
<1>3. outCount[k] \in Nat
  BY <1>1, <1>2 DEF TypeOK
<1>4. new \in Outbound
  <2>1. k \in 0..MaxSession
    BY <1>2, ConstantFacts DEF Session
  <2>2. QED
    BY <1>1, <1>3, <2>1, OutFrameType
<1>5. new.ses = k /\ new.num = outCount[k] /\ new.to = wr[w].to
  BY DEF OutFrame
<1> HIDE DEF new
<1>6. /\ wr' = [wr EXCEPT ![w].frames = Append(@, new), ![w].left = @ - 1,
                          ![w].at = IF wr[w].left = 1 THEN "write" ELSE "encrypt"]
      /\ outCount' = [outCount EXCEPT ![k] = @ + 1]
      /\ UNCHANGED <<pending, ss, reading, pc, handled, remote, wire, events, open>>
  BY Zenon DEF EncryptFrame, new
<1>7. wr \in [Writer -> WriterState]
  BY <1>1, WriterTypes
<1>8. /\ wr'[w].frames = Append(wr[w].frames, new)
      /\ wr'[w].left = wr[w].left - 1
      /\ wr'[w].at = (IF wr[w].left = 1 THEN "write" ELSE "encrypt")
      /\ wr'[w].to = wr[w].to /\ wr'[w].ses = wr[w].ses
      /\ \A v \in Writer : v # w => wr'[v] = wr[v]
  BY <1>6, <1>7 DEF WriterState
<1>9. QED
  BY <1>2, <1>4, <1>5, <1>6, <1>8 DEF new

\* What the choice between the plain socket and Encrypt changes.
LEMMA BeginWriteProperties ==
    ASSUME IInv, NEW w \in Writer, BeginWrite(w)
    PROVE  LET plain == [OutFrame(w, 0, 0) EXCEPT !.end = TRUE]
           IN  /\ plain \in Outbound /\ plain.ses = 0 /\ plain.to = wr[w].to
               /\ wr[w].at = "begin" /\ wr[w].left # 0 /\ wr[w].frames = <<>>
               /\ wr'[w].to = wr[w].to
               /\ ss = 0 => /\ wr'[w].at = "write" /\ wr'[w].left = 0
                            /\ wr'[w].frames = <<plain>>
               /\ ss # 0 => /\ wr'[w].at = "encrypt" /\ wr'[w].left = wr[w].left
                            /\ wr'[w].ses = ss /\ wr'[w].frames = <<>>
               /\ \A v \in Writer : v # w => wr'[v] = wr[v]
               /\ UNCHANGED <<pending, ss, reading, outCount, pc, handled, remote,
                              wire, events, open>>
<1> DEFINE plain == [OutFrame(w, 0, 0) EXCEPT !.end = TRUE]
           frames == <<plain>>
<1>1. TypeOK /\ Numbered
  BY DEF IInv
<1>2. plain \in Outbound
  <2>1. 0 \in 0..MaxSession /\ 0 \in Nat
    BY ConstantFacts
  <2>2. QED
    BY <1>1, <2>1, OutFrameType, Zenon
<1>3. plain.ses = 0 /\ plain.to = wr[w].to
  BY DEF OutFrame
<1>4. wr[w].at = "begin" /\ wr[w].left # 0 /\ wr[w].frames = <<>>
  <2>1. wr[w].at = "begin"
    BY Zenon DEF BeginWrite
  <2>2. QED
    BY <1>1, <2>1 DEF Numbered, Writing
<1> HIDE DEF plain
<1> HIDE DEF frames
<1>5. wr' = [wr EXCEPT ![w] =
                IF ss = 0 THEN [wr[w] EXCEPT !.at = "write", !.left = 0, !.frames = frames]
                          ELSE [wr[w] EXCEPT !.at = "encrypt", !.ses = ss]]
      /\ UNCHANGED <<pending, ss, reading, outCount, pc, handled, remote, wire,
                     events, open>>
  BY Zenon DEF BeginWrite, frames, plain
<1>6. wr \in [Writer -> WriterState]
  BY <1>1, WriterTypes
<1>7. /\ wr'[w] = IF ss = 0
                  THEN [wr[w] EXCEPT !.at = "write", !.left = 0, !.frames = frames]
                  ELSE [wr[w] EXCEPT !.at = "encrypt", !.ses = ss]
      /\ \A v \in Writer : v # w => wr'[v] = wr[v]
  BY <1>5, <1>6
<1>8. wr[w] \in WriterState
  BY <1>6
<1>9. ss = 0 => /\ wr'[w].at = "write" /\ wr'[w].left = 0
                /\ wr'[w].frames = frames /\ wr'[w].to = wr[w].to
  BY <1>7, <1>8 DEF WriterState
<1>10. ss # 0 => /\ wr'[w].at = "encrypt" /\ wr'[w].left = wr[w].left
                 /\ wr'[w].ses = ss /\ wr'[w].frames = wr[w].frames
                 /\ wr'[w].to = wr[w].to
  BY <1>7, <1>8 DEF WriterState
<1>11. QED
  BY <1>2, <1>3, <1>4, <1>5, <1>7, <1>9, <1>10 DEF frames, plain

\* What the Write of the socket changes.
LEMMA WriteSocketProperties ==
    ASSUME IInv, NEW w \in Writer, WriteSocket(w)
    PROVE  /\ wr[w].at = "write" /\ wr[w].frames # <<>>
           /\ wr[w].frames \in Seq(Outbound) /\ Len(wr[w].frames) \in Nat \ {0}
           /\ Len(wire') = Len(wire) + Len(wr[w].frames)
           /\ \A i \in 1..Len(wire) : wire'[i] = wire[i]
           /\ \A i \in 1..Len(wr[w].frames) : wire'[Len(wire) + i] = wr[w].frames[i]
           /\ wr'[w] = IdleWriter
           /\ \A v \in Writer : v # w => wr'[v] = wr[v]
           /\ pc' = (IF w = "serve" THEN "abort" ELSE pc)
           /\ UNCHANGED <<pending, ss, reading, outCount, handled, remote, events, open>>
<1>1. TypeOK /\ Numbered
  BY DEF IInv
<1>2. /\ wr[w].at = "write" /\ wire' = wire \o wr[w].frames
      /\ wr' = [wr EXCEPT ![w] = IdleWriter]
      /\ pc' = (IF w = "serve" THEN "abort" ELSE pc)
      /\ UNCHANGED <<pending, ss, reading, outCount, handled, remote, events, open>>
  BY DEF WriteSocket
<1>3. wr[w].frames # <<>>
  BY <1>1, <1>2 DEF Numbered, Writing
<1>4. wr[w].frames \in Seq(Outbound) /\ wire \in Seq(Outbound)
  BY <1>1, WriterTypes DEF TypeOK
<1>5. Len(wr[w].frames) \in Nat \ {0} /\ Len(wire) \in Nat
  BY <1>3, <1>4, EmptySeq, LenProperties
<1> DEFINE more == wr[w].frames
<1> HIDE DEF more
<1>6. /\ Len(wire') = Len(wire) + Len(more)
      /\ \A i \in 1 .. Len(wire) + Len(more) :
            wire'[i] = IF i <= Len(wire) THEN wire[i] ELSE more[i - Len(wire)]
  <2>1. wire' = wire \o more /\ more \in Seq(Outbound) /\ wire \in Seq(Outbound)
    BY <1>2, <1>4 DEF more
  <2>2. QED
    BY <2>1, ConcatProperties
<1>7. Len(more) \in Nat
  BY <1>5 DEF more
<1>8. \A i \in 1..Len(wire) : wire'[i] = wire[i]
  BY <1>5, <1>6, <1>7
<1>9. ASSUME NEW i \in 1..Len(more) PROVE wire'[Len(wire) + i] = more[i]
  <2>1. /\ Len(wire) + i \in 1 .. Len(wire) + Len(more)
        /\ ~(Len(wire) + i <= Len(wire))
        /\ (Len(wire) + i) - Len(wire) = i
    BY <1>5, <1>7
  <2>2. QED
    BY <1>6, <2>1
<1>10. wr'[w] = IdleWriter /\ \A v \in Writer : v # w => wr'[v] = wr[v]
  BY <1>1, <1>2, WriterTypes
<1>11. QED
  BY <1>2, <1>3, <1>4, <1>5, <1>6, <1>8, <1>9, <1>10 DEF more


\* What a handler changes.
LEMMA HandleProperties ==
    ASSUME IInv, NEW n \in 1..MaxOut, Handle(n)
    PROVE  LET f  == sent[Handled]
               to == IF f.verify THEN f.ses + 1 ELSE 0
           IN  /\ handled # 0 /\ Handled \in 1..Len(sent) /\ f \in Inbound /\ f.end
               /\ pc = "handle" /\ pc' = "flush"
               /\ to # 0 => n = 1
               /\ pending' = IF to # 0 THEN to ELSE pending
               /\ wr'["serve"].at = "begin" /\ wr'["serve"].left = n
               /\ wr'["serve"].to = to /\ wr'["serve"].frames = <<>>
               /\ \A v \in Writer : v # "serve" => wr'[v] = wr[v]
               /\ UNCHANGED <<ss, reading, outCount, handled, remote, wire, events, open>>
<1> DEFINE f  == sent[Handled]
           to == IF f.verify THEN f.ses + 1 ELSE 0
           state == [IdleWriter EXCEPT !.at = "begin", !.left = n, !.to = to]
<1>1. TypeOK /\ Stream
  BY DEF IInv
<1>2. pc = "handle"
  BY DEF Handle
<1>3. handled # 0 /\ f.end
  BY <1>1, <1>2 DEF Stream
<1>4. Handled \in 1..Len(sent) /\ f \in Inbound
  BY <1>1, <1>3, HandledFrame
<1>5. Handled = FrameOf(delivered[handled].unit)
  BY <1>3 DEF Handled
<1>6. /\ to # 0 => n = 1
      /\ pending' = IF to # 0 THEN to ELSE pending
      /\ wr' = [wr EXCEPT !["serve"] = state]
      /\ pc' = "flush"
      /\ UNCHANGED <<ss, reading, outCount, handled, remote, wire, events, open>>
  BY <1>5 DEF Handle
<1> HIDE DEF to
<1>7. state.at = "begin" /\ state.left = n /\ state.to = to /\ state.frames = <<>>
  BY DEF IdleWriter
<1> HIDE DEF state
<1>8. wr'["serve"] = state /\ \A v \in Writer : v # "serve" => wr'[v] = wr[v]
  BY <1>1, <1>6, WriterTypes, ConstantFacts
<1>9. QED
  BY <1>2, <1>3, <1>4, <1>6, <1>7, <1>8 DEF to

\* What a notification changes.
LEMMA StartEventProperties ==
    ASSUME IInv, NEW w \in Notifier, NEW n \in 1..MaxOut, StartEvent(w, n)
    PROVE  /\ wr[w] = IdleWriter /\ w \in Writer /\ w # "serve"
           /\ wr'[w].at = "begin" /\ wr'[w].left = n /\ n # 0
           /\ wr'[w].to = 0 /\ wr'[w].frames = <<>>
           /\ \A v \in Writer : v # w => wr'[v] = wr[v]
           /\ UNCHANGED <<pending, ss, reading, outCount, pc, handled, remote, wire, open>>
<1> DEFINE state == [IdleWriter EXCEPT !.at = "begin", !.left = n]
<1>1. /\ wr[w] = IdleWriter
      /\ wr' = [wr EXCEPT ![w] = state]
      /\ UNCHANGED <<pending, ss, reading, outCount, pc, handled, remote, wire, open>>
  BY DEF StartEvent
<1>2. w \in Writer /\ w # "serve" /\ n # 0
  BY ConstantFacts
<1>3. state.at = "begin" /\ state.left = n /\ state.to = 0 /\ state.frames = <<>>
  BY DEF IdleWriter
<1> HIDE DEF state
<1>4. wr'[w] = state /\ \A v \in Writer : v # w => wr'[v] = wr[v]
  BY <1>1, <1>2, WriterTypes DEF IInv
<1>5. QED
  BY <1>1, <1>2, <1>3, <1>4


-----------------------------------------------------------------------------
(* One response starts a session *)

\* A handler begins its response when no other starts a session: it is the one
\* of the last request.
LEMMA ResponseStep == IInv /\ TypeOK' /\ [Next]_vars /\ open' => StartingResponse'
<1> SUFFICES ASSUME IInv, TypeOK', [Next]_vars, open' PROVE StartingResponse'
  OBVIOUS
<1>o. open
  BY Zenon DEF Next, Send, Arrive, Receive, Read, BeginRead, Fill, ReadEOF, ReadPlain,
     ReadBuffered, DecryptFrame, StartHandler, Handle, AbortRead, StartEvent, Write,
     BeginWrite, EncryptFrame, WriteSocket, vars
<1>a. TypeOK /\ StartingResponse /\ OneAhead
  BY <1>o DEF IInv, Upgrading
<1>b. /\ "serve" \in Writer /\ \A w \in Notifier : w \in Writer /\ w # "serve"
      /\ \A w \in Writer : w # "serve" => w \in Notifier
  BY ConstantFacts DEF Writer
<1>c. /\ peer.seen \in Nat /\ peer.ses \in Nat /\ Len(wire) \in Nat
      /\ \A i \in Unread : i \in 1..Len(wire)
  <2>1. peer.seen \in Nat /\ peer.ses \in 0..MaxSession /\ Len(wire) \in Nat
    BY <1>a, SeqTypes DEF TypeOK
  <2>2. QED
    BY <2>1, ConstantFacts DEF Unread
<1>1. ASSUME UNCHANGED <<wr, wire>>, peer'.seen = peer.seen, peer'.ses = peer.ses,
             pc' \in {pc, "handle", "read", "abort"},
             pc \in {"handle", "read", "abort"} \/ pc' = pc
      PROVE  StartingResponse'
  BY <1>a, <1>1 DEF StartingResponse, Unread
<1>2. ASSUME NEW n \in 1..MaxIn, NEW exact \in BOOLEAN, NEW verify \in BOOLEAN,
             Send(n, exact, verify)
      PROVE  StartingResponse'
  <2>1. /\ peer' = [peer EXCEPT !.out = IF peer.ses = 0 THEN 0 ELSE @ + n,
                                !.requests = @ + 1]
        /\ UNCHANGED <<wr, wire, pc>>
    BY <1>2, Zenon DEF Send, writing
  <2>2. peer'.seen = peer.seen /\ peer'.ses = peer.ses
    BY <1>a, <2>1 DEF TypeOK
  <2>3. QED
    BY <1>1, <2>1, <2>2
<1>3. CASE Receive
  <2> DEFINE f == wire[peer.seen + 1]
  <2>1. /\ peer.seen + 1 \in 1..Len(wire) /\ peer'.seen = peer.seen + 1
        /\ peer'.ses = IF f.to # 0 THEN f.to ELSE peer.ses
        /\ f.to # 0 => f.to = peer.ses + 1
        /\ UNCHANGED <<wr, wire, pc>>
    BY <1>3, ReceiveProperties DEF writing
  <2>2. peer.seen + 1 \in Unread /\ Unread' = Unread \ {peer.seen + 1}
    BY <1>c, <2>1 DEF Unread
  <2> HIDE DEF f
  <2>3. peer'.seen <= Len(wire)
    BY <1>c, <2>1
  <2>4. CASE f.to = 0
    BY <1>a, <2>1, <2>2, <2>3, <2>4 DEF StartingResponse
  <2>5. CASE f.to # 0
    <3>1. wr["serve"].to = 0
      BY <1>a, <2>2, <2>5 DEF StartingResponse, f
    <3>2. \A i \in Unread' : wire[i].to = 0
      BY <1>a, <2>2, <2>5 DEF StartingResponse, f
    <3>3. QED
      BY <1>a, <2>1, <2>2, <2>3, <3>1, <3>2 DEF StartingResponse
  <2>6. QED
    BY <2>4, <2>5
<1>4. CASE \/ \E n \in Length : Arrive(n)
           \/ \E g \in Reader : Read(g)
           \/ UNCHANGED vars
  <2>1. UNCHANGED <<wr, wire, peer, pc>>
    BY <1>4, Zenon DEF Arrive, Read, BeginRead, Fill, ReadEOF, ReadPlain, ReadBuffered,
       DecryptFrame, vars, writing, remote
  <2>2. QED
    BY <1>1, <2>1
<1>5. CASE \/ \E i \in 1..Len(delivered) : StartHandler(i)
           \/ AbortRead
  <2>1. /\ UNCHANGED <<wr, wire, peer>>
        /\ pc \in {"read", "abort"} /\ pc' \in {"handle", "read"}
    BY <1>5 DEF StartHandler, AbortRead, writing, remote
  <2>2. QED
    BY <1>1, <2>1
<1>6. ASSUME NEW n \in 1..MaxOut, Handle(n) PROVE StartingResponse'
  <2> DEFINE f == sent[Handled]
             to == IF f.verify THEN f.ses + 1 ELSE 0
  <2>1. /\ Handled \in 1..Len(sent) /\ f \in Inbound /\ f.end
        /\ pc = "handle" /\ pc' = "flush"
        /\ to # 0 => n = 1
        /\ wr'["serve"].left = n
        /\ wr'["serve"].to = to /\ wr'["serve"].frames = <<>>
        /\ \A v \in Writer : v # "serve" => wr'[v] = wr[v]
        /\ UNCHANGED <<wire, peer>>
    BY <1>6, HandleProperties DEF remote
  <2>2. to # 0 => to = peer.ses + 1
    <3>1. f.verify => f.ses = peer.ses
      BY <1>a, <2>1, SeqTypes DEF OneAhead
    <3>2. QED
      BY <3>1
  <2>3. \A i \in Unread : wire[i].to = 0
    BY <1>a, <2>1 DEF OneAhead, Starting
  <2> HIDE DEF f, to
  <2>4. \A w \in Writer : \A i \in DOMAIN wr'[w].frames : wr'[w].frames[i].to = wr'[w].to
    BY <1>a, <2>1 DEF StartingResponse
  <2>5. \A w \in Notifier : wr'[w].to = 0
    BY <1>a, <1>b, <2>1 DEF StartingResponse
  <2>6. wr'["serve"].to # 0 => wr'["serve"].left + Len(wr'["serve"].frames) <= 1
    BY <2>1
  <2>7. UNCHANGED Unread
    BY <2>1 DEF Unread
  <2>8. QED
    BY <1>a, <2>1, <2>2, <2>3, <2>4, <2>5, <2>6, <2>7 DEF StartingResponse
<1>7. ASSUME NEW w \in Notifier, NEW n \in 1..MaxOut, StartEvent(w, n)
      PROVE  StartingResponse'
  <2>1. /\ wr'[w].to = 0 /\ wr'[w].frames = <<>>
        /\ \A v \in Writer : v # w => wr'[v] = wr[v]
        /\ UNCHANGED <<wire, peer, pc>>
    BY <1>7, StartEventProperties DEF remote
  <2>2. UNCHANGED Unread /\ wr'["serve"] = wr["serve"]
    BY <1>b, <2>1 DEF Unread
  <2>3. /\ \A v \in Writer : \A i \in DOMAIN wr'[v].frames : wr'[v].frames[i].to = wr'[v].to
        /\ \A v \in Notifier : wr'[v].to = 0
    BY <1>a, <1>b, <2>1 DEF StartingResponse
  <2>4. QED
    BY <1>a, <2>1, <2>2, <2>3 DEF StartingResponse
<1>8. ASSUME NEW w \in Writer,
             /\ wr[w].at # "idle" /\ wr'[w].to = wr[w].to
             /\ wr[w].to # 0 =>
                   wr'[w].left + Len(wr'[w].frames) <= 1
             /\ \A i \in DOMAIN wr'[w].frames : wr'[w].frames[i].to = wr'[w].to
             /\ \A v \in Writer : v # w => wr'[v] = wr[v]
             /\ UNCHANGED <<wire, peer, pc>>
      PROVE  StartingResponse'
  <2>1. UNCHANGED Unread
    BY <1>8 DEF Unread
  <2>2. /\ \A v \in Writer : \A i \in DOMAIN wr'[v].frames : wr'[v].frames[i].to = wr'[v].to
        /\ \A v \in Notifier : wr'[v].to = 0
    BY <1>a, <1>b, <1>8 DEF StartingResponse
  <2>3. wr'["serve"].to # 0 => wr'["serve"].left + Len(wr'["serve"].frames) <= 1
    BY <1>a, <1>b, <1>8 DEF StartingResponse
  <2>4. wr'["serve"].to = wr["serve"].to
    BY <1>b, <1>8
  <2>5. pc' \in {"handle", "read", "abort"} => wr'["serve"] = IdleWriter
    <3>1. CASE w = "serve"
      <4>1. wr["serve"] # IdleWriter
        BY <1>8, <3>1 DEF IdleWriter
      <4>2. QED
        BY <1>a, <1>8, <4>1 DEF StartingResponse
    <3>2. CASE w # "serve"
      BY <1>a, <1>b, <1>8, <3>2 DEF StartingResponse
    <3>3. QED
      BY <3>1, <3>2
  <2>6. QED
    BY <1>a, <1>8, <2>1, <2>2, <2>3, <2>4, <2>5 DEF StartingResponse
<1>9. ASSUME NEW w \in Writer, BeginWrite(w) PROVE StartingResponse'
  <2> DEFINE plain == [OutFrame(w, 0, 0) EXCEPT !.end = TRUE]
  <2>1. /\ plain.to = wr[w].to
        /\ wr[w].at = "begin" /\ wr[w].frames = <<>>
        /\ wr'[w].to = wr[w].to
        /\ ss = 0 => /\ wr'[w].left = 0 /\ wr'[w].frames = <<plain>>
        /\ ss # 0 => /\ wr'[w].left = wr[w].left /\ wr'[w].frames = <<>>
        /\ \A v \in Writer : v # w => wr'[v] = wr[v]
        /\ UNCHANGED <<wire, peer, pc>>
    BY <1>9, BeginWriteProperties DEF remote
  <2> HIDE DEF plain
  <2>2. \A i \in DOMAIN wr'[w].frames : wr'[w].frames[i].to = wr'[w].to
    <3>1. CASE ss = 0
      <4>1. DOMAIN wr'[w].frames = {1} /\ wr'[w].frames[1] = plain
        BY <2>1, <3>1
      <4>2. QED
        BY <2>1, <4>1
    <3>2. CASE ss # 0
      BY <2>1, <3>2
    <3>3. QED
      BY <3>1, <3>2
  <2>3. wr[w].to # 0 => wr'[w].left + Len(wr'[w].frames) <= 1
    <3>1. CASE ss = 0
      <4>1. wr'[w].left = 0 /\ Len(wr'[w].frames) = 1
        BY <2>1, <3>1
      <4>2. QED
        BY <4>1
    <3>2. CASE ss # 0
      BY <1>a, <1>b, <2>1, <3>2 DEF StartingResponse
    <3>3. QED
      BY <3>1, <3>2
  <2>4. QED
    BY <1>8, <2>1, <2>2, <2>3
<1>10. ASSUME NEW w \in Writer, EncryptFrame(w) PROVE StartingResponse'
  <2> DEFINE new == OutFrame(w, wr[w].ses, outCount[wr[w].ses])
  <2>1. /\ new.to = wr[w].to /\ new \in Outbound
        /\ wr[w].at = "encrypt" /\ wr[w].left \in 1..MaxOut
        /\ wr'[w].frames = Append(wr[w].frames, new)
        /\ wr'[w].left = wr[w].left - 1
        /\ wr'[w].to = wr[w].to
        /\ \A v \in Writer : v # w => wr'[v] = wr[v]
        /\ UNCHANGED <<wire, peer, pc>>
    BY <1>10, EncryptProperties DEF remote
  <2> HIDE DEF new
  <2>2. /\ wr[w].frames \in Seq(Outbound) /\ Len(wr[w].frames) \in Nat
        /\ DOMAIN wr[w].frames = 1..Len(wr[w].frames)
    BY <1>a, WriterTypes, LenProperties
  <2>3. /\ Len(wr'[w].frames) = Len(wr[w].frames) + 1
        /\ DOMAIN wr'[w].frames = 1 .. Len(wr[w].frames) + 1
        /\ \A i \in 1..Len(wr[w].frames) : wr'[w].frames[i] = wr[w].frames[i]
        /\ wr'[w].frames[Len(wr[w].frames) + 1] = new
    BY <2>1, <2>2, AppendProperties, LenProperties
  <2>4. \A i \in DOMAIN wr'[w].frames : wr'[w].frames[i].to = wr'[w].to
    <3>1. ASSUME NEW i \in 1 .. Len(wr[w].frames) + 1
          PROVE  wr'[w].frames[i].to = wr[w].to
      <4>1. CASE i \in 1..Len(wr[w].frames)
        BY <1>a, <2>2, <2>3, <4>1 DEF StartingResponse
      <4>2. CASE i = Len(wr[w].frames) + 1
        BY <2>1, <2>3, <4>2
      <4>3. QED
        BY <2>2, <4>1, <4>2
    <3>2. QED
      BY <2>1, <2>3, <3>1
  <2>5. wr[w].to # 0 => wr'[w].left + Len(wr'[w].frames) <= 1
    <3>1. wr[w].to # 0 => wr[w].left + Len(wr[w].frames) <= 1
      BY <1>a, <1>b DEF StartingResponse
    <3>2. wr[w].left \in Nat
      BY <2>1, ConstantFacts
    <3>3. QED
      BY <2>1, <2>2, <2>3, <3>1, <3>2
  <2>6. QED
    BY <1>8, <2>1, <2>4, <2>5
<1>11. ASSUME NEW w \in Writer, WriteSocket(w) PROVE StartingResponse'
  <2> DEFINE m == Len(wire)
             k == Len(wr[w].frames)
  <2>1. /\ wr[w].at = "write"
        /\ k \in Nat \ {0}
        /\ Len(wire') = m + k
        /\ \A i \in 1..m : wire'[i] = wire[i]
        /\ \A i \in 1..k : wire'[m + i] = wr[w].frames[i]
        /\ wr'[w] = IdleWriter
        /\ \A v \in Writer : v # w => wr'[v] = wr[v]
        /\ pc' = (IF w = "serve" THEN "abort" ELSE pc)
        /\ UNCHANGED peer
    BY <1>11, WriteSocketProperties DEF remote
  <2>2. wr[w].frames \in Seq(Outbound) /\ DOMAIN wr[w].frames = 1..k
        /\ wr[w].left \in 0..MaxOut
    BY <1>a, WriterTypes, LenProperties
  <2>3. m \in Nat /\ m = Len(wire)
    BY <1>c
  <2> HIDE DEF m, k
  <2>4. ASSUME NEW i \in m + 1 .. m + k PROVE wire'[i].to = wr[w].to
    <3>1. i - m \in 1..k /\ m + (i - m) = i
      BY <2>1, <2>3
    <3>2. wire'[i] = wr[w].frames[i - m]
      BY <2>1, <3>1
    <3>3. i - m \in DOMAIN wr[w].frames
      BY <2>2, <3>1
    <3>4. wr[w].frames[i - m].to = wr[w].to
      BY <1>a, <3>3 DEF StartingResponse
    <3>5. QED
      BY <3>2, <3>4
  <2>5. \A i \in Unread' : (i \in Unread /\ wire'[i] = wire[i]) \/ i \in m + 1 .. m + k
    BY <1>c, <2>1, <2>3 DEF Unread
  <2>6. /\ \A v \in Writer : \A i \in DOMAIN wr'[v].frames : wr'[v].frames[i].to = wr'[v].to
        /\ \A v \in Notifier : wr'[v].to = 0
    BY <1>a, <1>b, <2>1 DEF StartingResponse, IdleWriter
  <2>7. peer.seen <= m + k
    BY <1>a, <1>c, <2>1, <2>3 DEF StartingResponse
  <2>8. CASE wr[w].to # 0
    <3>1. w = "serve"
      BY <1>a, <1>b, <2>8 DEF StartingResponse
    <3>2. k = 1 /\ wr[w].to = peer.ses + 1 /\ \A i \in Unread : wire[i].to = 0
      <4>1. wr[w].left + k <= 1 /\ wr[w].left \in Nat
        BY <1>a, <2>2, <2>8, <3>1, ConstantFacts DEF StartingResponse, k
      <4>2. QED
        BY <1>a, <2>1, <2>8, <3>1, <4>1 DEF StartingResponse
    <3>3. \A i \in Unread' : wire'[i].to # 0 => i = m + 1 /\ wire'[i].to = peer.ses + 1
      BY <2>3, <2>4, <2>5, <3>2
    <3>4. wr'["serve"].to = 0
      BY <2>1, <3>1 DEF IdleWriter
    <3>5. QED
      BY <2>1, <2>6, <2>7, <3>1, <3>3, <3>4 DEF StartingResponse
  <2>9. CASE wr[w].to = 0
    <3>1. \A i \in Unread' : wire'[i].to # 0 => i \in Unread /\ wire'[i] = wire[i]
      BY <2>4, <2>5, <2>9
    <3>2. wr'["serve"].to # 0 => wr'["serve"] = wr["serve"]
      BY <1>b, <2>1 DEF IdleWriter
    <3>3. pc' \in {"handle", "read", "abort"} => wr'["serve"] = IdleWriter
      BY <1>a, <1>b, <2>1 DEF StartingResponse
    <3>4. \A i, j \in Unread' : wire'[i].to # 0 /\ wire'[j].to # 0 => i = j
      BY <1>a, <3>1 DEF StartingResponse
    <3>5. \A i \in Unread' : wire'[i].to # 0 => wire'[i].to = peer.ses + 1
      BY <1>a, <3>1 DEF StartingResponse
    <3>6. wr'["serve"].to # 0 => /\ wr'["serve"].to = peer.ses + 1
                                 /\ wr'["serve"].left + Len(wr'["serve"].frames) <= 1
                                 /\ \A i \in Unread' : wire'[i].to = 0
      BY <1>a, <3>1, <3>2 DEF StartingResponse
    <3>7. QED
      BY <2>1, <2>6, <2>7, <3>3, <3>4, <3>5, <3>6 DEF StartingResponse
  <2>10. QED
    BY <2>8, <2>9
<1>12. QED
  BY <1>2, <1>3, <1>4, <1>5, <1>6, <1>7, <1>9, <1>10, <1>11 DEF Next, Write


-----------------------------------------------------------------------------
(* The accessory is one session ahead at most *)

\* Reading adds to what was delivered, and does not change the session in use.
LEMMA ReadKeeps ==
    ASSUME IInv, NEW g \in Reader, Read(g)
    PROVE  /\ \A i \in 1..Len(delivered) : delivered'[i] = delivered[i]
           /\ UNCHANGED <<Handled, Current, handled, pc, writing, remote, events>>
<1>a. TypeOK /\ Turns
  BY DEF IInv
<1>1. UNCHANGED <<handled, pc, writing, remote, events>>
  BY Zenon DEF Read, BeginRead, Fill, ReadEOF, ReadPlain, ReadBuffered, DecryptFrame
<1>2. \A i \in 1..Len(delivered) : delivered'[i] = delivered[i]
  <2>1. CASE UNCHANGED delivered
    BY <2>1
  <2>2. ASSUME NEW n \in Length, ReadPlain(g, n)
        PROVE  \A i \in 1..Len(delivered) : delivered'[i] = delivered[i]
    <3>1. /\ Deliver(g, Units(taken, taken + n), sent[FrameOf(taken + n)].ses # 0)
          /\ n \in Nat /\ taken \in Nat
      BY <1>a, <2>2, SeqTypes DEF ReadPlain, Length
    <3>2. Units(taken, taken + n) \in Seq(Nat)
      <4>1. taken + n \in Nat /\ taken <= taken + n
        BY <3>1
      <4>2. QED
        BY <3>1, <4>1, UnitsProperties
    <3>3. QED
      BY <1>a, <3>1, <3>2, DeliverProperties
  <2>3. ASSUME NEW n \in Length, NEW data \in Seq(Nat), ReturnFrom(g, data, n)
        PROVE  \A i \in 1..Len(delivered) : delivered'[i] = delivered[i]
    BY <1>a, <2>3, ReturnFromProperties DEF Length
  <2>4. ASSUME NEW n \in Length, ReadBuffered(g, n)
        PROVE  \A i \in 1..Len(delivered) : delivered'[i] = delivered[i]
    <3>1. ReturnFrom(g, readBuf[1], n) /\ readBuf # <<>>
      BY <1>a, <2>4 DEF ReadBuffered, Turns
    <3>2. QED
      BY <1>a, <2>3, <3>1, SeqTypes
  <2>5. ASSUME NEW n \in Length, DecryptFrame(g, n)
        PROVE  \A i \in 1..Len(delivered) : delivered'[i] = delivered[i]
    <3>1. \/ UNCHANGED delivered
          \/ ReturnFrom(g, dec.out \o SubSeq(dec.ahead, 1, 2), n)
      BY <2>5, Zenon DEF DecryptFrame
    <3>2. dec.out \o SubSeq(dec.ahead, 1, 2) \in Seq(Nat)
      BY <2>5, Opened DEF DecryptFrame
    <3>3. QED
      BY <2>3, <3>1, <3>2
  <2>6. CASE BeginRead(g) \/ Fill(g) \/ ReadEOF(g)
    <3>1. UNCHANGED delivered
      BY <2>6, Zenon DEF BeginRead, Fill, ReadEOF
    <3>2. QED
      BY <3>1
  <2>7. QED
    BY <2>2, <2>4, <2>5, <2>6 DEF Read
<1>3. UNCHANGED Handled
  <2>1. handled # 0 => handled \in 1..Len(delivered)
    BY <1>a, SeqTypes DEF TypeOK
  <2>2. QED
    BY <1>1, <1>2, <2>1 DEF Handled
<1>4. UNCHANGED Current
  <2>1. CASE BeginRead(g)
    BY <2>1 DEF BeginRead, Current
  <2>2. CASE UNCHANGED <<pending, ss>>
    BY <2>2 DEF Current
  <2>3. QED
    BY <2>1, <2>2, Zenon DEF Read, Fill, ReadEOF, ReadPlain, ReadBuffered, DecryptFrame
<1>5. QED
  BY <1>1, <1>2, <1>3, <1>4

\* While a session starts, all that was sent has been handled.
LEMMA NothingLeft ==
    ASSUME IInv, open, Starting
    PROVE  Kept = 2 * Len(sent) /\ Gone = 2 * Len(sent) /\ taken = 2 * Len(sent)
<1>1. TypeOK /\ Stream /\ OneAhead
  BY DEF IInv, Upgrading
<1>2. handled # 0 /\ Handled = Len(sent)
  BY <1>1 DEF OneAhead
<1>3. delivered[handled].unit = 2 * Len(sent)
  BY <1>1, <1>2, HandledFrame
<1>4. handled \in 1..Len(delivered) /\ Len(sent) \in Nat
  BY <1>1, <1>2, SeqTypes DEF TypeOK
<1>5. 2 * Len(sent) <= Last
  BY <1>1, <1>3, <1>4, Positions
<1>6. /\ Last \in 0..taken /\ Last <= Kept /\ Kept <= Gone /\ Gone \in 0..taken
      /\ taken \in Nat /\ taken <= 2 * Len(sent) /\ Kept \in Nat
  BY <1>1, Positions
<1>7. QED
  BY <1>4, <1>5, <1>6

\* The controller sends nothing while a session starts.
LEMMA NotWhileStarting ==
    ASSUME IInv, NEW n \in 1..MaxIn, NEW exact \in BOOLEAN, NEW verify \in BOOLEAN,
           Send(n, exact, verify)
    PROVE  open /\ ~Starting
<1>1. open /\ (sent # <<>> /\ sent[Len(sent)].verify => peer.ses > sent[Len(sent)].ses)
  BY Zenon DEF Send
<1>2. TypeOK /\ Stream /\ OneAhead
  BY <1>1 DEF IInv, Upgrading
<1>3. ASSUME Starting PROVE FALSE
  <2>1. /\ Handled = Len(sent) /\ handled # 0
        /\ sent[Handled].verify /\ sent[Handled].ses = peer.ses
    BY <1>2, <1>3 DEF OneAhead
  <2>2. Handled \in 1..Len(sent) /\ Len(sent) \in Nat
    BY <1>2, <2>1, HandledFrame, SeqTypes
  <2>3. sent # <<>>
    BY <2>2
  <2>4. peer.ses \in Nat
    BY <1>2, ConstantFacts DEF TypeOK
  <2>5. peer.ses > peer.ses
    BY <1>1, <2>1, <2>3
  <2>6. QED
    BY <2>4, <2>5
<1>4. QED
  BY <1>1, <1>3

\* The response that starts a session goes from the serve loop to the wire.
LEMMA WriteSocketStarting ==
    ASSUME IInv, open, NEW w \in Writer, WriteSocket(w)
    PROVE  Starting' <=> Starting
<1>a. TypeOK /\ StartingResponse
  BY DEF IInv, Upgrading
<1>b. /\ "serve" \in Writer /\ \A v \in Notifier : v \in Writer /\ v # "serve"
      /\ \A v \in Writer : v # "serve" => v \in Notifier
  BY ConstantFacts DEF Writer
<1>c. peer.seen \in Nat /\ Len(wire) \in Nat
  BY <1>a, SeqTypes DEF TypeOK
<1> DEFINE m == Len(wire)
           k == Len(wr[w].frames)
<1>1. /\ k \in Nat \ {0}
      /\ Len(wire') = m + k
      /\ \A i \in 1..m : wire'[i] = wire[i]
      /\ \A i \in 1..k : wire'[m + i] = wr[w].frames[i]
      /\ wr'[w] = IdleWriter
      /\ \A v \in Writer : v # w => wr'[v] = wr[v]
      /\ UNCHANGED peer
  BY WriteSocketProperties DEF remote
<1>2. DOMAIN wr[w].frames = 1..k
  BY <1>a, WriterTypes, LenProperties
<1>3. m \in Nat /\ m = Len(wire)
  BY <1>c
<1>4. \A i \in 1..k : wr[w].frames[i].to = wr[w].to
  BY <1>a, <1>2 DEF StartingResponse
<1> HIDE DEF m, k
<1>6. Starting => Starting'
  <2>1. CASE w = "serve" /\ wr["serve"].to # 0
    <3>1. m + 1 \in Unread'
      BY <1>a, <1>c, <1>1, <1>3 DEF Unread, StartingResponse
    <3>2. wire'[m + 1] = wr[w].frames[1] /\ wr[w].frames[1].to = wr[w].to
      BY <1>1, <1>4
    <3>3. QED
      BY <2>1, <3>1, <3>2 DEF Starting
  <2>2. CASE w # "serve" /\ wr["serve"].to # 0
    BY <1>b, <1>1, <2>2 DEF Starting
  <2>3. ASSUME NEW i \in Unread, wire[i].to # 0 PROVE Starting'
    <3>1. i \in Unread' /\ wire'[i] = wire[i]
      BY <1>c, <1>1, <1>3 DEF Unread
    <3>2. QED
      BY <2>3, <3>1 DEF Starting
  <2>4. QED
    BY <2>1, <2>2, <2>3 DEF Starting
<1>7. Starting' => Starting
  <2>1. wr'["serve"].to # 0 => wr["serve"].to # 0
    BY <1>b, <1>1 DEF IdleWriter
  <2>2. ASSUME NEW i \in Unread', wire'[i].to # 0 PROVE Starting
    <3>1. CASE i <= m
      <4>1. i \in Unread /\ wire'[i] = wire[i]
        BY <1>c, <1>1, <1>3, <3>1 DEF Unread
      <4>2. QED
        BY <2>2, <4>1 DEF Starting
    <3>2. CASE i > m
      <4>1. i - m \in 1..k /\ m + (i - m) = i
        BY <1>c, <1>1, <1>3, <3>2 DEF Unread
      <4>2. wr[w].to # 0
        BY <1>1, <1>4, <2>2, <4>1
      <4>3. w = "serve"
        BY <1>a, <1>b, <4>2 DEF StartingResponse
      <4>4. QED
        BY <4>2, <4>3 DEF Starting
    <3>3. QED
      BY <1>c, <1>1, <1>3, <3>1, <3>2 DEF Unread
  <2>3. QED
    BY <2>1, <2>2 DEF Starting
<1>8. QED
  BY <1>6, <1>7

LEMMA AheadStep == IInv /\ TypeOK' /\ [Next]_vars /\ open' => OneAhead'
<1> SUFFICES ASSUME IInv, TypeOK', [Next]_vars, open' PROVE OneAhead'
  OBVIOUS
<1>o. open
  BY Zenon DEF Next, Send, Arrive, Receive, Read, BeginRead, Fill, ReadEOF, ReadPlain,
     ReadBuffered, DecryptFrame, StartHandler, Handle, AbortRead, StartEvent, Write,
     BeginWrite, EncryptFrame, WriteSocket, vars
<1>a. TypeOK /\ Stream /\ Counting /\ StartingResponse /\ OneAhead
  BY <1>o DEF IInv, Upgrading
<1>b. /\ "serve" \in Writer /\ \A w \in Notifier : w \in Writer /\ w # "serve"
      /\ \A w \in Writer : w # "serve" => w \in Notifier
  BY ConstantFacts DEF Writer
<1>c. /\ peer.seen \in Nat /\ peer.ses \in Nat /\ Len(wire) \in Nat
      /\ Len(sent) \in Nat /\ DOMAIN sent = 1..Len(sent)
  <2>1. peer.seen \in Nat /\ peer.ses \in 0..MaxSession
    BY <1>a DEF TypeOK
  <2>2. QED
    BY <1>a, <2>1, SeqTypes, ConstantFacts
<1>1. ASSUME UNCHANGED <<Handled, Current, handled, sent>>, peer'.ses = peer.ses,
             Starting' <=> Starting, pc' = "handle" => pc = "handle"
      PROVE  OneAhead'
  BY <1>a, <1>1 DEF OneAhead
<1>2. ASSUME NEW n \in 1..MaxIn, NEW exact \in BOOLEAN, NEW verify \in BOOLEAN,
             Send(n, exact, verify)
      PROVE  OneAhead'
  <2>1. /\ peer' = [peer EXCEPT !.out = IF peer.ses = 0 THEN 0 ELSE @ + n,
                                !.requests = @ + 1]
        /\ UNCHANGED <<wr, wire, pc, handled, delivered, pending, ss>>
    BY <1>2, Zenon DEF Send, writing, reading
  <2>2. peer'.ses = peer.ses /\ peer'.seen = peer.seen
    BY <1>a, <2>1 DEF TypeOK
  <2>3. ~Starting /\ ~Starting'
    BY <1>2, <2>1, <2>2, NotWhileStarting DEF Starting, Unread
  <2>4. UNCHANGED <<Handled, Current>>
    BY <2>1 DEF Handled, Current
  <2>5. /\ Len(sent') = Len(sent) + n /\ DOMAIN sent' = 1 .. Len(sent) + n
        /\ \A j \in 1..Len(sent) : sent'[j] = sent[j]
        /\ \A i \in 1..n : sent'[Len(sent) + i].ses = peer.ses
        /\ n \in Nat
    <3>1. /\ Len(sent') = Len(sent) + n /\ sent' \in Seq(Inbound)
          /\ \A j \in 1..Len(sent) : sent'[j] = sent[j]
      BY <1>2, <1>a, SendProperties, Zenon
    <3>2. Appended(n, verify)
      BY <1>2, <1>a, SendProperties, Zenon
    <3>3. \A i \in 1..n : sent'[Len(sent) + i].ses = peer.ses
      BY <3>2, Zenon DEF Appended
    <3>4. QED
      BY <3>1, <3>3, ConstantFacts, LenProperties
  <2>6. ASSUME NEW j \in DOMAIN sent',
               j > Handled \/ (j = Handled /\ pc = "handle"),
               sent'[j].verify, sent'[j].end
        PROVE  sent'[j].ses = peer.ses
    <3>1. CASE j <= Len(sent)
      <4>1. j \in DOMAIN sent /\ sent'[j] = sent[j]
        BY <1>c, <2>5, <3>1
      <4>2. QED
        BY <1>a, <2>6, <4>1 DEF OneAhead
    <3>2. CASE j > Len(sent)
      <4>1. j - Len(sent) \in 1..n /\ Len(sent) + (j - Len(sent)) = j
        BY <1>c, <2>5, <3>2
      <4>2. QED
        BY <2>5, <4>1
    <3>3. QED
      BY <1>c, <2>5, <3>1, <3>2
  <2>7. QED
    BY <1>a, <2>1, <2>2, <2>3, <2>4, <2>6 DEF OneAhead
<1>3. CASE Receive
  <2> DEFINE f == wire[peer.seen + 1]
  <2>1. /\ peer.seen + 1 \in 1..Len(wire) /\ peer'.seen = peer.seen + 1
        /\ peer'.ses = IF f.to # 0 THEN f.to ELSE peer.ses
        /\ f.to # 0 => f.to = peer.ses + 1
        /\ UNCHANGED <<wr, wire, pc, handled, delivered, sent, pending, ss>>
    BY <1>3, ReceiveProperties DEF writing, reading
  <2>2. peer.seen + 1 \in Unread /\ Unread' = Unread \ {peer.seen + 1}
    BY <1>c, <2>1 DEF Unread
  <2>3. UNCHANGED <<Handled, Current>>
    BY <2>1 DEF Handled, Current
  <2> HIDE DEF f
  <2>4. CASE f.to = 0
    <3>1. Starting' <=> Starting
      BY <2>1, <2>2, <2>4 DEF Starting, f
    <3>2. QED
      BY <1>1, <2>1, <2>3, <2>4, <3>1
  <2>5. CASE f.to # 0
    <3>1. Starting
      BY <2>2, <2>5 DEF Starting, f
    <3>2. /\ Current = peer'.ses /\ Handled = Len(sent) /\ pc # "handle"
      BY <1>a, <2>1, <2>5, <3>1 DEF OneAhead
    <3>3. ~Starting'
      <4>1. wr["serve"].to = 0
        BY <1>a, <2>2, <2>5 DEF StartingResponse, f
      <4>2. \A i \in Unread' : wire[i].to = 0
        BY <1>a, <2>2, <2>5 DEF StartingResponse, f
      <4>3. QED
        BY <2>1, <4>1, <4>2 DEF Starting
    <3>4. \A j \in DOMAIN sent : ~(j > Handled)
      BY <1>c, <3>2
    <3>5. QED
      BY <2>1, <2>3, <3>2, <3>3, <3>4 DEF OneAhead
  <2>6. QED
    BY <2>4, <2>5
<1>4. ASSUME NEW g \in Reader, Read(g) PROVE OneAhead'
  <2>1. UNCHANGED <<Handled, Current, handled, pc, sent, peer, wr, wire>>
    BY <1>4, ReadKeeps DEF writing, remote
  <2>2. Starting' <=> Starting
    BY <2>1 DEF Starting, Unread
  <2>3. QED
    BY <1>1, <2>1, <2>2
<1>5. CASE \/ \E n \in Length : Arrive(n)
           \/ AbortRead
           \/ UNCHANGED vars
  <2>1. UNCHANGED <<wr, wire, peer, sent, handled, delivered, pending, ss>>
        /\ pc' \in {pc, "read"}
    BY <1>5, Zenon DEF Arrive, AbortRead, vars, writing, reading, remote
  <2>2. UNCHANGED <<Handled, Current>> /\ (Starting' <=> Starting)
    BY <2>1 DEF Handled, Current, Starting, Unread
  <2>3. QED
    BY <1>1, <2>1, <2>2
<1>6. ASSUME NEW i \in 1..Len(delivered), StartHandler(i) PROVE OneAhead'
  <2>1. /\ IsRequestEnd(i) /\ handled' = i
        /\ UNCHANGED <<wr, wire, peer, sent, delivered, pending, ss>>
    BY <1>6 DEF StartHandler, writing, remote
  <2>2. UNCHANGED Current /\ (Starting' <=> Starting)
    BY <2>1 DEF Current, Starting, Unread
  <2>3. Handled < Handled' /\ Handled' \in 1..Len(sent)
    <3>1. i > handled /\ ~IsFirst(delivered[i].unit) /\ handled \in Nat /\ i # 0
          /\ i \in 1..Len(delivered) /\ Len(delivered) \in Nat
      <4>1. i \in handled + 1 .. Len(delivered) /\ ~IsFirst(delivered[i].unit)
        BY <2>1, Zenon DEF IsRequestEnd
      <4>2. handled \in 0..Len(delivered) /\ Len(delivered) \in Nat
        BY <1>a, SeqTypes DEF TypeOK
      <4>3. QED
        BY <4>1, <4>2
    <3>2. delivered[i].unit \in 1 .. 2 * Len(sent)
      <4>1. delivered[i].unit \in 1..taken
        BY <1>a, <3>1 DEF Stream, Ordered
      <4>2. taken \in Nat /\ taken <= 2 * Len(sent)
        BY <1>a, Positions
      <4>3. QED
        BY <1>c, <4>1, <4>2
    <3>3. FrameOf(delivered[i].unit) \in 1..Len(sent)
          /\ 2 * FrameOf(delivered[i].unit) = delivered[i].unit
      BY <1>c, <3>1, <3>2, FrameOfUnit
    <3>4. Handled' = FrameOf(delivered[i].unit)
      BY <2>1, <3>1 DEF Handled
    <3>5. CASE handled = 0
      BY <3>3, <3>4, <3>5 DEF Handled
    <3>6. CASE handled # 0
      <4>1. handled \in 1..Len(delivered)
        BY <3>1, <3>6, <1>a, SeqTypes DEF TypeOK
      <4>2. delivered[handled].unit < delivered[i].unit
        BY <1>a, <3>1, <4>1 DEF Stream, Ordered
      <4>3. delivered[handled].unit = 2 * Handled /\ Handled \in 1..Len(sent)
        BY <1>a, <3>6, HandledFrame
      <4>4. QED
        BY <1>c, <3>2, <3>3, <3>4, <4>2, <4>3
    <3>7. QED
      BY <3>5, <3>6
  <2>4. ~Starting
    <3>1. Handled # Len(sent)
      BY <1>c, <2>3
    <3>2. QED
      BY <1>a, <3>1 DEF OneAhead
  <2>5. \A j \in DOMAIN sent : (j > Handled' \/ j = Handled') => j > Handled
    <3>1. Handled \in Nat
      BY <1>a, HandledFrame DEF Handled
    <3>2. QED
      BY <1>c, <2>3, <3>1
  <2>6. QED
    BY <1>a, <2>1, <2>2, <2>4, <2>5 DEF OneAhead
<1>7. ASSUME NEW n \in 1..MaxOut, Handle(n) PROVE OneAhead'
  <2> DEFINE f == sent[Handled]
             to == IF f.verify THEN f.ses + 1 ELSE 0
  <2>1. /\ handled # 0 /\ Handled \in 1..Len(sent) /\ f \in Inbound /\ f.end
        /\ pc = "handle" /\ pc' = "flush"
        /\ pending' = IF to # 0 THEN to ELSE pending
        /\ wr'["serve"].to = to
        /\ UNCHANGED <<wire, peer, handled, delivered, sent, ss>>
    BY <1>7, HandleProperties DEF remote, reading
  <2>2. f.verify => f.ses = peer.ses /\ Handled = Len(sent)
    <3>1. f.verify => f.ses = peer.ses
      BY <1>a, <1>c, <2>1 DEF OneAhead
    <3>2. f.verify /\ Handled # Len(sent) => f.ses < peer.ses
      BY <1>a, <1>c, <2>1 DEF Counting
    <3>3. QED
      BY <1>c, <3>1, <3>2
  <2>3. ~Starting
    BY <1>a, <2>1 DEF OneAhead
  <2>4. UNCHANGED <<Handled, Unread>>
    BY <2>1 DEF Handled, Unread
  <2>5. \A i \in Unread : wire[i].to = 0
    BY <2>3 DEF Starting
  <2>6. CASE f.verify
    <3>1. to = peer.ses + 1 /\ to # 0
      BY <1>c, <2>2, <2>6
    <3>2. Starting' /\ Current' = peer.ses + 1
      BY <2>1, <3>1 DEF Starting, Current
    <3>3. \A j \in DOMAIN sent : ~(j > Handled)
      BY <1>c, <2>2, <2>6
    <3>4. QED
      BY <2>1, <2>2, <2>4, <2>6, <3>2, <3>3 DEF OneAhead
  <2>7. CASE ~f.verify
    <3>1. ~Starting' /\ UNCHANGED Current
      BY <2>1, <2>4, <2>5, <2>7 DEF Starting, Current
    <3>2. QED
      BY <1>1, <2>1, <2>3, <2>4, <3>1
  <2>8. QED
    BY <2>6, <2>7
<1>8. ASSUME NEW w \in Notifier, NEW n \in 1..MaxOut, StartEvent(w, n) PROVE OneAhead'
  <2>1. /\ \A v \in Writer : v # w => wr'[v] = wr[v]
        /\ UNCHANGED <<wire, peer, pc, sent, handled, delivered, pending, ss>>
    BY <1>8, StartEventProperties DEF remote, reading
  <2>2. UNCHANGED <<Handled, Current>> /\ (Starting' <=> Starting)
    BY <1>b, <2>1 DEF Handled, Current, Starting, Unread
  <2>3. QED
    BY <1>1, <2>1, <2>2
<1>9. ASSUME NEW w \in Writer, BeginWrite(w) \/ EncryptFrame(w) PROVE OneAhead'
  <2>1. /\ wr'[w].to = wr[w].to /\ \A v \in Writer : v # w => wr'[v] = wr[v]
        /\ UNCHANGED <<wire, peer, pc, sent, handled, delivered, pending, ss>>
    BY <1>9, BeginWriteProperties, EncryptProperties DEF remote, reading
  <2>2. UNCHANGED <<Handled, Current>> /\ (Starting' <=> Starting)
    BY <1>b, <2>1 DEF Handled, Current, Starting, Unread
  <2>3. QED
    BY <1>1, <2>1, <2>2
<1>10. ASSUME NEW w \in Writer, WriteSocket(w) PROVE OneAhead'
  <2>1. UNCHANGED <<peer, sent, handled, delivered, pending, ss>>
        /\ pc' \in {pc, "abort"}
    BY <1>10, WriteSocketProperties DEF remote, reading
  <2>2. UNCHANGED <<Handled, Current>>
    BY <2>1 DEF Handled, Current
  <2>3. Starting' <=> Starting
    BY <1>10, <1>o, WriteSocketStarting
  <2>4. QED
    BY <1>1, <2>1, <2>2, <2>3
<1>11. QED
  BY <1>2, <1>3, <1>4, <1>5, <1>6, <1>7, <1>8, <1>9, <1>10 DEF Next, Write


-----------------------------------------------------------------------------
(* What is left can be opened *)

\* Reading further does no harm.
LEMMA OpenableKept ==
    ASSUME IInv, open, Kept <= Kept', Gone <= Gone', Kept' \in Nat, Gone' \in Nat,
           UNCHANGED <<Current, sent, inCount>>,
           peer'.ses = peer.ses, peer'.out = peer.out, Starting' <=> Starting
    PROVE  Openable'
<1>1. TypeOK /\ Stream /\ Openable
  BY DEF IInv
<1>2. Kept \in Nat /\ Gone \in Nat /\ Len(sent) \in Nat
  <2>1. Gone \in 0..taken /\ taken \in Nat
    BY <1>1, Positions
  <2>2. QED
    BY <1>1, <2>1, Positions, SeqTypes
<1>3. ASSUME NEW u \in Kept' + 1 .. 2 * Len(sent)
      PROVE  /\ u \in Kept + 1 .. 2 * Len(sent)
             /\ u <= Gone => u <= Gone'
  <2>1. \A a, b, n \in Nat : a <= b => \A x \in b + 1 .. 2 * n : x \in a + 1 .. 2 * n
    OBVIOUS
  <2>2. u \in Kept + 1 .. 2 * Len(sent)
    BY <1>2, <2>1, Zenon
  <2>3. \A a, b \in Nat, x \in Int : a <= b /\ x <= a => x <= b
    OBVIOUS
  <2>4. u \in Int
    BY <1>2, <2>2
  <2>5. u <= Gone => u <= Gone'
    BY <1>2, <2>3, <2>4, Zenon
  <2>6. QED
    BY <2>2, <2>5
<1>4. ASSUME NEW u \in Kept' + 1 .. 2 * Len(sent)
      PROVE  LET f == sent[FrameOf(u)] IN
             /\ f.ses = Current
             /\ Current # 0 => f.num >= inCount[Current] \/ (u <= Gone' /\ f.full)
  BY <1>1, <1>3 DEF Openable
<1>5. QED
  BY <1>1, <1>4 DEF Openable

\* A step that touches neither the reader nor the controller.
LEMMA OpenableUnchanged ==
    ASSUME IInv, open, UNCHANGED <<delivered, readBuf, dec, taken, sent, inCount, peer>>,
           UNCHANGED Current, Starting' <=> Starting
    PROVE  Openable'
<1>1. UNCHANGED <<Kept, Gone>>
  BY DEF Kept, Gone, Last
<1>2. Kept \in Nat /\ Gone \in Nat
  <2>1. Gone \in 0..taken /\ taken \in Nat
    BY Positions DEF IInv
  <2>2. QED
    BY <2>1, Positions DEF IInv
<1>3. Kept <= Kept' /\ Gone <= Gone' /\ Kept' \in Nat /\ Gone' \in Nat
  BY <1>1, <1>2
<1>4. QED
  BY <1>3, OpenableKept


\* A frame that is sent has the next number of the current session.
LEMMA SendOpenable ==
    ASSUME IInv, NEW n \in 1..MaxIn, NEW exact \in BOOLEAN, NEW verify \in BOOLEAN,
           Send(n, exact, verify)
    PROVE  Openable'
<1>1. open /\ ~Starting
  BY NotWhileStarting
<1>a. TypeOK /\ Stream /\ OneAhead /\ Openable
  BY <1>1 DEF IInv, Upgrading
<1>2. Current = peer.ses
  BY <1>1, <1>a DEF OneAhead
<1>3. /\ peer' = [peer EXCEPT !.out = IF peer.ses = 0 THEN 0 ELSE @ + n,
                              !.requests = @ + 1]
      /\ UNCHANGED <<wr, wire, delivered, readBuf, dec, taken, inCount, pending, ss>>
  BY Zenon DEF Send, writing, reading
<1>4. /\ peer'.ses = peer.ses /\ peer'.seen = peer.seen
      /\ peer.ses # 0 => peer'.out = peer.out + n
  BY <1>a, <1>3 DEF TypeOK
<1>5. UNCHANGED <<Kept, Gone, Current>> /\ ~Starting'
  BY <1>1, <1>3, <1>4 DEF Kept, Gone, Last, Current, Starting, Unread
<1>6. /\ Len(sent') = Len(sent) + n
      /\ \A j \in 1..Len(sent) : sent'[j] = sent[j]
  BY <1>a, SendProperties, Zenon
<1>7. Appended(n, verify)
  BY <1>a, SendProperties, Zenon
<1>8. \A i \in 1..n :
         /\ sent'[Len(sent) + i].ses = peer.ses
         /\ peer.ses # 0 => sent'[Len(sent) + i].num = peer.out + i - 1
  BY <1>7, Zenon DEF Appended
<1>9. /\ Len(sent) \in Nat /\ n \in Nat /\ Kept \in Nat
      /\ peer.out \in Nat /\ peer.ses \in 0..MaxSession
  <2>1. peer.out \in Nat /\ peer.ses \in 0..MaxSession
    BY <1>a DEF TypeOK
  <2>2. QED
    BY <1>a, <2>1, SeqTypes, ConstantFacts, Positions
<1>10. peer.ses # 0 => inCount[peer.ses] \in Nat /\ inCount[peer.ses] <= peer.out
  <2>1. peer.ses # 0 => peer.ses \in Session
    BY <1>9, ConstantFacts DEF Session
  <2>2. QED
    BY <1>2, <1>a, <2>1 DEF TypeOK, Openable
<1>11. ASSUME NEW u \in Kept + 1 .. 2 * (Len(sent) + n)
       PROVE  LET f == sent'[FrameOf(u)] IN
              /\ f.ses = Current
              /\ Current # 0 => f.num >= inCount[Current] \/ (u <= Gone /\ f.full)
  <2>1. CASE u <= 2 * Len(sent)
    <3>1. u \in Kept + 1 .. 2 * Len(sent) /\ u \in 1 .. 2 * Len(sent)
      BY <1>9, <2>1
    <3>2. FrameOf(u) \in 1..Len(sent)
      BY <1>9, <3>1, FrameOfUnit
    <3>3. QED
      BY <1>a, <1>6, <3>1, <3>2 DEF Openable
  <2>2. CASE u > 2 * Len(sent)
    <3>1. u \in 1 .. 2 * (Len(sent) + n) /\ Len(sent) + n \in Nat
      BY <1>9
    <3>2. /\ FrameOf(u) \in 1 .. Len(sent) + n
          /\ 2 * FrameOf(u) = IF IsFirst(u) THEN u + 1 ELSE u
      BY <3>1, FrameOfUnit
    <3>3. /\ FrameOf(u) - Len(sent) \in 1..n
          /\ Len(sent) + (FrameOf(u) - Len(sent)) = FrameOf(u)
      BY <1>9, <2>2, <3>1, <3>2
    <3>4. /\ sent'[FrameOf(u)].ses = peer.ses
          /\ peer.ses # 0 => sent'[FrameOf(u)].num
                               = peer.out + (FrameOf(u) - Len(sent)) - 1
      BY <1>8, <3>3
    <3>5. peer.ses # 0 => sent'[FrameOf(u)].num >= inCount[peer.ses]
      BY <1>9, <1>10, <3>3, <3>4
    <3>6. QED
      BY <1>2, <3>4, <3>5
  <2>3. QED
    BY <1>9, <2>1, <2>2
<1>12. peer'.ses # 0 => inCount[peer'.ses] <= peer'.out
  BY <1>4, <1>9, <1>10
<1>13. QED
  BY <1>a, <1>3, <1>5, <1>6, <1>11, <1>12 DEF Openable

\* The frames after the one that Decrypt opens have larger numbers.
LEMMA DecryptOpenable ==
    ASSUME IInv, TypeOK', open', NEW g \in Reader, NEW n \in Length, DecryptFrame(g, n)
    PROVE  Openable'
<1>1. /\ open /\ rd[g] = "decrypt" /\ Len(dec.ahead) >= 2
      /\ inCount' = [inCount EXCEPT ![dec.ses] = @ + 1]
      /\ Verifies(inCount[dec.ses])
      /\ UNCHANGED <<pending, ss, sent, peer, wr, wire>>
  BY Zenon DEF DecryptFrame, remote, writing
<1>a. TypeOK /\ Stream /\ Counting /\ OneAhead /\ Openable
  BY <1>1 DEF IInv, Upgrading
<1> DEFINE j == FrameOf(dec.ahead[1])
           c == Current
<1>2. /\ Gone + 2 <= taken /\ j \in 1..Len(sent) /\ 2 * j = Gone + 2
      /\ dec.ses = c /\ c \in Session
      /\ sent[j].ses = c /\ sent[j].num = inCount[c]
      /\ \A v \in Kept + 1 .. Gone : sent[FrameOf(v)].full
  BY <1>1, Verified
<1>3. IF sent[j].full THEN Kept' = Kept /\ Gone' = Gone + 2
                      ELSE Kept' = Gone + 2 /\ Gone <= Gone'
  BY <1>1, DecryptFrameStream
<1> HIDE DEF j, c
<1>4. c = Current /\ c \in Nat \ {0} /\ UNCHANGED Current
  BY <1>1, <1>2, ConstantFacts DEF c, Session, Current
<1>5. Starting' <=> Starting
  BY <1>1 DEF Starting, Unread
<1>6. /\ Len(sent) \in Nat /\ DOMAIN sent = 1..Len(sent) /\ Kept \in Nat /\ Gone \in Nat
      /\ Kept <= Gone /\ peer.ses \in Nat /\ peer.out \in Nat
  <2>1. Gone \in 0..taken /\ taken \in Nat /\ peer.ses \in 0..MaxSession
    BY <1>a, Positions DEF TypeOK
  <2>2. Gone \in Nat /\ peer.ses \in Nat
    BY <2>1, ConstantFacts
  <2>3. peer.out \in Nat
    BY <1>a DEF TypeOK
  <2>4. QED
    BY <1>a, <2>2, <2>3, SeqTypes, Positions
<1>7. inCount'[c] = inCount[c] + 1 /\ inCount[c] \in Nat
      /\ \A k \in Session : k # c => inCount'[k] = inCount[k]
  BY <1>a, <1>1, <1>2 DEF TypeOK
<1>8. c = peer.ses /\ inCount[c] < peer.out /\ ~Starting
  <2>1. j \in DOMAIN sent
    BY <1>2, <1>6
  <2>2. sent[j].ses <= peer.ses
    BY <1>a, <2>1 DEF Counting
  <2>3. ~Starting
    BY <1>a, <1>2, <1>4, <1>6, <2>2 DEF OneAhead
  <2>4. c = peer.ses
    BY <1>a, <1>4, <2>3 DEF OneAhead
  <2>5. sent[j].num < peer.out
    BY <1>a, <1>2, <1>4, <2>1, <2>4 DEF Counting
  <2>6. QED
    BY <1>2, <2>3, <2>4, <2>5
<1>9. ASSUME NEW u \in Kept' + 1 .. 2 * Len(sent)
      PROVE  /\ sent[FrameOf(u)].ses = c
             /\ \/ sent[FrameOf(u)].num >= inCount'[c]
                \/ u <= Gone' /\ sent[FrameOf(u)].full
  <2>1. u \in Kept + 1 .. 2 * Len(sent) /\ u \in 1 .. 2 * Len(sent)
    <3>1. Kept' \in Nat /\ Kept <= Kept'
      BY <1>3, <1>6
    <3>2. \A a, b, m \in Nat : a <= b => \A x \in b + 1 .. 2 * m : x \in a + 1 .. 2 * m
      OBVIOUS
    <3>3. u \in Kept + 1 .. 2 * Len(sent)
      BY <1>6, <3>1, <3>2, Zenon
    <3>4. QED
      BY <1>6, <3>3
  <2>2. FrameOf(u) \in 1..Len(sent) /\ 2 * FrameOf(u) = IF IsFirst(u) THEN u + 1 ELSE u
    BY <1>6, <2>1, FrameOfUnit
  <2>3. sent[FrameOf(u)].ses = c
    BY <1>a, <1>4, <2>1 DEF Openable
  <2>4. CASE u <= Gone + 2
    <3>1. sent[j].full
      <4>1. ASSUME ~sent[j].full PROVE FALSE
        <5>1. Kept' = Gone + 2
          BY <1>3, <4>1
        <5>2. u \in Gone + 2 + 1 .. 2 * Len(sent)
          BY <5>1, Zenon
        <5>3. QED
          BY <1>6, <2>4, <5>2
      <4>2. QED
        BY <4>1
    <3>2. Gone' = Gone + 2
      BY <1>3, <3>1
    <3>3. CASE u <= Gone
      <4>1. u \in Kept + 1 .. Gone
        BY <1>6, <2>1, <3>3
      <4>2. QED
        BY <1>2, <2>3, <2>4, <3>2, <4>1
    <3>4. CASE u > Gone
      <4>1. FrameOf(u) = j
        BY <1>2, <1>6, <2>1, <2>2, <2>4, <3>4
      <4>2. QED
        BY <2>3, <2>4, <3>1, <3>2, <4>1
    <3>5. QED
      BY <1>6, <2>1, <3>3, <3>4
  <2>5. CASE u > Gone + 2
    <3>1. j < FrameOf(u)
      BY <1>2, <1>6, <2>1, <2>2, <2>5
    <3>2. j \in DOMAIN sent /\ FrameOf(u) \in DOMAIN sent
      BY <1>2, <1>6, <2>2
    <3>3. sent[j].num < sent[FrameOf(u)].num
      BY <1>a, <1>2, <1>4, <2>3, <3>1, <3>2 DEF Counting
    <3>4. sent[FrameOf(u)].num \in Nat
      BY <1>a, <2>2, SeqTypes DEF Inbound
    <3>5. sent[FrameOf(u)].num >= inCount'[c]
      BY <1>2, <1>7, <3>3, <3>4
    <3>6. QED
      BY <2>3, <3>5
  <2>6. QED
    BY <1>6, <2>1, <2>4, <2>5
<1>10. inCount'[c] <= peer.out
  BY <1>6, <1>7, <1>8
<1>11. \A k \in Session : k > Current => inCount'[k] = 0
  <2>1. \A k \in Session : k > Current => k # c
    BY <1>4 DEF Session
  <2>2. QED
    BY <1>a, <1>7, <2>1 DEF Openable
<1>12. QED
  BY <1>1, <1>4, <1>5, <1>8, <1>9, <1>10, <1>11 DEF Openable


\* Up to a new session nothing that was sent is left for the old one.
LEMMA HandleOpenable ==
    ASSUME IInv, TypeOK', open, NEW n \in 1..MaxOut, Handle(n)
    PROVE  Openable'
<1>a. TypeOK /\ Stream /\ Counting /\ OneAhead /\ Openable
  BY DEF IInv, Upgrading
<1> DEFINE f == sent[Handled]
           to == IF f.verify THEN f.ses + 1 ELSE 0
<1>1. /\ handled # 0 /\ Handled \in 1..Len(sent) /\ f \in Inbound /\ f.end
      /\ pc = "handle" /\ pc' = "flush"
      /\ pending' = IF to # 0 THEN to ELSE pending
      /\ wr'["serve"].to = to
      /\ \A v \in Writer : v # "serve" => wr'[v] = wr[v]
      /\ UNCHANGED <<wire, peer, handled, delivered, sent, ss, readBuf, dec, taken,
                     inCount>>
  BY HandleProperties DEF remote, reading
<1>2. ~Starting /\ Current = peer.ses
  BY <1>a, <1>1 DEF OneAhead
<1>3. Len(sent) \in Nat /\ DOMAIN sent = 1..Len(sent) /\ peer.ses \in 0..MaxSession
  <2>1. peer.ses \in 0..MaxSession
    BY <1>a DEF TypeOK
  <2>2. QED
    BY <1>a, <2>1, SeqTypes
<1>4. UNCHANGED <<Kept, Gone, Unread>>
  BY <1>1 DEF Kept, Gone, Last, Unread
<1>5. CASE f.verify
  <2>1. f.ses = peer.ses
    BY <1>a, <1>1, <1>3, <1>5 DEF OneAhead
  <2>2. to = peer.ses + 1 /\ to # 0
    BY <1>3, <1>5, <2>1, ConstantFacts
  <2>3. Current' = peer.ses + 1
    BY <1>1, <2>2 DEF Current
  <2>4. Starting'
    BY <1>1, <2>2 DEF Starting
  <2>5. Handled = Len(sent)
    <3>1. Handled # Len(sent) => f.ses < peer.ses
      BY <1>a, <1>1, <1>3, <1>5 DEF Counting
    <3>2. QED
      BY <1>3, <2>1, <3>1, ConstantFacts
  <2>6. 2 * Len(sent) <= Kept /\ Kept \in Nat
    <3>1. delivered[handled].unit = 2 * Handled
      BY <1>a, <1>1, HandledFrame
    <3>2. handled \in 1..Len(delivered)
      BY <1>a, <1>1, SeqTypes DEF TypeOK
    <3>3. 2 * Len(sent) <= Last /\ Last <= Kept /\ Kept \in Nat
      BY <1>a, <2>5, <3>1, <3>2, Positions
    <3>4. Last \in 0..taken /\ taken \in Nat
      BY <1>a, Positions
    <3>5. QED
      BY <1>3, <3>3, <3>4
  <2>7. Kept + 1 .. 2 * Len(sent) = {}
    BY <1>3, <2>6
  <2>8. peer.ses + 1 \in Session
    <3>1. pending' \in 0..MaxSession
      BY DEF TypeOK
    <3>2. QED
      BY <1>1, <1>3, <2>2, <3>1, ConstantFacts DEF Session
  <2>9. /\ inCount[peer.ses + 1] = 0
        /\ \A k \in Session : k > peer.ses + 1 => inCount[k] = 0
    <3>1. \A k \in Session : k > peer.ses => inCount[k] = 0
      BY <1>a, <1>2 DEF Openable
    <3>2. \A k \in Session : k > peer.ses + 1 => k > peer.ses
      BY <1>3, ConstantFacts DEF Session
    <3>3. peer.ses + 1 > peer.ses
      BY <1>3, ConstantFacts
    <3>4. QED
      BY <2>8, <3>1, <3>2, <3>3
  <2>10. peer.ses + 1 # peer.ses
    BY <1>3, ConstantFacts
  <2>11. QED
    BY <1>1, <1>4, <2>3, <2>4, <2>7, <2>9, <2>10 DEF Openable
<1>6. CASE ~f.verify
  <2>1. ~Starting' /\ UNCHANGED Current
    BY <1>1, <1>2, <1>4, <1>6 DEF Starting, Current
  <2>2. QED
    BY <1>1, <1>2, <2>1, OpenableUnchanged
<1>7. QED
  BY <1>5, <1>6

\* The controller follows, and counts from zero.
LEMMA ReceiveOpenable ==
    ASSUME IInv, TypeOK', open', Receive
    PROVE  Openable'
<1> DEFINE f == wire[peer.seen + 1]
<1>1. /\ open /\ peer.seen + 1 \in 1..Len(wire) /\ peer'.seen = peer.seen + 1
      /\ peer'.out = IF f.to # 0 THEN 0 ELSE peer.out
      /\ peer'.ses = IF f.to # 0 THEN f.to ELSE peer.ses
      /\ f.to # 0 => f.to = peer.ses + 1
      /\ UNCHANGED <<wr, wire, pc, handled, delivered, sent, pending, ss, readBuf, dec,
                     taken, inCount>>
  BY ReceiveProperties DEF writing, reading, Receive
<1>a. TypeOK /\ Stream /\ StartingResponse /\ OneAhead /\ Openable
  BY <1>1 DEF IInv, Upgrading
<1>2. peer.seen + 1 \in Unread /\ Unread' = Unread \ {peer.seen + 1}
  <2>1. peer.seen \in Nat /\ Len(wire) \in Nat
    BY <1>a, SeqTypes DEF TypeOK
  <2>2. QED
    BY <1>1, <2>1 DEF Unread
<1>3. UNCHANGED <<Current, Kept, Gone>>
  BY <1>1 DEF Current, Kept, Gone, Last
<1>4. Kept \in Nat /\ Gone \in Nat
  <2>1. Gone \in 0..taken /\ taken \in Nat
    BY <1>a, Positions
  <2>2. QED
    BY <1>a, <2>1, Positions
<1> HIDE DEF f
<1>5. CASE f.to = 0
  <2>1. Starting' <=> Starting
    BY <1>1, <1>2, <1>5 DEF Starting, f
  <2>2. Kept <= Kept' /\ Gone <= Gone' /\ Kept' \in Nat /\ Gone' \in Nat
    BY <1>3, <1>4
  <2>3. QED
    BY <1>1, <1>3, <1>5, <2>1, <2>2, OpenableKept
<1>6. CASE f.to # 0
  <2>1. Starting
    BY <1>2, <1>6 DEF Starting, f
  <2>2. Current = peer'.ses /\ inCount[Current] = 0 /\ peer'.out = 0
    BY <1>a, <1>1, <1>6, <2>1 DEF OneAhead, Openable
  <2>3. ~Starting'
    <3>1. wr["serve"].to = 0
      BY <1>a, <1>2, <1>6 DEF StartingResponse, f
    <3>2. \A i \in Unread' : wire[i].to = 0
      BY <1>a, <1>2, <1>6 DEF StartingResponse, f
    <3>3. QED
      BY <1>1, <3>1, <3>2 DEF Starting
  <2>4. inCount'[peer'.ses] <= peer'.out
    BY <1>1, <2>2
  <2>5. QED
    BY <1>a, <1>1, <1>3, <2>3, <2>4 DEF Openable
<1>7. QED
  BY <1>5, <1>6

LEMMA OpenableStep == IInv /\ TypeOK' /\ [Next]_vars /\ open' => Openable'
<1> SUFFICES ASSUME IInv, TypeOK', [Next]_vars, open' PROVE Openable'
  OBVIOUS
<1>o. open
  BY Zenon DEF Next, Send, Arrive, Receive, Read, BeginRead, Fill, ReadEOF, ReadPlain,
     ReadBuffered, DecryptFrame, StartHandler, Handle, AbortRead, StartEvent, Write,
     BeginWrite, EncryptFrame, WriteSocket, vars
<1>a. TypeOK /\ Stream /\ StartingResponse /\ OneAhead
  BY <1>o DEF IInv, Upgrading
<1>b. /\ "serve" \in Writer /\ \A w \in Notifier : w \in Writer /\ w # "serve"
      /\ \A w \in Writer : w # "serve" => w \in Notifier
  BY ConstantFacts DEF Writer
<1>c. Kept \in Nat /\ Gone \in Nat /\ taken \in Nat /\ Gone <= taken
  <2>1. Gone \in 0..taken /\ taken \in Nat
    BY <1>a, Positions
  <2>2. QED
    BY <1>a, <2>1, Positions
<1>1. ASSUME NEW g \in Reader, Read(g) PROVE Openable'
  <2>1. UNCHANGED <<Current, sent, peer, wr, wire>> /\ (Starting' <=> Starting)
    BY <1>1, ReadKeeps DEF writing, remote, Starting, Unread
  <2>2. ASSUME UNCHANGED inCount, Stream', Kept <= Kept', Gone <= Gone' PROVE Openable'
    <3>1. Kept' \in Nat /\ Gone' \in Nat
      <4>1. /\ sent' \in Seq(Inbound) /\ taken' \in 0..arrived'
            /\ arrived' \in 0 .. 2 * Len(sent')
            /\ delivered' \in Seq([unit : Nat, raw : BOOLEAN])
            /\ readBuf' \in Seq(Seq(Nat))
            /\ dec' \in [ses : 0..MaxSession, ahead : Seq(Nat), out : Seq(Nat)]
        BY DEF TypeOK
      <4>2. Kept' + Len(dec'.out) <= Gone' /\ Ordered'
        BY <2>2 DEF Stream
      <4>3. Len(sent') \in Nat /\ Len(dec'.ahead) \in Nat /\ Len(dec'.out) \in Nat
            /\ Len(delivered') \in Nat
        BY <4>1, LenProperties
      <4>4. taken' \in Nat
        BY <4>1, <4>3
      <4>5. Gone' \in Int
        BY <4>3, <4>4 DEF Gone
      <4>6. Last' \in Nat
        <5>1. CASE delivered' = <<>>
          BY <5>1 DEF Last
        <5>2. CASE delivered' # <<>>
          <6>1. Len(delivered') \in 1..Len(delivered')
            BY <4>1, <4>3, <5>2, EmptySeq
          <6>2. delivered'[Len(delivered')] \in [unit : Nat, raw : BOOLEAN]
            BY <4>1, <6>1, ElementOfSeq
          <6>3. Last' = delivered'[Len(delivered')].unit
            BY <5>2 DEF Last
          <6>4. QED
            BY <6>2, <6>3
        <5>3. QED
          BY <5>1, <5>2
      <4>7. readBuf' # <<>> => Len(readBuf'[1]) \in Nat
        <5>1. ASSUME readBuf' # <<>> PROVE Len(readBuf'[1]) \in Nat
          <6>1. Len(readBuf') \in Nat \ {0}
            BY <4>1, <5>1, EmptySeq, LenProperties
          <6>2. 1 \in 1..Len(readBuf')
            BY <6>1
          <6>3. readBuf'[1] \in Seq(Nat)
            BY <4>1, <6>2, ElementOfSeq
          <6>4. QED
            BY <6>3, LenProperties
        <5>2. QED
          BY <5>1
      <4>8. Kept' \in Nat
        BY <4>6, <4>7 DEF Kept
      <4>9. QED
        BY <4>2, <4>3, <4>5, <4>8
    <3>2. QED
      BY <1>o, <2>1, <2>2, <3>1, OpenableKept
  <2>3. CASE BeginRead(g)
    BY <2>2, <2>3, BeginReadStream DEF BeginRead
  <2>4. CASE Fill(g)
    <3>1. Stream' /\ UNCHANGED <<Kept, Gone>>
      BY <2>4, FillStream
    <3>2. UNCHANGED inCount
      BY <2>4, Zenon DEF Fill
    <3>3. QED
      BY <1>c, <2>2, <3>1, <3>2
  <2>5. CASE ReadEOF(g)
    BY <2>2, <2>5, ReadEOFStream DEF ReadEOF
  <2>6. ASSUME NEW n \in Length, ReadPlain(g, n) PROVE Openable'
    BY <2>2, <2>6, ReadPlainStream DEF ReadPlain
  <2>7. ASSUME NEW n \in Length, ReadBuffered(g, n) PROVE Openable'
    BY <2>2, <2>7, ReadBufferedStream DEF ReadBuffered
  <2>8. ASSUME NEW n \in Length, DecryptFrame(g, n) PROVE Openable'
    BY <2>8, DecryptOpenable
  <2>9. QED
    BY <1>1, <2>3, <2>4, <2>5, <2>6, <2>7, <2>8 DEF Read
<1>2. CASE \E n \in Length : Arrive(n)
  <2>1. UNCHANGED <<delivered, readBuf, dec, taken, sent, inCount, peer, wr, wire,
                    pending, ss>>
    BY <1>2 DEF Arrive, reading, writing
  <2>2. UNCHANGED Current /\ (Starting' <=> Starting)
    BY <2>1 DEF Current, Starting, Unread
  <2>3. QED
    BY <1>o, <2>1, <2>2, OpenableUnchanged
<1>3. CASE UNCHANGED vars \/ \E i \in 1..Len(delivered) : StartHandler(i)
  <2>1. UNCHANGED <<delivered, readBuf, dec, taken, sent, inCount, peer, wr, wire,
                    pending, ss>>
    BY <1>3, Zenon DEF StartHandler, vars, remote, writing
  <2>2. UNCHANGED Current /\ (Starting' <=> Starting)
    BY <2>1 DEF Current, Starting, Unread
  <2>3. QED
    BY <1>o, <2>1, <2>2, OpenableUnchanged
<1>4. CASE AbortRead
  <2>1. /\ UNCHANGED <<delivered, readBuf, taken, sent, inCount, peer, wr, wire,
                       pending, ss>>
        /\ dec' = NoDecrypt
    BY <1>4 DEF AbortRead, remote, writing
  <2>2. UNCHANGED <<Current, Kept>> /\ (Starting' <=> Starting)
    BY <2>1 DEF Current, Kept, Last, Starting, Unread
  <2>3. Gone' = taken
    <3>1. Kept' \in Nat /\ Kept' <= taken'
      BY <1>a, <1>c, <2>1, <2>2, Positions
    <3>2. QED
      BY <2>1, <3>1, NoDecryptProperties DEF NoDecrypt
  <2>4. Kept <= Kept' /\ Gone <= Gone' /\ Kept' \in Nat /\ Gone' \in Nat
    BY <1>c, <2>2, <2>3
  <2>5. QED
    BY <1>o, <2>1, <2>2, <2>4, OpenableKept
<1>5. ASSUME NEW w \in Writer,
             /\ wr'["serve"].to = wr["serve"].to
             /\ UNCHANGED <<delivered, readBuf, dec, taken, sent, inCount, peer, wire,
                            pending, ss>>
      PROVE  Openable'
  <2>1. UNCHANGED Current /\ (Starting' <=> Starting)
    BY <1>5 DEF Current, Starting, Unread
  <2>2. QED
    BY <1>o, <1>5, <2>1, OpenableUnchanged
<1>6. ASSUME NEW w \in Notifier, NEW n \in 1..MaxOut, StartEvent(w, n) PROVE Openable'
  <2>1. /\ UNCHANGED <<delivered, readBuf, dec, taken, sent, inCount, peer, wire,
                       pending, ss>>
        /\ wr'["serve"] = wr["serve"]
    BY <1>b, <1>6, StartEventProperties DEF reading, remote
  <2>2. QED
    BY <1>b, <1>5, <2>1
<1>7. ASSUME NEW w \in Writer, BeginWrite(w) \/ EncryptFrame(w) PROVE Openable'
  <2>1. /\ UNCHANGED <<delivered, readBuf, dec, taken, sent, inCount, peer, wire,
                       pending, ss>>
        /\ wr'[w].to = wr[w].to
        /\ \A v \in Writer : v # w => wr'[v] = wr[v]
    BY <1>7, BeginWriteProperties, EncryptProperties DEF reading, remote
  <2>2. wr'["serve"].to = wr["serve"].to
    BY <1>b, <2>1
  <2>3. QED
    BY <1>5, <2>1, <2>2
<1>8. ASSUME NEW w \in Writer, WriteSocket(w) PROVE Openable'
  <2>1. UNCHANGED <<delivered, readBuf, dec, taken, sent, inCount, peer, pending, ss,
                    handled, events>>
    BY <1>8 DEF WriteSocket, reading, remote
  <2>2. UNCHANGED Current
    BY <2>1 DEF Current
  <2>3. Starting' <=> Starting
    BY <1>8, <1>o, WriteSocketStarting
  <2>4. QED
    BY <1>o, <2>1, <2>2, <2>3, OpenableUnchanged
<1>9. QED
  BY <1>1, <1>2, <1>3, <1>4, <1>6, <1>7, <1>8, <1>o,
     SendOpenable, HandleOpenable, ReceiveOpenable DEF Next, Write


-----------------------------------------------------------------------------
(* Counters *)

\* Where the frames are.
WhereFramesAre ==
    /\ \A p : p \in Frames <=> \/ \E i \in 1..Len(wire) : p = <<"wire", i>>
                               \/ \E w \in Writer : \E i \in 1..Len(wr[w].frames) :
                                     p = <<w, i>>
    /\ \A i : Frame(<<"wire", i>>) = wire[i]
    /\ \A w \in Writer : \A i : Frame(<<w, i>>) = wr[w].frames[i]
    /\ \A p \in Frames : Frame(p) \in Outbound

LEMMA FramesLemma == TypeOK => WhereFramesAre
<1> SUFFICES ASSUME TypeOK PROVE WhereFramesAre
  OBVIOUS
<1>1. /\ DOMAIN wire = 1..Len(wire)
      /\ \A i \in 1..Len(wire) : wire[i] \in Outbound
  BY SeqTypes
<1>2. \A w \in Writer : /\ DOMAIN wr[w].frames = 1..Len(wr[w].frames)
                        /\ \A i \in 1..Len(wr[w].frames) : wr[w].frames[i] \in Outbound
  BY WriterTypes, LenProperties, ElementOfSeq
<1>3. \A i : Frame(<<"wire", i>>) = wire[i]
  BY DEF Frame
<1>4. \A w \in Writer : \A i : Frame(<<w, i>>) = wr[w].frames[i]
  BY ConstantFacts DEF Frame
<1>5. \A p : p \in Frames <=> \/ \E i \in 1..Len(wire) : p = <<"wire", i>>
                              \/ \E w \in Writer : \E i \in 1..Len(wr[w].frames) :
                                    p = <<w, i>>
  BY <1>1, <1>2 DEF Frames, OnWire, Made
<1>6. \A p \in Frames : Frame(p) \in Outbound
  BY <1>1, <1>2, <1>3, <1>4, <1>5
<1>7. QED
  BY <1>3, <1>4, <1>5, <1>6 DEF WhereFramesAre

LEMMA FramesLemmaNext == TypeOK' => WhereFramesAre'
  BY FramesLemma, PTL

\* A frame that takes the next counter, or has none, leaves the counters right.
LEMMA AddFrame ==
    ASSUME TypeOK, Counters, NEW q, q \notin Frames, Frames' = Frames \cup {q},
           \A p \in Frames : Frame(p)' = Frame(p),
           \/ Frame(q)'.ses = 0 /\ outCount' = outCount
           \/ /\ Frame(q)'.ses \in Session
              /\ Frame(q)'.num = outCount[Frame(q)'.ses]
              /\ outCount' = [outCount EXCEPT ![Frame(q)'.ses] = @ + 1]
    PROVE  Counters'
<1>1. outCount \in [Session -> Nat] /\ \A p \in Frames : Frame(p) \in Outbound
  BY FramesLemma DEF TypeOK, WhereFramesAre
<1>2. \A p \in Frames : Frame(p).ses \in 0..MaxSession /\ Frame(p).num \in Nat
  BY <1>1 DEF Outbound
<1>3. 0 \notin Session /\ \A k \in 0..MaxSession : k # 0 => k \in Session
  BY ConstantFacts DEF Session
<1>4. CASE Frame(q)'.ses = 0 /\ outCount' = outCount
  BY <1>1, <1>3, <1>4 DEF Counters, CountersUnique
<1>5. ASSUME NEW k \in Session,
             Frame(q)'.ses = k, Frame(q)'.num = outCount[k],
             outCount' = [outCount EXCEPT ![k] = @ + 1]
      PROVE  Counters'
  <2>1. /\ outCount'[k] = outCount[k] + 1
        /\ \A j \in Session : j # k => outCount'[j] = outCount[j]
        /\ outCount[k] \in Nat
    BY <1>1, <1>5
  <2>2. \A p \in Frames' : Frame(p)'.ses # 0
                              => Frame(p)'.num < outCount'[Frame(p)'.ses]
    <3>1. ASSUME NEW p \in Frames, Frame(p).ses # 0
          PROVE  Frame(p).num < outCount'[Frame(p).ses]
      <4>1. Frame(p).num < outCount[Frame(p).ses]
        BY <3>1 DEF Counters
      <4>2. Frame(p).ses \in Session
        BY <1>2, <1>3, <3>1
      <4>3. CASE Frame(p).ses = k
        BY <1>2, <2>1, <4>1, <4>3
      <4>4. CASE Frame(p).ses # k
        BY <2>1, <4>1, <4>2, <4>4
      <4>5. QED
        BY <4>3, <4>4
    <3>2. Frame(q)'.num < outCount'[Frame(q)'.ses]
      BY <1>5, <2>1
    <3>3. QED
      BY <3>1, <3>2
  <2>3. ASSUME NEW j \in Session, NEW n \in 0 .. outCount'[j] - 1
        PROVE  \E p \in Frames' : Frame(p)'.ses = j /\ Frame(p)'.num = n
    <3>1. CASE j = k /\ n = outCount[k]
      BY <1>5, <3>1
    <3>2. CASE ~(j = k /\ n = outCount[k])
      <4>1. n \in 0 .. outCount[j] - 1
        BY <1>1, <2>1, <3>2
      <4>2. PICK p \in Frames : Frame(p).ses = j /\ Frame(p).num = n
        BY <4>1 DEF Counters
      <4>3. QED
        BY <4>2
    <3>3. QED
      BY <3>1, <3>2
  <2>4. ASSUME NEW p \in Frames', NEW r \in Frames', p # r,
               Frame(p)'.ses # 0, Frame(p)'.ses = Frame(r)'.ses
        PROVE  Frame(p)'.num # Frame(r)'.num
    <3>1. CASE p \in Frames /\ r \in Frames
      BY <2>4, <3>1 DEF Counters, CountersUnique
    <3>2. ASSUME NEW s \in Frames, Frame(s).ses = k PROVE Frame(s).num # outCount[k]
      <4>1. Frame(s).num < outCount[k]
        BY <1>3, <3>2 DEF Counters
      <4>2. QED
        BY <1>2, <2>1, <4>1
    <3>3. CASE p = q
      BY <1>5, <2>4, <3>2, <3>3
    <3>4. CASE r = q
      BY <1>5, <2>4, <3>2, <3>4
    <3>5. QED
      BY <3>1, <3>3, <3>4
  <2>5. QED
    BY <2>2, <2>3, <2>4 DEF Counters, CountersUnique
<1>6. QED
  BY <1>4, <1>5


\* Frames that only change their place leave the counters right.
LEMMA MoveFrames ==
    ASSUME Counters, UNCHANGED outCount,
           NEW from \in [Frames' -> Frames],
           \A q \in Frames' : Frame(q)' = Frame(from[q]),
           \A p \in Frames : \E q \in Frames' : from[q] = p,
           \A q, r \in Frames' : from[q] = from[r] => q = r
    PROVE  Counters'
<1>1. \A p \in Frames' : Frame(p)'.ses # 0 => Frame(p)'.num < outCount'[Frame(p)'.ses]
  BY DEF Counters
<1>2. ASSUME NEW k \in Session, NEW n \in 0 .. outCount'[k] - 1
      PROVE  \E p \in Frames' : Frame(p)'.ses = k /\ Frame(p)'.num = n
  <2>1. PICK p \in Frames : Frame(p).ses = k /\ Frame(p).num = n
    BY DEF Counters
  <2>2. PICK q \in Frames' : from[q] = p
    OBVIOUS
  <2>3. QED
    BY <2>1, <2>2
<1>3. ASSUME NEW p \in Frames', NEW r \in Frames', p # r,
             Frame(p)'.ses # 0, Frame(p)'.ses = Frame(r)'.ses
      PROVE  Frame(p)'.num # Frame(r)'.num
  <2>1. from[p] # from[r] /\ from[p] \in Frames /\ from[r] \in Frames
    BY <1>3
  <2>2. QED
    BY <1>3, <2>1 DEF Counters, CountersUnique
<1>4. QED
  BY <1>1, <1>2, <1>3 DEF Counters, CountersUnique

\* A step that makes no frame.
LEMMA NoNewFrame ==
    ASSUME TypeOK, TypeOK', Counters, UNCHANGED <<outCount, wire>>,
           \A w \in Writer : wr'[w].frames = wr[w].frames
    PROVE  Counters'
<1>1. WhereFramesAre /\ WhereFramesAre'
  BY FramesLemma, FramesLemmaNext
<1>2. \A p : p \in Frames' <=> p \in Frames
  BY <1>1 DEF WhereFramesAre
<1>3. ASSUME NEW p \in Frames PROVE Frame(p)' = Frame(p)
  BY <1>1 DEF WhereFramesAre
<1>4. QED
  BY <1>2, <1>3 DEF Counters, CountersUnique

\* A step that makes one.
LEMMA OneNewFrame ==
    ASSUME TypeOK, TypeOK', NEW w \in Writer, NEW new, UNCHANGED wire,
           \A v \in Writer : v # w => wr'[v] = wr[v],
           wr'[w].frames = Append(wr[w].frames, new),
           NEW m, m = Len(wr[w].frames)
    PROVE  LET q == <<w, m + 1>> IN
           /\ q \notin Frames /\ Frames' = Frames \cup {q}
           /\ \A p \in Frames : Frame(p)' = Frame(p)
           /\ Frame(q)' = new
<1> DEFINE q == <<w, m + 1>>
<1>1. WhereFramesAre /\ WhereFramesAre'
  BY FramesLemma, FramesLemmaNext
<1>2. wr[w].frames \in Seq(Outbound) /\ m \in Nat
  BY WriterTypes, LenProperties
<1>3. new \in Outbound
  <2>1. wr'[w].frames \in Seq(Outbound)
    BY DEF TypeOK
  <2>2. /\ Len(Append(wr[w].frames, new)) = m + 1
        /\ Append(wr[w].frames, new)[m + 1] = new
    BY <1>2
  <2>3. QED
    BY <1>2, <2>1, <2>2, ElementOfSeq
<1>4. /\ Len(wr'[w].frames) = m + 1
      /\ \A i \in 1..m : wr'[w].frames[i] = wr[w].frames[i]
      /\ wr'[w].frames[m + 1] = new
  BY <1>2, <1>3, AppendProperties
<1>5. w # "wire"
  BY ConstantFacts
<1>6. q \notin Frames
  BY <1>1, <1>2, <1>5 DEF WhereFramesAre
<1>7. q \in Frames'
  BY <1>1, <1>2, <1>4 DEF WhereFramesAre
<1>8. ASSUME NEW p \in Frames PROVE p \in Frames' /\ Frame(p)' = Frame(p)
  <2>1. CASE \E i \in 1..Len(wire) : p = <<"wire", i>>
    BY <1>1, <2>1 DEF WhereFramesAre
  <2>2. ASSUME NEW v \in Writer, NEW i \in 1..Len(wr[v].frames), p = <<v, i>>
        PROVE  p \in Frames' /\ Frame(p)' = Frame(p)
    <3>1. CASE v = w
      <4>1. i \in 1..m /\ i \in 1 .. m + 1
        BY <1>2, <2>2, <3>1
      <4>2. p = <<w, i>> /\ wr'[w].frames[i] = wr[w].frames[i]
        BY <1>4, <2>2, <3>1, <4>1
      <4>3. p \in Frames' /\ Frame(p)' = wr'[w].frames[i]
        BY <1>1, <1>4, <4>1, <4>2 DEF WhereFramesAre
      <4>4. Frame(p) = wr[w].frames[i]
        BY <1>1, <4>2 DEF WhereFramesAre
      <4>5. QED
        BY <4>2, <4>3, <4>4
    <3>2. CASE v # w
      BY <1>1, <2>2, <3>2 DEF WhereFramesAre
    <3>3. QED
      BY <3>1, <3>2
  <2>3. QED
    BY <1>1, <2>1, <2>2 DEF WhereFramesAre
<1>9. ASSUME NEW p \in Frames' PROVE p \in Frames \cup {q}
  <2>1. CASE \E i \in 1..Len(wire) : p = <<"wire", i>>
    BY <1>1, <2>1 DEF WhereFramesAre
  <2>2. ASSUME NEW v \in Writer, NEW i \in 1..Len(wr'[v].frames), p = <<v, i>>
        PROVE  p \in Frames \cup {q}
    <3>1. CASE v = w
      <4>1. i \in 1..m \/ i = m + 1
        BY <1>2, <1>4, <2>2, <3>1
      <4>2. QED
        BY <1>1, <2>2, <3>1, <4>1 DEF WhereFramesAre
    <3>2. CASE v # w
      BY <1>1, <2>2, <3>2 DEF WhereFramesAre
    <3>3. QED
      BY <3>1, <3>2
  <2>3. QED
    BY <1>1, <2>1, <2>2 DEF WhereFramesAre
<1>10. Frame(q)' = new
  <2>1. \A i : Frame(<<w, i>>)' = wr'[w].frames[i]
    BY <1>1, Zenon DEF WhereFramesAre
  <2>2. QED
    BY <1>4, <2>1, Zenon
<1>11. QED
  BY <1>6, <1>7, <1>8, <1>9, <1>10


\* A packet stays with its writer until it is written.
LEMMA WritingStep == IInv /\ TypeOK' /\ [Next]_vars => Writing'
<1> SUFFICES ASSUME IInv, TypeOK', [Next]_vars PROVE Writing'
  OBVIOUS
<1>a. TypeOK /\ Writing
  BY DEF IInv, Numbered
<1>b. "serve" \in Writer /\ \A w \in Notifier : w \in Writer
  BY ConstantFacts DEF Writer
<1>1. ASSUME NEW w \in Writer, \A v \in Writer : v # w => wr'[v] = wr[v],
             wr'[w].at \notin {"encrypt", "write"} => wr'[w].frames = <<>>,
             wr'[w].at \in {"begin", "encrypt"} => wr'[w].left # 0,
             wr'[w].at = "encrypt" => wr'[w].ses # 0,
             wr'[w].at = "write" => wr'[w].frames # <<>>
      PROVE  Writing'
  BY <1>a, <1>1 DEF Writing
<1>2. CASE UNCHANGED wr
  BY <1>a, <1>2 DEF Writing
<1>3. CASE \/ \E n \in 1..MaxIn, exact, verify \in BOOLEAN : Send(n, exact, verify)
           \/ \E n \in Length : Arrive(n)
           \/ Receive
           \/ \E g \in Reader : Read(g)
           \/ \E i \in 1..Len(delivered) : StartHandler(i)
           \/ AbortRead
           \/ UNCHANGED vars
  <2>1. UNCHANGED wr
    BY <1>3, Zenon DEF Send, Arrive, Receive, Read, BeginRead, Fill, ReadEOF, ReadPlain,
       ReadBuffered, DecryptFrame, StartHandler, AbortRead, vars, writing
  <2>2. QED
    BY <1>2, <2>1
<1>4. ASSUME NEW n \in 1..MaxOut, Handle(n) PROVE Writing'
  <2>1. /\ wr'["serve"].at = "begin" /\ wr'["serve"].left = n
        /\ wr'["serve"].frames = <<>>
        /\ \A v \in Writer : v # "serve" => wr'[v] = wr[v]
    BY <1>4, HandleProperties
  <2>2. n # 0
    BY ConstantFacts
  <2>3. QED
    BY <1>1, <1>b, <2>1, <2>2
<1>5. ASSUME NEW w \in Notifier, NEW n \in 1..MaxOut, StartEvent(w, n) PROVE Writing'
  <2>1. /\ wr'[w].at = "begin" /\ wr'[w].left = n /\ n # 0
        /\ wr'[w].frames = <<>>
        /\ \A v \in Writer : v # w => wr'[v] = wr[v]
    BY <1>5, StartEventProperties
  <2>2. QED
    BY <1>1, <1>b, <2>1
<1>6. ASSUME NEW w \in Writer, BeginWrite(w) PROVE Writing'
  <2> DEFINE plain == [OutFrame(w, 0, 0) EXCEPT !.end = TRUE]
  <2>1. /\ plain \in Outbound /\ wr[w].left # 0
        /\ ss = 0 => /\ wr'[w].at = "write" /\ wr'[w].left = 0
                     /\ wr'[w].frames = <<plain>>
        /\ ss # 0 => /\ wr'[w].at = "encrypt" /\ wr'[w].left = wr[w].left
                     /\ wr'[w].ses = ss /\ wr'[w].frames = <<>>
        /\ \A v \in Writer : v # w => wr'[v] = wr[v]
    BY <1>6, BeginWriteProperties
  <2> HIDE DEF plain
  <2>2. <<plain>> # <<>>
    OBVIOUS
  <2>3. QED
    BY <1>1, <2>1, <2>2
<1>7. ASSUME NEW w \in Writer, EncryptFrame(w) PROVE Writing'
  <2> DEFINE new == OutFrame(w, wr[w].ses, outCount[wr[w].ses])
  <2>1. /\ wr[w].ses \in Session /\ wr[w].left \in 1..MaxOut
        /\ new \in Outbound
        /\ wr'[w].frames = Append(wr[w].frames, new)
        /\ wr'[w].left = wr[w].left - 1
        /\ wr'[w].at = (IF wr[w].left = 1 THEN "write" ELSE "encrypt")
        /\ wr'[w].ses = wr[w].ses
        /\ \A v \in Writer : v # w => wr'[v] = wr[v]
    BY <1>7, EncryptProperties
  <2> HIDE DEF new
  <2>2. wr'[w].ses # 0
    BY <2>1, ConstantFacts DEF Session
  <2>3. wr'[w].at # "write" => wr'[w].left # 0
    BY <2>1, ConstantFacts
  <2>4. wr[w].frames \in Seq(Outbound)
    BY <1>a, WriterTypes
  <2>5. wr'[w].frames # <<>>
    BY <2>1, <2>4, AppendProperties
  <2>6. wr'[w].at \in {"write", "encrypt"}
    BY <2>1
  <2>7. QED
    BY <1>1, <2>1, <2>2, <2>3, <2>5, <2>6
<1>8. ASSUME NEW w \in Writer, WriteSocket(w) PROVE Writing'
  <2>1. wr'[w] = IdleWriter /\ \A v \in Writer : v # w => wr'[v] = wr[v]
    BY <1>8, WriteSocketProperties
  <2>2. wr'[w].at = "idle" /\ wr'[w].frames = <<>>
    BY <2>1 DEF IdleWriter
  <2>3. QED
    BY <1>1, <2>1, <2>2
<1>9. QED
  BY <1>3, <1>4, <1>5, <1>6, <1>7, <1>8 DEF Next, Write

\* The Write of the socket only moves frames.
LEMMA WriteSocketCounters ==
    ASSUME IInv, TypeOK', NEW w \in Writer, WriteSocket(w)
    PROVE  Counters'
<1>1. TypeOK /\ Counters
  BY DEF IInv, Numbered
<1>2. WhereFramesAre /\ WhereFramesAre'
  BY <1>1, FramesLemma, FramesLemmaNext
<1>3. PICK m \in Nat : m = Len(wire)
  BY <1>1, SeqTypes
<1>4. PICK d \in Nat : d = Len(wr[w].frames)
  BY WriteSocketProperties
<1>5. /\ Len(wire') = m + d
      /\ \A i \in 1..m : wire'[i] = wire[i]
      /\ \A i \in 1..d : wire'[m + i] = wr[w].frames[i]
      /\ wr'[w] = IdleWriter
      /\ \A v \in Writer : v # w => wr'[v] = wr[v]
      /\ UNCHANGED outCount
  BY <1>3, <1>4, WriteSocketProperties
<1>6. wr'[w].frames = <<>> /\ Len(wr'[w].frames) = 0
  BY <1>5 DEF IdleWriter
<1>7. w # "wire"
  BY ConstantFacts
<1>8. PICK from : from = [q \in Frames' |-> IF q[1] = "wire" /\ q[2] > m
                                            THEN <<w, q[2] - m>> ELSE q]
  OBVIOUS
\* Where the frames of the next state come from.
<1>9. ASSUME NEW q \in Frames'
      PROVE  \/ \E i \in 1..m : q = <<"wire", i>> /\ from[q] = q
             \/ \E i \in 1..d : q = <<"wire", m + i>> /\ from[q] = <<w, i>>
             \/ \E v \in Writer : \E i \in 1..Len(wr[v].frames) :
                   v # w /\ v # "wire" /\ q = <<v, i>> /\ from[q] = q
  <2>1. CASE \E i \in 1..Len(wire') : q = <<"wire", i>>
    <3>1. PICK i \in 1..(m + d) : q = <<"wire", i>>
      BY <1>5, <2>1
    <3>2. q[1] = "wire" /\ q[2] = i
      BY <3>1
    <3>3. CASE i <= m
      <4>1. ~(i > m) /\ i \in 1..m
        BY <3>3
      <4>2. from[q] = q
        BY <1>8, <3>2, <4>1
      <4>3. QED
        BY <3>1, <4>1, <4>2
    <3>4. CASE ~(i <= m)
      <4>1. i > m /\ i - m \in 1..d /\ i = m + (i - m)
        BY <3>4
      <4>2. from[q] = <<w, i - m>>
        BY <1>8, <3>2, <4>1
      <4>3. QED
        BY <3>1, <4>1, <4>2
    <3>5. QED
      BY <3>3, <3>4
  <2>2. ASSUME NEW v \in Writer, NEW i \in 1..Len(wr'[v].frames), q = <<v, i>>
        PROVE  /\ v # w /\ v # "wire" /\ i \in 1..Len(wr[v].frames)
               /\ from[q] = q
    <3>1. v # w
      BY <1>6, <2>2
    <3>2. v # "wire"
      BY ConstantFacts
    <3>3. q[1] = v
      BY <2>2
    <3>4. from[q] = q
      BY <1>8, <3>2, <3>3
    <3>5. QED
      BY <1>5, <2>2, <3>1, <3>2, <3>4
  <2>3. QED
    BY <1>2, <2>1, <2>2 DEF WhereFramesAre
<1>10. from \in [Frames' -> Frames]
  <2>1. \A q \in Frames' : from[q] \in Frames
    BY <1>2, <1>3, <1>4, <1>9 DEF WhereFramesAre
  <2>2. QED
    BY <1>8, <2>1
<1>11. ASSUME NEW q \in Frames' PROVE Frame(q)' = Frame(from[q])
  <2>1. ASSUME NEW i \in 1..m, q = <<"wire", i>>, from[q] = q
        PROVE  Frame(q)' = Frame(from[q])
    BY <1>2, <1>5, <2>1 DEF WhereFramesAre
  <2>2. ASSUME NEW i \in 1..d, q = <<"wire", m + i>>, from[q] = <<w, i>>
        PROVE  Frame(q)' = Frame(from[q])
    <3>1. PICK j : j = m + i
      OBVIOUS
    <3>2. q = <<"wire", j>> /\ wire'[j] = wr[w].frames[i]
      BY <1>5, <2>2, <3>1
    <3>3. /\ \A n : Frame(<<"wire", n>>)' = wire'[n]
          /\ \A n : Frame(<<w, n>>) = wr[w].frames[n]
      BY <1>2, Zenon DEF WhereFramesAre
    <3>4. QED
      BY <2>2, <3>2, <3>3, Zenon
  <2>3. ASSUME NEW v \in Writer, NEW i \in 1..Len(wr[v].frames), v # w,
               q = <<v, i>>, from[q] = q
        PROVE  Frame(q)' = Frame(from[q])
    BY <1>2, <1>5, <2>3 DEF WhereFramesAre
  <2>4. QED
    BY <1>9, <2>1, <2>2, <2>3
<1>12. ASSUME NEW p \in Frames PROVE \E q \in Frames' : from[q] = p
  <2>1. ASSUME NEW i \in 1..m, p = <<"wire", i>> PROVE \E q \in Frames' : from[q] = p
    <3>1. i \in 1..(m + d) /\ ~(i > m)
      BY <1>3, <1>4
    <3>2. p \in Frames' /\ p[1] = "wire" /\ p[2] = i
      BY <1>2, <1>5, <2>1, <3>1 DEF WhereFramesAre
    <3>3. QED
      BY <1>8, <3>1, <3>2
  <2>2. ASSUME NEW i \in 1..d, p = <<w, i>> PROVE \E q \in Frames' : from[q] = p
    <3>1. m + i \in 1..(m + d) /\ m + i > m /\ (m + i) - m = i
      BY <1>3, <1>4
    <3>2. PICK q : q = <<"wire", m + i>>
      OBVIOUS
    <3>3. q \in Frames' /\ q[1] = "wire" /\ q[2] = m + i
      BY <1>2, <1>5, <3>1, <3>2 DEF WhereFramesAre
    <3>4. from[q] = <<w, i>>
      BY <1>8, <3>1, <3>3
    <3>5. QED
      BY <2>2, <3>3, <3>4
  <2>3. ASSUME NEW v \in Writer, NEW i \in 1..Len(wr[v].frames), v # w, p = <<v, i>>
        PROVE  \E q \in Frames' : from[q] = p
    <3>1. p \in Frames' /\ p[1] = v /\ v # "wire"
      BY <1>2, <1>5, <2>3, ConstantFacts DEF WhereFramesAre
    <3>2. QED
      BY <1>8, <3>1
  <2>4. QED
    BY <1>2, <1>3, <1>4, <2>1, <2>2, <2>3 DEF WhereFramesAre
<1>13. ASSUME NEW q \in Frames', NEW r \in Frames', from[q] = from[r] PROVE q = r
  <2>1. \A v \in Writer : v # "wire"
    BY ConstantFacts
  <2>2. QED
    BY <1>9, <1>13, <2>1
<1>14. QED
  BY <1>1, <1>5, <1>10, <1>11, <1>12, <1>13, MoveFrames

\* Only EncryptFrame takes a counter, for the frame that it makes.
LEMMA CountersStep == IInv /\ TypeOK' /\ [Next]_vars => Counters'
<1> SUFFICES ASSUME IInv, TypeOK', [Next]_vars PROVE Counters'
  OBVIOUS
<1>a. TypeOK /\ Counters
  BY DEF IInv, Numbered
<1>b. "serve" \in Writer /\ \A w \in Notifier : w \in Writer
  BY ConstantFacts DEF Writer
<1>1. CASE UNCHANGED <<outCount, wire, wr>>
  BY <1>a, <1>1, NoNewFrame
<1>2. ASSUME NEW w \in Writer, wr[w].frames = <<>>, wr'[w].frames = <<>>,
             \A v \in Writer : v # w => wr'[v] = wr[v],
             UNCHANGED <<outCount, wire>>
      PROVE  Counters'
  BY <1>a, <1>2, NoNewFrame
<1>3. CASE \/ \E n \in 1..MaxIn, exact, verify \in BOOLEAN : Send(n, exact, verify)
           \/ \E n \in Length : Arrive(n)
           \/ Receive
           \/ \E g \in Reader : Read(g)
           \/ \E i \in 1..Len(delivered) : StartHandler(i)
           \/ AbortRead
           \/ UNCHANGED vars
  <2>1. UNCHANGED <<outCount, wire, wr>>
    BY <1>3, Zenon DEF Send, Arrive, Receive, Read, BeginRead, Fill, ReadEOF, ReadPlain,
       ReadBuffered, DecryptFrame, StartHandler, AbortRead, vars, writing
  <2>2. QED
    BY <1>1, <2>1
<1>4. ASSUME NEW n \in 1..MaxOut, Handle(n) PROVE Counters'
  <2>1. /\ pc = "handle" /\ wr'["serve"].frames = <<>>
        /\ \A v \in Writer : v # "serve" => wr'[v] = wr[v]
        /\ UNCHANGED <<outCount, wire>>
    BY <1>4, HandleProperties
  <2>2. open
    BY <1>4 DEF Handle
  <2>3. wr["serve"] = IdleWriter
    BY <2>1, <2>2 DEF IInv, Upgrading, StartingResponse
  <2>4. wr["serve"].frames = <<>>
    BY <2>3 DEF IdleWriter
  <2>5. QED
    BY <1>2, <1>b, <2>1, <2>4
<1>5. ASSUME NEW w \in Notifier, NEW n \in 1..MaxOut, StartEvent(w, n) PROVE Counters'
  <2>1. /\ wr[w] = IdleWriter /\ wr'[w].frames = <<>>
        /\ \A v \in Writer : v # w => wr'[v] = wr[v]
        /\ UNCHANGED <<outCount, wire>>
    BY <1>5, StartEventProperties
  <2>2. wr[w].frames = <<>>
    BY <2>1 DEF IdleWriter
  <2>3. QED
    BY <1>2, <1>b, <2>1, <2>2
<1>6. ASSUME NEW w \in Writer, BeginWrite(w) PROVE Counters'
  <2> DEFINE plain == [OutFrame(w, 0, 0) EXCEPT !.end = TRUE]
  <2>1. /\ plain.ses = 0 /\ wr[w].frames = <<>>
        /\ ss = 0 => wr'[w].frames = <<plain>>
        /\ ss # 0 => wr'[w].frames = <<>>
        /\ \A v \in Writer : v # w => wr'[v] = wr[v]
        /\ UNCHANGED <<outCount, wire>>
    BY <1>6, BeginWriteProperties
  <2>2. PICK new : new = plain
    OBVIOUS
  <2> HIDE DEF plain
  <2>3. CASE ss = 0
    <3>1. wr'[w].frames = Append(wr[w].frames, new)
      BY <2>1, <2>2, <2>3
    <3>2. PICK m : m = Len(wr[w].frames)
      OBVIOUS
    <3>3. PICK q : q = <<w, m + 1>>
      OBVIOUS
    <3>4. /\ q \notin Frames /\ Frames' = Frames \cup {q}
          /\ \A p \in Frames : Frame(p)' = Frame(p)
          /\ Frame(q)' = new
      BY <1>a, <2>1, <3>1, <3>2, <3>3, OneNewFrame, ZenonT(60)
    <3>5. Frame(q)'.ses = 0
      BY <2>1, <2>2, <3>4
    <3>6. QED
      BY <1>a, <2>1, <3>4, <3>5, AddFrame
  <2>4. CASE ss # 0
    BY <1>2, <2>1, <2>4
  <2>5. QED
    BY <2>3, <2>4
<1>7. ASSUME NEW w \in Writer, EncryptFrame(w) PROVE Counters'
  <2> DEFINE k == wr[w].ses
  <2>1. PICK new : new = OutFrame(w, k, outCount[k])
    OBVIOUS
  <2>2. /\ k \in Session /\ new.ses = k /\ new.num = outCount[k]
        /\ wr'[w].frames = Append(wr[w].frames, new)
        /\ \A v \in Writer : v # w => wr'[v] = wr[v]
        /\ outCount' = [outCount EXCEPT ![k] = @ + 1]
        /\ UNCHANGED wire
    BY <1>7, <2>1, EncryptProperties
  <2>3. PICK m : m = Len(wr[w].frames)
    OBVIOUS
  <2>4. PICK q : q = <<w, m + 1>>
    OBVIOUS
  <2>5. /\ q \notin Frames /\ Frames' = Frames \cup {q}
        /\ \A p \in Frames : Frame(p)' = Frame(p)
        /\ Frame(q)' = new
    BY <1>a, <2>2, <2>3, <2>4, OneNewFrame, ZenonT(60)
  <2>6. /\ Frame(q)'.ses \in Session
        /\ Frame(q)'.num = outCount[Frame(q)'.ses]
        /\ outCount' = [outCount EXCEPT ![Frame(q)'.ses] = @ + 1]
    BY <2>2, <2>5
  <2>7. QED
    BY <1>a, <2>5, <2>6, AddFrame
<1>8. ASSUME NEW w \in Writer, WriteSocket(w) PROVE Counters'
  BY <1>8, WriteSocketCounters
<1>9. QED
  BY <1>3, <1>4, <1>5, <1>6, <1>7, <1>8 DEF Next, Write


-----------------------------------------------------------------------------
(* The invariant *)

LEMMA InitLemma == Init => IInv
<1> SUFFICES ASSUME Init PROVE IInv
  OBVIOUS
<1>a. /\ 0 \in Nat /\ MaxSession \in Nat /\ MaxOut \in Nat /\ MaxEvent \in Nat
      /\ 0 \in 0..MaxSession /\ 0 \in 0..MaxOut /\ 0 \in 0..MaxEvent
  BY BoundsAssumption
<1>b. /\ <<>> \in Seq(Nat) /\ <<>> \in Seq(Outbound) /\ <<>> \in Seq(Seq(Nat))
      /\ <<>> \in Seq([unit : Nat, raw : BOOLEAN]) /\ <<>> \in Seq(Inbound)
      /\ Len(<<>>) = 0 /\ DOMAIN <<>> = {}
  OBVIOUS
<1>c. /\ sent = <<>> /\ wire = <<>> /\ delivered = <<>> /\ readBuf = <<>>
      /\ Len(sent) = 0 /\ Len(wire) = 0 /\ Len(delivered) = 0 /\ Len(readBuf) = 0
      /\ pending = 0 /\ ss = 0 /\ handled = 0 /\ arrived = 0 /\ taken = 0
      /\ pc = "read" /\ open = TRUE /\ events = 0
  BY <1>b DEF Init
<1>d. /\ IdleWriter.frames = <<>> /\ IdleWriter.to = 0 /\ IdleWriter.at = "idle"
      /\ NoDecrypt.ahead = <<>> /\ NoDecrypt.out = <<>>
  BY DEF IdleWriter, NoDecrypt
<1>e. /\ \A w \in Writer : wr[w] = IdleWriter
      /\ \A g \in Reader : rd[g] = "off"
      /\ \A k \in Session : inCount[k] = 0 /\ outCount[k] = 0
      /\ dec = NoDecrypt
      /\ peer.ses = 0 /\ peer.seen = 0
      /\ "serve" \in Writer /\ "serve" \in Reader /\ "background" \in Reader
      /\ \A w \in Notifier : w \in Writer
  BY ConstantFacts DEF Init, Reader, Writer
<1>1. TypeOK
  <2>1. wr \in [Writer -> [at : {"idle", "begin", "encrypt", "write"},
                           ses : 0..MaxSession, left : 0..MaxOut,
                           to : 0..MaxSession, frames : Seq(Outbound)]]
    <3>1. IdleWriter \in [at : {"idle", "begin", "encrypt", "write"},
                          ses : 0..MaxSession, left : 0..MaxOut,
                          to : 0..MaxSession, frames : Seq(Outbound)]
      BY <1>a, <1>b DEF IdleWriter
    <3>2. QED
      BY <3>1 DEF Init
  <2>2. dec \in [ses : 0..MaxSession, ahead : Seq(Nat), out : Seq(Nat)]
    BY <1>a, <1>b DEF Init, NoDecrypt
  <2>3. peer \in [ses : 0..MaxSession, in : Nat, out : Nat, seen : Nat,
                  requests : Nat, answers : Nat]
    BY <1>a DEF Init
  <2>4. rd \in [Reader -> {"off", "begin", "plain", "buffer", "decrypt"}]
    BY DEF Init
  <2>5. inCount \in [Session -> Nat] /\ outCount \in [Session -> Nat]
    BY <1>a DEF Init
  <2>6. /\ handled \in 0..Len(delivered) /\ arrived \in 0..(2 * Len(sent))
        /\ taken \in 0..arrived /\ Len(readBuf) <= 1
    BY <1>c
  <2>7. QED
    BY <1>a, <1>b, <1>c, <2>1, <2>2, <2>3, <2>4, <2>5, <2>6 DEF TypeOK
<1>2. Turns
  BY <1>c, <1>d, <1>e DEF Turns
<1>3. Stream
  <2>1. Last = 0 /\ Kept = 0 /\ Gone = 0
    BY <1>b, <1>c, <1>d, <1>e DEF Last, Kept, Gone
  <2>2. Len(dec.out) = 0 /\ DOMAIN dec.out = {} /\ DOMAIN dec.ahead = {}
    BY <1>b, <1>d, <1>e
  <2>3. Ordered
    BY <1>c DEF Ordered
  <2>4. QED
    BY <1>c, <2>1, <2>2, <2>3 DEF Stream
<1>4. Counting
  BY <1>b, <1>c DEF Counting
<1>5. Unread = {} /\ ~Starting /\ Current = 0 /\ Handled = 0
  BY <1>c, <1>d, <1>e DEF Unread, Starting, Current, Handled
<1>6. Upgrading
  <2>1. StartingResponse
    BY <1>b, <1>c, <1>d, <1>e, <1>5 DEF StartingResponse
  <2>2. OneAhead
    BY <1>b, <1>c, <1>e, <1>5 DEF OneAhead
  <2>3. QED
    BY <2>1, <2>2 DEF Upgrading
<1>7. Openable
  <2>1. Kept = 0 /\ Kept + 1 .. 2 * Len(sent) = {}
    BY <1>c DEF Kept, Last
  <2>2. QED
    BY <1>e, <1>5, <2>1 DEF Openable
<1>8. OnlyFullFramesSkipped
  BY <1>b, <1>c DEF OnlyFullFramesSkipped
<1>9. Writing
  BY <1>d, <1>e DEF Writing
<1>10. Counters
  <2>1. Frames = {}
    BY <1>b, <1>c, <1>d, <1>e DEF Frames, OnWire, Made
  <2>2. \A k \in Session : 0 .. outCount[k] - 1 = {}
    BY <1>e
  <2>3. QED
    BY <2>1, <2>2 DEF Counters, CountersUnique
<1>11. QED
  BY <1>1, <1>2, <1>3, <1>4, <1>6, <1>7, <1>8, <1>9, <1>10 DEF IInv, Numbered

LEMMA NextLemma == IInv /\ [Next]_vars => IInv'
<1> SUFFICES ASSUME IInv, [Next]_vars PROVE IInv'
  OBVIOUS
<1>1. TypeOK'
  BY TypeStep
<1>2. Turns'
  BY TurnsStep
<1>3. Stream' /\ OnlyFullFramesSkipped'
  BY <1>1, StreamStep
<1>4. Counting'
  BY <1>1, CountingStep
<1>5. open' => Upgrading'
  BY <1>1, ResponseStep, AheadStep DEF Upgrading
<1>6. open' => Openable'
  BY <1>1, OpenableStep
<1>7. Numbered'
  BY <1>1, WritingStep, CountersStep DEF Numbered
<1>8. QED
  BY <1>1, <1>2, <1>3, <1>4, <1>5, <1>6, <1>7 DEF IInv

LEMMA Invariance == Spec => []IInv
  BY InitLemma, NextLemma, PTL DEF Spec

\* A frame that is not on the wire is with a writer that has not finished.
LEMMA AllOnWire ==
    ASSUME IInv, \A w \in Writer : wr[w].at \notin {"encrypt", "write"},
           NEW k \in Session
    PROVE  {wire[i].num : i \in {j \in DOMAIN wire : wire[j].ses = k}}
              = 0..(outCount[k] - 1)
<1>1. TypeOK /\ Writing /\ Counters
  BY DEF IInv, Numbered
<1>2. /\ DOMAIN wire = 1..Len(wire)
      /\ \A i \in 1..Len(wire) : wire[i] \in Outbound
  BY <1>1, SeqTypes
<1>3. \A p : p \in Frames <=> \E i \in 1..Len(wire) : p = <<"wire", i>>
  <2>1. \A w \in Writer : wr[w].frames = <<>> /\ 1..Len(wr[w].frames) = {}
    BY <1>1 DEF Writing
  <2>2. WhereFramesAre
    BY <1>1, FramesLemma
  <2>3. QED
    BY <2>1, <2>2 DEF WhereFramesAre
<1>4. \A i : Frame(<<"wire", i>>) = wire[i]
  BY DEF Frame
<1>5. outCount[k] \in Nat /\ k # 0
  <2>1. outCount \in [Session -> Nat]
    BY <1>1 DEF TypeOK
  <2>2. QED
    BY <2>1, ConstantFacts DEF Session
<1>6. ASSUME NEW i \in 1..Len(wire), wire[i].ses = k
      PROVE  wire[i].num \in 0..(outCount[k] - 1)
  <2>1. wire[i].num < outCount[k]
    <3>1. PICK p : p = <<"wire", i>>
      OBVIOUS
    <3>2. p \in Frames /\ Frame(p) = wire[i]
      BY <1>3, <1>4, <3>1
    <3>3. Frame(p).num < outCount[Frame(p).ses]
      BY <1>1, <1>5, <1>6, <3>2 DEF Counters
    <3>4. QED
      BY <1>6, <3>2, <3>3
  <2>2. wire[i].num \in Nat
    BY <1>2 DEF Outbound
  <2>3. QED
    BY <1>5, <2>1, <2>2
<1>7. ASSUME NEW n \in 0..(outCount[k] - 1)
      PROVE  \E i \in 1..Len(wire) : wire[i].ses = k /\ wire[i].num = n
  <2>1. PICK p \in Frames : Frame(p).ses = k /\ Frame(p).num = n
    BY <1>1 DEF Counters
  <2>2. PICK i \in 1..Len(wire) : p = <<"wire", i>>
    BY <1>3
  <2>3. QED
    BY <1>4, <2>1, <2>2
<1>8. QED
  BY <1>2, <1>6, <1>7

-----------------------------------------------------------------------------
(* Theorems *)

\* Every variable of the connection has its type: a session that Upgrade sets
\* exists, no counter of Encrypt or Decrypt is that of session 0.
THEOREM TypeCorrect == Spec => []TypeOK
<1>1. IInv => TypeOK
  BY DEF IInv
<1>2. QED
  BY <1>1, Invariance, PTL

\* What conn.Read gives net/http is what the controller sent, in order; only
\* full frames that a read deadline discarded in Decrypt are missing.
THEOREM NothingElseSkipped == Spec => []OnlyFullFramesSkipped
<1>1. IInv => OnlyFullFramesSkipped
  BY DEF IInv
<1>2. QED
  BY <1>1, Invariance, PTL

\* Whoever calls conn.Write at the same time, Encrypt uses no counter of a
\* session for two packets.
THEOREM NoNonceTwice == Spec => []CountersUnique
<1>1. IInv => CountersUnique
  BY DEF IInv, Numbered, Counters
<1>2. QED
  BY <1>1, Invariance, PTL

\* When no conn.Write is between Encrypt and the socket, each counter that
\* Encrypt took is that of a packet on the wire.
THEOREM NoCounterMissing == Spec => []NoCounterSkipped
<1>1. IInv => NoCounterSkipped
  BY AllOnWire DEF NoCounterSkipped
<1>2. QED
  BY <1>1, Invariance, PTL


=============================================================================
