--------------------------- MODULE DiamConnProofs ---------------------------
(***************************************************************************)
(* Proofs about DiamConn for any number of workers, Writers, connections,  *)
(* frames and messages and for any channel capacity.                       *)
(***************************************************************************)
EXTENDS DiamConn, TLAPS, SequenceTheorems

(***************************************************************************)
(* What a sequence of frames or messages says about connections: none of   *)
(* them belongs to a connection after c.                                   *)
(***************************************************************************)
UpTo(s, c) == \A i \in 1..Len(s) : s[i].conn <= c

\* The manager's program counter determines how far init has got.
ManagerInv ==
  /\ mpc \in {"up", "assign", "notify", "read", "push"} => dials > 0
  /\ netOpen => dials > 0
  /\ mpc = "push" => collect # <<>>
  /\ Conn <= dials
  /\ mpc = "assign" => state = UP
  /\ EstablishedIsUp

\* Whatever is about a connection is about one that c.Conn has reached, and a
\* Writer has loaded c.Conn after it took its message.
CauseInv ==
  /\ UpTo(inbound, dials)
  /\ UpTo(collect, Conn)
  /\ UpTo(rcvd_ch, Conn)
  /\ UpTo(write_ch, Conn)
  /\ \A w \in Workers : mess[w].conn <= Conn
  /\ \A t \in Writers : what_to_write[t].conn <= Conn
  /\ \A t \in Writers : tpc[t] \in {"write", "held"} =>
       what_to_write[t].conn <= target[t] /\ target[t] \in 1..dials
  /\ CauseBeforeWrite

IndInv == TypeOK /\ ManagerInv /\ CauseInv

-----------------------------------------------------------------------------
\* The empty sequence is about no connection.
LEMMA EmptyUpTo == \A c : UpTo(<<>>, c)
  BY DEF UpTo

\* Sending to a channel something that is about a connection up to c.
LEMMA AppendUpTo ==
  ASSUME NEW S, NEW s \in Seq(S), NEW x \in S, NEW c, UpTo(s, c), x.conn <= c
  PROVE  UpTo(Append(s, x), c)
  BY AppendProperties DEF UpTo

\* Receiving from a channel.
LEMMA TailUpTo ==
  ASSUME NEW S, NEW s \in Seq(S), s # <<>>, NEW c, UpTo(s, c)
  PROVE  UpTo(Tail(s), c) /\ Head(s).conn <= c
  BY HeadTailProperties DEF UpTo

\* Taking the first frames of a stream, or leaving them out.
LEMMA SubSeqUpTo ==
  ASSUME NEW S, NEW s \in Seq(S), NEW c, UpTo(s, c),
         NEW m \in 1..(Len(s) + 1), NEW n \in 0..Len(s)
  PROVE  /\ SubSeq(s, m, n) \in Seq(S)
         /\ UpTo(SubSeq(s, m, n), c)
  BY SubSeqProperties DEF UpTo

\* Appending what was read to collect.
LEMMA ConcatUpTo ==
  ASSUME NEW S, NEW s \in Seq(S), NEW u \in Seq(S), NEW c, UpTo(s, c), UpTo(u, c)
  PROVE  /\ s \o u \in Seq(S)
         /\ UpTo(s \o u, c)
         /\ u # <<>> => s \o u # <<>>
  BY ConcatProperties DEF UpTo

\* A later connection is a weaker bound.
LEMMA UpToWeaken ==
  ASSUME NEW S, NEW s \in Seq(S), NEW c \in Nat, NEW d \in Nat, c <= d, UpTo(s, c),
         \A x \in S : x.conn \in Nat
  PROVE  UpTo(s, d)
  BY ElementOfSeq DEF UpTo

-----------------------------------------------------------------------------
\* Frames, messages and NoMsg never get mixed up.
LEMMA Kinds ==
  /\ \A f \in Frame : f \notin OutMsg /\ f # NoMsg /\ f.conn \in 1..MaxConns /\ f.id \in 1..MaxFrames
  /\ \A m \in OutMsg : m \notin Frame /\ m # NoMsg /\ m.conn \in 0..MaxConns
  /\ NoMsg \notin Frame /\ NoMsg \notin OutMsg /\ NoMsg.conn = 0
  BY TcpAssumption DEF Frame, OutMsg, NoMsg, FrameKinds

\* What the workers create are messages.
LEMMA Created ==
  /\ \A c \in 0..MaxConns : CER(c) \in OutMsg /\ CER(c).conn = c
  /\ \A f \in Frame : DWA(f) \in OutMsg /\ DWA(f).conn = f.conn
  /\ \A n \in Nat : MSG(n) \in OutMsg /\ MSG(n).conn = 0
  BY TcpAssumption DEF CER, DWA, MSG, GenMess, Frame, OutMsg, FrameKinds, NoConn

\* The inductive invariant holds before the first dial.
LEMMA InitIndInv == Init => IndInv
<1> SUFFICES ASSUME Init PROVE IndInv
  OBVIOUS
<1> USE TcpAssumption, DiamAssumption DEF Init, TcpInit
<1>1. TypeOK
  <2>1. <<>> \in Seq(Frame) /\ <<>> \in Seq(OutMsg) /\ Len(<<>>) = 0
    OBVIOUS
  <2>2. TcpTypeOK
    <3>1. /\ state \in {DOWN, UP}
          /\ rcvd_ch \in Seq(Frame) /\ Len(rcvd_ch) <= ChanCap
          /\ write_ch \in Seq(OutMsg) /\ Len(write_ch) <= ChanCap
          /\ collect \in Seq(Frame) /\ inbound \in Seq(Frame)
      BY <2>1
    <3>2. /\ tpc \in [Writers -> {"recv", "state", "conn", "write", "held"}]
          /\ what_to_write \in [Writers -> OutMsg \union {NoMsg}]
          /\ \A t \in Writers : tpc[t] = "recv"
          /\ target \in [Writers -> 0..MaxConns]
      BY DEF NoConn
    <3>3. /\ Conn \in 0..MaxConns /\ dials \in 0..MaxConns
          /\ mpc \in {"dial", "sleep", "up", "assign", "notify", "read", "push"}
          /\ sndbuf \in Nat /\ frames \in 0..MaxFrames
      BY DEF NoConn
    <3>4. /\ netOpen \in BOOLEAN
          /\ taken \subseteq Frame /\ lost \subseteq OutMsg
          /\ reached \subseteq (0..MaxConns) \X OutMsg
      BY Zenon
    <3>5. QED
      BY <3>1, <3>2, <3>3, <3>4, Zenon DEF TcpTypeOK
  <2>3. \A w \in Workers : mess[w] = NoMsg /\ wpc[w] = "select"
    OBVIOUS
  <2>4. QED
    BY <2>2, <2>3, Kinds DEF TypeOK
<1>2. ManagerInv
  BY DEF ManagerInv, EstablishedIsUp, NoConn
<1>3. CauseInv
  BY EmptyUpTo, Kinds DEF CauseInv, CauseBeforeWrite, NoConn
<1>4. QED
  BY <1>1, <1>2, <1>3 DEF IndInv

\* A Writer that gives up its message or has written it holds nothing.
LEMMA ReleaseType ==
  ASSUME TypeOK, NEW t \in Writers, Release(t)
  PROVE  /\ tpc' \in [Writers -> {"recv", "state", "conn", "write", "held"}]
         /\ what_to_write' \in [Writers -> OutMsg \union {NoMsg}]
         /\ \A u \in Writers : tpc'[u] # "recv" => what_to_write'[u] \in OutMsg
         /\ target' \in [Writers -> 0..MaxConns]
  BY TcpAssumption DEF TypeOK, TcpTypeOK, Release, NoConn

\* The goroutine in Start.
LEMMA ManagerKeepsInv ==
  ASSUME TypeOK, ManagerInv, CauseInv, ManagerStep
  PROVE  TypeOK' /\ ManagerInv' /\ CauseInv'
<1> USE TcpAssumption, DiamAssumption
<1>1. CASE DialSucceeds /\ UNCHANGED diamVars
  <2>1. TypeOK'
    BY <1>1, Kinds, Created DEF DialSucceeds, tcpVars, managerVars, writerVars,
       netVars, diamVars, TypeOK, TcpTypeOK, ManagerInv
  <2>2. ManagerInv'
    BY <1>1 DEF DialSucceeds, tcpVars, managerVars, writerVars, netVars, diamVars,
       TypeOK, TcpTypeOK, ManagerInv, EstablishedIsUp, UP, DOWN
  <2>3. CauseInv'
    BY <1>1, EmptyUpTo DEF DialSucceeds, tcpVars, managerVars, writerVars, netVars,
       diamVars, TypeOK, TcpTypeOK, CauseInv, CauseBeforeWrite
  <2>4. QED
    BY <2>1, <2>2, <2>3
<1>2. CASE DialFails /\ UNCHANGED diamVars
  <2>1. TypeOK'
    BY <1>2, Kinds, Created DEF DialFails, tcpVars, managerVars, writerVars, netVars,
       diamVars, TypeOK, TcpTypeOK, ManagerInv
  <2>2. ManagerInv'
    BY <1>2 DEF DialFails, tcpVars, managerVars, writerVars, netVars, diamVars,
       TypeOK, TcpTypeOK, ManagerInv, EstablishedIsUp, UP, DOWN
  <2>3. CauseInv'
    BY <1>2, Kinds, Created DEF DialFails, tcpVars, managerVars, writerVars, netVars,
       diamVars, TypeOK, TcpTypeOK, ManagerInv, EstablishedIsUp, CauseInv,
       CauseBeforeWrite
  <2>4. QED
    BY <2>1, <2>2, <2>3
<1>3. CASE Redial /\ UNCHANGED diamVars
  <2>1. TypeOK'
    BY <1>3, Kinds, Created DEF Redial, tcpVars, managerVars, writerVars, netVars,
       diamVars, TypeOK, TcpTypeOK, ManagerInv
  <2>2. ManagerInv'
    BY <1>3 DEF Redial, tcpVars, managerVars, writerVars, netVars, diamVars, TypeOK,
       TcpTypeOK, ManagerInv, EstablishedIsUp, UP, DOWN
  <2>3. CauseInv'
    BY <1>3, Kinds, Created DEF Redial, tcpVars, managerVars, writerVars, netVars,
       diamVars, TypeOK, TcpTypeOK, ManagerInv, EstablishedIsUp, CauseInv,
       CauseBeforeWrite
  <2>4. QED
    BY <2>1, <2>2, <2>3
<1>4. CASE SetUp /\ UNCHANGED diamVars
  <2>1. TypeOK'
    BY <1>4, Kinds, Created DEF SetUp, tcpVars, managerVars, writerVars, netVars,
       diamVars, TypeOK, TcpTypeOK, ManagerInv
  <2>2. ManagerInv'
    BY <1>4 DEF SetUp, tcpVars, managerVars, writerVars, netVars, diamVars, TypeOK,
       TcpTypeOK, ManagerInv, EstablishedIsUp, UP, DOWN
  <2>3. CauseInv'
    BY <1>4, Kinds, Created DEF SetUp, tcpVars, managerVars, writerVars, netVars,
       diamVars, TypeOK, TcpTypeOK, ManagerInv, EstablishedIsUp, CauseInv,
       CauseBeforeWrite
  <2>4. QED
    BY <2>1, <2>2, <2>3
<1>5. CASE SetConn /\ UNCHANGED diamVars
  <2>1. TypeOK'
    BY <1>5, Kinds, Created DEF SetConn, tcpVars, managerVars, writerVars, netVars,
       diamVars, TypeOK, TcpTypeOK, ManagerInv
  <2>2. ManagerInv'
    BY <1>5 DEF SetConn, tcpVars, managerVars, writerVars, netVars, diamVars, TypeOK,
       TcpTypeOK, ManagerInv, EstablishedIsUp, UP, DOWN
  <2>3. CauseInv'
    <3>0. /\ Conn \in Nat /\ dials \in Nat /\ Conn <= dials
          /\ \A x \in Frame \union OutMsg \union {NoMsg} : x.conn \in Nat
      BY Kinds DEF TypeOK, TcpTypeOK, ManagerInv
    <3>1. UpTo(collect, dials) /\ UpTo(rcvd_ch, dials) /\ UpTo(write_ch, dials)
      <4>1. UpTo(collect, dials)
        BY <3>0, UpToWeaken DEF TypeOK, TcpTypeOK, CauseInv
      <4>2. UpTo(rcvd_ch, dials)
        BY <3>0, UpToWeaken DEF TypeOK, TcpTypeOK, CauseInv
      <4>3. UpTo(write_ch, dials)
        BY <3>0, UpToWeaken DEF TypeOK, TcpTypeOK, CauseInv
      <4>4. QED
        BY <4>1, <4>2, <4>3
    <3>2. /\ \A w \in Workers : mess[w].conn <= dials
          /\ \A t \in Writers : what_to_write[t].conn <= dials
      <4>1. /\ \A w \in Workers : mess[w].conn \in Nat /\ mess[w].conn <= Conn
            /\ \A t \in Writers : what_to_write[t].conn \in Nat /\ what_to_write[t].conn <= Conn
        BY <3>0 DEF TypeOK, TcpTypeOK, CauseInv
      <4>2. QED
        BY <3>0, <4>1
    <3>3. QED
      BY <1>5, <3>1, <3>2 DEF SetConn, tcpVars, managerVars, writerVars, netVars,
         diamVars, CauseInv, CauseBeforeWrite
  <2>4. QED
    BY <2>1, <2>2, <2>3
<1>6. CASE ReadSome /\ UNCHANGED diamVars
  <2>1. TypeOK'
    BY <1>6, Kinds, Created DEF ReadSome, tcpVars, managerVars, writerVars, netVars,
       diamVars, TypeOK, TcpTypeOK, ManagerInv
  <2>2. ManagerInv'
    <3>1. PICK n \in 1..Len(inbound) : collect' = collect \o SubSeq(inbound, 1, n)
      BY <1>6 DEF ReadSome
    <3>2. SubSeq(inbound, 1, n) \in Seq(Frame) /\ Len(SubSeq(inbound, 1, n)) = n
      BY SubSeqProperties DEF TypeOK, TcpTypeOK
    <3>3. collect' # <<>>
      <4>1. collect \in Seq(Frame) /\ Len(collect) \in Nat
        BY DEF TypeOK, TcpTypeOK
      <4>2. Len(collect') = Len(collect) + n
        BY <3>1, <3>2, <4>1, ConcatProperties
      <4>3. QED
        BY <4>1, <4>2
    <3>4. QED
      BY <1>6, <3>3 DEF ReadSome, tcpVars, managerVars, writerVars, netVars,
         diamVars, TypeOK, TcpTypeOK, ManagerInv, EstablishedIsUp
  <2>3. CauseInv'
    <3>1. PICK n \in 1..Len(inbound) :
            /\ collect' = collect \o SubSeq(inbound, 1, n)
            /\ inbound' = SubSeq(inbound, n + 1, Len(inbound))
      BY <1>6 DEF ReadSome
    <3>2. Conn = dials
      BY <1>6 DEF ReadSome, ManagerInv, EstablishedIsUp
    <3>3. /\ SubSeq(inbound, 1, n) \in Seq(Frame)
          /\ UpTo(SubSeq(inbound, 1, n), dials)
          /\ UpTo(SubSeq(inbound, n + 1, Len(inbound)), dials)
      <4>1. /\ inbound \in Seq(Frame) /\ UpTo(inbound, dials) /\ Len(inbound) \in Nat
            /\ n \in 0..Len(inbound) /\ Len(inbound) \in 0..Len(inbound)
            /\ 1 \in 1..(Len(inbound) + 1) /\ n + 1 \in 1..(Len(inbound) + 1)
        BY DEF TypeOK, TcpTypeOK, CauseInv
      <4>2. QED
        BY <4>1, SubSeqUpTo
    <3>4. UpTo(collect', Conn)
      BY <3>1, <3>2, <3>3, ConcatUpTo DEF TypeOK, TcpTypeOK, CauseInv
    <3>5. QED
      BY <1>6, <3>1, <3>3, <3>4 DEF ReadSome, tcpVars, managerVars, writerVars,
         netVars, diamVars, CauseInv, CauseBeforeWrite
  <2>4. QED
    BY <2>1, <2>2, <2>3
<1>7. CASE ReadFails /\ UNCHANGED diamVars
  <2>1. TypeOK'
    BY <1>7, Kinds, Created DEF ReadFails, tcpVars, managerVars, writerVars, netVars,
       diamVars, TypeOK, TcpTypeOK, ManagerInv
  <2>2. ManagerInv'
    BY <1>7 DEF ReadFails, tcpVars, managerVars, writerVars, netVars, diamVars,
       TypeOK, TcpTypeOK, ManagerInv, EstablishedIsUp, UP, DOWN
  <2>3. CauseInv'
    BY <1>7, Kinds, Created DEF ReadFails, tcpVars, managerVars, writerVars, netVars,
       diamVars, TypeOK, TcpTypeOK, ManagerInv, EstablishedIsUp, CauseInv,
       CauseBeforeWrite
  <2>4. QED
    BY <2>1, <2>2, <2>3
<1>8. CASE PushFrame /\ UNCHANGED diamVars
  <2>1. TypeOK'
    BY <1>8, Kinds, Created DEF PushFrame, Pushed, tcpVars, managerVars, writerVars, netVars,
       diamVars, TypeOK, TcpTypeOK, ManagerInv
  <2>2. ManagerInv'
    BY <1>8 DEF PushFrame, Pushed, tcpVars, managerVars, writerVars, netVars, diamVars,
       TypeOK, TcpTypeOK, ManagerInv, EstablishedIsUp, UP, DOWN
  <2>3. CauseInv'
    <3>1. collect # <<>>
      BY <1>8 DEF PushFrame, Pushed, ManagerInv
    <3>2. UpTo(Tail(collect), Conn) /\ Head(collect).conn <= Conn /\ Head(collect) \in Frame
      BY <3>1, TailUpTo, HeadTailProperties DEF TypeOK, TcpTypeOK, CauseInv
    <3>3. UpTo(Append(rcvd_ch, Head(collect)), Conn)
      BY <3>2, AppendUpTo DEF TypeOK, TcpTypeOK, CauseInv
    <3>4. QED
      BY <1>8, <3>2, <3>3 DEF PushFrame, Pushed, tcpVars, managerVars, writerVars, netVars,
         diamVars, CauseInv, CauseBeforeWrite
  <2>4. QED
    BY <2>1, <2>2, <2>3
<1>9. QED
  BY <1>1, <1>2, <1>3, <1>4, <1>5, <1>6, <1>7, <1>8 DEF ManagerStep, Manager

\* A Writer.
LEMMA WriterKeepsInv ==
  ASSUME TypeOK, ManagerInv, CauseInv, NEW t \in Writers, WriterStep(t)
  PROVE  TypeOK' /\ ManagerInv' /\ CauseInv'
<1> USE TcpAssumption, DiamAssumption
<1>1. CASE TakeMessage(t) /\ UNCHANGED diamVars
  <2>1. TypeOK'
    BY <1>1, Kinds, Created DEF TakeMessage, tcpVars, managerVars, writerVars,
       netVars, diamVars, TypeOK, TcpTypeOK, ManagerInv
  <2>2. ManagerInv'
    BY <1>1 DEF TakeMessage, tcpVars, managerVars, writerVars, netVars, diamVars,
       TypeOK, TcpTypeOK, ManagerInv, EstablishedIsUp, UP, DOWN
  <2>3. CauseInv'
    <3>1. UpTo(Tail(write_ch), Conn) /\ Head(write_ch).conn <= Conn
      BY <1>1, TailUpTo DEF TakeMessage, TypeOK, TcpTypeOK, CauseInv
    <3>2. QED
      BY <1>1, <3>1 DEF TakeMessage, tcpVars, managerVars, writerVars, netVars,
         diamVars, TypeOK, TcpTypeOK, CauseInv, CauseBeforeWrite
  <2>4. QED
    BY <2>1, <2>2, <2>3
<1>2. CASE DropDown(t) /\ UNCHANGED diamVars
  <2>1. TypeOK'
    <3>1. lost' \subseteq OutMsg
      BY <1>2 DEF DropDown, Lose, TypeOK, TcpTypeOK
    <3>2. QED
      BY <1>2, <3>1, ReleaseType DEF DropDown, Lose, tcpVars, managerVars,
         writerVars, netVars, diamVars, TypeOK, TcpTypeOK
  <2>2. ManagerInv'
    BY <1>2 DEF DropDown, Lose, Release, tcpVars, managerVars, writerVars, netVars,
       diamVars, TypeOK, TcpTypeOK, ManagerInv, EstablishedIsUp, UP, DOWN
  <2>3. CauseInv'
    BY <1>2, Kinds, Created DEF DropDown, Lose, Release, tcpVars, managerVars,
       writerVars, netVars, diamVars, TypeOK, TcpTypeOK, ManagerInv, EstablishedIsUp,
       CauseInv, CauseBeforeWrite
  <2>4. QED
    BY <2>1, <2>2, <2>3
<1>3. CASE SeeUp(t) /\ UNCHANGED diamVars
  <2>1. TypeOK'
    BY <1>3, Kinds, Created DEF SeeUp, tcpVars, managerVars, writerVars, netVars,
       diamVars, TypeOK, TcpTypeOK, ManagerInv
  <2>2. ManagerInv'
    BY <1>3 DEF SeeUp, tcpVars, managerVars, writerVars, netVars, diamVars, TypeOK,
       TcpTypeOK, ManagerInv, EstablishedIsUp, UP, DOWN
  <2>3. CauseInv'
    BY <1>3, Kinds, Created DEF SeeUp, tcpVars, managerVars, writerVars, netVars,
       diamVars, TypeOK, TcpTypeOK, ManagerInv, EstablishedIsUp, CauseInv,
       CauseBeforeWrite
  <2>4. QED
    BY <2>1, <2>2, <2>3
<1>4. CASE DropNil(t) /\ UNCHANGED diamVars
  <2>1. TypeOK'
    <3>1. lost' \subseteq OutMsg
      BY <1>4 DEF DropNil, Lose, TypeOK, TcpTypeOK
    <3>2. QED
      BY <1>4, <3>1, ReleaseType DEF DropNil, Lose, tcpVars, managerVars,
         writerVars, netVars, diamVars, TypeOK, TcpTypeOK
  <2>2. ManagerInv'
    BY <1>4 DEF DropNil, Lose, Release, tcpVars, managerVars, writerVars, netVars,
       diamVars, TypeOK, TcpTypeOK, ManagerInv, EstablishedIsUp, UP, DOWN
  <2>3. CauseInv'
    BY <1>4, Kinds, Created DEF DropNil, Lose, Release, tcpVars, managerVars,
       writerVars, netVars, diamVars, TypeOK, TcpTypeOK, ManagerInv, EstablishedIsUp,
       CauseInv, CauseBeforeWrite
  <2>4. QED
    BY <2>1, <2>2, <2>3
<1>5. CASE LoadConn(t) /\ UNCHANGED diamVars
  <2>1. TypeOK'
    BY <1>5, Kinds, Created DEF LoadConn, WriteTo, tcpVars, managerVars, writerVars, netVars,
       diamVars, TypeOK, TcpTypeOK, ManagerInv
  <2>2. ManagerInv'
    BY <1>5 DEF LoadConn, WriteTo, tcpVars, managerVars, writerVars, netVars, diamVars, TypeOK,
       TcpTypeOK, ManagerInv, EstablishedIsUp, UP, DOWN
  <2>3. CauseInv'
    <3>1. Conn \in 1..dials
      BY <1>5 DEF LoadConn, WriteTo, TypeOK, TcpTypeOK, ManagerInv, NoConn
    <3>2. QED
      BY <1>5, <3>1 DEF LoadConn, WriteTo, tcpVars, managerVars, writerVars, netVars,
         diamVars, TypeOK, TcpTypeOK, CauseInv, CauseBeforeWrite
  <2>4. QED
    BY <2>1, <2>2, <2>3
<1>6. CASE WriteOK(t) /\ UNCHANGED diamVars
  <2>1. TypeOK'
    <3>1. reached' \subseteq (0..MaxConns) \X OutMsg
      BY <1>6 DEF WriteOK, TypeOK, TcpTypeOK
    <3>2. QED
      BY <1>6, <3>1, ReleaseType DEF WriteOK, tcpVars, managerVars, writerVars,
         netVars, diamVars, TypeOK, TcpTypeOK
  <2>2. ManagerInv'
    BY <1>6 DEF WriteOK, Release, tcpVars, managerVars, writerVars, netVars, diamVars,
       TypeOK, TcpTypeOK, ManagerInv, EstablishedIsUp, UP, DOWN
  <2>3. CauseInv'
    BY <1>6, Kinds, Created DEF WriteOK, Release, tcpVars, managerVars, writerVars,
       netVars, diamVars, TypeOK, TcpTypeOK, ManagerInv, EstablishedIsUp, CauseInv,
       CauseBeforeWrite
  <2>4. QED
    BY <2>1, <2>2, <2>3
<1>7. CASE WriteFails(t) /\ UNCHANGED diamVars
  <2>1. TypeOK'
    <3>1. lost' \subseteq OutMsg
      BY <1>7 DEF WriteFails, WritesLate, Lose, TypeOK, TcpTypeOK
    <3>2. QED
      BY <1>7, <3>1, ReleaseType DEF WriteFails, WritesLate, Lose, tcpVars, managerVars,
         writerVars, netVars, diamVars, TypeOK, TcpTypeOK
  <2>2. ManagerInv'
    BY <1>7 DEF WriteFails, WritesLate, Lose, Release, tcpVars, managerVars, writerVars, netVars,
       diamVars, TypeOK, TcpTypeOK, ManagerInv, EstablishedIsUp, UP, DOWN
  <2>3. CauseInv'
    BY <1>7, Kinds, Created DEF WriteFails, WritesLate, Lose, Release, tcpVars, managerVars,
       writerVars, netVars, diamVars, TypeOK, TcpTypeOK, ManagerInv, EstablishedIsUp,
       CauseInv, CauseBeforeWrite
  <2>4. QED
    BY <2>1, <2>2, <2>3
<1>8. CASE WriteHalfClosed(t) /\ UNCHANGED diamVars
  <2>1. TypeOK'
    <3>1. reached' \subseteq (0..MaxConns) \X OutMsg
      BY <1>8 DEF WriteHalfClosed, WritesLate, TypeOK, TcpTypeOK
    <3>2. QED
      BY <1>8, <3>1, ReleaseType DEF WriteHalfClosed, WritesLate, tcpVars, managerVars,
         writerVars, netVars, diamVars, TypeOK, TcpTypeOK
  <2>2. ManagerInv'
    BY <1>8 DEF WriteHalfClosed, WritesLate, Release, tcpVars, managerVars, writerVars, netVars,
       diamVars, TypeOK, TcpTypeOK, ManagerInv, EstablishedIsUp, UP, DOWN
  <2>3. CauseInv'
    BY <1>8, Kinds, Created DEF WriteHalfClosed, WritesLate, Release, tcpVars, managerVars,
       writerVars, netVars, diamVars, TypeOK, TcpTypeOK, ManagerInv, EstablishedIsUp,
       CauseInv, CauseBeforeWrite
  <2>4. QED
    BY <2>1, <2>2, <2>3
<1>9. CASE WriteHeld(t) /\ UNCHANGED diamVars
  <2>1. TypeOK'
    BY <1>9, Kinds, Created DEF WriteHeld, tcpVars, managerVars, writerVars, netVars,
       diamVars, TypeOK, TcpTypeOK, ManagerInv
  <2>2. ManagerInv'
    BY <1>9 DEF WriteHeld, tcpVars, managerVars, writerVars, netVars, diamVars, TypeOK,
       TcpTypeOK, ManagerInv, EstablishedIsUp, UP, DOWN
  <2>3. CauseInv'
    BY <1>9, Kinds, Created DEF WriteHeld, tcpVars, managerVars, writerVars, netVars,
       diamVars, TypeOK, TcpTypeOK, ManagerInv, EstablishedIsUp, CauseInv,
       CauseBeforeWrite
  <2>4. QED
    BY <2>1, <2>2, <2>3
<1>10. QED
  BY <1>1, <1>2, <1>3, <1>4, <1>5, <1>6, <1>7, <1>8, <1>9 DEF WriterStep, Writer

\* A worker.
LEMMA WorkerKeepsInv ==
  ASSUME TypeOK, ManagerInv, CauseInv, NEW w \in Workers,
         HandleSend(w) \/ WorkerInternal(w) \/ ApplicationReceives(w)
  PROVE  TypeOK' /\ ManagerInv' /\ CauseInv'
<1> USE TcpAssumption, DiamAssumption
<1>1. CASE HandleCEA(w)
  <2>1. TypeOK'
    BY <1>1, Kinds, Created DEF HandleCEA, Receive, Block, tcpVars, managerVars,
       writerVars, netVars, diamVars, TypeOK, TcpTypeOK, ManagerInv
  <2>2. ManagerInv'
    BY <1>1 DEF HandleCEA, Receive, Block, tcpVars, managerVars, writerVars, netVars,
       diamVars, TypeOK, TcpTypeOK, ManagerInv, EstablishedIsUp, UP, DOWN
  <2>3. CauseInv'
    <3>1. /\ UpTo(Tail(rcvd_ch), Conn) /\ Head(rcvd_ch).conn <= Conn
          /\ Head(rcvd_ch) \in Frame
      BY <1>1, TailUpTo, HeadTailProperties DEF HandleCEA, Receive, TypeOK,
         TcpTypeOK, CauseInv
    <3>2. QED
      BY <1>1, <3>1, Created DEF HandleCEA, Receive, Block, tcpVars, managerVars,
         writerVars, netVars, diamVars, TypeOK, CauseInv, CauseBeforeWrite
  <2>4. QED
    BY <2>1, <2>2, <2>3
<1>2. CASE HandleDWR(w)
  <2>1. TypeOK'
    BY <1>2, Kinds, Created DEF HandleDWR, Receive, Block, tcpVars, managerVars,
       writerVars, netVars, diamVars, TypeOK, TcpTypeOK, ManagerInv
  <2>2. ManagerInv'
    BY <1>2 DEF HandleDWR, Receive, Block, tcpVars, managerVars, writerVars, netVars,
       diamVars, TypeOK, TcpTypeOK, ManagerInv, EstablishedIsUp, UP, DOWN
  <2>3. CauseInv'
    <3>1. /\ UpTo(Tail(rcvd_ch), Conn) /\ Head(rcvd_ch).conn <= Conn
          /\ Head(rcvd_ch) \in Frame
      BY <1>2, TailUpTo, HeadTailProperties DEF HandleDWR, Receive, TypeOK,
         TcpTypeOK, CauseInv
    <3>2. QED
      BY <1>2, <3>1, Created DEF HandleDWR, Receive, Block, tcpVars, managerVars,
         writerVars, netVars, diamVars, TypeOK, CauseInv, CauseBeforeWrite
  <2>4. QED
    BY <2>1, <2>2, <2>3
<1>3. CASE HandleOther(w)
  <2>1. TypeOK'
    BY <1>3, Kinds, Created DEF HandleOther, Receive, Block, tcpVars, managerVars,
       writerVars, netVars, diamVars, TypeOK, TcpTypeOK, ManagerInv
  <2>2. ManagerInv'
    BY <1>3 DEF HandleOther, Receive, Block, tcpVars, managerVars, writerVars,
       netVars, diamVars, TypeOK, TcpTypeOK, ManagerInv, EstablishedIsUp, UP, DOWN
  <2>3. CauseInv'
    <3>1. /\ UpTo(Tail(rcvd_ch), Conn) /\ Head(rcvd_ch).conn <= Conn
          /\ Head(rcvd_ch) \in Frame
      BY <1>3, TailUpTo, HeadTailProperties DEF HandleOther, Receive, TypeOK,
         TcpTypeOK, CauseInv
    <3>2. QED
      BY <1>3, <3>1, Created DEF HandleOther, Receive, Block, tcpVars, managerVars,
         writerVars, netVars, diamVars, TypeOK, CauseInv, CauseBeforeWrite
  <2>4. QED
    BY <2>1, <2>2, <2>3
<1>4. CASE HandleTcpUp(w)
  <2>1. TypeOK'
    BY <1>4, Kinds, Created DEF HandleTcpUp, Notify, Block, tcpVars, managerVars,
       writerVars, netVars, diamVars, TypeOK, TcpTypeOK, ManagerInv
  <2>2. ManagerInv'
    BY <1>4 DEF HandleTcpUp, Notify, Block, tcpVars, managerVars, writerVars, netVars,
       diamVars, TypeOK, TcpTypeOK, ManagerInv, EstablishedIsUp, UP, DOWN
  <2>3. CauseInv'
    BY <1>4, Kinds, Created DEF HandleTcpUp, Notify, Block, tcpVars, managerVars,
       writerVars, netVars, diamVars, TypeOK, TcpTypeOK, ManagerInv, EstablishedIsUp,
       CauseInv, CauseBeforeWrite
  <2>4. QED
    BY <2>1, <2>2, <2>3
<1>5. CASE Enqueue(w)
  <2>1. TypeOK'
    BY <1>5, Kinds, Created DEF Enqueue, Unblock, tcpVars, managerVars, writerVars,
       netVars, diamVars, TypeOK, TcpTypeOK, ManagerInv
  <2>2. ManagerInv'
    BY <1>5 DEF Enqueue, Unblock, tcpVars, managerVars, writerVars, netVars, diamVars,
       TypeOK, TcpTypeOK, ManagerInv, EstablishedIsUp, UP, DOWN
  <2>3. CauseInv'
    <3>1. UpTo(Append(write_ch, mess[w]), Conn)
      BY <1>5, AppendUpTo DEF Enqueue, Unblock, TypeOK, TcpTypeOK, CauseInv
    <3>2. NoMsg.conn <= Conn
      BY Kinds DEF TypeOK, TcpTypeOK
    <3>3. QED
      BY <1>5, <3>1, <3>2 DEF Enqueue, Unblock, tcpVars, managerVars, writerVars,
         netVars, diamVars, TypeOK, CauseInv, CauseBeforeWrite
  <2>4. QED
    BY <2>1, <2>2, <2>3
<1>6. CASE HandleSend(w)
  <2>1. TypeOK'
    BY <1>6, Kinds, Created DEF HandleSend, Block, tcpVars, managerVars, writerVars,
       netVars, diamVars, TypeOK, TcpTypeOK, ManagerInv
  <2>2. ManagerInv'
    BY <1>6 DEF HandleSend, Block, tcpVars, managerVars, writerVars, netVars,
       diamVars, TypeOK, TcpTypeOK, ManagerInv, EstablishedIsUp, UP, DOWN
  <2>3. CauseInv'
    BY <1>6, Kinds, Created DEF HandleSend, Block, tcpVars, managerVars, writerVars,
       netVars, diamVars, TypeOK, TcpTypeOK, ManagerInv, EstablishedIsUp, CauseInv,
       CauseBeforeWrite
  <2>4. QED
    BY <2>1, <2>2, <2>3
<1>7. CASE Deliver(w)
  <2>1. TypeOK'
    BY <1>7, Kinds, Created DEF Deliver, Unblock, tcpVars, managerVars, writerVars,
       netVars, diamVars, TypeOK, TcpTypeOK, ManagerInv
  <2>2. ManagerInv'
    BY <1>7 DEF Deliver, Unblock, tcpVars, managerVars, writerVars, netVars, diamVars,
       TypeOK, TcpTypeOK, ManagerInv, EstablishedIsUp, UP, DOWN
  <2>3. CauseInv'
    BY <1>7, Kinds, Created DEF Deliver, Unblock, tcpVars, managerVars, writerVars,
       netVars, diamVars, TypeOK, TcpTypeOK, ManagerInv, EstablishedIsUp, CauseInv,
       CauseBeforeWrite
  <2>4. QED
    BY <2>1, <2>2, <2>3
<1>8. CASE PostEvent(w)
  <2>1. TypeOK'
    BY <1>8, Kinds, Created DEF PostEvent, Unblock, tcpVars, managerVars, writerVars,
       netVars, diamVars, TypeOK, TcpTypeOK, ManagerInv
  <2>2. ManagerInv'
    BY <1>8 DEF PostEvent, Unblock, tcpVars, managerVars, writerVars, netVars,
       diamVars, TypeOK, TcpTypeOK, ManagerInv, EstablishedIsUp, UP, DOWN
  <2>3. CauseInv'
    BY <1>8, Kinds, Created DEF PostEvent, Unblock, tcpVars, managerVars, writerVars,
       netVars, diamVars, TypeOK, TcpTypeOK, ManagerInv, EstablishedIsUp, CauseInv,
       CauseBeforeWrite
  <2>4. QED
    BY <2>1, <2>2, <2>3
<1>9. QED
  BY <1>1, <1>2, <1>3, <1>4, <1>5, <1>6, <1>7, <1>8 DEF WorkerInternal, ApplicationReceives

\* The network.
LEMMA NetworkKeepsInv ==
  ASSUME TypeOK, ManagerInv, CauseInv, NetworkStep
  PROVE  TypeOK' /\ ManagerInv' /\ CauseInv'
<1> USE TcpAssumption, DiamAssumption
<1>1. CASE PeerReads /\ UNCHANGED diamVars
  <2>1. TypeOK'
    BY <1>1, Kinds, Created DEF PeerReads, tcpVars, managerVars, writerVars, netVars,
       diamVars, TypeOK, TcpTypeOK, ManagerInv
  <2>2. ManagerInv'
    BY <1>1 DEF PeerReads, tcpVars, managerVars, writerVars, netVars, diamVars,
       TypeOK, TcpTypeOK, ManagerInv, EstablishedIsUp, UP, DOWN
  <2>3. CauseInv'
    BY <1>1, Kinds, Created DEF PeerReads, tcpVars, managerVars, writerVars, netVars,
       diamVars, TypeOK, TcpTypeOK, ManagerInv, EstablishedIsUp, CauseInv,
       CauseBeforeWrite
  <2>4. QED
    BY <2>1, <2>2, <2>3
<1>2. CASE ConnectionEnds /\ UNCHANGED diamVars
  <2>0. inbound' \in Seq(Frame) /\ UpTo(inbound', dials)
    <3>1. PICK n \in 0..Len(inbound) : inbound' = SubSeq(inbound, 1, n)
      BY <1>2 DEF ConnectionEnds
    <3>2. /\ inbound \in Seq(Frame) /\ UpTo(inbound, dials) /\ Len(inbound) \in Nat
          /\ 1 \in 1..(Len(inbound) + 1)
      BY DEF TypeOK, TcpTypeOK, CauseInv
    <3>3. QED
      BY <3>1, <3>2, SubSeqUpTo
  <2>1. TypeOK'
    BY <1>2, <2>0 DEF ConnectionEnds, tcpVars, managerVars, writerVars, netVars,
       diamVars, TypeOK, TcpTypeOK
  <2>2. ManagerInv'
    BY <1>2 DEF ConnectionEnds, tcpVars, managerVars, writerVars, netVars, diamVars,
       TypeOK, TcpTypeOK, ManagerInv, EstablishedIsUp, UP, DOWN
  <2>3. CauseInv'
    BY <1>2, <2>0 DEF ConnectionEnds, tcpVars, managerVars, writerVars, netVars,
       diamVars, CauseInv, CauseBeforeWrite
  <2>4. QED
    BY <2>1, <2>2, <2>3
<1>3. CASE \E k \in FrameKinds : PeerSends(k) /\ UNCHANGED diamVars
  <2> PICK k \in FrameKinds : PeerSends(k) /\ UNCHANGED diamVars
    BY <1>3
  <2> DEFINE f == [kind |-> k, id |-> frames + 1, conn |-> dials]
  <2>1. f \in Frame /\ f.conn = dials
    BY DEF PeerSends, TypeOK, TcpTypeOK, ManagerInv, Frame
  <2>2. inbound' \in Seq(Frame) /\ UpTo(inbound', dials)
    BY <2>1, AppendUpTo, AppendProperties DEF PeerSends, TypeOK, TcpTypeOK, CauseInv
  <2>3. TypeOK'
    BY <2>2 DEF PeerSends, tcpVars, managerVars, writerVars, netVars, diamVars,
       TypeOK, TcpTypeOK
  <2>4. ManagerInv'
    BY DEF PeerSends, tcpVars, managerVars, writerVars, netVars, diamVars, ManagerInv,
       EstablishedIsUp
  <2>5. CauseInv'
    BY <2>2 DEF PeerSends, tcpVars, managerVars, writerVars, netVars, diamVars,
       CauseInv, CauseBeforeWrite
  <2>6. QED
    BY <2>3, <2>4, <2>5
<1>4. QED
  BY <1>1, <1>2, <1>3 DEF NetworkStep, Network

\* No step of any goroutine, of the network or of the application breaks it.
LEMMA StepKeepsIndInv == IndInv /\ [Next]_vars => IndInv'
<1> SUFFICES ASSUME IndInv, [Next]_vars PROVE IndInv'
  OBVIOUS
<1> USE DEF IndInv
<1>1. CASE ManagerStep
  BY <1>1, ManagerKeepsInv
<1>2. CASE \E t \in Writers : WriterStep(t)
  BY <1>2, WriterKeepsInv
<1>3. CASE \E w \in Workers : HandleSend(w) \/ WorkerInternal(w) \/ ApplicationReceives(w)
  BY <1>3, WorkerKeepsInv
<1>4. CASE NetworkStep
  BY <1>4, NetworkKeepsInv
<1>5. CASE UNCHANGED vars
  <2>1. TypeOK'
    BY <1>5 DEF vars, tcpVars, managerVars, writerVars, netVars, diamVars, TypeOK, TcpTypeOK
  <2>2. ManagerInv' /\ CauseInv'
    BY <1>5 DEF vars, tcpVars, managerVars, writerVars, netVars, diamVars, ManagerInv,
                EstablishedIsUp, CauseInv, CauseBeforeWrite
  <2>3. QED
    BY <2>1, <2>2
<1>6. QED
  BY <1>1, <1>2, <1>3, <1>4, <1>5 DEF Next, Internal, Idle

\* The inductive invariant behind the theorems below holds throughout.
THEOREM Invariance == Spec => []IndInv
  BY InitIndInv, StepKeepsIndInv, PTL DEF Spec

\* Every variable of the endpoint and of the workers keeps its type; in
\* particular neither channel ever holds more than its capacity and no sending
\* worker or busy Writer is without a message.
THEOREM TypeCorrect == Spec => []TypeOK
<1>1. IndInv => TypeOK
  BY DEF IndInv
<1>2. QED
  BY <1>1, Invariance, PTL

\* A CER or the reply to a watchdog never goes out on a connection older than
\* the one it is about, for any number of reconnects, workers and Writers.
THEOREM NothingBeforeItsCause == Spec => []CauseBeforeWrite
<1>1. IndInv => CauseBeforeWrite
  BY DEF IndInv, CauseInv
<1>2. QED
  BY <1>1, Invariance, PTL

\* c.state and c.Conn describe the newest connection whenever the manager is
\* past init, whatever the Writers do.
THEOREM EstablishedState == Spec => []EstablishedIsUp
<1>1. IndInv => EstablishedIsUp
  BY DEF IndInv, ManagerInv
<1>2. QED
  BY <1>1, Invariance, PTL

\* While a connection is established and open, a message can only be lost by a
\* Writer that had already loaded an earlier connection.
THEOREM LossOnlyOnOldConnection == Spec => NoLossWhileEstablished
<1>1. IndInv /\ [Next]_vars => [LossIsLate]_vars
  <2> SUFFICES ASSUME IndInv, [Next]_vars, lost' # lost, Established PROVE LossIsLate
    BY DEF LossIsLate
  <2>1. /\ netOpen /\ state = UP /\ Conn = dials
        /\ dials \in Nat /\ dials > 0
    BY TcpAssumption DEF Established, IndInv, TypeOK, TcpTypeOK, ManagerInv, EstablishedIsUp
  <2>2. PICK t \in Writers : DropDown(t) \/ DropNil(t) \/ WriteFails(t)
    BY DEF Next, Internal, ManagerStep, Manager, DialSucceeds, DialFails, Redial, SetUp,
           SetConn, ReadSome, ReadFails, PushFrame, Pushed, WriterStep, Writer, TakeMessage,
           SeeUp, LoadConn, WriteTo, WriteOK, WriteHeld, WriteHalfClosed, WorkerInternal,
           HandleCEA,
           HandleDWR, HandleOther, HandleTcpUp, Receive, Enqueue, HandleSend,
           ApplicationReceives, Deliver, PostEvent, NetworkStep, Network, PeerReads,
           ConnectionEnds, PeerSends, Idle, vars, tcpVars, writerVars
  <2>3. WriteFails(t)
    BY <2>1, <2>2 DEF DropDown, DropNil, UP, DOWN, NoConn
  <2>4. target[t] \in 1..dials /\ target[t] # dials
    BY <2>1, <2>3 DEF WriteFails, WritesLate, Live, IndInv, CauseInv
  <2>5. QED
    BY <2>1, <2>3, <2>4 DEF WriteFails, WritesLate, Lose, LossIsLate
<1>2. QED
  BY <1>1, Invariance, PTL DEF Spec, NoLossWhileEstablished

-----------------------------------------------------------------------------
(***************************************************************************)
(* DiamConn implements Intake.  The manager reads each connection as a     *)
(* stream of frames, whatever the other goroutines do; and the goroutines  *)
(* never block each other for good.                                        *)
(***************************************************************************)
\* A connection is closed before the manager dials again, and collect holds
\* complete frames only while they are being pushed.
StreamInv ==
  /\ mpc \in {"dial", "sleep"} => ~netOpen
  /\ mpc # "push" => collect = <<>>

ReadsOn == Stream!Next \/ UNCHANGED Stream!vars

-----------------------------------------------------------------------------
\* The identities of a sequence of frames.
LEMMA IdsOf ==
  ASSUME NEW s \in Seq(Frame)
  PROVE  /\ Ids(s) \in Seq(Nat) /\ Len(Ids(s)) = Len(s)
         /\ DOMAIN Ids(s) = 1..Len(s)
         /\ \A i \in 1..Len(s) : Ids(s)[i] = s[i].id
<1>1. \A i \in 1..Len(s) : s[i].id \in Nat
  BY ElementOfSeq, Kinds
<1>2. Len(s) \in Nat
  OBVIOUS
<1>3. Ids(s) \in [1..Len(s) -> Nat]
  BY <1>1 DEF Ids
<1>4. QED
  BY <1>2, <1>3 DEF Ids

\* Sending a frame appends its identity.
LEMMA IdsAppend ==
  ASSUME NEW s \in Seq(Frame), NEW f \in Frame
  PROVE  Ids(Append(s, f)) = Append(Ids(s), f.id)
  BY DEF Ids

\* A frame put into a channel is all that is new in it.
LEMMA ElementsAppend ==
  ASSUME NEW s \in Seq(Frame), NEW f \in Frame
  PROVE  Elements(Append(s, f)) = Elements(s) \union {f}
<1>1. /\ Len(s) \in Nat /\ Len(Append(s, f)) = Len(s) + 1
      /\ \A i \in 1..Len(s) : Append(s, f)[i] = s[i]
      /\ Append(s, f)[Len(s) + 1] = f
  OBVIOUS
<1>2. 1..(Len(s) + 1) = 1..Len(s) \union {Len(s) + 1}
  BY <1>1
<1>3. QED
  BY <1>1, <1>2, Zenon DEF Elements

\* The first frame handed on is the first that waits.
LEMMA IdsTail ==
  ASSUME NEW s \in Seq(Frame), s # <<>>
  PROVE  /\ Ids(s) # <<>> /\ Head(Ids(s)) = Head(s).id
         /\ Ids(Tail(s)) = Tail(Ids(s))
  BY IdsOf DEF Ids

\* What is left of the frames of a connection that has ended.
LEMMA IdsPrefix ==
  ASSUME NEW s \in Seq(Frame), NEW n \in 0..Len(s)
  PROVE  Ids(SubSeq(s, 1, n)) = SubSeq(Ids(s), 1, n)
  BY IdsOf DEF Ids

\* Collecting, pushing, sending and losing, seen on the frames that wait.
LEMMA Streams ==
  ASSUME NEW s \in Seq(Frame), NEW u \in Seq(Frame)
  PROVE  /\ s \o u \in Seq(Frame)
         /\ \A n \in 0..Len(u) :
              /\ (s \o SubSeq(u, 1, n)) \o SubSeq(u, n + 1, Len(u)) = s \o u
              /\ s \o SubSeq(u, 1, n) = SubSeq(s \o u, 1, Len(s) + n)
         /\ \A f \in Frame : s \o Append(u, f) = Append(s \o u, f)
         /\ s # <<>> => /\ s \o u # <<>>
                        /\ Head(s \o u) = Head(s)
                        /\ Tail(s \o u) = Tail(s) \o u
<1>1. s \o u \in Seq(Frame) /\ Len(s \o u) = Len(s) + Len(u)
  BY ConcatProperties
<1>2. ASSUME NEW n \in 0..Len(u)
      PROVE  (s \o SubSeq(u, 1, n)) \o SubSeq(u, n + 1, Len(u)) = s \o u
  <2>1. /\ Len(u) \in Nat /\ n \in (1 - 1)..Len(u) /\ Len(u) \in n..Len(u)
        /\ 1 \in 1..(Len(u) + 1) /\ n + 1 \in 1..(Len(u) + 1) /\ n \in 0..Len(u)
    OBVIOUS
  <2>2. SubSeq(u, 1, n) \in Seq(Frame) /\ SubSeq(u, n + 1, Len(u)) \in Seq(Frame)
    BY <2>1
  <2>3. SubSeq(u, 1, n) \o SubSeq(u, n + 1, Len(u)) = SubSeq(u, 1, Len(u))
    BY <2>1, ConcatAdjacentSubSeq
  <2>4. \A p, q \in Seq(Frame) : (s \o p) \o q = s \o (p \o q)
    BY ConcatAssociative
  <2>5. (s \o SubSeq(u, 1, n)) \o SubSeq(u, n + 1, Len(u))
          = s \o (SubSeq(u, 1, n) \o SubSeq(u, n + 1, Len(u)))
    BY <2>2, <2>4, Zenon
  <2>6. SubSeq(u, 1, Len(u)) = u
    BY SubSeqFull
  <2>7. QED
    BY <2>3, <2>5, <2>6, Zenon
<1>3. ASSUME NEW n \in 0..Len(u)
      PROVE  s \o SubSeq(u, 1, n) = SubSeq(s \o u, 1, Len(s) + n)
  OBVIOUS
<1>4. ASSUME NEW f \in Frame PROVE s \o Append(u, f) = Append(s \o u, f)
  OBVIOUS
<1>5. ASSUME s # <<>>
      PROVE  /\ s \o u # <<>>
             /\ Head(s \o u) = Head(s)
             /\ Tail(s \o u) = Tail(s) \o u
  BY <1>5, <1>1
<1>6. QED
  BY <1>1, <1>2, <1>3, <1>4, <1>5

-----------------------------------------------------------------------------
\* The stream before the first dial.
LEMMA InitStream == Init => Stream!Init /\ StreamInv
<1> SUFFICES ASSUME Init PROVE Stream!Init /\ StreamInv
  OBVIOUS
<1> USE DEF Init, TcpInit
<1>1. FramesWaiting = <<>>
  <2>1. <<>> \o <<>> = <<>> /\ Ids(<<>>) = <<>>
    BY DEF Ids
  <2>2. QED
    BY <2>1 DEF FramesWaiting
<1>2. FramesHanded = {}
  BY DEF FramesHanded, FramesHeld, FramesHandled, Elements
<1>3. (~netOpen) \in BOOLEAN
  <2>1. netOpen = FALSE
    BY Zenon
  <2>2. (~netOpen) = TRUE
    BY <2>1
  <2>3. QED
    BY <2>2
<1>4. QED
  BY <1>1, <1>2, <1>3 DEF Stream!Init, StreamInv

\* Frames that have been put into rcvd_ch stay handed on: only the goroutines that
\* hold them change.
LEMMA HandedOnKept ==
  ASSUME UNCHANGED <<rcvd_ch, diamVars>>
  PROVE  UNCHANGED FramesHanded
  BY DEF diamVars, FramesHanded, FramesHeld, FramesHandled, Elements

\* A step that touches none of the manager's frames.
LEMMA WaitingKept ==
  ASSUME UNCHANGED <<collect, inbound>>
  PROVE  UNCHANGED FramesWaiting
  BY DEF FramesWaiting, Ids

\* The manager.
LEMMA ManagerReadsOn ==
  ASSUME TypeOK, ManagerInv, StreamInv, ManagerStep
  PROVE  ReadsOn /\ StreamInv'
<1> USE DEF tcpVars, managerVars, writerVars, netVars
<1>0. collect \in Seq(Frame) /\ inbound \in Seq(Frame) /\ netOpen \in BOOLEAN
  BY DEF TypeOK, TcpTypeOK
<1>1. CASE DialSucceeds
  <2>1. /\ ~netOpen /\ netOpen' /\ UNCHANGED <<rcvd_ch, diamVars, frames>>
        /\ collect' = <<>> /\ inbound' = <<>>
    BY <1>1 DEF ManagerStep, DialSucceeds, StreamInv
  <2>2. FramesWaiting' = <<>>
    BY <2>1 DEF FramesWaiting, Ids
  <2>3. Stream!Reconnect
    BY <2>1, <2>2, HandedOnKept DEF Stream!Reconnect
  <2>4. QED
    BY <1>1, <2>1, <2>3 DEF ReadsOn, Stream!Next, StreamInv, DialSucceeds
<1>2. CASE DialFails \/ Redial \/ SetUp \/ SetConn \/ ReadFails
  <2>1. UNCHANGED <<rcvd_ch, diamVars, frames, collect, inbound, netOpen>>
    BY <1>2 DEF ManagerStep, DialFails, Redial, SetUp, SetConn, ReadFails
  <2>2. UNCHANGED Stream!vars
    BY <2>1, HandedOnKept, WaitingKept DEF Stream!vars
  <2>3. StreamInv'
    BY <1>2, <2>1 DEF DialFails, Redial, SetUp, SetConn, ReadFails, StreamInv
  <2>4. QED
    BY <2>2, <2>3 DEF ReadsOn
<1>3. CASE ReadSome
  <2>1. PICK n \in 1..Len(inbound) :
          /\ collect' = collect \o SubSeq(inbound, 1, n)
          /\ inbound' = SubSeq(inbound, n + 1, Len(inbound))
    BY <1>3 DEF ReadSome
  <2>2. UNCHANGED FramesWaiting
    <3>1. n \in 0..Len(inbound) /\ (collect \o inbound)' = collect' \o inbound'
      OBVIOUS
    <3>2. (collect \o inbound)' = collect \o inbound
      BY <1>0, <2>1, <3>1, Streams
    <3>3. QED
      BY <3>2 DEF FramesWaiting, Ids
  <2>3. UNCHANGED <<rcvd_ch, diamVars, frames, netOpen>>
    BY <1>3 DEF ManagerStep, ReadSome
  <2>4. UNCHANGED Stream!vars
    BY <2>2, <2>3, HandedOnKept DEF Stream!vars
  <2>5. StreamInv'
    BY <1>3 DEF ReadSome, StreamInv
  <2>6. QED
    BY <2>4, <2>5 DEF ReadsOn
<1>4. CASE PushFrame
  <2>1. /\ collect # <<>> /\ collect' = Tail(collect) /\ rcvd_ch \in Seq(Frame)
        /\ rcvd_ch' = Append(rcvd_ch, Head(collect))
        /\ UNCHANGED <<diamVars, frames, inbound, netOpen>>
    BY <1>4 DEF ManagerStep, PushFrame, Pushed, ManagerInv, TypeOK, TcpTypeOK
  <2>2. /\ FramesWaiting # <<>> /\ Head(FramesWaiting) = Head(collect).id
        /\ FramesWaiting' = Tail(FramesWaiting)
    <3>1. /\ collect \o inbound \in Seq(Frame) /\ collect \o inbound # <<>>
          /\ Head(collect \o inbound) = Head(collect)
          /\ (collect \o inbound)' = Tail(collect \o inbound)
      BY <1>0, <2>1, Streams
    <3>2. FramesWaiting' = Ids((collect \o inbound)')
      BY DEF FramesWaiting, Ids
    <3>3. QED
      BY <3>1, <3>2, IdsTail DEF FramesWaiting
  <2>3. FramesHanded' = FramesHanded \union {Head(collect).id}
    <3>1. Elements(rcvd_ch)' = Elements(rcvd_ch) \union {Head(collect)}
      <4>1. Head(collect) \in Frame /\ rcvd_ch \in Seq(Frame)
        BY <1>0, <2>1, HeadTailProperties
      <4>2. Elements(rcvd_ch)' = Elements(Append(rcvd_ch, Head(collect)))
        BY <2>1 DEF Elements
      <4>3. QED
        BY <4>1, <4>2, ElementsAppend
    <3>2. UNCHANGED <<FramesHeld, FramesHandled>>
      BY <2>1 DEF diamVars, FramesHeld, FramesHandled
    <3>3. QED
      BY <3>1, <3>2 DEF FramesHanded
  <2>4. Stream!Hand
    BY <2>1, <2>2, <2>3 DEF Stream!Hand
  <2>5. StreamInv'
    BY <1>4, <2>1 DEF PushFrame, Pushed, StreamInv
  <2>6. QED
    BY <2>4, <2>5 DEF ReadsOn, Stream!Next
<1>5. QED
  BY <1>1, <1>2, <1>3, <1>4 DEF ManagerStep, Manager

\* A Writer has nothing to do with frames.
LEMMA WriterReadsOn ==
  ASSUME StreamInv, NEW t \in Writers, WriterStep(t)
  PROVE  ReadsOn /\ StreamInv'
<1>1. UNCHANGED <<rcvd_ch, mpc, collect, inbound, frames, netOpen, diamVars>>
  BY DEF WriterStep, Writer, TakeMessage, DropDown, SeeUp, DropNil, LoadConn, WriteTo,
         WriteOK, WriteFails, WriteHeld, WriteHalfClosed, managerVars, netVars
<1>2. UNCHANGED Stream!vars
  BY <1>1, HandedOnKept, WaitingKept DEF Stream!vars
<1>3. StreamInv'
  BY <1>1 DEF StreamInv
<1>4. QED
  BY <1>2, <1>3 DEF ReadsOn

\* The frames that workers hold when one of them takes or sends something.
LEMMA HeldByOne ==
  ASSUME TypeOK, NEW w \in Workers, NEW ch, NEW x,
         wpc' = [wpc EXCEPT ![w] = ch], mess' = [mess EXCEPT ![w] = x]
  PROVE  LET held == {"mgmt_diam_conn", "rcv_mess_ch"}
         IN  /\ wpc[w] \notin held /\ ch \in held => FramesHeld' = FramesHeld \union {x}
             /\ wpc[w] \notin held /\ ch \notin held => FramesHeld' = FramesHeld
             /\ wpc[w] \in held /\ ch \notin held =>
                  FramesHeld' \union {mess[w]} = FramesHeld \union {mess[w]}
                    /\ mess[w] \in FramesHeld
  BY DEF FramesHeld, TypeOK

\* A worker that takes a frame goes on holding it or has replied to it, and one that
\* gives it to the application has given it to the application.
LEMMA WorkerKeepsHanded ==
  ASSUME TypeOK, NEW w \in Workers,
         HandleSend(w) \/ WorkerInternal(w) \/ ApplicationReceives(w)
  PROVE  UNCHANGED FramesHanded
<1> DEFINE in == Elements(rcvd_ch) \union FramesHeld \union FramesHandled
<1>1. SUFFICES in' = in
  BY DEF FramesHanded
<1>2. CASE HandleCEA(w) \/ HandleOther(w) \/ HandleDWR(w)
  <2>1. Elements(rcvd_ch) = Elements(rcvd_ch') \union {Head(rcvd_ch)}
    <3>1. rcvd_ch \in Seq(Frame) /\ rcvd_ch # <<>> /\ rcvd_ch' = Tail(rcvd_ch)
      BY <1>2 DEF HandleCEA, HandleOther, HandleDWR, Receive, TypeOK, TcpTypeOK
    <3>2. QED
      BY <3>1, HeadTailProperties DEF Elements
  <2>2. CASE HandleCEA(w) \/ HandleOther(w)
    <3>1. FramesHeld' = FramesHeld \union {Head(rcvd_ch)}
      BY <2>2, HeldByOne DEF HandleCEA, HandleOther, Block
    <3>2. UNCHANGED FramesHandled
      BY <2>2 DEF HandleCEA, HandleOther, FramesHandled
    <3>3. QED
      BY <2>1, <3>1, <3>2 DEF Elements
  <2>3. CASE HandleDWR(w)
    <3>1. FramesHeld' = FramesHeld
      BY <2>3, HeldByOne DEF HandleDWR, Block
    <3>2. FramesHandled' = FramesHandled \union {Head(rcvd_ch)}
      BY <2>3 DEF HandleDWR, FramesHandled
    <3>3. QED
      BY <2>1, <3>1, <3>2 DEF Elements
  <2>4. QED
    BY <1>2, <2>2, <2>3
<1>3. CASE HandleSend(w) \/ HandleTcpUp(w) \/ Enqueue(w)
  <2>1. FramesHeld' = FramesHeld
    BY <1>3, HeldByOne DEF HandleSend, HandleTcpUp, Enqueue, Block, Unblock
  <2>2. UNCHANGED <<rcvd_ch, toApp, events, answered>>
    BY <1>3 DEF HandleSend, HandleTcpUp, Enqueue, tcpVars
  <2>3. QED
    BY <2>1, <2>2 DEF Elements, FramesHandled
<1>4. CASE Deliver(w) \/ PostEvent(w)
  <2>1. FramesHeld' \union {mess[w]} = FramesHeld \union {mess[w]} /\ mess[w] \in FramesHeld
    BY <1>4, HeldByOne DEF Deliver, PostEvent, Unblock
  <2>2. FramesHandled' = FramesHandled \union {mess[w]} /\ UNCHANGED rcvd_ch
    BY <1>4 DEF Deliver, PostEvent, FramesHandled, tcpVars
  <2>3. QED
    BY <2>1, <2>2 DEF Elements
<1>5. QED
  BY <1>2, <1>3, <1>4 DEF WorkerInternal, ApplicationReceives

\* A worker, with the application.
LEMMA WorkerReadsOn ==
  ASSUME TypeOK, StreamInv, NEW w \in Workers,
         HandleSend(w) \/ WorkerInternal(w) \/ ApplicationReceives(w)
  PROVE  ReadsOn /\ StreamInv'
<1>1. UNCHANGED <<collect, inbound, frames, netOpen>>
  BY DEF WorkerInternal, ApplicationReceives, HandleSend, HandleCEA, HandleDWR,
         HandleOther, HandleTcpUp, Enqueue, Deliver, PostEvent, Receive, tcpVars,
         managerVars, netVars
<1>2. UNCHANGED Stream!vars
  BY <1>1, WorkerKeepsHanded, WaitingKept DEF Stream!vars
<1>3. mpc' = mpc \/ (mpc = "notify" /\ mpc' = "read")
  BY DEF WorkerInternal, ApplicationReceives, HandleSend, HandleCEA, HandleDWR,
         HandleOther, HandleTcpUp, Notify, Enqueue, Deliver, PostEvent, Receive, tcpVars,
         managerVars
<1>4. StreamInv'
  BY <1>1, <1>3 DEF StreamInv
<1>5. QED
  BY <1>2, <1>4 DEF ReadsOn

\* The network and the peer.
LEMMA NetworkReadsOn ==
  ASSUME TypeOK, ManagerInv, StreamInv, NetworkStep
  PROVE  ReadsOn /\ StreamInv'
<1>0. collect \in Seq(Frame) /\ inbound \in Seq(Frame) /\ collect \o inbound \in Seq(Frame)
  BY Streams DEF TypeOK, TcpTypeOK
<1>1. UNCHANGED <<rcvd_ch, mpc, collect, diamVars>>
  BY DEF NetworkStep, Network, PeerReads, ConnectionEnds, PeerSends, managerVars
<1>2. UNCHANGED FramesHanded
  BY <1>1, HandedOnKept
<1>3. CASE PeerReads
  <2>1. UNCHANGED <<inbound, frames, netOpen>>
    BY <1>3 DEF PeerReads
  <2>2. QED
    BY <1>1, <1>2, <2>1, WaitingKept DEF Stream!vars, ReadsOn, StreamInv
<1>4. CASE ConnectionEnds
  <2>1. PICK n \in 0..Len(inbound) : inbound' = SubSeq(inbound, 1, n)
    BY <1>4 DEF ConnectionEnds
  <2>2. ~netOpen' /\ UNCHANGED frames
    BY <1>4 DEF ConnectionEnds
  <2>3. FramesWaiting' = SubSeq(FramesWaiting, 1, Len(collect) + n)
    <3>1. (collect \o inbound)' = SubSeq(collect \o inbound, 1, Len(collect) + n)
      BY <1>0, <1>1, <2>1, Streams
    <3>2. Len(collect) + n \in 0..Len(collect \o inbound)
      BY <1>0, ConcatProperties
    <3>3. QED
      BY <1>0, <3>1, <3>2, IdsPrefix DEF FramesWaiting
  <2>4. 0 \in 0..Len(FramesWaiting) /\ Len(collect) + n \in 0..Len(FramesWaiting)
    <3>1. Len(FramesWaiting) = Len(collect \o inbound)
      BY <1>0, IdsOf DEF FramesWaiting
    <3>2. Len(collect \o inbound) = Len(collect) + Len(inbound)
      BY <1>0, ConcatProperties
    <3>3. QED
      BY <1>0, <3>1, <3>2
  <2>5. Stream!Lose
    BY <1>2, <2>2, <2>3, <2>4 DEF Stream!Lose
  <2>6. QED
    BY <1>1, <2>2, <2>5 DEF ReadsOn, Stream!Next, StreamInv
<1>5. CASE \E k \in FrameKinds : PeerSends(k)
  <2>1. PICK k \in FrameKinds : PeerSends(k)
    BY <1>5
  <2>2. /\ frames \in 0..MaxFrames /\ frames < MaxFrames /\ frames' = frames + 1
        /\ netOpen /\ UNCHANGED netOpen
        /\ inbound' = Append(inbound, [kind |-> k, id |-> frames + 1, conn |-> dials])
    BY <2>1 DEF PeerSends, TypeOK, TcpTypeOK
  <2>3. [kind |-> k, id |-> frames + 1, conn |-> dials] \in Frame
    <3>1. dials \in 1..MaxConns
      BY TcpAssumption, <2>2 DEF ManagerInv, TypeOK, TcpTypeOK
    <3>2. frames + 1 \in 1..MaxFrames
      BY TcpAssumption, <2>2
    <3>3. QED
      BY <3>1, <3>2 DEF Frame
  <2>4. FramesWaiting' = Append(FramesWaiting, frames')
    <3> DEFINE f == [kind |-> k, id |-> frames + 1, conn |-> dials]
    <3>1. f.id = frames'
      BY <2>2
    <3> HIDE DEF f
    <3>2. (collect \o inbound)' = Append(collect \o inbound, f)
      BY <1>0, <1>1, <2>2, <2>3, Streams DEF f
    <3>3. Ids(Append(collect \o inbound, f)) = Append(Ids(collect \o inbound), f.id)
      BY <1>0, <2>3, IdsAppend DEF f
    <3>4. FramesWaiting' = Ids((collect \o inbound)')
      BY DEF FramesWaiting, Ids
    <3>5. QED
      BY <3>1, <3>2, <3>3, <3>4 DEF FramesWaiting
  <2>5. Stream!Send
    BY <1>2, <2>2, <2>4 DEF Stream!Send
  <2>6. QED
    BY <1>1, <2>2, <2>5 DEF ReadsOn, Stream!Next, StreamInv
<1>6. QED
  BY <1>3, <1>4, <1>5 DEF NetworkStep, Network

\* Every step keeps StreamInv, and is a step of the stream or none.
LEMMA StepReadsOn == IndInv /\ StreamInv /\ [Next]_vars => ReadsOn /\ StreamInv'
<1> SUFFICES ASSUME IndInv, StreamInv, [Next]_vars PROVE ReadsOn /\ StreamInv'
  OBVIOUS
<1> USE DEF IndInv
<1>1. CASE ManagerStep
  BY <1>1, ManagerReadsOn
<1>2. CASE \E t \in Writers : WriterStep(t)
  BY <1>2, WriterReadsOn
<1>3. CASE \E w \in Workers : HandleSend(w) \/ WorkerInternal(w) \/ ApplicationReceives(w)
  BY <1>3, WorkerReadsOn
<1>4. CASE NetworkStep
  BY <1>4, NetworkReadsOn
<1>5. CASE UNCHANGED vars
  <2>1. UNCHANGED <<rcvd_ch, diamVars, collect, inbound, frames, netOpen, mpc>>
    BY <1>5 DEF vars, tcpVars, managerVars, netVars
  <2>2. UNCHANGED Stream!vars
    BY <2>1, HandedOnKept, WaitingKept DEF Stream!vars
  <2>3. QED
    BY <2>1, <2>2 DEF ReadsOn, StreamInv
<1>6. QED
  BY <1>1, <1>2, <1>3, <1>4, <1>5 DEF Next, Internal, Idle

LEMMA StreamHolds == Spec => []StreamInv
  BY InitStream, StepReadsOn, Invariance, PTL DEF Spec

\* The manager is a reader of frames: for any number of goroutines, connections and
\* frames it hands each connection's frames on in order, without a gap while the
\* connection lasts and without leftovers of the one before.
THEOREM ManagerReadsFrames == Spec => ReadsFrames
<1>1. ReadsOn => [Stream!Next]_(Stream!vars)
  BY DEF ReadsOn
<1>2. QED
  BY <1>1, StreamHolds, InitStream, StepReadsOn, Invariance, PTL DEF Spec, ReadsFrames, Stream!Spec

-----------------------------------------------------------------------------
\* Nothing blocks but the application and the peer: whoever else waits, waits for a
\* goroutine that does.
LEMMA BlockedFromOutside ==
  ASSUME TypeOK, ManagerInv, StreamInv
  PROVE  NoInternalDeadlock
<1> SUFFICES ASSUME ~CanRun PROVE
      /\ rcvd_ch # <<>> \/ mpc \in {"notify", "push"} => \A w \in Workers : wpc[w] # "select"
      /\ mpc = "push" => Len(rcvd_ch) = ChanCap
      /\ \A w \in Workers : wpc[w] = "write_tcp_ch" => Len(write_ch) = ChanCap
      /\ write_ch # <<>> => \A t \in Writers : tpc[t] # "recv"
      /\ \A t \in Writers : tpc[t] # "recv" => WaitsForPeer(t)
      /\ FramesInside \union MessagesInside # {} \/ mpc = "notify" =>
           \/ \E w \in Workers : WaitsForApplication(w)
           \/ \E t \in Writers : WaitsForPeer(t)
  BY DEF NoInternalDeadlock
<1>1. /\ ~ManagerCanRun
      /\ \A t \in Writers : ~WriterCanRun(t)
      /\ \A w \in Workers : ~WorkerCanRun(w)
  BY DEF CanRun
<1>2. /\ Len(rcvd_ch) \in Nat /\ Len(rcvd_ch) <= ChanCap /\ ChanCap \in Nat \ {0}
      /\ Len(write_ch) \in Nat /\ Len(write_ch) <= ChanCap
  BY TcpAssumption, LenProperties DEF TypeOK, TcpTypeOK
<1>3. mpc = "push" => Len(rcvd_ch) = ChanCap
  BY <1>1, <1>2 DEF ManagerCanRun
<1>4. rcvd_ch # <<>> \/ mpc \in {"notify", "push"} => \A w \in Workers : wpc[w] # "select"
  <2>1. mpc = "push" => rcvd_ch # <<>>
    BY <1>2, <1>3, EmptySeq
  <2>2. QED
    BY <1>1, <2>1 DEF WorkerCanRun
<1>5. \A w \in Workers : wpc[w] = "write_tcp_ch" => Len(write_ch) = ChanCap
  BY <1>1, <1>2 DEF WorkerCanRun
<1>6. write_ch # <<>> => \A t \in Writers : tpc[t] # "recv"
  BY <1>1 DEF WriterCanRun
<1>7. \A t \in Writers : tpc[t] # "recv" => WaitsForPeer(t)
  BY <1>1 DEF WriterCanRun, WaitsForPeer, TypeOK, TcpTypeOK
<1>8. ASSUME \A w \in Workers : ~WaitsForApplication(w), \A t \in Writers : ~WaitsForPeer(t)
      PROVE  FramesInside \union MessagesInside = {} /\ mpc # "notify"
  <2>1. write_ch = <<>> /\ \A t \in Writers : tpc[t] = "recv"
    BY <1>6, <1>7, <1>8, TcpAssumption
  <2>2. \A w \in Workers : wpc[w] = "select"
    <3>1. \A w \in Workers : wpc[w] # "write_tcp_ch"
      BY <1>2, <1>5, <2>1, EmptySeq
    <3>2. QED
      BY <1>8, <3>1 DEF WaitsForApplication, TypeOK
  <2>3. rcvd_ch = <<>> /\ mpc # "notify" /\ mpc # "push"
    BY <1>4, <2>2, DiamAssumption
  <2>4. collect = <<>>
    BY <2>3 DEF StreamInv
  <2>5. Elements(collect) = {} /\ Elements(rcvd_ch) = {} /\ Elements(write_ch) = {}
    BY <2>1, <2>3, <2>4 DEF Elements
  <2>6. FramesInside = {} /\ MessagesInside = {}
    BY <2>1, <2>2, <2>5 DEF FramesInside, FramesHeld, MessagesInside
  <2>7. QED
    BY <2>3, <2>6
<1>9. QED
  BY <1>3, <1>4, <1>5, <1>6, <1>7, <1>8

\* The process never blocks itself: with any number of workers and Writers and any
\* room in the channels, work that no goroutine can go on with is held up by an
\* application that does not receive or a peer that does not read.
THEOREM NeverBlocksItself == Spec => []NoInternalDeadlock
<1>1. IndInv /\ StreamInv => NoInternalDeadlock
  BY BlockedFromOutside DEF IndInv
<1>2. QED
  BY <1>1, Invariance, StreamHolds, PTL

-----------------------------------------------------------------------------
(***************************************************************************)
(* DiamConn implements Handoff, for frames and for messages.               *)
(***************************************************************************)
Distinct(s) == \A i, j \in 1..Len(s) : s[i] = s[j] => i = j

\* Five sets without a common element of any two.
Apart(A, B, C, D, E) ==
  /\ A \intersect (B \union C \union D \union E) = {}
  /\ B \intersect (C \union D \union E) = {}
  /\ C \intersect (D \union E) = {}
  /\ D \intersect E = {}

\* Messages a worker has to put into write_tcp_ch, and those a Writer has taken out.
MessagesHeld    == {mess[w] : w \in {v \in Workers : wpc[v] = "write_tcp_ch"}}
MessagesCarried == {what_to_write[t] : t \in {u \in Writers : tpc[u] # "recv"}}

\* A frame is in one place only, there only once, and older than the next one sent.
FramesApart ==
  /\ Distinct(inbound) /\ Distinct(collect) /\ Distinct(rcvd_ch)
  /\ Apart(Elements(inbound), Elements(collect), Elements(rcvd_ch), FramesHeld, FramesHandled)
  /\ \A v, w \in Workers : mess[v] # NoMsg /\ mess[v] = mess[w] => v = w
  /\ \A f \in Elements(inbound) \union FramesInside \union FramesHandled : f.id <= frames
  /\ \A f \in answered : f.kind = "DWR"

\* The connections a CER has been made for, and all messages ever made.
Introduced == 1..(IF mpc \in {"up", "assign", "notify"} THEN dials - 1 ELSE dials)
MessagesMade ==
  {CER(c) : c \in Introduced} \union {DWA(f) : f \in answered} \union {MSG(n) : n \in 1..sends}

\* A message is in one place only and there only once, and one that has left the
\* process was made here.
MessagesApart ==
  /\ Distinct(write_ch)
  /\ Elements(write_ch) \intersect (MessagesHeld \union MessagesCarried) = {}
  /\ MessagesHeld \intersect MessagesCarried = {}
  /\ \A t, u \in Writers :
       tpc[t] # "recv" /\ tpc[u] # "recv" /\ what_to_write[t] = what_to_write[u] => t = u
  /\ MessagesInside \union ReachedMessages \union lost \subseteq MessagesMade

-----------------------------------------------------------------------------
\* Receiving, sending, reading several and cutting a stream off, seen on the elements
\* of a sequence that repeats none.
LEMMA DistinctTail ==
  ASSUME NEW S, NEW s \in Seq(S), s # <<>>, Distinct(s)
  PROVE  /\ Distinct(Tail(s))
         /\ Head(s) \in Elements(s)
         /\ Elements(Tail(s)) = Elements(s) \ {Head(s)}
<1>1. /\ Len(s) \in Nat \ {0} /\ Len(Tail(s)) = Len(s) - 1 /\ Head(s) = s[1]
      /\ \A i \in 1..Len(Tail(s)) : Tail(s)[i] = s[i + 1]
  BY EmptySeq, HeadTailProperties
<1>2. \A i \in 1..Len(Tail(s)) : i + 1 \in 1..Len(s) /\ i + 1 # 1
  BY <1>1
<1>3. \A i \in 1..Len(s) : i # 1 => i - 1 \in 1..Len(Tail(s)) /\ (i - 1) + 1 = i
  BY <1>1
<1>4. Distinct(Tail(s))
  <2> SUFFICES ASSUME NEW i \in 1..Len(Tail(s)), NEW j \in 1..Len(Tail(s)), Tail(s)[i] = Tail(s)[j]
               PROVE  i = j
    BY DEF Distinct
  <2>1. i + 1 = j + 1
    BY <1>1, <1>2 DEF Distinct
  <2>2. QED
    BY <2>1
<1>5. Head(s) \in Elements(s)
  BY <1>1 DEF Elements
<1>6. ASSUME NEW x \in Elements(Tail(s)) PROVE x \in Elements(s) \ {Head(s)}
  <2>1. PICK i \in 1..Len(Tail(s)) : x = s[i + 1]
    BY <1>1, <1>6 DEF Elements
  <2>2. s[i + 1] # s[1]
    BY <1>1, <1>2 DEF Distinct
  <2>3. QED
    BY <1>1, <1>2, <2>1, <2>2 DEF Elements
<1>7. ASSUME NEW x \in Elements(s), x # Head(s) PROVE x \in Elements(Tail(s))
  <2>1. PICK i \in 1..Len(s) : x = s[i]
    BY <1>7 DEF Elements
  <2>2. i # 1
    BY <1>1, <1>7, <2>1
  <2>3. QED
    BY <1>1, <1>3, <2>1, <2>2 DEF Elements
<1>8. QED
  BY <1>4, <1>5, <1>6, <1>7

LEMMA DistinctAppend ==
  ASSUME NEW S, NEW s \in Seq(S), NEW x \in S, Distinct(s), x \notin Elements(s)
  PROVE  Distinct(Append(s, x)) /\ Elements(Append(s, x)) = Elements(s) \union {x}
<1>1. /\ Len(s) \in Nat /\ Len(Append(s, x)) = Len(s) + 1
      /\ \A i \in 1..Len(s) : Append(s, x)[i] = s[i]
      /\ Append(s, x)[Len(s) + 1] = x
  BY AppendProperties
<1>2. 1..(Len(s) + 1) = 1..Len(s) \union {Len(s) + 1}
  BY <1>1
<1>3. Elements(Append(s, x)) = Elements(s) \union {x}
  BY <1>1, <1>2, Zenon DEF Elements
<1>4. Distinct(Append(s, x))
  <2>1. \A i \in 1..Len(s) : s[i] # x
    BY DEF Elements
  <2>2. QED
    BY <1>1, <1>2, <2>1 DEF Distinct
<1>5. QED
  BY <1>3, <1>4

LEMMA DistinctConcat ==
  ASSUME NEW S, NEW s \in Seq(S), NEW u \in Seq(S), Distinct(s), Distinct(u),
         Elements(s) \intersect Elements(u) = {}
  PROVE  Distinct(s \o u) /\ Elements(s \o u) = Elements(s) \union Elements(u)
<1>1. /\ Len(s) \in Nat /\ Len(u) \in Nat /\ Len(s \o u) = Len(s) + Len(u)
      /\ \A i \in 1..Len(s) : (s \o u)[i] = s[i] /\ i \in 1..Len(s \o u)
      /\ \A i \in 1..Len(u) : (s \o u)[Len(s) + i] = u[i] /\ Len(s) + i \in 1..Len(s \o u)
  BY ConcatProperties
<1>2. \A i \in 1..Len(s \o u) : i \in 1..Len(s) \/ \E j \in 1..Len(u) : i = Len(s) + j
  <2> SUFFICES ASSUME NEW i \in 1..Len(s \o u), i \notin 1..Len(s)
               PROVE  \E j \in 1..Len(u) : i = Len(s) + j
    OBVIOUS
  <2> DEFINE k == i - Len(s)
  <2>1. k \in 1..Len(u) /\ i = Len(s) + k
    BY <1>1
  <2> HIDE DEF k
  <2>2. QED
    BY <2>1
<1>3. Elements(s \o u) = Elements(s) \union Elements(u)
  <2>1. \A x \in Elements(s \o u) : x \in Elements(s) \/ x \in Elements(u)
    BY <1>1, <1>2 DEF Elements
  <2>2. \A x \in Elements(s) : x \in Elements(s \o u)
    BY <1>1 DEF Elements
  <2>3. \A x \in Elements(u) : x \in Elements(s \o u)
    BY <1>1 DEF Elements
  <2>4. QED
    BY <2>1, <2>2, <2>3
<1>4. \A i \in 1..Len(s), j \in 1..Len(u) : s[i] # u[j]
  BY DEF Elements
<1>5. Distinct(s \o u)
  <2> SUFFICES ASSUME NEW i \in 1..Len(s \o u), NEW j \in 1..Len(s \o u),
                      (s \o u)[i] = (s \o u)[j]
               PROVE  i = j
    BY DEF Distinct
  <2>1. CASE i \in 1..Len(s) /\ j \in 1..Len(s)
    BY <1>1, <2>1 DEF Distinct
  <2>2. CASE i \notin 1..Len(s) /\ j \notin 1..Len(s)
    <3>1. PICK k \in 1..Len(u) : i = Len(s) + k
      BY <1>2, <2>2
    <3>2. PICK l \in 1..Len(u) : j = Len(s) + l
      BY <1>2, <2>2
    <3>3. u[k] = u[l]
      BY <1>1, <3>1, <3>2
    <3>4. QED
      BY <3>1, <3>2, <3>3 DEF Distinct
  <2>3. CASE i \in 1..Len(s) /\ j \notin 1..Len(s)
    <3>1. PICK l \in 1..Len(u) : j = Len(s) + l
      BY <1>2, <2>3
    <3>2. QED
      BY <1>1, <1>4, <2>3, <3>1
  <2>4. CASE i \notin 1..Len(s) /\ j \in 1..Len(s)
    <3>1. PICK k \in 1..Len(u) : i = Len(s) + k
      BY <1>2, <2>4
    <3>2. QED
      BY <1>1, <1>4, <2>4, <3>1
  <2>5. QED
    BY <2>1, <2>2, <2>3, <2>4
<1>6. QED
  BY <1>3, <1>5

LEMMA DistinctSplit ==
  ASSUME NEW S, NEW s \in Seq(S), Distinct(s), NEW n \in 0..Len(s)
  PROVE  LET first == SubSeq(s, 1, n)
             rest  == SubSeq(s, n + 1, Len(s))
         IN  /\ first \in Seq(S) /\ rest \in Seq(S) /\ Distinct(first) /\ Distinct(rest)
             /\ Elements(first) \subseteq Elements(s)
             /\ Elements(rest) = Elements(s) \ Elements(first)
<1> DEFINE first == SubSeq(s, 1, n)
           rest  == SubSeq(s, n + 1, Len(s))
<1>1. /\ Len(s) \in Nat /\ n \in Nat /\ n <= Len(s) /\ \A i \in 1..Len(s) : s[i] \in S
  BY ElementOfSeq
<1>2. /\ first \in Seq(S) /\ Len(first) = n /\ \A i \in 1..n : first[i] = s[i]
  BY <1>1, SubSeqProperties
<1>3. /\ rest \in Seq(S) /\ Len(rest) = Len(s) - n
      /\ \A i \in 1..Len(rest) : rest[i] = s[n + i] /\ n + i \in 1..Len(s) /\ n + i \notin 1..n
  BY <1>1, SubSeqProperties
<1> HIDE DEF first, rest
<1>4. Distinct(first) /\ Elements(first) \subseteq Elements(s)
  BY <1>1, <1>2 DEF Distinct, Elements
<1>5. Distinct(rest)
  BY <1>1, <1>3 DEF Distinct
<1>6. \A i \in 1..Len(s) : i \notin 1..n => \E j \in 1..Len(rest) : rest[j] = s[i]
  <2> SUFFICES ASSUME NEW i \in 1..Len(s), i \notin 1..n
               PROVE  \E j \in 1..Len(rest) : rest[j] = s[i]
    OBVIOUS
  <2>1. i - n \in 1..Len(rest) /\ n + (i - n) = i
    BY <1>1, <1>3
  <2>2. QED
    BY <1>3, <2>1
<1>7. Elements(rest) = Elements(s) \ Elements(first)
  <2>1. ASSUME NEW x \in Elements(rest) PROVE x \in Elements(s) /\ x \notin Elements(first)
    <3>1. PICK i \in 1..Len(rest) : x = s[n + i]
      BY <1>3, <2>1 DEF Elements
    <3>2. \A j \in 1..n : first[j] # x
      BY <1>1, <1>2, <1>3, <3>1 DEF Distinct
    <3>3. QED
      BY <1>2, <1>3, <3>1, <3>2 DEF Elements
  <2>2. ASSUME NEW x \in Elements(s), x \notin Elements(first) PROVE x \in Elements(rest)
    <3>1. PICK i \in 1..Len(s) : x = s[i]
      BY <2>2 DEF Elements
    <3>2. i \notin 1..n
      BY <1>2, <2>2, <3>1 DEF Elements
    <3>3. QED
      BY <1>6, <3>1, <3>2 DEF Elements
  <2>3. QED
    BY <2>1, <2>2
<1>8. QED
  BY <1>2, <1>3, <1>4, <1>5, <1>7 DEF first, rest

-----------------------------------------------------------------------------
\* A step of the frames is one of Handoff, or none.
FramesPass == Incoming!Next \/ UNCHANGED <<FramesInside, FramesHandled>>

\* What the sequences and the sets of frames are made of.
LEMMA FrameTypes ==
  ASSUME TypeOK
  PROVE  /\ inbound \in Seq(Frame) /\ collect \in Seq(Frame) /\ rcvd_ch \in Seq(Frame)
         /\ frames \in Nat
         /\ \A f \in Frame : f.id \in Nat
         /\ Elements(inbound) \subseteq Frame /\ Elements(collect) \subseteq Frame
         /\ Elements(rcvd_ch) \subseteq Frame
<1>1. /\ inbound \in Seq(Frame) /\ collect \in Seq(Frame) /\ rcvd_ch \in Seq(Frame)
      /\ frames \in Nat /\ \A f \in Frame : f.id \in Nat
  BY TcpAssumption, Kinds DEF TypeOK, TcpTypeOK
<1>2. ASSUME NEW s \in Seq(Frame) PROVE Elements(s) \subseteq Frame
  BY ElementOfSeq DEF Elements
<1>3. QED
  BY <1>1, <1>2

\* Steps that leave the frames and the workers alone.
LEMMA FramesKept ==
  ASSUME FramesApart, UNCHANGED <<inbound, collect, rcvd_ch, frames, diamVars>>
  PROVE  FramesPass /\ FramesApart'
<1>1. UNCHANGED <<Elements(inbound), Elements(collect), Elements(rcvd_ch), FramesHeld,
                  FramesHandled, answered>>
  BY DEF diamVars, FramesHeld, FramesHandled, Elements
<1>2. QED
  BY <1>1 DEF FramesPass, FramesApart, FramesInside, diamVars, Distinct

\* The manager moves frames from the socket to collect, and from there to rcvd_ch.
LEMMA ManagerPassesFrames ==
  ASSUME TypeOK, ManagerInv, FramesApart, ManagerStep
  PROVE  FramesPass /\ FramesApart'
<1> DEFINE In == Elements(inbound)
           Co == Elements(collect)
           Rc == Elements(rcvd_ch)
<1>1. /\ UNCHANGED <<frames, diamVars>>
      /\ UNCHANGED <<FramesHeld, FramesHandled, answered, mess>>
  <2>1. UNCHANGED <<frames, diamVars>>
    BY DEF ManagerStep, Manager, DialSucceeds, DialFails, Redial, SetUp, SetConn, ReadSome,
           ReadFails, PushFrame, Pushed, netVars
  <2>2. QED
    BY <2>1 DEF diamVars, FramesHeld, FramesHandled
<1>2. CASE DialFails \/ Redial \/ SetUp \/ SetConn \/ ReadFails
  BY <1>1, <1>2, FramesKept DEF DialFails, Redial, SetUp, SetConn, ReadFails, netVars
<1>3. CASE DialSucceeds
  <2>1. inbound' = <<>> /\ UNCHANGED <<collect, rcvd_ch>>
    BY <1>3 DEF DialSucceeds
  <2>2. In' = {} /\ Co' = Co /\ Rc' = Rc /\ Distinct(inbound')
    BY <2>1 DEF Elements, Distinct
  <2>3. QED
    BY <1>1, <2>1, <2>2 DEF FramesPass, FramesApart, FramesInside, Apart
<1>4. CASE ReadSome
  <2>1. PICK n \in 1..Len(inbound) :
          /\ collect' = collect \o SubSeq(inbound, 1, n)
          /\ inbound' = SubSeq(inbound, n + 1, Len(inbound))
    BY <1>4 DEF ReadSome
  <2> DEFINE first == SubSeq(inbound, 1, n)
  <2>2. /\ first \in Seq(Frame) /\ Distinct(first) /\ Distinct(inbound')
        /\ Elements(first) \subseteq In /\ In' = In \ Elements(first)
    <3>1. n \in 0..Len(inbound)
      BY FrameTypes
    <3>2. LET rest == SubSeq(inbound, n + 1, Len(inbound))
          IN  /\ first \in Seq(Frame) /\ Distinct(first) /\ Distinct(rest)
              /\ Elements(first) \subseteq In /\ Elements(rest) = In \ Elements(first)
      BY <3>1, FrameTypes, DistinctSplit DEF FramesApart
    <3>3. In' = Elements(inbound')
      BY DEF Elements
    <3>4. QED
      BY <2>1, <3>2, <3>3
  <2> HIDE DEF first
  <2>3. Distinct(collect') /\ Co' = Co \union Elements(first)
    <3>1. Co \intersect Elements(first) = {}
      BY <2>2 DEF FramesApart, Apart
    <3>2. Distinct(collect \o first) /\ Elements(collect \o first) = Co \union Elements(first)
      BY <2>2, <3>1, FrameTypes, DistinctConcat DEF FramesApart
    <3>3. Co' = Elements(collect')
      BY DEF Elements
    <3>4. QED
      BY <2>1, <3>2, <3>3 DEF first
  <2>4. rcvd_ch' = rcvd_ch /\ Rc' = Rc
    BY <1>4 DEF ReadSome, Elements
  <2>5. Incoming!Accept
    BY <1>1, <2>2, <2>3, <2>4 DEF Incoming!Accept, FramesInside, FramesApart, Apart
  <2>6. FramesApart'
    <3>1. Apart(In', Co', Rc', FramesHeld', FramesHandled')
      BY <1>1, <2>2, <2>3, <2>4 DEF FramesApart, Apart
    <3>2. In' \union FramesInside' \union FramesHandled' = In \union FramesInside \union FramesHandled
      BY <1>1, <2>2, <2>3, <2>4 DEF FramesInside
    <3>3. QED
      BY <1>1, <2>2, <2>3, <2>4, <3>1, <3>2 DEF FramesApart
  <2>7. QED
    BY <2>5, <2>6 DEF FramesPass, Incoming!Next
<1>5. CASE PushFrame
  <2>1. /\ collect # <<>> /\ collect' = Tail(collect) /\ UNCHANGED inbound
        /\ rcvd_ch' = Append(rcvd_ch, Head(collect))
    BY <1>5 DEF PushFrame, Pushed, ManagerInv, netVars
  <2>2. /\ Head(collect) \in Co /\ Co' = Co \ {Head(collect)} /\ Distinct(collect')
    BY <2>1, FrameTypes, DistinctTail DEF FramesApart, Elements
  <2>3. /\ Rc' = Rc \union {Head(collect)} /\ Distinct(rcvd_ch')
    <3>1. Head(collect) \in Frame /\ Head(collect) \notin Rc
      BY <2>2, FrameTypes DEF FramesApart, Apart
    <3>2. QED
      BY <2>1, <3>1, FrameTypes, DistinctAppend DEF FramesApart, Elements
  <2>4. In' = In
    BY <2>1 DEF Elements
  <2>5. FramesInside' = FramesInside
    BY <1>1, <2>2, <2>3 DEF FramesInside
  <2>6. Apart(In', Co', Rc', FramesHeld', FramesHandled')
    BY <1>1, <2>2, <2>3, <2>4 DEF FramesApart, Apart
  <2>7. QED
    BY <1>1, <2>1, <2>2, <2>3, <2>4, <2>5, <2>6 DEF FramesPass, FramesApart
<1>6. QED
  BY <1>2, <1>3, <1>4, <1>5 DEF ManagerStep, Manager

\* The network sends frames and loses the last of them.
LEMMA NetworkPassesFrames ==
  ASSUME TypeOK, ManagerInv, FramesApart, NetworkStep
  PROVE  FramesPass /\ FramesApart'
<1> DEFINE In == Elements(inbound)
<1>1. /\ UNCHANGED <<collect, rcvd_ch, diamVars>>
      /\ UNCHANGED <<FramesInside, FramesHeld, FramesHandled, answered, mess>>
      /\ UNCHANGED <<Elements(collect), Elements(rcvd_ch)>>
  <2>1. UNCHANGED <<collect, rcvd_ch, diamVars>>
    BY DEF NetworkStep, Network, PeerReads, ConnectionEnds, PeerSends, managerVars
  <2>2. QED
    BY <2>1 DEF diamVars, FramesInside, FramesHeld, FramesHandled, Elements
<1>2. CASE PeerReads
  BY <1>1, <1>2, FramesKept DEF PeerReads
<1>3. CASE ConnectionEnds
  <2>1. PICK n \in 0..Len(inbound) : inbound' = SubSeq(inbound, 1, n)
    BY <1>3 DEF ConnectionEnds
  <2>2. Distinct(SubSeq(inbound, 1, n)) /\ Elements(SubSeq(inbound, 1, n)) \subseteq In
    BY FrameTypes, DistinctSplit DEF FramesApart
  <2>3. In' = Elements(inbound') /\ UNCHANGED frames
    BY <1>3 DEF Elements, ConnectionEnds
  <2>4. Distinct(inbound') /\ In' \subseteq In
    BY <2>1, <2>2, <2>3
  <2>5. QED
    BY <1>1, <2>3, <2>4 DEF FramesPass, FramesApart, Apart
<1>4. CASE \E k \in FrameKinds : PeerSends(k)
  <2>1. PICK k \in FrameKinds : PeerSends(k)
    BY <1>4
  <2> DEFINE f == [kind |-> k, id |-> frames + 1, conn |-> dials]
  <2>2. f \in Frame /\ f.id = frames + 1
    <3>1. netOpen /\ frames < MaxFrames /\ frames \in 0..MaxFrames
      BY <2>1 DEF PeerSends, TypeOK, TcpTypeOK
    <3>2. dials \in 1..MaxConns
      BY TcpAssumption, <3>1 DEF ManagerInv, TypeOK, TcpTypeOK
    <3>3. frames + 1 \in 1..MaxFrames
      BY TcpAssumption, <3>1
    <3>4. QED
      BY <3>2, <3>3 DEF Frame
  <2>3. inbound' = Append(inbound, f) /\ frames' = frames + 1
    BY <2>1 DEF PeerSends
  <2> HIDE DEF f
  <2>4. f \notin In \union FramesInside \union FramesHandled
    <3>1. \A g \in In \union FramesInside \union FramesHandled : g.id <= frames
      BY DEF FramesApart
    <3>2. QED
      BY <2>2, <3>1, FrameTypes
  <2>5. Distinct(inbound') /\ In' = In \union {f}
    <3>1. Distinct(Append(inbound, f)) /\ Elements(Append(inbound, f)) = In \union {f}
      BY <2>2, <2>4, FrameTypes, DistinctAppend DEF FramesApart
    <3>2. In' = Elements(inbound')
      BY DEF Elements
    <3>3. QED
      BY <2>3, <3>1, <3>2
  <2>6. Apart(In', Elements(collect)', Elements(rcvd_ch)', FramesHeld', FramesHandled')
    BY <1>1, <2>4, <2>5 DEF FramesApart, FramesInside, Apart
  <2>7. \A g \in In' \union FramesInside' \union FramesHandled' : g.id <= frames'
    <3>1. \A g \in In \union FramesInside \union FramesHandled : g.id \in Nat /\ g.id <= frames
      BY FrameTypes DEF FramesApart, FramesInside, FramesHeld, FramesHandled, TypeOK
    <3>2. QED
      BY <1>1, <2>2, <2>3, <2>5, <3>1, FrameTypes
  <2>8. QED
    BY <1>1, <2>5, <2>6, <2>7 DEF FramesPass, FramesApart
<1>5. QED
  BY <1>2, <1>3, <1>4 DEF NetworkStep, Network

\* What a worker holds when it takes something to send, and when it has sent it, if no
\* two workers hold the same.
LEMMA TakesOne ==
  ASSUME TypeOK, NEW w \in Workers, NEW ch, NEW x \in Frame \union OutMsg, Block(w, ch, x),
         \A v, u \in Workers : mess[v] # NoMsg /\ mess[v] = mess[u] => v = u,
         \A v \in Workers : mess[v] # x
  PROVE  /\ ch \in {"mgmt_diam_conn", "rcv_mess_ch"} =>
              FramesHeld' = FramesHeld \union {x} /\ MessagesHeld' = MessagesHeld
         /\ ch = "write_tcp_ch" =>
              FramesHeld' = FramesHeld /\ MessagesHeld' = MessagesHeld \union {x}
         /\ \A v, u \in Workers : mess'[v] # NoMsg /\ mess'[v] = mess'[u] => v = u
<1>1. /\ wpc[w] = "select" /\ wpc' = [wpc EXCEPT ![w] = ch] /\ mess' = [mess EXCEPT ![w] = x]
      /\ wpc \in [Workers -> {"select", "mgmt_diam_conn", "write_tcp_ch", "rcv_mess_ch"}]
      /\ mess \in [Workers -> Frame \union OutMsg \union {NoMsg}]
  BY DEF Block, TypeOK
<1>2. \A v \in Workers : v # w => wpc'[v] = wpc[v] /\ mess'[v] = mess[v]
  BY <1>1
<1>3. wpc'[w] = ch /\ mess'[w] = x
  BY <1>1
<1>4. \A v, u \in Workers : mess'[v] # NoMsg /\ mess'[v] = mess'[u] => v = u
  BY <1>2, <1>3
<1>5. QED
  BY <1>1, <1>2, <1>3, <1>4 DEF FramesHeld, MessagesHeld

LEMMA SendsOne ==
  ASSUME TypeOK, NEW w \in Workers, NEW ch, Unblock(w, ch),
         \A v, u \in Workers : mess[v] # NoMsg /\ mess[v] = mess[u] => v = u
  PROVE  /\ ch \in {"mgmt_diam_conn", "rcv_mess_ch"} =>
              /\ mess[w] \in FramesHeld /\ FramesHeld' = FramesHeld \ {mess[w]}
              /\ MessagesHeld' = MessagesHeld
         /\ ch = "write_tcp_ch" =>
              /\ mess[w] \in MessagesHeld /\ MessagesHeld' = MessagesHeld \ {mess[w]}
              /\ FramesHeld' = FramesHeld
         /\ \A v, u \in Workers : mess'[v] # NoMsg /\ mess'[v] = mess'[u] => v = u
<1>1. /\ wpc[w] = ch /\ wpc' = [wpc EXCEPT ![w] = "select"] /\ mess' = [mess EXCEPT ![w] = NoMsg]
      /\ wpc \in [Workers -> {"select", "mgmt_diam_conn", "write_tcp_ch", "rcv_mess_ch"}]
      /\ mess \in [Workers -> Frame \union OutMsg \union {NoMsg}]
      /\ \A v \in Workers : wpc[v] = "select" <=> mess[v] = NoMsg
  BY DEF Unblock, TypeOK
<1>2. \A v \in Workers : v # w => wpc'[v] = wpc[v] /\ mess'[v] = mess[v]
  BY <1>1
<1>3. wpc'[w] = "select" /\ mess'[w] = NoMsg
  BY <1>1
<1>4. \A v, u \in Workers : mess'[v] # NoMsg /\ mess'[v] = mess'[u] => v = u
  BY <1>2, <1>3
<1>5. ch # "select" => \A v \in Workers : v # w => mess[v] # mess[w]
  BY <1>1
<1>6. QED
  BY <1>1, <1>2, <1>3, <1>4, <1>5 DEF FramesHeld, MessagesHeld

\* A worker takes frames from rcvd_ch and hands them to the application or replies
\* to them.
LEMMA WorkerPassesFrames ==
  ASSUME TypeOK, FramesApart, NEW w \in Workers,
         HandleSend(w) \/ WorkerInternal(w) \/ ApplicationReceives(w),
         \A v, u \in Workers : mess'[v] # NoMsg /\ mess'[v] = mess'[u] => v = u
  PROVE  FramesPass /\ FramesApart'
<1> DEFINE x == Head(rcvd_ch)
           Rc == Elements(rcvd_ch)
<1>0. /\ UNCHANGED <<inbound, collect, frames>>
      /\ UNCHANGED <<Elements(inbound), Elements(collect)>>
  <2>1. UNCHANGED <<inbound, collect, frames>>
    BY DEF WorkerInternal, ApplicationReceives, HandleSend, HandleCEA, HandleDWR, HandleOther,
           HandleTcpUp, Enqueue, Deliver, PostEvent, Receive, tcpVars, managerVars, netVars
  <2>2. QED
    BY <2>1 DEF Elements
<1>1. \A v, u \in Workers : mess[v] # NoMsg /\ mess[v] = mess[u] => v = u
  BY DEF FramesApart
<1>2. CASE HandleCEA(w) \/ HandleOther(w) \/ HandleDWR(w)
  <2>1. /\ rcvd_ch # <<>> /\ rcvd_ch' = Tail(rcvd_ch) /\ rcvd_ch \in Seq(Frame)
        /\ x \in Frame
    BY <1>2, FrameTypes, HeadTailProperties DEF HandleCEA, HandleOther, HandleDWR, Receive
  <2>2. Distinct(rcvd_ch') /\ x \in Rc /\ Rc' = Rc \ {x}
    <3>1. Distinct(Tail(rcvd_ch)) /\ x \in Rc /\ Elements(Tail(rcvd_ch)) = Rc \ {x}
      BY <2>1, DistinctTail DEF FramesApart
    <3>2. Rc' = Elements(rcvd_ch')
      BY DEF Elements
    <3>3. QED
      BY <2>1, <3>1, <3>2
  <2>3. \A v \in Workers : mess[v] # x
    BY <2>1, <2>2 DEF FramesApart, Apart, FramesHeld, TypeOK
  <2>4. CASE HandleCEA(w) \/ HandleOther(w)
    <3>1. FramesHeld' = FramesHeld \union {x}
      BY <1>1, <2>1, <2>3, <2>4, TakesOne DEF HandleCEA, HandleOther
    <3>2. UNCHANGED <<FramesHandled, answered>>
      BY <2>4 DEF HandleCEA, HandleOther, FramesHandled
    <3>3. FramesInside' = FramesInside
      BY <1>0, <2>2, <3>1 DEF FramesInside
    <3>4. Apart(Elements(inbound)', Elements(collect)', Rc', FramesHeld', FramesHandled')
      BY <1>0, <2>2, <3>1, <3>2 DEF FramesApart, Apart
    <3>5. QED
      BY <1>0, <2>2, <3>2, <3>3, <3>4 DEF FramesPass, FramesApart
  <2>5. CASE HandleDWR(w)
    <3>1. FramesHeld' = FramesHeld
      BY <2>5, HeldByOne DEF HandleDWR, Block
    <3>2. FramesHandled' = FramesHandled \union {x}
      BY <2>5 DEF HandleDWR, FramesHandled
    <3>3. answered' = answered \union {x} /\ x.kind = "DWR"
      BY <2>5 DEF HandleDWR, Receive
    <3>4. x \in FramesInside /\ FramesInside' = FramesInside \ {x}
      BY <1>0, <2>2, <3>1 DEF FramesInside, FramesApart, Apart
    <3>5. Incoming!Complete(x)
      BY <3>2, <3>4 DEF Incoming!Complete
    <3>6. Apart(Elements(inbound)', Elements(collect)', Rc', FramesHeld', FramesHandled')
      BY <1>0, <2>2, <3>1, <3>2 DEF FramesApart, Apart
    <3>7. FramesInside' \union FramesHandled' = FramesInside \union FramesHandled
      BY <3>2, <3>4
    <3>8. FramesApart'
      BY <1>0, <2>2, <3>3, <3>6, <3>7 DEF FramesApart
    <3>9. QED
      BY <3>4, <3>5, <3>8 DEF FramesPass, Incoming!Next
  <2>6. QED
    BY <1>2, <2>4, <2>5
<1>3. CASE HandleSend(w) \/ HandleTcpUp(w) \/ Enqueue(w)
  <2>1. FramesHeld' = FramesHeld
    BY <1>3, HeldByOne DEF HandleSend, HandleTcpUp, Enqueue, Block, Unblock
  <2>2. UNCHANGED <<rcvd_ch, FramesHandled, answered>> /\ Rc' = Rc
    BY <1>3 DEF HandleSend, HandleTcpUp, Enqueue, tcpVars, FramesHandled, Elements
  <2>3. FramesInside' = FramesInside
    BY <1>0, <2>1, <2>2 DEF FramesInside
  <2>4. QED
    BY <1>0, <2>1, <2>2, <2>3 DEF FramesPass, FramesApart
<1>4. CASE Deliver(w) \/ PostEvent(w)
  <2>1. mess[w] \in FramesHeld /\ FramesHeld' = FramesHeld \ {mess[w]}
    BY <1>1, <1>4, SendsOne DEF Deliver, PostEvent
  <2>2. /\ FramesHandled' = FramesHandled \union {mess[w]}
        /\ UNCHANGED <<rcvd_ch, answered>> /\ Rc' = Rc
    BY <1>4 DEF Deliver, PostEvent, FramesHandled, tcpVars, Elements
  <2>3. mess[w] \in FramesInside /\ FramesInside' = FramesInside \ {mess[w]}
    BY <1>0, <2>1, <2>2 DEF FramesInside, FramesApart, Apart
  <2>4. Incoming!Complete(mess[w])
    BY <2>2, <2>3 DEF Incoming!Complete
  <2>5. Apart(Elements(inbound)', Elements(collect)', Rc', FramesHeld', FramesHandled')
    BY <1>0, <2>1, <2>2 DEF FramesApart, Apart
  <2>6. FramesInside' \union FramesHandled' = FramesInside \union FramesHandled
    BY <2>2, <2>3
  <2>7. FramesApart'
    BY <1>0, <2>2, <2>5, <2>6 DEF FramesApart
  <2>8. QED
    BY <2>3, <2>4, <2>7 DEF FramesPass, Incoming!Next
<1>5. QED
  BY <1>2, <1>3, <1>4 DEF WorkerInternal, ApplicationReceives

-----------------------------------------------------------------------------
\* A step of the messages is one of Handoff, or none.
MessagesPass == Outgoing!Next \/ UNCHANGED <<MessagesInside, ReachedMessages, lost>>

\* No two workers hold the same.
WorkersDiffer == \A v, u \in Workers : mess[v] # NoMsg /\ mess[v] = mess[u] => v = u

\* A message about something new is new.
LEMMA NewMessages ==
  ASSUME TypeOK, \A f \in answered : f.kind = "DWR"
  PROVE  /\ \A c \in Nat \ Introduced : CER(c) \notin MessagesMade
         /\ \A f \in Frame \ answered : f.kind = "DWR" => DWA(f) \notin MessagesMade
         /\ MSG(sends + 1) \notin MessagesMade
<1>1. \A f, g \in Frame : f.kind = g.kind /\ DWA(f) = DWA(g) => f = g
  BY DEF Frame, DWA, GenMess
<1>2. \A c, d \in Nat : CER(c) = CER(d) => c = d
  BY DEF CER, GenMess
<1>3. \A m, n \in Nat : MSG(m) = MSG(n) => m = n
  BY DEF MSG, GenMess
<1>4. \A f, c, n : CER(c) # DWA(f) /\ CER(c) # MSG(n) /\ DWA(f) # MSG(n)
  BY DEF CER, DWA, MSG, GenMess
<1>5. /\ Introduced \subseteq Nat /\ sends \in Nat /\ sends + 1 \notin 1..sends
      /\ answered \subseteq Frame
  BY TcpAssumption, DiamAssumption DEF Introduced, TypeOK, TcpTypeOK
<1>6. \A c \in Nat \ Introduced : CER(c) \notin MessagesMade
  BY <1>2, <1>4, <1>5 DEF MessagesMade
<1>7. \A f \in Frame \ answered : f.kind = "DWR" => DWA(f) \notin MessagesMade
  BY <1>1, <1>4, <1>5 DEF MessagesMade
<1>8. MSG(sends + 1) \notin MessagesMade
  BY <1>3, <1>4, <1>5 DEF MessagesMade
<1>9. QED
  BY <1>6, <1>7, <1>8

\* The frame a worker takes is held by none yet.
LEMMA NewToWorkers ==
  ASSUME TypeOK, FramesApart, rcvd_ch # <<>>
  PROVE  /\ Head(rcvd_ch) \in Frame /\ Head(rcvd_ch) \notin answered
         /\ \A v \in Workers : mess[v] # Head(rcvd_ch)
<1>1. Head(rcvd_ch) \in Frame /\ Head(rcvd_ch) \in Elements(rcvd_ch)
  BY FrameTypes, DistinctTail, HeadTailProperties DEF FramesApart
<1>2. QED
  BY <1>1 DEF FramesApart, Apart, FramesHeld, FramesHandled, TypeOK

\* Steps that leave the messages alone.
LEMMA MessagesKept ==
  ASSUME MessagesApart,
         UNCHANGED <<write_ch, MessagesHeld, tpc, what_to_write, reached, lost>>,
         MessagesMade \subseteq MessagesMade'
  PROVE  MessagesPass /\ MessagesApart'
<1>1. UNCHANGED <<Elements(write_ch), MessagesCarried, ReachedMessages>>
  BY DEF Elements, MessagesCarried, ReachedMessages
<1>2. UNCHANGED MessagesInside
  BY <1>1 DEF MessagesInside, MessagesHeld, MessagesCarried
<1>3. QED
  BY <1>1, <1>2 DEF MessagesPass, MessagesApart, Distinct

\* The manager has nothing to do with messages: a connection it has dialled has not
\* been introduced.
LEMMA ManagerPassesMessages ==
  ASSUME TypeOK, MessagesApart, ManagerStep
  PROVE  MessagesPass /\ MessagesApart'
<1>1. UNCHANGED <<write_ch, tpc, what_to_write, reached, lost, diamVars>>
  BY DEF ManagerStep, Manager, DialSucceeds, DialFails, Redial, SetUp, SetConn, ReadSome,
         ReadFails, PushFrame, Pushed, writerVars
<1>2. UNCHANGED <<MessagesHeld, answered, sends>>
  BY <1>1 DEF diamVars, MessagesHeld
<1>3. UNCHANGED Introduced
  <2>1. CASE DialSucceeds
    <3>1. mpc = "dial" /\ mpc' = "up" /\ dials' = dials + 1 /\ dials \in Nat
      BY <2>1, TcpAssumption DEF DialSucceeds, TypeOK, TcpTypeOK
    <3>2. QED
      BY <3>1 DEF Introduced
  <2>2. CASE DialFails \/ Redial \/ SetUp \/ SetConn \/ ReadFails \/ ReadSome \/ PushFrame
    BY <2>2 DEF DialFails, Redial, SetUp, SetConn, ReadSome, ReadFails, PushFrame, Pushed,
                Introduced, netVars
  <2>3. QED
    BY <2>1, <2>2 DEF ManagerStep, Manager
<1>4. QED
  BY <1>1, <1>2, <1>3, MessagesKept DEF MessagesMade

\* Neither has the peer.
LEMMA NetworkPassesMessages ==
  ASSUME MessagesApart, NetworkStep
  PROVE  MessagesPass /\ MessagesApart'
<1>1. UNCHANGED <<write_ch, tpc, what_to_write, reached, lost, mpc, dials, diamVars>>
  BY DEF NetworkStep, Network, PeerReads, ConnectionEnds, PeerSends, writerVars, managerVars
<1>2. UNCHANGED <<MessagesHeld, MessagesMade>>
  BY <1>1 DEF diamVars, MessagesHeld, MessagesMade, Introduced
<1>3. QED
  BY <1>1, <1>2, MessagesKept

\* What a Writer carries when it has taken a message, and when it is done with it.
LEMMA CarriesOne ==
  ASSUME TypeOK, MessagesApart, NEW t \in Writers, NEW pc, NEW m,
         tpc' = [tpc EXCEPT ![t] = pc], what_to_write' = [what_to_write EXCEPT ![t] = m]
  PROVE  /\ tpc[t] = "recv" /\ pc # "recv" => MessagesCarried' = MessagesCarried \union {m}
         /\ tpc[t] # "recv" /\ pc = "recv" =>
              /\ what_to_write[t] \in MessagesCarried
              /\ MessagesCarried' = MessagesCarried \ {what_to_write[t]}
         /\ m \notin MessagesCarried \/ pc = "recv" =>
              \A u, v \in Writers :
                tpc'[u] # "recv" /\ tpc'[v] # "recv" /\ what_to_write'[u] = what_to_write'[v]
                  => u = v
<1>1. tpc'[t] = pc /\ what_to_write'[t] = m
  BY DEF TypeOK, TcpTypeOK
<1>2. \A u \in Writers : u # t => tpc'[u] = tpc[u] /\ what_to_write'[u] = what_to_write[u]
  BY DEF TypeOK, TcpTypeOK
<1>3. \A u, v \in Writers :
        tpc[u] # "recv" /\ tpc[v] # "recv" /\ what_to_write[u] = what_to_write[v] => u = v
  BY DEF MessagesApart
<1>4. QED
  BY <1>1, <1>2, <1>3 DEF MessagesCarried

\* A Writer takes a message from write_ch; in the end it is written or given up.
LEMMA WriterPassesMessages ==
  ASSUME TypeOK, MessagesApart, NEW t \in Writers, WriterStep(t)
  PROVE  MessagesPass /\ MessagesApart'
<1> DEFINE Wr == Elements(write_ch)
           m  == what_to_write[t]
<1>1. UNCHANGED <<mpc, dials, diamVars>>
  BY DEF WriterStep, Writer, TakeMessage, DropDown, SeeUp, DropNil, LoadConn, WriteTo,
         WriteOK, WriteFails, WriteHeld, WriteHalfClosed, managerVars, netVars
<1>2. UNCHANGED <<MessagesHeld, MessagesMade>>
  BY <1>1 DEF diamVars, MessagesHeld, MessagesMade, Introduced
<1>3. CASE TakeMessage(t)
  <2>1. /\ write_ch \in Seq(OutMsg) /\ write_ch # <<>> /\ write_ch' = Tail(write_ch)
        /\ tpc[t] = "recv" /\ tpc' = [tpc EXCEPT ![t] = "state"]
        /\ what_to_write' = [what_to_write EXCEPT ![t] = Head(write_ch)]
        /\ UNCHANGED <<reached, lost>>
    BY <1>3 DEF TakeMessage, TypeOK, TcpTypeOK
  <2>2. Distinct(write_ch') /\ Head(write_ch) \in Wr /\ Wr' = Wr \ {Head(write_ch)}
    <3>1. Distinct(Tail(write_ch)) /\ Elements(Tail(write_ch)) = Wr \ {Head(write_ch)}
      BY <2>1, DistinctTail DEF MessagesApart
    <3>2. Wr' = Elements(write_ch')
      BY DEF Elements
    <3>3. QED
      BY <2>1, <3>1, <3>2, DistinctTail DEF MessagesApart
  <2>3. /\ MessagesCarried' = MessagesCarried \union {Head(write_ch)}
        /\ \A u, v \in Writers :
             tpc'[u] # "recv" /\ tpc'[v] # "recv" /\ what_to_write'[u] = what_to_write'[v]
               => u = v
    <3>1. Head(write_ch) \notin MessagesCarried
      BY <2>2 DEF MessagesApart
    <3>2. MessagesCarried' = MessagesCarried \union {Head(write_ch)}
      <4>1. "state" # "recv" /\ tpc[t] = "recv"
        BY <2>1
      <4>2. \A pc, h : /\ pc # "recv"
                       /\ tpc' = [tpc EXCEPT ![t] = pc]
                       /\ what_to_write' = [what_to_write EXCEPT ![t] = h]
                       => MessagesCarried' = MessagesCarried \union {h}
        BY <4>1, CarriesOne
      <4>3. QED
        BY <2>1, <4>1, <4>2
    <3>3. \A u, v \in Writers :
            tpc'[u] # "recv" /\ tpc'[v] # "recv" /\ what_to_write'[u] = what_to_write'[v]
              => u = v
      BY <2>1, <3>1, CarriesOne
    <3>4. QED
      BY <3>2, <3>3
  <2>4. UNCHANGED <<MessagesInside, ReachedMessages>>
    BY <1>2, <2>1, <2>2, <2>3 DEF MessagesInside, MessagesHeld, MessagesCarried, ReachedMessages
  <2>5. MessagesApart'
    BY <1>2, <2>1, <2>2, <2>3, <2>4 DEF MessagesApart
  <2>6. QED
    BY <2>1, <2>4, <2>5 DEF MessagesPass
<1>4. CASE SeeUp(t) \/ LoadConn(t) \/ WriteHeld(t)
  <2>1. /\ UNCHANGED <<write_ch, what_to_write, reached, lost>>
        /\ tpc[t] # "recv" /\ \A u \in Writers : tpc'[u] = "recv" <=> tpc[u] = "recv"
    BY <1>4 DEF SeeUp, LoadConn, WriteHeld, WriteTo, TypeOK, TcpTypeOK
  <2>2. UNCHANGED <<Wr, MessagesCarried, ReachedMessages>>
    BY <2>1 DEF Elements, MessagesCarried, ReachedMessages
  <2>3. UNCHANGED MessagesInside
    BY <1>2, <2>2 DEF MessagesInside, MessagesHeld, MessagesCarried
  <2>4. MessagesApart'
    BY <1>2, <2>1, <2>2, <2>3 DEF MessagesApart, Distinct
  <2>5. QED
    BY <2>1, <2>2, <2>3, <2>4 DEF MessagesPass
<1>5. CASE DropDown(t) \/ DropNil(t) \/ WriteFails(t) \/ WriteOK(t) \/ WriteHalfClosed(t)
  <2>1. /\ tpc[t] # "recv" /\ Release(t) /\ UNCHANGED write_ch
        /\ \/ lost' = lost \union {m} /\ UNCHANGED reached
           \/ reached' = reached \union {<<target[t], m>>} /\ UNCHANGED lost
    BY <1>5 DEF DropDown, DropNil, WriteFails, WriteOK, WriteHalfClosed, WritesLate, Lose
  <2>2. /\ m \in MessagesCarried /\ MessagesCarried' = MessagesCarried \ {m}
        /\ \A u, v \in Writers :
             tpc'[u] # "recv" /\ tpc'[v] # "recv" /\ what_to_write'[u] = what_to_write'[v]
               => u = v
    BY <2>1, CarriesOne DEF Release
  <2>3. Wr' = Wr
    BY <2>1 DEF Elements
  <2>4. m \in MessagesInside /\ MessagesInside' = MessagesInside \ {m}
    <3>1. m \notin Wr /\ m \notin MessagesHeld
      BY <2>2 DEF MessagesApart
    <3>2. QED
      BY <1>2, <2>2, <2>3, <3>1 DEF MessagesInside, MessagesHeld, MessagesCarried
  <2>5. Outgoing!Complete(m) \/ Outgoing!GiveUp(m)
    <3>1. CASE lost' = lost \union {m} /\ UNCHANGED reached
      BY <2>4, <3>1 DEF Outgoing!GiveUp, ReachedMessages
    <3>2. CASE reached' = reached \union {<<target[t], m>>} /\ UNCHANGED lost
      <4>1. ReachedMessages' = ReachedMessages \union {m}
        <5>1. <<target[t], m>>[2] = m
          OBVIOUS
        <5>2. \A r : r \in reached' <=> r \in reached \/ r = <<target[t], m>>
          BY <3>2
        <5>3. QED
          BY <5>1, <5>2, Zenon DEF ReachedMessages
      <4>2. QED
        BY <2>4, <3>2, <4>1 DEF Outgoing!Complete
    <3>3. QED
      BY <2>1, <3>1, <3>2
  <2>6. MessagesInside' \union ReachedMessages' \union lost'
          = MessagesInside \union ReachedMessages \union lost
    BY <2>4, <2>5 DEF Outgoing!Complete, Outgoing!GiveUp
  <2>7. MessagesApart'
    BY <1>2, <2>1, <2>2, <2>3, <2>6 DEF MessagesApart, Distinct
  <2>8. QED
    BY <2>4, <2>5, <2>7 DEF MessagesPass, Outgoing!Next
<1>6. QED
  BY <1>3, <1>4, <1>5 DEF WriterStep, Writer

\* A worker that makes a message holds it until write_ch takes it.
LEMMA CreatesMessage ==
  ASSUME TypeOK, WorkersDiffer, MessagesApart, NEW w \in Workers, NEW x \in OutMsg,
         Block(w, "write_tcp_ch", x), x \notin MessagesMade,
         UNCHANGED <<write_ch, tpc, what_to_write, reached, lost>>,
         MessagesMade \subseteq MessagesMade', x \in MessagesMade'
  PROVE  MessagesPass /\ MessagesApart' /\ WorkersDiffer'
<1>1. UNCHANGED <<Elements(write_ch), MessagesCarried, ReachedMessages>>
  BY DEF Elements, MessagesCarried, ReachedMessages
<1>2. x \notin MessagesInside \union ReachedMessages \union lost
  BY DEF MessagesApart
<1>3. \A v \in Workers : mess[v] # x
  BY <1>2 DEF MessagesInside, TypeOK
<1>4. MessagesHeld' = MessagesHeld \union {x} /\ WorkersDiffer'
  BY <1>3, TakesOne DEF WorkersDiffer
<1>5. MessagesInside' = MessagesInside \union {x}
  BY <1>1, <1>4 DEF MessagesInside, MessagesHeld, MessagesCarried
<1>6. Outgoing!Accept
  BY <1>1, <1>2, <1>5 DEF Outgoing!Accept
<1>7. MessagesApart'
  <2>1. x \notin Elements(write_ch) /\ x \notin MessagesCarried
    BY <1>2 DEF MessagesInside, MessagesCarried
  <2>2. QED
    BY <1>1, <1>4, <1>5, <2>1 DEF MessagesApart, Distinct
<1>8. QED
  BY <1>4, <1>6, <1>7 DEF MessagesPass, Outgoing!Next

LEMMA WorkerPassesMessages ==
  ASSUME TypeOK, ManagerInv, FramesApart, MessagesApart, NEW w \in Workers,
         HandleSend(w) \/ WorkerInternal(w) \/ ApplicationReceives(w)
  PROVE  MessagesPass /\ MessagesApart' /\ WorkersDiffer'
<1> DEFINE Wr == Elements(write_ch)
<1>1. WorkersDiffer
  BY DEF FramesApart, WorkersDiffer
<1>2. UNCHANGED <<tpc, what_to_write, reached, lost, dials>>
  BY DEF WorkerInternal, ApplicationReceives, HandleSend, HandleCEA, HandleDWR,
         HandleOther, HandleTcpUp, Enqueue, Deliver, PostEvent, Receive, tcpVars,
         writerVars, netVars
<1>3. CASE HandleCEA(w) \/ HandleOther(w)
  <2>1. UNCHANGED <<write_ch, mpc, sends, answered>> /\ rcvd_ch # <<>>
    BY <1>3 DEF HandleCEA, HandleOther, Receive, managerVars
  <2>2. MessagesHeld' = MessagesHeld /\ WorkersDiffer'
    BY <1>1, <1>3, <2>1, NewToWorkers, TakesOne DEF HandleCEA, HandleOther, WorkersDiffer
  <2>3. QED
    BY <1>2, <2>1, <2>2, MessagesKept DEF MessagesMade, Introduced
<1>4. CASE HandleDWR(w)
  <2> DEFINE f == Head(rcvd_ch)
  <2>1. /\ UNCHANGED <<write_ch, mpc, sends>> /\ f.kind = "DWR" /\ rcvd_ch # <<>>
        /\ Block(w, "write_tcp_ch", DWA(f)) /\ answered' = answered \union {f}
    BY <1>4 DEF HandleDWR, Receive, managerVars
  <2>2. f \in Frame \ answered
    BY <2>1, NewToWorkers
  <2> HIDE DEF f
  <2>3. DWA(f) \in OutMsg /\ DWA(f) \notin MessagesMade
    BY <2>1, <2>2, Created, NewMessages DEF FramesApart
  <2>4. MessagesMade \subseteq MessagesMade' /\ DWA(f) \in MessagesMade'
    BY <1>2, <2>1 DEF MessagesMade, Introduced
  <2>5. QED
    BY <1>1, <1>2, <2>1, <2>3, <2>4, CreatesMessage
<1>5. CASE HandleSend(w)
  <2>1. /\ UNCHANGED <<write_ch, mpc, answered>> /\ sends \in Nat /\ sends' = sends + 1
        /\ Block(w, "write_tcp_ch", MSG(sends + 1))
    BY <1>5, DiamAssumption DEF HandleSend, tcpVars, managerVars, TypeOK
  <2>2. MSG(sends + 1) \in OutMsg /\ MSG(sends + 1) \notin MessagesMade
    BY <2>1, Created, NewMessages DEF FramesApart
  <2>3. MessagesMade \subseteq MessagesMade' /\ MSG(sends + 1) \in MessagesMade'
    <3>1. UNCHANGED Introduced /\ 1..sends \subseteq 1..sends' /\ sends + 1 \in 1..sends'
      BY <1>2, <2>1 DEF Introduced
    <3>2. QED
      BY <2>1, <3>1 DEF MessagesMade
  <2>4. QED
    BY <1>1, <1>2, <2>1, <2>2, <2>3, CreatesMessage
<1>6. CASE HandleTcpUp(w)
  <2>1. /\ UNCHANGED <<write_ch, sends, answered>> /\ mpc = "notify" /\ mpc' = "read"
        /\ Block(w, "write_tcp_ch", CER(dials))
    BY <1>6 DEF HandleTcpUp, Notify
  <2>2. dials \in 1..MaxConns /\ dials \in Nat
    BY <2>1, TcpAssumption DEF ManagerInv, TypeOK, TcpTypeOK
  <2>3. /\ dials \notin Introduced /\ dials \in Introduced'
        /\ Introduced \subseteq Introduced'
    BY <1>2, <2>1, <2>2 DEF Introduced
  <2>4. CER(dials) \in OutMsg /\ CER(dials) \notin MessagesMade
    BY <2>2, <2>3, Created, NewMessages, TcpAssumption DEF FramesApart
  <2>5. MessagesMade \subseteq MessagesMade' /\ CER(dials) \in MessagesMade'
    BY <2>1, <2>3 DEF MessagesMade
  <2>6. QED
    BY <1>1, <1>2, <2>1, <2>4, <2>5, CreatesMessage
<1>7. CASE Enqueue(w)
  <2> DEFINE m == mess[w]
  <2>1. /\ UNCHANGED <<mpc, sends, answered>> /\ Unblock(w, "write_tcp_ch")
        /\ write_ch \in Seq(OutMsg) /\ write_ch' = Append(write_ch, m)
    BY <1>7 DEF Enqueue, managerVars, TypeOK, TcpTypeOK
  <2>2. /\ m \in MessagesHeld /\ MessagesHeld' = MessagesHeld \ {m} /\ WorkersDiffer'
    BY <1>1, <2>1, SendsOne DEF WorkersDiffer
  <2>3. m \in OutMsg /\ m \notin Wr /\ m \notin MessagesCarried
    BY <2>1, <2>2 DEF MessagesApart, Unblock, TypeOK
  <2> HIDE DEF m
  <2>4. Distinct(write_ch') /\ Wr' = Wr \union {m}
    <3>1. Distinct(Append(write_ch, m)) /\ Elements(Append(write_ch, m)) = Wr \union {m}
      BY <2>1, <2>3, DistinctAppend DEF MessagesApart
    <3>2. Wr' = Elements(write_ch')
      BY DEF Elements
    <3>3. QED
      BY <2>1, <3>1, <3>2
  <2>5. UNCHANGED <<MessagesCarried, ReachedMessages, MessagesMade>>
    BY <1>2, <2>1 DEF MessagesCarried, ReachedMessages, MessagesMade, Introduced
  <2>6. MessagesInside' = MessagesInside
    BY <2>2, <2>4, <2>5 DEF MessagesInside, MessagesHeld, MessagesCarried
  <2>7. MessagesApart'
    BY <1>2, <2>2, <2>3, <2>4, <2>5, <2>6 DEF MessagesApart
  <2>8. QED
    BY <1>2, <2>2, <2>5, <2>6, <2>7 DEF MessagesPass
<1>8. CASE Deliver(w) \/ PostEvent(w)
  <2>1. UNCHANGED <<write_ch, mpc, sends, answered>>
    BY <1>8 DEF Deliver, PostEvent, tcpVars, managerVars
  <2>2. MessagesHeld' = MessagesHeld /\ WorkersDiffer'
    BY <1>1, <1>8, SendsOne DEF Deliver, PostEvent, WorkersDiffer
  <2>3. QED
    BY <1>2, <2>1, <2>2, MessagesKept DEF MessagesMade, Introduced
<1>9. QED
  BY <1>3, <1>4, <1>5, <1>6, <1>7, <1>8 DEF WorkerInternal, ApplicationReceives

-----------------------------------------------------------------------------
\* Before the first dial nothing is anywhere.
LEMMA InitApart == Init => /\ FramesApart /\ MessagesApart
                           /\ Incoming!Init /\ Outgoing!Init
<1> SUFFICES ASSUME Init PROVE FramesApart /\ MessagesApart /\ Incoming!Init /\ Outgoing!Init
  OBVIOUS
<1> USE DEF Init, TcpInit
<1>1. Elements(<<>>) = {} /\ Distinct(<<>>)
  BY DEF Elements, Distinct
<1>2. FramesHeld = {} /\ MessagesHeld = {} /\ FramesHandled = {}
  BY DEF FramesHeld, MessagesHeld, FramesHandled
<1>3. MessagesCarried = {}
  BY DEF MessagesCarried
<1>4. ReachedMessages = {} /\ lost = {}
  BY DEF ReachedMessages
<1>5. FramesInside = {} /\ MessagesInside = {}
  BY <1>1, <1>2, <1>3 DEF FramesInside, MessagesInside, MessagesHeld, MessagesCarried
<1>6. FramesApart
  BY <1>1, <1>2, <1>5 DEF FramesApart, Apart
<1>7. MessagesApart
  BY <1>1, <1>2, <1>3, <1>4, <1>5 DEF MessagesApart
<1>8. QED
  BY <1>2, <1>4, <1>5, <1>6, <1>7 DEF Incoming!Init, Outgoing!Init

\* Every step passes frames and messages on as Handoff does.
LEMMA StepPasses ==
  IndInv /\ FramesApart /\ MessagesApart /\ [Next]_vars =>
    FramesPass /\ FramesApart' /\ MessagesPass /\ MessagesApart'
<1> SUFFICES ASSUME IndInv, FramesApart, MessagesApart, [Next]_vars
             PROVE  FramesPass /\ FramesApart' /\ MessagesPass /\ MessagesApart'
  OBVIOUS
<1> USE DEF IndInv
<1>1. CASE ManagerStep
  BY <1>1, ManagerPassesFrames, ManagerPassesMessages
<1>2. CASE \E t \in Writers : WriterStep(t)
  <2>1. PICK t \in Writers : WriterStep(t)
    BY <1>2
  <2>2. UNCHANGED <<inbound, collect, rcvd_ch, frames, diamVars>>
    BY <2>1 DEF WriterStep, Writer, TakeMessage, DropDown, SeeUp, DropNil, LoadConn, WriteTo,
           WriteOK, WriteFails, WriteHeld, WriteHalfClosed, managerVars, netVars
  <2>3. QED
    BY <2>1, <2>2, FramesKept, WriterPassesMessages
<1>3. CASE \E w \in Workers : HandleSend(w) \/ WorkerInternal(w) \/ ApplicationReceives(w)
  <2>1. PICK w \in Workers : HandleSend(w) \/ WorkerInternal(w) \/ ApplicationReceives(w)
    BY <1>3
  <2>2. MessagesPass /\ MessagesApart' /\ WorkersDiffer'
    BY <2>1, WorkerPassesMessages
  <2>3. QED
    BY <2>1, <2>2, WorkerPassesFrames DEF WorkersDiffer
<1>4. CASE NetworkStep
  BY <1>4, NetworkPassesFrames, NetworkPassesMessages
<1>5. CASE UNCHANGED vars
  <2>1. /\ UNCHANGED <<inbound, collect, rcvd_ch, frames, diamVars>>
        /\ UNCHANGED <<write_ch, tpc, what_to_write, reached, lost, mpc, dials>>
    BY <1>5 DEF vars, tcpVars, managerVars, writerVars, netVars
  <2>2. UNCHANGED <<MessagesHeld, MessagesMade>>
    BY <2>1 DEF diamVars, MessagesHeld, MessagesMade, Introduced
  <2>3. QED
    BY <2>1, <2>2, FramesKept, MessagesKept
<1>6. QED
  BY <1>1, <1>2, <1>3, <1>4, <1>5 DEF Next, Internal, Idle

THEOREM StayApart == Spec => [](FramesApart /\ MessagesApart)
  BY InitApart, StepPasses, Invariance, PTL DEF Spec

\* Every frame taken off a socket is handled exactly once, whatever the number of
\* workers that pull at rcvd_ch.
THEOREM FramesPassedOnce == Spec => FramesHandedOffOnce
<1>1. FramesPass => [Incoming!Next]_<<FramesInside, FramesHandled, {}>>
  BY DEF FramesPass
<1>2. QED
  BY <1>1, InitApart, StepPasses, StayApart, Invariance, PTL
     DEF Spec, FramesHandedOffOnce, Incoming!Spec

\* Every message is written once or given up once, whatever the number of Writers
\* that pull at write_ch.
THEOREM MessagesPassedOnce == Spec => MessagesHandedOffOnce
<1>1. MessagesPass => [Outgoing!Next]_<<MessagesInside, ReachedMessages, lost>>
  BY DEF MessagesPass
<1>2. QED
  BY <1>1, InitApart, StepPasses, StayApart, Invariance, PTL
     DEF Spec, MessagesHandedOffOnce, Outgoing!Spec
=============================================================================
