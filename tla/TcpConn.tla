------------------------------- MODULE TcpConn -------------------------------
(***************************************************************************)
(* The TCP endpoint of a Diameter peer (conn/conn.go): the goroutine that  *)
(* dials and reads (Start, init, readLoop), the Writer goroutines, and the *)
(* three channels they share with the Diameter layer.                      *)
(*                                                                         *)
(* The module declares state and actions only; DiamConn EXTENDS it, adds   *)
(* the pool of workers and states the specification.                       *)
(*                                                                         *)
(* Data is abstracted to what the properties tell apart.  A frame is a     *)
(* complete Diameter message of the peer, a message is one of ours; each   *)
(* carries an identity and, in "conn", the connection it belongs to (the   *)
(* connection a frame was sent on, a CER was created for, the watchdog     *)
(* that createDWA was called for came on; 0 for a message of the           *)
(* application).  The code has no such field: it is history the properties *)
(* need.  How bytes become frames is not the business of this module: what *)
(* readLoop does with one read is to append the frames that read           *)
(* completes, in order.                                                    *)
(***************************************************************************)
EXTENDS Integers, Sequences, FiniteSets

CONSTANTS
  Writers,    \* goroutines running Writer (10 in the code)
  ChanCap,    \* capacity of rcvd_ch and of write_ch (100 in the code)
  NetCap,     \* messages the network holds in one direction before it blocks
  MaxConns,   \* bound: connections the peer accepts in a behaviour
  MaxFrames   \* bound: frames the peer sends in a behaviour

ASSUME TcpAssumption ==
  /\ Writers # {}
  /\ ChanCap \in Nat \ {0}
  /\ NetCap \in Nat \ {0}
  /\ MaxConns \in Nat
  /\ MaxFrames \in Nat

DOWN == 0
UP   == 1

\* c.Conn before the first connection: a nil net.Conn.  Connections are
\* numbered from 1 in the order they are established.
NoConn == 0

\* CEA: an answer with command code 257; DWR: a request with code 280;
\* APP: everything else, which the Diameter layer hands to the application.
FrameKinds == {"CEA", "DWR", "APP"}
Frame == [kind : FrameKinds, id : 1..MaxFrames, conn : 1..MaxConns]

\* CE: command code 257, DW: code 280, each a request or an answer by the R flag of
\* its header; MSG: what the application sends.
OutMsg == [kind : {"CE", "DW", "MSG"}, request : BOOLEAN, id : Nat, conn : 0..MaxConns]
NoMsg == [kind |-> "none", request |-> FALSE, id |-> 0, conn |-> 0]

VARIABLES
  \* ConnParam
  state,      \* c.state
  Conn,       \* c.Conn
  rcvd_ch,    \* buffered channel of frames, reader to workers
  write_ch,   \* buffered channel of messages, workers to writers
  \* the goroutine in Start
  mpc,        \* where it is: dial, sleep, up, assign, notify, read, push
  collect,    \* frames read from the socket and not yet put in rcvd_ch
  \* the Writer goroutines
  tpc,        \* where each is: recv, state, conn, write, held (in a late write)
  what_to_write, \* the message each holds
  target,     \* the connection each has loaded from c.Conn
  \* the network and the peer
  dials,      \* connections established so far; the newest is number dials
  netOpen,    \* whether connection number dials is still open
  inbound,    \* frames the peer sent on it that have not been read
  sndbuf,     \* messages written to it that the peer has not read
  frames,     \* frames the peer has sent in all
  \* history
  taken,      \* frames read from a socket
  reached,    \* <<c, m>>: message m was accepted by connection c
  lost        \* messages a Writer dropped, or whose Write failed

managerVars == <<mpc, collect, taken>>
writerVars  == <<tpc, what_to_write, target, reached, lost>>
netVars     == <<dials, netOpen, inbound, sndbuf, frames>>
tcpVars     == <<state, Conn, rcvd_ch, write_ch, managerVars, writerVars, netVars>>

TcpTypeOK ==
  /\ state \in {DOWN, UP}
  /\ Conn \in 0..MaxConns
  /\ rcvd_ch \in Seq(Frame) /\ Len(rcvd_ch) <= ChanCap
  /\ write_ch \in Seq(OutMsg) /\ Len(write_ch) <= ChanCap
  /\ mpc \in {"dial", "sleep", "up", "assign", "notify", "read", "push"}
  /\ collect \in Seq(Frame)
  /\ tpc \in [Writers -> {"recv", "state", "conn", "write", "held"}]
  /\ what_to_write \in [Writers -> OutMsg \union {NoMsg}]
  /\ \A t \in Writers : tpc[t] # "recv" => what_to_write[t] \in OutMsg
  /\ target \in [Writers -> 0..MaxConns]
  /\ dials \in 0..MaxConns
  /\ netOpen \in BOOLEAN
  /\ inbound \in Seq(Frame)
  /\ sndbuf \in Nat
  /\ frames \in 0..MaxFrames
  /\ taken \subseteq Frame
  /\ reached \subseteq (0..MaxConns) \X OutMsg
  /\ lost \subseteq OutMsg

TcpInit ==
  /\ state = DOWN
  /\ Conn = NoConn
  /\ rcvd_ch = <<>>
  /\ write_ch = <<>>
  /\ mpc = "dial"
  /\ collect = <<>>
  /\ tpc = [t \in Writers |-> "recv"]
  /\ what_to_write = [t \in Writers |-> NoMsg]
  /\ target = [t \in Writers |-> NoConn]
  /\ dials = 0
  /\ netOpen = FALSE
  /\ inbound = <<>>
  /\ sndbuf = 0
  /\ frames = 0
  /\ taken = {}
  /\ reached = {}
  /\ lost = {}

-----------------------------------------------------------------------------
(***************************************************************************)
(* The goroutine in Start: init() dials until it succeeds, then sets       *)
(* c.state, then c.Conn, then sends tcp_up on the unbuffered mgmt_ch (a    *)
(* rendezvous with a worker: Notify); readLoop() reads until an error.     *)
(* c.state and c.Conn are plain fields read by other goroutines, so each   *)
(* assignment is a step of its own.                                        *)
(***************************************************************************)

\* Dial succeeds: the local variable conn of init is connection dials + 1.
DialSucceeds ==
  /\ mpc = "dial"
  /\ dials < MaxConns
  /\ mpc' = "up"
  /\ dials' = dials + 1
  /\ netOpen' = TRUE
  /\ inbound' = <<>>
  /\ sndbuf' = 0
  /\ UNCHANGED <<state, Conn, rcvd_ch, write_ch, collect, taken, frames, writerVars>>

\* Dial fails (refused, or its 2 second timeout): sleep 5 seconds.
DialFails ==
  /\ mpc = "dial"
  /\ mpc' = "sleep"
  /\ UNCHANGED <<state, Conn, rcvd_ch, write_ch, collect, taken, writerVars, netVars>>

\* The sleep ends: try again.
Redial ==
  /\ mpc = "sleep"
  /\ mpc' = "dial"
  /\ UNCHANGED <<state, Conn, rcvd_ch, write_ch, collect, taken, writerVars, netVars>>

\* Fault: init forgets to set c.state back to UP.
SetUpForgotten ==
  /\ mpc = "up"
  /\ mpc' = "assign"
  /\ UNCHANGED <<state, Conn, rcvd_ch, write_ch, collect, taken, writerVars, netVars>>

\* c.state = UP
SetUp ==
  /\ mpc = "up"
  /\ state' = UP
  /\ mpc' = "assign"
  /\ UNCHANGED <<Conn, rcvd_ch, write_ch, collect, taken, writerVars, netVars>>

\* Fault: c.Conn is assigned on the first connection only.
SetConnOnce ==
  /\ mpc = "assign"
  /\ Conn' = IF Conn = NoConn THEN dials ELSE Conn
  /\ mpc' = "notify"
  /\ UNCHANGED <<state, rcvd_ch, write_ch, collect, taken, writerVars, netVars>>

\* c.Conn = conn
SetConn ==
  /\ mpc = "assign"
  /\ Conn' = dials
  /\ mpc' = "notify"
  /\ UNCHANGED <<state, rcvd_ch, write_ch, collect, taken, writerVars, netVars>>

\* The manager's half of c.mgmt_ch <- tcp_up; the worker's half is in DiamConn.
Notify ==
  /\ mpc = "notify"
  /\ mpc' = "read"

\* c.Conn.Read returns bytes that complete the next n frames.
ReadSome ==
  /\ mpc = "read"
  /\ \E n \in 1..Len(inbound) :
       /\ collect' = collect \o SubSeq(inbound, 1, n)
       /\ taken' = taken \union {inbound[i] : i \in 1..n}
       /\ inbound' = SubSeq(inbound, n + 1, Len(inbound))
  /\ mpc' = "push"
  /\ UNCHANGED <<state, Conn, rcvd_ch, write_ch, writerVars, dials, netOpen, sndbuf, frames>>

\* Fault: continue in place of break.
ReadFailsContinues ==
  /\ mpc = "read"
  /\ ~netOpen /\ inbound = <<>>
  /\ state' = DOWN
  /\ UNCHANGED <<Conn, rcvd_ch, write_ch, mpc, collect, taken, writerVars, netVars>>

\* c.Conn.Read returns an error: the connection is gone and so is whatever
\* readLoop had collected of an incomplete frame.  c.Conn is left as it is
\* and is not closed.
ReadFails ==
  /\ mpc = "read"
  /\ ~netOpen /\ inbound = <<>>
  /\ state' = DOWN
  /\ mpc' = "dial"
  /\ UNCHANGED <<Conn, rcvd_ch, write_ch, collect, taken, writerVars, netVars>>

\* A frame is in the channel and the rest left; the reader goes back to Read when
\* no complete frame is.
Pushed(queue, rest) ==
  /\ mpc = "push"
  /\ rcvd_ch' = queue
  /\ collect' = rest
  /\ mpc' = IF rest = <<>> THEN "read" ELSE "push"
  /\ UNCHANGED <<state, Conn, write_ch, taken, writerVars, netVars>>

\* Fault: the send does not wait for room.
PushFrameUnbounded == Pushed(Append(rcvd_ch, Head(collect)), Tail(collect))

\* Fault: a select with a default, the frame is skipped when there is no room.
PushFrameOrSkip ==
  Pushed(IF Len(rcvd_ch) < ChanCap THEN Append(rcvd_ch, Head(collect)) ELSE rcvd_ch,
         Tail(collect))

\* Fault: the frame cut off is the last complete one.
PushFrameFromEnd ==
  /\ Len(rcvd_ch) < ChanCap
  /\ Pushed(Append(rcvd_ch, collect[Len(collect)]), SubSeq(collect, 1, Len(collect) - 1))

\* c.rcvd_ch <- c_part, which blocks while the channel is full.
PushFrame ==
  /\ Len(rcvd_ch) < ChanCap
  /\ Pushed(Append(rcvd_ch, Head(collect)), Tail(collect))

Manager ==
  \/ DialSucceeds \/ DialFails \/ Redial \/ SetUp \/ SetConn
  \/ ReadSome \/ ReadFails \/ PushFrame

-----------------------------------------------------------------------------
(***************************************************************************)
(* Writer(cli): take a message, look at c.state, look at c.Conn, write.    *)
(* The nil test of c.Conn and the load for the call of Write are one step: *)
(* c.Conn never becomes nil again, so a test that passes before the load   *)
(* passes at the load too.  A torn read of the two-word interface value on *)
(* the first assignment gives a nil *TCPConn, whose Write returns an error:*)
(* the message is lost, as when the test sees nil.                         *)
(***************************************************************************)

\* what_to_write := <-c.write_ch
TakeMessage(t) ==
  /\ tpc[t] = "recv"
  /\ write_ch # <<>>
  /\ what_to_write' = [what_to_write EXCEPT ![t] = Head(write_ch)]
  /\ write_ch' = Tail(write_ch)
  /\ tpc' = [tpc EXCEPT ![t] = "state"]
  /\ UNCHANGED <<state, Conn, rcvd_ch, managerVars, netVars, target, reached, lost>>

\* The writer is done with its message and goes back to the channel.
Release(t) ==
  /\ tpc' = [tpc EXCEPT ![t] = "recv"]
  /\ what_to_write' = [what_to_write EXCEPT ![t] = NoMsg]
  /\ target' = [target EXCEPT ![t] = NoConn]

Lose(t) ==
  /\ lost' = lost \union {what_to_write[t]}
  /\ Release(t)
  /\ UNCHANGED reached

\* c.state == DOWN: "trying to write, but tcp connection is down"; continue.
DropDown(t) ==
  /\ tpc[t] = "state"
  /\ state = DOWN
  /\ Lose(t)
  /\ UNCHANGED <<state, Conn, rcvd_ch, write_ch, managerVars, netVars>>

SeeUp(t) ==
  /\ tpc[t] = "state"
  /\ state # DOWN
  /\ tpc' = [tpc EXCEPT ![t] = "conn"]
  /\ UNCHANGED <<state, Conn, rcvd_ch, write_ch, managerVars, netVars,
                 what_to_write, target, reached, lost>>

\* c.Conn == nil: the same warning and continue.
DropNil(t) ==
  /\ tpc[t] = "conn"
  /\ Conn = NoConn
  /\ Lose(t)
  /\ UNCHANGED <<state, Conn, rcvd_ch, write_ch, managerVars, netVars>>

WriteTo(t, c) ==
  /\ tpc[t] = "conn"
  /\ Conn # NoConn
  /\ target' = [target EXCEPT ![t] = c]
  /\ tpc' = [tpc EXCEPT ![t] = "write"]
  /\ UNCHANGED <<state, Conn, rcvd_ch, write_ch, managerVars, netVars,
                 what_to_write, reached, lost>>

\* Fault: a Writer goes on using the first connection.
LoadConnFirst(t) == WriteTo(t, 1)

\* c.Conn, of which Write is called.
LoadConn(t) == WriteTo(t, Conn)

Live(c) == c = dials /\ netOpen

\* Write on an open connection; it blocks while the network is full.
WriteOK(t) ==
  /\ tpc[t] = "write"
  /\ Live(target[t])
  /\ sndbuf < NetCap
  /\ sndbuf' = sndbuf + 1
  /\ reached' = reached \union {<<target[t], what_to_write[t]>>}
  /\ Release(t)
  /\ UNCHANGED <<state, Conn, rcvd_ch, write_ch, managerVars,
                 dials, netOpen, inbound, frames, lost>>

\* In a Write on a connection that has ended.
WritesLate(t) == tpc[t] \in {"write", "held"} /\ ~Live(target[t])

\* Fault: the line "c.state = DOWN" that the code has commented out.
WriteFailsMarksDown(t) ==
  /\ WritesLate(t)
  /\ Lose(t)
  /\ state' = DOWN
  /\ UNCHANGED <<Conn, rcvd_ch, write_ch, managerVars, netVars>>

\* Fault: a write deadline, Write fails while the network is full.
WriteFailsWhenFull(t) ==
  /\ tpc[t] \in {"write", "held"}
  /\ ~Live(target[t]) \/ sndbuf = NetCap
  /\ Lose(t)
  /\ UNCHANGED <<state, Conn, rcvd_ch, write_ch, managerVars, netVars>>

\* Fault: the message is given up and queued again.
WriteFailsRequeues(t) ==
  /\ WritesLate(t)
  /\ Lose(t)
  /\ Len(write_ch) < ChanCap
  /\ write_ch' = Append(write_ch, what_to_write[t])
  /\ UNCHANGED <<state, Conn, rcvd_ch, managerVars, netVars>>

\* Fault: the error ends the Writer.
WriteFailsForGood(t) ==
  /\ WritesLate(t)
  /\ lost' = lost \union {what_to_write[t]}
  /\ tpc' = [tpc EXCEPT ![t] = "stopped"]
  /\ UNCHANGED <<state, Conn, rcvd_ch, write_ch, managerVars, netVars,
                 what_to_write, target, reached>>

\* Write on a connection that is gone: the error is ignored, message lost.
WriteFails(t) ==
  /\ WritesLate(t)
  /\ Lose(t)
  /\ UNCHANGED <<state, Conn, rcvd_ch, write_ch, managerVars, netVars>>

\* A Write on a connection the peer has shut down in one direction only, our end of
\* which was never closed, is held up for as long as that peer does not read.
WriteHeld(t) ==
  /\ tpc[t] = "write"
  /\ ~Live(target[t])
  /\ tpc' = [tpc EXCEPT ![t] = "held"]
  /\ UNCHANGED <<state, Conn, rcvd_ch, write_ch, managerVars, netVars,
                 what_to_write, target, reached, lost>>

\* It has room for the message, or the peer has read: the message arrives.
WriteHalfClosed(t) ==
  /\ WritesLate(t)
  /\ reached' = reached \union {<<target[t], what_to_write[t]>>}
  /\ Release(t)
  /\ UNCHANGED <<state, Conn, rcvd_ch, write_ch, managerVars, netVars, lost>>

Writer(t) ==
  \/ TakeMessage(t)
  \/ DropDown(t) \/ SeeUp(t)
  \/ DropNil(t) \/ LoadConn(t)
  \/ WriteOK(t) \/ WriteFails(t) \/ WriteHeld(t) \/ WriteHalfClosed(t)

-----------------------------------------------------------------------------
(***************************************************************************)
(* The network and the peer, as far as this code can notice them.          *)
(***************************************************************************)

\* The peer sends a frame.  It answers capabilities only when it has a CER.
PeerSends(k) ==
  /\ netOpen
  /\ frames < MaxFrames
  /\ Len(inbound) < NetCap
  /\ k = "CEA" => \E r \in reached : r[1] = dials /\ r[2].kind = "CE" /\ r[2].request
  /\ frames' = frames + 1
  /\ inbound' = Append(inbound, [kind |-> k, id |-> frames + 1, conn |-> dials])
  /\ UNCHANGED <<state, Conn, rcvd_ch, write_ch, managerVars, writerVars,
                 dials, netOpen, sndbuf>>

PeerReads ==
  /\ sndbuf > 0
  /\ sndbuf' = sndbuf - 1
  /\ UNCHANGED <<state, Conn, rcvd_ch, write_ch, managerVars, writerVars,
                 dials, netOpen, inbound, frames>>

\* The connection ends; any suffix of what the peer had sent is lost with it.
ConnectionEnds ==
  /\ netOpen
  /\ netOpen' = FALSE
  /\ \E n \in 0..Len(inbound) : inbound' = SubSeq(inbound, 1, n)
  /\ UNCHANGED <<state, Conn, rcvd_ch, write_ch, managerVars, writerVars,
                 dials, sndbuf, frames>>

Network == PeerReads \/ ConnectionEnds \/ \E k \in FrameKinds : PeerSends(k)
=============================================================================
