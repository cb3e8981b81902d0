------------------------------ MODULE DiamConn ------------------------------
(***************************************************************************)
(* A Diameter connection (conn/diamconn.go): the pool of workers started   *)
(* by DiamConn.Start over the TCP endpoint of TcpConn.  Each worker loops  *)
(* on one select over three channels and handles what it takes: a frame    *)
(* from rcvd_tcp_ch, a message of the application from send_mess_ch, the   *)
(* tcp_up event from mgmt_tcp_ch.  Handling ends in one blocking send, to  *)
(* write_tcp_ch, rcv_mess_ch or mgmt_diam_conn.                            *)
(*                                                                         *)
(* rcvd_tcp_ch and write_tcp_ch are the channels TcpConn calls rcvd_ch and *)
(* write_ch.  The channels to and from the application are made outside    *)
(* src/; they are unbuffered here, the least an application can provide.   *)
(***************************************************************************)
EXTENDS TcpConn

CONSTANTS
  Workers,   \* the goroutines of DiamConn.Start (10 in the code)
  MaxSends   \* bound: messages the application sends in a behaviour

ASSUME DiamAssumption == Workers # {} /\ MaxSends \in Nat

VARIABLES
  wpc,       \* select, or the channel the worker is blocked sending to
  mess,      \* what it is sending there
  sends,     \* messages the application has sent
  \* history
  toApp,     \* frames received by the application on rcv_mess_ch
  events,    \* CEA frames received by it on mgmt_diam_conn
  answered   \* DWR frames a worker has called createDWA for

diamVars == <<wpc, mess, sends, toApp, events, answered>>
vars == <<tcpVars, diamVars>>

TypeOK ==
  /\ TcpTypeOK
  /\ wpc \in [Workers -> {"select", "mgmt_diam_conn", "write_tcp_ch", "rcv_mess_ch"}]
  /\ mess \in [Workers -> Frame \union OutMsg \union {NoMsg}]
  /\ \A w \in Workers :
       /\ wpc[w] = "select" <=> mess[w] = NoMsg
       /\ wpc[w] = "write_tcp_ch" <=> mess[w] \in OutMsg
       /\ wpc[w] \in {"mgmt_diam_conn", "rcv_mess_ch"} <=> mess[w] \in Frame
  /\ sends \in 0..MaxSends
  /\ toApp \subseteq Frame
  /\ events \subseteq Frame
  /\ answered \subseteq Frame

Init ==
  /\ TcpInit
  /\ wpc = [w \in Workers |-> "select"]
  /\ mess = [w \in Workers |-> NoMsg]
  /\ sends = 0
  /\ toApp = {}
  /\ events = {}
  /\ answered = {}

-----------------------------------------------------------------------------
(***************************************************************************)
(* A worker.                                                               *)
(***************************************************************************)

GenMess(kind, request, id, conn) ==
  [kind |-> kind, request |-> request, id |-> id, conn |-> conn]

\* createCER, for the connection whose tcp_up event is being handled.
CER(c) == GenMess("CE", TRUE, c, c)

\* createDWA: the identifiers are those of the request it is made for.  It passes TRUE
\* for the R flag to GenMess: what is made is a watchdog request, not an answer.
DWA(f) == GenMess("DW", TRUE, f.id, f.conn)

\* The n-th message of the application, a request.
MSG(n) == GenMess("MSG", TRUE, n, NoConn)

\* The worker has x to send to channel ch.
Block(w, ch, x) ==
  /\ wpc[w] = "select"
  /\ wpc' = [wpc EXCEPT ![w] = ch]
  /\ mess' = [mess EXCEPT ![w] = x]

\* The receive that every frame case starts with: mess := <-c.rcvd_tcp_ch.
Receive(kinds) ==
  /\ rcvd_ch # <<>>
  /\ Head(rcvd_ch).kind \in kinds
  /\ rcvd_ch' = Tail(rcvd_ch)
  /\ UNCHANGED <<state, Conn, write_ch, managerVars, writerVars, netVars>>

\* IsAnswer and CC_CAP_EXCH: hand cea_recieved to the owner of the connection.
HandleCEA(w) ==
  /\ Receive({"CEA"})
  /\ Block(w, "mgmt_diam_conn", Head(rcvd_ch))
  /\ UNCHANGED <<sends, toApp, events, answered>>

\* IsRequest and CC_DEVICE_WATCHDOG: reply to it, the application never sees it.
HandleDWR(w) ==
  /\ Receive({"DWR"})
  /\ Block(w, "write_tcp_ch", DWA(Head(rcvd_ch)))
  /\ answered' = answered \union {Head(rcvd_ch)}
  /\ UNCHANGED <<sends, toApp, events>>

\* Everything else is decoded and goes to the application.
HandleOther(w) ==
  /\ Receive({"APP"})
  /\ Block(w, "rcv_mess_ch", Head(rcvd_ch))
  /\ UNCHANGED <<sends, toApp, events, answered>>

\* msg_to_send := <-c.send_mess_ch; identifiers are filled in, it is encoded.
HandleSend(w) ==
  /\ sends < MaxSends
  /\ sends' = sends + 1
  /\ Block(w, "write_tcp_ch", MSG(sends + 1))
  /\ UNCHANGED <<tcpVars, toApp, events, answered>>

\* mgmt_event := <-c.mgmt_tcp_ch, together with the manager's send of tcp_up.
HandleTcpUp(w) ==
  /\ Notify
  /\ Block(w, "write_tcp_ch", CER(dials))
  /\ UNCHANGED <<state, Conn, rcvd_ch, write_ch, collect, taken, writerVars, netVars,
                 sends, toApp, events, answered>>

\* The blocking send to ch has succeeded: back to the top of the loop.
Unblock(w, ch) ==
  /\ wpc[w] = ch
  /\ wpc' = [wpc EXCEPT ![w] = "select"]
  /\ mess' = [mess EXCEPT ![w] = NoMsg]

\* c.write_tcp_ch <- ...Encode()
Enqueue(w) ==
  /\ Unblock(w, "write_tcp_ch")
  /\ Len(write_ch) < ChanCap
  /\ write_ch' = Append(write_ch, mess[w])
  /\ UNCHANGED <<state, Conn, rcvd_ch, managerVars, writerVars, netVars,
                 sends, toApp, events, answered>>

\* c.rcv_mess_ch <- c_rvc_full_decoded, received by the application.
Deliver(w) ==
  /\ Unblock(w, "rcv_mess_ch")
  /\ toApp' = toApp \union {mess[w]}
  /\ UNCHANGED <<tcpVars, sends, events, answered>>

\* c.mgmt_diam_conn <- NewEvent(cea_recieved, mess), received by the application.
PostEvent(w) ==
  /\ Unblock(w, "mgmt_diam_conn")
  /\ events' = events \union {mess[w]}
  /\ UNCHANGED <<tcpVars, sends, toApp, answered>>

\* The steps a worker takes without the application.
WorkerInternal(w) ==
  \/ HandleCEA(w) \/ HandleDWR(w) \/ HandleOther(w) \/ HandleTcpUp(w)
  \/ Enqueue(w)

\* The steps in which the application receives.
ApplicationReceives(w) == Deliver(w) \/ PostEvent(w)

-----------------------------------------------------------------------------
ManagerStep    == Manager /\ UNCHANGED diamVars
WriterStep(t)  == Writer(t) /\ UNCHANGED diamVars
NetworkStep    == Network /\ UNCHANGED diamVars

\* Everything that runs in this process on its own account.
Internal ==
  \/ ManagerStep
  \/ \E t \in Writers : WriterStep(t)
  \/ \E w \in Workers : WorkerInternal(w)

\* Nothing is left inside and the peer and the application have nothing more
\* to send.
Quiescent ==
  /\ mpc = "read" /\ netOpen /\ inbound = <<>>
  /\ rcvd_ch = <<>> /\ write_ch = <<>>
  /\ \A t \in Writers : tpc[t] = "recv"
  /\ \A w \in Workers : wpc[w] = "select"

Idle == Quiescent /\ UNCHANGED vars

Next ==
  \/ Internal
  \/ \E w \in Workers : HandleSend(w) \/ ApplicationReceives(w)
  \/ NetworkStep
  \/ Idle

Spec == Init /\ [][Next]_vars

(***************************************************************************)
(* Fairness.  The Go scheduler runs every goroutine that can run, so each  *)
(* goroutine is weakly fair.  An application that owns the connection      *)
(* reads both of its channels.  A peer reads its socket, also one it has   *)
(* shut down for sending, or goes away.  Neither has to send, no           *)
(* connection has to end, and a dial may fail for ever unless the peer     *)
(* accepts one of infinitely many (strong fairness).                       *)
(***************************************************************************)
Fairness ==
  /\ WF_vars(ManagerStep)
  /\ SF_vars(DialSucceeds /\ UNCHANGED diamVars)
  /\ \A t \in Writers : WF_vars(tpc[t] # "held" /\ WriterStep(t))
  /\ \A w \in Workers : WF_vars(WorkerInternal(w)) /\ WF_vars(ApplicationReceives(w))
  /\ WF_vars(PeerReads /\ UNCHANGED diamVars)
  /\ \A t \in Writers : WF_vars(tpc[t] = "held" /\ WriterStep(t))

FairSpec == Spec /\ Fairness

-----------------------------------------------------------------------------
(***************************************************************************)
(* Properties.                                                             *)
(***************************************************************************)
Elements(s) == {s[i] : i \in 1..Len(s)}

\* Frames taken from rcvd_ch that the application has not received yet.
FramesHeld == {mess[w] : w \in {v \in Workers : wpc[v] \in {"mgmt_diam_conn", "rcv_mess_ch"}}}

FramesInside == Elements(collect) \union Elements(rcvd_ch) \union FramesHeld

FramesHandled == toApp \union events \union answered

MessagesInside ==
  Elements(write_ch)
    \union {mess[w] : w \in {v \in Workers : wpc[v] = "write_tcp_ch"}}
    \union {what_to_write[t] : t \in {u \in Writers : tpc[u] # "recv"}}

ReachedMessages == {r[2] : r \in reached}

Incoming == INSTANCE Handoff WITH
  pending <- FramesInside,
  done    <- FramesHandled,
  dropped <- {}

Outgoing == INSTANCE Handoff WITH
  pending <- MessagesInside,
  done    <- ReachedMessages,
  dropped <- lost

\* Every frame readLoop takes off a socket is, exactly once, either handed to
\* the application, reported as the CEA, or replied to as a watchdog request,
\* whichever worker picks it up and whatever happens to the connection; none
\* is lost between the goroutines and none is handled twice.
FramesHandedOffOnce == Incoming!Spec

\* Every message a worker accepts or creates is, exactly once, either written
\* to a connection or given up by a Writer; it is never written twice and
\* never disappears on its way through write_tcp_ch.
MessagesHandedOffOnce == Outgoing!Spec

\* A message is never written to a connection older than the one it is about:
\* the CER of a connection, or the reply to a watchdog of it, goes out on that
\* connection or on a later one.  init assigns c.Conn before it reports tcp_up,
\* and a Writer loads c.Conn after it has the message.
CauseBeforeWrite == \A r \in reached : r[2].conn <= r[1]

\* While the manager is past init, the fields the Writers look at describe the
\* connection it reads from: no goroutine has marked it DOWN and c.Conn is the
\* newest connection.
EstablishedIsUp ==
  mpc \in {"notify", "read", "push"} => state = UP /\ Conn = dials

Established == mpc \in {"notify", "read", "push"} /\ netOpen

LossIsLate ==
  lost' # lost /\ Established =>
    \E t \in Writers : /\ lost' = lost \union {what_to_write[t]}
                       /\ tpc[t] \in {"write", "held"}
                       /\ target[t] \in 1..(dials - 1)

\* While a connection is established and open, the only message a Writer can
\* lose is one it was already about to write to an earlier connection, or held up in.
NoLossWhileEstablished == [][LossIsLate]_vars

Ids(s) == [i \in 1..Len(s) |-> s[i].id]

\* The frames of this connection that have not been put into rcvd_ch, and those that
\* have ever been.
FramesWaiting == Ids(collect \o inbound)
FramesHanded  == {f.id : f \in Elements(rcvd_ch) \union FramesHeld \union FramesHandled}

Stream == INSTANCE Intake WITH
  sent <- frames, waiting <- FramesWaiting, handed <- FramesHanded, broken <- ~netOpen

\* The manager is a reader of frames: it hands them to the workers in the order
\* the peer sent them, skips none while the connection lasts, and mixes none of an
\* old connection into the stream of the next, whatever the workers do with them.
ReadsFrames == Stream!Spec

WaitsForApplication(w) == wpc[w] \in {"mgmt_diam_conn", "rcv_mess_ch"}

\* In a Write on the connection, or on one of the past.
WaitsForPeer(t) ==
  \/ tpc[t] = "write" /\ Live(target[t]) /\ sndbuf = NetCap
  \/ tpc[t] = "held"

\* What each goroutine can do by itself; only dialling depends on the peer.
ManagerCanRun ==
  \/ mpc \in {"up", "assign"}
  \/ mpc = "read" /\ (inbound # <<>> \/ ~netOpen)
  \/ mpc = "push" /\ Len(rcvd_ch) < ChanCap

WriterCanRun(t) ==
  \/ tpc[t] = "recv" /\ write_ch # <<>>
  \/ tpc[t] \in {"state", "conn"}
  \/ tpc[t] = "write" /\ ~WaitsForPeer(t)

WorkerCanRun(w) ==
  \/ wpc[w] = "select" /\ (rcvd_ch # <<>> \/ mpc = "notify")
  \/ wpc[w] = "write_tcp_ch" /\ Len(write_ch) < ChanCap

CanRun ==
  ManagerCanRun \/ (\E t \in Writers : WriterCanRun(t)) \/ (\E w \in Workers : WorkerCanRun(w))

\* The process never blocks itself.  When no goroutine can do anything but
\* dial, work that is left is held up by an application that does not receive
\* or by a peer that does not read: frames and the tcp_up event wait only if
\* every worker is blocked, messages wait only if every Writer is in a Write
\* that the peer holds up.
NoInternalDeadlock ==
  ~CanRun =>
    /\ rcvd_ch # <<>> \/ mpc \in {"notify", "push"} =>
         \A w \in Workers : wpc[w] # "select"
    /\ mpc = "push" => Len(rcvd_ch) = ChanCap
    /\ \A w \in Workers : wpc[w] = "write_tcp_ch" => Len(write_ch) = ChanCap
    /\ write_ch # <<>> => \A t \in Writers : tpc[t] # "recv"
    /\ \A t \in Writers : tpc[t] # "recv" => WaitsForPeer(t)
    /\ FramesInside \union MessagesInside # {} \/ mpc = "notify" =>
         \/ \E w \in Workers : WaitsForApplication(w)
         \/ \E t \in Writers : WaitsForPeer(t)

\* "TCP connection established, send CER": the CER of a connection that stays
\* open is written to that connection.
CERSent ==
  \A c \in 1..MaxConns :
    (mpc = "notify" /\ Conn = c) ~> (<<c, CER(c)>> \in reached \/ ~Live(c))

\* For a watchdog request read from a connection that stays open a reply with the
\* identifiers of the request is written to that connection.
WatchdogRepliedTo ==
  \A f \in Frame :
    (f.kind = "DWR" /\ f \in taken) ~> (<<f.conn, DWA(f)>> \in reached \/ ~Live(f.conn))

\* That reply is the answer createDWA is named for: a watchdog message with the
\* identifiers of the request and without the R flag.
Answers(m, f) == m.kind = "DW" /\ ~m.request /\ m.id = f.id

WatchdogAnswered ==
  \A f \in Frame :
    (f.kind = "DWR" /\ f \in taken) ~>
      ((\E r \in reached : r[1] = f.conn /\ Answers(r[2], f)) \/ ~Live(f.conn))

\* Every frame taken off a socket is eventually handled, every message the
\* application managed to send eventually leaves the process.
EverythingDrains ==
  /\ \A f \in Frame : f \in taken ~> f \in FramesHandled
  /\ \A n \in 1..MaxSends : sends >= n ~> MSG(n) \in ReachedMessages \union lost

\* After the connection ends the code connects again for as long as the peer
\* accepts connections.
Reconnects == (dials > 0 /\ ~netOpen) ~> (netOpen \/ dials = MaxConns)
=============================================================================
