------------------------------- MODULE DmmNet -------------------------------
(***************************************************************************)
(* net/ip: datagrams between two DiMMon processes.  The send nodes of the  *)
(* other process write each block as one datagram to the address they are  *)
(* connected to.  The recv nodes of this one each own a bound socket, are  *)
(* subscribed to it (DmmSockevent), read one datagram at a time and send   *)
(* it on as a block.  Lua scripts have sockets of their own beside them.   *)
(*                                                                         *)
(* Between the two is the network: a datagram arrives late, twice, after a *)
(* later one, or never.                                                    *)
(***************************************************************************)
EXTENDS DmmSockevent

CONSTANTS
  Recv,        \* nodes of type net/ip/recv
  Sender,      \* nodes of type net/ip/send, in the other process
  Addr,        \* addresses
  In,          \* DMM_SOCKEVENT_IN
  MaxArrivals, \* bound on the datagrams that arrive
  NoAddr

ASSUME NetAssumption ==
  /\ Recv \subseteq Node /\ In \in Mask /\ MaxArrivals \in Nat /\ NoAddr \notin Addr

VARIABLES
  sockfd,   \* pvt->fd of recv nodes
  flags,    \* pvt->flags of recv nodes
  outhook,  \* is pvt->outhook set?
  peer,     \* the address a sender is connected to; NoAddr before that
  network,  \* the datagrams that have been sent
  bound,    \* the address of each descriptor
  rcvq,     \* its receive buffer
  arrivals, \* number of datagrams that have arrived
  progress  \* of the recv node that is running: "called", "sending" its block, "done"

recvNodes == <<sockfd, flags, outhook>>
transport == <<peer, network, bound, rcvq, arrivals>>
netVars == <<vars, recvNodes, transport, progress>>

\* The bit of PREPENDADDR and PREPENDTIMESTAMP decides only what a block holds.
Settable == {"NOCHECKDATA"}
Flag == Settable \cup {"HASSOCK", "BOUND"}

\* What recvmsg returns ends with an end node, or was cut to the buffer's length.
Datagram == [from : Sender, to : Addr, whole : BOOLEAN]

NetTypeOK ==
  /\ TypeOK
  /\ sockfd \in [Recv -> Fd \cup {NoFd}] /\ flags \in [Recv -> SUBSET Flag]
  /\ outhook \in [Recv -> BOOLEAN]
  /\ peer \in [Sender -> Addr \cup {NoAddr}] /\ network \subseteq Datagram
  /\ bound \in [Fd -> Addr \cup {NoAddr}] /\ rcvq \in [Fd -> Seq(Datagram)]
  /\ arrivals \in 0..MaxArrivals /\ progress \in {"called", "sending", "done"}

\* Commands come between handlers, or from the nodes that a block is sent to.
CommandsCome == running \in Recv => progress = "sending"
-----------------------------------------------------------------------------
(* The nodes of type net/ip/send.                                          *)

\* NETIPSEND_CREATESOCK and _CONNECT.
ConnectTo(s, a) ==
  /\ peer[s] # a /\ peer' = [peer EXCEPT ![s] = a]
  /\ UNCHANGED <<vars, recvNodes, network, bound, rcvq, arrivals, progress>>

\* send_rcvdata: not before CONNECT.
SendData(s, whole) ==
  /\ peer[s] # NoAddr
  /\ network' = network \cup {[from |-> s, to |-> peer[s], whole |-> whole]}
  /\ network' # network
  /\ UNCHANGED <<vars, recvNodes, peer, bound, rcvq, arrivals, progress>>

\* The network delivers any datagram any number of times, in any order.
Arrive(m, fd) ==
  /\ m \in network /\ bound[fd] = m.to /\ arrivals < MaxArrivals
  /\ rcvq' = [rcvq EXCEPT ![fd] = Append(@, m)] /\ arrivals' = arrivals + 1
  /\ UNCHANGED <<vars, recvNodes, peer, network, bound, progress>>
-----------------------------------------------------------------------------
(* The nodes of type net/ip/recv.                                          *)

\* NETIPRECV_CREATESOCK: EEXIST if there is a socket.
CreateSock(r, fd) ==
  /\ CommandsCome /\ nd_state[r] = "valid" /\ sockfd[r] = NoFd
  /\ Open(fd)
  /\ sockfd' = [sockfd EXCEPT ![r] = fd]
  /\ flags' = [flags EXCEPT ![r] = @ \cup {"HASSOCK"}]
  /\ UNCHANGED <<outhook, transport, progress>>

\* A variant of process_bind_msg that subscribes the node to write events.
BindMaskOther == CHOOSE mask \in Mask : mask # In
BindMask == In

\* NETIPRECV_BIND: the node then sends SOCKEVENTSUBSCRIBE to itself.
Bind(r, a, e) ==
  /\ CommandsCome /\ sockfd[r] # NoFd /\ bound[sockfd[r]] = NoAddr
  /\ SubscribeNew(sockfd[r], BindMask, r, e)
  /\ bound' = [bound EXCEPT ![sockfd[r]] = a]
  /\ flags' = [flags EXCEPT ![r] = @ \cup {"BOUND"}]
  /\ UNCHANGED <<sockfd, outhook, peer, network, rcvq, arrivals, progress>>

\* A variant of NETIPRECV_SETFLAGS that forgets the auxiliary flags.
FlagsReplaced(old, new) == new

\* "Auxiliary flags should be kept".
FlagsSet(old, new) == (old \ Settable) \cup new

\* NETIPRECV_SETFLAGS.
SetFlags(r, new) ==
  /\ InHandler /\ CommandsCome /\ nd_state[r] = "valid"
  /\ flags' = [flags EXCEPT ![r] = FlagsSet(@, new)]
  /\ UNCHANGED <<vars, sockfd, outhook, transport, progress>>

\* recv_newhook, EEXIST if there is one, and recv_rmhook.
Connect(r) ==
  /\ InHandler /\ CommandsCome /\ nd_state[r] = "valid"
  /\ outhook' = [outhook EXCEPT ![r] = ~@]
  /\ UNCHANGED <<vars, sockfd, flags, transport, progress>>

\* NODERM: the hooks go at once.  recv_dtor frees the private data only: the
\* socket stays open and bound.
Remove(n) ==
  /\ CommandsCome /\ NodeRm(n)
  /\ outhook' = [r \in Recv |-> IF r = n THEN FALSE ELSE outhook[r]]
  /\ UNCHANGED <<sockfd, flags, transport, progress>>

\* "if ((pvt->flags & DMM_NETIPRECV_NOCHECKDATA) || !check_data_valid(..))":
\* either way the datagram is dropped.
Passes(r, m) == "NOCHECKDATA" \notin flags[r] /\ m.whole /\ outhook[r]

\* SOCKEVENTTRIGGER: process_socket_event, for the node's own descriptor if it
\* can be read; a block is sent on before the handler returns.
Read(r) ==
  LET fd   == sockfd[r]
      mine == se_fd[sending] = fd /\ waits[fd] = In
  IN  /\ running = r /\ progress = "called"
      /\ IF mine /\ rcvq[fd] # <<>>
         THEN /\ rcvq' = [rcvq EXCEPT ![fd] = Tail(@)]
              /\ progress' = IF Passes(r, Head(rcvq[fd])) THEN "sending" ELSE "done"
         ELSE progress' = "done" /\ UNCHANGED rcvq
      /\ UNCHANGED <<vars, recvNodes, peer, network, bound, arrivals>>

Return ==
  /\ Returns /\ (running \in Recv => progress # "called") /\ progress' = "called"
  /\ UNCHANGED <<recvNodes, transport>>
-----------------------------------------------------------------------------
(* The rest of the process.                                                *)

\* Scripts keep to their own descriptors.
OfRecv(fd) == \E r \in Recv : sockfd[r] = fd

Script(fd) ==
  /\ CommandsCome /\ ~OfRecv(fd)
  /\ \/ Open(fd) \/ Close(fd)
     \/ \E n \in Node :
          \/ Unsubscribe(fd, n)
          \/ \E mask \in Mask :
               \/ SubscribeExisting(fd, mask, n)
               \/ \E e \in Event : SubscribeNew(fd, mask, n, e)
  /\ UNCHANGED <<recvNodes, transport, progress>>

\* epoll_wait reports a socket of a recv node when it has something to read, if
\* that is waited for, and those of scripts now and then.
Ready(fd) == OfRecv(fd) /\ waits[fd] = In => rcvq[fd] # <<>>

Epoll(fd) == Ready(fd) /\ Process(fd) /\ UNCHANGED <<recvNodes, transport, progress>>

Sending == (Send \/ ProcessEnd) /\ UNCHANGED <<recvNodes, transport, progress>>
-----------------------------------------------------------------------------
NetInit ==
  /\ Init
  /\ sockfd = [r \in Recv |-> NoFd] /\ flags = [r \in Recv |-> {}]
  /\ outhook = [r \in Recv |-> FALSE]
  /\ peer = [s \in Sender |-> NoAddr] /\ network = {}
  /\ bound = [fd \in Fd |-> NoAddr] /\ rcvq = [fd \in Fd |-> <<>>] /\ arrivals = 0
  /\ progress = "called"

Elsewhere ==
  \/ \E s \in Sender, a \in Addr : ConnectTo(s, a)
  \/ \E s \in Sender, whole \in BOOLEAN : SendData(s, whole)
  \/ \E m \in network, fd \in Fd : Arrive(m, fd)

Commands ==
  \/ \E n \in Node : Remove(n)
  \/ \E fd \in Fd : Script(fd)
  \/ \E r \in Recv :
       \/ Connect(r)
       \/ \E new \in SUBSET Settable : SetFlags(r, new)
       \/ \E fd \in Fd : CreateSock(r, fd)
       \/ \E a \in Addr, e \in Event : Bind(r, a, e)

MainLoop ==
  \/ Sending \/ Return
  \/ \E r \in Recv : Read(r)

NetNext == Elsewhere \/ Commands \/ MainLoop \/ \E fd \in Fd : Epoll(fd)

\* The main loop goes on, and epoll_wait returns every descriptor that stays
\* ready.
NetSpec ==
  NetInit /\ [][NetNext]_netVars /\ WF_netVars(MainLoop)
  /\ \A fd \in Fd : SF_netVars(Epoll(fd))
-----------------------------------------------------------------------------
\* HASSOCK and BOUND, which GETFLAGS returns, tell the truth about the node's
\* socket: there is one, open and its own, and it has an address.
SocketFlags ==
  \A r \in Recv :
    /\ "HASSOCK" \in flags[r] <=> sockfd[r] # NoFd
    /\ "BOUND" \in flags[r] <=> sockfd[r] # NoFd /\ bound[sockfd[r]] # NoAddr
    /\ sockfd[r] # NoFd =>
         /\ sockfd[r] \in open
         /\ \A q \in Recv \ {r} : sockfd[q] # sockfd[r]

\* The same through whatever SETFLAGS, scripts and removals; and a node that is
\* bound is subscribed to its socket, alone, for reading.
FlagsTell ==
  /\ SocketFlags
  /\ \A r \in Recv : "BOUND" \in flags[r] /\ nd_state[r] = "valid" =>
       LET e == epoll[sockfd[r]]
       IN  e # NoEvent /\ waits[sockfd[r]] = In /\ ev_nodes[e] = <<r>>

\* What has arrived for a node is read, unless the node is removed.
Arrived(r) == nd_state[r] = "valid" /\ sockfd[r] # NoFd /\ rcvq[sockfd[r]] # <<>>
HeardOrGone == \A r \in Recv : Arrived(r) ~> ~Arrived(r)
=============================================================================
