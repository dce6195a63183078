------------------------- MODULE EpollServerProofs -------------------------
(***************************************************************************)
(* Proofs about EpollServer, for any number of connections, descriptors    *)
(* and units of a request, of clients that send one request each.          *)
(*                                                                         *)
(* The invariant follows a connection through its descriptor: descriptors  *)
(* stand for different open connections, a recipient's descriptor stands   *)
(* for the connection that asked, and that connection's request has been   *)
(* read, once, and not been answered.                                      *)
(***************************************************************************)
EXTENDS EpollServer, WellFoundedInduction, TLAPS

\* A client sends one request on a connection, as those of the repository do.
OneRequest == Requests = 1

\* accept takes a free descriptor, if there is one.
LEMMA LowestFree ==
    ASSUME NEW S \in SUBSET Nat, S # {}
    PROVE  Min(S) \in S
<1> DEFINE R == OpToRel(<, Nat)
<1>1. IsWellFoundedOn(R, Nat) /\ \A x, y \in Nat : y < x => <<y, x>> \in R
  BY NatLessThanWellFounded DEF OpToRel
<1> HIDE DEF R
<1>2. PICK x \in S : \A y \in S : ~(<<y, x>> \in R)
  BY <1>1, WFMin
<1>3. \A y \in S : x <= y
  <2> TAKE y \in S
  <2>1. x \in Nat /\ y \in Nat /\ ~(y < x)
    BY <1>1, <1>2
  <2> QED
    BY <2>1
<1> QED
  BY <1>3 DEF Min

\* recv returns no more than was asked for and is there.
LEMMA SmallerOfTwo ==
    ASSUME NEW a \in Int, NEW b \in Int
    PROVE  /\ Min({a, b}) \in {a, b}
           /\ Min({a, b}) <= a /\ Min({a, b}) <= b
<1>1. \E x \in {a, b} : \A y \in {a, b} : x <= y
  OBVIOUS
<1> QED
  BY <1>1 DEF Min
-----------------------------------------------------------------------------
(* The invariant.                                                           *)

Recipients == [conn : Conns, req : Nat, fd : Fds]

Connections ==
    [state : {"new", "backlog", "open", "closed"}, sent : Nat, read : Nat,
     end : {"open", "fin", "reset"}, got : Seq(Recipients)]

Typed ==
    /\ conn \in [Conns -> Connections]
    /\ fds \in [Fds -> Conns \cup {None}]
    /\ watched \subseteq Fds
    /\ \A e \in batch : e = Listener \/ e.fd \in Fds
    /\ jobs \subseteq Recipients /\ replied \subseteq Recipients

\* Descriptors stand for open connections, and for different ones.
FdsOpen ==
    /\ \A f \in Fds : fds[f] # None => conn[fds[f]].state = "open"
    /\ \A f, g \in Fds : fds[f] = fds[g] /\ fds[f] # None => f = g

\* No more is read than was sent, and no more is sent than one request.
Counted(c) == conn[c].read <= conn[c].sent /\ conn[c].sent <= ReqSize

\* A recipient is of the connection behind its descriptor, whose request has
\* been read.
Asked(r) == fds[r.fd] = r.conn /\ r.req = 0 /\ conn[r.conn].read = ReqSize

\* A connection that has been sent a reply has no request waiting.
Replied(c) ==
    \/ conn[c].got = <<>>
    \/ /\ \E r \in Recipients : r.conn = c /\ conn[c].got = <<r>>
       /\ conn[c].read = ReqSize
       /\ \A r \in jobs : r.conn # c

Inv ==
    /\ Typed /\ FdsOpen
    /\ \A c \in Conns : Counted(c) /\ Replied(c)
    /\ \A r \in jobs \cup replied : Asked(r)
    /\ jobs \cap replied = {}

\* Nothing is connected at the start.
LEMMA InitInv == Init => Inv
<1> SUFFICES ASSUME Init PROVE Inv
  OBVIOUS
<1>1. Typed
  BY DEF Init, Typed, Connections
<1>2. FdsOpen /\ \A c \in Conns : Counted(c) /\ Replied(c)
  BY ServerAssumption DEF Init, FdsOpen, Counted, Replied
<1> QED
  BY <1>1, <1>2 DEF Init, Inv

\* What clients do, and an accept that fails, keeps the invariant: a client that
\* leaves does not free its descriptor, and a reset only discards input.
LEMMA ClientsKeepInv ==
    ASSUME OneRequest, Inv, NEW c \in Conns,
           \/ Connect(c)
           \/ \E n \in Pieces : Arrive(c, n)
           \/ \E how \in {"fin", "reset"} : Leave(c, how)
    PROVE  Inv'
<1> USE DEF Inv, Typed
<1>1. /\ UNCHANGED <<fds, watched, batch, jobs, replied>>
      /\ conn[c] \in Connections /\ ReqSize \in Nat \ {0}
  BY ServerAssumption DEF Connect, Arrive, Leave
<1>2. /\ conn' \in [Conns -> Connections]
      /\ \A d \in Conns : d # c => conn'[d] = conn[d]
      /\ conn'[c].got = conn[c].got
      /\ conn'[c].state = conn[c].state \/ conn[c].state = "new"
      /\ conn'[c].read <= conn'[c].sent /\ conn'[c].sent <= ReqSize
      /\ conn'[c].read = conn[c].read
         \/ conn'[c].read = conn[c].sent
  <2>1. Counted(c)
    OBVIOUS
  <2>2. CASE Connect(c)
    BY <1>1, <2>1, <2>2 DEF Connect, Counted, Connections
  <2>3. CASE \E n \in Pieces : Arrive(c, n)
    <3> PICK n \in Pieces : Arrive(c, n)
      BY <2>3
    <3>1. n \in Nat /\ conn[c].sent + n <= ReqSize
      <4>1. n \in 1 .. ReqSize /\ ReqSize * Requests = ReqSize
        BY <1>1, ServerAssumption DEF OneRequest
      <4>2. conn[c].sent + n <= ReqSize * Requests
        BY DEF Arrive
      <4> QED
        BY <1>1, <4>1, <4>2
    <3> DEFINE total == conn[c].sent + n
    <3>2. total \in Nat
      BY <1>1, <3>1 DEF Connections
    <3>3. conn' = [conn EXCEPT ![c] = [conn[c] EXCEPT !.sent = total]]
      BY DEF Arrive
    <3> HIDE DEF total
    <3>4. /\ [conn[c] EXCEPT !.sent = total] \in Connections
          /\ conn'[c].got = conn[c].got /\ conn'[c].state = conn[c].state
          /\ conn'[c].sent = total /\ conn'[c].read = conn[c].read
      BY <1>1, <3>2, <3>3 DEF Connections
    <3>5. conn'[c].read <= conn'[c].sent /\ conn'[c].sent <= ReqSize
      BY <1>1, <2>1, <3>1, <3>4 DEF total, Counted, Connections
    <3> QED
      BY <3>3, <3>4, <3>5
  <2>4. CASE \E how \in {"fin", "reset"} : Leave(c, how)
    <3> PICK how \in {"fin", "reset"} : Leave(c, how)
      BY <2>4
    <3> DEFINE left == IF how = "reset" THEN conn[c].sent ELSE conn[c].read
    <3>1. conn' = [conn EXCEPT ![c] = [conn[c] EXCEPT !.end = how, !.read = left]]
      BY DEF Leave
    <3>2. [conn[c] EXCEPT !.end = how, !.read = left] \in Connections
      BY <1>1 DEF Connections
    <3>3. /\ conn'[c].got = conn[c].got /\ conn'[c].state = conn[c].state
          /\ conn'[c].sent = conn[c].sent /\ conn'[c].read = left
      BY <1>1, <3>1 DEF Connections
    <3>4. conn'[c].read <= conn'[c].sent /\ conn'[c].sent <= ReqSize
      BY <1>1, <2>1, <3>3 DEF Counted, Connections
    <3> QED
      BY <3>1, <3>2, <3>3, <3>4
  <2> QED
    BY <2>2, <2>3, <2>4
<1>3. Typed'
  BY <1>1, <1>2
<1>4. FdsOpen'
  BY <1>1, <1>2 DEF FdsOpen
<1>5. \A d \in Conns : Counted(d)'
  BY <1>2 DEF Counted
<1>6. conn[c].read = ReqSize => conn'[c].read = ReqSize
  BY <1>1, <1>2 DEF Counted, Connections
<1>7. \A d \in Conns : Replied(d)'
  BY <1>1, <1>2, <1>6 DEF Replied
<1>8. \A r \in jobs' \cup replied' : Asked(r)'
  BY <1>1, <1>2, <1>6 DEF Asked, Recipients
<1> QED
  BY <1>1, <1>3, <1>4, <1>5, <1>7, <1>8

\* Waiting, signals, a failing accept and the exit change no connection that a
\* recipient belongs to.
LEMMA QuietKeepsInv ==
    ASSUME Inv, Test \/ EnterWait \/ WaitReturns \/ Signal \/ AcceptFails \/ Exit
    PROVE  Inv'
<1> USE DEF Inv, Typed
<1>1. CASE Test \/ EnterWait \/ Signal
  BY <1>1 DEF Test, EnterWait, Signal, FdsOpen, Counted, Replied, Asked
<1>2. CASE WaitReturns
  <2>1. \A e \in Ready : e = Listener \/ e.fd \in Fds
    BY DEF Ready, ClientEvent
  <2> QED
    BY <1>2, <2>1 DEF WaitReturns, FdsOpen, Counted, Replied, Asked
<1>3. CASE AcceptFails
  <2> PICK c \in Backlog : conn' = [conn EXCEPT ![c].state = "closed"]
    BY <1>3 DEF AcceptFails
  <2>1. /\ c \in Conns /\ conn[c].state = "backlog" /\ conn[c] \in Connections
        /\ UNCHANGED <<fds, watched, jobs, replied>> /\ batch' \subseteq batch
    BY <1>3 DEF AcceptFails, Done, Backlog
  <2>2. /\ conn' \in [Conns -> Connections]
        /\ \A d \in Conns : d # c => conn'[d] = conn[d]
        /\ conn'[c].read = conn[c].read /\ conn'[c].sent = conn[c].sent
        /\ conn'[c].got = conn[c].got
    BY <2>1 DEF Connections
  <2>3. Typed'
    BY <2>1, <2>2
  <2>4. FdsOpen'
    BY <2>1, <2>2 DEF FdsOpen
  <2>5. \A d \in Conns : Counted(d)' /\ Replied(d)'
    BY <2>1, <2>2 DEF Counted, Replied
  <2>6. \A r \in jobs' \cup replied' : Asked(r)'
    BY <2>1, <2>2 DEF Asked, Recipients
  <2> QED
    BY <2>1, <2>3, <2>4, <2>5, <2>6
<1>4. CASE Exit
  <2>1. /\ replied' = {} /\ jobs' = {} /\ watched' = {} /\ batch' = {}
        /\ fds' = [fd \in Fds |-> None]
    BY <1>4 DEF Exit
  <2>2. /\ conn' \in [Conns -> Connections]
        /\ \A d \in Conns : /\ conn'[d].read = conn[d].read /\ conn'[d].sent = conn[d].sent
                            /\ conn'[d].got = conn[d].got
    <3>1. conn' = [d \in Conns |-> IF conn[d].state = "new" THEN conn[d]
                                   ELSE [conn[d] EXCEPT !.state = "closed"]]
      BY <1>4 DEF Exit
    <3>2. ASSUME NEW d \in Conns
          PROVE  /\ conn'[d] \in Connections
                 /\ conn'[d].read = conn[d].read /\ conn'[d].sent = conn[d].sent
                 /\ conn'[d].got = conn[d].got
      <4>1. conn[d] \in Connections
        OBVIOUS
      <4>2. conn'[d] = conn[d] \/ conn'[d] = [conn[d] EXCEPT !.state = "closed"]
        BY <3>1
      <4> QED
        BY <4>1, <4>2 DEF Connections
    <3> QED
      BY <3>1, <3>2
  <2>3. \A d \in Conns : Counted(d)' /\ Replied(d)'
    BY <2>1, <2>2 DEF Counted, Replied
  <2> QED
    BY <2>1, <2>2, <2>3 DEF FdsOpen
<1> QED
  BY <1>1, <1>2, <1>3, <1>4

\* A descriptor that is accepted was free, so that it is in no recipient.
LEMMA AcceptKeepsInv ==
    ASSUME Inv, Accept
    PROVE  Inv'
<1> USE DEF Inv, Typed
<1>1. UNCHANGED <<jobs, replied>> /\ batch' \subseteq batch
  BY DEF Accept, Done
<1>2. CASE UNCHANGED <<conn, fds, watched>>
  BY <1>1, <1>2 DEF FdsOpen, Counted, Replied, Asked
<1>3. CASE ~ UNCHANGED <<conn, fds, watched>>
  <2>1. FreeFds # {}
    BY <1>3 DEF Accept
  <2> DEFINE fd == Min(FreeFds)
  <2>2. fd \in Fds /\ fds[fd] = None
    <3>1. FreeFds \in SUBSET Nat
      BY ServerAssumption DEF FreeFds
    <3>2. fd \in FreeFds
      BY <2>1, <3>1, LowestFree
    <3> QED
      BY <3>2 DEF FreeFds
  <2>3. PICK c \in Backlog : /\ conn' = [conn EXCEPT ![c].state = "open"]
                             /\ fds' = [fds EXCEPT ![fd] = c]
                             /\ watched' = watched \cup {fd}
    BY <1>3 DEF Accept
  <2> HIDE DEF fd
  <2>4. c \in Conns /\ conn[c].state = "backlog" /\ conn[c] \in Connections /\ c # None
    BY ServerAssumption DEF Backlog
  <2>5. /\ conn' \in [Conns -> Connections]
        /\ \A d \in Conns : d # c => conn'[d] = conn[d]
        /\ conn'[c].read = conn[c].read /\ conn'[c].sent = conn[c].sent
        /\ conn'[c].got = conn[c].got /\ conn'[c].state = "open"
    BY <2>3, <2>4 DEF Connections
  <2>6. Typed'
    BY <1>1, <2>2, <2>3, <2>4, <2>5
  <2>7. FdsOpen'
    <3>1. \A f \in Fds : fds[f] # c
      BY <2>4 DEF FdsOpen
    <3> QED
      BY <2>2, <2>3, <2>4, <2>5, <3>1 DEF FdsOpen
  <2>8. \A d \in Conns : Counted(d)' /\ Replied(d)'
    BY <1>1, <2>5 DEF Counted, Replied
  <2>9. \A r \in jobs' \cup replied' : Asked(r)'
    <3> TAKE r \in jobs' \cup replied'
    <3>1. /\ r \in jobs \cup replied /\ Asked(r)
          /\ r.conn \in Conns /\ r.conn # None /\ r.fd \in Fds
      BY <1>1, ServerAssumption DEF Recipients
    <3>2. r.fd # fd
      BY <2>2, <3>1 DEF Asked
    <3> QED
      BY <2>3, <2>5, <3>1, <3>2 DEF Asked
  <2> QED
    BY <1>1, <2>6, <2>7, <2>8, <2>9
<1> QED
  BY <1>2, <1>3

\* What recv returns is there, and comes from a connection.
LEMMA ReceivedIsThere ==
    ASSUME Inv, NEW event \in batch, event # Listener, fds[event.fd] # None
    PROVE  /\ event.fd \in Fds /\ fds[event.fd] \in Conns
           /\ Received(event) \in Nat /\ Received(event) <= ReqSize
           /\ conn[fds[event.fd]].read + Received(event) <= conn[fds[event.fd]].sent
<1> DEFINE c == fds[event.fd]
<1>1. event.fd \in Fds /\ c \in Conns /\ conn[c] \in Connections /\ ReqSize \in Nat
  BY ServerAssumption DEF Inv, Typed
<1>2. Available(c) \in Nat /\ Available(c) = conn[c].sent - conn[c].read
  BY <1>1 DEF Inv, Counted, Connections, Available
<1>3. /\ Received(event) \in {ReqSize, Available(c)}
      /\ Received(event) <= ReqSize /\ Received(event) <= Available(c)
  BY <1>1, <1>2, SmallerOfTwo DEF Received
<1>4. conn[c].read \in Nat /\ conn[c].sent \in Nat
  BY <1>1 DEF Connections
<1> HIDE DEF c
<1>5. Received(event) \in Nat /\ conn[c].read + Received(event) <= conn[c].sent
  BY <1>1, <1>2, <1>3, <1>4
<1> QED
  BY <1>1, <1>3, <1>5 DEF c

\* A whole request is received only from a connection that was not read from
\* before; it has no recipient and no reply.
LEMMA WholeReceived ==
    ASSUME Inv, NEW event \in batch, event # Listener, Received(event) = ReqSize
    PROVE  LET c == fds[event.fd]
           IN  /\ event.fd \in Fds /\ c \in Conns /\ c # None
               /\ conn[c].read = 0 /\ conn[c].sent = ReqSize /\ conn[c].got = <<>>
               /\ \A r \in jobs \cup replied : r.conn # c /\ r.fd # event.fd
<1> DEFINE c == fds[event.fd]
<1>1. ReqSize \in Nat \ {0}
  BY ServerAssumption
<1>2. c # None
  BY <1>1 DEF Received
<1>3. event.fd \in Fds /\ c \in Conns /\ conn[c].read + ReqSize <= conn[c].sent
  BY <1>2, ReceivedIsThere
<1>4. conn[c].read \in Nat /\ conn[c].sent \in Nat /\ conn[c].sent <= ReqSize
  BY <1>3 DEF Inv, Typed, Counted, Connections
<1>5. conn[c].read = 0 /\ conn[c].sent = ReqSize
  BY <1>1, <1>3, <1>4
<1>6. conn[c].got = <<>>
  BY <1>1, <1>3, <1>5 DEF Inv, Replied
<1>7. \A r \in jobs \cup replied : r.conn # c /\ r.fd # event.fd
  BY <1>1, <1>5 DEF Inv, Asked
<1> QED
  BY <1>2, <1>3, <1>5, <1>6, <1>7

\* An event without a whole request moves only what was read, and of a
\* connection that has a recipient everything was read before.
LEMMA DismissKeepsInv ==
    ASSUME Inv, NEW event \in batch, Dismiss(event)
    PROVE  Inv'
<1> USE DEF Inv, Typed
<1>1. /\ UNCHANGED <<fds, jobs, replied>> /\ batch' \subseteq batch
      /\ watched' \subseteq watched
  BY DEF Dismiss, Done
<1>2. CASE conn' = conn
  BY <1>1, <1>2 DEF FdsOpen, Counted, Replied, Asked
<1>3. CASE conn' # conn
  <2> DEFINE c == fds[event.fd]
  <2> DEFINE n == Received(event)
  <2>1. /\ event # Listener /\ c # None /\ n # ReqSize
        /\ conn' = [conn EXCEPT ![c].read = conn[c].read + n]
    BY <1>3 DEF Dismiss, Read
  <2>2. /\ c \in Conns /\ n \in Nat /\ n <= ReqSize
        /\ conn[c].read + n <= conn[c].sent
    BY <2>1, ReceivedIsThere
  <2>3. conn[c] \in Connections /\ conn[c].sent <= ReqSize /\ ReqSize \in Nat
    BY <2>2, ServerAssumption DEF Counted
  <2> DEFINE total == conn[c].read + n
  <2>4. total \in Nat /\ total <= conn[c].sent /\ (conn[c].read = ReqSize => total = ReqSize)
    BY <2>2, <2>3 DEF Connections
  <2> HIDE DEF total, c, n
  <2>5. conn' = [conn EXCEPT ![c] = [conn[c] EXCEPT !.read = total]]
    BY <2>1 DEF total
  <2>6. /\ [conn[c] EXCEPT !.read = total] \in Connections
        /\ conn'[c].got = conn[c].got /\ conn'[c].state = conn[c].state
        /\ conn'[c].sent = conn[c].sent /\ conn'[c].read = total
        /\ conn' \in [Conns -> Connections]
        /\ \A d \in Conns : d # c => conn'[d] = conn[d]
    BY <2>2, <2>3, <2>4, <2>5 DEF Connections
  <2>7. Typed' /\ FdsOpen'
    BY <1>1, <2>2, <2>6 DEF FdsOpen
  <2>8. \A d \in Conns : Counted(d)' /\ Replied(d)'
    BY <1>1, <2>3, <2>4, <2>6 DEF Counted, Replied
  <2>9. \A r \in jobs' \cup replied' : Asked(r)'
    BY <1>1, <2>4, <2>6 DEF Asked, Recipients
  <2> QED
    BY <1>1, <2>7, <2>8, <2>9
<1> QED
  BY <1>2, <1>3

\* A request that goes to the workers is the first and only one of its connection.
LEMMA MissKeepsInv ==
    ASSUME Inv, NEW event \in batch, ConsumeMiss(event)
    PROVE  Inv'
<1> USE DEF Inv, Typed
<1> DEFINE c == fds[event.fd]
<1> DEFINE a == Recipient(c, conn[c].read, event.fd)
<1>1. /\ UNCHANGED <<fds, watched, replied>> /\ batch' \subseteq batch
      /\ event # Listener /\ Received(event) = ReqSize
      /\ conn' = [conn EXCEPT ![c].read = conn[c].read + ReqSize]
      /\ jobs' = jobs \cup {a}
  BY DEF ConsumeMiss, Done, Read
<1>2. /\ event.fd \in Fds /\ c \in Conns /\ c # None
      /\ conn[c].read = 0 /\ conn[c].sent = ReqSize /\ conn[c].got = <<>>
      /\ \A r \in jobs \cup replied : r.conn # c /\ r.fd # event.fd
  BY <1>1, WholeReceived
<1>3. conn[c] \in Connections /\ ReqSize \in Nat /\ conn[c].read + ReqSize = ReqSize
  BY <1>2, ServerAssumption
<1>4. a \in Recipients /\ a.conn = c /\ a.req = 0 /\ a.fd = event.fd
  BY <1>2 DEF Recipient, Recipients
<1> HIDE DEF a, c
<1>5. conn' = [conn EXCEPT ![c] = [conn[c] EXCEPT !.read = ReqSize]]
  BY <1>1, <1>3
<1>6. /\ [conn[c] EXCEPT !.read = ReqSize] \in Connections
      /\ conn'[c].got = conn[c].got /\ conn'[c].state = conn[c].state
      /\ conn'[c].sent = conn[c].sent /\ conn'[c].read = ReqSize
      /\ conn' \in [Conns -> Connections]
      /\ \A d \in Conns : d # c => conn'[d] = conn[d]
  BY <1>2, <1>3, <1>5 DEF Connections
<1>7. Typed' /\ FdsOpen'
  BY <1>1, <1>2, <1>4, <1>6 DEF FdsOpen
<1>8. \A d \in Conns : Counted(d)'
  BY <1>2, <1>3, <1>6 DEF Counted
<1>9. \A d \in Conns : Replied(d)'
  BY <1>1, <1>2, <1>4, <1>6 DEF Replied
<1>10. \A r \in jobs' \cup replied' : Asked(r)'
  <2> TAKE r \in jobs' \cup replied'
  <2>1. CASE r = a
    BY <1>1, <1>4, <1>6, <2>1 DEF Asked, c
  <2>2. CASE r \in jobs \cup replied
    BY <1>1, <1>2, <1>6, <2>2 DEF Asked, Recipients
  <2> QED
    BY <1>1, <2>1, <2>2
<1>11. a \notin replied
  BY <1>2, <1>4
<1> QED
  BY <1>1, <1>7, <1>8, <1>9, <1>10, <1>11

\* Sending for a recipient gives its connection at most that one reply.
LEMMA SendEffect ==
    ASSUME NEW state \in [Conns -> Connections], NEW r \in Recipients, NEW c \in Conns,
           fds[r.fd] = c, c # None, state[c].got = <<>>
    PROVE  /\ Send(state, r) \in [Conns -> Connections]
           /\ \A d \in Conns : d # c => Send(state, r)[d] = state[d]
           /\ Send(state, r)[c].state = state[c].state
           /\ Send(state, r)[c].sent = state[c].sent
           /\ Send(state, r)[c].read = state[c].read
           /\ Send(state, r)[c].end = state[c].end
           /\ Send(state, r)[c].got \in {<<>>, <<r>>}
           /\ Send(state, r)[c].got = <<r>> \/ state[c].end # "open"
<1>1. CASE state[c].end # "open"
  <2>1. Send(state, r) = state
    BY <1>1 DEF Send
  <2> QED
    BY <1>1, <2>1
<1>2. CASE state[c].end = "open"
  <2>1. Append(state[c].got, r) = <<r>> /\ <<r>> \in Seq(Recipients)
    OBVIOUS
  <2> DEFINE after == [state[c] EXCEPT !.got = <<r>>]
  <2>2. Send(state, r) = [state EXCEPT ![c] = after]
    BY <1>2, <2>1 DEF Send
  <2>3. state[c] \in Connections
    OBVIOUS
  <2>4. /\ after \in Connections /\ after.state = state[c].state
        /\ after.sent = state[c].sent /\ after.read = state[c].read
        /\ after.end = state[c].end /\ after.got = <<r>>
    BY <2>1, <2>3 DEF Connections
  <2> HIDE DEF after
  <2> QED
    BY <2>2, <2>4
<1> QED
  BY <1>1, <1>2

\* Closing a descriptor closes the connection behind it and no other.
LEMMA CloseEffect ==
    ASSUME NEW state \in [Conns -> Connections], NEW fd \in Fds, NEW c \in Conns,
           fds[fd] = c, c # None
    PROVE  /\ Close(state, fd) \in [Conns -> Connections]
           /\ \A d \in Conns : d # c => Close(state, fd)[d] = state[d]
           /\ Close(state, fd)[c].sent = state[c].sent
           /\ Close(state, fd)[c].read = state[c].read
           /\ Close(state, fd)[c].got = state[c].got
           /\ Close(state, fd)[c].end = state[c].end
<1> DEFINE after == [state[c] EXCEPT !.state = "closed"]
<1>1. Close(state, fd) = [state EXCEPT ![c] = after]
  BY DEF Close
<1>2. state[c] \in Connections
  OBVIOUS
<1>3. /\ after \in Connections /\ after.sent = state[c].sent
      /\ after.read = state[c].read /\ after.got = state[c].got
      /\ after.end = state[c].end
  BY <1>2 DEF Connections
<1> HIDE DEF after
<1> QED
  BY <1>1, <1>3

\* A request answered by the cache leaves no recipient behind.
LEMMA HitKeepsInv ==
    ASSUME Inv, NEW event \in batch, ConsumeHit(event)
    PROVE  Inv'
<1> USE DEF Inv, Typed
<1> DEFINE c == fds[event.fd]
<1> DEFINE a == Recipient(c, conn[c].read, event.fd)
<1> DEFINE afterRead == Read(c, ReqSize)
<1> DEFINE afterSend == Send(afterRead, a)
<1>1. /\ UNCHANGED <<jobs, replied>> /\ batch' \subseteq batch
      /\ event # Listener /\ Received(event) = ReqSize
      /\ conn' = Close(afterSend, event.fd)
      /\ fds' = [fds EXCEPT ![event.fd] = None] /\ watched' = watched \ {event.fd}
  BY DEF ConsumeHit, Done, CloseFd
<1>2. /\ event.fd \in Fds /\ c \in Conns /\ c # None
      /\ conn[c].read = 0 /\ conn[c].sent = ReqSize /\ conn[c].got = <<>>
      /\ \A r \in jobs \cup replied : r.conn # c /\ r.fd # event.fd
  BY <1>1, WholeReceived
<1>3. a \in Recipients /\ a.conn = c /\ fds[a.fd] = c
  BY <1>2 DEF Recipient, Recipients
<1>4. /\ afterRead \in [Conns -> Connections]
      /\ \A d \in Conns : d # c => afterRead[d] = conn[d]
      /\ afterRead[c].sent = ReqSize /\ afterRead[c].read = ReqSize
      /\ afterRead[c].got = <<>>
  <2>1. conn[c] \in Connections /\ ReqSize \in Nat /\ conn[c].read + ReqSize = ReqSize
    BY <1>2, ServerAssumption
  <2> DEFINE after == [conn[c] EXCEPT !.read = ReqSize]
  <2>2. afterRead = [conn EXCEPT ![c] = after]
    BY <2>1 DEF Read
  <2>3. /\ after \in Connections /\ after.sent = ReqSize
        /\ after.read = ReqSize /\ after.got = <<>>
    BY <1>2, <2>1 DEF Connections
  <2> HIDE DEF after, afterRead
  <2> QED
    BY <1>2, <2>2, <2>3
<1> HIDE DEF a, afterRead
<1>5. /\ afterSend \in [Conns -> Connections]
      /\ \A d \in Conns : d # c => afterSend[d] = conn[d]
      /\ afterSend[c].sent = ReqSize /\ afterSend[c].read = ReqSize
      /\ afterSend[c].got \in {<<>>, <<a>>}
  BY <1>2, <1>3, <1>4, SendEffect
<1> HIDE DEF afterSend, c
<1>6. fds[event.fd] = c
  BY DEF c
<1>7. /\ conn' \in [Conns -> Connections]
      /\ \A d \in Conns : d # c => conn'[d] = conn[d]
      /\ conn'[c].sent = ReqSize /\ conn'[c].read = ReqSize
      /\ conn'[c].got \in {<<>>, <<a>>}
  BY <1>1, <1>2, <1>5, <1>6, CloseEffect
<1>8. Typed'
  BY <1>1, <1>7
<1>9. FdsOpen'
  BY <1>1, <1>2, <1>6, <1>7 DEF FdsOpen
<1>10. \A d \in Conns : Counted(d)' /\ Replied(d)'
  <2>1. ReqSize \in Nat
    BY ServerAssumption
  <2> QED
    BY <1>1, <1>2, <1>3, <1>7, <2>1 DEF Counted, Replied
<1>11. \A r \in jobs' \cup replied' : Asked(r)'
  BY <1>1, <1>2, <1>7 DEF Asked, Recipients
<1> QED
  BY <1>1, <1>8, <1>9, <1>10, <1>11

\* Two recipients are never of one connection.
LEMMA OneRecipientEach ==
    ASSUME Inv, NEW r \in jobs \cup replied, NEW s \in jobs \cup replied,
           r.conn = s.conn \/ r.fd = s.fd
    PROVE  r = s
<1>1. /\ r \in Recipients /\ s \in Recipients
      /\ Asked(r) /\ Asked(s)
  BY DEF Inv, Typed
<1>2. r.conn # None /\ s.conn # None
  BY <1>1, ServerAssumption DEF Recipients
<1>3. r.conn = s.conn /\ r.fd = s.fd /\ r.req = s.req
  BY <1>1, <1>2 DEF Asked, Inv, FdsOpen, Recipients
<1> QED
  BY <1>1, <1>3 DEF Recipients

\* A worker sends to the connection that asked, which has no reply yet.
LEMMA AnswerKeepsInv ==
    ASSUME Inv, NEW r \in jobs, Answer(r)
    PROVE  Inv'
<1> USE DEF Inv, Typed
<1> DEFINE c == r.conn
<1>1. /\ UNCHANGED <<fds, watched, batch>> /\ conn' = Send(conn, r)
      /\ jobs' = jobs \ {r} /\ replied' = replied \cup {r}
  BY DEF Answer
<1>2. r \in Recipients /\ c \in Conns /\ c # None /\ Asked(r)
  BY ServerAssumption DEF Recipients
<1>3. fds[r.fd] = c /\ conn[c].read = ReqSize /\ conn[c].got = <<>>
  BY <1>2 DEF Asked, Replied
<1>4. /\ conn' \in [Conns -> Connections]
      /\ \A d \in Conns : d # c => conn'[d] = conn[d]
      /\ conn'[c].state = conn[c].state /\ conn'[c].sent = conn[c].sent
      /\ conn'[c].read = conn[c].read /\ conn'[c].got \in {<<>>, <<r>>}
  BY <1>1, <1>2, <1>3, SendEffect
<1>5. \A s \in jobs' : s.conn # c
  BY <1>1, OneRecipientEach
<1>6. Typed' /\ FdsOpen'
  BY <1>1, <1>2, <1>4 DEF FdsOpen
<1>7. \A d \in Conns : Counted(d)' /\ Replied(d)'
  BY <1>1, <1>2, <1>3, <1>4, <1>5 DEF Counted, Replied
<1>8. \A s \in jobs' \cup replied' : Asked(s)'
  BY <1>1, <1>2, <1>4 DEF Asked, Recipients
<1> QED
  BY <1>1, <1>6, <1>7, <1>8

\* A worker closes the descriptor of its recipient, which no other has.
LEMMA CloseKeepsInv ==
    ASSUME Inv, NEW r \in replied, CloseReplied(r)
    PROVE  Inv'
<1> USE DEF Inv, Typed
<1> DEFINE c == r.conn
<1>1. /\ UNCHANGED <<batch, jobs>> /\ conn' = Close(conn, r.fd)
      /\ fds' = [fds EXCEPT ![r.fd] = None] /\ watched' = watched \ {r.fd}
      /\ replied' = replied \ {r}
  BY DEF CloseReplied, CloseFd
<1>2. /\ r \in Recipients /\ c \in Conns /\ c # None /\ r.fd \in Fds /\ fds[r.fd] = c
  BY ServerAssumption DEF Recipients, Asked
<1>3. /\ conn' \in [Conns -> Connections]
      /\ \A d \in Conns : d # c => conn'[d] = conn[d]
      /\ conn'[c].sent = conn[c].sent
      /\ conn'[c].read = conn[c].read /\ conn'[c].got = conn[c].got
  BY <1>1, <1>2, CloseEffect
<1>4. Typed'
  BY <1>1, <1>3
<1>5. FdsOpen'
  BY <1>1, <1>2, <1>3 DEF FdsOpen
<1>6. \A d \in Conns : Counted(d)' /\ Replied(d)'
  BY <1>1, <1>3 DEF Counted, Replied
<1>7. \A s \in jobs' \cup replied' : Asked(s)'
  <2> TAKE s \in jobs' \cup replied'
  <2>1. s \in jobs \cup replied /\ s # r
    BY <1>1
  <2>2. s.fd # r.fd
    BY <2>1, OneRecipientEach
  <2> QED
    BY <1>1, <1>3, <2>1, <2>2 DEF Asked, Recipients
<1> QED
  BY <1>1, <1>4, <1>5, <1>6, <1>7

\* Every action keeps the invariant.
LEMMA StepInv ==
    ASSUME OneRequest
    PROVE  Inv /\ [Next]_vars => Inv'
<1> SUFFICES ASSUME Inv, [Next]_vars PROVE Inv'
  OBVIOUS
<1>1. CASE Main
  BY <1>1, QuietKeepsInv, AcceptKeepsInv, DismissKeepsInv, MissKeepsInv, HitKeepsInv
     DEF Main
<1>2. CASE AcceptFails \/ Signal
  BY <1>2, QuietKeepsInv
<1>3. CASE \E c \in Conns : Worker(c)
  BY <1>3, AnswerKeepsInv, CloseKeepsInv DEF Worker
<1>4. CASE \E c \in Conns : Client(c)
  BY <1>4, ClientsKeepInv DEF Client
<1>5. CASE UNCHANGED vars
  BY <1>5 DEF vars, Inv, Typed, FdsOpen, Counted, Replied, Asked
<1> QED
  BY <1>1, <1>2, <1>3, <1>4, <1>5 DEF Next

-----------------------------------------------------------------------------
(* Which clients are given up.                                              *)

\* A client that has its reply, or has gone.
Served(c) == conn[c].got # <<>> \/ conn[c].end # "open"

\* An event with a hang-up reports input too, and what is about to be closed
\* belongs to a client that has its reply or has gone.
Kept ==
    /\ \A e \in batch : e # Listener /\ e.hup => e.in
    /\ \A r \in replied : Served(r.conn)

\* A request the cache answers leaves its client served, and no other changed.
LEMMA HitServes ==
    ASSUME Inv, NEW event \in batch, ConsumeHit(event), NEW c, c = fds[event.fd]
    PROVE  /\ event.fd \in Fds /\ c \in Conns /\ c # None
           /\ Served(c)'
           /\ \A d \in Conns : d # c => conn'[d] = conn[d]
<1> USE DEF Inv, Typed
<1> DEFINE a == Recipient(c, conn[c].read, event.fd)
<1> DEFINE afterRead == Read(c, ReqSize)
<1> DEFINE afterSend == Send(afterRead, a)
<1>1. /\ event # Listener /\ Received(event) = ReqSize
      /\ conn' = Close(afterSend, event.fd)
  BY DEF ConsumeHit
<1>2. /\ event.fd \in Fds /\ c \in Conns /\ c # None
      /\ conn[c].read = 0 /\ conn[c].got = <<>>
  BY <1>1, WholeReceived
<1>3. a \in Recipients /\ fds[a.fd] = c
  BY <1>2 DEF Recipient, Recipients
<1>4. /\ afterRead \in [Conns -> Connections]
      /\ \A d \in Conns : d # c => afterRead[d] = conn[d]
      /\ afterRead[c].got = <<>>
  <2>1. conn[c] \in Connections /\ ReqSize \in Nat /\ conn[c].read + ReqSize = ReqSize
    BY <1>2, ServerAssumption
  <2> DEFINE after == [conn[c] EXCEPT !.read = ReqSize]
  <2>2. afterRead = [conn EXCEPT ![c] = after]
    BY <2>1 DEF Read
  <2>3. after \in Connections /\ after.got = <<>>
    BY <1>2, <2>1 DEF Connections
  <2> HIDE DEF after, afterRead
  <2> QED
    BY <1>2, <2>2, <2>3
<1> HIDE DEF a, afterRead
<1>5. /\ afterSend \in [Conns -> Connections]
      /\ \A d \in Conns : d # c => afterSend[d] = conn[d]
      /\ afterSend[c].end = afterRead[c].end
      /\ afterSend[c].got = <<a>> \/ afterRead[c].end # "open"
  <2>1. /\ Send(afterRead, a) \in [Conns -> Connections]
        /\ \A d \in Conns : d # c => Send(afterRead, a)[d] = afterRead[d]
        /\ Send(afterRead, a)[c].end = afterRead[c].end
        /\ Send(afterRead, a)[c].got = <<a>> \/ afterRead[c].end # "open"
    BY <1>2, <1>3, <1>4, SendEffect
  <2> QED
    BY <1>4, <2>1
<1> HIDE DEF afterSend
<1>6. /\ \A d \in Conns : d # c => conn'[d] = conn[d]
      /\ conn'[c].got = afterSend[c].got /\ conn'[c].end = afterSend[c].end
  BY <1>1, <1>2, <1>5, CloseEffect
<1>7. Served(c)'
  BY <1>5, <1>6 DEF Served
<1> QED
  BY <1>2, <1>6, <1>7

\* A reply is never taken back, and a client that has gone does not return.
LEMMA ServedStays ==
    ASSUME Inv, [Next]_vars, NEW c \in Conns, Served(c)
    PROVE  Served(c)'
<1> USE DEF Inv, Typed
<1>1. CASE UNCHANGED conn
  BY <1>1 DEF Served
<1>2. ASSUME NEW d \in Conns, Client(d)
      PROVE  Served(c)'
  <2>1. conn[d] \in Connections /\ conn[c] \in Connections
    OBVIOUS
  <2>2. CASE Connect(d)
    BY <2>1, <2>2 DEF Connect, Served, Connections
  <2>3. CASE \E m \in Pieces : Arrive(d, m)
    BY <2>1, <2>3 DEF Arrive, Served, Connections
  <2>4. CASE \E how \in {"fin", "reset"} : Leave(d, how)
    BY <2>1, <2>4 DEF Leave, Served, Connections
  <2> QED
    BY <1>2, <2>2, <2>3, <2>4 DEF Client
<1>3. ASSUME NEW d \in Conns, NEW s \in {"open", "closed"},
             conn' = [conn EXCEPT ![d].state = s]
      PROVE  Served(c)'
  <2>1. conn[d] \in Connections /\ conn[c] \in Connections
    OBVIOUS
  <2> QED
    BY <1>3, <2>1 DEF Served, Connections
<1>4. CASE Accept \/ AcceptFails
  BY <1>1, <1>3, <1>4 DEF Accept, AcceptFails, Backlog
<1>5. ASSUME NEW d \in Conns, NEW m, conn' = Read(d, m)
      PROVE  Served(c)'
  <2>1. conn[d] \in Connections /\ conn[c] \in Connections
    OBVIOUS
  <2> QED
    BY <1>5, <2>1 DEF Served, Read, Connections
<1>6. ASSUME NEW event \in batch, Dismiss(event)
      PROVE  Served(c)'
  <2>1. CASE event.in /\ fds[event.fd] # None
    <3>1. fds[event.fd] \in Conns /\ conn' = Read(fds[event.fd], Received(event))
      BY <1>6, <2>1 DEF Dismiss
    <3> QED
      BY <1>5, <3>1
  <2>2. CASE ~ (event.in /\ fds[event.fd] # None)
    BY <1>1, <1>6, <2>2 DEF Dismiss
  <2> QED
    BY <2>1, <2>2
<1>7. ASSUME NEW event \in batch, ConsumeMiss(event)
      PROVE  Served(c)'
  <2>1. event # Listener /\ Received(event) = ReqSize
    BY <1>7 DEF ConsumeMiss
  <2>2. fds[event.fd] \in Conns
    BY <2>1, WholeReceived
  <2>3. conn' = Read(fds[event.fd], ReqSize)
    BY <1>7 DEF ConsumeMiss
  <2> QED
    BY <1>5, <2>2, <2>3
<1>8. ASSUME NEW event \in batch, ConsumeHit(event)
      PROVE  Served(c)'
  <2> PICK d : d = fds[event.fd]
    OBVIOUS
  <2>1. Served(d)' /\ \A b \in Conns : b # d => conn'[b] = conn[b]
    BY <1>8, HitServes
  <2> QED
    BY <2>1 DEF Served
<1>9. CASE Exit
  <2>1. conn' = [d \in Conns |-> IF conn[d].state = "new" THEN conn[d]
                                 ELSE [conn[d] EXCEPT !.state = "closed"]]
    BY <1>9 DEF Exit
  <2>2. conn'[c] = conn[c] \/ conn'[c] = [conn[c] EXCEPT !.state = "closed"]
    BY <2>1
  <2>3. conn[c] \in Connections
    OBVIOUS
  <2> QED
    BY <2>2, <2>3 DEF Served, Connections
<1>10. ASSUME NEW r \in jobs, Answer(r)
       PROVE  Served(c)'
  <2>1. r \in Recipients /\ r.conn \in Conns /\ r.conn # None /\ Asked(r)
    BY ServerAssumption DEF Recipients
  <2>2. fds[r.fd] = r.conn /\ conn[r.conn].got = <<>>
    BY <2>1 DEF Asked, Replied
  <2>3. conn' = Send(conn, r)
    BY <1>10 DEF Answer
  <2>4. /\ \A d \in Conns : d # r.conn => conn'[d] = conn[d]
        /\ conn'[r.conn].end = conn[r.conn].end
    BY <2>1, <2>2, <2>3, SendEffect
  <2> QED
    BY <2>2, <2>4 DEF Served
<1>11. ASSUME NEW r \in replied, CloseReplied(r)
       PROVE  Served(c)'
  <2>1. /\ r \in Recipients /\ r.conn \in Conns /\ r.conn # None
        /\ r.fd \in Fds /\ fds[r.fd] = r.conn
    BY ServerAssumption DEF Recipients, Asked
  <2>2. conn' = Close(conn, r.fd)
    BY <1>11 DEF CloseReplied
  <2>3. /\ \A d \in Conns : d # r.conn => conn'[d] = conn[d]
        /\ conn'[r.conn].got = conn[r.conn].got
        /\ conn'[r.conn].end = conn[r.conn].end
    BY <2>1, <2>2, CloseEffect
  <2> QED
    BY <2>3 DEF Served
<1>12. CASE Test \/ EnterWait \/ WaitReturns \/ Signal \/ UNCHANGED vars
  BY <1>1, <1>12 DEF Test, EnterWait, WaitReturns, Signal, vars
<1> QED
  BY <1>2, <1>4, <1>6, <1>7, <1>8, <1>9, <1>10, <1>11, <1>12
     DEF Next, Main, Worker

\* What main and the workers still have to do is to clients that are served.
LEMMA KeptStays ==
    ASSUME Inv, Kept, [Next]_vars
    PROVE  Kept'
<1>1. ASSUME NEW e \in batch', e # Listener, e.hup
      PROVE  e.in
  <2>1. CASE e \in batch
    BY <1>1, <2>1 DEF Kept
  <2>2. CASE e \notin batch
    <3>1. batch' = Ready
      <4>1. ~ UNCHANGED batch /\ ~ (batch' \subseteq batch)
        BY <2>2
      <4>2. /\ \A ev \in batch : ~ Dismiss(ev) /\ ~ ConsumeMiss(ev) /\ ~ ConsumeHit(ev)
            /\ ~ Accept /\ ~ AcceptFails /\ ~ Exit
        BY <4>1 DEF Dismiss, ConsumeMiss, ConsumeHit, Accept, AcceptFails, Exit, Done
      <4>3. ~ Test /\ ~ EnterWait /\ ~ Signal /\ ~ UNCHANGED vars
        BY <4>1 DEF Test, EnterWait, Signal, vars
      <4>4. \A c \in Conns : ~ Worker(c) /\ ~ Client(c)
        BY <4>1 DEF Worker, Client, Answer, CloseReplied, Connect, Arrive, Leave
      <4>5. WaitReturns
        BY <4>2, <4>3, <4>4 DEF Next, Main
      <4> QED
        BY <4>5 DEF WaitReturns
    <3>2. PICK f \in watched : e = ClientEvent(f, Readable(fds[f]), HungUp(fds[f]))
      BY <1>1, <3>1 DEF Ready
    <3>3. e.hup = HungUp(fds[f]) /\ e.in = Readable(fds[f])
      BY <3>2 DEF ClientEvent
    <3> QED
      BY <1>1, <3>3 DEF HungUp, Readable
  <2> QED
    BY <2>1, <2>2
<1>2. ASSUME NEW r \in replied'
      PROVE  Served(r.conn)'
  <2>1. CASE r \in replied
    <3>1. r.conn \in Conns
      BY <2>1 DEF Inv, Typed, Recipients
    <3>2. Served(r.conn)
      BY <2>1 DEF Kept
    <3> QED
      BY <3>1, <3>2, ServedStays
  <2>2. CASE r \notin replied
    <3>1. ~ (replied' \subseteq replied)
      BY <2>2
    <3>2. /\ \A ev \in batch : ~ Dismiss(ev) /\ ~ ConsumeMiss(ev) /\ ~ ConsumeHit(ev)
          /\ ~ Accept /\ ~ AcceptFails /\ ~ Exit
      BY <3>1 DEF Dismiss, ConsumeMiss, ConsumeHit, Accept, AcceptFails, Exit
    <3>3. ~ Test /\ ~ EnterWait /\ ~ WaitReturns /\ ~ Signal /\ ~ UNCHANGED vars
      BY <3>1 DEF Test, EnterWait, WaitReturns, Signal, vars
    <3>4. \A c \in Conns : ~ Client(c)
      BY <3>1 DEF Client, Connect, Arrive, Leave
    <3>5. \A q \in replied : ~ CloseReplied(q)
      BY <3>1 DEF CloseReplied
    <3>6. PICK q \in jobs : Answer(q)
      BY <3>2, <3>3, <3>4, <3>5 DEF Next, Main, Worker
    <3>7. r = q /\ conn' = Send(conn, q)
      BY <2>2, <3>6 DEF Answer
    <3>8. /\ q \in Recipients /\ q.conn \in Conns /\ q.conn # None /\ Asked(q)
          /\ conn \in [Conns -> Connections]
      BY <3>6, ServerAssumption DEF Inv, Typed, Recipients
    <3>9. fds[q.fd] = q.conn /\ conn[q.conn].got = <<>>
      BY <3>6, <3>8 DEF Asked, Inv, Replied
    <3>10. /\ conn'[q.conn].end = conn[q.conn].end
           /\ conn'[q.conn].got = <<q>> \/ conn[q.conn].end # "open"
      BY <3>7, <3>8, <3>9, SendEffect
    <3>11. Served(q.conn)'
      BY <3>10 DEF Served
    <3> QED
      BY <3>7, <3>11
  <2> QED
    BY <2>1, <2>2
<1> QED
  BY <1>1, <1>2 DEF Kept

\* Only a client that is served by then loses its descriptor or its place in
\* the epoll set.
LEMMA StillAttended ==
    ASSUME Inv, Kept, [Next]_vars, NEW c \in Conns, Attended(c), pc' # "exited"
    PROVE  Attended(c)' \/ Served(c)'
<1> PICK f \in watched : fds[f] = c
  BY DEF Attended
<1>1. f \in Fds /\ c # None /\ fds \in [Fds -> Conns \cup {None}]
  BY ServerAssumption DEF Inv, Typed
<1>2. ASSUME f \in watched', fds'[f] = c
      PROVE  Attended(c)'
  BY <1>2 DEF Attended
<1>3. CASE Accept
  <2>1. CASE UNCHANGED <<fds, watched>>
    BY <1>2, <2>1
  <2>2. CASE ~ UNCHANGED <<fds, watched>>
    <3>1. FreeFds # {} /\ FreeFds \in SUBSET Nat
      BY <1>3, <2>2, ServerAssumption DEF Accept, FreeFds
    <3>2. Min(FreeFds) \in FreeFds
      BY <3>1, LowestFree
    <3>3. f # Min(FreeFds)
      BY <1>1, <3>2 DEF FreeFds
    <3>4. /\ \E d \in Backlog : fds' = [fds EXCEPT ![Min(FreeFds)] = d]
          /\ watched' = watched \cup {Min(FreeFds)}
      BY <1>3, <2>2, <3>1 DEF Accept
    <3>5. f \in watched' /\ fds'[f] = c
      BY <1>1, <3>3, <3>4
    <3> QED
      BY <1>2, <3>5
  <2> QED
    BY <2>1, <2>2
<1>4. ASSUME NEW event \in batch, Dismiss(event)
      PROVE  Attended(c)'
  <2>1. event # Listener /\ UNCHANGED fds
    BY <1>4 DEF Dismiss
  <2>2. event.hup => event.in
    BY <2>1 DEF Kept
  <2>3. watched' = watched
    BY <1>4, <2>2 DEF Dismiss
  <2> QED
    BY <1>2, <2>1, <2>3
<1>5. ASSUME NEW event \in batch, ConsumeHit(event)
      PROVE  Attended(c)' \/ Served(c)'
  <2>1. fds' = [fds EXCEPT ![event.fd] = None] /\ watched' = watched \ {event.fd}
    BY <1>5 DEF ConsumeHit, CloseFd
  <2>2. CASE f = event.fd
    BY <1>5, <2>2, HitServes
  <2>3. CASE f # event.fd
    BY <1>1, <1>2, <2>1, <2>3
  <2> QED
    BY <2>2, <2>3
<1>6. ASSUME NEW r \in replied, CloseReplied(r)
      PROVE  Attended(c)' \/ Served(c)'
  <2>1. fds' = [fds EXCEPT ![r.fd] = None] /\ watched' = watched \ {r.fd}
    BY <1>6 DEF CloseReplied, CloseFd
  <2>2. CASE f = r.fd
    <3>1. c = r.conn
      BY <2>2 DEF Inv, Asked
    <3>2. Served(c)
      BY <3>1 DEF Kept
    <3> QED
      BY <3>2, ServedStays
  <2>3. CASE f # r.fd
    BY <1>1, <1>2, <2>1, <2>3
  <2> QED
    BY <2>2, <2>3
<1>7. CASE UNCHANGED <<fds, watched>>
  BY <1>2, <1>7
<1>8. CASE \/ Test \/ EnterWait \/ WaitReturns \/ Signal \/ AcceptFails
           \/ UNCHANGED vars
           \/ \E event \in batch : ConsumeMiss(event)
           \/ \E r \in jobs : Answer(r)
           \/ \E d \in Conns : Client(d)
  BY <1>7, <1>8 DEF Test, EnterWait, WaitReturns, Signal, AcceptFails, vars, ConsumeMiss,
                    Answer, Client, Connect, Arrive, Leave
<1>9. ~ Exit
  BY DEF Exit
<1> QED
  BY <1>3, <1>4, <1>5, <1>6, <1>8, <1>9 DEF Next, Main, Worker

-----------------------------------------------------------------------------
(* The properties.                                                          *)

\* The descriptor of a recipient stands for the connection that asked, from the
\* request to the close, whatever main does with older events in the meantime.
THEOREM RecipientsHoldDescriptors ==
    ASSUME OneRequest
    PROVE  Spec => []DescriptorsHeld
<1>1. Inv => DescriptorsHeld
  BY DEF Inv, Asked, DescriptorsHeld
<1> QED
  BY <1>1, InitInv, StepInv, PTL DEF Spec

\* A client is sent at most one reply, and the one to its own request.
THEOREM RepliesReachTheAsker ==
    ASSUME OneRequest
    PROVE  Spec => []RepliesToAsker
<1>1. ASSUME Inv, NEW c \in Conns
      PROVE  /\ Len(conn[c].got) <= 1
             /\ \A i \in DOMAIN conn[c].got : conn[c].got[i].conn = c
  <2>1. Replied(c)
    BY <1>1 DEF Inv
  <2>2. CASE conn[c].got = <<>>
    BY <2>2
  <2>3. CASE conn[c].got # <<>>
    <3>1. PICK r \in Recipients : r.conn = c /\ conn[c].got = <<r>>
      BY <2>1, <2>3 DEF Replied
    <3>2. Len(<<r>>) = 1 /\ DOMAIN <<r>> = {1} /\ <<r>>[1] = r
      OBVIOUS
    <3> QED
      BY <3>1, <3>2
  <2> QED
    BY <2>2, <2>3
<1>2. Inv => RepliesToAsker
  BY <1>1 DEF RepliesToAsker
<1> QED
  BY <1>2, InitInv, StepInv, PTL DEF Spec

\* A client that is waited for keeps its descriptor and its place in the epoll
\* set until it has its reply or has gone: older events of a batch and workers
\* that close never reach a client that took over a number.
THEOREM WaitingClientsAreKept ==
    ASSUME OneRequest
    PROVE  Spec => ClientsKept
<1>1. Init => Kept
  BY DEF Init, Kept
<1>2. Inv /\ Kept /\ [Next]_vars => Kept'
  BY KeptStays
<1>3. Inv /\ Kept /\ [Next]_vars =>
         [\A c \in Conns :
            Attended(c) /\ pc' # "exited" =>
               Attended(c)' \/ conn'[c].got # <<>> \/ conn'[c].end # "open"]_vars
  BY StillAttended DEF Served
<1> QED
  BY <1>1, <1>2, <1>3, InitInv, StepInv, PTL DEF Spec, ClientsKept
=============================================================================
