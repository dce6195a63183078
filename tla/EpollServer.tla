---------------------------- MODULE EpollServer ----------------------------
(***************************************************************************)
(* The server around the scheduler: src/src/server/epoll.c and the main    *)
(* loop of src/src/server/server.c, with what they see of the kernel.      *)
(*                                                                         *)
(* The main thread waits for events and handles a batch of them one after  *)
(* the other.  An event holds a descriptor number and what was ready when  *)
(* epoll_wait returned.  A request becomes a recipient that holds the same *)
(* number; a worker sends the answer to whatever connection has that       *)
(* number then and closes it, while main may be in the middle of a batch.  *)
(*                                                                         *)
(* Of the scheduler only the promise is kept that it answers a recipient   *)
(* at most once.  A request is ReqSize units long in place of 49 bytes and *)
(* arrives in pieces of the sizes in Pieces.  A client that goes away      *)
(* sends a FIN, or resets the connection.  Epoll is level-triggered.       *)
(***************************************************************************)
EXTENDS Integers, Sequences, FiniteSets, FiniteSetsExt

CONSTANTS
    Conns,       \* the connections clients will make
    Answerable,  \* those whose range holds the answer
    Fds,         \* descriptors the process has left for clients
    ReqSize,     \* PROTOCOL_REQ_SIZE
    Pieces,      \* how many units of a request may arrive at once
    Requests,    \* how many requests a client sends on a connection
    None

ASSUME ServerAssumption ==
    /\ Answerable \subseteq Conns
    /\ Fds \subseteq Nat
    /\ ReqSize \in Nat \ {0} /\ Requests \in Nat \ {0}
    /\ Pieces \subseteq 1 .. ReqSize
    /\ None \notin Conns

VARIABLES
    conn,     \* each connection: state, units sent and read, FIN, replies
    fds,      \* the connection behind each descriptor
    watched,  \* the client descriptors in the epoll set
    pc,       \* main: "test", "enter", "waiting", "batch", "exit", "exited"
    batch,    \* the events main still has to handle
    stop,     \* stop_flag
    jobs,     \* recipients of the scheduler's unanswered requests
    replied   \* recipients sent to, whose descriptor is not closed yet

vars == <<conn, fds, watched, pc, batch, stop, jobs, replied>>

Listener == [type |-> "SERVER_ACCEPT"]

ClientEvent(fd, in, hup) ==
    [type |-> "CLIENT_EVENT", fd |-> fd, in |-> in, hup |-> hup]

Recipient(c, n, fd) == [conn |-> c, req |-> n, fd |-> fd]

Available(c) == conn[c].sent - conn[c].read

-----------------------------------------------------------------------------
(* The kernel.                                                             *)

Readable(c) == Available(c) > 0 \/ conn[c].end # "open"

HungUp(c) == conn[c].end = "reset"

Backlog == {c \in Conns : conn[c].state = "backlog"}

Ready ==
    {ClientEvent(fd, Readable(fds[fd]), HungUp(fds[fd])) :
        fd \in {f \in watched : fds[f] # None /\ Readable(fds[f])}}
    \cup (IF Backlog = {} THEN {} ELSE {Listener})

FreeFds == {fd \in Fds : fds[fd] = None}

-----------------------------------------------------------------------------
(* The clients.                                                            *)

Connect(c) ==
    /\ conn[c].state = "new"
    /\ pc # "exited"
    /\ conn' = [conn EXCEPT ![c].state = "backlog"]
    /\ UNCHANGED <<fds, watched, pc, batch, stop, jobs, replied>>

Arrive(c, n) ==
    /\ conn[c].state \in {"backlog", "open"}
    /\ conn[c].end = "open"
    /\ conn[c].sent + n <= ReqSize * Requests
    /\ conn' = [conn EXCEPT ![c].sent = @ + n]
    /\ UNCHANGED <<fds, watched, pc, batch, stop, jobs, replied>>

\* A reset throws away what has not been read.
Leave(c, how) ==
    /\ conn[c].state = "open"
    /\ conn[c].end = "open"
    /\ conn' = [conn EXCEPT ![c].end = how,
                            ![c].read = IF how = "reset" THEN conn[c].sent ELSE @]
    /\ UNCHANGED <<fds, watched, pc, batch, stop, jobs, replied>>

-----------------------------------------------------------------------------
(* What main and the workers do to descriptors.                            *)

\* The conn after `send' of the answer for r, and after its `close'.
Send(state, r) ==
    IF fds[r.fd] = None \/ state[fds[r.fd]].end # "open" THEN state
    ELSE [state EXCEPT ![fds[r.fd]].got = Append(@, r)]

Close(state, fd) ==
    IF fds[fd] = None THEN state
    ELSE [state EXCEPT ![fds[fd]].state = "closed"]

CloseFd(fd) ==
    /\ fds' = [fds EXCEPT ![fd] = None]
    /\ watched' = watched \ {fd}

-----------------------------------------------------------------------------
(* main: the loop of server(), and epoll_server_poll.                      *)

\* Mutant: the loop does not look at the flag.
TestBlind ==
    /\ pc = "test"
    /\ pc' = "enter"
    /\ UNCHANGED <<conn, fds, watched, batch, stop, jobs, replied>>

Test ==
    /\ pc = "test"
    /\ pc' = IF stop THEN "exit" ELSE "enter"
    /\ UNCHANGED <<conn, fds, watched, batch, stop, jobs, replied>>

\* The call of epoll_wait, from where on a signal interrupts it.
EnterWait ==
    /\ pc = "enter"
    /\ pc' = "waiting"
    /\ UNCHANGED <<conn, fds, watched, batch, stop, jobs, replied>>

WaitReturns ==
    /\ pc = "waiting"
    /\ Ready # {}
    /\ batch' = Ready
    /\ pc' = "batch"
    /\ UNCHANGED <<conn, fds, watched, stop, jobs, replied>>

\* The handler sets the flag; in epoll_wait main gets EINTR and leaves the loop.
Signal ==
    /\ ~ stop
    /\ pc \notin {"exit", "exited"}
    /\ stop' = TRUE
    /\ pc' = IF pc = "waiting" THEN "exit" ELSE pc
    /\ UNCHANGED <<conn, fds, watched, batch, jobs, replied>>

Done(event) ==
    /\ batch' = batch \ {event}
    /\ pc' = IF batch = {event} THEN "test" ELSE "batch"

Pending(event) == pc = "batch" /\ event \in batch

\* Mutant: the new connection is not added to the epoll set.
AcceptUnwatched ==
    /\ Pending(Listener)
    /\ IF Backlog = {} \/ FreeFds = {}
       THEN UNCHANGED <<conn, fds>>
       ELSE \E c \in Backlog :
               /\ conn' = [conn EXCEPT ![c].state = "open"]
               /\ fds' = [fds EXCEPT ![Min(FreeFds)] = c]
    /\ Done(Listener)
    /\ UNCHANGED <<watched, stop, jobs, replied>>

\* accept_client.  The lowest free descriptor is taken; without one, or when
\* nobody waits any more, accept fails and nothing changes.
Accept ==
    /\ Pending(Listener)
    /\ IF Backlog = {} \/ FreeFds = {}
       THEN UNCHANGED <<conn, fds, watched>>
       ELSE \E c \in Backlog :
               LET fd == Min(FreeFds)
               IN  /\ conn' = [conn EXCEPT ![c].state = "open"]
                   /\ fds' = [fds EXCEPT ![fd] = c]
                   /\ watched' = watched \cup {fd}
    /\ Done(Listener)
    /\ UNCHANGED <<stop, jobs, replied>>

\* fcntl, setsockopt or epoll_ctl fails: the descriptor is closed at once.
AcceptFails ==
    /\ Pending(Listener)
    /\ FreeFds # {}
    /\ \E c \in Backlog : conn' = [conn EXCEPT ![c].state = "closed"]
    /\ Done(Listener)
    /\ UNCHANGED <<fds, watched, stop, jobs, replied>>

\* consume_request receives up to ReqSize units of whatever connection the
\* descriptor stands for now.
Received(event) ==
    IF fds[event.fd] = None THEN 0 ELSE Min({ReqSize, Available(fds[event.fd])})

Read(c, n) == [conn EXCEPT ![c].read = @ + n]

\* Mutant: the server closes the connection of a client that has gone.
DismissCloses(event) ==
    /\ Pending(event) /\ event # Listener
    /\ ~ event.in \/ Received(event) # ReqSize
    /\ conn' = IF fds[event.fd] # None
               THEN IF Received(event) = 0 THEN Close(conn, event.fd)
                    ELSE Read(fds[event.fd], Received(event))
               ELSE conn
    /\ IF Received(event) = 0 THEN CloseFd(event.fd) ELSE UNCHANGED <<fds, watched>>
    /\ Done(event)
    /\ UNCHANGED <<stop, jobs, replied>>

\* Mutant: a hang-up is looked at before input.
DismissHangUpFirst(event) ==
    /\ Pending(event) /\ event # Listener
    /\ event.hup \/ ~ event.in \/ Received(event) # ReqSize
    /\ conn' = IF event.in /\ ~ event.hup /\ fds[event.fd] # None
               THEN Read(fds[event.fd], Received(event)) ELSE conn
    /\ watched' = IF event.hup THEN watched \ {event.fd} ELSE watched
    /\ Done(event)
    /\ UNCHANGED <<fds, stop, jobs, replied>>

\* An event that does not yield a request: what was received is less than one
\* and is forgotten.  The kernel reports a hang-up together with input, so
\* the second branch, which would stop watching the client, is never taken.
Dismiss(event) ==
    /\ Pending(event) /\ event # Listener
    /\ ~ event.in \/ Received(event) # ReqSize
    /\ conn' = IF event.in /\ fds[event.fd] # None
               THEN Read(fds[event.fd], Received(event)) ELSE conn
    /\ watched' = IF ~ event.in /\ event.hup
                  THEN watched \ {event.fd} ELSE watched
    /\ Done(event)
    /\ UNCHANGED <<fds, stop, jobs, replied>>

\* A request the cache cannot answer goes to the workers.
ConsumeMiss(event) ==
    /\ Pending(event) /\ event # Listener
    /\ event.in /\ Received(event) = ReqSize
    /\ LET c == fds[event.fd]
       IN  /\ conn' = Read(c, ReqSize)
           /\ jobs' = jobs \cup {Recipient(c, conn[c].read, event.fd)}
    /\ Done(event)
    /\ UNCHANGED <<fds, watched, stop, replied>>

\* Any other is answered and its connection closed before submit returns.
ConsumeHit(event) ==
    /\ Pending(event) /\ event # Listener
    /\ event.in /\ Received(event) = ReqSize
    /\ LET c == fds[event.fd]
       IN  /\ c \in Answerable
           /\ conn' = Close(Send(Read(c, ReqSize),
                                 Recipient(c, conn[c].read, event.fd)),
                            event.fd)
    /\ CloseFd(event.fd)
    /\ Done(event)
    /\ UNCHANGED <<stop, jobs, replied>>

\* epoll_server_exit: the workers are joined, and all descriptors end with
\* the process.
Exit ==
    /\ pc = "exit"
    /\ replied = {}
    /\ pc' = "exited"
    /\ conn' = [c \in Conns |->
                  IF conn[c].state = "new" THEN conn[c]
                  ELSE [conn[c] EXCEPT !.state = "closed"]]
    /\ fds' = [fd \in Fds |-> None]
    /\ watched' = {}
    /\ batch' = {}
    /\ jobs' = {}
    /\ UNCHANGED <<stop, replied>>

-----------------------------------------------------------------------------
(* The workers: scheduler_job_notify_recipient.                            *)

\* Mutant: the recipient is used once more.
AnswerAgain(r) ==
    /\ pc # "exited"
    /\ r \in jobs /\ r.conn \in Answerable
    /\ conn' = Send(conn, r)
    /\ replied' = replied \cup {r}
    /\ UNCHANGED <<fds, watched, pc, batch, stop, jobs>>

Answer(r) ==
    /\ pc # "exited"
    /\ r \in jobs /\ r.conn \in Answerable
    /\ conn' = Send(conn, r)
    /\ jobs' = jobs \ {r}
    /\ replied' = replied \cup {r}
    /\ UNCHANGED <<fds, watched, pc, batch, stop>>

CloseReplied(r) ==
    /\ r \in replied
    /\ conn' = Close(conn, r.fd)
    /\ CloseFd(r.fd)
    /\ replied' = replied \ {r}
    /\ UNCHANGED <<pc, batch, stop, jobs>>

-----------------------------------------------------------------------------
Init ==
    /\ conn = [c \in Conns |->
                 [state |-> "new", sent |-> 0, read |-> 0, end |-> "open",
                  got |-> <<>>]]
    /\ fds = [fd \in Fds |-> None]
    /\ watched = {}
    /\ pc = "test"
    /\ batch = {}
    /\ stop = FALSE
    /\ jobs = {}
    /\ replied = {}

Main ==
    \/ Test
    \/ EnterWait
    \/ WaitReturns
    \/ Accept
    \/ \E event \in batch :
          Dismiss(event) \/ ConsumeMiss(event) \/ ConsumeHit(event)
    \/ Exit

Worker(c) ==
    \/ \E r \in jobs : r.conn = c /\ Answer(r)
    \/ \E r \in replied : r.conn = c /\ CloseReplied(r)

Client(c) ==
    \/ Connect(c)
    \/ \E n \in Pieces : Arrive(c, n)
    \/ \E how \in {"fin", "reset"} : Leave(c, how)

Next ==
    \/ Main
    \/ AcceptFails
    \/ Signal
    \/ \E c \in Conns : Worker(c) \/ Client(c)

Spec == Init /\ [][Next]_vars

\* Main and the workers run; a worker finds an answer in the end.  Clients,
\* signals and failing calls owe nothing.
LiveSpec ==
    /\ Spec
    /\ WF_vars(Main)
    /\ \A c \in Conns : WF_vars(Worker(c))

-----------------------------------------------------------------------------
\* TypeOK: the ranges of the variables.
TypeOK ==
    /\ \A c \in Conns :
          /\ conn[c].state \in {"new", "backlog", "open", "closed"}
          /\ conn[c].end \in {"open", "fin", "reset"}
          /\ conn[c].sent \in 0 .. ReqSize * Requests
          /\ conn[c].read \in 0 .. conn[c].sent
    /\ fds \in [Fds -> Conns \cup {None}]
    /\ watched \subseteq Fds
    /\ pc \in {"test", "enter", "waiting", "batch", "exit", "exited"}
    /\ stop \in BOOLEAN
    /\ \A e \in batch : e = Listener \/ e.fd \in Fds
    /\ \A r \in jobs \cup replied : r.conn \in Conns /\ r.fd \in Fds

\* The descriptor in a recipient stands for the connection that asked from
\* the request to the close, through departures, reuse of numbers and events
\* of the same batch.  It rests on main never closing a connection whose
\* client has gone.
DescriptorsHeld ==
    \A r \in jobs \cup replied : fds[r.fd] = r.conn

\* A client gets at most one reply, to its own request.
RepliesToAsker ==
    \A c \in Conns :
        /\ Len(conn[c].got) <= 1
        /\ \A i \in DOMAIN conn[c].got : conn[c].got[i].conn = c

\* A client the server waits for is only given up when it has gone or has its
\* reply, or at exit.  Neither an event of a batch whose number has been closed
\* and taken by another client since, nor a worker that closes, takes the
\* descriptor or the place in the epoll set of a client that still waits.
Attended(c) == \E fd \in watched : fds[fd] = c

ClientsKept ==
    [][\A c \in Conns :
          Attended(c) /\ pc' # "exited" =>
             Attended(c)' \/ conn'[c].got # <<>> \/ conn'[c].end # "open"]_vars

\* A request that has arrived as a whole before main reads any of it, on an
\* accepted connection and from a client that stays, is answered, unless the
\* server stops.
RequestAnswered ==
    \A c \in Answerable :
        (conn[c].state = "open" /\ conn[c].sent = ReqSize /\ conn[c].read = 0)
            ~> (conn[c].got # <<>> \/ conn[c].end # "open" \/ stop)

\* After the signal the server exits, or it sits in epoll_wait with nothing
\* to wake it: the flag was set between its test and the call.
StopsUnlessIdle ==
    stop ~> (pc = "exited" \/ (pc = "waiting" /\ Ready = {}))
=============================================================================
