------------------------------- MODULE EventLoop ------------------------------
(***************************************************************************)
(* The poll loop of myteams_server (Server::run) over the sockets of the   *)
(* kernel: accepting, reading, writing and disconnecting clients, the      *)
(* interest flags of the Poller, and the stop by a signal. What a command  *)
(* does is module Sessions and its extensions; here it is reduced to the   *)
(* set of clients to whose write buffers it appends a line.                *)
(*                                                                         *)
(* The process:                                                            *)
(*   pc        where the thread is: "top" of the loop, about to "poll",    *)
(*             in the "batch" of events, about to "write" for the event it *)
(*             has just read for, "saved" after the loop, "died" when an   *)
(*             exception or SIGPIPE has ended the process                  *)
(*   running   Server::_running                                            *)
(*   table     Server::_clients: which connection has the Client object    *)
(*             of a descriptor (0: the descriptor is not in the table)     *)
(*   wbuf      the number of lines in Client::_writeBuffer                 *)
(*   pollOut   Client::_pollOutEnabled                                     *)
(*   fds       Poller::_fds, the descriptors in their order                *)
(*   watch     the events each of them is polled for                       *)
(*   batch     the rest of the vector that waitForEvents has returned; who *)
(*             is the connection the descriptor stood for at that time     *)
(* The kernel and the clients:                                             *)
(*   opened    the number of connections made so far, which also numbers   *)
(*             them                                                        *)
(*   backlog   connections that wait to be accepted, oldest first          *)
(*   peer      "open", "closed" (end of file is on its way) or "reset"     *)
(*   inbox     commands that the server has not read yet                   *)
(*   sent      the number of commands sent so far                          *)
(*   space     whether the socket accepts more output                      *)
(* peer, inbox and space are indexed by connection.                        *)
(***************************************************************************)
EXTENDS Naturals, Sequences, FiniteSets

CONSTANTS
    Fds,            \* the descriptors the process can use for clients
    ServerFd,       \* the listening socket
    MaxOpened,      \* bound on the connections made
    MaxSent         \* bound on the commands sent

ASSUME FdsAssumption == ServerFd \notin Fds /\ IsFiniteSet(Fds)
ASSUME BoundsAssumption == MaxOpened \in Nat /\ MaxSent \in Nat

VARIABLES pc, running, table, wbuf, pollOut, fds, watch, batch,
          opened, backlog, peer, inbox, sent, space

processVars == << pc, running, table, wbuf, pollOut, fds, watch, batch >>
kernelVars == << opened, backlog, peer, inbox, sent, space >>
loopVars == << pc, running, table, wbuf, pollOut, fds, watch, batch,
               opened, backlog, peer, inbox, sent, space >>

Connections == 1..MaxOpened
clientFds == {f \in Fds : table[f] # 0}

-------------------------------------------------------------------------------
(* The clients and the kernel *)

\* A client connects; the listening socket queues it.
Connect ==
    /\ opened < MaxOpened
    /\ opened' = opened + 1
    /\ backlog' = Append(backlog, opened + 1)
    /\ peer' = [peer EXCEPT ![opened + 1] = "open"]
    /\ UNCHANGED << inbox, sent, space >>
    /\ UNCHANGED processVars

\* A client sends a command.
PeerSends(i) ==
    /\ i <= opened /\ peer[i] = "open" /\ sent < MaxSent
    /\ inbox' = [inbox EXCEPT ![i] = @ + 1]
    /\ sent' = sent + 1
    /\ UNCHANGED << opened, backlog, peer, space >>
    /\ UNCHANGED processVars

\* A client closes its socket; what it has sent can still be read.
PeerCloses(i) ==
    /\ i <= opened /\ peer[i] = "open"
    /\ peer' = [peer EXCEPT ![i] = "closed"]
    /\ UNCHANGED << opened, backlog, inbox, sent, space >>
    /\ UNCHANGED processVars

\* The connection is reset; what had arrived before can still be read, what
\* was on its way is lost.
PeerResets(i) ==
    /\ i <= opened /\ peer[i] \in {"open", "closed"}
    /\ peer' = [peer EXCEPT ![i] = "reset"]
    /\ \E n \in {0, inbox[i]} : inbox' = [inbox EXCEPT ![i] = n]
    /\ UNCHANGED << opened, backlog, sent, space >>
    /\ UNCHANGED processVars

\* A client reads, and the socket accepts output again.
PeerReads(i) ==
    /\ i <= opened /\ ~ space[i]
    /\ space' = [space EXCEPT ![i] = TRUE]
    /\ UNCHANGED << opened, backlog, peer, inbox, sent >>
    /\ UNCHANGED processVars

\* poll(2): what it reports for the socket of connection i.
socketEvents(i, events) ==
    {e \in {"IN"} : inbox[i] > 0 \/ peer[i] # "open"}
    \cup {e \in {"OUT"} : e \in events /\ (space[i] \/ peer[i] = "reset")}
    \cup {e \in {"HUP"} : peer[i] = "reset"}

revents(f) ==
    IF f = ServerFd THEN {e \in {"IN"} : backlog # << >>}
    ELSE socketEvents(table[f], watch[f])

-------------------------------------------------------------------------------
(* The loop *)

\* Server::handleSignal, at any time.
handleSignal ==
    /\ running /\ pc \notin {"saved", "died"}
    /\ running' = FALSE
    /\ UNCHANGED << pc, table, wbuf, pollOut, fds, watch, batch >>
    /\ UNCHANGED kernelVars

\* Regression variant: the need for output is noticed but never its end.
flagsNeverCleared == {f \in clientFds : wbuf[f] > 0 /\ ~ pollOut[f]}

\* Poller::updateWatchedEvents and Client::setPollOutEnabled, for one pass of
\* Server::_updatePollFlags: only clients whose need differs from the cached
\* flag are touched.
flagsStale == {f \in clientFds : (wbuf[f] > 0) # pollOut[f]}

updatePollFlags ==
    /\ pollOut' = [f \in Fds |-> IF f \in flagsStale THEN wbuf[f] > 0 ELSE pollOut[f]]
    /\ watch' = [f \in Fds |-> IF f \in flagsStale
                               THEN IF wbuf[f] > 0 THEN {"IN", "OUT"} ELSE {"IN"}
                               ELSE watch[f]]

\* The head of the while loop of Server::run.
loopTop ==
    /\ pc = "top"
    /\ IF running
       THEN updatePollFlags /\ pc' = "poll"
       ELSE pc' = "saved" /\ UNCHANGED << pollOut, watch >>   \* SaveManager::save
    /\ UNCHANGED << running, table, wbuf, fds, batch >>
    /\ UNCHANGED kernelVars

\* The entries of _fds that poll(2) has marked.
readyPositions == {n \in DOMAIN fds : revents(fds[n]) # {}}

pollEvent(f) ==
    [fd |-> f, revents |-> revents(f), who |-> IF f = ServerFd THEN 0 ELSE table[f]]

\* The events of the marked entries, in the order of _fds: the one sequence
\* that goes through the positions upwards.
readyEvents ==
    {[k \in DOMAIN p |-> pollEvent(fds[p[k]])] :
        p \in {q \in [1..Cardinality(readyPositions) -> readyPositions] :
                 \A j, k \in DOMAIN q : j < k => q[j] < q[k]}}

\* Regression variant: poll without a timeout.
waitForEventsForever ==
    /\ pc = "poll" /\ readyPositions # {}
    /\ batch' \in readyEvents
    /\ pc' = "batch"
    /\ UNCHANGED << running, table, wbuf, pollOut, fds, watch >>
    /\ UNCHANGED kernelVars

\* Poller::waitForEvents: the descriptors that are ready, none of them when
\* the timeout expires (after EINTR, Posix::poll goes on waiting until then).
waitForEvents ==
    /\ pc = "poll"
    /\ batch' \in readyEvents
    /\ pc' = "batch"
    /\ UNCHANGED << running, table, wbuf, pollOut, fds, watch >>
    /\ UNCHANGED kernelVars

\* The end of the for loop over the events.
batchDone ==
    /\ pc = "batch" /\ batch = << >>
    /\ pc' = "top"
    /\ UNCHANGED << running, table, wbuf, pollOut, fds, watch, batch >>
    /\ UNCHANGED kernelVars

\* An exception that leaves Server::run (main returns 84), or SIGPIPE: the
\* process ends and nothing is saved.
die ==
    /\ pc' = "died"
    /\ UNCHANGED << running, table, wbuf, pollOut, fds, watch, batch >>
    /\ UNCHANGED kernelVars

\* Poller::addFileDescriptor(fd, POLLIN).
addFileDescriptor(f) == fds' = Append(fds, f) /\ watch' = [watch EXCEPT ![f] = {"IN"}]

\* Regression variant: the interest flag of an earlier client is taken over.
newClientKeepingFlag(f, i) ==
    /\ table' = [table EXCEPT ![f] = i]
    /\ wbuf' = [wbuf EXCEPT ![f] = 0]
    /\ UNCHANGED pollOut

\* A new Client object for descriptor f and connection i.
newClient(f, i) ==
    /\ table' = [table EXCEPT ![f] = i]
    /\ wbuf' = [wbuf EXCEPT ![f] = 0]
    /\ pollOut' = [pollOut EXCEPT ![f] = FALSE]

\* Regression variant: when no descriptor is left, a client is dropped to make
\* room for the new one.
acceptClientEvicting ==
    /\ pc = "batch" /\ batch # << >> /\ Head(batch).fd = ServerFd
    /\ \E f \in IF clientFds = Fds THEN Fds ELSE Fds \ clientFds :
          /\ newClient(f, Head(backlog))
          /\ fds' = Append(SelectSeq(fds, LAMBDA g : g # f), f)
          /\ watch' = [watch EXCEPT ![f] = {"IN"}]
    /\ backlog' = Tail(backlog)
    /\ batch' = Tail(batch)
    /\ UNCHANGED << pc, running, opened, peer, inbox, sent, space >>

\* Server::_acceptClient. The kernel hands out a descriptor that is not open;
\* when there is none (EMFILE), Posix::accept throws.
acceptClient ==
    /\ pc = "batch" /\ batch # << >> /\ Head(batch).fd = ServerFd
    /\ IF clientFds = Fds THEN die
       ELSE /\ \E f \in Fds \ clientFds :
                  newClient(f, Head(backlog)) /\ addFileDescriptor(f)
            /\ backlog' = Tail(backlog)
            /\ batch' = Tail(batch)
            /\ UNCHANGED << pc, running, opened, peer, inbox, sent, space >>

\* Commands or a logout append output to the write buffers of these clients.
appendTo(R) == wbuf' = [f \in Fds |-> IF f \in R THEN wbuf[f] + 1 ELSE wbuf[f]]

\* Regression variant: the descriptor stays in the poller.
removeFileDescriptorNot(f) == UNCHANGED fds

\* Poller::removeFileDescriptor: the first entry of the descriptor is erased,
\* if there is one.
removeFileDescriptor(f) ==
    \/ \E n \in DOMAIN fds :
          /\ fds[n] = f /\ \A m \in 1..(n - 1) : fds[m] # f
          /\ fds' = SubSeq(fds, 1, n - 1) \o SubSeq(fds, n + 1, Len(fds))
    \/ (\A n \in DOMAIN fds : fds[n] # f) /\ UNCHANGED fds

\* _clients.erase, then the logout of the user's last session is broadcast to
\* the others; R is empty when there is nothing to tell.
eraseClient(f) ==
    /\ table' = [table EXCEPT ![f] = 0]
    /\ \E R \in {{}, clientFds \ {f}} :
          wbuf' = [g \in Fds |-> IF g = f THEN 0
                                 ELSE IF g \in R THEN wbuf[g] + 1 ELSE wbuf[g]]

\* Regression variant: after the disconnection the event is not left, and its
\* POLLOUT part goes on with the destroyed client.
disconnectAndGoOn(f) ==
    /\ removeFileDescriptor(f) /\ eraseClient(f)
    /\ IF "OUT" \in Head(batch).revents THEN pc' = "write" /\ UNCHANGED batch
       ELSE pc' = "batch" /\ batch' = Tail(batch)
    /\ UNCHANGED << running, pollOut, watch >>
    /\ UNCHANGED kernelVars

\* Server::_disconnectClient and the return after it.
disconnectClient(f) ==
    /\ removeFileDescriptor(f) /\ eraseClient(f)
    /\ batch' = Tail(batch)
    /\ pc' = "batch"
    /\ UNCHANGED << running, pollOut, watch >>
    /\ UNCHANGED kernelVars

\* After the POLLIN part of an event: on to the POLLOUT part, or to the next.
afterRead(ev) ==
    IF "OUT" \in ev.revents THEN pc' = "write" /\ UNCHANGED batch
    ELSE pc' = "batch" /\ batch' = Tail(batch)

\* The commands that one read brought in run.
runCommands(i, n) ==
    /\ inbox' = [inbox EXCEPT ![i] = @ - n]
    /\ \E R \in SUBSET clientFds : appendTo(R)
    /\ UNCHANGED << running, table, pollOut, fds, watch >>
    /\ UNCHANGED << opened, backlog, peer, sent, space >>

\* Nothing happens in this part of the event (EAGAIN).
idle ==
    /\ UNCHANGED << running, table, wbuf, pollOut, fds, watch >>
    /\ UNCHANGED kernelVars

\* Regression variant: end of file is taken for "nothing to read".
handleReadIgnoringEof(f, ev) ==
    LET i == table[f]
    IN  \/ /\ inbox[i] > 0
           /\ \E n \in 1..inbox[i] : runCommands(i, n)
           /\ afterRead(ev)
        \/ inbox[i] = 0 /\ peer[i] = "reset" /\ die
        \/ inbox[i] = 0 /\ peer[i] # "reset" /\ idle /\ afterRead(ev)

\* Server::_handleRead. One read takes some or all of what is there (up to
\* 4096 bytes) and the complete commands in it run; end of file disconnects;
\* after a reset Posix::read throws.
handleRead(f, ev) ==
    LET i == table[f]
    IN  \/ /\ inbox[i] > 0
           /\ \E n \in 1..inbox[i] : runCommands(i, n)
           /\ afterRead(ev)
        \/ inbox[i] = 0 /\ peer[i] = "reset" /\ die
        \/ inbox[i] = 0 /\ peer[i] = "closed" /\ disconnectClient(f)
        \/ inbox[i] = 0 /\ peer[i] = "open" /\ idle /\ afterRead(ev)

\* Server::_processEvent and _processClientEvent up to the end of the POLLIN
\* part. An event of a descriptor that is no longer in the table is skipped.
processEvent ==
    /\ pc = "batch" /\ batch # << >> /\ Head(batch).fd # ServerFd
    /\ LET ev == Head(batch)
           f  == ev.fd
       IN  \/ /\ table[f] = 0
              /\ batch' = Tail(batch)
              /\ UNCHANGED << pc, running, table, wbuf, pollOut, fds, watch >>
              /\ UNCHANGED kernelVars
           \/ table[f] # 0 /\ "HUP" \in ev.revents /\ disconnectClient(f)
           \/ /\ table[f] # 0 /\ "HUP" \notin ev.revents
              /\ "IN" \in ev.revents
              /\ handleRead(f, ev)
           \/ /\ table[f] # 0 /\ ev.revents = {"OUT"}
              /\ idle /\ afterRead(ev)

\* Server::_handleWrite, the POLLOUT part of an event: the kernel takes some
\* of the lines, perhaps none when the socket has no space any more; after a
\* reset the write raises SIGPIPE, or Posix::write throws.
handleWrite ==
    /\ pc = "write"
    /\ LET f == Head(batch).fd
           i == table[f]
       IN  IF wbuf[f] > 0 /\ peer[i] = "reset" THEN die
           ELSE /\ \E n \in 0..wbuf[f], more \in BOOLEAN :
                      /\ n = 0 <=> wbuf[f] = 0 \/ ~ space[i]
                      /\ wbuf' = [wbuf EXCEPT ![f] = @ - n]
                      /\ space' = [space EXCEPT ![i] = @ /\ (n = wbuf[f]) /\ more]
                /\ pc' = "batch" /\ batch' = Tail(batch)
                /\ UNCHANGED << running, table, pollOut, fds, watch >>
                /\ UNCHANGED << opened, backlog, peer, inbox, sent >>

-------------------------------------------------------------------------------

LoopInit ==
    /\ pc = "top" /\ running = TRUE
    /\ table = [f \in Fds |-> 0] /\ wbuf = [f \in Fds |-> 0]
    /\ pollOut = [f \in Fds |-> FALSE]
    /\ fds = << ServerFd >> /\ watch = [f \in Fds |-> {"IN"}]
    /\ batch = << >>
    /\ opened = 0 /\ backlog = << >> /\ sent = 0
    /\ peer = [i \in Connections |-> "open"]
    /\ inbox = [i \in Connections |-> 0]
    /\ space = [i \in Connections |-> TRUE]

Server ==
    \/ loopTop \/ waitForEvents \/ batchDone \/ acceptClient
    \/ processEvent \/ handleWrite

Environment ==
    \/ Connect \/ handleSignal
    \/ \E i \in Connections :
          PeerSends(i) \/ PeerCloses(i) \/ PeerResets(i) \/ PeerReads(i)

LoopNext == Server \/ Environment

\* The operating system goes on running the process, and the clients go on
\* reading (the client's own loop always polls its socket for input).
LoopFairness == WF_loopVars(Server) /\ \A i \in Connections : WF_loopVars(PeerReads(i))

LoopSpec == LoopInit /\ [][LoopNext]_loopVars /\ LoopFairness

-------------------------------------------------------------------------------
(* Properties *)

Stopped == pc \in {"saved", "died"}

Event == [fd : Fds \cup {ServerFd}, revents : SUBSET {"IN", "OUT", "HUP"},
          who : Connections \cup {0}]

\* Type invariant of the loop. An event whose POLLOUT part is still to be
\* handled has a Client object: _processClientEvent holds a reference to it.
LoopTypeOK ==
    /\ pc \in {"top", "poll", "batch", "write", "saved", "died"}
    /\ running \in BOOLEAN
    /\ table \in [Fds -> Connections \cup {0}]
    /\ wbuf \in [Fds -> Nat] /\ pollOut \in [Fds -> BOOLEAN]
    /\ fds \in Seq(Fds \cup {ServerFd}) /\ watch \in [Fds -> SUBSET {"IN", "OUT"}]
    /\ batch \in Seq(Event)
    /\ opened \in 0..MaxOpened /\ backlog \in Seq(Connections)
    /\ peer \in [Connections -> {"open", "closed", "reset"}]
    /\ inbox \in [Connections -> Nat] /\ sent \in 0..MaxSent
    /\ space \in [Connections -> BOOLEAN]
    /\ pc = "write" => batch # << >> /\ Head(batch).fd \in clientFds

\* Every event of the batch is handled for the client it was polled for.
\* _processEvent looks the client up by its descriptor, which the kernel hands
\* out again as soon as it is closed; an event never meets the Client object
\* of a later connection all the same, nor a descriptor without a client,
\* because only the one event that a descriptor has in a batch can close it.
EventsMeetTheirClient ==
    \A n \in DOMAIN batch :
        batch[n].fd # ServerFd =>
            batch[n].fd \in clientFds /\ table[batch[n].fd] = batch[n].who

\* Between two steps the poller watches exactly the listening socket and the
\* clients in the table, each once, and the cached _pollOutEnabled of a client
\* says what it is watched for.
PollerMatchesTable ==
    /\ Len(fds) = Cardinality(clientFds) + 1
    /\ {fds[n] : n \in DOMAIN fds} = clientFds \cup {ServerFd}
    /\ \A f \in clientFds : watch[f] = IF pollOut[f] THEN {"IN", "OUT"} ELSE {"IN"}

\* When the loop goes to sleep, POLLOUT is watched for exactly the clients
\* that have something in their write buffers: no output is forgotten, and the
\* loop does not spin on sockets it has nothing to write to.
WritersArePolled ==
    pc = "poll" => \A f \in clientFds : "OUT" \in watch[f] <=> wbuf[f] > 0

\* A signal is always followed by the save (or the process dies), although
\* Posix::poll goes back to sleep when the signal interrupts it.
SignalLeadsToSave == ~ running ~> Stopped

\* What a command has appended to a client's write buffer gets out, or the
\* client is gone, or the server has stopped: nothing waits for ever for a
\* POLLOUT that is not asked for. (Commands are finitely many: MaxSent.)
WritesDrain == \A f \in Fds : wbuf[f] > 0 ~> (wbuf[f] = 0 \/ Stopped)

\* A client whose peer has gone leaves the table, also when it went while it
\* was waiting to be accepted or while other events were being handled.
GoneClientsLeave ==
    \A i \in Connections :
        (i <= opened /\ peer[i] # "open")
        ~> (Stopped \/ (/\ \A f \in Fds : table[f] # i
                        /\ \A n \in DOMAIN backlog : backlog[n] # i))

\* "If a client disconnects without /logout, the server treats it as an
\* implicit logout": a client that goes away does not take the server with it.
\* In the code a connection that is reset after poll has returned makes the
\* read throw, or the write raise SIGPIPE.
SurvivesItsClients == pc # "died"

===============================================================================
