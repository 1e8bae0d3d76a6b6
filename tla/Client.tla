-------------------------------- MODULE Client --------------------------------
(***************************************************************************)
(* One myteams_cli process and its connection to the server: standard      *)
(* input, the commands on their way to the server, the frames on their way *)
(* back, and the little state by which the client interprets them.         *)
(*                                                                         *)
(* The process (ClientApplication, TcpClient, ServerMessageRouter):        *)
(*   phase      "connecting", "running" the event loop, "left" it, or      *)
(*              "failed" (an exception or SIGPIPE ended the process)       *)
(*   addresses  the addresses that are left to try                         *)
(*   cin        lines in the buffer of std::cin                            *)
(*   reading    the thread is in std::getline, waiting for the rest of a   *)
(*              line                                                       *)
(*   stdinPolled  whether standard input is in the Poller                  *)
(*   pending    ServerMessageRouter::_pendingCommand                       *)
(*   loggedIn   User::isLoggedIn                                           *)
(*   listCtx    ServerMessageRouter::_listContext ("" between lists)       *)
(*   writes     TcpClient::_pendingWrites, from _pendingOffset on          *)
(*   pollOut    whether the socket is polled for POLLOUT                   *)
(*   rbuf       frames that were read and are not yet routed               *)
(* Around it:                                                              *)
(*   stdin      "pipe" (or a terminal), "file", or "hungup": the writer of *)
(*              the pipe has closed it                                     *)
(*   tty        lines in the pipe or file that were not read               *)
(*   partial    where the last line is that was only begun: "tty", not     *)
(*              read yet, "cin", in the buffer of std::cin, or "none"      *)
(*   toServer, toClient   the two directions of the connection             *)
(*   room       whether the socket accepts more output                     *)
(*   server     "up", or what the client sees of its end: "closed" or      *)
(*              "reset"                                                    *)
(*   session    whether the server has a user on this connection           *)
(*   typed, events   how many lines were typed and events sent so far      *)
(*                                                                         *)
(* A frame is a record: its kind tells apart what routeFrame tells apart,  *)
(* list is the list that a 210 line belongs to, and of the command that it *)
(* answers (which the frame itself does not say). "LOGIN" is the 200 with  *)
(* two arguments, "OK" any other one; frames that are only displayed have  *)
(* kind "SHOW".                                                            *)
(***************************************************************************)
EXTENDS Naturals, Sequences

CONSTANTS
    Typed,          \* the lines that the user types
    MaxAddresses,   \* bound on the addresses of the host
    MaxTyped,       \* bound on the lines typed
    MaxEvents,      \* bound on the events sent by the server
    MaxItems        \* bound on the items of a list

\* CommandSchemas: the commands that go to the server.
ServerCommands ==
    {"/login", "/logout", "/users", "/user", "/send", "/messages", "/subscribe",
     "/subscribed", "/unsubscribe", "/use", "/create", "/list", "/info"}

\* What dispatchCommandLine answers by itself: /help, and any line that it
\* rejects (empty, not a command, unknown, badly quoted, wrong arguments).
LocalLines == {"/help", "rejected"}

ASSUME TypedAssumption == Typed \subseteq ServerCommands \cup LocalLines
ASSUME ClientBoundsAssumption ==
    MaxAddresses \in Nat \ {0} /\ {MaxTyped, MaxEvents, MaxItems} \subseteq Nat

Lists == {"USERS", "TEAMS", "CHANNELS", "THREADS", "REPLIES", "MESSAGES"}
Kinds == {"OK", "LOGIN", "BEGIN", "210", "END", "SHOW"}
Frame == [kind : Kinds, list : Lists \cup {""}, of : ServerCommands \cup {""}]

VARIABLES phase, addresses, cin, reading, stdinPolled, pending, loggedIn, listCtx,
          writes, pollOut, rbuf, stdin, tty, partial, toServer, toClient, room, server,
          session, typed, events

inputVars == << cin, reading, stdinPolled, stdin, tty, partial, typed >>
routerVars == << pending, loggedIn, listCtx >>
outVars == << writes, pollOut, toServer, room >>
inVars == << toClient, rbuf >>
worldVars == << server, session, events >>
clientVars == << phase, addresses, cin, reading, stdinPolled, pending, loggedIn, listCtx,
                 writes, pollOut, rbuf, stdin, tty, partial, toServer, toClient, room,
                 server, session, typed, events >>

-------------------------------------------------------------------------------
(* The process *)

\* TcpClient::connectTo: the addresses are tried in turn; an attempt fails at
\* once or after the timeout of completePendingConnect. Without a connection
\* the program ends.
connectTo ==
    /\ phase = "connecting"
    /\ \/ server = "up" /\ phase' = "running" /\ stdinPolled' = TRUE /\ UNCHANGED addresses
       \/ /\ addresses' = addresses - 1
          /\ phase' = IF addresses = 1 THEN "failed" ELSE "connecting"
          /\ UNCHANGED stdinPolled
    /\ UNCHANGED << cin, reading, stdin, tty, partial, typed >>
    /\ UNCHANGED << routerVars, outVars, inVars, worldVars >>

\* The thread is in poll, neither in the middle of what it has read nor in
\* std::getline.
Polling == phase = "running" /\ ~ reading /\ rbuf = << >>

\* Regression variant: the writes stay in their buffer.
disconnectKeepingWrites ==
    /\ phase' = "left"
    /\ rbuf' = << >> /\ toClient' = << >>
    /\ UNCHANGED outVars

\* The end of runEventLoop, and TcpClient::disconnect: what was not written is
\* dropped and the socket closed, with what is still in it.
disconnect ==
    /\ phase' = "left"
    /\ writes' = << >> /\ pollOut' = FALSE
    /\ rbuf' = << >> /\ toClient' = << >>
    /\ UNCHANGED << toServer, room >>

\* TcpClient::flushPendingWrites on the frames w: the kernel takes all of
\* them, or as many as there is room for. The write after the server has
\* closed still succeeds (it is answered by a reset), the next one ends the
\* process.
flushPendingWrites(w) ==
    \/ /\ server = "up" /\ room
       /\ \E k \in 1..Len(w), more \in BOOLEAN :
             /\ toServer' = toServer \o SubSeq(w, 1, k)
             /\ writes' = SubSeq(w, k + 1, Len(w))
             /\ room' = (k = Len(w) /\ more)
       /\ UNCHANGED << phase, server >>
    \/ server = "up" /\ ~ room /\ writes' = w /\ UNCHANGED << toServer, room, phase, server >>
    \/ /\ server = "closed"
       /\ writes' = << >> /\ server' = "reset"
       /\ UNCHANGED << toServer, room, phase >>
    \/ /\ server = "reset"
       /\ phase' = "failed" /\ writes' = w
       /\ UNCHANGED << toServer, room, server >>

\* ClientApplication::updateServerWatchedEvents.
updateServerWatchedEvents == pollOut' = (writes' # << >>)

\* Regression variant: only handleServerEvent updates the watched events.
sendCommandFrameUnwatched(l) == flushPendingWrites(Append(writes, l)) /\ UNCHANGED pollOut

\* ClientApplication::sendCommandFrame.
sendCommandFrame(l) == flushPendingWrites(Append(writes, l)) /\ updateServerWatchedEvents

\* ClientApplication::dispatchCommandLine.
dispatchCommandLine(l) ==
    \/ /\ l \in LocalLines
       /\ UNCHANGED << phase, pending, server >> /\ UNCHANGED outVars
    \/ /\ l \in ServerCommands
       /\ pending' = l
       /\ sendCommandFrame(l)

\* std::getline: a line of std::cin's buffer, which is filled from tty, with
\* one or more lines and perhaps the beginning of one more, only when it has
\* no whole line.
getline(l) ==
    \/ /\ cin # << >>
       /\ l = Head(cin) /\ cin' = Tail(cin) /\ UNCHANGED << tty, partial >>
    \/ /\ cin = << >> /\ tty # << >>
       /\ \E n \in 1..Len(tty) :
             /\ l = Head(tty)
             /\ cin' = SubSeq(tty, 2, n)
             /\ tty' = SubSeq(tty, n + 1, Len(tty))
             /\ partial' \in IF n = Len(tty) /\ partial = "tty" THEN {"tty", "cin"}
                             ELSE {partial}

\* std::getline when there is only the beginning of a line: it is taken, and
\* the thread waits for the rest.
getlineWaits ==
    /\ cin = << >> /\ tty = << >> /\ partial = "tty"
    /\ partial' = "cin" /\ reading' = TRUE
    /\ UNCHANGED << phase, pending, server, cin, tty, outVars >>

\* ClientApplication::handleStdinEvent. poll reports a pipe when there is
\* something in it, whatever std::cin holds, and a file always. A pipe that
\* was closed ends the loop; at the end of a file its descriptor is removed.
handleStdinEvent ==
    /\ Polling /\ stdinPolled
    /\ \/ /\ stdin = "hungup"
          /\ disconnect
          /\ UNCHANGED << inputVars, routerVars, server >>
       \/ /\ stdin = "file" /\ cin = << >> /\ tty = << >>
          /\ stdinPolled' = FALSE
          /\ UNCHANGED << phase, cin, reading, stdin, tty, partial, typed >>
          /\ UNCHANGED << routerVars, outVars, inVars, server >>
       \/ /\ stdin = "file" \/ (stdin = "pipe" /\ (tty # << >> \/ partial = "tty"))
          /\ \/ \E l \in Typed : getline(l) /\ dispatchCommandLine(l) /\ UNCHANGED reading
             \/ getlineWaits
          /\ UNCHANGED << stdinPolled, stdin, typed, loggedIn, listCtx, inVars >>
    /\ UNCHANGED << addresses, session, events >>

\* std::getline goes on: the rest of the line has come, or a part of the rest,
\* or the end of the pipe, which makes a line of what is there.
getlineGoesOn ==
    /\ phase = "running" /\ reading
    /\ \/ \E l \in Typed : getline(l) /\ dispatchCommandLine(l) /\ reading' = FALSE
       \/ getlineWaits
       \/ /\ tty = << >> /\ partial = "cin" /\ stdin = "hungup"
          /\ \E l \in Typed \cup {"rejected"} : dispatchCommandLine(l)
          /\ partial' = "none" /\ reading' = FALSE
          /\ UNCHANGED << cin, tty >>
    /\ UNCHANGED << stdinPolled, stdin, typed, loggedIn, listCtx, inVars >>
    /\ UNCHANGED << addresses, session, events >>

\* ClientApplication::handleServerEvent for POLLHUP or POLLERR.
handleServerHangup ==
    /\ Polling /\ server = "reset"
    /\ disconnect
    /\ UNCHANGED << addresses, inputVars, routerVars, worldVars >>

\* handleServerEvent for POLLOUT (handleServerWritable). When poll reports
\* POLLOUT and POLLIN together the code goes on with the POLLIN part; here that
\* is the next event.
handleServerWritable ==
    /\ Polling /\ server # "reset" /\ pollOut /\ room
    /\ flushPendingWrites(writes) /\ updateServerWatchedEvents
    /\ UNCHANGED << addresses, inputVars, routerVars, inVars, session, events >>

\* A read that returns some of the frames that have arrived.
readFrames ==
    \E n \in 1..Len(toClient) :
        /\ rbuf' = SubSeq(toClient, 1, n)
        /\ toClient' = SubSeq(toClient, n + 1, Len(toClient))

\* Regression variant: end of file is taken for "nothing to read".
handleServerReadableIgnoringEof ==
    /\ Polling /\ server # "reset"
    /\ toClient # << >> /\ readFrames
    /\ UNCHANGED << phase, addresses, inputVars, routerVars, outVars, worldVars >>

\* Regression variant: the list context lives as long as one read.
handleServerReadableAfresh ==
    /\ Polling /\ server # "reset"
    /\ \/ /\ toClient # << >> /\ readFrames
          /\ listCtx' = ""
          /\ UNCHANGED << phase, outVars, pending, loggedIn >>
       \/ toClient = << >> /\ server = "closed" /\ disconnect /\ UNCHANGED routerVars
    /\ UNCHANGED << addresses, inputVars, worldVars >>

\* handleServerEvent for POLLIN (handleServerReadable): frames, or the end of
\* file. (A frame of more than MAX_SERVER_FRAME_SIZE ends the program; the
\* server's longest frame is far below it.)
handleServerReadable ==
    /\ Polling /\ server # "reset"
    /\ \/ toClient # << >> /\ readFrames /\ UNCHANGED << phase, outVars >>
       \/ toClient = << >> /\ server = "closed" /\ disconnect
    /\ UNCHANGED << addresses, inputVars, routerVars, worldVars >>

\* Regression variant: the answer to /login is recognised by the last command.
logsInPending(f) == f.kind \in {"OK", "LOGIN"} /\ pending = "/login"

\* ResponseStatusHandler::handle200Ok: the answer to /login is recognised by
\* its two arguments ...
logsIn(f) == f.kind = "LOGIN"

\* ... and the answer to /logout by the command that was sent last.
logsOut(f) == f.kind = "OK" /\ pending = "/logout"

\* ServerMessageRouter::routeFrame for the next frame of the read; the loop of
\* handleServerReadable ends early when the router wants to disconnect.
routeFrame ==
    /\ phase = "running" /\ rbuf # << >>
    /\ LET f == Head(rbuf)
       IN  /\ listCtx' = CASE f.kind = "BEGIN" -> f.list
                           [] f.kind = "END"   -> ""
                           [] OTHER            -> listCtx
           /\ loggedIn' = ((loggedIn \/ logsIn(f)) /\ ~ logsOut(f))
           /\ \/ logsOut(f) /\ disconnect
              \/ /\ ~ logsOut(f)
                 /\ rbuf' = Tail(rbuf)
                 /\ UNCHANGED << phase, outVars, toClient >>
    /\ UNCHANGED << addresses, inputVars, pending, worldVars >>

-------------------------------------------------------------------------------
(* The user *)

\* A line is typed, or written to the pipe, or the rest of one that was begun;
\* a file is there from the start.
Type(l) ==
    /\ typed < MaxTyped
    /\ stdin = "pipe" \/ (stdin = "file" /\ phase = "connecting")
    /\ tty' = Append(tty, l) /\ partial' = "none" /\ typed' = typed + 1
    /\ UNCHANGED << phase, addresses, cin, reading, stdinPolled, stdin >>
    /\ UNCHANGED << routerVars, outVars, inVars, worldVars >>

\* The beginning of a line is written to the pipe, or some more of it.
BeginLine ==
    /\ typed < MaxTyped /\ stdin = "pipe" /\ partial # "tty"
    /\ partial' = "tty"
    /\ UNCHANGED << phase, addresses, cin, reading, stdinPolled, stdin, tty, typed >>
    /\ UNCHANGED << routerVars, outVars, inVars, worldVars >>

CloseStdin ==
    /\ stdin = "pipe" /\ stdin' = "hungup"
    /\ UNCHANGED << phase, addresses, cin, reading, stdinPolled, tty, partial, typed >>
    /\ UNCHANGED << routerVars, outVars, inVars, worldVars >>

-------------------------------------------------------------------------------
(* The server, as far as this connection sees it *)

frame(kind, of) == [kind |-> kind, list |-> "", of |-> of]
aList(l, of) == {<< [kind |-> "BEGIN", list |-> l, of |-> of] >>
                 \o [n \in 1..k |-> [kind |-> "210", list |-> l, of |-> of]]
                 \o << [kind |-> "END", list |-> l, of |-> of] >> : k \in 0..MaxItems}

\* The frames with which the handler of a command may answer a client that is
\* logged in; the events that it sends to the same client are among them.
answers(cmd) ==
    CASE cmd = "/logout"     -> {<< frame("OK", cmd) >>,
                                 << frame("SHOW", ""), frame("OK", cmd) >>}
      [] cmd = "/use"        -> {[i \in 1..n |-> frame("OK", cmd)] : n \in 1..3}
                                \cup {Append([i \in 1..n |-> frame("OK", cmd)],
                                             frame("SHOW", cmd)) : n \in 0..2}
      [] cmd = "/send"       -> {<< frame("OK", cmd) >>, << frame("SHOW", ""), frame("OK", cmd) >>,
                                 << frame("SHOW", cmd) >>}
      [] cmd = "/users"      -> aList("USERS", cmd)
      [] cmd = "/messages"   -> aList("MESSAGES", cmd) \cup {<< frame("SHOW", cmd) >>}
      [] cmd = "/subscribed" -> aList("TEAMS", cmd) \cup aList("USERS", cmd)
                                \cup {<< frame("SHOW", cmd) >>}
      [] cmd = "/list"       -> aList("TEAMS", cmd) \cup aList("CHANNELS", cmd)
                                \cup aList("THREADS", cmd) \cup aList("REPLIES", cmd)
                                \cup {<< frame("SHOW", cmd) >>}
      [] cmd = "/create"     -> {<< frame("SHOW", "") , frame("SHOW", cmd) >>,
                                 << frame("SHOW", cmd) >>}
      [] OTHER               -> {<< frame("SHOW", cmd) >>}

\* The server runs the handler of the next command, in one step. /login is
\* answered before the event is broadcast; without a login every other command
\* is answered by one error.
ServerAnswers ==
    /\ server = "up" /\ toServer # << >>
    /\ LET cmd == Head(toServer)
           all == IF session THEN answers(cmd)
                  ELSE IF cmd = "/login"
                  THEN {<< frame("LOGIN", cmd), frame("SHOW", "") >>}
                  ELSE {<< frame("SHOW", cmd) >>}
       IN  /\ \E a \in all : toClient' = IF phase = "running" THEN toClient \o a ELSE toClient
           /\ session' = CASE cmd = "/login" -> TRUE [] cmd = "/logout" -> FALSE
                           [] OTHER -> session
    /\ toServer' = Tail(toServer) /\ room' = TRUE
    /\ UNCHANGED << phase, addresses, inputVars, routerVars, writes, pollOut, rbuf,
                    server, events >>

\* An event of another client's doing.
ServerEvent ==
    /\ server = "up" /\ phase = "running" /\ events < MaxEvents
    /\ toClient' = Append(toClient, frame("SHOW", ""))
    /\ events' = events + 1
    /\ UNCHANGED << phase, addresses, inputVars, routerVars, outVars, rbuf, server, session >>

\* The server process ends: with unread commands the connection is reset.
ServerStops ==
    /\ server = "up"
    /\ \/ server' = "closed" /\ toServer = << >> /\ UNCHANGED toClient
       \/ server' = "reset" /\ toClient' = << >>
    /\ session' = FALSE /\ toServer' = << >>
    /\ UNCHANGED << phase, addresses, inputVars, routerVars, writes, pollOut, room, rbuf,
                    events >>

\* The server has taken what was in the socket.
MakeRoom ==
    /\ ~ room /\ room' = TRUE
    /\ UNCHANGED << phase, addresses, inputVars, routerVars, writes, pollOut, toServer,
                    inVars, worldVars >>

-------------------------------------------------------------------------------

ClientInit ==
    /\ phase = "connecting" /\ addresses \in 1..MaxAddresses
    /\ cin = << >> /\ reading = FALSE /\ stdinPolled = FALSE
    /\ pending = "" /\ loggedIn = FALSE /\ listCtx = ""
    /\ writes = << >> /\ pollOut = FALSE /\ rbuf = << >>
    /\ stdin \in {"pipe", "file"} /\ tty = << >> /\ partial = "none"
    /\ toServer = << >> /\ toClient = << >> /\ room = TRUE
    /\ server = "up" /\ session = FALSE
    /\ typed = 0 /\ events = 0

Process ==
    \/ connectTo \/ handleStdinEvent \/ getlineGoesOn \/ handleServerHangup
    \/ handleServerWritable \/ handleServerReadable \/ routeFrame

World ==
    \/ \E l \in Typed : Type(l)
    \/ BeginLine \/ CloseStdin \/ ServerAnswers \/ ServerEvent \/ ServerStops \/ MakeRoom

ClientNext == Process \/ World

\* The operating system goes on running the process, and one call of poll
\* reports all that is ready, so no handler is passed over for ever; the
\* server goes on serving. Nobody has to end a line that he has begun.
ClientFairness ==
    /\ WF_clientVars(connectTo) /\ WF_clientVars(handleStdinEvent)
    /\ WF_clientVars(getlineGoesOn) /\ WF_clientVars(handleServerHangup)
    /\ WF_clientVars(handleServerWritable) /\ WF_clientVars(handleServerReadable)
    /\ WF_clientVars(routeFrame)
    /\ WF_clientVars(ServerAnswers) /\ WF_clientVars(MakeRoom)

ClientSpec == ClientInit /\ [][ClientNext]_clientVars /\ ClientFairness

-------------------------------------------------------------------------------
(* Properties *)

\* Type invariant of the client. Nothing is queued for a socket that is closed.
ClientTypeOK ==
    /\ phase \in {"connecting", "running", "left", "failed"}
    /\ addresses \in 0..MaxAddresses
    /\ cin \in Seq(Typed) /\ tty \in Seq(Typed) /\ stdinPolled \in BOOLEAN
    /\ stdin \in {"pipe", "file", "hungup"} /\ partial \in {"none", "tty", "cin"}
    /\ reading \in BOOLEAN
    /\ pending \in ServerCommands \cup {""} /\ loggedIn \in BOOLEAN
    /\ listCtx \in Lists \cup {""}
    /\ writes \in Seq(ServerCommands) /\ pollOut \in BOOLEAN
    /\ toServer \in Seq(ServerCommands) /\ room \in BOOLEAN
    /\ toClient \in Seq(Frame) /\ rbuf \in Seq(Frame)
    /\ server \in {"up", "closed", "reset"} /\ session \in BOOLEAN
    /\ typed \in 0..MaxTyped /\ events \in 0..MaxEvents
    /\ phase = "left" => writes = << >>

\* Every line of a list is displayed by the handler of its own list, however
\* the lists are cut into reads and whatever events come between the lists:
\* the client keeps the name of the open list and nothing else about it.
ListLinesKeepTheirKind ==
    rbuf # << >> /\ Head(rbuf).kind = "210" => listCtx = Head(rbuf).list

\* When nothing is on its way in either direction and the server has a user
\* on the connection, the client knows that it is logged in, however many
\* commands it had sent before the answer to /login came.
LoginIsNoticed ==
    (/\ phase = "running" /\ rbuf = << >> /\ server = "up" /\ session
     /\ writes = << >> /\ toServer = << >> /\ toClient = << >>)
    => loggedIn

\* The thread comes back to poll again and again: it does not wait for ever in
\* std::getline for the rest of a line. This is up to whoever types.
LinesGetEnded == []<>(~ reading)

\* A command that did not fit into the socket is sent when there is room, as
\* long as every line that is begun is ended: while the thread waits in
\* std::getline, it does not look after the socket.
CommandsGetOut ==
    LinesGetEnded => (writes # << >> ~> (writes = << >> \/ phase # "running"))

\* The client ends when the server does, as long as every line that is begun is
\* ended.
ServerGoneEndsClient ==
    LinesGetEnded => (server # "up" ~> phase \in {"left", "failed"})

\* "Your client will handle the following commands from the standard input":
\* a line that the client has read from standard input is handled. In the code
\* it stays in std::cin's buffer, which poll does not know of, until something
\* more is written to the pipe.
TypedLinesHandled == cin # << >> ~> (cin = << >> \/ phase # "running")
===============================================================================
