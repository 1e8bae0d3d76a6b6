--------------------------------- MODULE Wire ---------------------------------
(***************************************************************************)
(* One client and the server, byte by byte: a line is typed, checked and   *)
(* sent; the server reads the connection in pieces, cuts it into lines,    *)
(* splits each into arguments and answers; the client reads the answers in *)
(* pieces, cuts them into lines and displays each.                         *)
(*                                                                         *)
(* The client:                                                             *)
(*   left      it has left its event loop, after /logout                   *)
(*   pending   ServerMessageRouter::_pendingCommand                        *)
(*   listCtx   ServerMessageRouter::_listContext                           *)
(*   cbuf      ClientApplication::_serverReadBuffer                        *)
(* The server:                                                             *)
(*   aborted   the process was ended by the standard library               *)
(*   rbuf      the read buffer of the connection                           *)
(*   session   whether a user is logged in on the connection               *)
(*   texts     the name, description and body that were stored last        *)
(* The connection:                                                         *)
(*   up, down  bytes that were sent and not read yet                       *)
(* What happened (history variables):                                      *)
(*   typed     the lines that the client accepted: the line, its command   *)
(*             and its arguments as the client split them                  *)
(*   got       the arguments of every line that the server executed        *)
(*   meant     for every line that the server sent: the command that it    *)
(*             answers (its place in got, 0 for an event) and the display  *)
(*             that it is meant for, << >> when it is for none             *)
(*   shown     what every line displayed that the client has routed        *)
(*                                                                         *)
(* Which answer a handler gives is decided in modules Sessions, Workspace  *)
(* and PrivateMessages; here any of its answers may come.                  *)
(***************************************************************************)
EXTENDS Frames

CONSTANTS
    Lines,      \* the lines that may be typed
    MaxLines,   \* bound on the lines accepted and the events of other clients ...
    MaxChars,   \* ... and, of several, on their characters; an event counts for
    EventChars, \* ... so many
    MaxRead     \* a read returns at most so many bytes, or all that has arrived

ASSUME WireBoundsAssumption == {MaxLines, MaxChars, EventChars, MaxRead} \subseteq Nat

\* std::getline returns a line without its end.
ASSUME LinesAssumption == \A l \in Lines : l \in Seq(STRING) /\ ~ Contains(l, LF)

VARIABLES left, pending, listCtx, cbuf, aborted, rbuf, session, texts, up, down,
          typed, got, meant, shown

clientVars == << left, pending, listCtx, cbuf, shown >>
serverVars == << aborted, rbuf, session, texts, got, meant >>
wireVars == << left, pending, listCtx, cbuf, aborted, rbuf, session, texts, up, down,
               typed, got, meant, shown >>

-------------------------------------------------------------------------------
(* What a line is meant for: the function of the display library and its   *)
(* arguments, by the names that logging_client.h gives to its parameters.  *)

Meaning ==
    [USER_LOGGED_IN |-> << "client_event_logged_in", "user", "name" >>,
     USER_LOGGED_OUT |-> << "client_event_logged_out", "user", "name" >>,
     USER |-> << "client_print_user", "user", "name", "status" >>,
     UNKNOWN |-> << "client_error_unknown_user", "asked" >>,
     CREATED_TEAM |-> << "client_print_team_created", "team", "name", "description" >>,
     CREATED_CHANNEL |-> << "client_print_channel_created", "channel", "name", "description" >>,
     CREATED_THREAD |-> << "client_print_thread_created", "thread", "user", "timestamp",
                           "name", "body" >>,
     CREATED_REPLY |-> << "client_print_reply_created", "thread", "user", "timestamp", "body" >>,
     TEAM_CREATED |-> << "client_event_team_created", "team", "name", "description" >>,
     CHANNEL_CREATED |-> << "client_event_channel_created", "channel", "name", "description" >>,
     THREAD_CREATED |-> << "client_event_thread_created", "thread", "user", "timestamp",
                           "name", "body" >>,
     REPLY_CREATED |-> << "client_event_thread_reply_received", "team", "thread", "user",
                          "body" >>,
     INFO_USER |-> << "client_print_user", "user", "name", "status" >>,
     INFO_TEAM |-> << "client_print_team", "team", "name", "description" >>,
     INFO_CHANNEL |-> << "client_print_channel", "channel", "name", "description" >>,
     INFO_THREAD |-> << "client_print_thread", "thread", "user", "timestamp", "name", "body" >>,
     USERS |-> << "client_print_users", "user", "name", "status" >>,
     TEAMS |-> << "client_print_teams", "team", "name", "description" >>,
     CHANNELS |-> << "client_team_print_channels", "channel", "name", "description" >>,
     THREADS |-> << "client_channel_print_threads", "thread", "user", "timestamp", "name",
                    "body" >>,
     REPLIES |-> << "client_thread_print_replies", "thread", "user", "timestamp", "body" >>,
     MESSAGES |-> << "client_private_message_print_messages", "user", "timestamp", "body" >>,
     SUBSCRIBE |-> << "client_print_subscribed", "user", "team" >>,
     UNSUBSCRIBE |-> << "client_print_unsubscribed", "user", "team" >>,
     PRIVATE_MESSAGE |-> << "client_event_private_message_received", "user", "body" >>,
     BAD_REQUEST |-> << "bad_request" >>,
     UNAUTHORIZED |-> << "client_error_unauthorized" >>,
     FORBIDDEN |-> << "client_error_unauthorized" >>,
     ALREADY_EXISTS |-> << "client_error_already_exist" >>,
     UNKNOWN_TEAM |-> << "client_error_unknown_team", "asked" >>,
     UNKNOWN_CHANNEL |-> << "client_error_unknown_channel", "asked" >>,
     UNKNOWN_THREAD |-> << "client_error_unknown_thread", "asked" >>,
     UNKNOWN_USER |-> << "client_error_unknown_user", "asked" >>]

\* The display that a line of this kind with the values v is meant for.
meaning(kind, v) ==
    IF kind \notin DOMAIN Meaning THEN << >>
    ELSE << call(Head(Meaning[kind]),
                 [i \in 1..(Len(Meaning[kind]) - 1) |-> v[Meaning[kind][i + 1]]]) >>

-------------------------------------------------------------------------------
(* Bounds *)

events == Len(SelectSeq(meant, LAMBDA m : m.to = 0))

\* There is room for one more line of n characters.
Within(n) ==
    LET chars == fold(LAMBDA k, t : k + Len(t.line), EventChars * events, typed)
    IN  Len(typed) + events = 0 \/ (Len(typed) + events < MaxLines /\ chars + n <= MaxChars)

\* The numbers of bytes that a read of the bytes s may return.
ReadSizes(s) == {n \in 1..Len(s) : n <= MaxRead \/ n = Len(s)}

-------------------------------------------------------------------------------
(* The client *)

\* The loop of handleServerReadable has routed all that was read.
ClientPolls == ~ left /\ ~ hasLine(cbuf)

\* ClientApplication::handleStdinEvent drops a CR before the end of the line.
withoutCR(l) == IF l # << >> /\ Last(l) = CR THEN Front(l) ELSE l

\* The lines that are accepted, with what the client makes of them; any other
\* line changes nothing.
Accepted ==
    UNION {{[line |-> l, as |-> a] : a \in accepted(l)} : l \in {withoutCR(k) : k \in Lines}}

\* ClientApplication::dispatchCommandLine of a line that is accepted, and
\* sendCommandFrame.
Type(l) ==
    /\ ClientPolls
    /\ Within(Len(l.line))
    /\ pending' = l.as.command
    /\ up' = up \o l.as.frame \o << CR, LF >>
    /\ typed' = Append(typed, [line |-> l.line, args |-> << l.as.command >> \o l.as.args])
    /\ UNCHANGED << left, listCtx, cbuf, shown, serverVars, down >>

\* ClientApplication::handleServerReadable: a read may return any part of
\* what has arrived. (A frame longer than MAX_SERVER_FRAME_SIZE ends the
\* client; the server's longest frame is far shorter.)
ClientRead ==
    /\ ClientPolls /\ down # << >>
    /\ \E n \in ReadSizes(down) :
          /\ cbuf' = cbuf \o SubSeq(down, 1, n)
          /\ down' = SubSeq(down, n + 1, Len(down))
    /\ UNCHANGED << left, pending, listCtx, shown, serverVars, up, typed >>

\* The tokens of a line; a line that cannot be split is like an empty one.
tokensOf(line) == IF parse(line) = {} THEN {<< >>} ELSE parse(line)

\* ServerMessageRouter::routeFrame for the next line that was read. The answer
\* to /logout ends the loop. (What a login leaves in User is in module Client.)
routeFrame ==
    /\ ~ left /\ hasLine(cbuf)
    /\ cbuf' = afterLine(cbuf)
    /\ \E t \in tokensOf(firstLine(cbuf)) :
           LET first == IF t = << >> THEN << >> ELSE t[1]
           IN
           /\ listCtx' = IF first = << "210-BEGIN" >> /\ Len(t) >= 2 THEN t[2]
                         ELSE IF first = << "210-END" >> THEN << >> ELSE listCtx
           /\ left' = (/\ Len(t) \in 2..3 /\ first = << "200" >> /\ t[2] = << "OK" >>
                       /\ pending = << "/logout" >>)
           /\ shown' = Append(shown, displayed(t, listCtx, pending))
    /\ UNCHANGED << pending, serverVars, up, down, typed >>

-------------------------------------------------------------------------------
(* The server *)

ServerPolls == ~ aborted /\ ~ hasLine(rbuf)

\* Server::_handleRead.
ServerRead ==
    /\ ServerPolls /\ up # << >>
    /\ \E n \in ReadSizes(up) :
          /\ rbuf' = rbuf \o SubSeq(up, 1, n)
          /\ up' = SubSeq(up, n + 1, Len(up))
    /\ UNCHANGED << clientVars, aborted, session, texts, got, meant, down, typed >>

\* The values of the fields of an answer: what is stored, and the last
\* argument of the command.
values(stored, args) ==
    [user |-> << "u" >>, team |-> << "t" >>, channel |-> << "h" >>, thread |-> << "r" >>,
     timestamp |-> << "1" >>, status |-> << "0" >>, name |-> stored.name,
     description |-> stored.description, body |-> stored.body, asked |-> Last(args)]

\* A line of the given kind; a list with its first and its last line.
one(kind) == [kind |-> kind, parts |-> format(kind)]
listOf(l, items) ==
    << [kind |-> "BEGIN", parts |-> << word("210-BEGIN"), word(l) >>] >> \o items
    \o << [kind |-> "END", parts |-> << word("210-END"), word(l) >>] >>

\* What a handler may do: the lines that this connection gets, the texts that
\* are stored and whether somebody is logged in afterwards.
outcome(lines) == [lines |-> lines, texts |-> texts, session |-> session]
says(kind) == outcome(<< one(kind) >>)
saysBoth(first, second) == outcome(<< one(first), one(second) >>)
lists(l) == {outcome(listOf(l, items)) : items \in {<< >>, << one(l) >>}}

Empty(args) == << >> \in ToSet(Tail(args))

\* The outcomes, behind the checks that most handlers begin with.
checked(args, outcomes) ==
    IF ~ session THEN {says("UNAUTHORIZED")}
    ELSE IF Empty(args) THEN {says("BAD_REQUEST")} ELSE outcomes

\* Login::execute.
Login(args) ==
    IF session THEN {says("UNAUTHORIZED")}
    ELSE IF Empty(args) THEN {says("BAD_REQUEST")}
    ELSE {[saysBoth("LOGIN", "USER_LOGGED_IN") EXCEPT !.texts.name = args[2], !.session = TRUE]}

\* Logout::execute: the event comes when it was the user's last session.
Logout(args) ==
    checked(args, {[o EXCEPT !.session = FALSE] :
                      o \in {says("OK"), saysBoth("USER_LOGGED_OUT", "OK")}})

\* UsersCommand::execute and UserCommand::execute; an empty uuid is unknown.
Users(args) == checked(args, lists("USERS"))
User(args) == IF ~ session THEN {says("UNAUTHORIZED")} ELSE {says("USER"), says("UNKNOWN")}

\* Send::execute: the arguments are checked before the login. The event is for
\* this connection when the message is.
Send(args) ==
    IF Empty(args) THEN {says("BAD_REQUEST")}
    ELSE IF ~ session THEN {says("UNAUTHORIZED")}
    ELSE {says("UNKNOWN_USER")} \cup {[o EXCEPT !.texts.body = args[3]] :
                                        o \in {says("OK"), saysBoth("PRIVATE_MESSAGE", "OK")}}

\* Messages::execute.
Messages(args) == checked(args, {says("UNKNOWN_USER")} \cup lists("MESSAGES"))

\* Subscribe::execute: a new subscriber also gets the notification.
Subscribe(args) ==
    checked(args, {says("UNKNOWN_TEAM"), says("SUBSCRIBE"),
                   saysBoth("user_subscribed", "SUBSCRIBE")})

\* Unsubscribe::execute.
Unsubscribe(args) ==
    checked(args, {says("UNKNOWN_TEAM"), says("FORBIDDEN"), says("UNSUBSCRIBE")})

\* Subscribed::execute.
Subscribed(args) ==
    checked(args, IF Len(args) = 1 THEN lists("TEAMS")
                  ELSE {says("UNKNOWN_TEAM")} \cup lists("USERS"))

\* Use::execute: an answer for each argument up to the first that is refused.
Use(args) ==
    LET oks(n) == [i \in 1..n |-> one("OK")]
        refused == << {"UNKNOWN_TEAM", "FORBIDDEN"}, {"UNKNOWN_CHANNEL"}, {"UNKNOWN_THREAD"} >>
    IN  IF ~ session THEN {says("UNAUTHORIZED")}
        ELSE {outcome(oks(IF Len(args) = 1 THEN 1 ELSE Len(args) - 1))}
             \cup UNION {{outcome(Append(oks(i - 1), one(k))) : k \in refused[i]} :
                            i \in 1..Len(args) - 1}

\* Create::execute: the team is checked before the arguments. In a thread the
\* first argument is the body.
Create(args) ==
    LET creates(first, second) ==
            [saysBoth(first, second) EXCEPT
               !.texts = [name |-> args[2], description |-> args[3], body |-> args[3]]]
    IN  IF ~ session THEN {says("UNAUTHORIZED")}
        ELSE {says("BAD_REQUEST"), says("FORBIDDEN")}
             \cup (IF Empty(args) THEN {}
                   ELSE {[saysBoth("CREATED_REPLY", "REPLY_CREATED") EXCEPT
                             !.texts.body = args[2]]})
             \cup (IF Empty(args) \/ Len(args) < 3 THEN {}
                   ELSE {says("ALREADY_EXISTS"), creates("CREATED_TEAM", "TEAM_CREATED"),
                         creates("CREATED_CHANNEL", "CHANNEL_CREATED"),
                         creates("CREATED_THREAD", "THREAD_CREATED")})

\* List::execute and Info::execute.
List(args) ==
    checked(args, {says("FORBIDDEN")} \cup lists("TEAMS") \cup lists("CHANNELS")
                  \cup lists("THREADS") \cup lists("REPLIES"))
Info(args) ==
    checked(args, {says(k) : k \in {"FORBIDDEN", "INFO_USER", "INFO_TEAM", "INFO_CHANNEL",
                                    "INFO_THREAD"}})

\* ICommand::execute of the handler of a command.
execute(args) ==
    LET cmd == args[1]
    IN  CASE cmd = << "/create" >>      -> Create(args)
          [] cmd = << "/list" >>        -> List(args)
          [] cmd = << "/use" >>         -> Use(args)
          [] cmd = << "/info" >>        -> Info(args)
          [] cmd = << "/subscribe" >>   -> Subscribe(args)
          [] cmd = << "/unsubscribe" >> -> Unsubscribe(args)
          [] cmd = << "/subscribed" >>  -> Subscribed(args)
          [] cmd = << "/login" >>       -> Login(args)
          [] cmd = << "/logout" >>      -> Logout(args)
          [] cmd = << "/send" >>        -> Send(args)
          [] cmd = << "/messages" >>    -> Messages(args)
          [] cmd = << "/user" >>        -> User(args)
          [] cmd = << "/users" >>       -> Users(args)

\* Regression variant: a command is registered under another name.
commandsMistyped ==
    {"/create", "/list", "/use", "/info", "/subscribe", "/unsubscribe", "/suscribed", "/login",
     "/logout", "/send", "/messages", "/user", "/users"}

\* CommandHandling::_commands.
commands ==
    {"/create", "/list", "/use", "/info", "/subscribe", "/unsubscribe", "/subscribed", "/login",
     "/logout", "/send", "/messages", "/user", "/users"}

\* The lines ls, with the values v, are put into the write buffer; they answer
\* the command number n.
send(ls, v, n) ==
    /\ down' = fold(LAMBDA d, l : d \o render(l.parts, v), down, ls)
    /\ meant' = meant \o [i \in DOMAIN ls |-> [to |-> n, as |-> meaning(ls[i].kind, v)]]

\* CommandHandling::handleCommand. An unknown command is not answered.
handleCommand(args) ==
    /\ got' = Append(got, args)
    /\ \E o \in IF args[1] \in {<< c >> : c \in commands} THEN execute(args)
                ELSE {outcome(<< >>)} :
          /\ send(o.lines, values(o.texts, args), Len(got'))
          /\ texts' = o.texts /\ session' = o.session

\* Server::_parseCommands for the next line that was read; an empty one is
\* skipped. On a word that is a quote alone, parseArgs asks for the last
\* character of an empty string: a standard library with assertions ends the
\* process, another one goes on as if it were no quote.
parseCommand ==
    /\ ~ aborted /\ hasLine(rbuf)
    /\ rbuf' = afterLine(rbuf)
    /\ \/ \E args \in {parseArgs(firstLine(rbuf))} :
             /\ IF args = << >> THEN UNCHANGED << session, texts, got, meant, down >>
                ELSE handleCommand(args)
             /\ UNCHANGED aborted
       \/ /\ readsEmptyBack(firstLine(rbuf))
          /\ aborted' = TRUE
          /\ UNCHANGED << session, texts, got, meant, down >>
    /\ UNCHANGED << clientVars, up, typed >>

\* An event of another client's doing.
ServerEvent(kind) ==
    /\ ServerPolls
    /\ Within(EventChars)
    /\ send(<< one(kind) >>, values(texts, << << >> >>), 0)
    /\ UNCHANGED << clientVars, aborted, rbuf, session, texts, up, typed, got >>

Events == {"USER_LOGGED_IN", "USER_LOGGED_OUT", "TEAM_CREATED", "CHANNEL_CREATED",
           "THREAD_CREATED", "REPLY_CREATED", "PRIVATE_MESSAGE", "user_subscribed",
           "user_unsubscribed"}

-------------------------------------------------------------------------------

\* The start, or any later time when nothing is on its way: somebody may have
\* logged in, and texts were stored.
WireInit ==
    /\ left = FALSE /\ pending = << >> /\ listCtx = << >> /\ cbuf = << >>
    /\ aborted = FALSE /\ rbuf = << >> /\ session \in BOOLEAN
    /\ texts = [name |-> << "a" >>, description |-> << "a" >>, body |-> << "a" >>]
    /\ up = << >> /\ down = << >>
    /\ typed = << >> /\ got = << >> /\ meant = << >> /\ shown = << >>

WireNext ==
    \/ \E l \in Accepted : Type(l)
    \/ ServerRead \/ parseCommand
    \/ \E kind \in Events : ServerEvent(kind)
    \/ ClientRead \/ routeFrame

\* Both processes go on polling and reading; nobody has to type.
WireFairness ==
    /\ WF_wireVars(ServerRead) /\ WF_wireVars(parseCommand)
    /\ WF_wireVars(ClientRead) /\ WF_wireVars(routeFrame)

WireSpec == WireInit /\ [][WireNext]_wireVars /\ WireFairness

-------------------------------------------------------------------------------
(* Properties *)

\* Type invariant of the connection. No argument and no stored text holds
\* white space other than blanks, so none can end a line of an answer.
WireTypeOK ==
    /\ {left, aborted, session} \subseteq BOOLEAN
    /\ pending \in {<< >>} \cup {s.name : s \in schemas}
    /\ listCtx \in {<< >>} \cup {<< l >> : l \in DOMAIN listFormats}
    /\ \A n \in DOMAIN got : \A i \in DOMAIN got[n] : ToSet(got[n][i]) \cap {CR, LF} = {}
    /\ \A f \in DOMAIN texts : ToSet(texts[f]) \cap {CR, LF} = {}

\* However the bytes of the connection are cut into reads, the server executes
\* exactly the lines that the client has accepted, in their order, each with
\* the command and the arguments that the client has checked: the two sides
\* split a line by two separate pieces of code.
ArgumentsArriveAsChecked == IsPrefix(got, [n \in DOMAIN typed |-> typed[n].args])

\* "A missing quote should be interpreted as an error": of a line with an odd
\* number of quotes nothing is ever sent.
MissingQuoteIsError ==
    \A n \in DOMAIN typed :
        Cardinality({i \in DOMAIN typed[n].line : typed[n].line[i] = Quote}) % 2 = 0

\* The display d with the escapes of quoteProtocolField left in its texts.
escaped(d) ==
    [i \in DOMAIN d |-> call(d[i].function,
                             [j \in DOMAIN d[i].fields |-> escape(d[i].fields[j])])]

\* Every line that the server sends is displayed by the function that it is
\* meant for, with every field in its place and whole, however the bytes are
\* cut into reads and whatever quotes, backslashes and blanks the texts hold.
\* Two things are left open. The fields may be shown as they are written on
\* the connection: TokenParser takes the quotes around a field away and leaves
\* the backslashes of quoteProtocolField in it. And the answer to /user for an
\* unknown user may be lost when another command was sent since, which
\* AnswersMeetTheirCommand is about.
ShownAsMeant ==
    /\ Len(shown) <= Len(meant)
    /\ \A n \in DOMAIN shown :
          \/ shown[n] \in {meant[n].as, escaped(meant[n].as)}
          \/ /\ shown[n] = << >> /\ Len(typed) > meant[n].to
             /\ got[meant[n].to][1] = << "/user" >>

\* An answer has its effect also when another command was sent before it came.
\* Of client_error_unknown_user logging_client.h says "Must be called when the
\* user try to do an action with a user that does not exist (send private
\* message, /user)", of /logout the subject says "disconnect the client from the
\* server". Neither answer says what it is an answer to, and the code goes by
\* the command that was sent last.
AnswersMeetTheirCommand ==
    \A n \in DOMAIN shown : meant[n].to # 0 =>
        /\ (\E i \in DOMAIN meant[n].as : meant[n].as[i].function = "client_error_unknown_user")
              => shown[n] # << >>
        /\ got[meant[n].to][1] = << "/logout" >> /\ meant[n].as = << >> => left

\* Every command that the client sends is eventually executed, answered by at
\* least one line, and all the lines of its answer are displayed.
AnswersAreShown ==
    typed # << >> ~>
        \/ aborted \/ left
        \/ /\ Len(got) = Len(typed) /\ Len(shown) = Len(meant)
           /\ \A n \in DOMAIN got : \E m \in DOMAIN meant : meant[m].to = n
===============================================================================
