-------------------------------- MODULE Frames --------------------------------
(***************************************************************************)
(* The lines that the server sends, field by field, and what the client    *)
(* makes of them: which function of the display library is called, with    *)
(* which fields, for a line that the client tells from others only by its  *)
(* words, their number and the list that is open.                          *)
(*                                                                         *)
(* The fields: uuids (user, team, channel, thread), the numbers timestamp  *)
(* and status, and texts that came from a client: name (also the title of  *)
(* a thread), description, body, and asked, the argument that was not      *)
(* found.                                                                  *)
(***************************************************************************)
EXTENDS Text

Digits == {"0", "1"}

-------------------------------------------------------------------------------
(* The server: the format of each line *)

word(w) == [as |-> "word", of |-> w]
quoted(f) == [as |-> "quoted", of |-> f]    \* Utils::quoteProtocolField
bare(f) == [as |-> "bare", of |-> f]        \* quotes, and no escapes
plain(f) == [as |-> "plain", of |-> f]      \* std::to_string

status(code, text) == << word(code), word(text) >>
event(name, fields) == status("EVENT", name) \o fields

aUser == << quoted("user"), quoted("name"), plain("status") >>
aTeam == << quoted("team"), quoted("name"), quoted("description") >>
aChannel == << quoted("channel"), quoted("name"), quoted("description") >>
aThread == << quoted("thread"), quoted("user"), plain("timestamp"), quoted("name"),
              quoted("body") >>
aReply == << quoted("thread"), quoted("user"), plain("timestamp"), quoted("body") >>
aMessage == << quoted("user"), plain("timestamp"), quoted("body") >>

loginFormats ==
    [LOGIN |-> status("200", "OK") \o << bare("user"), bare("name") >>,
     USER_LOGGED_IN |-> event("USER_LOGGED_IN", << quoted("user"), quoted("name") >>)]

logoutFormats ==
    [OK |-> status("200", "OK"),
     USER_LOGGED_OUT |-> event("USER_LOGGED_OUT", << quoted("user"), quoted("name") >>)]

userFormats ==
    [USER |-> status("200", "USER") \o aUser,
     UNKNOWN |-> status("404", "NOT_FOUND") \o << quoted("asked") >>]

createFormats ==
    LET created(what) == status("201", "CREATED") \o << word(what) >>
    IN  [CREATED_TEAM |-> created("TEAM") \o aTeam,
         CREATED_CHANNEL |-> created("CHANNEL") \o aChannel,
         CREATED_THREAD |-> created("THREAD") \o aThread,
         CREATED_REPLY |-> created("REPLY") \o aReply,
         TEAM_CREATED |-> event("TEAM_CREATED", aTeam),
         CHANNEL_CREATED |-> event("CHANNEL_CREATED", aChannel),
         THREAD_CREATED |-> event("THREAD_CREATED", aThread),
         REPLY_CREATED |-> event("REPLY_CREATED", << quoted("team"), quoted("thread"),
                                                     quoted("user"), quoted("body") >>)]

infoFormats ==
    LET info(what) == status("200", "INFO") \o << word(what) >>
    IN  [INFO_USER |-> info("USER") \o aUser, INFO_TEAM |-> info("TEAM") \o aTeam,
         INFO_CHANNEL |-> info("CHANNEL") \o aChannel,
         INFO_THREAD |-> info("THREAD") \o aThread]

\* Regression variant: the timestamp comes before the sender.
listFormatsTimeFirst ==
    LET item == << word("210") >>
    IN  [USERS |-> item \o aUser, TEAMS |-> item \o aTeam, CHANNELS |-> item \o aChannel,
         THREADS |-> item \o aThread, REPLIES |-> item \o aReply,
         MESSAGES |-> item \o << plain("timestamp"), quoted("user"), quoted("body") >>]

\* The items of the lists: /list, and with the same formats /users,
\* /subscribed and /messages.
listFormats ==
    LET item == << word("210") >>
    IN  [USERS |-> item \o aUser, TEAMS |-> item \o aTeam, CHANNELS |-> item \o aChannel,
         THREADS |-> item \o aThread, REPLIES |-> item \o aReply,
         MESSAGES |-> item \o aMessage]

subscribeFormats ==
    [SUBSCRIBE |-> status("200", "SUBSCRIBE") \o << quoted("user"), quoted("team") >>,
     user_subscribed |-> << word("user_subscribed"), bare("team"), bare("user") >>]

unsubscribeFormats ==
    [UNSUBSCRIBE |-> status("200", "UNSUBSCRIBE") \o << quoted("user"), quoted("team") >>,
     user_unsubscribed |-> << word("user_unsubscribed"), bare("team"), bare("user") >>]

sendFormats ==
    [PRIVATE_MESSAGE |-> event("PRIVATE_MESSAGE", << quoted("user"), quoted("body") >>)]

errorFormats ==
    LET unknown(what) == status("404", "NOT_FOUND") \o << word(what), quoted("asked") >>
    IN  [BAD_REQUEST |-> status("400", "BAD_REQUEST"),
         UNAUTHORIZED |-> status("401", "UNAUTHORIZED"),
         FORBIDDEN |-> status("403", "FORBIDDEN"),
         ALREADY_EXISTS |-> status("409", "ALREADY_EXISTS"),
         UNKNOWN_TEAM |-> unknown("TEAM"), UNKNOWN_CHANNEL |-> unknown("CHANNEL"),
         UNKNOWN_THREAD |-> unknown("THREAD"), UNKNOWN_USER |-> unknown("USER")]

\* The format of a line of this kind.
format(kind) ==
    CASE kind \in DOMAIN loginFormats       -> loginFormats[kind]
      [] kind \in DOMAIN logoutFormats      -> logoutFormats[kind]
      [] kind \in DOMAIN userFormats        -> userFormats[kind]
      [] kind \in DOMAIN createFormats      -> createFormats[kind]
      [] kind \in DOMAIN infoFormats        -> infoFormats[kind]
      [] kind \in DOMAIN listFormats        -> listFormats[kind]
      [] kind \in DOMAIN subscribeFormats   -> subscribeFormats[kind]
      [] kind \in DOMAIN unsubscribeFormats -> unsubscribeFormats[kind]
      [] kind \in DOMAIN sendFormats        -> sendFormats[kind]
      [] kind \in DOMAIN errorFormats       -> errorFormats[kind]

\* The text of a part with the values v.
part(p, v) ==
    CASE p.as = "word"   -> << p.of >>
      [] p.as = "quoted" -> quoteProtocolField(v[p.of])
      [] p.as = "bare"   -> << Quote >> \o v[p.of] \o << Quote >>
      [] p.as = "plain"  -> v[p.of]

\* The text of a line: its parts, separated by blanks, and the line end.
joinParts(parts, v) ==
    fold(LAMBDA t, p : t \o << Blank >> \o part(p, v), part(Head(parts), v), Tail(parts))
render(parts, v) == joinParts(parts, v) \o << CR, LF >>

-------------------------------------------------------------------------------
(* The client: what a line with the tokens t displays, << >> or one call *)

call(function, fields) == [function |-> function, fields |-> fields]
showIf(condition, function, fields) ==
    IF condition THEN << call(function, fields) >> ELSE << >>

\* std::stoll and std::stoi find a number at the start of the token.
number(token) == token # << >> /\ Head(token) \in Digits

TeamCreatedHandler(t) == showIf(Len(t) >= 5, "client_event_team_created", SubSeq(t, 3, 5))

ChannelCreatedHandler(t) ==
    showIf(Len(t) >= 5, "client_event_channel_created", SubSeq(t, 3, 5))

ThreadCreatedHandler(t) ==
    showIf(Len(t) >= 7 /\ number(t[5]), "client_event_thread_created", SubSeq(t, 3, 7))

ReplyCreatedHandler(t) ==
    showIf(Len(t) >= 6, "client_event_thread_reply_received", SubSeq(t, 3, 6))

UserLoggedInHandler(t) == showIf(Len(t) >= 4, "client_event_logged_in", SubSeq(t, 3, 4))

UserLoggedOutHandler(t) == showIf(Len(t) >= 4, "client_event_logged_out", SubSeq(t, 3, 4))

PrivateMessageHandler(t) ==
    showIf(Len(t) >= 4, "client_event_private_message_received", SubSeq(t, 3, 4))

\* ServerMessageRouter::registerListHandlers: an item of the open list.
listHandlers(list, t) ==
    CASE list = << "USERS" >> ->
            showIf(Len(t) >= 4 /\ number(t[4]), "client_print_users", SubSeq(t, 2, 4))
      [] list = << "TEAMS" >> ->
            showIf(Len(t) >= 4, "client_print_teams", SubSeq(t, 2, 4))
      [] list = << "CHANNELS" >> ->
            showIf(Len(t) >= 4, "client_team_print_channels", SubSeq(t, 2, 4))
      [] list = << "THREADS" >> ->
            showIf(Len(t) >= 6 /\ number(t[4]), "client_channel_print_threads", SubSeq(t, 2, 6))
      [] list = << "REPLIES" >> ->
            showIf(Len(t) >= 5 /\ number(t[4]), "client_thread_print_replies", SubSeq(t, 2, 5))
      [] list = << "MESSAGES" >> ->
            showIf(Len(t) >= 4 /\ number(t[3]), "client_private_message_print_messages",
                   SubSeq(t, 2, 4))
      [] OTHER -> << >>

handle200Info(t) ==
    CASE Len(t) < 3 -> << >>
      [] t[3] = << "USER" >> ->
            showIf(Len(t) >= 6 /\ number(t[6]), "client_print_user", SubSeq(t, 4, 6))
      [] t[3] = << "TEAM" >> -> showIf(Len(t) >= 6, "client_print_team", SubSeq(t, 4, 6))
      [] t[3] = << "CHANNEL" >> ->
            showIf(Len(t) >= 6, "client_print_channel", SubSeq(t, 4, 6))
      [] t[3] = << "THREAD" >> ->
            showIf(Len(t) >= 8 /\ number(t[6]), "client_print_thread", SubSeq(t, 4, 8))
      [] OTHER -> << >>

handle200User(t) ==
    showIf(Len(t) >= 5 /\ number(t[5]), "client_print_user", SubSeq(t, 3, 5))

handle200Subscribe(t) == showIf(Len(t) >= 4, "client_print_subscribed", SubSeq(t, 3, 4))

handle200Unsubscribe(t) == showIf(Len(t) >= 4, "client_print_unsubscribed", SubSeq(t, 3, 4))

\* The OK case displays nothing (see routeFrame in module Wire).
handle200(t) ==
    CASE Len(t) < 2 -> << >>
      [] t[2] = << "USER" >>        -> handle200User(t)
      [] t[2] = << "SUBSCRIBE" >>   -> handle200Subscribe(t)
      [] t[2] = << "UNSUBSCRIBE" >> -> handle200Unsubscribe(t)
      [] t[2] = << "INFO" >>        -> handle200Info(t)
      [] OTHER -> << >>

handle201(t) ==
    CASE Len(t) < 3 -> << >>
      [] t[3] = << "TEAM" >> ->
            showIf(Len(t) >= 6, "client_print_team_created", SubSeq(t, 4, 6))
      [] t[3] = << "CHANNEL" >> ->
            showIf(Len(t) >= 6, "client_print_channel_created", SubSeq(t, 4, 6))
      [] t[3] = << "THREAD" >> ->
            showIf(Len(t) >= 8 /\ number(t[6]), "client_print_thread_created", SubSeq(t, 4, 8))
      [] t[3] = << "REPLY" >> ->
            showIf(Len(t) >= 7 /\ number(t[6]), "client_print_reply_created", SubSeq(t, 4, 7))
      [] OTHER -> << >>

\* Without the word that says what is unknown, the client goes by the command
\* that was sent last.
handle404(t, pending) ==
    IF Len(t) >= 4
    THEN CASE t[3] = << "TEAM" >> -> << call("client_error_unknown_team", << t[4] >>) >>
           [] t[3] = << "CHANNEL" >> -> << call("client_error_unknown_channel", << t[4] >>) >>
           [] t[3] = << "THREAD" >> -> << call("client_error_unknown_thread", << t[4] >>) >>
           [] t[3] = << "USER" >> -> << call("client_error_unknown_user", << t[4] >>) >>
           [] OTHER -> << >>
    ELSE showIf(Len(t) >= 3 /\ pending \in {<< "/user" >>, << "/send" >>, << "/messages" >>},
                "client_error_unknown_user", << t[3] >>)

\* ResponseStatusHandler::handle, for the status codes.
handle(code, t, pending) ==
    CASE code = << "200" >> -> handle200(t)
      [] code = << "201" >> -> handle201(t)
      [] code = << "400" >> -> << call("bad_request", << >>) >>
      [] code \in {<< "401" >>, << "403" >>} -> << call("client_error_unauthorized", << >>) >>
      [] code = << "404" >> -> handle404(t, pending)
      [] code = << "409" >> -> << call("client_error_already_exist", << >>) >>
      [] OTHER -> << >>

\* ServerMessageRouter::_handlers: the handler that is registered for a word.
handlers(command, t, pending) ==
    CASE command = << "TEAM_CREATED" >>    -> TeamCreatedHandler(t)
      [] command = << "CHANNEL_CREATED" >> -> ChannelCreatedHandler(t)
      [] command = << "THREAD_CREATED" >>  -> ThreadCreatedHandler(t)
      [] command = << "REPLY_CREATED" >>   -> ReplyCreatedHandler(t)
      [] command = << "USER_LOGGED_IN" >>  -> UserLoggedInHandler(t)
      [] command = << "USER_LOGGED_OUT" >> -> UserLoggedOutHandler(t)
      [] command = << "PRIVATE_MESSAGE" >> -> PrivateMessageHandler(t)
      [] OTHER -> handle(command, t, pending)

\* What ServerMessageRouter::routeFrame displays.
displayed(t, list, pending) ==
    CASE t = << >> \/ t[1] \in {<< "210-BEGIN" >>, << "210-END" >>} -> << >>
      [] t[1] = << "210" >> -> listHandlers(list, t)
      [] t[1] = << "EVENT" >> -> IF Len(t) < 2 THEN << >> ELSE handlers(t[2], t, pending)
      [] OTHER -> handlers(t[1], t, pending)
===============================================================================
