------------------------------- MODULE Protocol -------------------------------
(***************************************************************************)
(* The vocabulary shared by the server's modules: the lines the server     *)
(* appends to the write buffers of its clients, and the helpers with which *)
(* the command handlers append them.                                       *)
(*                                                                         *)
(* A line is abstracted to the words that classify it (its status or event *)
(* name, and the online flag where it carries one) and to the set of ids   *)
(* it speaks about; names, bodies, timestamps and quoting are left out.    *)
(*                                                                         *)
(* "Output" is a function from connections to sequences of lines: what ONE *)
(* handler appended to each write buffer, in order.                        *)
(***************************************************************************)
EXTENDS Naturals, Sequences, FiniteSets

CONSTANTS
    Conns,      \* the client connections (file descriptors) the server may hold
    UserIds,    \* the uuids that createNewUser may generate
    Names,      \* the legal names: non-empty, at most MAX_NAME_LENGTH
    Subjects,   \* every id a line may speak about
    None,       \* the empty uuid, and an argument that was not given
    Invalid     \* an argument that is empty or too long

ASSUME ConnsAssumption == IsFiniteSet(Conns)
ASSUME NoneAssumption == None \notin UserIds \cup Names
ASSUME InvalidAssumption == Invalid \notin UserIds \cup Names \cup {None}
ASSUME SubjectsAssumption == UserIds \subseteq Subjects

\* The kinds of lines: answers, items of a 210 list, and events.
Kinds ==
    {"200 OK", "200 USER 1", "200 USER 0", "200 SUBSCRIBE", "200 UNSUBSCRIBE",
     "200 INFO USER 1", "200 INFO USER 0", "200 INFO TEAM", "200 INFO CHANNEL",
     "200 INFO THREAD",
     "201 CREATED TEAM", "201 CREATED CHANNEL", "201 CREATED THREAD", "201 CREATED REPLY",
     "210-BEGIN", "210 USER 1", "210 USER 0", "210 TEAM", "210 CHANNEL", "210 THREAD",
     "210 REPLY", "210 MESSAGE", "210-END",
     "400 BAD_REQUEST", "401 UNAUTHORIZED", "403 FORBIDDEN", "404 NOT_FOUND",
     "404 NOT_FOUND TEAM", "404 NOT_FOUND CHANNEL", "404 NOT_FOUND THREAD",
     "404 NOT_FOUND USER", "409 ALREADY_EXISTS",
     "EVENT USER_LOGGED_IN", "EVENT USER_LOGGED_OUT", "EVENT TEAM_CREATED",
     "EVENT CHANNEL_CREATED", "EVENT THREAD_CREATED", "EVENT REPLY_CREATED",
     "EVENT PRIVATE_MESSAGE", "user_subscribed", "user_unsubscribed"}

Line == [kind : Kinds, of : SUBSET Subjects]

Output == [Conns -> Seq(Line)]

\* A line of the given kind about the given ids.
line(kind, of) == [kind |-> kind, of |-> of]

\* Nobody is sent anything.
NoOutput == [c \in Conns |-> << >>]

\* Server::sendToClient: append m to the write buffer of c.
sendToClient(m, c) == [d \in Conns |-> IF d = c THEN << m >> ELSE << >>]

\* Server::broadcast: append m to the write buffer of every connection of
\* the table, whether or not somebody is logged in on it.
broadcast(m, table) == [d \in Conns |-> IF d \in table THEN << m >> ELSE << >>]

\* The output of a handler that first produces a and then b.
Then(a, b) == [d \in Conns |-> a[d] \o b[d]]

\* A 210 list: a begin line, the items, an end line.
list(items) == << line("210-BEGIN", {}) >> \o items \o << line("210-END", {}) >>

\* Several lines to one client, one after the other.
sendList(ms, c) == [d \in Conns |-> IF d = c THEN ms ELSE << >>]

===============================================================================
