------------------------------- MODULE Sessions -------------------------------
(***************************************************************************)
(* Connections, users and login sessions of myteams_server.                *)
(*                                                                         *)
(*   clients   Server::_clients, the connections that are in the table     *)
(*   userOf    Client::_userUuid of each connection (None: empty)          *)
(*   name      Database::_users: name[u] is the name of the registered     *)
(*             user u, None when no user has that uuid                     *)
(*   count     User::_connectedCount                                       *)
(*   out       what the last handler appended to each write buffer         *)
(*                                                                         *)
(* The server is one thread: one handler runs to completion per event, so  *)
(* a handler is one action. What interleaves is the commands, hang-ups and *)
(* accepts of the different connections.                                   *)
(***************************************************************************)
EXTENDS Protocol

VARIABLES clients, userOf, name, count, out

sessionVars == << clients, userOf, name, count >>
vars == << clients, userOf, name, count, out >>

-------------------------------------------------------------------------------
(* Database and User *)

Registered == {u \in UserIds : name[u] # None}

\* Database::findUser, as the set of its results.
findUser(u) == {v \in Registered : v = u}

\* Regression variant: only users who are online are found.
findOnlineUserByName(n) == {v \in Registered : name[v] = n /\ count[v] > 0}

\* Database::findUserByName, as the set of its results.
findUserByName(n) == {v \in Registered : name[v] = n}

isConnected(k) == k > 0

incrementConnection(k) == k + 1

\* Regression variant: the counter is cleared instead of decremented.
clearConnection(k) == 0

decrementConnection(k) == IF k > 0 THEN k - 1 ELSE k

\* The connection counts once the user of connection c has lost a session.
countAfterLeaving(c) ==
    [u \in UserIds |-> IF u \in findUser(userOf[c])
                       THEN decrementConnection(count[u]) ELSE count[u]]

\* The users a leaving session of connection c has to be announced for.
goneOffline(c) ==
    {u \in findUser(userOf[c]) : ~ isConnected(decrementConnection(count[u]))}

\* The 210 lines of a user list, one for the online users of the set and one
\* for the others (the code has one line per user, with a flag 1 or 0).
userLines(us) ==
    << line("210 USER 1", {u \in us : isConnected(count[u])}) >>
    \o << line("210 USER 0", {u \in us : ~ isConnected(count[u])}) >>

-------------------------------------------------------------------------------
(* Connections *)

\* Server::_acceptClient: a new Client object, whose uuid is empty, enters
\* the table. The descriptor may be one that an earlier client had.
acceptClient(c) ==
    /\ c \notin clients
    /\ clients' = clients \cup {c}
    /\ userOf' = [userOf EXCEPT ![c] = None]
    /\ out' = NoOutput
    /\ UNCHANGED << name, count >>

\* Regression variant: the broadcast is left to the logout command.
disconnectSilently(c) ==
    /\ c \in clients
    /\ clients' = clients \ {c}
    /\ userOf' = [userOf EXCEPT ![c] = None]
    /\ count' = countAfterLeaving(c)
    /\ out' = NoOutput
    /\ UNCHANGED name

\* Server::_disconnectClient, after a hang-up, an error or an end of file.
\* The Client object is gone before the broadcast, so c is not told.
disconnectClient(c) ==
    /\ c \in clients
    /\ clients' = clients \ {c}
    /\ userOf' = [userOf EXCEPT ![c] = None]
    /\ count' = countAfterLeaving(c)
    /\ out' = IF goneOffline(c) = {} THEN NoOutput
              ELSE broadcast(line("EVENT USER_LOGGED_OUT", goneOffline(c)),
                             clients \ {c})
    /\ UNCHANGED name

-------------------------------------------------------------------------------
(* Commands of a connection c of the table. A command that is refused only  *)
(* answers.                                                                 *)

refuse(c, status) ==
    /\ out' = sendToClient(line(status, {}), c)
    /\ UNCHANGED sessionVars

\* Regression variant: the Client stores the name of the user, not the uuid.
startSessionByName(c, u) ==
    /\ userOf' = [userOf EXCEPT ![c] = name'[u]]
    /\ count' = [count EXCEPT ![u] = incrementConnection(@)]
    /\ out' = NoOutput
    /\ UNCHANGED clients

\* A session of u starts on c: both ends of createNewUser and logUserIn.
startSession(c, u) ==
    /\ userOf' = [userOf EXCEPT ![c] = u]
    /\ count' = [count EXCEPT ![u] = incrementConnection(@)]
    /\ out' = Then(sendToClient(line("200 OK", {u}), c),
                   broadcast(line("EVENT USER_LOGGED_IN", {u}), clients))
    /\ UNCHANGED clients

\* Regression variant: the new user is not pushed into the database.
createTransientUser(c, n) ==
    \E u \in UserIds \ Registered :
        /\ UNCHANGED name
        /\ startSession(c, u)

\* createNewUser: uuid_generate returns an id that nobody has. (The model
\* stops registering users when UserIds is used up.)
createNewUser(c, n) ==
    \E u \in UserIds \ Registered :
        /\ name' = [name EXCEPT ![u] = n]
        /\ startSession(c, u)

\* logUserIn. Its 404 branch cannot be taken: Login::execute has just found
\* the name.
logUserIn(c, n) ==
    \E u \in findUserByName(n) :
        /\ UNCHANGED name
        /\ startSession(c, u)

\* Regression variant: a connection that has a session may log in again.
LoginTwice(c, arg) ==
    /\ c \in clients
    /\ IF arg = None THEN refuse(c, "400 BAD_REQUEST")
       ELSE IF arg = Invalid THEN refuse(c, "400 BAD_REQUEST")
       ELSE IF findUserByName(arg) = {} THEN createNewUser(c, arg)
       ELSE logUserIn(c, arg)

\* Login::execute, with the checks in the order of the code.
Login(c, arg) ==
    /\ c \in clients
    /\ IF arg = None THEN refuse(c, "400 BAD_REQUEST")
       ELSE IF userOf[c] # None THEN refuse(c, "401 UNAUTHORIZED")
       ELSE IF arg = Invalid THEN refuse(c, "400 BAD_REQUEST")
       ELSE IF findUserByName(arg) = {} THEN createNewUser(c, arg)
       ELSE logUserIn(c, arg)

\* Logout::execute: the broadcast reaches c too, before the answer.
Logout(c) ==
    /\ c \in clients
    /\ IF userOf[c] = None THEN refuse(c, "401 UNAUTHORIZED")
       ELSE /\ userOf' = [userOf EXCEPT ![c] = None]
            /\ count' = countAfterLeaving(c)
            /\ out' = Then(
                  IF goneOffline(c) = {} THEN NoOutput
                  ELSE broadcast(line("EVENT USER_LOGGED_OUT", goneOffline(c)),
                                 clients),
                  sendToClient(line("200 OK", {}), c))
            /\ UNCHANGED << clients, name >>

\* UsersCommand::execute.
UsersCommand(c) ==
    /\ c \in clients
    /\ IF userOf[c] = None THEN refuse(c, "401 UNAUTHORIZED")
       ELSE /\ out' = sendList(list(userLines(Registered)), c)
            /\ UNCHANGED sessionVars

\* UserCommand::execute. An argument that is no registered uuid is answered
\* with 404.
UserCommand(c, arg) ==
    /\ c \in clients
    /\ IF userOf[c] = None THEN refuse(c, "401 UNAUTHORIZED")
       ELSE IF arg = None THEN refuse(c, "400 BAD_REQUEST")
       ELSE IF findUser(arg) = {} THEN refuse(c, "404 NOT_FOUND")
       ELSE /\ out' = sendToClient(line(IF isConnected(count[arg])
                                        THEN "200 USER 1" ELSE "200 USER 0",
                                        {arg}), c)
            /\ UNCHANGED sessionVars

-------------------------------------------------------------------------------
(* The process *)

\* Regression variant: the counts survive in the saved file.
RestartKeepingCounts ==
    /\ clients' = {}
    /\ userOf' = [c \in Conns |-> None]
    /\ out' = NoOutput
    /\ UNCHANGED << name, count >>

\* A stop by signal followed by a new start: Server::run leaves its loop and
\* saves the database; every Client dies with the process; Server::init of
\* the next process loads the users, and userFromJson clears their counts.
Restart ==
    /\ clients' = {}
    /\ userOf' = [c \in Conns |-> None]
    /\ count' = [u \in UserIds |-> 0]
    /\ out' = NoOutput
    /\ UNCHANGED name

SessionsInit ==
    /\ clients = {}
    /\ userOf = [c \in Conns |-> None]
    /\ name = [u \in UserIds |-> None]
    /\ count = [u \in UserIds |-> 0]
    /\ out = NoOutput

\* CommandHandling::handleCommand: the commands of this module.
SessionCommand(c) ==
    \/ \E arg \in Names \cup {None, Invalid} : Login(c, arg)
    \/ Logout(c)
    \/ UsersCommand(c)
    \/ \E arg \in UserIds \cup {None} : UserCommand(c, arg)

ServerStep ==
    \E c \in Conns : acceptClient(c) \/ disconnectClient(c) \/ SessionCommand(c)

SessionsNext == ServerStep \/ Restart

SessionsSpec == SessionsInit /\ [][SessionsNext]_vars

-------------------------------------------------------------------------------
(* Properties *)

SessionsOf(u) == {c \in clients : userOf[c] = u}

\* Type invariant of the connection table, the users and the last output.
SessionsTypeOK ==
    /\ clients \in SUBSET Conns
    /\ userOf \in [Conns -> UserIds \cup {None}]
    /\ name \in [UserIds -> Names \cup {None}]
    /\ count \in [UserIds -> Nat]
    /\ out \in Output

\* User::_connectedCount is exactly the number of connections on which the
\* user is logged in, however sessions are opened, logged out, cut off or
\* ended by a restart; hence the guard of decrementConnection is never what
\* keeps the count from going wrong.
CountIsSessions ==
    \A u \in UserIds : count[u] = Cardinality(SessionsOf(u))

\* Only connections of the table have a user, and that user is registered:
\* findUser never returns nullptr for the uuid of a session.
SessionsAreRegistered ==
    \A c \in Conns : userOf[c] # None => c \in clients /\ userOf[c] \in Registered

\* Two registered users never have the same name, so findUserByName, which
\* takes the first match, identifies the account.
UserNamesUnique ==
    \A u, v \in Registered : name[u] = name[v] => u = v

\* A session never changes hands: a connection that has a user keeps it until
\* the session has ended, so no login can replace it and leak a count.
SessionNeverChangesHands ==
    [][\A c \in Conns : userOf[c] # None => userOf'[c] \in {userOf[c], None}]_vars
===============================================================================
