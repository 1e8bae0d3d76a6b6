---------------------------- MODULE SessionsProofs ----------------------------
(***************************************************************************)
(* Proofs about module Sessions, for any set of users and names and any    *)
(* finite set of connections.                                              *)
(***************************************************************************)
EXTENDS Sessions, FiniteSetTheorems, TLAPS

\* The inductive invariant. The count of a user can only be shown to follow
\* its sessions when every session belongs to a registered user (otherwise
\* countAfterLeaving would change nothing) and the types are known.
SessionsInv ==
    /\ SessionsTypeOK
    /\ SessionsAreRegistered
    /\ CountIsSessions
    /\ UserNamesUnique

-------------------------------------------------------------------------------
(* The output helpers of Protocol *)

\* line builds a Line.
LEMMA LineType ==
    ASSUME NEW kind \in Kinds, NEW of \in SUBSET Subjects
    PROVE  line(kind, of) \in Line
  BY DEF line, Line

\* The output of Server::sendToClient is an Output.
LEMMA SendToClientType ==
    ASSUME NEW m \in Line, NEW c
    PROVE  sendToClient(m, c) \in Output
  BY DEF sendToClient, Output

\* The output of Server::broadcast is an Output.
LEMMA BroadcastType ==
    ASSUME NEW m \in Line, NEW table
    PROVE  broadcast(m, table) \in Output
  BY DEF broadcast, Output

\* The output of a handler that answers with several lines is an Output.
LEMMA SendListType ==
    ASSUME NEW ms \in Seq(Line), NEW c
    PROVE  sendList(ms, c) \in Output
  BY DEF sendList, Output

\* No output is an Output.
LEMMA NoOutputType == NoOutput \in Output
  BY DEF NoOutput, Output

\* Two outputs one after the other are an Output.
LEMMA ThenType ==
    ASSUME NEW a \in Output, NEW b \in Output
    PROVE  Then(a, b) \in Output
  BY DEF Then, Output

-------------------------------------------------------------------------------
(* Steps that change the connection counts *)

\* The sessions of a user are a finite set of connections.
LEMMA SessionsFinite ==
    ASSUME SessionsTypeOK, NEW u
    PROVE  IsFiniteSet(SessionsOf(u))
  BY ConnsAssumption, FS_Subset DEF SessionsTypeOK, SessionsOf

\* The end of the session of c, by Logout::execute or Server::_disconnectClient,
\* keeps the counts equal to the numbers of sessions: decrementConnection
\* finds a count above zero and takes one off.
LEMMA LeavingKeepsCounts ==
    ASSUME SessionsInv, NEW c \in clients, userOf[c] # None,
           userOf' = [userOf EXCEPT ![c] = None],
           count' = countAfterLeaving(c),
           clients' \in {clients, clients \ {c}}
    PROVE  CountIsSessions'
  <1> USE DEF SessionsInv
  <1> SUFFICES ASSUME NEW u \in UserIds
               PROVE  count'[u] = Cardinality(SessionsOf(u)')
    BY DEF CountIsSessions, SessionsOf
  <1>1. count[u] \in Nat /\ count[u] = Cardinality(SessionsOf(u))
    BY DEF SessionsTypeOK, CountIsSessions
  <1>2. IsFiniteSet(SessionsOf(u))
    BY SessionsFinite
  <1>3. u # None
    BY NoneAssumption
  <1>4. SessionsOf(u)' = SessionsOf(u) \ {c}
    BY <1>3 DEF SessionsOf, SessionsTypeOK
  <1>5. c \in SessionsOf(u) <=> u = userOf[c]
    BY DEF SessionsOf
  <1>6. Cardinality(SessionsOf(u)') = IF u = userOf[c] THEN count[u] - 1 ELSE count[u]
    <2>1. Cardinality(SessionsOf(u) \ {c}) =
             IF c \in SessionsOf(u) THEN Cardinality(SessionsOf(u)) - 1
                                    ELSE Cardinality(SessionsOf(u))
      BY <1>2, FS_RemoveElement
    <2> QED BY <1>1, <1>4, <1>5, <2>1
  <1>7. u = userOf[c] => count[u] > 0
    BY <1>1, <1>2, <1>5, FS_EmptySet
  <1>8. u \in findUser(userOf[c]) <=> u = userOf[c]
    BY DEF findUser, SessionsAreRegistered, SessionsTypeOK
  <1> QED
    BY <1>1, <1>6, <1>7, <1>8 DEF countAfterLeaving, decrementConnection

\* The start of a session of u on c, by createNewUser or logUserIn, adds one
\* session to u and to no other user.
LEMMA StartingKeepsCounts ==
    ASSUME SessionsInv, NEW c \in clients, userOf[c] = None, NEW u \in UserIds,
           startSession(c, u)
    PROVE  CountIsSessions'
  <1> USE DEF SessionsInv
  <1> SUFFICES ASSUME NEW v \in UserIds
               PROVE  count'[v] = Cardinality(SessionsOf(v)')
    BY DEF CountIsSessions, SessionsOf
  <1>1. count[v] \in Nat /\ count[v] = Cardinality(SessionsOf(v))
    BY DEF SessionsTypeOK, CountIsSessions
  <1>2. IsFiniteSet(SessionsOf(v)) /\ v # None
    BY SessionsFinite, NoneAssumption
  <1>3. c \notin SessionsOf(v)
    BY <1>2 DEF SessionsOf
  <1>4. CASE v = u
    <2>1. SessionsOf(v)' = SessionsOf(v) \cup {c}
      BY <1>4 DEF SessionsOf, SessionsTypeOK, startSession
    <2>2. count'[v] = count[v] + 1
      BY <1>4 DEF startSession, SessionsTypeOK, incrementConnection
    <2> QED BY <2>1, <2>2, <1>1, <1>2, <1>3, FS_AddElement
  <1>5. CASE v # u
    <2>1. SessionsOf(v)' = SessionsOf(v)
      BY <1>2, <1>5 DEF SessionsOf, SessionsTypeOK, startSession
    <2>2. count'[v] = count[v]
      BY <1>5 DEF startSession, SessionsTypeOK
    <2> QED BY <2>1, <2>2, <1>1
  <1> QED BY <1>4, <1>5

-------------------------------------------------------------------------------
(* The steps of the specification *)

\* A step that leaves sessions and users alone and only produces an output
\* keeps the invariant: every refused command and every inquiry.
LEMMA AnsweringKeepsInv ==
    ASSUME SessionsInv, UNCHANGED sessionVars, out' \in Output
    PROVE  SessionsInv'
  BY DEF SessionsInv, SessionsTypeOK, SessionsAreRegistered, CountIsSessions,
         UserNamesUnique, SessionsOf, Registered, sessionVars

\* A refused command keeps the invariant.
LEMMA RefusingKeepsInv ==
    ASSUME SessionsInv, NEW c \in Conns, NEW status \in Kinds, refuse(c, status)
    PROVE  SessionsInv'
  <1>1. out' \in Output
    BY LineType, SendToClientType DEF refuse
  <1> QED BY <1>1, AnsweringKeepsInv DEF refuse

\* The lines of a user list are lines.
LEMMA UserLinesType ==
    ASSUME NEW us \in SUBSET UserIds
    PROVE  userLines(us) \in Seq(Line)
  <1>1. /\ {u \in us : isConnected(count[u])} \in SUBSET Subjects
        /\ {u \in us : ~ isConnected(count[u])} \in SUBSET Subjects
    BY SubjectsAssumption
  <1>2. "210 USER 1" \in Kinds /\ "210 USER 0" \in Kinds
    BY DEF Kinds
  <1>3. /\ line("210 USER 1", {u \in us : isConnected(count[u])}) \in Line
        /\ line("210 USER 0", {u \in us : ~ isConnected(count[u])}) \in Line
    BY <1>1, <1>2, LineType
  <1>4. ASSUME NEW a \in Line, NEW b \in Line PROVE << a >> \o << b >> \in Seq(Line)
    OBVIOUS
  <1> QED BY <1>3, <1>4, Zenon DEF userLines

\* A list of lines, with its begin and end, is a sequence of lines.
LEMMA ListType ==
    ASSUME NEW items \in Seq(Line)
    PROVE  list(items) \in Seq(Line)
  <1>1. line("210-BEGIN", {}) \in Line /\ line("210-END", {}) \in Line
    BY LineType DEF Kinds
  <1> QED BY <1>1 DEF list

\* The announcement of the users who went offline is an output.
LEMMA OfflineType ==
    ASSUME NEW c, NEW table
    PROVE  (IF goneOffline(c) = {} THEN NoOutput
            ELSE broadcast(line("EVENT USER_LOGGED_OUT", goneOffline(c)), table)) \in Output
  <1>1. goneOffline(c) \in SUBSET Subjects
    BY SubjectsAssumption DEF goneOffline, findUser, Registered
  <1>2. line("EVENT USER_LOGGED_OUT", goneOffline(c)) \in Line
    BY <1>1, LineType DEF Kinds
  <1> QED BY <1>2, BroadcastType, NoOutputType

\* The counts after the end of a session are natural numbers.
LEMMA CountAfterLeavingType ==
    ASSUME SessionsTypeOK, NEW c
    PROVE  countAfterLeaving(c) \in [UserIds -> Nat]
  BY DEF countAfterLeaving, decrementConnection, SessionsTypeOK

\* Server::_acceptClient keeps the invariant, also when the descriptor was
\* used by an earlier client.
LEMMA AcceptKeepsInv ==
    ASSUME SessionsInv, NEW c \in Conns, acceptClient(c)
    PROVE  SessionsInv'
  <1> USE DEF SessionsInv
  <1>1. SessionsTypeOK'
    BY NoOutputType DEF SessionsTypeOK, acceptClient
  <1>2. SessionsAreRegistered' /\ UserNamesUnique'
    BY DEF SessionsTypeOK, SessionsAreRegistered, UserNamesUnique, Registered, acceptClient
  <1>3. ASSUME NEW u \in UserIds PROVE SessionsOf(u)' = SessionsOf(u)
    BY NoneAssumption DEF SessionsTypeOK, SessionsOf, acceptClient
  <1>4. CountIsSessions'
    BY <1>3 DEF CountIsSessions, acceptClient
  <1> QED BY <1>1, <1>2, <1>4

\* Server::_disconnectClient keeps the invariant.
LEMMA DisconnectKeepsInv ==
    ASSUME SessionsInv, NEW c \in Conns, disconnectClient(c)
    PROVE  SessionsInv'
  <1> USE DEF SessionsInv
  <1>1. SessionsTypeOK'
    BY OfflineType, CountAfterLeavingType DEF SessionsTypeOK, disconnectClient
  <1>2. SessionsAreRegistered' /\ UserNamesUnique'
    BY DEF SessionsTypeOK, SessionsAreRegistered, UserNamesUnique, Registered, disconnectClient
  <1>3. CASE userOf[c] # None
    BY <1>1, <1>2, <1>3, LeavingKeepsCounts DEF disconnectClient
  <1>4. CASE userOf[c] = None
    <2>1. count' = count
      BY <1>4, NoneAssumption
      DEF disconnectClient, countAfterLeaving, findUser, Registered, SessionsTypeOK
    <2>2. ASSUME NEW u \in UserIds PROVE SessionsOf(u)' = SessionsOf(u)
      BY <1>4, NoneAssumption DEF SessionsTypeOK, SessionsOf, disconnectClient
    <2>3. CountIsSessions'
      BY <2>1, <2>2 DEF CountIsSessions
    <2> QED BY <1>1, <1>2, <2>3
  <1> QED BY <1>3, <1>4

\* startSession leaves a well-typed state.
LEMMA StartSessionType ==
    ASSUME SessionsTypeOK, NEW c \in Conns, NEW u \in UserIds, startSession(c, u)
    PROVE  /\ clients' \in SUBSET Conns
           /\ userOf' \in [Conns -> UserIds \cup {None}]
           /\ count' \in [UserIds -> Nat]
           /\ out' \in Output
  <1>0. line("200 OK", {u}) \in Line /\ line("EVENT USER_LOGGED_IN", {u}) \in Line
    BY SubjectsAssumption, LineType DEF Kinds
  <1>1. out' \in Output
    BY <1>0, SendToClientType, BroadcastType, ThenType DEF startSession
  <1>2. clients' \in SUBSET Conns /\ userOf' \in [Conns -> UserIds \cup {None}]
    BY DEF startSession, SessionsTypeOK
  <1>3. count' \in [UserIds -> Nat]
    <2>1. count \in [UserIds -> Nat] /\ count' = [count EXCEPT ![u] = count[u] + 1]
      BY DEF startSession, SessionsTypeOK, incrementConnection
    <2> QED BY <2>1
  <1> QED BY <1>1, <1>2, <1>3

\* A successful Login::execute of a new name keeps the invariant: the name
\* is new, and so is the uuid.
LEMMA CreateUserKeepsInv ==
    ASSUME SessionsInv, NEW c \in clients, userOf[c] = None, NEW n \in Names,
           findUserByName(n) = {}, createNewUser(c, n)
    PROVE  SessionsInv'
  <1> USE DEF SessionsInv
  <1>0. PICK u \in UserIds \ Registered : name' = [name EXCEPT ![u] = n] /\ startSession(c, u)
    BY DEF createNewUser
  <1>1. SessionsTypeOK'
    BY <1>0, StartSessionType DEF SessionsTypeOK
  <1>2. CountIsSessions'
    BY <1>0, StartingKeepsCounts
  <1>3. Registered' = Registered \cup {u}
    BY <1>0, NoneAssumption DEF Registered, SessionsTypeOK
  <1>4. UserNamesUnique'
    BY <1>0, <1>3 DEF UserNamesUnique, findUserByName, SessionsTypeOK, Registered
  <1>5. SessionsAreRegistered'
    BY <1>0, <1>3 DEF SessionsAreRegistered, startSession, SessionsTypeOK
  <1> QED BY <1>1, <1>2, <1>4, <1>5

\* A successful Login::execute of a known name keeps the invariant.
LEMMA LogUserInKeepsInv ==
    ASSUME SessionsInv, NEW c \in clients, userOf[c] = None, NEW n, logUserIn(c, n)
    PROVE  SessionsInv'
  <1> USE DEF SessionsInv
  <1>0. PICK u \in Registered : name' = name /\ startSession(c, u)
    BY DEF logUserIn, findUserByName
  <1>a. u \in UserIds
    BY DEF Registered
  <1>1. SessionsTypeOK'
    BY <1>0, <1>a, StartSessionType DEF SessionsTypeOK
  <1>2. CountIsSessions'
    BY <1>0, <1>a, StartingKeepsCounts
  <1>3. UserNamesUnique'
    BY <1>0 DEF UserNamesUnique, Registered
  <1>4. SessionsAreRegistered'
    BY <1>0 DEF SessionsAreRegistered, startSession, SessionsTypeOK, Registered
  <1> QED BY <1>1, <1>2, <1>3, <1>4

\* Login::execute keeps the invariant.
LEMMA LoginKeepsInv ==
    ASSUME SessionsInv, NEW c \in Conns, NEW arg \in Names \cup {None, Invalid}, Login(c, arg)
    PROVE  SessionsInv'
  <1>1. c \in clients
    BY DEF Login
  <1>2. CASE \E status \in Kinds : refuse(c, status)
    BY <1>2, RefusingKeepsInv
  <1>3. CASE /\ arg \notin {None, Invalid} /\ userOf[c] = None
             /\ findUserByName(arg) = {} /\ createNewUser(c, arg)
    BY <1>1, <1>3, CreateUserKeepsInv
  <1>4. CASE userOf[c] = None /\ logUserIn(c, arg)
    BY <1>1, <1>4, LogUserInKeepsInv
  <1>5. "400 BAD_REQUEST" \in Kinds /\ "401 UNAUTHORIZED" \in Kinds
    BY DEF Kinds
  <1> QED BY <1>2, <1>3, <1>4, <1>5, Zenon DEF Login

\* Logout::execute keeps the invariant.
LEMMA LogoutKeepsInv ==
    ASSUME SessionsInv, NEW c \in Conns, Logout(c)
    PROVE  SessionsInv'
  <1> USE DEF SessionsInv
  <1>1. CASE userOf[c] = None
    <2>1. "401 UNAUTHORIZED" \in Kinds
      BY DEF Kinds
    <2> QED BY <1>1, <2>1, RefusingKeepsInv, Zenon DEF Logout
  <1>2. CASE userOf[c] # None
    <2>0. line("200 OK", {}) \in Line
      BY LineType DEF Kinds
    <2>1. out' \in Output
      BY <1>2, <2>0, OfflineType, SendToClientType, ThenType DEF Logout
    <2>2. SessionsTypeOK'
      BY <1>2, <2>1, CountAfterLeavingType DEF SessionsTypeOK, Logout
    <2>3. SessionsAreRegistered' /\ UserNamesUnique'
      BY <1>2 DEF SessionsTypeOK, SessionsAreRegistered, UserNamesUnique, Registered, Logout
    <2>4. CountIsSessions'
      BY <1>2, LeavingKeepsCounts DEF Logout
    <2> QED BY <2>2, <2>3, <2>4
  <1> QED BY <1>1, <1>2

\* The inquiries /users and /user keep the invariant.
LEMMA InquiriesKeepInv ==
    ASSUME SessionsInv, NEW c \in Conns, NEW arg \in UserIds \cup {None},
           UsersCommand(c) \/ UserCommand(c, arg)
    PROVE  SessionsInv'
  <1>1. CASE \E status \in Kinds : refuse(c, status)
    BY <1>1, RefusingKeepsInv
  <1>2. CASE UsersCommand(c) /\ userOf[c] # None
    <2>1. userLines(Registered) \in Seq(Line)
      BY UserLinesType DEF Registered
    <2>2. list(userLines(Registered)) \in Seq(Line)
      BY <2>1, ListType
    <2> QED BY <1>2, <2>2, SendListType, AnsweringKeepsInv DEF UsersCommand
  <1>3. CASE /\ UserCommand(c, arg) /\ userOf[c] # None /\ arg # None
             /\ findUser(arg) # {}
    <2> DEFINE kind == IF isConnected(count[arg]) THEN "200 USER 1" ELSE "200 USER 0"
    <2>1. arg \in Subjects /\ kind \in Kinds
      BY <1>3, SubjectsAssumption DEF Kinds
    <2>2. line(kind, {arg}) \in Line
      BY <2>1, LineType
    <2>3. out' = sendToClient(line(kind, {arg}), c) /\ UNCHANGED sessionVars
      BY <1>3 DEF UserCommand
    <2> HIDE DEF kind
    <2> QED BY <2>2, <2>3, SendToClientType, AnsweringKeepsInv
  <1>4. /\ "400 BAD_REQUEST" \in Kinds /\ "401 UNAUTHORIZED" \in Kinds
        /\ "404 NOT_FOUND" \in Kinds
    BY DEF Kinds
  <1> QED BY <1>1, <1>2, <1>3, <1>4, Zenon DEF UsersCommand, UserCommand

\* A stop and a new start of the server keep the invariant: there are no
\* sessions, and userFromJson has cleared the counts.
LEMMA RestartKeepsInv ==
    ASSUME SessionsInv, Restart
    PROVE  SessionsInv'
  <1> USE DEF SessionsInv
  <1>1. SessionsTypeOK'
    BY NoOutputType DEF SessionsTypeOK, Restart
  <1>2. SessionsAreRegistered' /\ UserNamesUnique'
    BY DEF SessionsAreRegistered, UserNamesUnique, Registered, Restart
  <1>3. ASSUME NEW u \in UserIds PROVE SessionsOf(u)' = {}
    BY DEF SessionsOf, Restart
  <1>4. CountIsSessions'
    BY <1>3, FS_EmptySet DEF CountIsSessions, Restart
  <1> QED BY <1>1, <1>2, <1>4

\* The invariant holds when the server starts without a save file.
LEMMA SessionsInitInv == SessionsInit => SessionsInv
  <1> SUFFICES ASSUME SessionsInit PROVE SessionsInv
    OBVIOUS
  <1>1. SessionsTypeOK
    BY NoOutputType DEF SessionsInit, SessionsTypeOK
  <1>2. SessionsAreRegistered /\ UserNamesUnique
    BY DEF SessionsInit, SessionsAreRegistered, UserNamesUnique, Registered
  <1>3. ASSUME NEW u \in UserIds PROVE SessionsOf(u) = {}
    BY DEF SessionsOf, SessionsInit
  <1>4. CountIsSessions
    BY <1>3, FS_EmptySet DEF CountIsSessions, SessionsInit
  <1> QED BY <1>1, <1>2, <1>4 DEF SessionsInv

\* Every step of the server keeps the invariant.
LEMMA SessionsNextInv == SessionsInv /\ SessionsNext => SessionsInv'
  <1> SUFFICES ASSUME SessionsInv, SessionsNext PROVE SessionsInv'
    OBVIOUS
  <1>1. CASE Restart
    BY <1>1, RestartKeepsInv
  <1>2. CASE ServerStep
    <2>0. PICK c \in Conns : acceptClient(c) \/ disconnectClient(c) \/ SessionCommand(c)
      BY <1>2 DEF ServerStep
    <2>1. CASE acceptClient(c)
      BY <2>1, AcceptKeepsInv
    <2>2. CASE disconnectClient(c)
      BY <2>2, DisconnectKeepsInv
    <2>3. CASE \E arg \in Names \cup {None, Invalid} : Login(c, arg)
      BY <2>3, LoginKeepsInv
    <2>4. CASE Logout(c)
      BY <2>4, LogoutKeepsInv
    <2>5. CASE UsersCommand(c) \/ \E arg \in UserIds \cup {None} : UserCommand(c, arg)
      BY <2>5, InquiriesKeepInv
    <2> QED BY <2>0, <2>1, <2>2, <2>3, <2>4, <2>5 DEF SessionCommand
  <1> QED BY <1>1, <1>2 DEF SessionsNext

\* A step that changes nothing keeps the invariant.
LEMMA SessionsStutterInv == SessionsInv /\ UNCHANGED vars => SessionsInv'
  BY DEF SessionsInv, SessionsTypeOK, SessionsAreRegistered, CountIsSessions,
         UserNamesUnique, SessionsOf, Registered, vars

-------------------------------------------------------------------------------

\* The inductive invariant holds in every reachable state.
THEOREM SessionsInvariant == SessionsSpec => []SessionsInv
  BY SessionsInitInv, SessionsNextInv, SessionsStutterInv, PTL DEF SessionsSpec

\* The connection table, the users and the outputs are always well typed.
THEOREM SessionsTypeCorrect == SessionsSpec => []SessionsTypeOK
  <1>1. SessionsInv => SessionsTypeOK
    BY DEF SessionsInv
  <1> QED BY <1>1, SessionsInvariant, PTL

\* User::_connectedCount is always the number of the user's sessions, for any
\* number of users and connections and any mix of logins, logouts, hang-ups
\* and restarts.
THEOREM ConnectionCountExact == SessionsSpec => []CountIsSessions
  <1>1. SessionsInv => CountIsSessions
    BY DEF SessionsInv
  <1> QED BY <1>1, SessionsInvariant, PTL

\* findUserByName always identifies at most one account.
THEOREM AccountNamesUnique == SessionsSpec => []UserNamesUnique
  <1>1. SessionsInv => UserNamesUnique
    BY DEF SessionsInv
  <1> QED BY <1>1, SessionsInvariant, PTL

\* Only connections of the table have a user, and it is registered.
THEOREM SessionsRegistered == SessionsSpec => []SessionsAreRegistered
  <1>1. SessionsInv => SessionsAreRegistered
    BY DEF SessionsInv
  <1> QED BY <1>1, SessionsInvariant, PTL

\* No step replaces the user of a connection by another one: /login refuses a
\* connection that has a session, so a session ends before the next begins.
THEOREM SessionsKeepTheirUser == SessionsSpec => SessionNeverChangesHands
  <1> DEFINE Kept == \A c \in Conns : userOf[c] # None => userOf'[c] \in {userOf[c], None}
  <1>1. ASSUME SessionsInv, [SessionsNext]_vars PROVE [Kept]_vars
    <2> SUFFICES ASSUME SessionsNext PROVE Kept
      BY <1>1
    <2>0. userOf \in [Conns -> UserIds \cup {None}]
      BY <1>1 DEF SessionsInv, SessionsTypeOK
    <2>1. CASE Restart
      BY <2>1 DEF Restart
    <2>2. ASSUME NEW c \in Conns, acceptClient(c) \/ disconnectClient(c) PROVE Kept
      BY <2>0, <2>2 DEF acceptClient, disconnectClient
    <2>3. CASE UNCHANGED userOf
      BY <2>3
    <2>4. ASSUME NEW c \in Conns, NEW arg, Login(c, arg) PROVE Kept
      <3>1. CASE \E status : refuse(c, status)
        BY <2>3, <3>1 DEF refuse, sessionVars
      <3>2. CASE userOf[c] = None /\ \E u : startSession(c, u)
        BY <2>0, <3>2 DEF startSession
      <3>3. createNewUser(c, arg) \/ logUserIn(c, arg) => \E u : startSession(c, u)
        BY DEF createNewUser, logUserIn
      <3> QED BY <2>4, <3>1, <3>2, <3>3, Zenon DEF Login
    <2>5. ASSUME NEW c \in Conns, Logout(c) PROVE Kept
      BY <2>0, <2>5 DEF Logout, refuse, sessionVars
    <2>6. ASSUME NEW c \in Conns, NEW arg, UsersCommand(c) \/ UserCommand(c, arg) PROVE Kept
      <3>1. UNCHANGED sessionVars
        BY <2>6, Zenon DEF UsersCommand, UserCommand, refuse
      <3> QED BY <2>3, <3>1 DEF sessionVars
    <2> QED BY <2>1, <2>2, <2>4, <2>5, <2>6 DEF SessionsNext, ServerStep, SessionCommand
  <1> QED BY <1>1, SessionsInvariant, PTL DEF SessionsSpec, SessionNeverChangesHands
===============================================================================
