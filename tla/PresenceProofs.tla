---------------------------- MODULE PresenceProofs ----------------------------
(***************************************************************************)
(* Proofs about module Presence: the server implements PresenceService,    *)
(* and what a connection was last told about a user is true.               *)
(***************************************************************************)
EXTENDS Presence, PrivateMessagesProofs

-------------------------------------------------------------------------------
(* The presence facts in outputs *)

\* No line, no statement.
LEMMA SpeaksEmpty ==
    ASSUME NEW kinds, NEW u
    PROVE  ~ Speaks(<< >>, kinds, u)
  BY DEF Speaks

\* What one line says.
LEMMA SpeaksLine ==
    ASSUME NEW m, NEW kinds, NEW u
    PROVE  Speaks(<< m >>, kinds, u) <=> m.kind \in kinds /\ u \in m.of
  <1>1. DOMAIN << m >> = 1..1 /\ << m >>[1] = m
    OBVIOUS
  <1> QED BY <1>1 DEF Speaks

\* Two sequences of lines say together what each of them says.
LEMMA SpeaksConcat ==
    ASSUME NEW a \in Seq(Line), NEW b \in Seq(Line), NEW kinds, NEW u
    PROVE  Speaks(a \o b, kinds, u) <=> Speaks(a, kinds, u) \/ Speaks(b, kinds, u)
  <1>0. /\ DOMAIN a = 1..Len(a) /\ DOMAIN b = 1..Len(b)
        /\ DOMAIN (a \o b) = 1..(Len(a) + Len(b))
        /\ Len(a) \in Nat /\ Len(b) \in Nat
    OBVIOUS
  <1>1. ASSUME NEW i \in DOMAIN a PROVE i \in DOMAIN (a \o b) /\ (a \o b)[i] = a[i]
    BY <1>0
  <1>2. ASSUME NEW i \in DOMAIN b
        PROVE  Len(a) + i \in DOMAIN (a \o b) /\ (a \o b)[Len(a) + i] = b[i]
    BY <1>0
  <1>3. ASSUME NEW i \in DOMAIN (a \o b)
        PROVE  \/ i \in DOMAIN a /\ (a \o b)[i] = a[i]
               \/ i - Len(a) \in DOMAIN b /\ (a \o b)[i] = b[i - Len(a)]
    BY <1>0
  <1>4. Speaks(a, kinds, u) => Speaks(a \o b, kinds, u)
    BY <1>1 DEF Speaks
  <1>5. Speaks(b, kinds, u) => Speaks(a \o b, kinds, u)
    BY <1>2 DEF Speaks
  <1>6. Speaks(a \o b, kinds, u) => Speaks(a, kinds, u) \/ Speaks(b, kinds, u)
    BY <1>3 DEF Speaks
  <1> QED BY <1>4, <1>5, <1>6

\* The same for the facts.
LEMMA FactsConcat ==
    ASSUME NEW a \in Seq(Line), NEW b \in Seq(Line)
    PROVE  factsIn(a \o b) = factsIn(a) \cup factsIn(b)
  BY SpeaksConcat DEF factsIn

\* No line, no fact.
LEMMA FactsEmpty == factsIn(<< >>) = {}
  BY SpeaksEmpty DEF factsIn

\* The facts of one line about users.
LEMMA FactsLine ==
    ASSUME NEW kind, NEW of \in SUBSET Subjects
    PROVE  factsIn(<< line(kind, of) >>)
           = (IF kind \in InKinds THEN {<< "in", u >> : u \in of \cap UserIds} ELSE {})
             \cup (IF kind \in OutKinds THEN {<< "out", u >> : u \in of \cap UserIds} ELSE {})
  <1>1. line(kind, of).kind = kind /\ line(kind, of).of = of
    BY DEF line
  <1> QED BY <1>1, SpeaksLine DEF factsIn

\* An answer without ids states nothing, and neither does no output.
LEMMA FactlessOutputs ==
    ASSUME NEW c \in Conns, NEW kind \in Kinds, NEW d \in Conns
    PROVE  /\ factsIn(sendToClient(line(kind, {}), c)[d]) = {}
           /\ factsIn(NoOutput[d]) = {}
  <1>1. factsIn(<< line(kind, {}) >>) = {}
    BY FactsLine
  <1> QED BY <1>1, FactsEmpty DEF sendToClient, NoOutput

\* The facts of the broadcast of a login.
LEMMA LoggedInFacts ==
    ASSUME NEW u \in UserIds, NEW table, NEW d \in Conns
    PROVE  factsIn(broadcast(line("EVENT USER_LOGGED_IN", {u}), table)[d])
           = IF d \in table THEN {<< "in", u >>} ELSE {}
  <1>1. {u} \in SUBSET Subjects /\ {u} \cap UserIds = {u}
    BY SubjectsAssumption
  <1>2. "EVENT USER_LOGGED_IN" \in InKinds /\ "EVENT USER_LOGGED_IN" \notin OutKinds
    BY DEF InKinds, OutKinds
  <1>3. factsIn(<< line("EVENT USER_LOGGED_IN", {u}) >>) = {<< "in", v >> : v \in {u}}
    BY <1>1, <1>2, FactsLine
  <1>4. factsIn(<< line("EVENT USER_LOGGED_IN", {u}) >>) = {<< "in", u >>}
    BY <1>3
  <1> QED BY <1>4, FactsEmpty DEF broadcast

\* The facts of the broadcast of a logout.
LEMMA LoggedOutFacts ==
    ASSUME NEW u \in UserIds, NEW table, NEW d \in Conns
    PROVE  factsIn(broadcast(line("EVENT USER_LOGGED_OUT", {u}), table)[d])
           = IF d \in table THEN {<< "out", u >>} ELSE {}
  <1>1. {u} \in SUBSET Subjects /\ {u} \cap UserIds = {u}
    BY SubjectsAssumption
  <1>2. "EVENT USER_LOGGED_OUT" \in OutKinds /\ "EVENT USER_LOGGED_OUT" \notin InKinds
    BY DEF InKinds, OutKinds
  <1>3. factsIn(<< line("EVENT USER_LOGGED_OUT", {u}) >>) = {<< "out", v >> : v \in {u}}
    BY <1>1, <1>2, FactsLine
  <1>4. factsIn(<< line("EVENT USER_LOGGED_OUT", {u}) >>) = {<< "out", u >>}
    BY <1>3
  <1> QED BY <1>4, FactsEmpty DEF broadcast

\* The facts of two outputs, one after the other.
LEMMA ThenFacts ==
    ASSUME NEW a \in Output, NEW b \in Output, NEW d \in Conns
    PROVE  factsIn(Then(a, b)[d]) = factsIn(a[d]) \cup factsIn(b[d])
  <1>1. a[d] \in Seq(Line) /\ b[d] \in Seq(Line) /\ Then(a, b)[d] = a[d] \o b[d]
    BY DEF Output, Then
  <1> QED BY <1>1, FactsConcat

-------------------------------------------------------------------------------
(* Counts and sessions *)

\* A user is connected, by its count, exactly when it has a session.
LEMMA ConnectedIsOnline ==
    ASSUME SessionsInv, NEW u \in UserIds
    PROVE  isConnected(count[u]) <=> u \in Service!Online(userOf)
  <1>1. /\ count[u] \in Nat /\ count[u] = Cardinality(SessionsOf(u))
        /\ IsFiniteSet(SessionsOf(u))
    BY SessionsFinite DEF SessionsInv, SessionsTypeOK, CountIsSessions
  <1>2. count[u] = 0 <=> SessionsOf(u) = {}
    BY <1>1, FS_EmptySet
  <1>3. SessionsOf(u) # {} <=> \E c \in Conns : userOf[c] = u
    BY NoneAssumption DEF SessionsOf, SessionsInv, SessionsAreRegistered, SessionsTypeOK
  <1> QED BY <1>1, <1>2, <1>3 DEF isConnected, Service!Online

\* The session that ends on c is announced exactly when the user has no other
\* session.
LEMMA GoneOfflineExact ==
    ASSUME SessionsInv, NEW c \in clients, userOf[c] # None,
           userOf' = [userOf EXCEPT ![c] = None]
    PROVE  goneOffline(c) = IF userOf[c] \in Service!Online(userOf') THEN {} ELSE {userOf[c]}
  <1> DEFINE u == userOf[c]
  <1> USE DEF SessionsInv
  <1>0. c \in Conns /\ u \in UserIds /\ u # None
    BY DEF SessionsTypeOK
  <1>1. findUser(u) = {u}
    BY <1>0 DEF findUser, SessionsAreRegistered
  <1>2. /\ count[u] \in Nat /\ count[u] = Cardinality(SessionsOf(u))
        /\ IsFiniteSet(SessionsOf(u)) /\ c \in SessionsOf(u)
    BY <1>0, SessionsFinite DEF SessionsTypeOK, CountIsSessions, SessionsOf
  <1>3. /\ IsFiniteSet(SessionsOf(u) \ {c})
        /\ Cardinality(SessionsOf(u) \ {c}) = count[u] - 1
    BY <1>2, FS_RemoveElement
  <1>4. count[u] > 0 /\ (count[u] - 1 = 0 <=> SessionsOf(u) \ {c} = {})
    BY <1>2, <1>3, FS_EmptySet
  <1>5. SessionsOf(u) \ {c} # {} <=> u \in Service!Online(userOf')
    BY <1>0 DEF SessionsOf, SessionsAreRegistered, SessionsTypeOK, Service!Online
  <1>6. isConnected(decrementConnection(count[u])) <=> u \in Service!Online(userOf')
    BY <1>2, <1>4, <1>5 DEF isConnected, decrementConnection
  <1> HIDE DEF u
  <1>7. goneOffline(c) = IF u \in Service!Online(userOf') THEN {} ELSE {u}
    BY <1>1, <1>6 DEF goneOffline, u
  <1> QED BY <1>7 DEF u
-------------------------------------------------------------------------------
(* Every step of the server is a step of the service *)

\* The steps of the server, in the terms of the service. Where the service
\* leaves open who is told what, the code tells all connections of the table,
\* and says that a user is out when it is.
BeginForAll(c, u) == Service!Begin(c, u) /\ Notice' = Service!Tell(clients, {<< "in", u >>})

EndForAll(c, u) ==
    /\ Service!End(c, u)
    /\ Notice' = Service!Tell(clients', IF u \in Service!Online(userOf') THEN {}
                                        ELSE {<< "out", u >>})

NoticedStep ==
    \/ \E c \in Conns : Service!Open(c) \/ Service!Close(c) \/ Service!Ask(c)
    \/ \E c \in Conns, u \in UserIds : BeginForAll(c, u) \/ EndForAll(c, u)
    \/ Service!Reset

LEMMA NoticedStepIsService == NoticedStep => Service!ServiceNext
  BY DEF NoticedStep, BeginForAll, EndForAll, Service!ServiceNext

\* All connections of a set are an audience.
LEMMA AllAreAnAudience ==
    ASSUME NEW conns, NEW s
    PROVE  conns \in Service!Audiences(conns, s)
  BY DEF Service!Audiences

\* The end of a session that is announced to all, if the user is out.
LEMMA EndsForAll ==
    ASSUME NEW c \in Conns, c \in clients, NEW u, userOf[c] = u,
           clients' \in {clients, clients \ {c}}, userOf' = [userOf EXCEPT ![c] = None],
           Notice' = Service!Tell(clients', IF u \in Service!Online(userOf') THEN {}
                                            ELSE {<< "out", u >>})
    PROVE  EndForAll(c, u)
  <1>1. CASE u \in Service!Online(userOf')
    <2>1. Service!Tell(clients', {}) = Service!Tell({}, {})
      BY DEF Service!Tell
    <2> QED BY <1>1, <2>1 DEF EndForAll, Service!End
  <1>2. CASE u \notin Service!Online(userOf')
    BY <1>2, AllAreAnAudience DEF EndForAll, Service!End
  <1> QED BY <1>1, <1>2

\* A command that is refused is an inquiry that is told nothing.
LEMMA RefuseIsAsk ==
    ASSUME NEW c \in Conns, c \in clients, NEW status \in Kinds, refuse(c, status)
    PROVE  NoticedStep
  <1>1. \A d \in Conns : factsIn(out'[d]) = {}
    BY FactlessOutputs DEF refuse
  <1>2. Service!Ask(c)
    BY <1>1 DEF Service!Ask, Notice, refuse, sessionVars
  <1> QED BY <1>2 DEF NoticedStep

\* Server::_acceptClient opens a connection.
LEMMA AcceptIsOpen ==
    ASSUME NEW c \in Conns, acceptClient(c), SessionsInv
    PROVE  NoticedStep
  <1>0. userOf' = userOf
    BY DEF acceptClient, SessionsInv, SessionsTypeOK, SessionsAreRegistered
  <1>1. \A d \in Conns : factsIn(out'[d]) = {}
    BY FactsEmpty DEF acceptClient, NoOutput
  <1>2. Service!Open(c)
    BY <1>0, <1>1 DEF Service!Open, Service!Tell, Notice, acceptClient
  <1> QED BY <1>2 DEF NoticedStep

\* The announcement of a leaving session, for the connections of the table.
LEMMA OfflineFacts ==
    ASSUME SessionsInv, NEW c \in clients, userOf[c] # None,
           userOf' = [userOf EXCEPT ![c] = None], NEW table, NEW d \in Conns
    PROVE  factsIn((IF goneOffline(c) = {} THEN NoOutput
                    ELSE broadcast(line("EVENT USER_LOGGED_OUT", goneOffline(c)), table))[d])
           = IF d \in table /\ userOf[c] \notin Service!Online(userOf')
             THEN {<< "out", userOf[c] >>} ELSE {}
  <1>0. userOf[c] \in UserIds
    BY DEF SessionsInv, SessionsTypeOK
  <1>1. CASE userOf[c] \in Service!Online(userOf')
    <2>1. goneOffline(c) = {}
      BY <1>1, GoneOfflineExact
    <2> QED BY <1>1, <2>1, FactsEmpty DEF NoOutput
  <1>2. CASE userOf[c] \notin Service!Online(userOf')
    <2>1. goneOffline(c) = {userOf[c]}
      BY <1>2, GoneOfflineExact
    <2>2. factsIn(broadcast(line("EVENT USER_LOGGED_OUT", {userOf[c]}), table)[d])
          = IF d \in table THEN {<< "out", userOf[c] >>} ELSE {}
      BY <1>0, LoggedOutFacts
    <2> QED BY <1>2, <2>1, <2>2
  <1> QED BY <1>1, <1>2

\* Server::_disconnectClient ends the session, if there is one, and closes
\* the connection.
LEMMA DisconnectIsEnd ==
    ASSUME NEW c \in Conns, disconnectClient(c), SessionsInv
    PROVE  NoticedStep
  <1>1. CASE userOf[c] # None
    <2>1. userOf[c] \in UserIds
      BY <1>1 DEF SessionsInv, SessionsTypeOK
    <2>2. \A d \in Conns : factsIn(out'[d])
             = IF d \in clients' /\ userOf[c] \notin Service!Online(userOf')
               THEN {<< "out", userOf[c] >>} ELSE {}
      BY <1>1, OfflineFacts DEF disconnectClient
    <2>3. EndForAll(c, userOf[c])
      <3>1. Notice' = Service!Tell(clients', IF userOf[c] \in Service!Online(userOf') THEN {}
                                             ELSE {<< "out", userOf[c] >>})
        BY <2>2 DEF Service!Tell, Notice
      <3>2. /\ c \in clients /\ clients' = clients \ {c}
            /\ userOf' = [userOf EXCEPT ![c] = None]
        BY DEF disconnectClient
      <3> QED BY <3>1, <3>2, EndsForAll
    <2> QED BY <2>1, <2>3 DEF NoticedStep
  <1>2. CASE userOf[c] = None
    <2>1. goneOffline(c) = {}
      BY <1>2, NoneAssumption DEF goneOffline, findUser, Registered
    <2>2. \A d \in Conns : factsIn(out'[d]) = {}
      BY <2>1, FactsEmpty DEF disconnectClient, NoOutput
    <2>3. userOf' = userOf
      BY <1>2 DEF disconnectClient, SessionsInv, SessionsTypeOK
    <2>4. Service!Close(c)
      BY <1>2, <2>2, <2>3 DEF Service!Close, Service!Tell, Notice, disconnectClient
    <2> QED BY <2>4 DEF NoticedStep
  <1> QED BY <1>1, <1>2

\* A successful login begins a session.
LEMMA StartIsBegin ==
    ASSUME SessionsInv, NEW c \in Conns, c \in clients, userOf[c] = None,
           NEW u \in UserIds, startSession(c, u)
    PROVE  NoticedStep
  <1> DEFINE a == sendToClient(line("200 OK", {u}), c)
             b == broadcast(line("EVENT USER_LOGGED_IN", {u}), clients)
  <1>0. /\ "200 OK" \in Kinds /\ "EVENT USER_LOGGED_IN" \in Kinds
        /\ "200 OK" \notin InKinds /\ "200 OK" \notin OutKinds
        /\ "EVENT USER_LOGGED_IN" \in InKinds /\ "EVENT USER_LOGGED_IN" \notin OutKinds
    BY DEF Kinds, InKinds, OutKinds
  <1>1. a \in Output /\ b \in Output
    BY <1>0, SubjectsAssumption, LineType, SendToClientType, BroadcastType
  <1>2. \A d \in Conns : factsIn(a[d]) = {}
    <2>1. factsIn(<< line("200 OK", {u}) >>) = {}
      BY <1>0, SubjectsAssumption, FactsLine
    <2> QED BY <2>1, FactsEmpty DEF sendToClient
  <1>3. \A d \in Conns : factsIn(b[d]) = IF d \in clients THEN {<< "in", u >>} ELSE {}
    BY LoggedInFacts
  <1>4. out' = Then(a, b)
    BY DEF startSession
  <1> HIDE DEF a, b
  <1>5. ASSUME NEW d \in Conns
        PROVE  factsIn(out'[d]) = IF d \in clients THEN {<< "in", u >>} ELSE {}
    <2>1. factsIn(out'[d]) = factsIn(a[d]) \cup factsIn(b[d])
      BY <1>1, <1>4, ThenFacts
    <2> QED BY <2>1, <1>2, <1>3
  <1>6. BeginForAll(c, u)
    <2>1. Notice' = Service!Tell(clients, {<< "in", u >>})
      BY <1>5 DEF Service!Tell, Notice
    <2>2. userOf' = [userOf EXCEPT ![c] = u] /\ clients' = clients
      BY DEF startSession
    <2> QED BY <2>1, <2>2, AllAreAnAudience DEF BeginForAll, Service!Begin
  <1> QED BY <1>6 DEF NoticedStep

\* A successful logout ends a session and leaves the connection open.
LEMMA LogoutIsEnd ==
    ASSUME SessionsInv, NEW c \in Conns, Logout(c), userOf[c] # None
    PROVE  NoticedStep
  <1> DEFINE a == IF goneOffline(c) = {} THEN NoOutput
                  ELSE broadcast(line("EVENT USER_LOGGED_OUT", goneOffline(c)), clients)
             b == sendToClient(line("200 OK", {}), c)
  <1>0. "200 OK" \in Kinds
    BY DEF Kinds
  <1>1. a \in Output /\ b \in Output
    BY <1>0, OfflineType, LineType, SendToClientType
  <1>2. \A d \in Conns : factsIn(b[d]) = {}
    BY <1>0, FactlessOutputs
  <1>3. \A d \in Conns : factsIn(a[d])
           = IF d \in clients /\ userOf[c] \notin Service!Online(userOf')
             THEN {<< "out", userOf[c] >>} ELSE {}
    BY OfflineFacts DEF Logout
  <1>4. /\ out' = Then(a, b) /\ clients' = clients /\ c \in clients
        /\ userOf' = [userOf EXCEPT ![c] = None]
    BY DEF Logout
  <1> HIDE DEF a, b
  <1>5. ASSUME NEW d \in Conns
        PROVE  factsIn(out'[d])
               = IF d \in clients' /\ userOf[c] \notin Service!Online(userOf')
                 THEN {<< "out", userOf[c] >>} ELSE {}
    <2>1. factsIn(out'[d]) = factsIn(a[d]) \cup factsIn(b[d])
      BY <1>1, <1>4, ThenFacts
    <2> QED BY <2>1, <1>2, <1>3, <1>4
  <1>6. EndForAll(c, userOf[c])
    <2>1. Notice' = Service!Tell(clients', IF userOf[c] \in Service!Online(userOf') THEN {}
                                           ELSE {<< "out", userOf[c] >>})
      BY <1>5 DEF Service!Tell, Notice
    <2> QED BY <2>1, <1>4, EndsForAll
  <1>7. userOf[c] \in UserIds
    BY DEF SessionsInv, SessionsTypeOK
  <1> QED BY <1>6, <1>7 DEF NoticedStep
\* The facts of a line that reports the online users of a set, or the others.
LEMMA StatusLineFacts ==
    ASSUME NEW of \in SUBSET UserIds, NEW kind
    PROVE  /\ kind \in InKinds => factsIn(<< line(kind, of) >>) = {<< "in", u >> : u \in of}
           /\ kind \in OutKinds => factsIn(<< line(kind, of) >>) = {<< "out", u >> : u \in of}
  <1>1. of \in SUBSET Subjects /\ of \cap UserIds = of
    BY SubjectsAssumption
  <1>2. kind \in InKinds => kind \notin OutKinds
    BY DEF InKinds, OutKinds
  <1> QED BY <1>1, <1>2, FactsLine

\* What a user list says.
LEMMA UserListFacts ==
    ASSUME NEW us \in SUBSET UserIds
    PROVE  factsIn(list(userLines(us)))
           = {<< "in", u >> : u \in {v \in us : isConnected(count[v])}}
             \cup {<< "out", u >> : u \in {v \in us : ~ isConnected(count[v])}}
  <1> DEFINE on   == {v \in us : isConnected(count[v])}
             off  == {v \in us : ~ isConnected(count[v])}
             beg  == << line("210-BEGIN", {}) >>
             fin  == << line("210-END", {}) >>
             ons  == << line("210 USER 1", on) >>
             offs == << line("210 USER 0", off) >>
  <1>1. /\ line("210-BEGIN", {}) \in Line /\ line("210-END", {}) \in Line
        /\ line("210 USER 1", on) \in Line /\ line("210 USER 0", off) \in Line
    <2>1. on \in SUBSET Subjects /\ off \in SUBSET Subjects
      BY SubjectsAssumption
    <2> HIDE DEF on, off
    <2> QED BY <2>1, LineType DEF Kinds
  <1>2. factsIn(beg) = {} /\ factsIn(fin) = {}
    BY FactsLine
  <1>3. /\ factsIn(ons) = {<< "in", u >> : u \in on}
        /\ factsIn(offs) = {<< "out", u >> : u \in off}
    <2>1. on \in SUBSET UserIds /\ off \in SUBSET UserIds
      OBVIOUS
    <2>2. "210 USER 1" \in InKinds /\ "210 USER 0" \in OutKinds
      BY DEF InKinds, OutKinds
    <2> HIDE DEF on, off
    <2> QED BY <2>1, <2>2, StatusLineFacts
  <1>4. userLines(us) = ons \o offs
    BY DEF userLines
  <1> HIDE DEF on, off
  <1>5. userLines(us) = ons \o offs /\ ons \in Seq(Line) /\ offs \in Seq(Line)
        /\ beg \in Seq(Line) /\ fin \in Seq(Line)
    <2>1. ASSUME NEW x \in Line PROVE << x >> \in Seq(Line)
      OBVIOUS
    <2> QED BY <1>1, <1>4, <2>1, Zenon
  <1>6. list(userLines(us)) = beg \o (ons \o offs) \o fin
    BY <1>5 DEF list
  <1> HIDE DEF beg, fin, ons, offs
  <1>a. ASSUME NEW x \in Seq(Line), NEW y \in Seq(Line) PROVE x \o y \in Seq(Line)
    OBVIOUS
  <1>7. factsIn(ons \o offs) = factsIn(ons) \cup factsIn(offs) /\ ons \o offs \in Seq(Line)
    BY <1>5, <1>a, FactsConcat, Zenon
  <1>8. /\ factsIn(beg \o (ons \o offs)) = factsIn(beg) \cup factsIn(ons \o offs)
        /\ beg \o (ons \o offs) \in Seq(Line)
    BY <1>5, <1>7, <1>a, FactsConcat, Zenon
  <1>9. factsIn(beg \o (ons \o offs) \o fin) = factsIn(beg \o (ons \o offs)) \cup factsIn(fin)
    BY <1>5, <1>8, FactsConcat, Zenon
  <1>10. factsIn(list(userLines(us))) = {<< "in", u >> : u \in on} \cup {<< "out", u >> : u \in off}
    BY <1>2, <1>3, <1>6, <1>7, <1>8, <1>9
  <1> QED BY <1>10 DEF on, off

\* /users is an inquiry that is answered with facts.
LEMMA UsersIsAsk ==
    ASSUME SessionsInv, NEW c \in Conns, UsersCommand(c), userOf[c] # None
    PROVE  NoticedStep
  <1>1. /\ c \in clients /\ UNCHANGED << clients, userOf >>
        /\ out' = sendList(list(userLines(Registered)), c)
    BY DEF UsersCommand, sessionVars
  <1>2. Registered \in SUBSET UserIds
    BY DEF Registered
  <1>3. factsIn(list(userLines(Registered))) \subseteq Service!Facts(userOf)
    BY <1>2, UserListFacts, ConnectedIsOnline DEF Service!Facts
  <1>4. factsIn(out'[c]) \subseteq Service!Facts(userOf)
    BY <1>1, <1>3 DEF sendList
  <1>5. \A d \in Conns : d # c => factsIn(out'[d]) = {}
    BY <1>1, FactsEmpty DEF sendList
  <1>6. Service!Ask(c)
    BY <1>1, <1>4, <1>5 DEF Service!Ask, Notice
  <1> QED BY <1>6 DEF NoticedStep

\* /user is an inquiry that is answered with a fact.
LEMMA UserIsAsk ==
    ASSUME SessionsInv, NEW c \in Conns, NEW arg \in UserIds, UserCommand(c, arg),
           userOf[c] # None, findUser(arg) # {}
    PROVE  NoticedStep
  <1> DEFINE kind == IF isConnected(count[arg]) THEN "200 USER 1" ELSE "200 USER 0"
  <1>1. /\ c \in clients /\ UNCHANGED << clients, userOf >>
        /\ out' = sendToClient(line(kind, {arg}), c)
    BY NoneAssumption DEF UserCommand, sessionVars
  <1>2. /\ isConnected(count[arg]) => kind \in InKinds
        /\ ~ isConnected(count[arg]) => kind \in OutKinds
    BY DEF InKinds, OutKinds
  <1> HIDE DEF kind
  <1>3. factsIn(<< line(kind, {arg}) >>)
        = IF isConnected(count[arg]) THEN {<< "in", u >> : u \in {arg}}
          ELSE {<< "out", u >> : u \in {arg}}
    BY <1>2, StatusLineFacts
  <1>4. factsIn(<< line(kind, {arg}) >>) \subseteq Service!Facts(userOf)
    BY <1>3, ConnectedIsOnline DEF Service!Facts
  <1>5. factsIn(out'[c]) \subseteq Service!Facts(userOf)
    BY <1>1, <1>4 DEF sendToClient
  <1>6. \A d \in Conns : d # c => factsIn(out'[d]) = {}
    BY <1>1, FactsEmpty DEF sendToClient
  <1>7. Service!Ask(c)
    BY <1>1, <1>5, <1>6 DEF Service!Ask, Notice
  <1> QED BY <1>7 DEF NoticedStep

\* A restart closes every connection and ends every session.
LEMMA RestartIsReset ==
    ASSUME Restart
    PROVE  NoticedStep
  <1>1. \A d \in Conns : factsIn(out'[d]) = {}
    BY FactsEmpty DEF Restart, NoOutput
  <1>2. Service!Reset
    BY <1>1 DEF Service!Reset, Service!Tell, Notice, Restart
  <1> QED BY <1>2 DEF NoticedStep

\* Every step of the sessions is a step of the service.
LEMMA SessionsStepIsNoticed ==
    ASSUME SessionsInv, SessionsNext
    PROVE  NoticedStep
  <1>0. /\ "400 BAD_REQUEST" \in Kinds /\ "401 UNAUTHORIZED" \in Kinds
        /\ "404 NOT_FOUND" \in Kinds
    BY DEF Kinds
  <1>1. CASE Restart
    BY <1>1, RestartIsReset
  <1>2. CASE ServerStep
    <2>0. PICK c \in Conns : acceptClient(c) \/ disconnectClient(c) \/ SessionCommand(c)
      BY <1>2 DEF ServerStep
    <2>1. CASE acceptClient(c)
      BY <2>1, AcceptIsOpen
    <2>2. CASE disconnectClient(c)
      BY <2>2, DisconnectIsEnd
    <2>3. ASSUME c \in clients, NEW status \in Kinds, refuse(c, status)
          PROVE  NoticedStep
      BY <2>3, RefuseIsAsk
    <2>4. ASSUME NEW arg \in Names \cup {None, Invalid}, Login(c, arg)
          PROVE  NoticedStep
      <3>1. c \in clients
        BY <2>4 DEF Login
      <3>2. CASE userOf[c] = None /\ (createNewUser(c, arg) \/ logUserIn(c, arg))
        <4>1. PICK u \in UserIds : startSession(c, u)
          BY <3>2 DEF createNewUser, logUserIn, findUserByName, Registered
        <4> QED BY <3>1, <3>2, <4>1, StartIsBegin
      <3> QED BY <2>4, <3>1, <3>2, <2>3, <1>0, Zenon DEF Login
    <2>5. CASE Logout(c)
      <3>1. c \in clients
        BY <2>5 DEF Logout
      <3>2. CASE userOf[c] # None
        BY <2>5, <3>2, LogoutIsEnd
      <3>3. CASE userOf[c] = None
        BY <2>5, <3>1, <3>3, <2>3, <1>0, Zenon DEF Logout
      <3> QED BY <3>2, <3>3
    <2>6. CASE UsersCommand(c)
      <3>1. c \in clients
        BY <2>6 DEF UsersCommand
      <3>2. CASE userOf[c] # None
        BY <2>6, <3>2, UsersIsAsk
      <3>3. CASE userOf[c] = None
        BY <2>6, <3>1, <3>3, <2>3, <1>0, Zenon DEF UsersCommand
      <3> QED BY <3>2, <3>3
    <2>7. ASSUME NEW arg \in UserIds \cup {None}, UserCommand(c, arg)
          PROVE  NoticedStep
      <3>1. c \in clients
        BY <2>7 DEF UserCommand
      <3>2. CASE userOf[c] # None /\ arg # None /\ findUser(arg) # {}
        BY <2>7, <3>2, UserIsAsk
      <3>3. CASE ~ (userOf[c] # None /\ arg # None /\ findUser(arg) # {})
        BY <2>7, <3>1, <3>3, <2>3, <1>0, Zenon DEF UserCommand
      <3> QED BY <3>2, <3>3
    <2> QED BY <2>0, <2>1, <2>2, <2>4, <2>5, <2>6, <2>7 DEF SessionCommand
  <1> QED BY <1>1, <1>2 DEF SessionsNext

-------------------------------------------------------------------------------
(* Private messages say nothing about presence *)

\* Lines of other kinds state no facts.
LEMMA NoFacts ==
    ASSUME NEW ls, \A i \in DOMAIN ls : ls[i].kind \notin InKinds \cup OutKinds
    PROVE  factsIn(ls) = {}
  <1>1. ASSUME NEW u PROVE ~ Speaks(ls, InKinds, u) /\ ~ Speaks(ls, OutKinds, u)
    BY DEF Speaks
  <1> QED BY <1>1 DEF factsIn

\* A command that changes no session and states no facts is an inquiry that is
\* told nothing.
LEMMA FactlessIsAsk ==
    ASSUME NEW c \in Conns, c \in clients, UNCHANGED sessionVars,
           \A d \in Conns : factsIn(out'[d]) = {}
    PROVE  NoticedStep
  <1>1. Service!Ask(c)
    BY DEF Service!Ask, Notice, sessionVars
  <1> QED BY <1>1 DEF NoticedStep

\* The event and the answer of /send.
LEMMA StoredIsNoticed ==
    ASSUME SessionsTypeOK, NEW c \in Conns, NEW to, NEW m, Stored(c, to, m)
    PROVE  NoticedStep
  <1> DEFINE e == line("EVENT PRIVATE_MESSAGE", {userOf[c]})
             a == line("200 OK", {})
             T == SessionsOf(to)
  <1>1. e.kind \notin InKinds \cup OutKinds /\ a.kind \notin InKinds \cup OutKinds
    BY DEF line, InKinds, OutKinds
  <1>2. /\ c \in clients /\ UNCHANGED sessionVars
        /\ out' = Then(sendToUser(e, to), sendToClient(a, c))
    BY DEF Stored
  <1> HIDE DEF e, a
  <1>3. ASSUME NEW d \in Conns PROVE factsIn(out'[d]) = {}
    <2>1. out'[d] = Sent(d, T, e, c, a)
      BY <1>2 DEF Then, sendToUser, broadcast, sendToClient, Sent
    <2> HIDE DEF T
    <2>2. \A i \in DOMAIN out'[d] : out'[d][i] = e \/ out'[d][i] = a
      BY <2>1, SentLines DEF EventThenAnswer
    <2> QED BY <1>1, <2>2, NoFacts
  <1> QED BY <1>2, <1>3, FactlessIsAsk

\* The list of /messages.
LEMMA ListedIsNoticed ==
    ASSUME PrivateMessagesTypeOK, NEW c \in Conns, NEW arg, ListedTo(c, arg)
    PROVE  NoticedStep
  <1> DEFINE ms    == mail[userOf[c]][arg]
             items == messageLines(ms)
             beg   == << line("210-BEGIN", {}) >>
             fin   == << line("210-END", {}) >>
  <1>1. /\ c \in clients /\ UNCHANGED sessionVars
        /\ out' = sendList(list(items), c)
    BY DEF ListedTo
  <1>2. ms \in Seq(Message)
    BY DEF PrivateMessagesTypeOK, ListedTo
  <1> HIDE DEF ms
  <1>3. items \in Seq(Line)
    BY <1>2, MessageLinesType
  <1>4. factsIn(items) = {}
    <2>1. "210 MESSAGE" \notin InKinds \cup OutKinds
      BY DEF InKinds, OutKinds
    <2>2. \A i \in DOMAIN items : items[i].kind = "210 MESSAGE"
      BY DEF messageLines, line
    <2> HIDE DEF items
    <2> QED BY <2>1, <2>2, NoFacts
  <1>5. /\ factsIn(beg) = {} /\ factsIn(fin) = {}
        /\ line("210-BEGIN", {}) \in Line /\ line("210-END", {}) \in Line
    <2>1. factsIn(beg) = {} /\ factsIn(fin) = {}
      BY FactsLine
    <2>2. line("210-BEGIN", {}) \in Line /\ line("210-END", {}) \in Line
      BY LineType DEF Kinds
    <2> QED BY <2>1, <2>2
  <1>6. beg \in Seq(Line) /\ fin \in Seq(Line)
    <2>1. ASSUME NEW x \in Line PROVE << x >> \in Seq(Line)
      OBVIOUS
    <2> QED BY <1>5, <2>1, Zenon
  <1>7. list(items) = beg \o items \o fin
    BY DEF list
  <1> HIDE DEF items, beg, fin
  <1>8. factsIn(beg \o items) = {} /\ beg \o items \in Seq(Line)
    <2>1. ASSUME NEW x \in Seq(Line), NEW y \in Seq(Line) PROVE x \o y \in Seq(Line)
      OBVIOUS
    <2> QED BY <1>3, <1>4, <1>5, <1>6, <2>1, FactsConcat
  <1>9. factsIn(list(items)) = {}
    <2>1. factsIn(beg \o items \o fin) = factsIn(beg \o items) \cup factsIn(fin)
      BY <1>6, <1>8, FactsConcat, Zenon
    <2> QED BY <1>5, <1>7, <1>8, <2>1
  <1>10. \A d \in Conns : factsIn(out'[d]) = {}
    BY <1>1, <1>9, FactsEmpty DEF sendList
  <1> QED BY <1>1, <1>10, FactlessIsAsk

\* /send and /messages are refused, store a message or list messages.
LEMMA MessageCommandIsNoticed ==
    ASSUME PrivateMessagesInv, NEW c \in Conns, MessageCommand(c)
    PROVE  NoticedStep
  <1>0. SessionsTypeOK /\ PrivateMessagesTypeOK
    BY DEF PrivateMessagesInv, PrivateMessagesTypeOK
  <1>1. c \in clients
    BY DEF MessageCommand, Send, Messages
  <1>2. ASSUME NEW status \in Refusals, pmRefuse(c, status)
        PROVE  NoticedStep
    <2>1. status \in Kinds
      BY DEF Refusals, Kinds
    <2>2. refuse(c, status)
      BY <1>2 DEF pmRefuse
    <2> QED BY <1>1, <2>1, <2>2, RefuseIsAsk
  <1>3. ASSUME NEW to \in UserIds \cup {None, Invalid}, NEW body, Send(c, to, body)
        PROVE  NoticedStep
    BY <1>0, <1>2, <1>3, SendShape, StoredIsNoticed
  <1>4. ASSUME NEW arg \in UserIds \cup {None, Invalid}, Messages(c, arg)
        PROVE  NoticedStep
    BY <1>0, <1>2, <1>4, MessagesShape, ListedIsNoticed
  <1> QED BY <1>3, <1>4 DEF MessageCommand

\* Every step of the server is a step of the service.
LEMMA StepIsNoticed ==
    ASSUME PrivateMessagesInv, PrivateMessagesNext
    PROVE  NoticedStep
  BY SessionsStepIsNoticed, MessageCommandIsNoticed DEF PrivateMessagesInv, PrivateMessagesNext

-------------------------------------------------------------------------------

\* Presence only adds a history variable to PrivateMessages.
LEMMA PresenceIsMessages == PresenceSpec => PrivateMessagesSpec
  <1>1. PresenceInit => PrivateMessagesInit
    BY DEF PresenceInit
  <1>2. [PresenceNext]_presenceVars => [PrivateMessagesNext]_pmVars
    BY DEF PresenceNext, presenceVars, pmVars
  <1> QED BY <1>1, <1>2, PTL DEF PresenceSpec, PrivateMessagesSpec

\* The server implements the presence service: everybody who is logged in is
\* told of every login and of the end of a user's last session, and every
\* inquiry is answered truthfully, to users who are logged in.
THEOREM ServerImplementsService == PresenceSpec => ImplementsService
  <1>1. PrivateMessagesInit => Service!ServiceInit
    BY FactsEmpty DEF PrivateMessagesInit, SessionsInit, Service!ServiceInit, Service!Tell,
                      Notice, NoOutput
  <1>2. PrivateMessagesInv /\ [PrivateMessagesNext]_pmVars
          => [Service!ServiceNext]_(Service!serviceVars)
    <2>1. PrivateMessagesInv /\ PrivateMessagesNext => Service!ServiceNext
      BY StepIsNoticed, NoticedStepIsService
    <2>2. UNCHANGED pmVars => UNCHANGED Service!serviceVars
      BY DEF pmVars, Service!serviceVars, Notice
    <2> QED BY <2>1, <2>2
  <1>3. PrivateMessagesSpec => Service!ServiceSpec
    BY <1>1, <1>2, PrivateMessagesInvariant, PTL DEF PrivateMessagesSpec, Service!ServiceSpec
  <1> QED BY <1>3, PresenceIsMessages, PTL DEF ImplementsService

-------------------------------------------------------------------------------
(* What connections were told *)

\* Connections that are not in the table have been told nothing; this is what
\* makes a reused descriptor start without beliefs.
ToldOnlyClients ==
    /\ told \in [Conns -> [UserIds -> SUBSET {"in", "out"}]]
    /\ \A c \in Conns \ clients, u \in UserIds : told[c][u] = {}

\* The inductive invariant of Presence.
PresenceInv == PrivateMessagesInv /\ ToldOnlyClients /\ ToldIsTrue

\* A user is online exactly when it has a session on a connection of the table.
LEMMA OnlineIsSessions ==
    ASSUME SessionsInv, NEW u \in UserIds
    PROVE  SessionsOf(u) # {} <=> u \in Service!Online(userOf)
  BY NoneAssumption DEF SessionsOf, SessionsInv, SessionsAreRegistered, SessionsTypeOK,
                        Service!Online

\* A fact about u is a fact of the service exactly when it is true.
LEMMA FactsAreTrue ==
    ASSUME NEW s, NEW u \in UserIds
    PROVE  /\ << "in", u >> \in Service!Facts(s) => u \in Service!Online(s)
           /\ << "out", u >> \in Service!Facts(s) => u \notin Service!Online(s)
  BY DEF Service!Facts

\* A step of the server tells only what is true after it.
LEMMA NoticesAreTrue ==
    ASSUME SessionsInv, NoticedStep, NEW c \in Conns
    PROVE  Notice'[c] \subseteq Service!Facts(userOf')
  <1>0. userOf \in [Conns -> UserIds \cup {None}]
    BY DEF SessionsInv, SessionsTypeOK
  <1>1. CASE \E d \in Conns : Service!Open(d) \/ Service!Close(d)
    BY <1>1 DEF Service!Open, Service!Close, Service!Tell
  <1>2. ASSUME NEW d \in Conns, Service!Ask(d)
        PROVE  Notice'[c] \subseteq Service!Facts(userOf')
    BY <1>2 DEF Service!Ask
  <1>3. ASSUME NEW d \in Conns, NEW u \in UserIds, BeginForAll(d, u)
        PROVE  Notice'[c] \subseteq Service!Facts(userOf')
    <2>1. Notice'[c] \subseteq {<< "in", u >>}
      BY <1>3 DEF BeginForAll, Service!Begin, Service!Tell
    <2>2. u \in Service!Online(userOf')
      BY <1>0, <1>3 DEF BeginForAll, Service!Begin, Service!Online
    <2> QED BY <2>1, <2>2 DEF Service!Facts
  <1>4. ASSUME NEW d \in Conns, NEW u \in UserIds, EndForAll(d, u)
        PROVE  Notice'[c] \subseteq Service!Facts(userOf')
    <2>1. CASE u \in Service!Online(userOf')
      BY <1>4, <2>1 DEF EndForAll, Service!End, Service!Tell
    <2>2. CASE u \notin Service!Online(userOf')
      <3>1. Notice'[c] \subseteq {<< "out", u >>}
        BY <1>4, <2>2 DEF EndForAll, Service!End, Service!Tell
      <3> QED BY <2>2, <3>1 DEF Service!Facts
    <2> QED BY <2>1, <2>2
  <1>5. CASE Service!Reset
    BY <1>5 DEF Service!Reset, Service!Tell
  <1> QED BY <1>1, <1>2, <1>3, <1>4, <1>5 DEF NoticedStep

\* When a user's presence changes, every connection that is in the table
\* before and after the step is told about that user.
LEMMA ChangesAreNoticed ==
    ASSUME SessionsInv, NoticedStep, NEW c \in clients, c \in clients',
           NEW u \in UserIds, ~ (u \in Service!Online(userOf) <=> u \in Service!Online(userOf'))
    PROVE  << "in", u >> \in Notice'[c] \/ << "out", u >> \in Notice'[c]
  <1>0. userOf \in [Conns -> UserIds \cup {None}] /\ c \in Conns /\ u # None
    BY NoneAssumption DEF SessionsInv, SessionsTypeOK
  <1>1. userOf' # userOf
    BY DEF Service!Online
  <1>2. ASSUME NEW d \in Conns, NEW v \in UserIds, BeginForAll(d, v)
        PROVE  << "in", u >> \in Notice'[c]
    <2>1. v = u
      BY <1>0, <1>2 DEF BeginForAll, Service!Begin, Service!Online
    <2> QED BY <1>0, <1>2, <2>1 DEF BeginForAll, Service!Begin, Service!Tell
  <1>3. ASSUME NEW d \in Conns, NEW v \in UserIds, EndForAll(d, v)
        PROVE  << "out", u >> \in Notice'[c]
    <2>1. v = u
      BY <1>0, <1>3 DEF EndForAll, Service!End, Service!Online
    <2>2. u \notin Service!Online(userOf')
      BY <1>0, <1>3, <2>1 DEF EndForAll, Service!End, Service!Online
    <2> QED BY <1>0, <1>3, <2>1, <2>2 DEF EndForAll, Service!End, Service!Tell
  <1>4. ~ \E d \in Conns : Service!Open(d) \/ Service!Close(d) \/ Service!Ask(d)
    BY <1>1 DEF Service!Open, Service!Close, Service!Ask
  <1>5. ~ Service!Reset
    BY DEF Service!Reset
  <1> QED BY <1>2, <1>3, <1>4, <1>5 DEF NoticedStep

\* A step of the server keeps what connections were told true.
LEMMA StepKeepsToldTrue ==
    ASSUME PresenceInv, SessionsInv', PrivateMessagesNext, Remember
    PROVE  ToldIsTrue'
  <1>1. NoticedStep /\ SessionsInv
    BY StepIsNoticed DEF PresenceInv, PrivateMessagesInv
  <1> SUFFICES ASSUME NEW c \in clients', NEW u \in UserIds
               PROVE  /\ "in" \in told'[c][u] => SessionsOf(u)' # {}
                      /\ "out" \in told'[c][u] => SessionsOf(u)' = {}
    BY DEF ToldIsTrue
  <1>2. c \in Conns /\ Notice'[c] = factsIn(out'[c])
    BY DEF SessionsInv, SessionsTypeOK, Notice
  <1>3. SessionsOf(u)' # {} <=> u \in Service!Online(userOf')
    BY NoneAssumption DEF SessionsOf, SessionsInv, SessionsAreRegistered, SessionsTypeOK,
                          Service!Online
  <1>4. told'[c][u] = IF saidOf(out'[c], u) = {} THEN told[c][u] ELSE saidOf(out'[c], u)
    BY <1>2 DEF Remember
  <1>5. CASE saidOf(out'[c], u) # {}
    <2>1. \A s \in told'[c][u] : << s, u >> \in Service!Facts(userOf')
      BY <1>1, <1>2, <1>4, <1>5, NoticesAreTrue DEF saidOf
    <2> QED BY <1>3, <2>1, FactsAreTrue
  <1>6. CASE saidOf(out'[c], u) = {}
    <2>1. told'[c][u] = told[c][u]
      BY <1>4, <1>6
    <2>2. CASE c \notin clients
      BY <1>2, <2>1, <2>2 DEF PresenceInv, ToldOnlyClients
    <2>3. CASE c \in clients
      <3>1. << "in", u >> \notin Notice'[c] /\ << "out", u >> \notin Notice'[c]
        BY <1>2, <1>6 DEF saidOf
      <3>2. u \in Service!Online(userOf) <=> u \in Service!Online(userOf')
        BY <1>1, <2>3, <3>1, ChangesAreNoticed
      <3>3. SessionsOf(u) # {} <=> u \in Service!Online(userOf)
        BY <1>1, OnlineIsSessions
      <3>4. /\ "in" \in told[c][u] => SessionsOf(u) # {}
            /\ "out" \in told[c][u] => SessionsOf(u) = {}
        BY <2>3 DEF PresenceInv, ToldIsTrue
      <3> QED BY <1>3, <2>1, <3>2, <3>3, <3>4
    <2> QED BY <2>2, <2>3
  <1> QED BY <1>5, <1>6

\* The invariant of Presence holds in every reachable state.
THEOREM PresenceInvariant == PresenceSpec => []PresenceInv
  <1>1. PresenceInit => PresenceInv
    <2> SUFFICES ASSUME PresenceInit PROVE PresenceInv
      OBVIOUS
    <2>1. PrivateMessagesInv
      BY PrivateMessagesInitInv DEF PresenceInit
    <2>2. ToldOnlyClients
      BY DEF PresenceInit, ToldOnlyClients
    <2>3. ToldIsTrue
      BY DEF PresenceInit, PrivateMessagesInit, SessionsInit, ToldIsTrue
    <2> QED BY <2>1, <2>2, <2>3 DEF PresenceInv
  <1>2. PresenceInv /\ PresenceNext => PresenceInv'
    <2> SUFFICES ASSUME PresenceInv, PresenceNext PROVE PresenceInv'
      OBVIOUS
    <2>1. PrivateMessagesInv' /\ SessionsInv'
      <3>1. PrivateMessagesInv'
        BY PrivateMessagesNextInv DEF PresenceInv, PresenceNext
      <3> QED BY <3>1 DEF PrivateMessagesInv
    <2>2. ToldOnlyClients'
      BY DEF PresenceInv, PresenceNext, Remember, ToldOnlyClients, saidOf
    <2>3. ToldIsTrue'
      BY <2>1, StepKeepsToldTrue DEF PresenceNext
    <2> QED BY <2>1, <2>2, <2>3 DEF PresenceInv
  <1>3. PresenceInv /\ UNCHANGED presenceVars => PresenceInv'
    <2> SUFFICES ASSUME PresenceInv, UNCHANGED presenceVars PROVE PresenceInv'
      OBVIOUS
    <2>1. PrivateMessagesInv'
      BY PrivateMessagesStutterInv DEF PresenceInv, presenceVars, pmVars
    <2>2. ToldOnlyClients' /\ ToldIsTrue'
      BY DEF PresenceInv, ToldOnlyClients, ToldIsTrue, SessionsOf, presenceVars
    <2> QED BY <2>1, <2>2 DEF PresenceInv
  <1> QED BY <1>1, <1>2, <1>3, PTL DEF PresenceSpec

\* What a connection was last told about a user's presence is always true.
THEOREM BeliefsAreTrue == PresenceSpec => []ToldIsTrue
  <1>1. PresenceInv => ToldIsTrue
    BY DEF PresenceInv
  <1> QED BY <1>1, PresenceInvariant, PTL
===============================================================================
