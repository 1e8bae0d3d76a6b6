---------------------------- MODULE WorkspaceProofs ---------------------------
(***************************************************************************)
(* Proofs about module Workspace, for any sets of users, teams, channels,  *)
(* threads and names and any finite set of connections.                    *)
(***************************************************************************)
EXTENDS Workspace, SessionsProofs

\* A thread that exists has an author: /list speaks of the authors of threads.
ThreadsHaveAuthors == \A th \in ThreadIds : thrChan[th] # None => thrAuthor[th] \in UserIds

\* The inductive invariant. A context can only be shown to stay well formed
\* together with the hierarchy of the content: a channel that is created now
\* must not be one that some context already names.
WorkspaceInv ==
    /\ SessionsInv
    /\ WorkspaceTypeOK
    /\ ContextWellFormed
    /\ NamesUniqueInScope
    /\ ThreadsHaveAuthors

-------------------------------------------------------------------------------
(* What outputs speak about *)

\* The lines that speak of nothing but members of S, and the outputs of such
\* lines.
LinesAbout(S) == [kind : Kinds, of : SUBSET S]
OutputAbout(S) == [Conns -> Seq(LinesAbout(S))]

\* A line about members of S.
LEMMA LineAbout ==
    ASSUME NEW S, NEW kind \in Kinds, NEW of \in SUBSET S
    PROVE  line(kind, of) \in LinesAbout(S)
  BY DEF line, LinesAbout

\* One line is a sequence of lines, and so is none.
LEMMA OneLineAbout ==
    ASSUME NEW S
    PROVE  << >> \in Seq(LinesAbout(S)) /\ \A m \in LinesAbout(S) : << m >> \in Seq(LinesAbout(S))
  OBVIOUS

\* A sequence of lines about members of S is one about members of T.
LEMMA LinesAboutMore ==
    ASSUME NEW S, NEW T, S \subseteq T, NEW ms \in Seq(LinesAbout(S))
    PROVE  ms \in Seq(LinesAbout(T))
  <1>1. LinesAbout(S) \subseteq LinesAbout(T)
    BY DEF LinesAbout
  <1> QED BY <1>1

\* An output about members of S is one about members of T.
LEMMA OutputAboutMore ==
    ASSUME NEW S, NEW T, S \subseteq T, NEW o \in OutputAbout(S)
    PROVE  o \in OutputAbout(T)
  <1>1. \A ms \in Seq(LinesAbout(S)) : ms \in Seq(LinesAbout(T))
    BY LinesAboutMore
  <1> QED BY <1>1 DEF OutputAbout

\* Outputs about subjects are the outputs of the type invariant.
LEMMA OutputAboutIsOutput ==
    ASSUME NEW S \in SUBSET Subjects, NEW o \in OutputAbout(S)
    PROVE  o \in Output
  <1>1. o \in OutputAbout(Subjects)
    BY OutputAboutMore
  <1> QED BY <1>1 DEF OutputAbout, LinesAbout, Output, Line

\* Server::sendToClient.
LEMMA SendToClientAbout ==
    ASSUME NEW S, NEW m \in LinesAbout(S), NEW c
    PROVE  sendToClient(m, c) \in OutputAbout(S)
  BY DEF sendToClient, OutputAbout

\* Server::broadcast.
LEMMA BroadcastAbout ==
    ASSUME NEW S, NEW m \in LinesAbout(S), NEW table
    PROVE  broadcast(m, table) \in OutputAbout(S)
  BY DEF broadcast, OutputAbout

\* Several lines to one client.
LEMMA SendListAbout ==
    ASSUME NEW S, NEW ms \in Seq(LinesAbout(S)), NEW c
    PROVE  sendList(ms, c) \in OutputAbout(S)
  BY DEF sendList, OutputAbout

\* No output.
LEMMA NoOutputAbout ==
    ASSUME NEW S
    PROVE  NoOutput \in OutputAbout(S)
  BY DEF NoOutput, OutputAbout

\* One output after the other.
LEMMA ThenAbout ==
    ASSUME NEW S, NEW a \in OutputAbout(S), NEW b \in OutputAbout(S)
    PROVE  Then(a, b) \in OutputAbout(S)
  <1> DEFINE L == Seq(LinesAbout(S))
  <1>1. \A x, y \in L : x \o y \in L
    OBVIOUS
  <1>2. \A d \in Conns : a[d] \in L /\ b[d] \in L
    BY DEF OutputAbout
  <1> HIDE DEF L
  <1>3. [d \in Conns |-> a[d] \o b[d]] \in [Conns -> L]
    BY <1>1, <1>2
  <1> QED BY <1>3 DEF Then, OutputAbout, L

\* A 210 list, from its begin to its end.
LEMMA ListAbout ==
    ASSUME NEW S, NEW items \in Seq(LinesAbout(S))
    PROVE  list(items) \in Seq(LinesAbout(S))
  <1>1. line("210-BEGIN", {}) \in LinesAbout(S) /\ line("210-END", {}) \in LinesAbout(S)
    BY LineAbout DEF Kinds
  <1> QED BY <1>1 DEF list

\* The lines of a user list.
LEMMA UserLinesAbout ==
    ASSUME NEW us \in SUBSET UserIds
    PROVE  userLines(us) \in Seq(LinesAbout(UserIds))
  <1> DEFINE on  == line("210 USER 1", {u \in us : isConnected(count[u])})
             off == line("210 USER 0", {u \in us : ~ isConnected(count[u])})
  <1>1. on \in LinesAbout(UserIds) /\ off \in LinesAbout(UserIds)
    BY LineAbout DEF Kinds
  <1>2. ASSUME NEW a \in LinesAbout(UserIds), NEW b \in LinesAbout(UserIds)
        PROVE  << a >> \o << b >> \in Seq(LinesAbout(UserIds))
    OBVIOUS
  <1> QED BY <1>1, <1>2, Zenon DEF userLines

\* A refused command tells nobody anything about anything.
LEMMA RefuseAbout ==
    ASSUME NEW S, NEW c, NEW status \in Kinds, refuse(c, status)
    PROVE  out' \in OutputAbout(S)
  <1>1. line(status, {}) \in LinesAbout(S)
    BY LineAbout
  <1> QED BY <1>1, SendToClientAbout DEF refuse

\* The announcement of the users who went offline speaks of users.
LEMMA OfflineAbout ==
    ASSUME NEW c, NEW table
    PROVE  (IF goneOffline(c) = {} THEN NoOutput
            ELSE broadcast(line("EVENT USER_LOGGED_OUT", goneOffline(c)), table))
           \in OutputAbout(UserIds)
  <1>1. goneOffline(c) \in SUBSET UserIds
    BY DEF goneOffline, findUser, Registered
  <1>2. line("EVENT USER_LOGGED_OUT", goneOffline(c)) \in LinesAbout(UserIds)
    BY <1>1, LineAbout DEF Kinds
  <1> QED BY <1>2, BroadcastAbout, NoOutputAbout

\* The start of a session is announced with the id of the user.
LEMMA StartAbout ==
    ASSUME NEW c, NEW u \in UserIds, startSession(c, u)
    PROVE  out' \in OutputAbout(UserIds)
  <1>1. /\ line("200 OK", {u}) \in LinesAbout(UserIds)
        /\ line("EVENT USER_LOGGED_IN", {u}) \in LinesAbout(UserIds)
    BY LineAbout DEF Kinds
  <1> QED BY <1>1, SendToClientAbout, BroadcastAbout, ThenAbout DEF startSession

\* The commands of module Sessions answer and announce ids of users only.
LEMMA SessionCommandAbout ==
    ASSUME NEW c \in Conns, SessionCommand(c)
    PROVE  out' \in OutputAbout(UserIds)
  <1>1. CASE \E status \in Kinds : refuse(c, status)
    BY <1>1, RefuseAbout
  <1>2. CASE \E u \in UserIds : startSession(c, u)
    BY <1>2, StartAbout
  <1>3. CASE Logout(c) /\ userOf[c] # None
    <2>1. line("200 OK", {}) \in LinesAbout(UserIds)
      BY LineAbout DEF Kinds
    <2> QED BY <1>3, <2>1, OfflineAbout, SendToClientAbout, ThenAbout DEF Logout
  <1>4. CASE UsersCommand(c) /\ userOf[c] # None
    <2>1. list(userLines(Registered)) \in Seq(LinesAbout(UserIds))
      BY UserLinesAbout, ListAbout DEF Registered
    <2> QED BY <1>4, <2>1, SendListAbout DEF UsersCommand
  <1>5. CASE \E arg \in UserIds \cup {None} :
                UserCommand(c, arg) /\ userOf[c] # None /\ arg # None /\ findUser(arg) # {}
    <2>0. PICK arg \in UserIds :
             out' = sendToClient(line(IF isConnected(count[arg])
                                      THEN "200 USER 1" ELSE "200 USER 0", {arg}), c)
      BY <1>5 DEF UserCommand
    <2> DEFINE kind == IF isConnected(count[arg]) THEN "200 USER 1" ELSE "200 USER 0"
    <2>1. kind \in Kinds
      BY DEF Kinds
    <2> HIDE DEF kind
    <2>2. line(kind, {arg}) \in LinesAbout(UserIds)
      BY <2>1, LineAbout
    <2> QED BY <2>0, <2>2, SendToClientAbout DEF kind
  <1>6. /\ "400 BAD_REQUEST" \in Kinds /\ "401 UNAUTHORIZED" \in Kinds
        /\ "404 NOT_FOUND" \in Kinds
    BY DEF Kinds
  <1>7. ASSUME NEW arg \in Names \cup {None, Invalid}, Login(c, arg)
        PROVE  (\E status \in Kinds : refuse(c, status)) \/ \E u \in UserIds : startSession(c, u)
    <2>1. createNewUser(c, arg) => \E u \in UserIds : startSession(c, u)
      BY DEF createNewUser
    <2>2. logUserIn(c, arg) => \E u \in UserIds : startSession(c, u)
      BY DEF logUserIn, findUserByName, Registered
    <2> QED BY <1>6, <1>7, <2>1, <2>2, Zenon DEF Login
  <1>8. ASSUME Logout(c)
        PROVE  (\E status \in Kinds : refuse(c, status)) \/ userOf[c] # None
    BY <1>6, <1>8, Zenon DEF Logout
  <1>9. ASSUME UsersCommand(c)
        PROVE  (\E status \in Kinds : refuse(c, status)) \/ userOf[c] # None
    BY <1>6, <1>9, Zenon DEF UsersCommand
  <1>10. ASSUME NEW arg, UserCommand(c, arg)
         PROVE  \/ \E status \in Kinds : refuse(c, status)
                \/ userOf[c] # None /\ arg # None /\ findUser(arg) # {}
    BY <1>6, <1>10, Zenon DEF UserCommand
  <1> QED BY <1>1, <1>2, <1>3, <1>4, <1>5, <1>7, <1>8, <1>9, <1>10 DEF SessionCommand

\* So do all steps of module Sessions.
LEMMA SessionsAbout == SessionsNext => out' \in OutputAbout(UserIds)
  <1> SUFFICES ASSUME SessionsNext PROVE out' \in OutputAbout(UserIds)
    OBVIOUS
  <1>1. CASE Restart \/ \E c \in Conns : acceptClient(c)
    BY <1>1, NoOutputAbout DEF Restart, acceptClient
  <1>2. CASE \E c \in Conns : disconnectClient(c)
    <2>0. PICK c \in Conns : disconnectClient(c)
      BY <1>2
    <2> QED BY <2>0, OfflineAbout DEF disconnectClient
  <1>3. CASE \E c \in Conns : SessionCommand(c)
    BY <1>3, SessionCommandAbout
  <1> QED BY <1>1, <1>2, <1>3 DEF SessionsNext, ServerStep

-------------------------------------------------------------------------------
(* Steps that only answer *)

\* A step that changes nothing but the output keeps the invariant: every
\* command that is refused or that only asks.
LEMMA AnsweringKeepsWorkspace ==
    ASSUME WorkspaceInv, UNCHANGED << clients, userOf, name, count, ctx >>,
           UNCHANGED contentVars, out' \in Output
    PROVE  WorkspaceInv'
  <1>1. SessionsInv'
    BY AnsweringKeepsInv DEF WorkspaceInv, sessionVars
  <1>2. WorkspaceTypeOK'
    BY DEF WorkspaceInv, WorkspaceTypeOK, SessionsTypeOK, contentVars
  <1>3. ContextWellFormed' /\ NamesUniqueInScope' /\ ThreadsHaveAuthors'
    BY DEF WorkspaceInv, ContextWellFormed, HierarchyWellFormed, NamesUniqueInScope,
           ThreadsHaveAuthors, contentVars
  <1> QED BY <1>1, <1>2, <1>3 DEF WorkspaceInv

\* A refusal is an answer of one line that speaks of nothing.
LEMMA DenyIsAnswer ==
    ASSUME NEW c, NEW status \in Kinds, deny(c, status)
    PROVE  \E ms \in Seq(LinesAbout({})) : answer(c, ms)
  <1>1. line(status, {}) \in LinesAbout({})
    BY LineAbout
  <1>2. << line(status, {}) >> \in Seq(LinesAbout({}))
    BY <1>1
  <1> QED BY <1>2 DEF deny

\* An answer keeps the invariant.
LEMMA AnswerKeepsWorkspace ==
    ASSUME WorkspaceInv, NEW c \in Conns, NEW S \in SUBSET Subjects,
           NEW ms \in Seq(LinesAbout(S)), answer(c, ms)
    PROVE  WorkspaceInv'
  <1>1. out' \in Output
    BY SendListAbout, OutputAboutIsOutput DEF answer
  <1> QED BY <1>1, AnsweringKeepsWorkspace DEF answer

\* The steps of module Sessions keep the invariant: a Client that stays in the
\* table keeps its context, any other has none.
LEMMA SessionStepKeepsWorkspace ==
    ASSUME WorkspaceInv, SessionStep
    PROVE  WorkspaceInv'
  <1>1. SessionsInv'
    BY SessionsNextInv DEF WorkspaceInv, SessionStep
  <1>2. NoContext \in Contexts
    BY DEF NoContext, Contexts
  <1>3. ctx' \in [Conns -> Contexts]
    BY <1>2 DEF WorkspaceInv, WorkspaceTypeOK, SessionStep
  <1>4. WorkspaceTypeOK'
    BY <1>1, <1>3 DEF WorkspaceInv, SessionsInv, WorkspaceTypeOK, SessionStep, contentVars
  <1>5. HierarchyWellFormed' /\ NamesUniqueInScope' /\ ThreadsHaveAuthors'
    BY DEF WorkspaceInv, ContextWellFormed, HierarchyWellFormed, NamesUniqueInScope,
           ThreadsHaveAuthors, SessionStep, contentVars
  <1>6. ContextWellFormed'
    BY <1>5 DEF WorkspaceInv, ContextWellFormed, SessionStep, contentVars, NoContext
  <1> QED BY <1>1, <1>4, <1>5, <1>6 DEF WorkspaceInv

-------------------------------------------------------------------------------
(* /use *)

\* The existing path that a context may select for the user of c.
Selectable(c, a) ==
    /\ a \in UseArgs
    /\ a.team # None => teamName[a.team] # None /\ userOf[c] \in subs[a.team]
    /\ a.channel # None => chanTeam[a.channel] = a.team
    /\ a.thread # None => thrChan[a.thread] = a.channel

\* The answer of a successful /use: one 200 OK for each level.
Levels(a) == IF a.thread # None THEN 3 ELSE IF a.channel # None THEN 2 ELSE 1
Successes(n) == [i \in 1..n |-> line("200 OK", {})]

\* The answer of a stage is an answer about nothing; when the last of the
\* stages that are needed has succeeded, the path exists.
LEMMA UseStages ==
    ASSUME WorkspaceTypeOK, NEW c \in Conns, NEW a \in UseArgs
    PROVE  /\ validateAndSetTeam(c, a) \in Seq(LinesAbout({}))
           /\ validateAndSetChannel(a) \in Seq(LinesAbout({}))
           /\ validateAndSetThread(a) \in Seq(LinesAbout({}))
           /\ (/\ validateAndSetTeam(c, a) = OK
               /\ validateAndSetChannel(a) \in {<< >>, OK}
               /\ validateAndSetThread(a) \in {<< >>, OK})
              => /\ Selectable(c, a)
                 /\ validateAndSetChannel(a) = IF a.channel = None THEN << >> ELSE OK
                 /\ validateAndSetThread(a) = IF a.thread = None THEN << >> ELSE OK
  <1>1. ASSUME NEW kind \in {"200 OK", "404 NOT_FOUND TEAM", "403 FORBIDDEN",
                             "404 NOT_FOUND CHANNEL", "404 NOT_FOUND THREAD"}
        PROVE  << line(kind, {}) >> \in Seq(LinesAbout({}))
    <2>1. kind \in Kinds
      BY DEF Kinds
    <2>2. line(kind, {}) \in LinesAbout({})
      BY <2>1, LineAbout
    <2> QED BY <2>2, OneLineAbout, Zenon
  <1>2. /\ "200 OK" # "404 NOT_FOUND TEAM" /\ "200 OK" # "403 FORBIDDEN"
        /\ "200 OK" # "404 NOT_FOUND CHANNEL" /\ "200 OK" # "404 NOT_FOUND THREAD"
    OBVIOUS
  <1>3. ASSUME NEW kind, kind # "200 OK"
        PROVE  << line(kind, {}) >> # OK /\ << line(kind, {}) >> # << >>
    BY <1>3 DEF OK, line
  <1>4. OK \in Seq(LinesAbout({})) /\ << >> \in Seq(LinesAbout({}))
    <2>1. << line("200 OK", {}) >> \in Seq(LinesAbout({}))
      BY <1>1
    <2> QED BY <2>1, OneLineAbout, Zenon DEF OK
  <1>5. validateAndSetTeam(c, a) \in Seq(LinesAbout({}))
    BY <1>1, <1>4, Zenon DEF validateAndSetTeam
  <1>6. validateAndSetChannel(a) \in Seq(LinesAbout({}))
    BY <1>1, <1>4, Zenon DEF validateAndSetChannel
  <1>7. validateAndSetThread(a) \in Seq(LinesAbout({}))
    BY <1>1, <1>4, Zenon DEF validateAndSetThread
  <1>8. a.team # None /\ validateAndSetTeam(c, a) = OK
        => findTeam(a.team) # {} /\ isUserSubscribed(a.team, userOf[c])
    BY <1>2, <1>3, Zenon DEF validateAndSetTeam
  <1>9. a.channel # None /\ validateAndSetChannel(a) \in {<< >>, OK}
        => findChannel(a.team, a.channel) # {} /\ validateAndSetChannel(a) = OK
    BY <1>2, <1>3, Zenon DEF validateAndSetChannel
  <1>10. a.thread # None /\ validateAndSetThread(a) \in {<< >>, OK}
         => findThread(a.channel, a.thread) # {} /\ validateAndSetThread(a) = OK
    BY <1>2, <1>3, Zenon DEF validateAndSetThread
  <1>11. /\ a.channel = None => validateAndSetChannel(a) = << >>
         /\ a.thread = None => validateAndSetThread(a) = << >>
    BY DEF validateAndSetChannel, validateAndSetThread
  <1>12. /\ findTeam(a.team) # {} => teamName[a.team] # None
         /\ findChannel(a.team, a.channel) # {} => chanTeam[a.channel] = a.team
         /\ findThread(a.channel, a.thread) # {} => thrChan[a.thread] = a.channel
    BY DEF findTeam, findChannel, findThread
  <1> QED BY <1>5, <1>6, <1>7, <1>8, <1>9, <1>10, <1>11, <1>12
          DEF Selectable, isUserSubscribed

\* What /use does: it only answers, or it takes over a path that exists and
\* that the user may use, and answers success once for each level.
LEMMA UseShape ==
    ASSUME WorkspaceTypeOK, NEW c \in Conns, NEW a \in UseArgs \cup {Invalid}, Use(c, a)
    PROVE  \/ \E ms \in Seq(LinesAbout({})) : answer(c, ms)
           \/ /\ Selectable(c, a)
              /\ ctx' = [ctx EXCEPT ![c] = a]
              /\ out' = sendList(Successes(Levels(a)), c)
              /\ UNCHANGED sessionVars /\ UNCHANGED contentVars
  <1> DEFINE team    == validateAndSetTeam(c, a)
             channel == validateAndSetChannel(a)
             thread  == validateAndSetThread(a)
             Answers == \E ms \in Seq(LinesAbout({})) : answer(c, ms)
  <1>0. "401 UNAUTHORIZED" \in Kinds /\ "400 BAD_REQUEST" \in Kinds
    BY DEF Kinds
  <1>1. CASE userOf[c] = None
    BY <1>0, <1>1, DenyIsAnswer, Zenon DEF Use
  <1>2. CASE userOf[c] # None /\ a = Invalid
    BY <1>0, <1>2, DenyIsAnswer, Zenon DEF Use
  <1>3. CASE userOf[c] # None /\ a # Invalid
    <2>0. a \in UseArgs
      BY <1>3
    <2>1. /\ team \in Seq(LinesAbout({})) /\ channel \in Seq(LinesAbout({}))
          /\ thread \in Seq(LinesAbout({}))
      BY <2>0, UseStages
    <2>2. CASE team # OK
      BY <1>3, <2>1, <2>2, Zenon DEF Use
    <2>3. CASE team = OK /\ channel \notin {<< >>, OK}
      <3>1. team \o channel \in Seq(LinesAbout({}))
        BY <2>1
      <3> QED BY <1>3, <2>3, <3>1, Zenon DEF Use
    <2>4. CASE team = OK /\ channel \in {<< >>, OK} /\ thread \notin {<< >>, OK}
      <3>1. team \o channel \o thread \in Seq(LinesAbout({}))
        BY <2>1
      <3> QED BY <1>3, <2>4, <3>1, Zenon DEF Use
    <2>5. CASE team = OK /\ channel \in {<< >>, OK} /\ thread \in {<< >>, OK}
      <3>1. /\ ctx' = [ctx EXCEPT ![c] = a]
            /\ out' = sendList(team \o channel \o thread, c)
            /\ UNCHANGED sessionVars /\ UNCHANGED contentVars
        BY <1>3, <2>5, Zenon DEF Use
      <3>2. /\ Selectable(c, a)
            /\ channel = IF a.channel = None THEN << >> ELSE OK
            /\ thread = IF a.thread = None THEN << >> ELSE OK
        BY <2>0, <2>5, UseStages
      <3>3. team \o channel \o thread = Successes(Levels(a))
        <4> HIDE DEF team, channel, thread
        <4>1. a.thread # None => a.channel # None
          BY <2>0 DEF UseArgs
        <4> DEFINE ok == line("200 OK", {})
        <4>2. /\ << ok >> \o << >> \o << >> = [i \in 1..1 |-> ok]
              /\ << ok >> \o << ok >> \o << >> = [i \in 1..2 |-> ok]
              /\ << ok >> \o << ok >> \o << ok >> = [i \in 1..3 |-> ok]
          <5> HIDE DEF ok
          <5> QED OBVIOUS
        <4>3. CASE a.channel = None
          BY <2>5, <3>2, <4>1, <4>2, <4>3, Zenon DEF OK, Successes, Levels
        <4>4. CASE a.channel # None /\ a.thread = None
          BY <2>5, <3>2, <4>2, <4>4, Zenon DEF OK, Successes, Levels
        <4>5. CASE a.channel # None /\ a.thread # None
          BY <2>5, <3>2, <4>2, <4>5, Zenon DEF OK, Successes, Levels
        <4> QED BY <4>3, <4>4, <4>5
      <3> QED BY <3>1, <3>2, <3>3
    <2> QED BY <2>2, <2>3, <2>4, <2>5
  <1> QED BY <1>1, <1>2, <1>3

\* /use keeps the invariant.
LEMMA UseKeepsWorkspace ==
    ASSUME WorkspaceInv, NEW c \in Conns, NEW a \in UseArgs \cup {Invalid}, Use(c, a)
    PROVE  WorkspaceInv'
  <1>0. WorkspaceTypeOK
    BY DEF WorkspaceInv
  <1>1. CASE \E ms \in Seq(LinesAbout({})) : answer(c, ms)
    BY <1>1, AnswerKeepsWorkspace
  <1>2. CASE /\ Selectable(c, a)
             /\ ctx' = [ctx EXCEPT ![c] = a]
             /\ out' = sendList(Successes(Levels(a)), c)
             /\ UNCHANGED sessionVars /\ UNCHANGED contentVars
    <2>1. Successes(Levels(a)) \in Seq(LinesAbout({}))
      <3>1. line("200 OK", {}) \in LinesAbout({})
        BY LineAbout DEF Kinds
      <3>2. Levels(a) \in Nat
        BY DEF Levels
      <3>3. ASSUME NEW S, NEW m \in S, NEW n \in Nat PROVE [i \in 1..n |-> m] \in Seq(S)
        OBVIOUS
      <3> QED BY <3>1, <3>2, <3>3 DEF Successes
    <2>2. out' \in Output
      BY <1>2, <2>1, SendListAbout, OutputAboutIsOutput
    <2>3. SessionsInv'
      BY <1>2, <2>2, AnsweringKeepsInv DEF WorkspaceInv
    <2>4. WorkspaceTypeOK'
      BY <1>0, <1>2, <2>3
      DEF WorkspaceTypeOK, SessionsInv, contentVars, Selectable, UseArgs
    <2>5. HierarchyWellFormed' /\ NamesUniqueInScope' /\ ThreadsHaveAuthors'
      BY <1>2 DEF WorkspaceInv, ContextWellFormed, HierarchyWellFormed, NamesUniqueInScope,
                  ThreadsHaveAuthors, contentVars
    <2>6. ContextWellFormed'
      BY <1>0, <1>2, <2>5
      DEF WorkspaceInv, WorkspaceTypeOK, ContextWellFormed, Selectable, UseArgs, contentVars
    <2> QED BY <2>3, <2>4, <2>5, <2>6 DEF WorkspaceInv
  <1> QED BY <1>0, <1>1, <1>2, UseShape

-------------------------------------------------------------------------------
(* Subscriptions *)

\* A change of the subscribers of a team that exists.
NewMembers(t, members) ==
    /\ t \in TeamIds /\ members \in SUBSET UserIds
    /\ subs' = [subs EXCEPT ![t] = members]
    /\ UNCHANGED << clients, userOf, name, count, ctx, teamName >>
    /\ UNCHANGED << channelVars, threadVars, replies >>

\* What a user is told about a subscription speaks of the user and the team.
LEMMA SubscriptionLines ==
    ASSUME NEW kind \in Kinds, NEW u \in UserIds, NEW t \in TeamIds
    PROVE  /\ line(kind, {u, t}) \in LinesAbout(UserIds \cup TeamIds)
           /\ line(kind, {t, u}) \in LinesAbout(UserIds \cup TeamIds)
  BY LineAbout

\* What /subscribe, /unsubscribe and /subscribed do: they only answer, or they
\* change the subscribers of one team; they speak of users and teams only.
LEMMA SubscriptionShape ==
    ASSUME WorkspaceTypeOK, NEW c \in Conns, NEW arg \in TeamIds \cup {None, Invalid},
           Subscribe(c, arg) \/ Unsubscribe(c, arg) \/ Subscribed(c, arg)
    PROVE  \/ \E ms \in Seq(LinesAbout(UserIds \cup TeamIds)) : answer(c, ms)
           \/ /\ \E members : NewMembers(arg, members)
              /\ out' \in OutputAbout(UserIds \cup TeamIds)
  <1> DEFINE u == userOf[c]
             Ids == UserIds \cup TeamIds
             Answers == \E ms \in Seq(LinesAbout(Ids)) : answer(c, ms)
  <1>0. /\ "401 UNAUTHORIZED" \in Kinds /\ "400 BAD_REQUEST" \in Kinds
        /\ "404 NOT_FOUND TEAM" \in Kinds /\ "403 FORBIDDEN" \in Kinds
        /\ "200 SUBSCRIBE" \in Kinds /\ "200 UNSUBSCRIBE" \in Kinds
        /\ "user_subscribed" \in Kinds /\ "user_unsubscribed" \in Kinds
        /\ "210 TEAM" \in Kinds
    BY DEF Kinds
  <1>1. ASSUME NEW status \in Kinds, deny(c, status) PROVE Answers
    <2>1. \E ms \in Seq(LinesAbout({})) : answer(c, ms)
      BY <1>1, DenyIsAnswer
    <2> QED BY <2>1, LinesAboutMore
  <1>2. u # None => u \in UserIds
    BY DEF WorkspaceTypeOK, SessionsTypeOK
  <1>3. ASSUME NEW kind \in Kinds, NEW m \in LinesAbout(Ids), NEW members,
               u \in UserIds, arg \in TeamIds
        PROVE  Then(notifySubscribers(line(kind, {arg, u}), members), sendToClient(m, c))
               \in OutputAbout(Ids)
    <2>1. line(kind, {arg, u}) \in LinesAbout(Ids)
      BY <1>3, SubscriptionLines
    <2>2. notifySubscribers(line(kind, {arg, u}), members) \in OutputAbout(Ids)
      BY <2>1, BroadcastAbout DEF notifySubscribers
    <2> QED BY <2>2, SendToClientAbout, ThenAbout
  <1>4. CASE Subscribe(c, arg)
    <2>1. CASE \E status \in Kinds : deny(c, status)
      BY <1>1, <2>1
    <2>2. CASE /\ u # None /\ arg \notin {None, Invalid}
               /\ answer(c, << line("200 SUBSCRIBE", {u, arg}) >>)
      <3>1. line("200 SUBSCRIBE", {u, arg}) \in LinesAbout(Ids)
        BY <1>0, <1>2, <2>2, SubscriptionLines
      <3> QED BY <2>2, <3>1, OneLineAbout
    <2>3. CASE /\ u # None /\ arg \notin {None, Invalid}
               /\ subs' = [subs EXCEPT ![arg] = subs[arg] \cup {u}]
               /\ out' = Then(notifySubscribers(line("user_subscribed", {arg, u}),
                                                subs[arg] \cup {u}),
                              sendToClient(line("200 SUBSCRIBE", {u, arg}), c))
               /\ UNCHANGED << clients, userOf, name, count, ctx, teamName >>
               /\ UNCHANGED << channelVars, threadVars, replies >>
      <3>1. arg \in TeamIds /\ u \in UserIds
        BY <1>2, <2>3
      <3>2. subs[arg] \cup {u} \in SUBSET UserIds
        BY <3>1 DEF WorkspaceTypeOK
      <3>3. line("200 SUBSCRIBE", {u, arg}) \in LinesAbout(Ids)
        BY <1>0, <3>1, SubscriptionLines
      <3>4. out' \in OutputAbout(Ids)
        BY <1>0, <1>3, <2>3, <3>1, <3>3
      <3>5. NewMembers(arg, subs[arg] \cup {u})
        BY <2>3, <3>1, <3>2 DEF NewMembers
      <3> QED BY <3>4, <3>5
    <2> QED BY <1>0, <1>4, <2>1, <2>2, <2>3, Zenon DEF Subscribe
  <1>5. CASE Unsubscribe(c, arg)
    <2>1. CASE \E status \in Kinds : deny(c, status)
      BY <1>1, <2>1
    <2>2. CASE /\ u # None /\ arg \notin {None, Invalid}
               /\ subs' = [subs EXCEPT ![arg] = subs[arg] \ {u}]
               /\ out' = Then(notifySubscribers(line("user_unsubscribed", {arg, u}),
                                                subs[arg] \ {u}),
                              sendToClient(line("200 UNSUBSCRIBE", {u, arg}), c))
               /\ UNCHANGED << clients, userOf, name, count, ctx, teamName >>
               /\ UNCHANGED << channelVars, threadVars, replies >>
      <3>1. arg \in TeamIds /\ u \in UserIds
        BY <1>2, <2>2
      <3>2. subs[arg] \ {u} \in SUBSET UserIds
        BY <3>1 DEF WorkspaceTypeOK
      <3>3. line("200 UNSUBSCRIBE", {u, arg}) \in LinesAbout(Ids)
        BY <1>0, <3>1, SubscriptionLines
      <3>4. out' \in OutputAbout(Ids)
        BY <1>0, <1>3, <2>2, <3>1, <3>3
      <3>5. NewMembers(arg, subs[arg] \ {u})
        BY <2>2, <3>1, <3>2 DEF NewMembers
      <3> QED BY <3>4, <3>5
    <2> QED BY <1>0, <1>5, <2>1, <2>2, Zenon DEF Unsubscribe
  <1>6. CASE Subscribed(c, arg)
    <2>1. CASE \E status \in Kinds : deny(c, status)
      BY <1>1, <2>1
    <2> DEFINE ts == {t \in TeamIds : teamName[t] # None /\ isUserSubscribed(t, u)}
    <2>2. CASE answer(c, list(<< line("210 TEAM", ts) >>))
      <3>1. line("210 TEAM", ts) \in LinesAbout(Ids)
        BY <1>0, LineAbout
      <3> QED BY <2>2, <3>1, OneLineAbout, ListAbout
    <2>3. CASE answer(c, list(userLines(subs[arg] \cap Registered)))
      <3>1. userLines(subs[arg] \cap Registered) \in Seq(LinesAbout(UserIds))
        BY UserLinesAbout DEF Registered
      <3>2. userLines(subs[arg] \cap Registered) \in Seq(LinesAbout(Ids))
        BY <3>1, LinesAboutMore
      <3> QED BY <2>3, <3>2, ListAbout
    <2> QED BY <1>0, <1>6, <2>1, <2>2, <2>3, Zenon DEF Subscribed
  <1> QED BY <1>4, <1>5, <1>6

\* Subscriptions keep the invariant.
LEMMA SubscriptionKeepsWorkspace ==
    ASSUME WorkspaceInv, NEW c \in Conns, NEW arg \in TeamIds \cup {None, Invalid},
           Subscribe(c, arg) \/ Unsubscribe(c, arg) \/ Subscribed(c, arg)
    PROVE  WorkspaceInv'
  <1>0. WorkspaceTypeOK /\ UserIds \cup TeamIds \in SUBSET Subjects
    BY SubjectsAssumption, IdsAssumption DEF WorkspaceInv
  <1>1. CASE \E ms \in Seq(LinesAbout(UserIds \cup TeamIds)) : answer(c, ms)
    BY <1>0, <1>1, AnswerKeepsWorkspace
  <1>2. CASE /\ \E members : NewMembers(arg, members)
             /\ out' \in OutputAbout(UserIds \cup TeamIds)
    <2>1. out' \in Output
      BY <1>0, <1>2, OutputAboutIsOutput
    <2>2. SessionsInv'
      BY <1>2, <2>1, AnsweringKeepsInv DEF WorkspaceInv, NewMembers, sessionVars
    <2>3. WorkspaceTypeOK'
      BY <1>0, <1>2, <2>2
      DEF WorkspaceTypeOK, SessionsInv, NewMembers, channelVars, threadVars
    <2>4. ContextWellFormed' /\ NamesUniqueInScope' /\ ThreadsHaveAuthors'
      BY <1>2 DEF WorkspaceInv, ContextWellFormed, HierarchyWellFormed, NamesUniqueInScope,
                  ThreadsHaveAuthors, NewMembers, channelVars, threadVars
    <2> QED BY <2>2, <2>3, <2>4 DEF WorkspaceInv
  <1> QED BY <1>0, <1>1, <1>2, SubscriptionShape

-------------------------------------------------------------------------------
(* /create. The four predicates say all that is needed of a creation: what  *)
(* was checked before, what is new, and what is sent.                       *)

\* Create::executeTeam.
NewTeam(c, t, n) ==
    /\ c \in clients /\ userOf[c] \in UserIds
    /\ t \in TeamIds /\ teamName[t] = None
    /\ n \in Names /\ ~ teamNameTaken(n)
    /\ teamName' = [teamName EXCEPT ![t] = n]
    /\ subs' = [subs EXCEPT ![t] = {userOf[c]}]
    /\ out' \in OutputAbout(TeamIds)
    /\ UNCHANGED << clients, userOf, name, count, ctx >>
    /\ UNCHANGED << channelVars, threadVars, replies >>

\* The user of c is subscribed to the team of the context of c, which exists.
InTeam(c) ==
    /\ c \in clients /\ userOf[c] \in UserIds
    /\ ctx[c].team \in TeamIds /\ teamName[ctx[c].team] # None
    /\ userOf[c] \in subs[ctx[c].team]

\* Create::executeChannel.
NewChannel(c, ch, n) ==
    /\ InTeam(c)
    /\ ch \in ChannelIds /\ chanTeam[ch] = None
    /\ n \in Names /\ ~ channelNameTaken(ctx[c].team, n)
    /\ chanTeam' = [chanTeam EXCEPT ![ch] = ctx[c].team]
    /\ chanName' = [chanName EXCEPT ![ch] = n]
    /\ emitCreated(c, line("201 CREATED CHANNEL", {ch}),
                   line("EVENT CHANNEL_CREATED", {ch}), ctx[c].team)
    /\ UNCHANGED << clients, userOf, name, count, ctx, teamVars >>
    /\ UNCHANGED << threadVars, replies >>

\* Create::executeThread.
NewThread(c, th, n) ==
    /\ InTeam(c)
    /\ ctx[c].channel \in ChannelIds /\ chanTeam[ctx[c].channel] = ctx[c].team
    /\ th \in ThreadIds /\ thrChan[th] = None
    /\ n \in Names /\ ~ threadTitleTaken(ctx[c].channel, n)
    /\ thrChan' = [thrChan EXCEPT ![th] = ctx[c].channel]
    /\ thrTitle' = [thrTitle EXCEPT ![th] = n]
    /\ thrAuthor' = [thrAuthor EXCEPT ![th] = userOf[c]]
    /\ emitCreated(c, line("201 CREATED THREAD", {th, userOf[c]}),
                   line("EVENT THREAD_CREATED", {th, userOf[c]}), ctx[c].team)
    /\ UNCHANGED << clients, userOf, name, count, ctx, teamVars >>
    /\ UNCHANGED << channelVars, replies >>

\* Create::executeReply.
NewReply(c) ==
    /\ InTeam(c)
    /\ ctx[c].channel \in ChannelIds /\ chanTeam[ctx[c].channel] = ctx[c].team
    /\ ctx[c].thread \in ThreadIds /\ thrChan[ctx[c].thread] = ctx[c].channel
    /\ replies' = [replies EXCEPT ![ctx[c].thread] = Append(@, userOf[c])]
    /\ emitCreated(c, line("201 CREATED REPLY", {ctx[c].thread, userOf[c]}),
                   line("EVENT REPLY_CREATED", {ctx[c].team, ctx[c].thread, userOf[c]}),
                   ctx[c].team)
    /\ UNCHANGED << clients, userOf, name, count, ctx, teamVars >>
    /\ UNCHANGED << channelVars, threadVars >>

\* What the lookups of a context that is accessible have found.
LEMMA AccessibleInTeam ==
    ASSUME WorkspaceTypeOK, NEW c \in Conns, c \in clients, userOf[c] # None, accessible(c)
    PROVE  InTeam(c)
  BY DEF WorkspaceTypeOK, SessionsTypeOK, accessible, findTeam, isUserSubscribed, InTeam

\* A channel that was found is one of the team, a thread one of the channel.
LEMMA FoundInContext ==
    ASSUME WorkspaceTypeOK, NEW c \in Conns
    PROVE  /\ findChannel(ctx[c].team, ctx[c].channel) # {} =>
                 ctx[c].channel \in ChannelIds /\ chanTeam[ctx[c].channel] = ctx[c].team
           /\ findThread(ctx[c].channel, ctx[c].thread) # {} =>
                 ctx[c].thread \in ThreadIds /\ thrChan[ctx[c].thread] = ctx[c].channel
  BY DEF findChannel, findTeam, findThread

\* What /create does: it refuses, or it creates one thing in the context.
LEMMA CreateShape ==
    ASSUME WorkspaceTypeOK, NEW c \in Conns, NEW arg \in Names \cup {None, Invalid},
           Create(c, arg)
    PROVE  \/ \E ms \in Seq(LinesAbout({})) : answer(c, ms)
           \/ \E t : NewTeam(c, t, arg)
           \/ \E ch : NewChannel(c, ch, arg)
           \/ \E th : NewThread(c, th, arg)
           \/ NewReply(c)
  <1> DEFINE Denied == \E status \in Kinds : deny(c, status)
  <1>0. /\ "401 UNAUTHORIZED" \in Kinds /\ "400 BAD_REQUEST" \in Kinds
        /\ "404 NOT_FOUND" \in Kinds /\ "403 FORBIDDEN" \in Kinds
        /\ "409 ALREADY_EXISTS" \in Kinds /\ "201 CREATED TEAM" \in Kinds
        /\ "EVENT TEAM_CREATED" \in Kinds
    BY DEF Kinds
  <1>1. c \in clients /\ (userOf[c] # None => userOf[c] \in UserIds)
    BY DEF Create, WorkspaceTypeOK, SessionsTypeOK
  <1>2. denyTeam(c, "404 NOT_FOUND") => Denied
    BY <1>0, Zenon DEF denyTeam
  <1>3. arg \notin {None, Invalid} => arg \in Names
    OBVIOUS
  <1>4. ASSUME userOf[c] # None, createTeam(c, arg)
        PROVE  Denied \/ \E t : NewTeam(c, t, arg)
    <2>1. CASE Denied
      BY <2>1
    <2>2. CASE ~ Denied
      <3>1. arg \notin {None, Invalid} /\ ~ teamNameTaken(arg)
        BY <1>0, <1>4, <2>2, Zenon DEF createTeam
      <3>2. PICK t \in {x \in TeamIds : teamName[x] = None} :
                /\ teamName' = [teamName EXCEPT ![t] = arg]
                /\ subs' = [subs EXCEPT ![t] = {userOf[c]}]
                /\ out' = Then(sendToClient(line("201 CREATED TEAM", {t}), c),
                               broadcast(line("EVENT TEAM_CREATED", {t}), clients))
                /\ UNCHANGED << clients, userOf, name, count, ctx >>
                /\ UNCHANGED << channelVars, threadVars, replies >>
        BY <1>4, <3>1, Zenon DEF createTeam
      <3>3. /\ line("201 CREATED TEAM", {t}) \in LinesAbout(TeamIds)
            /\ line("EVENT TEAM_CREATED", {t}) \in LinesAbout(TeamIds)
        BY <1>0, <3>2, LineAbout
      <3>4. out' \in OutputAbout(TeamIds)
        BY <3>2, <3>3, SendToClientAbout, BroadcastAbout, ThenAbout
      <3>5. NewTeam(c, t, arg)
        BY <1>1, <1>3, <1>4, <3>1, <3>2, <3>4 DEF NewTeam
      <3> QED BY <3>5
    <2> QED BY <2>1, <2>2
  <1>5. ASSUME userOf[c] # None, createChannel(c, arg)
        PROVE  Denied \/ \E ch : NewChannel(c, ch, arg)
    <2>1. CASE Denied
      BY <2>1
    <2>2. CASE ~ Denied
      <3>1. accessible(c) /\ arg \notin {None, Invalid} /\ ~ channelNameTaken(ctx[c].team, arg)
        BY <1>0, <1>2, <1>5, <2>2, Zenon DEF createChannel
      <3>2. InTeam(c) /\ arg \in Names
        BY <1>1, <1>3, <1>5, <3>1, AccessibleInTeam
      <3>3. PICK ch \in {x \in ChannelIds : chanTeam[x] = None} :
                /\ chanTeam' = [chanTeam EXCEPT ![ch] = ctx[c].team]
                /\ chanName' = [chanName EXCEPT ![ch] = arg]
                /\ emitCreated(c, line("201 CREATED CHANNEL", {ch}),
                               line("EVENT CHANNEL_CREATED", {ch}), ctx[c].team)
                /\ UNCHANGED << clients, userOf, name, count, ctx, teamVars >>
                /\ UNCHANGED << threadVars, replies >>
        BY <1>5, <3>1, Zenon DEF createChannel
      <3>4. NewChannel(c, ch, arg)
        BY <3>1, <3>2, <3>3 DEF NewChannel
      <3> QED BY <3>4
    <2> QED BY <2>1, <2>2
  <1>6. ASSUME userOf[c] # None, createThread(c, arg)
        PROVE  Denied \/ \E th : NewThread(c, th, arg)
    <2>1. CASE Denied
      BY <2>1
    <2>2. CASE ~ Denied
      <3>1. /\ accessible(c) /\ arg \notin {None, Invalid}
            /\ ~ threadTitleTaken(ctx[c].channel, arg)
            /\ findChannel(ctx[c].team, ctx[c].channel) # {}
        BY <1>0, <1>2, <1>6, <2>2, Zenon DEF createThread
      <3>2. /\ InTeam(c) /\ arg \in Names
            /\ ctx[c].channel \in ChannelIds /\ chanTeam[ctx[c].channel] = ctx[c].team
        BY <1>1, <1>3, <1>6, <3>1, AccessibleInTeam, FoundInContext
      <3>3. PICK th \in {x \in ThreadIds : thrChan[x] = None} :
                /\ thrChan' = [thrChan EXCEPT ![th] = ctx[c].channel]
                /\ thrTitle' = [thrTitle EXCEPT ![th] = arg]
                /\ thrAuthor' = [thrAuthor EXCEPT ![th] = userOf[c]]
                /\ emitCreated(c, line("201 CREATED THREAD", {th, userOf[c]}),
                               line("EVENT THREAD_CREATED", {th, userOf[c]}), ctx[c].team)
                /\ UNCHANGED << clients, userOf, name, count, ctx, teamVars >>
                /\ UNCHANGED << channelVars, replies >>
        BY <1>6, <3>1, Zenon DEF createThread
      <3>4. NewThread(c, th, arg)
        BY <3>1, <3>2, <3>3 DEF NewThread
      <3> QED BY <3>4
    <2> QED BY <2>1, <2>2
  <1>7. ASSUME userOf[c] # None, createReply(c, arg)
        PROVE  Denied \/ NewReply(c)
    <2>1. CASE Denied
      BY <2>1
    <2>2. CASE ~ Denied
      <3>1. /\ accessible(c) /\ arg \notin {None, Invalid}
            /\ findChannel(ctx[c].team, ctx[c].channel) # {}
            /\ findThread(ctx[c].channel, ctx[c].thread) # {}
        BY <1>0, <1>2, <1>7, <2>2, Zenon DEF createReply
      <3>2. /\ InTeam(c)
            /\ ctx[c].channel \in ChannelIds /\ chanTeam[ctx[c].channel] = ctx[c].team
            /\ ctx[c].thread \in ThreadIds /\ thrChan[ctx[c].thread] = ctx[c].channel
        BY <1>1, <1>7, <3>1, AccessibleInTeam, FoundInContext
      <3>3. /\ replies' = [replies EXCEPT ![ctx[c].thread] = Append(@, userOf[c])]
            /\ emitCreated(c, line("201 CREATED REPLY", {ctx[c].thread, userOf[c]}),
                           line("EVENT REPLY_CREATED",
                                {ctx[c].team, ctx[c].thread, userOf[c]}), ctx[c].team)
            /\ UNCHANGED << clients, userOf, name, count, ctx, teamVars >>
            /\ UNCHANGED << channelVars, threadVars >>
        BY <1>7, <3>1, Zenon DEF createReply
      <3> QED BY <3>2, <3>3 DEF NewReply
    <2> QED BY <2>1, <2>2
  <1>8. \/ Denied
        \/ userOf[c] # None /\ createTeam(c, arg)
        \/ userOf[c] # None /\ createChannel(c, arg)
        \/ userOf[c] # None /\ createThread(c, arg)
        \/ userOf[c] # None /\ createReply(c, arg)
    BY <1>0, Zenon DEF Create
  <1> QED BY <1>4, <1>5, <1>6, <1>7, <1>8, DenyIsAnswer

\* The output of a creation speaks of what its two lines speak of.
LEMMA EmitCreatedAbout ==
    ASSUME NEW S, NEW c, NEW t, NEW answered \in LinesAbout(S), NEW event \in LinesAbout(S),
           emitCreated(c, answered, event, t)
    PROVE  out' \in OutputAbout(S)
  BY SendToClientAbout, BroadcastAbout, ThenAbout DEF emitCreated, notifySubscribers

\* A new team keeps the invariant: no channel, and hence no context, is in it.
LEMMA NewTeamKeepsWorkspace ==
    ASSUME WorkspaceInv, NEW c \in Conns, NEW t, NEW n, NewTeam(c, t, n)
    PROVE  WorkspaceInv'
  <1>0. WorkspaceTypeOK /\ n # None /\ TeamIds \in SUBSET Subjects
    BY NoneAssumption, IdsAssumption DEF WorkspaceInv, NewTeam
  <1>1. out' \in Output
    BY <1>0, OutputAboutIsOutput DEF NewTeam
  <1>2. SessionsInv'
    BY <1>1, AnsweringKeepsInv DEF WorkspaceInv, NewTeam, sessionVars
  <1>3. WorkspaceTypeOK'
    BY <1>0, <1>2 DEF WorkspaceTypeOK, SessionsInv, NewTeam, channelVars, threadVars
  <1>4. \A s \in TeamIds : teamName'[s] = IF s = t THEN n ELSE teamName[s]
    BY <1>0 DEF WorkspaceTypeOK, NewTeam
  <1>5. HierarchyWellFormed'
    BY <1>0, <1>4
    DEF WorkspaceInv, WorkspaceTypeOK, ContextWellFormed, HierarchyWellFormed, NewTeam,
        channelVars, threadVars
  <1>6. ContextWellFormed'
    BY <1>0, <1>4, <1>5
    DEF WorkspaceInv, WorkspaceTypeOK, Contexts, ContextWellFormed, NewTeam, channelVars,
        threadVars
  <1>7. NamesUniqueInScope'
    BY <1>0, <1>4
    DEF WorkspaceInv, NamesUniqueInScope, NewTeam, teamNameTaken, channelVars, threadVars
  <1>8. ThreadsHaveAuthors'
    BY DEF WorkspaceInv, ThreadsHaveAuthors, NewTeam, threadVars
  <1> QED BY <1>2, <1>3, <1>6, <1>7, <1>8 DEF WorkspaceInv

\* A new channel keeps the invariant: its team exists, its name is new in the
\* team, and no context names it yet.
LEMMA NewChannelKeepsWorkspace ==
    ASSUME WorkspaceInv, NEW c \in Conns, NEW ch, NEW n, NewChannel(c, ch, n)
    PROVE  WorkspaceInv'
  <1>0. WorkspaceTypeOK /\ n # None /\ ChannelIds \in SUBSET Subjects /\ ctx[c].team # None
    BY NoneAssumption, IdsAssumption DEF WorkspaceInv, NewChannel, InTeam
  <1>1. out' \in Output
    <2>1. /\ line("201 CREATED CHANNEL", {ch}) \in LinesAbout(ChannelIds)
          /\ line("EVENT CHANNEL_CREATED", {ch}) \in LinesAbout(ChannelIds)
      BY LineAbout DEF Kinds, NewChannel
    <2> QED BY <1>0, <2>1, EmitCreatedAbout, OutputAboutIsOutput DEF NewChannel
  <1>2. SessionsInv'
    BY <1>1, AnsweringKeepsInv DEF WorkspaceInv, NewChannel, sessionVars
  <1>3. WorkspaceTypeOK'
    BY <1>0, <1>2 DEF WorkspaceTypeOK, SessionsInv, NewChannel, InTeam, teamVars, threadVars
  <1>4. \A x \in ChannelIds : /\ chanTeam'[x] = IF x = ch THEN ctx[c].team ELSE chanTeam[x]
                              /\ chanName'[x] = IF x = ch THEN n ELSE chanName[x]
    BY <1>0 DEF WorkspaceTypeOK, NewChannel
  <1>5. HierarchyWellFormed'
    BY <1>0, <1>4
    DEF WorkspaceInv, WorkspaceTypeOK, ContextWellFormed, HierarchyWellFormed, NewChannel, InTeam,
        teamVars, threadVars
  <1>6. ContextWellFormed'
    <2>1. ctx' = ctx /\ teamName' = teamName /\ thrChan' = thrChan /\ chanTeam[ch] = None
      BY DEF NewChannel, teamVars, threadVars
    <2>2. ASSUME NEW d \in Conns, ctx[d].channel # None
          PROVE  chanTeam'[ctx[d].channel] = chanTeam[ctx[d].channel]
      <3>1. ctx[d].channel \in ChannelIds
        BY <1>0, <2>2 DEF WorkspaceTypeOK, Contexts
      <3>2. ctx[d].team # None /\ chanTeam[ctx[d].channel] = ctx[d].team
        BY <2>2 DEF WorkspaceInv, ContextWellFormed
      <3>3. ctx[d].channel # ch
        BY <2>1, <3>2
      <3> QED BY <1>4, <3>1, <3>3
    <2>3. ASSUME NEW d \in Conns
          PROVE  /\ ctx[d].team # None => teamName[ctx[d].team] # None
                 /\ ctx[d].channel # None =>
                      ctx[d].team # None /\ chanTeam[ctx[d].channel] = ctx[d].team
                 /\ ctx[d].thread # None =>
                      ctx[d].channel # None /\ thrChan[ctx[d].thread] = ctx[d].channel
      BY DEF WorkspaceInv, ContextWellFormed
    <2> QED BY <1>5, <2>1, <2>2, <2>3 DEF ContextWellFormed
  <1>7. NamesUniqueInScope'
    <2>1. ASSUME NEW a \in ChannelIds, NEW b \in ChannelIds, chanTeam'[a] # None,
                 chanTeam'[a] = chanTeam'[b], chanName'[a] = chanName'[b]
          PROVE  a = b
      <3>1. \A x \in ChannelIds : ~ (chanTeam[x] = ctx[c].team /\ chanName[x] = n)
        BY DEF NewChannel, channelNameTaken
      <3>2. CASE a # ch /\ b # ch
        BY <1>4, <2>1, <3>2 DEF WorkspaceInv, NamesUniqueInScope
      <3> QED BY <1>4, <2>1, <3>1, <3>2
    <2>2. teamName' = teamName /\ thrChan' = thrChan /\ thrTitle' = thrTitle
      BY DEF NewChannel, teamVars, threadVars
    <2> QED BY <2>1, <2>2 DEF WorkspaceInv, NamesUniqueInScope
  <1>8. ThreadsHaveAuthors'
    BY DEF WorkspaceInv, ThreadsHaveAuthors, NewChannel, threadVars
  <1> QED BY <1>2, <1>3, <1>6, <1>7, <1>8 DEF WorkspaceInv

\* A new thread keeps the invariant: its channel exists, its title is new in
\* the channel, and no context names it yet.
LEMMA NewThreadKeepsWorkspace ==
    ASSUME WorkspaceInv, NEW c \in Conns, NEW th, NEW n, NewThread(c, th, n)
    PROVE  WorkspaceInv'
  <1>0. /\ WorkspaceTypeOK /\ n # None /\ ThreadIds \cup UserIds \in SUBSET Subjects
        /\ ctx[c].team # None /\ ctx[c].channel # None
    BY NoneAssumption, IdsAssumption, SubjectsAssumption DEF WorkspaceInv, NewThread, InTeam
  <1>1. out' \in Output
    <2>1. /\ line("201 CREATED THREAD", {th, userOf[c]}) \in LinesAbout(ThreadIds \cup UserIds)
          /\ line("EVENT THREAD_CREATED", {th, userOf[c]}) \in LinesAbout(ThreadIds \cup UserIds)
      BY LineAbout DEF Kinds, NewThread, InTeam
    <2> QED BY <1>0, <2>1, EmitCreatedAbout, OutputAboutIsOutput DEF NewThread
  <1>2. SessionsInv'
    BY <1>1, AnsweringKeepsInv DEF WorkspaceInv, NewThread, sessionVars
  <1>3. WorkspaceTypeOK'
    BY <1>0, <1>2 DEF WorkspaceTypeOK, SessionsInv, NewThread, InTeam, teamVars, channelVars
  <1>4. \A x \in ThreadIds : /\ thrChan'[x] = IF x = th THEN ctx[c].channel ELSE thrChan[x]
                             /\ thrTitle'[x] = IF x = th THEN n ELSE thrTitle[x]
    BY <1>0 DEF WorkspaceTypeOK, NewThread
  <1>5. HierarchyWellFormed'
    BY <1>0, <1>4
    DEF WorkspaceInv, WorkspaceTypeOK, ContextWellFormed, HierarchyWellFormed, NewThread,
        teamVars, channelVars
  <1>6. ContextWellFormed'
    <2>1. ctx' = ctx /\ teamName' = teamName /\ chanTeam' = chanTeam /\ thrChan[th] = None
      BY DEF NewThread, teamVars, channelVars
    <2>2. ASSUME NEW d \in Conns, ctx[d].thread # None
          PROVE  thrChan'[ctx[d].thread] = thrChan[ctx[d].thread]
      <3>1. ctx[d].thread \in ThreadIds
        BY <1>0, <2>2 DEF WorkspaceTypeOK, Contexts
      <3>2. ctx[d].channel # None /\ thrChan[ctx[d].thread] = ctx[d].channel
        BY <2>2 DEF WorkspaceInv, ContextWellFormed
      <3>3. ctx[d].thread # th
        BY <2>1, <3>2
      <3> QED BY <1>4, <3>1, <3>3
    <2>3. ASSUME NEW d \in Conns
          PROVE  /\ ctx[d].team # None => teamName[ctx[d].team] # None
                 /\ ctx[d].channel # None =>
                      ctx[d].team # None /\ chanTeam[ctx[d].channel] = ctx[d].team
                 /\ ctx[d].thread # None =>
                      ctx[d].channel # None /\ thrChan[ctx[d].thread] = ctx[d].channel
      BY DEF WorkspaceInv, ContextWellFormed
    <2> QED BY <1>5, <2>1, <2>2, <2>3 DEF ContextWellFormed
  <1>7. NamesUniqueInScope'
    <2>1. ASSUME NEW a \in ThreadIds, NEW b \in ThreadIds, thrChan'[a] # None,
                 thrChan'[a] = thrChan'[b], thrTitle'[a] = thrTitle'[b]
          PROVE  a = b
      <3>1. \A x \in ThreadIds : ~ (thrChan[x] = ctx[c].channel /\ thrTitle[x] = n)
        BY DEF NewThread, threadTitleTaken
      <3>2. CASE a # th /\ b # th
        BY <1>4, <2>1, <3>2 DEF WorkspaceInv, NamesUniqueInScope
      <3> QED BY <1>4, <2>1, <3>1, <3>2
    <2>2. teamName' = teamName /\ chanTeam' = chanTeam /\ chanName' = chanName
      BY DEF NewThread, teamVars, channelVars
    <2> QED BY <2>1, <2>2 DEF WorkspaceInv, NamesUniqueInScope
  <1>8. ThreadsHaveAuthors'
    BY <1>0, <1>4
    DEF WorkspaceInv, WorkspaceTypeOK, ThreadsHaveAuthors, NewThread, InTeam
  <1> QED BY <1>2, <1>3, <1>6, <1>7, <1>8 DEF WorkspaceInv

\* A new reply keeps the invariant.
LEMMA NewReplyKeepsWorkspace ==
    ASSUME WorkspaceInv, NEW c \in Conns, NewReply(c)
    PROVE  WorkspaceInv'
  <1> DEFINE Ids == TeamIds \cup ThreadIds \cup UserIds
  <1>0. WorkspaceTypeOK /\ Ids \in SUBSET Subjects
    BY IdsAssumption, SubjectsAssumption DEF WorkspaceInv
  <1>1. out' \in Output
    <2>1. /\ line("201 CREATED REPLY", {ctx[c].thread, userOf[c]}) \in LinesAbout(Ids)
          /\ line("EVENT REPLY_CREATED", {ctx[c].team, ctx[c].thread, userOf[c]})
             \in LinesAbout(Ids)
      <3>1. /\ {ctx[c].thread, userOf[c]} \in SUBSET Ids
            /\ {ctx[c].team, ctx[c].thread, userOf[c]} \in SUBSET Ids
        BY DEF NewReply, InTeam
      <3>2. "201 CREATED REPLY" \in Kinds /\ "EVENT REPLY_CREATED" \in Kinds
        BY DEF Kinds
      <3> HIDE DEF Ids
      <3> QED BY <3>1, <3>2, LineAbout
    <2> HIDE DEF Ids
    <2> QED BY <1>0, <2>1, EmitCreatedAbout, OutputAboutIsOutput DEF NewReply
  <1>2. SessionsInv'
    BY <1>1, AnsweringKeepsInv DEF WorkspaceInv, NewReply, sessionVars
  <1>3. replies' \in [ThreadIds -> Seq(UserIds)]
    <2>0. replies[ctx[c].thread] \in Seq(UserIds) /\ userOf[c] \in UserIds
      BY <1>0 DEF WorkspaceTypeOK, NewReply, InTeam
    <2>1. Append(replies[ctx[c].thread], userOf[c]) \in Seq(UserIds)
      BY <2>0
    <2> QED BY <1>0, <2>1 DEF WorkspaceTypeOK, NewReply
  <1>4. WorkspaceTypeOK'
    BY <1>0, <1>2, <1>3 DEF WorkspaceTypeOK, SessionsInv, NewReply, teamVars, channelVars,
                            threadVars
  <1>5. ContextWellFormed' /\ NamesUniqueInScope' /\ ThreadsHaveAuthors'
    BY DEF WorkspaceInv, ContextWellFormed, HierarchyWellFormed, NamesUniqueInScope,
           ThreadsHaveAuthors, NewReply, teamVars, channelVars, threadVars
  <1> QED BY <1>2, <1>4, <1>5 DEF WorkspaceInv

\* /create keeps the invariant.
LEMMA CreateKeepsWorkspace ==
    ASSUME WorkspaceInv, NEW c \in Conns, NEW arg \in Names \cup {None, Invalid}, Create(c, arg)
    PROVE  WorkspaceInv'
  <1>0. WorkspaceTypeOK
    BY DEF WorkspaceInv
  <1>1. CASE \E ms \in Seq(LinesAbout({})) : answer(c, ms)
    BY <1>1, AnswerKeepsWorkspace
  <1> QED BY <1>0, <1>1, CreateShape, NewTeamKeepsWorkspace, NewChannelKeepsWorkspace,
             NewThreadKeepsWorkspace, NewReplyKeepsWorkspace

-------------------------------------------------------------------------------
(* /list and /info *)

\* What a connection may be told about the content: lines about users and
\* teams to everybody, lines about the content of a team to its subscribers.
MayBeTold(c, ms) ==
    \A i \in DOMAIN ms : \A x \in ms[i].of \cap (ChannelIds \cup ThreadIds) :
        userOf[c] \in subs[teamOf(x)]

\* The things below the context of c, when the user of c is in its team. A
\* thread, and a reply, is looked up by the channel or the thread alone; that
\* they are in the team is what ContextWellFormed says.
LEMMA ContextIsInTeam ==
    ASSUME WorkspaceInv, NEW c \in Conns, InTeam(c)
    PROVE  /\ \A ch \in ChannelIds : chanTeam[ch] = ctx[c].team =>
                 userOf[c] \in subs[teamOf(ch)]
           /\ ctx[c].channel # None => userOf[c] \in subs[teamOf(ctx[c].channel)]
           /\ ctx[c].channel # None =>
                 \A th \in ThreadIds : thrChan[th] = ctx[c].channel =>
                     userOf[c] \in subs[teamOf(th)]
           /\ ctx[c].thread # None => userOf[c] \in subs[teamOf(ctx[c].thread)]
  <1>1. \A th \in ThreadIds : th \notin ChannelIds
    BY DisjointIdsAssumption
  <1>2. /\ ctx[c].channel # None => /\ ctx[c].channel \in ChannelIds
                                    /\ chanTeam[ctx[c].channel] = ctx[c].team
        /\ ctx[c].thread # None => /\ ctx[c].thread \in ThreadIds /\ ctx[c].channel # None
                                   /\ thrChan[ctx[c].thread] = ctx[c].channel
    BY DEF WorkspaceInv, WorkspaceTypeOK, Contexts, ContextWellFormed
  <1> QED BY <1>1, <1>2 DEF InTeam, teamOf

\* What /list shows speaks of subjects, and of nothing that the connection
\* may not be told.
LEMMA ListedMayBeTold ==
    ASSUME WorkspaceInv, NEW c \in Conns, userOf[c] # None, ctx[c].team # None => InTeam(c)
    PROVE  /\ listed(c) \in LinesAbout(Subjects)
           /\ \A x \in listed(c).of \cap (ChannelIds \cup ThreadIds) : userOf[c] \in subs[teamOf(x)]
  <1> DEFINE S(of) == of \in SUBSET Subjects
             Told(of) == \A x \in of \cap (ChannelIds \cup ThreadIds) : userOf[c] \in subs[teamOf(x)]
  <1>0. /\ "210 TEAM" \in Kinds /\ "210 CHANNEL" \in Kinds /\ "210 THREAD" \in Kinds
        /\ "210 REPLY" \in Kinds
    BY DEF Kinds
  <1>1. ASSUME NEW kind \in Kinds, NEW of, listed(c) = line(kind, of), S(of), Told(of)
        PROVE  /\ listed(c) \in LinesAbout(Subjects)
               /\ \A x \in listed(c).of \cap (ChannelIds \cup ThreadIds) :
                     userOf[c] \in subs[teamOf(x)]
    <2>1. line(kind, of).of = of
      BY DEF line
    <2> QED BY <1>1, <2>1, LineAbout
  <1>2. CASE ctx[c].team = None
    <2> DEFINE of == {t \in TeamIds : teamName[t] # None}
    <2>1. S(of) /\ Told(of)
      BY IdsAssumption, DisjointIdsAssumption
    <2> QED BY <1>0, <1>1, <1>2, <2>1 DEF listed
  <1>3. CASE ctx[c].team # None /\ ctx[c].channel = None
    <2> DEFINE of == {ch \in ChannelIds : chanTeam[ch] = ctx[c].team}
    <2>1. S(of) /\ Told(of)
      BY <1>3, IdsAssumption, ContextIsInTeam
    <2> QED BY <1>0, <1>1, <1>3, <2>1 DEF listed
  <1>4. CASE ctx[c].team # None /\ ctx[c].channel # None /\ ctx[c].thread = None
    <2> DEFINE ths == {th \in ThreadIds : thrChan[th] = ctx[c].channel}
               of == ths \cup {thrAuthor[th] : th \in ths}
    <2>1. \A th \in ths : thrAuthor[th] \in UserIds
      BY <1>4 DEF WorkspaceInv, ThreadsHaveAuthors
    <2>2. S(of) /\ Told(of)
      BY <1>4, <2>1, IdsAssumption, SubjectsAssumption, DisjointIdsAssumption, ContextIsInTeam
    <2> QED BY <1>0, <1>1, <1>4, <2>2 DEF listed
  <1>5. CASE ctx[c].team # None /\ ctx[c].channel # None /\ ctx[c].thread # None
    <2> DEFINE rs == replies[ctx[c].thread]
               of == {ctx[c].thread : i \in DOMAIN rs} \cup {rs[i] : i \in DOMAIN rs}
    <2>1. ctx[c].thread \in ThreadIds /\ \A i \in DOMAIN rs : rs[i] \in UserIds
      BY <1>5 DEF WorkspaceInv, WorkspaceTypeOK, Contexts
    <2>2. S(of) /\ Told(of)
      BY <1>5, <2>1, IdsAssumption, SubjectsAssumption, DisjointIdsAssumption, ContextIsInTeam
    <2> QED BY <1>0, <1>1, <1>5, <2>2 DEF listed
  <1> QED BY <1>2, <1>3, <1>4, <1>5

\* A list of one line, and the line alone.
LEMMA OneLineMayBeTold ==
    ASSUME NEW c, NEW m \in LinesAbout(Subjects),
           \A x \in m.of \cap (ChannelIds \cup ThreadIds) : userOf[c] \in subs[teamOf(x)]
    PROVE  /\ << m >> \in Seq(LinesAbout(Subjects)) /\ MayBeTold(c, << m >>)
           /\ list(<< m >>) \in Seq(LinesAbout(Subjects)) /\ MayBeTold(c, list(<< m >>))
  <1> DEFINE L == LinesAbout(Subjects)
             Told(x) == userOf[c] \in subs[teamOf(x)]
             C == ChannelIds \cup ThreadIds
             b == line("210-BEGIN", {})
             e == line("210-END", {})
  <1>1. b \in L /\ e \in L /\ b.of = {} /\ e.of = {}
    BY LineAbout DEF Kinds, line
  <1>2. << m >> \in Seq(L) /\ list(<< m >>) \in Seq(L)
    BY OneLineAbout, ListAbout
  <1>3. \A x \in m.of \cap C : Told(x)
    OBVIOUS
  <1> HIDE DEF L, Told, C, b, e
  <1>4. MayBeTold(c, << m >>)
    <2>1. \A i \in DOMAIN << m >> : << m >>[i] = m
      OBVIOUS
    <2> QED BY <1>3, <2>1 DEF MayBeTold, Told, C
  <1>5. MayBeTold(c, list(<< m >>))
    <2>1. \A i \in DOMAIN (<< b >> \o << m >> \o << e >>) :
             (<< b >> \o << m >> \o << e >>)[i] \in {b, m, e}
      OBVIOUS
    <2>2. \A i \in DOMAIN list(<< m >>) : list(<< m >>)[i] \in {b, m, e}
      BY <2>1, Zenon DEF list, b, e
    <2> QED BY <1>1, <1>3, <2>2 DEF MayBeTold, Told, C
  <1> QED BY <1>2, <1>4, <1>5 DEF L

\* What /list and /info do: they only answer, with what the connection may be
\* told.
LEMMA InquiryShape ==
    ASSUME WorkspaceInv, NEW c \in Conns, List(c) \/ Info(c)
    PROVE  \E ms \in Seq(LinesAbout(Subjects)) : answer(c, ms) /\ MayBeTold(c, ms)
  <1> DEFINE Goal == \E ms \in Seq(LinesAbout(Subjects)) : answer(c, ms) /\ MayBeTold(c, ms)
  <1>0. /\ WorkspaceTypeOK
        /\ c \in clients
    BY DEF WorkspaceInv, List, Info
  <1>1. /\ "401 UNAUTHORIZED" \in Kinds /\ "404 NOT_FOUND TEAM" \in Kinds
        /\ "404 NOT_FOUND CHANNEL" \in Kinds /\ "404 NOT_FOUND THREAD" \in Kinds
        /\ "403 FORBIDDEN" \in Kinds /\ "200 INFO THREAD" \in Kinds
        /\ "200 INFO CHANNEL" \in Kinds /\ "200 INFO TEAM" \in Kinds
        /\ "200 INFO USER 1" \in Kinds /\ "200 INFO USER 0" \in Kinds
    BY DEF Kinds
  <1>2. ASSUME NEW status \in Kinds, deny(c, status) PROVE Goal
    <2>1. /\ line(status, {}) \in LinesAbout(Subjects)
          /\ \A x \in line(status, {}).of \cap (ChannelIds \cup ThreadIds) :
                userOf[c] \in subs[teamOf(x)]
      BY LineAbout DEF line
    <2> QED BY <1>2, <2>1, OneLineMayBeTold DEF deny
  <1>3. CASE \E status \in Kinds : deny(c, status)
    BY <1>2, <1>3
  <1>4. CASE userOf[c] # None /\ ~ (ctx[c].team # None /\ ~ accessible(c))
    <2>1. ctx[c].team # None => InTeam(c)
      BY <1>0, <1>4, AccessibleInTeam
    <2>2. CASE answer(c, list(<< listed(c) >>))
      BY <1>4, <2>1, <2>2, ListedMayBeTold, OneLineMayBeTold
    <2> DEFINE ids == IF ctx[c].thread # None THEN {ctx[c].thread}
                      ELSE IF ctx[c].channel # None THEN {ctx[c].channel}
                      ELSE IF ctx[c].team # None THEN {ctx[c].team} ELSE {userOf[c]}
    <2>3. CASE \E kind \in Kinds : answer(c, << line(kind, ids) >>)
      <3>1. userOf[c] \in UserIds /\ ctx[c] \in Contexts
        BY <1>0, <1>4 DEF WorkspaceTypeOK, SessionsTypeOK
      <3>2. /\ ctx[c].thread # None => /\ ctx[c].thread \in ThreadIds
                                       /\ ctx[c].channel # None
            /\ ctx[c].channel # None => ctx[c].channel \in ChannelIds /\ ctx[c].team # None
            /\ ctx[c].team # None => ctx[c].team \in TeamIds
        BY <3>1 DEF Contexts, WorkspaceInv, ContextWellFormed
      <3>3. ids \in SUBSET Subjects
        BY <3>1, <3>2, IdsAssumption, SubjectsAssumption
      <3>4. \A x \in ids \cap (ChannelIds \cup ThreadIds) : userOf[c] \in subs[teamOf(x)]
        <4>1. ctx[c].channel # None => userOf[c] \in subs[teamOf(ctx[c].channel)]
          BY <2>1, <3>2, ContextIsInTeam
        <4>2. ctx[c].thread # None => userOf[c] \in subs[teamOf(ctx[c].thread)]
          BY <2>1, <3>2, ContextIsInTeam
        <4> QED BY <3>1, <3>2, <4>1, <4>2, DisjointIdsAssumption
      <3> HIDE DEF ids
      <3>5. PICK kind \in Kinds : answer(c, << line(kind, ids) >>)
        BY <2>3
      <3>6. line(kind, ids) \in LinesAbout(Subjects) /\ line(kind, ids).of = ids
        BY <3>3, LineAbout DEF line
      <3> QED BY <3>4, <3>5, <3>6, OneLineMayBeTold
    <2>4. List(c) => (\E status \in Kinds : deny(c, status)) \/ answer(c, list(<< listed(c) >>))
      BY <1>1, <1>4, Zenon DEF List
    <2>5. Info(c) => (\E status \in Kinds : deny(c, status))
                     \/ \E kind \in Kinds : answer(c, << line(kind, ids) >>)
      <3> SUFFICES ASSUME Info(c), ~ \E status \in Kinds : deny(c, status)
                   PROVE  \E kind \in Kinds : answer(c, << line(kind, ids) >>)
        OBVIOUS
      <3>1. answer(c, <<
              IF ctx[c].thread # None THEN line("200 INFO THREAD", {ctx[c].thread})
              ELSE IF ctx[c].channel # None
                   THEN line("200 INFO CHANNEL", {ctx[c].channel})
              ELSE IF ctx[c].team # None THEN line("200 INFO TEAM", {ctx[c].team})
              ELSE line(IF isConnected(count[userOf[c]])
                        THEN "200 INFO USER 1" ELSE "200 INFO USER 0", {userOf[c]}) >>)
        BY <1>1, <1>4, Zenon DEF Info
      <3>2. CASE ctx[c].thread # None
        BY <1>1, <3>1, <3>2, Zenon
      <3>3. CASE ctx[c].thread = None /\ ctx[c].channel # None
        BY <1>1, <3>1, <3>3, Zenon
      <3>4. CASE ctx[c].thread = None /\ ctx[c].channel = None /\ ctx[c].team # None
        BY <1>1, <3>1, <3>4, Zenon
      <3>5. CASE ctx[c].thread = None /\ ctx[c].channel = None /\ ctx[c].team = None
        BY <1>1, <3>1, <3>5, Zenon
      <3> QED BY <3>2, <3>3, <3>4, <3>5
    <2> QED BY <1>3, <2>2, <2>3, <2>4, <2>5
  <1>5. userOf[c] = None => \E status \in Kinds : deny(c, status)
    BY <1>1, Zenon DEF List, Info
  <1>6. userOf[c] # None /\ ctx[c].team # None /\ ~ accessible(c) =>
           \E status \in Kinds : deny(c, status)
    <2>1. denyTeam(c, "404 NOT_FOUND TEAM") => \E status \in Kinds : deny(c, status)
      BY <1>1, Zenon DEF denyTeam
    <2> QED BY <2>1, Zenon DEF List, Info
  <1> QED BY <1>3, <1>4, <1>5, <1>6

-------------------------------------------------------------------------------
(* The invariant *)

\* The invariant holds when the server starts without a save file.
LEMMA WorkspaceInitInv == WorkspaceInit => WorkspaceInv
  <1> SUFFICES ASSUME WorkspaceInit PROVE WorkspaceInv
    OBVIOUS
  <1>1. SessionsInv
    BY SessionsInitInv DEF WorkspaceInit
  <1>2. NoContext \in Contexts /\ << >> \in Seq(UserIds)
    BY DEF NoContext, Contexts
  <1>3. WorkspaceTypeOK
    BY <1>1, <1>2 DEF SessionsInv, WorkspaceInit, WorkspaceTypeOK
  <1>4. ContextWellFormed /\ NamesUniqueInScope /\ ThreadsHaveAuthors
    BY DEF WorkspaceInit, ContextWellFormed, HierarchyWellFormed, NamesUniqueInScope,
           ThreadsHaveAuthors, NoContext
  <1> QED BY <1>1, <1>3, <1>4 DEF WorkspaceInv

\* Every step of the server keeps the invariant.
LEMMA WorkspaceNextInv == WorkspaceInv /\ WorkspaceNext => WorkspaceInv'
  <1> SUFFICES ASSUME WorkspaceInv, WorkspaceNext PROVE WorkspaceInv'
    OBVIOUS
  <1>1. CASE SessionStep
    BY <1>1, SessionStepKeepsWorkspace
  <1>2. CASE \E c \in Conns : WorkspaceCommand(c)
    <2>0. PICK c \in Conns : WorkspaceCommand(c)
      BY <1>2
    <2>1. CASE \E a \in UseArgs \cup {Invalid} : Use(c, a)
      BY <2>1, UseKeepsWorkspace
    <2>2. CASE \E arg \in TeamIds \cup {None, Invalid} :
                  Subscribe(c, arg) \/ Unsubscribe(c, arg) \/ Subscribed(c, arg)
      BY <2>2, SubscriptionKeepsWorkspace
    <2>3. CASE \E arg \in Names \cup {None, Invalid} : Create(c, arg)
      BY <2>3, CreateKeepsWorkspace
    <2>4. CASE List(c) \/ Info(c)
      BY <2>4, InquiryShape, AnswerKeepsWorkspace
    <2> QED BY <2>0, <2>1, <2>2, <2>3, <2>4 DEF WorkspaceCommand
  <1> QED BY <1>1, <1>2 DEF WorkspaceNext

\* A step that changes nothing keeps the invariant.
LEMMA WorkspaceStutterInv == WorkspaceInv /\ UNCHANGED wsVars => WorkspaceInv'
  <1> SUFFICES ASSUME WorkspaceInv, UNCHANGED wsVars PROVE WorkspaceInv'
    OBVIOUS
  <1>1. out' \in Output
    BY DEF WorkspaceInv, SessionsInv, SessionsTypeOK, wsVars
  <1> QED BY <1>1, AnsweringKeepsWorkspace DEF wsVars, contentVars

\* The inductive invariant holds in every reachable state.
THEOREM WorkspaceInvariant == WorkspaceSpec => []WorkspaceInv
  BY WorkspaceInitInv, WorkspaceNextInv, WorkspaceStutterInv, PTL DEF WorkspaceSpec

\* Teams, channels, threads, replies, contexts and outputs are always well
\* typed.
THEOREM WorkspaceTypeCorrect == WorkspaceSpec => []WorkspaceTypeOK
  <1>1. WorkspaceInv => WorkspaceTypeOK
    BY DEF WorkspaceInv
  <1> QED BY <1>1, WorkspaceInvariant, PTL

\* The context that a client has selected with /use denotes an existing path
\* at any later time, whatever all the clients do.
THEOREM ContextsStayWellFormed == WorkspaceSpec => []ContextWellFormed
  <1>1. WorkspaceInv => ContextWellFormed
    BY DEF WorkspaceInv
  <1> QED BY <1>1, WorkspaceInvariant, PTL

\* The duplicate checks of /create keep the names of teams, of the channels of
\* a team and of the threads of a channel apart.
THEOREM NamesStayUnique == WorkspaceSpec => []NamesUniqueInScope
  <1>1. WorkspaceInv => NamesUniqueInScope
    BY DEF WorkspaceInv
  <1> QED BY <1>1, WorkspaceInvariant, PTL

-------------------------------------------------------------------------------
(* What one step may do *)

\* An answer: the lines ms to c, which it may be told, and no change.
Answered(c, ms) ==
    /\ ms \in Seq(LinesAbout(Subjects)) /\ MayBeTold(c, ms)
    /\ answer(c, ms)

\* A successful /use.
Selected(c, a) ==
    /\ Selectable(c, a)
    /\ ctx' = [ctx EXCEPT ![c] = a]
    /\ out' = sendList(Successes(Levels(a)), c)
    /\ UNCHANGED sessionVars /\ UNCHANGED contentVars

\* A change of the subscribers of a team, and what is sent about it.
MembersChanged ==
    /\ \E t, members : NewMembers(t, members)
    /\ out' \in OutputAbout(UserIds \cup TeamIds)

\* A line about users and teams may be told to everybody.
LEMMA UsersAndTeamsMayBeTold ==
    ASSUME NEW c, NEW S \in SUBSET (UserIds \cup TeamIds), NEW ms \in Seq(LinesAbout(S))
    PROVE  ms \in Seq(LinesAbout(Subjects)) /\ MayBeTold(c, ms)
  <1>1. S \subseteq Subjects
    BY SubjectsAssumption, IdsAssumption
  <1>2. ms \in Seq(LinesAbout(Subjects))
    BY <1>1, LinesAboutMore
  <1>3. \A i \in DOMAIN ms : ms[i].of \in SUBSET S
    <2>1. \A i \in DOMAIN ms : ms[i] \in LinesAbout(S)
      OBVIOUS
    <2> QED BY <2>1 DEF LinesAbout
  <1>4. S \cap (ChannelIds \cup ThreadIds) = {}
    BY DisjointIdsAssumption
  <1> QED BY <1>2, <1>3, <1>4 DEF MayBeTold

\* Every step of the server has one of eight forms: the case split of the
\* theorems about steps.
LEMMA StepShape ==
    ASSUME WorkspaceInv, WorkspaceNext
    PROVE  \/ SessionStep
           \/ MembersChanged
           \/ \E c \in Conns :
                 \/ \E ms : Answered(c, ms)
                 \/ \E a : Selected(c, a)
                 \/ \E t, n : NewTeam(c, t, n)
                 \/ \E ch, n : NewChannel(c, ch, n)
                 \/ \E th, n : NewThread(c, th, n)
                 \/ NewReply(c)
  <1>0. WorkspaceTypeOK
    BY DEF WorkspaceInv
  <1>1. ASSUME NEW c \in Conns, NEW S \in SUBSET (UserIds \cup TeamIds),
               \E ms \in Seq(LinesAbout(S)) : answer(c, ms)
        PROVE  \E ms : Answered(c, ms)
    BY <1>1, UsersAndTeamsMayBeTold DEF Answered
  <1>2. CASE SessionStep
    BY <1>2
  <1>3. CASE \E c \in Conns : WorkspaceCommand(c)
    <2>0. PICK c \in Conns : WorkspaceCommand(c)
      BY <1>3
    <2>1. ASSUME NEW a \in UseArgs \cup {Invalid}, Use(c, a)
          PROVE  (\E ms : Answered(c, ms)) \/ Selected(c, a)
      <3>1. (\E ms \in Seq(LinesAbout({})) : answer(c, ms)) \/ Selected(c, a)
        BY <1>0, <2>1, UseShape DEF Selected
      <3> QED BY <1>1, <3>1
    <2>2. ASSUME NEW arg \in TeamIds \cup {None, Invalid},
                 Subscribe(c, arg) \/ Unsubscribe(c, arg) \/ Subscribed(c, arg)
          PROVE  (\E ms : Answered(c, ms)) \/ MembersChanged
      <3>1. \/ \E ms \in Seq(LinesAbout(UserIds \cup TeamIds)) : answer(c, ms)
            \/ MembersChanged
        BY <1>0, <2>2, SubscriptionShape DEF MembersChanged
      <3> QED BY <1>1, <3>1
    <2>3. ASSUME NEW arg \in Names \cup {None, Invalid}, Create(c, arg)
          PROVE  \/ \E ms : Answered(c, ms)
                 \/ \E t, n : NewTeam(c, t, n)
                 \/ \E ch, n : NewChannel(c, ch, n)
                 \/ \E th, n : NewThread(c, th, n)
                 \/ NewReply(c)
      <3>1. \/ \E ms \in Seq(LinesAbout({})) : answer(c, ms)
            \/ \E t : NewTeam(c, t, arg)
            \/ \E ch : NewChannel(c, ch, arg)
            \/ \E th : NewThread(c, th, arg)
            \/ NewReply(c)
        BY <1>0, <2>3, CreateShape
      <3>2. CASE \E ms \in Seq(LinesAbout({})) : answer(c, ms)
        BY <1>1, <3>2
      <3> QED BY <3>1, <3>2, Zenon
    <2>4. ASSUME List(c) \/ Info(c) PROVE \E ms : Answered(c, ms)
      BY <2>4, InquiryShape DEF Answered
    <2> QED BY <2>0, <2>1, <2>2, <2>3, <2>4, Zenon DEF WorkspaceCommand
  <1> QED BY <1>2, <1>3 DEF WorkspaceNext

-------------------------------------------------------------------------------
(* /use takes over all or nothing *)

\* A context that changes while its client stays was selected by /use.
LEMMA OnlyUseSelects ==
    ASSUME WorkspaceInv, WorkspaceNext, NEW c \in clients \cap clients', ctx'[c] # ctx[c]
    PROVE  \E a : Selected(c, a)
  <1>0. clients \subseteq Conns /\ ctx \in [Conns -> Contexts]
    BY DEF WorkspaceInv, WorkspaceTypeOK, SessionsTypeOK
  <1>1. ~ SessionStep
    BY <1>0 DEF SessionStep
  <1>2. ~ MembersChanged
    BY DEF MembersChanged, NewMembers
  <1>3. ASSUME NEW d \in Conns
        PROVE  /\ \A ms : ~ Answered(d, ms)
               /\ \A t, n : ~ NewTeam(d, t, n)
               /\ \A ch, n : ~ NewChannel(d, ch, n)
               /\ \A th, n : ~ NewThread(d, th, n)
               /\ ~ NewReply(d)
    BY DEF Answered, answer, NewTeam, NewChannel, NewThread, NewReply
  <1>4. PICK d \in Conns : \E a : Selected(d, a)
    BY <1>1, <1>2, <1>3, StepShape
  <1>5. d = c
    BY <1>0, <1>4 DEF Selected
  <1> QED BY <1>4, <1>5

\* A context is replaced as a whole, with an answer that holds no error, and only
\* the client's own context is.
THEOREM UseIsAllOrNothing == WorkspaceSpec => UseAllOrNothing
  <1> DEFINE Whole(c) ==
          /\ out'[c] # << >> /\ \A i \in DOMAIN out'[c] : out'[c][i].kind = "200 OK"
          /\ \A d \in Conns \ {c} : ctx'[d] = ctx[d] /\ out'[d] = << >>
  <1>1. ASSUME WorkspaceInv, [WorkspaceNext]_wsVars
        PROVE  [\A c \in clients \cap clients' : ctx'[c] # ctx[c] => Whole(c)]_wsVars
    <2> SUFFICES ASSUME WorkspaceNext, NEW c \in clients \cap clients', ctx'[c] # ctx[c]
                 PROVE  Whole(c)
      BY <1>1
    <2>0. c \in Conns /\ ctx \in [Conns -> Contexts]
      BY <1>1 DEF WorkspaceInv, WorkspaceTypeOK, SessionsTypeOK
    <2>1. PICK a : Selected(c, a)
      BY <1>1, OnlyUseSelects
    <2>2. ctx'[c] = a /\ out'[c] = Successes(Levels(a))
      BY <2>0, <2>1 DEF Selected, sendList
    <2>3. \A d \in Conns \ {c} : ctx'[d] = ctx[d] /\ out'[d] = << >>
      BY <2>0, <2>1 DEF Selected, sendList
    <2>4. Levels(a) \in Nat /\ Levels(a) # 0
      BY DEF Levels
    <2>5. ASSUME NEW n \in Nat
          PROVE  /\ Len(Successes(n)) = n
                 /\ \A i \in DOMAIN Successes(n) : Successes(n)[i].kind = "200 OK"
      <3>1. ASSUME NEW m PROVE /\ Len([i \in 1..n |-> m]) = n
                               /\ \A i \in 1..n : [j \in 1..n |-> m][i] = m
        OBVIOUS
      <3>2. line("200 OK", {}).kind = "200 OK"
        BY DEF line
      <3>3. /\ Len(Successes(n)) = n /\ DOMAIN Successes(n) = 1..n
            /\ \A i \in 1..n : Successes(n)[i] = line("200 OK", {})
        BY <3>1 DEF Successes
      <3> QED BY <3>2, <3>3, Zenon
    <2>6. out'[c] # << >>
      <3>1. Len(<< >>) = 0
        OBVIOUS
      <3> QED BY <2>2, <2>4, <2>5, <3>1, Zenon
    <2> QED BY <2>2, <2>3, <2>4, <2>5, <2>6, Zenon
  <1> QED BY <1>1, WorkspaceInvariant, PTL DEF WorkspaceSpec, UseAllOrNothing

-------------------------------------------------------------------------------
(* What is told stays in the team *)

\* An output about users and teams only says nothing about any content.
LEMMA UsersAndTeamsStayInTeam ==
    ASSUME out' \in OutputAbout(UserIds \cup TeamIds)
    PROVE  OutputStaysInTeam'
  <1>1. ASSUME NEW c \in Conns, NEW i \in DOMAIN out'[c]
        PROVE  out'[c][i].of \cap (ChannelIds \cup ThreadIds) = {}
    <2>1. out'[c] \in Seq(LinesAbout(UserIds \cup TeamIds))
      BY DEF OutputAbout
    <2>2. out'[c][i] \in LinesAbout(UserIds \cup TeamIds)
      BY <2>1
    <2>3. out'[c][i].of \in SUBSET (UserIds \cup TeamIds)
      BY <2>2 DEF LinesAbout
    <2> QED BY <2>3, DisjointIdsAssumption
  <1> QED BY <1>1 DEF OutputStaysInTeam

\* What emitCreated appends to connection d: the answer is for c alone, the
\* event for the connections on which a subscriber is logged in.
LEMMA EmitCreatedLines ==
    ASSUME NEW c, NEW a, NEW e, NEW t, emitCreated(c, a, e, t), NEW d \in Conns,
           NEW i \in DOMAIN out'[d]
    PROVE  \/ out'[d][i] = a /\ d = c
           \/ out'[d][i] = e /\ d \in clients /\ userOf[d] # None /\ userOf[d] \in subs[t]
  <1> DEFINE T == {x \in clients : userOf[x] # None /\ userOf[x] \in subs[t]}
             x == IF d = c THEN << a >> ELSE << >>
             y == IF d \in T THEN << e >> ELSE << >>
  <1>1. out'[d] = x \o y
    BY DEF emitCreated, Then, sendToClient, notifySubscribers, broadcast
  <1> HIDE DEF T
  <1>2. CASE d = c /\ d \in T
    BY <1>1, <1>2 DEF T
  <1>3. CASE d = c /\ d \notin T
    BY <1>1, <1>3
  <1>4. CASE d # c /\ d \in T
    BY <1>1, <1>4 DEF T
  <1>5. CASE d # c /\ d \notin T
    BY <1>1, <1>5
  <1> QED BY <1>2, <1>3, <1>4, <1>5

\* The output of a creation inside a team is told to its subscribers only,
\* when all the content that its two lines speak of is content of the team.
LEMMA EmitCreatedStaysInTeam ==
    ASSUME NEW c, NEW a, NEW e, NEW t, emitCreated(c, a, e, t),
           userOf[c] \in subs[t], userOf' = userOf, subs' = subs,
           \A x \in (a.of \cup e.of) \cap (ChannelIds \cup ThreadIds) : teamOf(x)' = t
    PROVE  OutputStaysInTeam'
  <1> SUFFICES ASSUME NEW d \in Conns, NEW i \in DOMAIN out'[d],
                      NEW x \in out'[d][i].of \cap (ChannelIds \cup ThreadIds)
               PROVE  userOf'[d] \in subs'[teamOf(x)']
    BY DEF OutputStaysInTeam
  <1>1. userOf[d] \in subs[t] /\ out'[d][i] \in {a, e}
    BY EmitCreatedLines
  <1>2. x \in a.of \cup e.of
    BY <1>1
  <1>3. teamOf(x)' = t
    BY <1>2
  <1> QED BY <1>1, <1>3

\* No step appends a line about the content of a team to a connection whose
\* user is not subscribed to the team.
THEOREM ContentIsToldToMembersOnly == WorkspaceSpec => ContentStaysInTeam
  <1>1. ASSUME WorkspaceInv, [WorkspaceNext]_wsVars
        PROVE  [OutputStaysInTeam']_wsVars
    <2> SUFFICES ASSUME WorkspaceNext PROVE OutputStaysInTeam'
      BY <1>1
    <2>0. WorkspaceTypeOK /\ \A th \in ThreadIds : th \notin ChannelIds
      BY <1>1, DisjointIdsAssumption DEF WorkspaceInv
    <2>1. CASE SessionStep
      <3>1. out' \in OutputAbout(UserIds)
        BY <2>1, SessionsAbout DEF SessionStep
      <3> QED BY <3>1, OutputAboutMore, UsersAndTeamsStayInTeam
    <2>2. CASE MembersChanged
      BY <2>2, UsersAndTeamsStayInTeam DEF MembersChanged
    <2>3. ASSUME NEW c \in Conns, NEW ms, Answered(c, ms) PROVE OutputStaysInTeam'
      <3>1. out' = sendList(ms, c) /\ userOf' = userOf /\ subs' = subs
        BY <2>3 DEF Answered, answer, contentVars
      <3>2. \A x : teamOf(x)' = teamOf(x)
        BY <2>3 DEF Answered, answer, contentVars, teamOf
      <3>3. ASSUME NEW d \in Conns, NEW i \in DOMAIN out'[d] PROVE d = c /\ out'[d] = ms
        BY <3>1, <3>3 DEF sendList
      <3> QED BY <2>3, <3>1, <3>2, <3>3 DEF Answered, MayBeTold, OutputStaysInTeam
    <2>4. ASSUME NEW c \in Conns, NEW a, Selected(c, a) PROVE OutputStaysInTeam'
      <3>1. line("200 OK", {}) \in LinesAbout(UserIds \cup TeamIds) /\ Levels(a) \in Nat
        BY LineAbout DEF Kinds, Levels
      <3>2. ASSUME NEW S, NEW m \in S, NEW n \in Nat PROVE [i \in 1..n |-> m] \in Seq(S)
        OBVIOUS
      <3>3. Successes(Levels(a)) \in Seq(LinesAbout(UserIds \cup TeamIds))
        BY <3>1, <3>2 DEF Successes
      <3> QED BY <2>4, <3>3, SendListAbout, UsersAndTeamsStayInTeam DEF Selected
    <2>5. ASSUME NEW c \in Conns, NEW t, NEW n, NewTeam(c, t, n) PROVE OutputStaysInTeam'
      <3>1. out' \in OutputAbout(TeamIds)
        BY <2>5 DEF NewTeam
      <3> QED BY <3>1, OutputAboutMore, UsersAndTeamsStayInTeam
    <2>6. ASSUME NEW c \in Conns, NEW ch, NEW n, NewChannel(c, ch, n)
          PROVE  OutputStaysInTeam'
      <3> DEFINE a == line("201 CREATED CHANNEL", {ch})
                 e == line("EVENT CHANNEL_CREATED", {ch})
      <3>1. a.of \cup e.of = {ch}
        BY DEF line
      <3>2. teamOf(ch)' = ctx[c].team
        BY <2>0, <2>6 DEF NewChannel, WorkspaceTypeOK, teamOf
      <3>3. /\ userOf[c] \in subs[ctx[c].team] /\ userOf' = userOf /\ subs' = subs
            /\ emitCreated(c, a, e, ctx[c].team)
        BY <2>6 DEF NewChannel, InTeam, teamVars
      <3> HIDE DEF a, e
      <3> QED BY <3>1, <3>2, <3>3, EmitCreatedStaysInTeam
    <2>7. ASSUME NEW c \in Conns, NEW th, NEW n, NewThread(c, th, n)
          PROVE  OutputStaysInTeam'
      <3> DEFINE a == line("201 CREATED THREAD", {th, userOf[c]})
                 e == line("EVENT THREAD_CREATED", {th, userOf[c]})
      <3>1. a.of \cup e.of = {th, userOf[c]} /\ userOf[c] \notin ChannelIds \cup ThreadIds
        BY <2>7, DisjointIdsAssumption DEF line, NewThread, InTeam
      <3>2. teamOf(th)' = ctx[c].team
        BY <2>0, <2>7 DEF NewThread, WorkspaceTypeOK, teamOf, channelVars
      <3>3. /\ userOf[c] \in subs[ctx[c].team] /\ userOf' = userOf /\ subs' = subs
            /\ emitCreated(c, a, e, ctx[c].team)
        BY <2>7 DEF NewThread, InTeam, teamVars
      <3> HIDE DEF a, e
      <3> QED BY <3>1, <3>2, <3>3, EmitCreatedStaysInTeam
    <2>8. ASSUME NEW c \in Conns, NewReply(c) PROVE OutputStaysInTeam'
      <3> DEFINE a == line("201 CREATED REPLY", {ctx[c].thread, userOf[c]})
                 e == line("EVENT REPLY_CREATED", {ctx[c].team, ctx[c].thread, userOf[c]})
      <3>1. /\ a.of \cup e.of = {ctx[c].team, ctx[c].thread, userOf[c]}
            /\ userOf[c] \notin ChannelIds \cup ThreadIds
            /\ ctx[c].team \notin ChannelIds \cup ThreadIds
        BY <2>8, DisjointIdsAssumption DEF line, NewReply, InTeam
      <3>2. \A x : x = ctx[c].thread => teamOf(x)' = ctx[c].team
        BY <2>0, <2>8 DEF NewReply, teamOf, channelVars, threadVars
      <3>3. /\ userOf[c] \in subs[ctx[c].team] /\ userOf' = userOf /\ subs' = subs
            /\ emitCreated(c, a, e, ctx[c].team)
        BY <2>8 DEF NewReply, InTeam, teamVars
      <3> HIDE DEF a, e
      <3> QED BY <3>1, <3>2, <3>3, EmitCreatedStaysInTeam
    <2> QED BY <1>1, <2>1, <2>2, <2>3, <2>4, <2>5, <2>6, <2>7, <2>8, StepShape
  <1> QED BY <1>1, WorkspaceInvariant, PTL DEF WorkspaceSpec, ContentStaysInTeam

-------------------------------------------------------------------------------
(* Only members write *)

\* A step that leaves channels, threads and replies alone changes no content.
LEMMA ContentUnchanged ==
    ASSUME UNCHANGED << chanTeam, thrChan, replies >>, NEW t
    PROVE  Content(t)' = Content(t)
  BY DEF Content

\* The first line of an answer that may be followed by an event.
LEMMA FirstLine ==
    ASSUME NEW a, NEW e, NEW y, y = << e >> \/ y = << >>
    PROVE  1 \in DOMAIN (<< a >> \o y) /\ (<< a >> \o y)[1] = a
  <1>1. CASE y = << e >>
    BY <1>1
  <1>2. CASE y = << >>
    BY <1>2
  <1> QED BY <1>1, <1>2

\* Who is answered that something was created has created it.
LEMMA EmitCreatedAnswers ==
    ASSUME NEW c \in Conns, NEW k, NEW ids, NEW e, NEW t, emitCreated(c, line(k, ids), e, t),
           k \in {"201 CREATED CHANNEL", "201 CREATED THREAD", "201 CREATED REPLY"}
    PROVE  HasCreated(c)'
  <1> DEFINE a == line(k, ids)
             T == {x \in clients : userOf[x] # None /\ userOf[x] \in subs[t]}
             y == IF c \in T THEN << e >> ELSE << >>
  <1>1. out'[c] = << a >> \o y
    BY DEF emitCreated, Then, sendToClient, notifySubscribers, broadcast
  <1>2. a.kind = k
    BY DEF line
  <1>3. y = << e >> \/ y = << >>
    OBVIOUS
  <1> HIDE DEF a, T, y
  <1>4. 1 \in DOMAIN out'[c] /\ out'[c][1] = a
    BY <1>1, <1>3, FirstLine
  <1> QED BY <1>2, <1>4 DEF HasCreated

\* The content of a team changes only by a /create of a client whose context
\* is in the team and whose user is subscribed to it at that moment.
THEOREM OnlyMembersChangeContent == WorkspaceSpec => OnlyMembersWrite
  <1> DEFINE Member(t) == \E c \in clients :
                             userOf[c] \in subs[t] /\ ctx[c].team = t /\ HasCreated(c)'
  <1>1. ASSUME WorkspaceInv, [WorkspaceNext]_wsVars
        PROVE  [\A t \in TeamIds : Content(t)' # Content(t) => Member(t)]_wsVars
    <2> SUFFICES ASSUME WorkspaceNext, NEW t \in TeamIds, ~ Member(t)
                 PROVE  Content(t)' = Content(t)
      BY <1>1
    <2>0. WorkspaceTypeOK /\ HierarchyWellFormed
      BY <1>1 DEF WorkspaceInv, ContextWellFormed
    <2>1. CASE SessionStep
      BY <2>1, ContentUnchanged DEF SessionStep, contentVars
    <2>2. CASE MembersChanged
      BY <2>2, ContentUnchanged DEF MembersChanged, NewMembers, channelVars, threadVars
    <2>3. ASSUME NEW c \in Conns, NEW ms, Answered(c, ms) PROVE Content(t)' = Content(t)
      BY <2>3, ContentUnchanged DEF Answered, answer, contentVars
    <2>4. ASSUME NEW c \in Conns, NEW a, Selected(c, a) PROVE Content(t)' = Content(t)
      BY <2>4, ContentUnchanged DEF Selected, contentVars
    <2>5. ASSUME NEW c \in Conns, NEW s, NEW n, NewTeam(c, s, n)
          PROVE  Content(t)' = Content(t)
      BY <2>5, ContentUnchanged DEF NewTeam, channelVars, threadVars
    <2>6. ASSUME NEW c \in Conns, NEW ch, NEW n, NewChannel(c, ch, n)
          PROVE  Content(t)' = Content(t)
      <3>0. HasCreated(c)'
        BY <2>6, EmitCreatedAnswers DEF NewChannel
      <3>1. ctx[c].team # t /\ t # None
        BY <2>6, <3>0, IdsAssumption DEF NewChannel, InTeam
      <3>2. \A x \in ChannelIds : chanTeam'[x] = t <=> chanTeam[x] = t
        BY <2>0, <2>6, <3>1 DEF NewChannel, WorkspaceTypeOK
      <3>3. thrChan' = thrChan /\ replies' = replies
        BY <2>6 DEF NewChannel, threadVars
      <3>4. \A th \in ThreadIds : thrChan[th] # None => thrChan[th] \in ChannelIds
        BY <2>0 DEF WorkspaceTypeOK
      <3> QED BY <3>2, <3>3, <3>4 DEF Content
    <2>7. ASSUME NEW c \in Conns, NEW th, NEW n, NewThread(c, th, n)
          PROVE  Content(t)' = Content(t)
      <3>0. HasCreated(c)'
        BY <2>7, EmitCreatedAnswers DEF NewThread
      <3>1. ctx[c].team # t
        BY <2>7, <3>0 DEF NewThread, InTeam
      <3>2. \A x \in ThreadIds : (thrChan'[x] # None /\ chanTeam[thrChan'[x]] = t)
                                 <=> (thrChan[x] # None /\ chanTeam[thrChan[x]] = t)
        BY <2>0, <2>7, <3>1 DEF NewThread, WorkspaceTypeOK
      <3>3. chanTeam' = chanTeam /\ replies' = replies
        BY <2>7 DEF NewThread, channelVars
      <3> QED BY <3>2, <3>3 DEF Content
    <2>8. ASSUME NEW c \in Conns, NewReply(c) PROVE Content(t)' = Content(t)
      <3>0. HasCreated(c)'
        BY <2>8, EmitCreatedAnswers DEF NewReply
      <3>1. chanTeam[thrChan[ctx[c].thread]] # t
        BY <2>8, <3>0 DEF NewReply, InTeam
      <3>2. chanTeam' = chanTeam /\ thrChan' = thrChan
        BY <2>8 DEF NewReply, channelVars, threadVars
      <3>3. \A x \in ThreadIds : x # ctx[c].thread => replies'[x] = replies[x]
        BY <2>0, <2>8 DEF NewReply, WorkspaceTypeOK
      <3> QED BY <3>1, <3>2, <3>3 DEF Content
    <2> QED BY <1>1, <2>1, <2>2, <2>3, <2>4, <2>5, <2>6, <2>7, <2>8, StepShape
  <1> QED BY <1>1, WorkspaceInvariant, PTL DEF WorkspaceSpec, OnlyMembersWrite

-------------------------------------------------------------------------------
(* Events reach the subscribers *)

\* The connections with exactly one line of the kind about x in an output.
ToldOnce(o, kind, x) ==
    {d \in Conns : Cardinality({i \in DOMAIN o[d] : o[d][i].kind = kind /\ x \in o[d][i].of}) = 1}

\* The places of the event in what an answer a and an event e make together.
LEMMA PlacesOfEvent ==
    ASSUME NEW a, NEW e, NEW kind, NEW x, a.kind # kind, e.kind = kind, x \in e.of
    PROVE  LET I(s) == {i \in DOMAIN s : s[i].kind = kind /\ x \in s[i].of}
           IN  /\ I(<< a >> \o << e >>) = {2} /\ I(<< >> \o << e >>) = {1}
               /\ I(<< a >> \o << >>) = {} /\ I(<< >> \o << >>) = {}
  <1> DEFINE I(s) == {i \in DOMAIN s : s[i].kind = kind /\ x \in s[i].of}
  <1>1. I(<< a >> \o << e >>) = {2}
    OBVIOUS
  <1>2. I(<< >> \o << e >>) = {1}
    OBVIOUS
  <1>3. I(<< a >> \o << >>) = {}
    OBVIOUS
  <1>4. I(<< >> \o << >>) = {}
    OBVIOUS
  <1> QED BY <1>1, <1>2, <1>3, <1>4

\* emitCreated sends one event about x to each connection of a subscriber and
\* none to the others, the answer notwithstanding.
LEMMA EmitCreatedNotifies ==
    ASSUME WorkspaceTypeOK, NEW c, NEW k, NEW ids, NEW kind, NEW of, NEW t \in TeamIds,
           NEW x \in of, k # kind, emitCreated(c, line(k, ids), line(kind, of), t)
    PROVE  \A d \in Conns : d \in ToldOnce(out', kind, x)
                             <=> d \in clients /\ userOf[d] \in subs[t]
  <1> DEFINE a == line(k, ids)
             e == line(kind, of)
             T == {d \in clients : userOf[d] # None /\ userOf[d] \in subs[t]}
             I(s) == {i \in DOMAIN s : s[i].kind = kind /\ x \in s[i].of}
  <1>1. a.kind # kind /\ e.kind = kind /\ x \in e.of
    BY DEF line
  <1>2. T = {d \in clients : userOf[d] \in subs[t]} /\ T \subseteq Conns
    BY NoneAssumption DEF WorkspaceTypeOK, SessionsTypeOK
  <1>3. \A d \in Conns : out'[d] = (IF d = c THEN << a >> ELSE << >>)
                                   \o (IF d \in T THEN << e >> ELSE << >>)
    BY DEF emitCreated, Then, sendToClient, notifySubscribers, broadcast
  <1>4. ToldOnce(out', kind, x) = {d \in Conns : Cardinality(I(out'[d])) = 1}
    BY DEF ToldOnce
  <1> HIDE DEF a, e, T
  <1>5. /\ I(<< a >> \o << e >>) = {2} /\ I(<< >> \o << e >>) = {1}
        /\ I(<< a >> \o << >>) = {} /\ I(<< >> \o << >>) = {}
    BY <1>1, PlacesOfEvent
  <1>6. Cardinality({}) = 0 /\ Cardinality({1}) = 1 /\ Cardinality({2}) = 1
    BY FS_EmptySet, FS_Singleton
  <1> HIDE DEF I
  <1>7. ASSUME NEW d \in Conns PROVE Cardinality(I(out'[d])) = 1 <=> d \in T
    <2>0. 0 # 1
      OBVIOUS
    <2>1. CASE d = c /\ d \in T
      BY <1>3, <1>5, <1>6, <2>1, Zenon
    <2>2. CASE d = c /\ d \notin T
      BY <1>3, <1>5, <1>6, <2>0, <2>2, Zenon
    <2>3. CASE d # c /\ d \in T
      BY <1>3, <1>5, <1>6, <2>3, Zenon
    <2>4. CASE d # c /\ d \notin T
      BY <1>3, <1>5, <1>6, <2>0, <2>4, Zenon
    <2> QED BY <2>1, <2>2, <2>3, <2>4
  <1> QED BY <1>2, <1>4, <1>7

\* Every new channel, thread and reply is announced exactly once to each
\* connection of a subscriber of its team, and to nobody else.
THEOREM NewContentIsAnnounced == WorkspaceSpec => EventsReachSubscribers
  <1> DEFINE
        A == \A ch \in ChannelIds : chanTeam'[ch] # chanTeam[ch] =>
                Notified("EVENT CHANNEL_CREATED", ch)' = Members(teamOf(ch))'
        B == \A th \in ThreadIds : thrChan'[th] # thrChan[th] =>
                Notified("EVENT THREAD_CREATED", th)' = Members(teamOf(th))'
        C == \A th \in ThreadIds : replies'[th] # replies[th] =>
                Notified("EVENT REPLY_CREATED", th)' = Members(teamOf(th))'
  <1>1. ASSUME WorkspaceInv, [WorkspaceNext]_wsVars
        PROVE  [A /\ B /\ C]_wsVars
    <2> SUFFICES ASSUME WorkspaceNext PROVE A /\ B /\ C
      BY <1>1
    <2>0. /\ WorkspaceTypeOK /\ \A th \in ThreadIds : th \notin ChannelIds
      BY <1>1, DisjointIdsAssumption DEF WorkspaceInv
    <2>1. CASE UNCHANGED << chanTeam, thrChan, replies >>
      BY <2>1
    <2>2. CASE SessionStep \/ MembersChanged
      BY <2>1, <2>2 DEF SessionStep, contentVars, MembersChanged, NewMembers, channelVars,
                        threadVars
    <2>3. ASSUME NEW c \in Conns, NEW x, NEW n,
                 Answered(c, x) \/ Selected(c, x) \/ NewTeam(c, x, n)
          PROVE  A /\ B /\ C
      BY <2>1, <2>3 DEF Answered, answer, Selected, contentVars, NewTeam, channelVars, threadVars
    <2>4. ASSUME NEW c \in Conns, NEW ch, NEW n, NewChannel(c, ch, n) PROVE A /\ B /\ C
      <3>1. /\ ctx[c].team \in TeamIds /\ thrChan' = thrChan /\ replies' = replies
            /\ clients' = clients /\ userOf' = userOf /\ subs' = subs
        BY <2>4 DEF NewChannel, InTeam, teamVars, threadVars
      <3>2. \A x \in ChannelIds : chanTeam'[x] # chanTeam[x] => x = ch
        BY <2>0, <2>4 DEF NewChannel, WorkspaceTypeOK
      <3>3. teamOf(ch)' = ctx[c].team
        BY <2>0, <2>4 DEF NewChannel, WorkspaceTypeOK, teamOf
      <3>4. \A d \in Conns : d \in ToldOnce(out', "EVENT CHANNEL_CREATED", ch)
                              <=> d \in clients /\ userOf[d] \in subs[ctx[c].team]
        <4>1. PICK k, kind, ids, of, t, x :
                 /\ k = "201 CREATED CHANNEL" /\ kind = "EVENT CHANNEL_CREATED"
                 /\ ids = {ch} /\ of = {ch}
                 /\ t = ctx[c].team /\ x = ch
          OBVIOUS
        <4>2. emitCreated(c, line(k, ids), line(kind, of), t)
          BY <2>4, <4>1 DEF NewChannel
        <4>3. k # kind /\ x \in of /\ t \in TeamIds
          BY <3>1, <4>1
        <4>4. \A d \in Conns : d \in ToldOnce(out', kind, x) <=> d \in clients /\ userOf[d] \in subs[t]
          BY <2>0, <4>2, <4>3, EmitCreatedNotifies, Zenon
        <4> QED BY <4>1, <4>4
      <3>5. \A t : t = ctx[c].team => Notified("EVENT CHANNEL_CREATED", ch)' = Members(t)'
        BY <2>0, <3>1, <3>4 DEF ToldOnce, Notified, Members, WorkspaceTypeOK, SessionsTypeOK
      <3> QED BY <3>1, <3>2, <3>3, <3>5 DEF Members
    <2>5. ASSUME NEW c \in Conns, NEW th, NEW n, NewThread(c, th, n) PROVE A /\ B /\ C
      <3>1. /\ ctx[c].team \in TeamIds /\ chanTeam' = chanTeam /\ replies' = replies
            /\ clients' = clients /\ userOf' = userOf /\ subs' = subs
        BY <2>5 DEF NewThread, InTeam, teamVars, channelVars
      <3>2. \A x \in ThreadIds : thrChan'[x] # thrChan[x] => x = th
        BY <2>0, <2>5 DEF NewThread, WorkspaceTypeOK
      <3>3. teamOf(th)' = ctx[c].team
        BY <2>0, <2>5 DEF NewThread, WorkspaceTypeOK, teamOf, channelVars
      <3>4. \A d \in Conns : d \in ToldOnce(out', "EVENT THREAD_CREATED", th)
                              <=> d \in clients /\ userOf[d] \in subs[ctx[c].team]
        <4>1. PICK k, kind, ids, of, t, x :
                 /\ k = "201 CREATED THREAD" /\ kind = "EVENT THREAD_CREATED"
                 /\ ids = {th, userOf[c]} /\ of = {th, userOf[c]}
                 /\ t = ctx[c].team /\ x = th
          OBVIOUS
        <4>2. emitCreated(c, line(k, ids), line(kind, of), t)
          BY <2>5, <4>1 DEF NewThread
        <4>3. k # kind /\ x \in of /\ t \in TeamIds
          BY <3>1, <4>1
        <4>4. \A d \in Conns : d \in ToldOnce(out', kind, x) <=> d \in clients /\ userOf[d] \in subs[t]
          BY <2>0, <4>2, <4>3, EmitCreatedNotifies, Zenon
        <4> QED BY <4>1, <4>4
      <3>5. \A t : t = ctx[c].team => Notified("EVENT THREAD_CREATED", th)' = Members(t)'
        BY <2>0, <3>1, <3>4 DEF ToldOnce, Notified, Members, WorkspaceTypeOK, SessionsTypeOK
      <3> QED BY <3>1, <3>2, <3>3, <3>5 DEF Members
    <2>6. ASSUME NEW c \in Conns, NewReply(c) PROVE A /\ B /\ C
      <3>1. /\ ctx[c].team \in TeamIds /\ chanTeam' = chanTeam /\ thrChan' = thrChan
            /\ clients' = clients /\ userOf' = userOf /\ subs' = subs
        BY <2>6 DEF NewReply, InTeam, teamVars, channelVars, threadVars
      <3>2. \A x \in ThreadIds : replies'[x] # replies[x] => x = ctx[c].thread
        BY <2>0, <2>6 DEF NewReply, WorkspaceTypeOK
      <3>3. \A x : x = ctx[c].thread => teamOf(x)' = ctx[c].team
        BY <2>0, <2>6 DEF NewReply, teamOf, channelVars, threadVars
      <3>4. \A d \in Conns : d \in ToldOnce(out', "EVENT REPLY_CREATED", ctx[c].thread)
                              <=> d \in clients /\ userOf[d] \in subs[ctx[c].team]
        <4>1. PICK k, kind, ids, of, t, x :
                 /\ k = "201 CREATED REPLY" /\ kind = "EVENT REPLY_CREATED"
                 /\ ids = {ctx[c].thread, userOf[c]} /\ of = {ctx[c].team, ctx[c].thread, userOf[c]}
                 /\ t = ctx[c].team /\ x = ctx[c].thread
          OBVIOUS
        <4>2. emitCreated(c, line(k, ids), line(kind, of), t)
          BY <2>6, <4>1 DEF NewReply
        <4>3. k # kind /\ x \in of /\ t \in TeamIds
          BY <3>1, <4>1
        <4>4. \A d \in Conns : d \in ToldOnce(out', kind, x) <=> d \in clients /\ userOf[d] \in subs[t]
          BY <2>0, <4>2, <4>3, EmitCreatedNotifies, Zenon
        <4> QED BY <4>1, <4>4
      <3>5. \A t, x : t = ctx[c].team /\ x = ctx[c].thread
                      => Notified("EVENT REPLY_CREATED", x)' = Members(t)'
        <4> TAKE t, x
        <4> HAVE t = ctx[c].team /\ x = ctx[c].thread
        <4>1. \A d \in Conns : d \in ToldOnce(out', "EVENT REPLY_CREATED", x)
                              <=> d \in clients /\ userOf[d] \in subs[t]
          BY <3>4
        <4>2. Notified("EVENT REPLY_CREATED", x)' = ToldOnce(out', "EVENT REPLY_CREATED", x)
          BY DEF Notified, ToldOnce
        <4>3. /\ Members(t)' = {d \in clients : userOf[d] \in subs[t]}
              /\ clients \subseteq Conns
          BY <2>0, <3>1 DEF Members, WorkspaceTypeOK, SessionsTypeOK
        <4>4. ToldOnce(out', "EVENT REPLY_CREATED", x) \subseteq Conns
          BY DEF ToldOnce
        <4> QED BY <4>1, <4>2, <4>3, <4>4
      <3> QED BY <3>1, <3>2, <3>3, <3>5 DEF Members
    <2> QED BY <1>1, <2>2, <2>3, <2>4, <2>5, <2>6, StepShape
  <1> QED BY <1>1, WorkspaceInvariant, PTL DEF WorkspaceSpec, EventsReachSubscribers
===============================================================================
