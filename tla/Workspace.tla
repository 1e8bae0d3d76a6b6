------------------------------- MODULE Workspace ------------------------------
(***************************************************************************)
(* Teams, channels, threads and replies of myteams_server, the context     *)
(* each client navigates with /use, and the commands that read and write   *)
(* them. It extends Sessions, whose steps it composes with its own.        *)
(*                                                                         *)
(*   teamName   Database::_teams: the name of each team, None: no such team*)
(*   subs       Team::_subscriberUuids                                     *)
(*   chanTeam, chanName            the team and the name of each channel   *)
(*   thrChan, thrTitle, thrAuthor  the channel, title and author of each   *)
(*                                 thread                                  *)
(*   replies    the authors of a thread's replies, oldest first            *)
(*   ctx        Client::_context of each connection                        *)
(*                                                                         *)
(* Descriptions, bodies and timestamps are left out. An argument of /create*)
(* is a legal name, None (too few arguments) or Invalid (a field that is   *)
(* empty or too long).                                                     *)
(***************************************************************************)
EXTENDS Sessions

CONSTANTS
    TeamIds, ChannelIds, ThreadIds,   \* the uuids that generateUuid may return
    MaxReplies                        \* bound on the replies of one thread

ASSUME IdsAssumption ==
    /\ None \notin TeamIds \cup ChannelIds \cup ThreadIds
    /\ Invalid \notin TeamIds \cup ChannelIds \cup ThreadIds
    /\ TeamIds \cup ChannelIds \cup ThreadIds \subseteq Subjects
\* uuid_generate never returns an id twice, whatever it is an id of.
ASSUME DisjointIdsAssumption ==
    /\ UserIds \cap (TeamIds \cup ChannelIds \cup ThreadIds) = {}
    /\ TeamIds \cap (ChannelIds \cup ThreadIds) = {}
    /\ ChannelIds \cap ThreadIds = {}
ASSUME MaxRepliesAssumption == MaxReplies \in Nat

VARIABLES teamName, subs, chanTeam, chanName, thrChan, thrTitle, thrAuthor,
          replies, ctx

teamVars == << teamName, subs >>
channelVars == << chanTeam, chanName >>
threadVars == << thrChan, thrTitle, thrAuthor >>
contentVars == << teamName, subs, chanTeam, chanName, thrChan, thrTitle,
                  thrAuthor, replies >>
wsVars == << clients, userOf, name, count, out, teamName, subs, chanTeam,
             chanName, thrChan, thrTitle, thrAuthor, replies, ctx >>

-------------------------------------------------------------------------------
(* Database lookups, as the sets of their results *)

findTeam(t) == {x \in TeamIds : x = t /\ teamName[x] # None}

findChannel(t, ch) == {x \in ChannelIds : x = ch /\ chanTeam[x] \in findTeam(t)}

findThread(ch, th) ==
    {x \in ThreadIds : x = th /\ thrChan[x] # None /\ thrChan[x] = ch}

isUserSubscribed(t, u) == u \in subs[t]

\* Regression variant: team events are broadcast.
notifyEverybody(m, members) == broadcast(m, clients)

\* Regression variant: only the clients that have selected a team are notified.
notifyViewers(m, members) ==
    broadcast(m, {d \in clients : userOf[d] \in members /\ ctx[d].team # None})

\* Server::notifySubscribers: append m to every connection on which one of the
\* members of the team is logged in.
notifySubscribers(m, members) ==
    broadcast(m, {d \in clients : userOf[d] # None /\ userOf[d] \in members})

-------------------------------------------------------------------------------
(* Contexts *)

Contexts == [team : TeamIds \cup {None}, channel : ChannelIds \cup {None},
             thread : ThreadIds \cup {None}]

NoContext == [team |-> None, channel |-> None, thread |-> None]

\* The arguments of /use are positional: the ids that are given are a prefix.
UseArgs == {a \in Contexts : /\ a.channel # None => a.team # None
                             /\ a.thread # None => a.channel # None}

OK == << line("200 OK", {}) >>

\* A command that only answers c with the lines ms.
answer(c, ms) ==
    /\ out' = sendList(ms, c)
    /\ UNCHANGED << clients, userOf, name, count, ctx >>
    /\ UNCHANGED contentVars

deny(c, status) == answer(c, << line(status, {}) >>)

\* The answers of the three stages of /use; an argument that is not given
\* is not answered, except that /use alone is a success.
validateAndSetTeam(c, a) ==
    IF a.team = None THEN OK
    ELSE IF findTeam(a.team) = {} THEN << line("404 NOT_FOUND TEAM", {}) >>
    ELSE IF ~ isUserSubscribed(a.team, userOf[c])
         THEN << line("403 FORBIDDEN", {}) >>
    ELSE OK

validateAndSetChannel(a) ==
    IF a.channel = None THEN << >>
    ELSE IF findChannel(a.team, a.channel) = {}
         THEN << line("404 NOT_FOUND CHANNEL", {}) >>
    ELSE OK

\* Regression variant: the thread is looked up in every channel.
validateAndSetAnyThread(a) ==
    IF a.thread = None THEN << >>
    ELSE IF thrChan[a.thread] = None
         THEN << line("404 NOT_FOUND THREAD", {}) >>
    ELSE OK

validateAndSetThread(a) ==
    IF a.thread = None THEN << >>
    ELSE IF findThread(a.channel, a.thread) = {}
         THEN << line("404 NOT_FOUND THREAD", {}) >>
    ELSE OK

\* Regression variant: each stage sets its part of the context at once.
UseByStages(c, a) ==
    /\ c \in clients
    /\ IF userOf[c] = None THEN deny(c, "401 UNAUTHORIZED")
       ELSE IF a = Invalid THEN deny(c, "400 BAD_REQUEST")
       ELSE LET team    == validateAndSetTeam(c, a)
                channel == validateAndSetChannel(a)
                thread  == validateAndSetThread(a)
                found   == IF channel \notin {<< >>, OK}
                           THEN [a EXCEPT !.channel = None, !.thread = None]
                           ELSE IF thread \notin {<< >>, OK} THEN [a EXCEPT !.thread = None]
                           ELSE a
            IN  IF team # OK THEN answer(c, team)
                ELSE /\ ctx' = [ctx EXCEPT ![c] = found]
                     /\ out' = sendList(team \o channel
                                       \o (IF channel \in {<< >>, OK} THEN thread ELSE << >>), c)
                     /\ UNCHANGED sessionVars
                     /\ UNCHANGED contentVars

\* Use::execute: the stages answer one after the other and the first that
\* fails ends the command; the context is replaced only when all succeed.
Use(c, a) ==
    /\ c \in clients
    /\ IF userOf[c] = None THEN deny(c, "401 UNAUTHORIZED")
       ELSE IF a = Invalid THEN deny(c, "400 BAD_REQUEST")
       ELSE LET team    == validateAndSetTeam(c, a)
                channel == validateAndSetChannel(a)
                thread  == validateAndSetThread(a)
            IN  IF team # OK THEN answer(c, team)
                ELSE IF channel \notin {<< >>, OK} THEN answer(c, team \o channel)
                ELSE IF thread \notin {<< >>, OK}
                     THEN answer(c, team \o channel \o thread)
                ELSE /\ ctx' = [ctx EXCEPT ![c] = a]
                     /\ out' = sendList(team \o channel \o thread, c)
                     /\ UNCHANGED sessionVars
                     /\ UNCHANGED contentVars

-------------------------------------------------------------------------------
(* Subscriptions. The argument is a team id, None (not given) or Invalid   *)
(* (the empty string).                                                     *)

\* Subscribe::execute. The subscriber list handed to notifySubscribers is the
\* one that already holds the new member.
Subscribe(c, arg) ==
    /\ c \in clients
    /\ IF userOf[c] = None THEN deny(c, "401 UNAUTHORIZED")
       ELSE IF arg \in {None, Invalid} THEN deny(c, "400 BAD_REQUEST")
       ELSE IF findTeam(arg) = {} THEN deny(c, "404 NOT_FOUND TEAM")
       ELSE IF isUserSubscribed(arg, userOf[c])
            THEN answer(c, << line("200 SUBSCRIBE", {userOf[c], arg}) >>)
       ELSE LET members == subs[arg] \cup {userOf[c]}
            IN  /\ subs' = [subs EXCEPT ![arg] = members]
                /\ out' = Then(notifySubscribers(
                                 line("user_subscribed", {arg, userOf[c]}), members),
                               sendToClient(
                                 line("200 SUBSCRIBE", {userOf[c], arg}), c))
                /\ UNCHANGED << clients, userOf, name, count, ctx, teamName >>
                /\ UNCHANGED << channelVars, threadVars, replies >>

\* Unsubscribe::execute. The context is left as it is.
Unsubscribe(c, arg) ==
    /\ c \in clients
    /\ IF userOf[c] = None THEN deny(c, "401 UNAUTHORIZED")
       ELSE IF arg \in {None, Invalid} THEN deny(c, "400 BAD_REQUEST")
       ELSE IF findTeam(arg) = {} THEN deny(c, "404 NOT_FOUND TEAM")
       ELSE IF ~ isUserSubscribed(arg, userOf[c]) THEN deny(c, "403 FORBIDDEN")
       ELSE LET members == subs[arg] \ {userOf[c]}
            IN  /\ subs' = [subs EXCEPT ![arg] = members]
                /\ out' = Then(notifySubscribers(
                                 line("user_unsubscribed", {arg, userOf[c]}), members),
                               sendToClient(
                                 line("200 UNSUBSCRIBE", {userOf[c], arg}), c))
                /\ UNCHANGED << clients, userOf, name, count, ctx, teamName >>
                /\ UNCHANGED << channelVars, threadVars, replies >>

\* Subscribed::execute: None lists the user's teams, a team its members.
\* The members of a team are listed for everybody who is logged in.
Subscribed(c, arg) ==
    /\ c \in clients
    /\ IF userOf[c] = None THEN deny(c, "401 UNAUTHORIZED")
       ELSE IF arg = None
            THEN answer(c, list(<< line("210 TEAM",
                     {t \in TeamIds : /\ teamName[t] # None
                                      /\ isUserSubscribed(t, userOf[c])}) >>))
       ELSE IF arg = Invalid THEN deny(c, "400 BAD_REQUEST")
       ELSE IF findTeam(arg) = {} THEN deny(c, "404 NOT_FOUND TEAM")
       ELSE answer(c, list(userLines(subs[arg] \cap Registered)))

-------------------------------------------------------------------------------
(* /create. Each operator is one of the four handlers; Create dispatches on *)
(* the context.                                                             *)

\* Regression variant: the subscription was checked when /use was accepted.
accessibleOnceUsed(c) == findTeam(ctx[c].team) # {}

\* The team of the context must still exist and the user must still be
\* subscribed to it: findAccessibleTeam, and the first checks of List and Info.
accessible(c) ==
    \E t \in findTeam(ctx[c].team) : isUserSubscribed(t, userOf[c])

\* The answer when it is not; notFound is how the handler says that there is no
\* such team.
denyTeam(c, notFound) ==
    deny(c, IF findTeam(ctx[c].team) = {} THEN notFound ELSE "403 FORBIDDEN")

\* The output of a creation inside team t: first the answer, then the event.
emitCreated(c, answered, event, t) ==
    out' = Then(sendToClient(answered, c), notifySubscribers(event, subs[t]))

\* The duplicate checks of the handlers.
teamNameTaken(n) == \E t \in TeamIds : teamName[t] = n

\* Regression variant: the name is compared within every channel of the server
\* but the ones of this team.
channelNameTakenElsewhere(t, n) ==
    \E ch \in ChannelIds : chanTeam[ch] # t /\ chanName[ch] = n

channelNameTaken(t, n) == \E ch \in ChannelIds : chanTeam[ch] = t /\ chanName[ch] = n

threadTitleTaken(ch, n) == \E th \in ThreadIds : thrChan[th] = ch /\ thrTitle[th] = n

\* Create::executeTeam. The creator becomes the first subscriber; the event
\* goes to every connection.
createTeam(c, arg) ==
    IF arg \in {None, Invalid} THEN deny(c, "400 BAD_REQUEST")
    ELSE IF teamNameTaken(arg) THEN deny(c, "409 ALREADY_EXISTS")
    ELSE \E t \in {x \in TeamIds : teamName[x] = None} :
            /\ teamName' = [teamName EXCEPT ![t] = arg]
            /\ subs' = [subs EXCEPT ![t] = {userOf[c]}]
            /\ out' = Then(sendToClient(line("201 CREATED TEAM", {t}), c),
                           broadcast(line("EVENT TEAM_CREATED", {t}), clients))
            /\ UNCHANGED << clients, userOf, name, count, ctx >>
            /\ UNCHANGED << channelVars, threadVars, replies >>

\* Create::executeChannel.
createChannel(c, arg) ==
    IF ~ accessible(c) THEN denyTeam(c, "404 NOT_FOUND")
    ELSE IF arg \in {None, Invalid} THEN deny(c, "400 BAD_REQUEST")
    ELSE IF channelNameTaken(ctx[c].team, arg) THEN deny(c, "409 ALREADY_EXISTS")
    ELSE \E ch \in {x \in ChannelIds : chanTeam[x] = None} :
            /\ chanTeam' = [chanTeam EXCEPT ![ch] = ctx[c].team]
            /\ chanName' = [chanName EXCEPT ![ch] = arg]
            /\ emitCreated(c, line("201 CREATED CHANNEL", {ch}),
                           line("EVENT CHANNEL_CREATED", {ch}), ctx[c].team)
            /\ UNCHANGED << clients, userOf, name, count, ctx, teamVars >>
            /\ UNCHANGED << threadVars, replies >>

\* Create::executeThread.
createThread(c, arg) ==
    IF ~ accessible(c) THEN denyTeam(c, "404 NOT_FOUND")
    ELSE IF findChannel(ctx[c].team, ctx[c].channel) = {} THEN deny(c, "404 NOT_FOUND")
    ELSE IF arg \in {None, Invalid} THEN deny(c, "400 BAD_REQUEST")
    ELSE IF threadTitleTaken(ctx[c].channel, arg) THEN deny(c, "409 ALREADY_EXISTS")
    ELSE \E th \in {x \in ThreadIds : thrChan[x] = None} :
            /\ thrChan' = [thrChan EXCEPT ![th] = ctx[c].channel]
            /\ thrTitle' = [thrTitle EXCEPT ![th] = arg]
            /\ thrAuthor' = [thrAuthor EXCEPT ![th] = userOf[c]]
            /\ emitCreated(c, line("201 CREATED THREAD", {th, userOf[c]}),
                           line("EVENT THREAD_CREATED", {th, userOf[c]}), ctx[c].team)
            /\ UNCHANGED << clients, userOf, name, count, ctx, teamVars >>
            /\ UNCHANGED << channelVars, replies >>

\* Create::executeReply. (The model stops adding replies at MaxReplies.)
createReply(c, arg) ==
    IF ~ accessible(c) THEN denyTeam(c, "404 NOT_FOUND")
    ELSE IF findChannel(ctx[c].team, ctx[c].channel) = {} THEN deny(c, "404 NOT_FOUND")
    ELSE IF findThread(ctx[c].channel, ctx[c].thread) = {} THEN deny(c, "404 NOT_FOUND")
    ELSE IF arg \in {None, Invalid} THEN deny(c, "400 BAD_REQUEST")
    ELSE /\ Len(replies[ctx[c].thread]) < MaxReplies
         /\ replies' = [replies EXCEPT ![ctx[c].thread] = Append(@, userOf[c])]
         /\ emitCreated(c, line("201 CREATED REPLY", {ctx[c].thread, userOf[c]}),
                        line("EVENT REPLY_CREATED",
                             {ctx[c].team, ctx[c].thread, userOf[c]}), ctx[c].team)
         /\ UNCHANGED << clients, userOf, name, count, ctx, teamVars >>
         /\ UNCHANGED << channelVars, threadVars >>

\* Regression variant: the login check is missing.
CreateUnauthenticated(c, arg) ==
    /\ c \in clients
    /\ ctx[c].team = None
    /\ createTeam(c, arg)

\* Create::execute.
Create(c, arg) ==
    /\ c \in clients
    /\ IF userOf[c] = None THEN deny(c, "401 UNAUTHORIZED")
       ELSE IF ctx[c].team = None THEN createTeam(c, arg)
       ELSE IF ctx[c].channel = None THEN createChannel(c, arg)
       ELSE IF ctx[c].thread = None THEN createThread(c, arg)
       ELSE createReply(c, arg)

-------------------------------------------------------------------------------
(* /list and /info *)

\* What List::execute shows at the level of the context, as one 210 line that
\* speaks of all the items; the teams are shown to everybody.
listed(c) ==
    IF ctx[c].team = None
    THEN line("210 TEAM", {t \in TeamIds : teamName[t] # None})
    ELSE IF ctx[c].channel = None
    THEN line("210 CHANNEL", {ch \in ChannelIds : chanTeam[ch] = ctx[c].team})
    ELSE IF ctx[c].thread = None
    THEN LET ths == {th \in ThreadIds : thrChan[th] = ctx[c].channel}
         IN  line("210 THREAD", ths \cup {thrAuthor[th] : th \in ths})
    ELSE LET rs == replies[ctx[c].thread]
         IN  line("210 REPLY", {ctx[c].thread : i \in DOMAIN rs}
                               \cup {rs[i] : i \in DOMAIN rs})

\* The lookups of the level itself, which answer 404 when they find nothing.
levelFound(c) ==
    /\ ctx[c].channel # None /\ ctx[c].thread = None =>
          findChannel(ctx[c].team, ctx[c].channel) # {}
    /\ ctx[c].thread # None => findThread(ctx[c].channel, ctx[c].thread) # {}

\* List::execute.
List(c) ==
    /\ c \in clients
    /\ IF userOf[c] = None THEN deny(c, "401 UNAUTHORIZED")
       ELSE IF ctx[c].team # None /\ ~ accessible(c) THEN denyTeam(c, "404 NOT_FOUND TEAM")
       ELSE IF ~ levelFound(c)
            THEN deny(c, IF ctx[c].thread # None THEN "404 NOT_FOUND THREAD"
                         ELSE "404 NOT_FOUND CHANNEL")
       ELSE answer(c, list(<< listed(c) >>))

\* Info::execute: details of the innermost level; of the user when there is none.
Info(c) ==
    /\ c \in clients
    /\ IF userOf[c] = None THEN deny(c, "401 UNAUTHORIZED")
       ELSE IF ctx[c].team # None /\ ~ accessible(c) THEN denyTeam(c, "404 NOT_FOUND TEAM")
       ELSE IF ~ levelFound(c)
            THEN deny(c, IF ctx[c].thread # None THEN "404 NOT_FOUND THREAD"
                         ELSE "404 NOT_FOUND CHANNEL")
       ELSE answer(c, <<
              IF ctx[c].thread # None THEN line("200 INFO THREAD", {ctx[c].thread})
              ELSE IF ctx[c].channel # None
                   THEN line("200 INFO CHANNEL", {ctx[c].channel})
              ELSE IF ctx[c].team # None THEN line("200 INFO TEAM", {ctx[c].team})
              ELSE line(IF isConnected(count[userOf[c]])
                        THEN "200 INFO USER 1" ELSE "200 INFO USER 0", {userOf[c]}) >>)

-------------------------------------------------------------------------------

\* A step of Sessions: a Client keeps its context while it is in the table,
\* a new one starts without any. Logout and Login do not touch it.
SessionStep ==
    /\ SessionsNext
    /\ ctx' = [c \in Conns |-> IF c \in clients \cap clients' THEN ctx[c] ELSE NoContext]
    /\ UNCHANGED contentVars

WorkspaceCommand(c) ==
    \/ \E a \in UseArgs \cup {Invalid} : Use(c, a)
    \/ \E arg \in TeamIds \cup {None, Invalid} :
          Subscribe(c, arg) \/ Unsubscribe(c, arg) \/ Subscribed(c, arg)
    \/ \E arg \in Names \cup {None, Invalid} : Create(c, arg)
    \/ List(c)
    \/ Info(c)

WorkspaceInit ==
    /\ SessionsInit
    /\ teamName = [t \in TeamIds |-> None] /\ subs = [t \in TeamIds |-> {}]
    /\ chanTeam = [ch \in ChannelIds |-> None] /\ chanName = [ch \in ChannelIds |-> None]
    /\ thrChan = [th \in ThreadIds |-> None] /\ thrTitle = [th \in ThreadIds |-> None]
    /\ thrAuthor = [th \in ThreadIds |-> None]
    /\ replies = [th \in ThreadIds |-> << >>]
    /\ ctx = [c \in Conns |-> NoContext]

WorkspaceNext == SessionStep \/ \E c \in Conns : WorkspaceCommand(c)

WorkspaceSpec == WorkspaceInit /\ [][WorkspaceNext]_wsVars

-------------------------------------------------------------------------------
(* Properties *)

\* Type invariant of the teams and their contents, and of the contexts.
WorkspaceTypeOK ==
    /\ SessionsTypeOK
    /\ teamName \in [TeamIds -> Names \cup {None}]
    /\ subs \in [TeamIds -> SUBSET UserIds]
    /\ chanTeam \in [ChannelIds -> TeamIds \cup {None}]
    /\ chanName \in [ChannelIds -> Names \cup {None}]
    /\ thrChan \in [ThreadIds -> ChannelIds \cup {None}]
    /\ thrTitle \in [ThreadIds -> Names \cup {None}]
    /\ thrAuthor \in [ThreadIds -> UserIds \cup {None}]
    /\ replies \in [ThreadIds -> Seq(UserIds)]
    /\ ctx \in [Conns -> Contexts]

\* Every channel is in a team that exists and every thread in a channel that
\* exists.
HierarchyWellFormed ==
    /\ \A ch \in ChannelIds : chanTeam[ch] # None => teamName[chanTeam[ch]] # None
    /\ \A th \in ThreadIds : thrChan[th] # None => chanTeam[thrChan[th]] # None

\* A context that a client has selected always denotes one existing path: its
\* thread is a thread of its channel, its channel one of its team, whatever
\* the client and the others did since /use. The handlers that look a thread
\* up by its channel alone (findThread) therefore stay inside the team whose
\* subscription they checked.
ContextWellFormed ==
    HierarchyWellFormed /\
    \A c \in Conns :
        /\ ctx[c].team # None => teamName[ctx[c].team] # None
        /\ ctx[c].channel # None => ctx[c].team # None /\ chanTeam[ctx[c].channel] = ctx[c].team
        /\ ctx[c].thread # None => ctx[c].channel # None /\ thrChan[ctx[c].thread] = ctx[c].channel

\* /use checks its arguments one after the other, so an error may follow on
\* successes; the context it selects is taken over as a whole or not at all. A
\* context changes only with an answer to its own connection that says so and
\* holds no error, and a step changes no other connection's context.
UseAllOrNothing ==
    [][\A c \in clients \cap clients' : ctx'[c] # ctx[c] =>
          /\ out'[c] # << >> /\ \A i \in DOMAIN out'[c] : out'[c][i].kind = "200 OK"
          /\ \A d \in Conns \ {c} : ctx'[d] = ctx[d] /\ out'[d] = << >>]_wsVars

\* "Success | 200 OK": a USE that succeeds has one answer, as every other
\* command. The code answers once for every argument.
UseAnswersOnce ==
    [][\A c \in clients \cap clients' : ctx'[c] # ctx[c] => Len(out'[c]) = 1]_wsVars

\* The team that a channel or a thread belongs to.
teamOf(x) == IF x \in ChannelIds THEN chanTeam[x] ELSE chanTeam[thrChan[x]]

\* Every line about a channel, a thread or a reply in the output of the last
\* handler is for a connection whose user is subscribed to the team.
OutputStaysInTeam ==
    \A c \in Conns : \A i \in DOMAIN out[c] :
        \A x \in out[c][i].of \cap (ChannelIds \cup ThreadIds) :
            userOf[c] \in subs[teamOf(x)]

\* A line about a channel, a thread or a reply is only ever appended to a
\* connection whose user is subscribed to the team at that moment, be it an
\* answer or an event and whatever context the client still holds.
ContentStaysInTeam == [][OutputStaysInTeam']_wsVars

\* The channels, threads and replies of team t.
Content(t) ==
    [channels |-> {ch \in ChannelIds : chanTeam[ch] = t},
     threads  |-> {th \in ThreadIds : thrChan[th] # None /\ chanTeam[thrChan[th]] = t},
     replies  |-> [th \in ThreadIds |->
                      IF thrChan[th] # None /\ chanTeam[thrChan[th]] = t
                      THEN replies[th] ELSE << >>]]

\* The last handler told c that it has created something inside a team: the
\* command was c's.
HasCreated(c) ==
    \E i \in DOMAIN out[c] :
        out[c][i].kind \in {"201 CREATED CHANNEL", "201 CREATED THREAD", "201 CREATED REPLY"}

\* The content of a team changes only by a command of a user who is
\* subscribed to it when the command runs: a context chosen before the user
\* (perhaps on another connection) unsubscribed opens nothing.
OnlyMembersWrite ==
    [][\A t \in TeamIds : Content(t)' # Content(t) =>
          \E c \in clients : userOf[c] \in subs[t] /\ ctx[c].team = t /\ HasCreated(c)']_wsVars

Members(t) == {c \in clients : userOf[c] \in subs[t]}

\* The connections to which the last handler sent exactly one event about x.
Notified(kind, x) ==
    {c \in Conns : Cardinality({i \in DOMAIN out[c] :
                        out[c][i].kind = kind /\ x \in out[c][i].of}) = 1}

\* A new channel, thread or reply is announced once to every connection on
\* which a subscriber of its team is logged in, the author's own and those
\* that have no context included, and to no other connection.
EventsReachSubscribers ==
    [][/\ \A ch \in ChannelIds : chanTeam'[ch] # chanTeam[ch] =>
             Notified("EVENT CHANNEL_CREATED", ch)' = Members(teamOf(ch))'
       /\ \A th \in ThreadIds : thrChan'[th] # thrChan[th] =>
             Notified("EVENT THREAD_CREATED", th)' = Members(teamOf(th))'
       /\ \A th \in ThreadIds : replies'[th] # replies[th] =>
             Notified("EVENT REPLY_CREATED", th)' = Members(teamOf(th))']_wsVars

\* Names are unique in their scope: teams in the server, channels in their
\* team, threads in their channel.
NamesUniqueInScope ==
    /\ \A s, t \in TeamIds : teamName[s] = teamName[t] /\ teamName[s] # None => s = t
    /\ \A a, b \in ChannelIds :
          chanTeam[a] # None /\ chanTeam[a] = chanTeam[b] /\ chanName[a] = chanName[b] => a = b
    /\ \A a, b \in ThreadIds :
          thrChan[a] # None /\ thrChan[a] = thrChan[b] /\ thrTitle[a] = thrTitle[b] => a = b

\* The protocol's state machine: LOGIN leads from UNAUTHENTICATED to
\* AUTHENTICATED, where no team is selected. The code keeps the context of
\* the previous session of the connection.
FreshLoginHasNoContext ==
    [][\A c \in Conns : userOf[c] = None /\ userOf'[c] # None
          => ctx'[c] = NoContext]_wsVars
===============================================================================
