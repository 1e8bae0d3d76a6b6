---------------------------- MODULE PrivateMessages ---------------------------
(***************************************************************************)
(* Private messages of myteams_server: /send and /messages on top of the   *)
(* sessions of module Sessions.                                            *)
(*                                                                         *)
(*   mail   User::_messages: mail[u][v] is the conversation that user u    *)
(*          keeps under the uuid of user v, oldest message first           *)
(*   sent   the number of messages sent so far; it gives every message an  *)
(*          identity that the code does not have (a history variable)      *)
(*                                                                         *)
(* A message keeps its sender and receiver; body and timestamp are left    *)
(* out. The body argument of /send is Given, None or Invalid.              *)
(***************************************************************************)
EXTENDS Sessions

CONSTANTS
    Given,      \* a legal message body
    MaxSent     \* bound on the messages sent

ASSUME GivenAssumption == Given \notin {None, Invalid}
ASSUME MaxSentAssumption == MaxSent \in Nat

VARIABLES mail, sent

pmVars == << clients, userOf, name, count, out, mail, sent >>

Message == [no : Nat, from : UserIds, to : UserIds]

pmRefuse(c, status) == refuse(c, status) /\ UNCHANGED << mail, sent >>

\* Regression variant: of the message only the sender is kept.
addSender(box, u, v, m) == [box EXCEPT ![u][v] = Append(@, m.from)]

\* Regression variant: the newest message is put first.
pushMessage(box, u, v, m) == [box EXCEPT ![u][v] = << m >> \o @]

\* Regression variant: both copies are filed under the sender.
addMessageForSender(box, u, v, m) == [box EXCEPT ![u][m.from] = Append(@, m)]

\* User::addMessage, on the mailboxes box: u keeps m under v.
addMessage(box, u, v, m) == [box EXCEPT ![u][v] = Append(@, m)]

\* Regression variant: the first session of the user is taken.
sendToFirst(m, u) ==
    IF SessionsOf(u) = {} THEN NoOutput
    ELSE sendToClient(m, CHOOSE c \in SessionsOf(u) : TRUE)

\* Server::sendToUser: append m to every connection of user u.
sendToUser(m, u) == broadcast(m, SessionsOf(u))

\* Send::execute: the arguments are checked before the login, and both
\* parties get a copy of the message, also when they are the same user.
\* (The model stops sending at MaxSent.)
Send(c, to, body) ==
    /\ c \in clients
    /\ IF to \in {None, Invalid} \/ body \in {None, Invalid}
       THEN pmRefuse(c, "400 BAD_REQUEST")
       ELSE IF findUser(userOf[c]) = {} THEN pmRefuse(c, "401 UNAUTHORIZED")
       ELSE IF findUser(to) = {} THEN pmRefuse(c, "404 NOT_FOUND USER")
       ELSE LET m == [no |-> sent, from |-> userOf[c], to |-> to]
            IN  /\ sent < MaxSent
                /\ sent' = sent + 1
                /\ mail' = addMessage(addMessage(mail, userOf[c], to, m), to, userOf[c], m)
                /\ out' = Then(sendToUser(line("EVENT PRIVATE_MESSAGE", {userOf[c]}), to),
                               sendToClient(line("200 OK", {}), c))
                /\ UNCHANGED sessionVars

\* Regression variant: the newest message comes first.
messageLinesNewestFirst(ms) ==
    [i \in 1..Len(ms) |-> line("210 MESSAGE", {ms[Len(ms) + 1 - i].from})]

\* sendMessageLine for each message of a conversation.
messageLines(ms) == [i \in 1..Len(ms) |-> line("210 MESSAGE", {ms[i].from})]

\* Messages::execute: one 210 line per message of the conversation, each with
\* the sender's id; a user without a conversation is answered an empty list.
Messages(c, arg) ==
    /\ c \in clients
    /\ IF userOf[c] = None THEN pmRefuse(c, "401 UNAUTHORIZED")
       ELSE IF arg \in {None, Invalid} THEN pmRefuse(c, "400 BAD_REQUEST")
       ELSE IF findUser(userOf[c]) = {} THEN pmRefuse(c, "401 UNAUTHORIZED")
       ELSE IF findUser(arg) = {} THEN pmRefuse(c, "404 NOT_FOUND USER")
       ELSE /\ out' = sendList(list(messageLines(mail[userOf[c]][arg])), c)
            /\ UNCHANGED sessionVars
            /\ UNCHANGED << mail, sent >>

MessageCommand(c) ==
    \/ \E to \in UserIds \cup {None, Invalid}, body \in {Given, None, Invalid} :
          Send(c, to, body)
    \/ \E arg \in UserIds \cup {None, Invalid} : Messages(c, arg)

PrivateMessagesInit ==
    /\ SessionsInit
    /\ mail = [u \in UserIds |-> [v \in UserIds |-> << >>]]
    /\ sent = 0

PrivateMessagesNext ==
    \/ SessionsNext /\ UNCHANGED << mail, sent >>
    \/ \E c \in Conns : MessageCommand(c)

PrivateMessagesSpec == PrivateMessagesInit /\ [][PrivateMessagesNext]_pmVars

-------------------------------------------------------------------------------
(* Properties *)

\* Type invariant of the mailboxes.
PrivateMessagesTypeOK ==
    /\ SessionsTypeOK
    /\ mail \in [UserIds -> [UserIds -> Seq(Message)]]
    /\ sent \in Nat

\* The two parties of a conversation always see the same messages in the same
\* order, although Send::execute writes two separate copies and either side
\* may send.
MailboxesMirror == \A u, v \in UserIds : mail[u][v] = mail[v][u]

\* A conversation holds only messages between its two users, in the order in
\* which they were sent.
ConversationsInOrder ==
    \A u, v \in UserIds :
        /\ \A i \in DOMAIN mail[u][v] : {mail[u][v][i].from, mail[u][v][i].to} = {u, v}
        /\ \A i, j \in DOMAIN mail[u][v] : i < j => mail[u][v][i].no <= mail[u][v][j].no

\* When a message is stored, exactly the connections of its receiver are sent
\* the event, each of them once, whichever connection of the sender it was
\* sent from.
EventReachesEverySession ==
    [][sent' # sent =>
         \A u, v \in UserIds :
            (/\ mail'[v][u] # mail[v][u]
             /\ mail'[v][u][Len(mail'[v][u])].from = u)
            => {c \in Conns : Cardinality({i \in DOMAIN out'[c] :
                    out'[c][i] = line("EVENT PRIVATE_MESSAGE", {u})}) = 1}
               = SessionsOf(v)]_pmVars

-------------------------------------------------------------------------------
(* The mail service *)

\* The senders of the messages of a conversation.
Senders(ms) == [i \in 1..Len(ms) |-> ms[i].from]

\* The two users of a pair, who may be the same.
One(pair) == CHOOSE u \in pair : TRUE
Other(pair) == CHOOSE v \in UserIds : pair = {One(pair), v}

\* The conversation of a pair of users: the copy of one of them.
Chat == [p \in {{u, v} : u, v \in UserIds} |-> Senders(mail[One(p)][Other(p)])]

\* The users whose messages the lines ls announce.
Announced(ls) ==
    {u \in UserIds : \E i \in DOMAIN ls : ls[i] = line("EVENT PRIVATE_MESSAGE", {u})}

\* The senders of the messages that the lines ls list, between the first line
\* and the last.
Listed(ls) ==
    IF \E i \in DOMAIN ls : ls[i].kind = "210 MESSAGE"
    THEN [i \in 1..(Len(ls) - 2) |-> CHOOSE u \in UserIds : ls[i + 1].of = {u}]
    ELSE << >>

News == [c \in Conns |-> Announced(out[c])]
Shown == [c \in Conns |-> Listed(out[c])]

Mail == INSTANCE MailService WITH session <- userOf, chat <- Chat, news <- News, shown <- Shown

\* The two copies that Send::execute writes, and the list that
\* Messages::execute makes of one of them, implement a service that has one
\* conversation for every two users, across logouts, disconnections and
\* restarts; see module MailService for what it says.
ImplementsMail == Mail!MailSpec
===============================================================================
