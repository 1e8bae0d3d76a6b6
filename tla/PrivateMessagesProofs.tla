------------------------- MODULE PrivateMessagesProofs ------------------------
(***************************************************************************)
(* Proofs about module PrivateMessages, for any set of users and names, any *)
(* finite set of connections and any number of messages.                   *)
(***************************************************************************)
EXTENDS PrivateMessages, SessionsProofs, SequenceTheorems

Mailboxes == [UserIds -> [UserIds -> Seq(Message)]]

\* Every stored message was sent before the next one: its number is smaller.
StoredWereSent ==
    \A u, v \in UserIds : \A i \in DOMAIN mail[u][v] : mail[u][v][i].no < sent

\* The inductive invariant. That a conversation stays in order needs to know
\* that the message that is appended next is newer than all of it.
PrivateMessagesInv ==
    /\ SessionsInv
    /\ PrivateMessagesTypeOK
    /\ MailboxesMirror
    /\ ConversationsInOrder
    /\ StoredWereSent

-------------------------------------------------------------------------------
(* User::addMessage *)

\* The mailboxes new are box with the message m appended to what u keeps
\* under v.
Extended(box, new, u, v, m) ==
    /\ new \in Mailboxes
    /\ \A p, q \in UserIds :
          new[p][q] = IF p = u /\ q = v THEN Append(box[u][v], m) ELSE box[p][q]

\* What addMessage returns.
LEMMA AddMessageResult ==
    ASSUME NEW box \in Mailboxes, NEW u \in UserIds, NEW v \in UserIds, NEW m \in Message
    PROVE  Extended(box, addMessage(box, u, v, m), u, v, m)
  <1> DEFINE C == [UserIds -> Seq(Message)]
             new == Append(box[u][v], m)
  <1>1. \A p \in UserIds : box[p] \in C
    BY DEF Mailboxes
  <1>2. box[u][v] \in Seq(Message)
    BY <1>1
  <1>3. new \in Seq(Message)
    BY <1>2
  <1>4. addMessage(box, u, v, m) = [box EXCEPT ![u] = [box[u] EXCEPT ![v] = new]]
    BY <1>1 DEF addMessage, Mailboxes
  <1> HIDE DEF new
  <1>5. [box[u] EXCEPT ![v] = new] \in C
    BY <1>1, <1>3
  <1>6. addMessage(box, u, v, m) \in Mailboxes
    BY <1>4, <1>5 DEF Mailboxes
  <1>7. ASSUME NEW p \in UserIds, NEW q \in UserIds
        PROVE  addMessage(box, u, v, m)[p][q] =
                  IF p = u /\ q = v THEN new ELSE box[p][q]
    BY <1>1, <1>4, SMTT(30) DEF Mailboxes
  <1> QED BY <1>6, <1>7 DEF new, Extended

\* A conversation of u and v whose messages have numbers up to n.
Conversation(s, u, v, n) ==
    /\ s \in Seq(Message)
    /\ \A i \in DOMAIN s : {s[i].from, s[i].to} = {u, v} /\ s[i].no <= n
    /\ \A i, j \in DOMAIN s : i < j => s[i].no <= s[j].no

\* A conversation stays one when the newest message is appended.
LEMMA AppendToConversation ==
    ASSUME NEW u, NEW v, NEW s, NEW m \in Message, Conversation(s, u, v, m.no),
           {m.from, m.to} = {u, v}
    PROVE  Conversation(Append(s, m), u, v, m.no)
  <1> DEFINE t == Append(s, m)
  <1>0. s \in Seq(Message) /\ m.no \in Nat
    BY DEF Conversation, Message
  <1>1. t \in Seq(Message) /\ DOMAIN t = 1..(Len(s) + 1) /\ DOMAIN s = 1..Len(s) /\ Len(s) \in Nat
    BY <1>0
  <1>2. t[Len(s) + 1] = m /\ \A i \in 1..Len(s) : t[i] = s[i]
    BY <1>0
  <1> HIDE DEF t
  <1>3. ASSUME NEW i \in DOMAIN t PROVE {t[i].from, t[i].to} = {u, v} /\ t[i].no <= m.no
    <2>0. m.no <= m.no
      BY <1>0
    <2>1. CASE i = Len(s) + 1
      BY <1>2, <2>0, <2>1, Zenon
    <2>2. CASE i \in 1..Len(s)
      BY <1>1, <1>2, <2>2, Zenon DEF Conversation
    <2>3. i = Len(s) + 1 \/ i \in 1..Len(s)
      BY <1>1
    <2> QED BY <2>1, <2>2, <2>3
  <1>4. ASSUME NEW i \in DOMAIN t, NEW j \in DOMAIN t, i < j PROVE t[i].no <= t[j].no
    <2>1. CASE j = Len(s) + 1
      BY <1>2, <1>3, <2>1
    <2>2. CASE j \in 1..Len(s)
      <3>1. i \in 1..Len(s)
        BY <1>1, <1>4, <2>2
      <3> QED BY <1>1, <1>2, <1>4, <2>2, <3>1 DEF Conversation
    <2> QED BY <1>1, <2>1, <2>2
  <1> QED BY <1>1, <1>3, <1>4 DEF Conversation, t

-------------------------------------------------------------------------------
(* /send *)

\* A message that is stored: what was checked, the two copies, the outputs.
Stored(c, to, m) ==
    /\ c \in clients /\ userOf[c] \in UserIds /\ to \in UserIds
    /\ m = [no |-> sent, from |-> userOf[c], to |-> to]
    /\ sent' = sent + 1
    /\ mail' = addMessage(addMessage(mail, userOf[c], to, m), to, userOf[c], m)
    /\ out' = Then(sendToUser(line("EVENT PRIVATE_MESSAGE", {userOf[c]}), to),
                   sendToClient(line("200 OK", {}), c))
    /\ UNCHANGED sessionVars

\* The answers with which /send and /messages refuse.
Refusals == {"400 BAD_REQUEST", "401 UNAUTHORIZED", "404 NOT_FOUND USER"}

\* What Send::execute does: it refuses, or it stores the message.
LEMMA SendShape ==
    ASSUME SessionsTypeOK, NEW c \in Conns, NEW to \in UserIds \cup {None, Invalid}, NEW body,
           Send(c, to, body)
    PROVE  (\E status \in Refusals : pmRefuse(c, status)) \/ \E m : Stored(c, to, m)
  <1>0. /\ "400 BAD_REQUEST" \in Refusals /\ "401 UNAUTHORIZED" \in Refusals
        /\ "404 NOT_FOUND USER" \in Refusals
    BY DEF Refusals
  <1>1. CASE \E status \in Refusals : pmRefuse(c, status)
    BY <1>1
  <1>2. CASE ~ \E status \in Refusals : pmRefuse(c, status)
    <2> DEFINE m == [no |-> sent, from |-> userOf[c], to |-> to]
    <2>1. /\ c \in clients /\ findUser(userOf[c]) # {} /\ findUser(to) # {}
          /\ sent' = sent + 1
          /\ mail' = addMessage(addMessage(mail, userOf[c], to, m), to, userOf[c], m)
          /\ out' = Then(sendToUser(line("EVENT PRIVATE_MESSAGE", {userOf[c]}), to),
                         sendToClient(line("200 OK", {}), c))
          /\ UNCHANGED sessionVars
      BY <1>0, <1>2, Zenon DEF Send
    <2>2. userOf[c] \in UserIds /\ to \in UserIds
      BY <2>1 DEF findUser, Registered
    <2> HIDE DEF m
    <2>3. Stored(c, to, m)
      BY <2>1, <2>2 DEF Stored, m
    <2> QED BY <2>3
  <1> QED BY <1>1, <1>2

\* The conversation that p keeps under q is the one of s and to.
Parties(p, q, s, to) == (p = s /\ q = to) \/ (p = to /\ q = s)

\* The copies of the two parties are longer by the message m; by two, when a
\* user writes to himself.
BothCopies(s, to, m) ==
    /\ mail' \in Mailboxes
    /\ \A p, q \in UserIds :
          /\ ~ Parties(p, q, s, to) => mail'[p][q] = mail[p][q]
          /\ Parties(p, q, s, to) /\ s = to => mail'[p][q] = Append(Append(mail[p][q], m), m)
          /\ Parties(p, q, s, to) /\ s # to => mail'[p][q] = Append(mail[p][q], m)

\* The mailboxes after a stored message.
LEMMA StoredMail ==
    ASSUME PrivateMessagesTypeOK, NEW c, NEW to, NEW m, Stored(c, to, m)
    PROVE  m \in Message /\ BothCopies(userOf[c], to, m)
  <1> DEFINE s == userOf[c]
             once == addMessage(mail, s, to, m)
  <1>1. s \in UserIds /\ to \in UserIds /\ m \in Message /\ mail \in Mailboxes
    BY DEF Stored, PrivateMessagesTypeOK, Message, Mailboxes
  <1>2. Extended(mail, once, s, to, m)
    BY <1>1, AddMessageResult
  <1>3. mail' = addMessage(once, to, s, m)
    BY DEF Stored
  <1> HIDE DEF once, s
  <1>4. Extended(once, mail', to, s, m)
    <2>1. once \in Mailboxes
      BY <1>2 DEF Extended
    <2> QED BY <1>1, <1>3, <2>1, AddMessageResult
  <1>5. ASSUME NEW p \in UserIds, NEW q \in UserIds
        PROVE  /\ ~ Parties(p, q, s, to) => mail'[p][q] = mail[p][q]
               /\ Parties(p, q, s, to) /\ s = to => mail'[p][q] = Append(Append(mail[p][q], m), m)
               /\ Parties(p, q, s, to) /\ s # to => mail'[p][q] = Append(mail[p][q], m)
    <2>1. CASE ~ Parties(p, q, s, to)
      BY <1>1, <1>2, <1>4, <2>1 DEF Extended, Parties
    <2>2. CASE Parties(p, q, s, to) /\ s = to
      <3>1. p = s /\ q = s /\ to = s
        BY <2>2 DEF Parties
      <3>2. mail'[s][s] = Append(once[s][s], m) /\ once[s][s] = Append(mail[s][s], m)
        BY <1>1, <1>2, <1>4, <3>1 DEF Extended
      <3> QED BY <2>2, <3>1, <3>2
    <2>3. CASE Parties(p, q, s, to) /\ s # to
      <3>1. mail'[s][to] = once[s][to] /\ once[s][to] = Append(mail[s][to], m)
        BY <1>1, <1>2, <1>4, <2>3 DEF Extended
      <3>2. mail'[to][s] = Append(once[to][s], m) /\ once[to][s] = mail[to][s]
        BY <1>1, <1>2, <1>4, <2>3 DEF Extended
      <3> QED BY <2>3, <3>1, <3>2 DEF Parties
    <2> QED BY <2>1, <2>2, <2>3
  <1> QED BY <1>1, <1>4, <1>5 DEF s, Extended, BothCopies

\* What /send answers and announces is an output.
LEMMA StoredOutput ==
    ASSUME NEW c, NEW to, NEW m, Stored(c, to, m)
    PROVE  out' \in Output
  <1>1. line("EVENT PRIVATE_MESSAGE", {userOf[c]}) \in Line /\ line("200 OK", {}) \in Line
    BY SubjectsAssumption, LineType DEF Kinds, Stored
  <1> QED BY <1>1, BroadcastType, SendToClientType, ThenType DEF Stored, sendToUser

\* A stored message keeps the invariant.
LEMMA StoredKeepsInv ==
    ASSUME PrivateMessagesInv, NEW c, NEW to, NEW m, Stored(c, to, m)
    PROVE  PrivateMessagesInv'
  <1> DEFINE s == userOf[c]
  <1>0. PrivateMessagesTypeOK /\ sent \in Nat /\ sent' = sent + 1
    BY DEF PrivateMessagesInv, PrivateMessagesTypeOK, Stored
  <1>1. m \in Message /\ BothCopies(s, to, m)
    BY <1>0, StoredMail
  <1>2. s \in UserIds /\ to \in UserIds /\ m.no = sent /\ {m.from, m.to} = {s, to}
    BY DEF Stored
  <1>3. SessionsInv'
    BY StoredOutput, AnsweringKeepsInv DEF PrivateMessagesInv, Stored
  <1>4. PrivateMessagesTypeOK'
    BY <1>0, <1>1, <1>3 DEF SessionsInv, PrivateMessagesTypeOK, BothCopies, Mailboxes
  <1> HIDE DEF s
  <1>5. MailboxesMirror'
    <2> SUFFICES ASSUME NEW u \in UserIds, NEW v \in UserIds PROVE mail'[u][v] = mail'[v][u]
      BY DEF MailboxesMirror
    <2>1. mail[u][v] = mail[v][u] /\ (Parties(u, v, s, to) <=> Parties(v, u, s, to))
      BY DEF PrivateMessagesInv, MailboxesMirror, Parties
    <2>2. CASE ~ Parties(u, v, s, to)
      BY <1>1, <2>1, <2>2 DEF BothCopies
    <2>3. CASE Parties(u, v, s, to) /\ s = to
      BY <1>1, <2>1, <2>3 DEF BothCopies
    <2>4. CASE Parties(u, v, s, to) /\ s # to
      BY <1>1, <2>1, <2>4 DEF BothCopies
    <2> QED BY <2>2, <2>3, <2>4
  <1>6. ASSUME NEW u \in UserIds, NEW v \in UserIds
        PROVE  Conversation(mail'[u][v], u, v, m.no)
    <2>1. mail[u][v] \in Seq(Message)
      BY <1>0 DEF PrivateMessagesTypeOK
    <2>2. \A i \in DOMAIN mail[u][v] : mail[u][v][i].no <= m.no
      <3>1. \A i \in DOMAIN mail[u][v] : mail[u][v][i] \in Message /\ mail[u][v][i].no < sent
        BY <2>1 DEF PrivateMessagesInv, StoredWereSent
      <3> QED BY <1>0, <1>2, <3>1 DEF Message
    <2>3. Conversation(mail[u][v], u, v, m.no)
      BY <2>1, <2>2, Zenon DEF PrivateMessagesInv, ConversationsInOrder, Conversation
    <2>4. CASE ~ Parties(u, v, s, to)
      BY <1>1, <2>3, <2>4 DEF BothCopies
    <2>5. CASE Parties(u, v, s, to)
      <3>1. {m.from, m.to} = {u, v}
        BY <1>2, <2>5 DEF Parties
      <3>2. Conversation(Append(mail[u][v], m), u, v, m.no)
        BY <1>1, <2>3, <3>1, AppendToConversation
      <3>3. Conversation(Append(Append(mail[u][v], m), m), u, v, m.no)
        BY <1>1, <3>1, <3>2, AppendToConversation
      <3> QED BY <1>1, <2>5, <3>2, <3>3 DEF BothCopies
    <2> QED BY <2>4, <2>5
  <1>7. ConversationsInOrder'
    BY <1>6, Zenon DEF Conversation, ConversationsInOrder
  <1>8. StoredWereSent'
    <2> SUFFICES ASSUME NEW u \in UserIds, NEW v \in UserIds, NEW i \in DOMAIN mail'[u][v]
                 PROVE  mail'[u][v][i].no < sent'
      BY DEF StoredWereSent
    <2>1. mail'[u][v] \in Seq(Message) /\ mail'[u][v][i].no <= m.no
      BY <1>6 DEF Conversation
    <2>2. mail'[u][v][i] \in Message
      BY <2>1
    <2> QED BY <1>0, <1>2, <2>1, <2>2 DEF Message
  <1> QED BY <1>3, <1>4, <1>5, <1>7, <1>8 DEF PrivateMessagesInv

-------------------------------------------------------------------------------
(* The other steps *)

\* A step that leaves the mailboxes alone keeps the invariant when it keeps
\* the one of module Sessions.
LEMMA MailUntouchedKeepsInv ==
    ASSUME PrivateMessagesInv, SessionsInv', UNCHANGED << mail, sent >>
    PROVE  PrivateMessagesInv'
  <1>1. PrivateMessagesTypeOK'
    BY DEF PrivateMessagesInv, SessionsInv, PrivateMessagesTypeOK
  <1>2. mail' = mail /\ sent' = sent
    OBVIOUS
  <1>3. MailboxesMirror'
    BY <1>2 DEF PrivateMessagesInv, MailboxesMirror
  <1>4. ConversationsInOrder'
    <2> DEFINE P(x) == \A u, v \in UserIds :
                 /\ \A i \in DOMAIN x[u][v] : {x[u][v][i].from, x[u][v][i].to} = {u, v}
                 /\ \A i, j \in DOMAIN x[u][v] : i < j => x[u][v][i].no <= x[u][v][j].no
    <2>1. P(mail)
      BY DEF PrivateMessagesInv, ConversationsInOrder
    <2>2. P(mail') => ConversationsInOrder'
      BY DEF ConversationsInOrder
    <2> HIDE DEF P
    <2> QED BY <1>2, <2>1, <2>2
  <1>5. StoredWereSent'
    BY <1>2 DEF PrivateMessagesInv, StoredWereSent
  <1> QED BY <1>1, <1>3, <1>4, <1>5 DEF PrivateMessagesInv

\* A refused command keeps the invariant.
LEMMA PmRefuseKeepsInv ==
    ASSUME PrivateMessagesInv, NEW c \in Conns, NEW status \in Refusals, pmRefuse(c, status)
    PROVE  PrivateMessagesInv'
  <1>1. status \in Kinds
    BY DEF Refusals, Kinds
  <1> QED BY <1>1, RefusingKeepsInv, MailUntouchedKeepsInv DEF PrivateMessagesInv, pmRefuse

\* A conversation that is listed.
ListedTo(c, arg) ==
    /\ c \in clients /\ userOf[c] \in UserIds /\ arg \in UserIds
    /\ out' = sendList(list(messageLines(mail[userOf[c]][arg])), c)
    /\ UNCHANGED sessionVars /\ UNCHANGED << mail, sent >>

\* What Messages::execute does: it refuses, or it lists the conversation.
LEMMA MessagesShape ==
    ASSUME SessionsTypeOK, NEW c \in Conns, NEW arg \in UserIds \cup {None, Invalid},
           Messages(c, arg)
    PROVE  (\E status \in Refusals : pmRefuse(c, status)) \/ ListedTo(c, arg)
  <1>0. /\ "400 BAD_REQUEST" \in Refusals /\ "401 UNAUTHORIZED" \in Refusals
        /\ "404 NOT_FOUND USER" \in Refusals
    BY DEF Refusals
  <1>1. CASE \E status \in Refusals : pmRefuse(c, status)
    BY <1>1
  <1>2. CASE ~ \E status \in Refusals : pmRefuse(c, status)
    <2>1. /\ c \in clients /\ userOf[c] # None /\ arg \notin {None, Invalid}
          /\ out' = sendList(list(messageLines(mail[userOf[c]][arg])), c)
          /\ UNCHANGED sessionVars /\ UNCHANGED << mail, sent >>
      BY <1>0, <1>2, Zenon DEF Messages
    <2>2. userOf[c] \in UserIds /\ arg \in UserIds
      BY <2>1 DEF SessionsTypeOK
    <2> QED BY <2>1, <2>2 DEF ListedTo
  <1> QED BY <1>1, <1>2

\* The lines of a conversation: one for each message.
LEMMA MessageLinesType ==
    ASSUME NEW ms \in Seq(Message)
    PROVE  messageLines(ms) \in Seq(Line)
  <1> DEFINE items == [i \in 1..Len(ms) |-> line("210 MESSAGE", {ms[i].from})]
  <1>1. Len(ms) \in Nat /\ \A i \in 1..Len(ms) : ms[i] \in Message
    OBVIOUS
  <1>2. ASSUME NEW i \in 1..Len(ms) PROVE line("210 MESSAGE", {ms[i].from}) \in Line
    <2>1. {ms[i].from} \in SUBSET Subjects
      BY <1>1, SubjectsAssumption DEF Message
    <2>2. "210 MESSAGE" \in Kinds
      BY DEF Kinds
    <2> QED BY <2>1, <2>2, LineType
  <1>3. ASSUME NEW S, NEW n \in Nat, NEW f, f \in [1..n -> S] PROVE f \in Seq(S)
    BY <1>3
  <1>4. items \in [1..Len(ms) -> Line]
    BY <1>2
  <1>5. items \in Seq(Line)
    BY <1>1, <1>3, <1>4
  <1> QED BY <1>5 DEF messageLines

\* Messages::execute keeps the invariant.
LEMMA MessagesKeepsInv ==
    ASSUME PrivateMessagesInv, NEW c \in Conns, NEW arg \in UserIds \cup {None, Invalid},
           Messages(c, arg)
    PROVE  PrivateMessagesInv'
  <1>0. SessionsTypeOK
    BY DEF PrivateMessagesInv, SessionsInv
  <1>1. CASE \E status \in Refusals : pmRefuse(c, status)
    BY <1>1, PmRefuseKeepsInv
  <1>2. CASE ListedTo(c, arg)
    <2> DEFINE ms == mail[userOf[c]][arg]
    <2>1. /\ out' = sendList(list(messageLines(ms)), c)
          /\ UNCHANGED sessionVars /\ UNCHANGED << mail, sent >>
      BY <1>2 DEF ListedTo
    <2>2. ms \in Seq(Message)
      BY <1>2 DEF PrivateMessagesInv, PrivateMessagesTypeOK, ListedTo
    <2> HIDE DEF ms
    <2>3. out' \in Output
      BY <2>1, <2>2, MessageLinesType, ListType, SendListType
    <2> QED BY <2>1, <2>3, AnsweringKeepsInv, MailUntouchedKeepsInv DEF PrivateMessagesInv
  <1> QED BY <1>0, <1>1, <1>2, MessagesShape

\* The invariant holds when the server starts without a save file.
LEMMA PrivateMessagesInitInv == PrivateMessagesInit => PrivateMessagesInv
  <1> SUFFICES ASSUME PrivateMessagesInit PROVE PrivateMessagesInv
    OBVIOUS
  <1>1. SessionsInv
    BY SessionsInitInv DEF PrivateMessagesInit
  <1>2. << >> \in Seq(Message) /\ DOMAIN << >> = {}
    OBVIOUS
  <1>3. PrivateMessagesTypeOK
    BY <1>1, <1>2 DEF PrivateMessagesInit, PrivateMessagesTypeOK, SessionsInv
  <1>4. \A u, v \in UserIds : mail[u][v] = << >>
    BY DEF PrivateMessagesInit
  <1>5. MailboxesMirror /\ ConversationsInOrder /\ StoredWereSent
    BY <1>2, <1>4 DEF MailboxesMirror, ConversationsInOrder, StoredWereSent
  <1> QED BY <1>1, <1>3, <1>5 DEF PrivateMessagesInv

\* Every step of the server keeps the invariant.
LEMMA PrivateMessagesNextInv == PrivateMessagesInv /\ PrivateMessagesNext => PrivateMessagesInv'
  <1> SUFFICES ASSUME PrivateMessagesInv, PrivateMessagesNext PROVE PrivateMessagesInv'
    OBVIOUS
  <1>0. SessionsInv /\ SessionsTypeOK
    BY DEF PrivateMessagesInv, SessionsInv
  <1>1. CASE SessionsNext /\ UNCHANGED << mail, sent >>
    BY <1>0, <1>1, SessionsNextInv, MailUntouchedKeepsInv
  <1>2. ASSUME NEW c \in Conns, NEW to \in UserIds \cup {None, Invalid}, NEW body, Send(c, to, body)
        PROVE  PrivateMessagesInv'
    <2>1. (\E status \in Refusals : pmRefuse(c, status)) \/ \E m : Stored(c, to, m)
      BY <1>0, <1>2, SendShape
    <2> QED BY <2>1, PmRefuseKeepsInv, StoredKeepsInv
  <1>3. ASSUME NEW c \in Conns, NEW arg \in UserIds \cup {None, Invalid}, Messages(c, arg)
        PROVE  PrivateMessagesInv'
    BY <1>3, MessagesKeepsInv
  <1> QED BY <1>1, <1>2, <1>3 DEF PrivateMessagesNext, MessageCommand

\* A step that changes nothing keeps the invariant.
LEMMA PrivateMessagesStutterInv == PrivateMessagesInv /\ UNCHANGED pmVars => PrivateMessagesInv'
  <1> SUFFICES ASSUME PrivateMessagesInv, UNCHANGED pmVars PROVE PrivateMessagesInv'
    OBVIOUS
  <1>1. SessionsInv'
    BY SessionsStutterInv DEF PrivateMessagesInv, pmVars, vars
  <1> QED BY <1>1, MailUntouchedKeepsInv DEF pmVars

-------------------------------------------------------------------------------

\* The inductive invariant holds in every reachable state.
THEOREM PrivateMessagesInvariant == PrivateMessagesSpec => []PrivateMessagesInv
  BY PrivateMessagesInitInv, PrivateMessagesNextInv, PrivateMessagesStutterInv, PTL
  DEF PrivateMessagesSpec

\* The mailboxes, and the outputs of /send and /messages, are well typed.
THEOREM PrivateMessagesTypeCorrect == PrivateMessagesSpec => []PrivateMessagesTypeOK
  <1>1. PrivateMessagesInv => PrivateMessagesTypeOK
    BY DEF PrivateMessagesInv
  <1> QED BY <1>1, PrivateMessagesInvariant, PTL

\* The two copies that Send::execute writes never come apart: both parties of
\* a conversation see the same messages in the same order.
THEOREM MailboxesStayMirrored == PrivateMessagesSpec => []MailboxesMirror
  <1>1. PrivateMessagesInv => MailboxesMirror
    BY DEF PrivateMessagesInv
  <1> QED BY <1>1, PrivateMessagesInvariant, PTL

\* A conversation only ever holds messages between its two users, in the
\* order in which they were sent.
THEOREM ConversationsStayInOrder == PrivateMessagesSpec => []ConversationsInOrder
  <1>1. PrivateMessagesInv => ConversationsInOrder
    BY DEF PrivateMessagesInv
  <1> QED BY <1>1, PrivateMessagesInvariant, PTL

-------------------------------------------------------------------------------
(* The event *)

\* The places of the event e in what an event and an answer a make together.
LEMMA EventBeforeAnswer ==
    ASSUME NEW a, NEW e, a # e
    PROVE  LET I(s) == {i \in DOMAIN s : s[i] = e}
           IN  /\ I(<< e >> \o << a >>) = {1} /\ I(<< e >> \o << >>) = {1}
               /\ I(<< >> \o << a >>) = {} /\ I(<< >> \o << >>) = {}
  <1> DEFINE I(s) == {i \in DOMAIN s : s[i] = e}
  <1>1. I(<< e >> \o << a >>) = {1}
    OBVIOUS
  <1>2. I(<< e >> \o << >>) = {1}
    OBVIOUS
  <1>3. I(<< >> \o << a >>) = {}
    OBVIOUS
  <1>4. I(<< >> \o << >>) = {}
    OBVIOUS
  <1> QED BY <1>1, <1>2, <1>3, <1>4

\* The connections with exactly one line e in an output.
Receivers(o, e) == {d \in Conns : Cardinality({i \in DOMAIN o[d] : o[d][i] = e}) = 1}

\* An event to the connections T followed by an answer to c: it is received
\* once by the connections of T and not at all by the others.
LEMMA EventReceivedOnce ==
    ASSUME NEW T \in SUBSET Conns, NEW c, NEW a, NEW e, a # e
    PROVE  Receivers(Then(broadcast(e, T), sendToClient(a, c)), e) = T
  <1> DEFINE o == Then(broadcast(e, T), sendToClient(a, c))
             I(s) == {i \in DOMAIN s : s[i] = e}
  <1>1. \A d \in Conns : o[d] = (IF d \in T THEN << e >> ELSE << >>)
                                \o (IF d = c THEN << a >> ELSE << >>)
    BY DEF Then, broadcast, sendToClient
  <1>2. /\ I(<< e >> \o << a >>) = {1} /\ I(<< e >> \o << >>) = {1}
        /\ I(<< >> \o << a >>) = {} /\ I(<< >> \o << >>) = {}
    BY EventBeforeAnswer
  <1>3. Cardinality({}) = 0 /\ Cardinality({1}) = 1 /\ 0 # 1
    BY FS_EmptySet, FS_Singleton
  <1> HIDE DEF I, o
  <1>4. ASSUME NEW d \in Conns PROVE Cardinality(I(o[d])) = 1 <=> d \in T
    <2>1. CASE d \in T /\ d = c
      BY <1>1, <1>2, <1>3, <2>1, Zenon
    <2>2. CASE d \in T /\ d # c
      BY <1>1, <1>2, <1>3, <2>2, Zenon
    <2>3. CASE d \notin T /\ d = c
      BY <1>1, <1>2, <1>3, <2>3, Zenon
    <2>4. CASE d \notin T /\ d # c
      BY <1>1, <1>2, <1>3, <2>4, Zenon
    <2> QED BY <2>1, <2>2, <2>3, <2>4
  <1>5. {d \in Conns : Cardinality(I(o[d])) = 1} = T
    BY <1>4
  <1> QED BY <1>5 DEF I, o, Receivers

\* A stored message is announced once on every connection of its receiver,
\* and on no other connection.
THEOREM MessagesAreAnnounced == PrivateMessagesSpec => EventReachesEverySession
  <1> DEFINE
        New(u, v) == /\ mail'[v][u] # mail[v][u]
                     /\ mail'[v][u][Len(mail'[v][u])].from = u
        Told(u) == {c \in Conns : Cardinality({i \in DOMAIN out'[c] :
                       out'[c][i] = line("EVENT PRIVATE_MESSAGE", {u})}) = 1}
        A == sent' # sent => \A u, v \in UserIds : New(u, v) => Told(u) = SessionsOf(v)
  <1>1. ASSUME PrivateMessagesInv, [PrivateMessagesNext]_pmVars PROVE [A]_pmVars
    <2> SUFFICES ASSUME PrivateMessagesNext, sent' # sent, NEW u \in UserIds, NEW v \in UserIds,
                        New(u, v)
                 PROVE  Told(u) = SessionsOf(v)
      BY <1>1
    <2>0. PrivateMessagesTypeOK /\ SessionsTypeOK
      BY <1>1 DEF PrivateMessagesInv, SessionsInv
    <2>a. PICK c \in Conns, to \in UserIds \cup {None, Invalid} : \E m : Stored(c, to, m)
      <3>1. ~ (SessionsNext /\ UNCHANGED << mail, sent >>)
        OBVIOUS
      <3>2. \A c \in Conns : \A status : ~ pmRefuse(c, status)
        BY DEF pmRefuse
      <3>3. ASSUME NEW c \in Conns, NEW arg, Messages(c, arg) PROVE FALSE
        <4>1. sent' = sent
          BY <3>2, <3>3, Zenon DEF Messages
        <4> QED BY <4>1
      <3>4. PICK c \in Conns, to \in UserIds \cup {None, Invalid}, body \in {Given, None, Invalid} :
               Send(c, to, body)
        BY <3>1, <3>3 DEF PrivateMessagesNext, MessageCommand
      <3> QED BY <2>0, <3>2, <3>4, SendShape
    <2>1. PICK m : Stored(c, to, m)
      BY <2>a
    <2>2. m \in Message /\ BothCopies(userOf[c], to, m) /\ m.from = userOf[c]
      BY <2>0, <2>1, StoredMail DEF Stored
    <2>3. mail[v][u] \in Seq(Message) /\ Parties(v, u, userOf[c], to)
      BY <2>0, <2>2 DEF PrivateMessagesTypeOK, BothCopies
    <2>4. mail'[v][u][Len(mail'[v][u])] = m
      <3>1. ASSUME NEW s \in Seq(Message)
            PROVE  /\ Append(s, m) \in Seq(Message)
                   /\ Append(s, m)[Len(Append(s, m))] = m
        BY <2>2
      <3>2. mail'[v][u] \in {Append(mail[v][u], m), Append(Append(mail[v][u], m), m)}
        BY <2>2, <2>3 DEF BothCopies
      <3> QED BY <2>3, <3>1, <3>2
    <2>5. u = userOf[c] /\ v = to
      BY <2>2, <2>3, <2>4 DEF Parties
    <2> DEFINE e == line("EVENT PRIVATE_MESSAGE", {userOf[c]})
               a == line("200 OK", {})
    <2>6. a # e
      BY DEF line
    <2>7. out' = Then(broadcast(e, SessionsOf(to)), sendToClient(a, c))
      BY <2>1 DEF Stored, sendToUser
    <2>8. SessionsOf(to) \in SUBSET Conns
      BY <2>0 DEF SessionsOf, SessionsTypeOK
    <2> HIDE DEF a, e
    <2>9. Receivers(out', e) = SessionsOf(to)
      BY <2>6, <2>7, <2>8, EventReceivedOnce
    <2> QED BY <2>5, <2>9, Zenon DEF e, Receivers
  <1> QED BY <1>1, PrivateMessagesInvariant, PTL
          DEF PrivateMessagesSpec, EventReachesEverySession

-------------------------------------------------------------------------------
(* Lines that say nothing of messages *)

MailKinds == {"EVENT PRIVATE_MESSAGE", "210 MESSAGE"}

Silent(ls) == \A i \in DOMAIN ls : ls[i].kind \notin MailKinds
SilentOutput(o) == \A d \in Conns : Silent(o[d])

LEMMA SilentSaysNothing ==
    ASSUME NEW ls, Silent(ls)
    PROVE  Announced(ls) = {} /\ Listed(ls) = << >>
  <1>1. \A i \in DOMAIN ls :
           ls[i].kind # "EVENT PRIVATE_MESSAGE" /\ ls[i].kind # "210 MESSAGE"
    BY DEF Silent, MailKinds
  <1>2. \A u : line("EVENT PRIVATE_MESSAGE", {u}).kind = "EVENT PRIVATE_MESSAGE"
    BY DEF line
  <1>3. Announced(ls) = {}
    BY <1>1, <1>2, Zenon DEF Announced
  <1>4. Listed(ls) = << >>
    BY <1>1, Zenon DEF Listed
  <1> QED BY <1>3, <1>4

LEMMA SilentJoin ==
    ASSUME NEW a \in Seq(Line), NEW b \in Seq(Line), Silent(a), Silent(b)
    PROVE  Silent(a \o b)
  <1> SUFFICES ASSUME NEW i \in DOMAIN (a \o b) PROVE (a \o b)[i].kind \notin MailKinds
    BY DEF Silent
  <1>1. i \in 1..(Len(a) + Len(b)) /\ DOMAIN a = 1..Len(a) /\ DOMAIN b = 1..Len(b)
    OBVIOUS
  <1>2. CASE i <= Len(a)
    BY <1>1, <1>2 DEF Silent
  <1>3. CASE ~ (i <= Len(a))
    <2>1. i - Len(a) \in DOMAIN b /\ (a \o b)[i] = b[i - Len(a)]
      BY <1>1, <1>3
    <2> QED BY <2>1 DEF Silent
  <1> QED BY <1>2, <1>3

LEMMA SilentLine ==
    ASSUME NEW kind, kind \notin MailKinds, NEW of
    PROVE  Silent(<< line(kind, of) >>) /\ Silent(<< >>)
  BY DEF Silent, line

LEMMA SilentLists ==
    ASSUME NEW items \in Seq(Line), Silent(items)
    PROVE  Silent(list(items))
  <1>1. "210-BEGIN" \in Kinds \ MailKinds /\ "210-END" \in Kinds \ MailKinds
    BY DEF Kinds, MailKinds
  <1>2. line("210-BEGIN", {}) \in Line /\ line("210-END", {}) \in Line
    BY <1>1, LineType
  <1>3. Silent(<< line("210-BEGIN", {}) >>) /\ Silent(<< line("210-END", {}) >>)
    BY <1>1, SilentLine
  <1> DEFINE a == << line("210-BEGIN", {}) >>
             b == << line("210-END", {}) >>
  <1>4. a \in Seq(Line) /\ b \in Seq(Line)
    BY <1>2
  <1>5. Silent(a) /\ Silent(b) /\ list(items) = (a \o items) \o b
    BY <1>3 DEF list
  <1> HIDE DEF a, b
  <1>6. a \o items \in Seq(Line) /\ Silent(a \o items)
    BY <1>4, <1>5, SilentJoin
  <1> QED BY <1>4, <1>5, <1>6, SilentJoin

\* Outputs of a handler that are made of such lines.
LEMMA SilentOutputs ==
    ASSUME NEW kind, kind \notin MailKinds, NEW of, NEW c, NEW T
    PROVE  /\ SilentOutput(NoOutput)
           /\ SilentOutput(sendToClient(line(kind, of), c))
           /\ SilentOutput(broadcast(line(kind, of), T))
  <1>1. Silent(<< line(kind, of) >>) /\ Silent(<< >>)
    BY SilentLine
  <1> QED BY <1>1 DEF SilentOutput, NoOutput, sendToClient, broadcast

LEMMA SilentThen ==
    ASSUME NEW a \in Output, NEW b \in Output, SilentOutput(a), SilentOutput(b)
    PROVE  SilentOutput(Then(a, b))
  <1> SUFFICES ASSUME NEW d \in Conns PROVE Silent(a[d] \o b[d])
    BY DEF SilentOutput, Then
  <1>1. a[d] \in Seq(Line) /\ b[d] \in Seq(Line) /\ Silent(a[d]) /\ Silent(b[d])
    BY DEF Output, SilentOutput
  <1> QED BY <1>1, SilentJoin

LEMMA SilentUserList ==
    ASSUME NEW us \in SUBSET UserIds, NEW c
    PROVE  SilentOutput(sendList(list(userLines(us)), c))
  <1> DEFINE a == << line("210 USER 1", {u \in us : isConnected(count[u])}) >>
             b == << line("210 USER 0", {u \in us : ~ isConnected(count[u])}) >>
  <1>1. "210 USER 1" \in Kinds \ MailKinds /\ "210 USER 0" \in Kinds \ MailKinds
    BY DEF Kinds, MailKinds
  <1>2. a \in Seq(Line) /\ b \in Seq(Line)
    <2>1. line("210 USER 1", {u \in us : isConnected(count[u])}) \in Line
      BY <1>1, SubjectsAssumption, LineType
    <2>2. line("210 USER 0", {u \in us : ~ isConnected(count[u])}) \in Line
      BY <1>1, SubjectsAssumption, LineType
    <2>3. \A l \in Line : << l >> \in Seq(Line)
      OBVIOUS
    <2> QED BY <2>1, <2>2, <2>3, Zenon
  <1>3. Silent(a) /\ Silent(b)
    BY <1>1, SilentLine
  <1>4. userLines(us) = a \o b
    BY DEF userLines
  <1> HIDE DEF a, b
  <1>5. userLines(us) \in Seq(Line) /\ Silent(userLines(us))
    BY <1>2, <1>3, <1>4, SilentJoin
  <1>6. Silent(list(userLines(us))) /\ Silent(<< >>)
    BY <1>5, SilentLists DEF Silent
  <1> QED BY <1>6 DEF SilentOutput, sendList

\* No step of the sessions says anything of messages.
LEMMA SessionsAreSilent ==
    ASSUME SessionsTypeOK, SessionsNext
    PROVE  SilentOutput(out')
  <1>1. /\ {"400 BAD_REQUEST", "401 UNAUTHORIZED", "404 NOT_FOUND", "200 OK", "200 USER 1",
            "200 USER 0", "EVENT USER_LOGGED_IN", "EVENT USER_LOGGED_OUT"} \cap MailKinds = {}
        /\ {"200 OK", "EVENT USER_LOGGED_IN"} \subseteq Kinds
    BY DEF MailKinds, Kinds
  <1>2. SilentOutput(NoOutput)
    BY <1>1, SilentOutputs
  <1>3. ASSUME NEW c, NEW status, refuse(c, status),
               status \in {"400 BAD_REQUEST", "401 UNAUTHORIZED", "404 NOT_FOUND"}
        PROVE  SilentOutput(out')
    BY <1>1, <1>3, SilentOutputs DEF refuse
  <1>4. ASSUME NEW c, NEW table
        PROVE  SilentOutput(IF goneOffline(c) = {} THEN NoOutput
                  ELSE broadcast(line("EVENT USER_LOGGED_OUT", goneOffline(c)), table))
    <2>1. SilentOutput(broadcast(line("EVENT USER_LOGGED_OUT", goneOffline(c)), table))
      BY <1>1, SilentOutputs
    <2> QED BY <1>2, <2>1
  <1>5. ASSUME NEW c, NEW u \in UserIds, startSession(c, u) PROVE SilentOutput(out')
    <2> DEFINE a == sendToClient(line("200 OK", {u}), c)
               b == broadcast(line("EVENT USER_LOGGED_IN", {u}), clients)
    <2>1. line("200 OK", {u}) \in Line /\ line("EVENT USER_LOGGED_IN", {u}) \in Line
      BY <1>1, SubjectsAssumption, LineType
    <2>2. a \in Output /\ b \in Output
      BY <2>1, SendToClientType, BroadcastType
    <2>3. SilentOutput(a) /\ SilentOutput(b)
      BY <1>1, SilentOutputs
    <2>4. out' = Then(a, b)
      BY <1>5 DEF startSession
    <2> HIDE DEF a, b
    <2> QED BY <2>2, <2>3, <2>4, SilentThen
  <1>6. CASE Restart
    BY <1>2, <1>6 DEF Restart
  <1>7. ASSUME NEW c \in Conns, acceptClient(c) \/ disconnectClient(c) PROVE SilentOutput(out')
    BY <1>2, <1>4, <1>7 DEF acceptClient, disconnectClient
  <1>8. ASSUME NEW c \in Conns, NEW arg, Login(c, arg) PROVE SilentOutput(out')
    <2>1. CASE \E status \in {"400 BAD_REQUEST", "401 UNAUTHORIZED"} : refuse(c, status)
      BY <1>3, <2>1
    <2>2. CASE createNewUser(c, arg) \/ logUserIn(c, arg)
      BY <1>5, <2>2 DEF createNewUser, logUserIn, findUserByName, Registered
    <2> QED BY <1>8, <2>1, <2>2, Zenon DEF Login
  <1>9. ASSUME NEW c \in Conns, Logout(c) PROVE SilentOutput(out')
    <2> DEFINE a == IF goneOffline(c) = {} THEN NoOutput
                    ELSE broadcast(line("EVENT USER_LOGGED_OUT", goneOffline(c)), clients)
               b == sendToClient(line("200 OK", {}), c)
    <2>1. CASE refuse(c, "401 UNAUTHORIZED")
      BY <1>3, <2>1
    <2>2. CASE out' = Then(a, b)
      <3>1. line("200 OK", {}) \in Line
        BY <1>1, LineType
      <3>2. a \in Output /\ b \in Output
        BY <3>1, OfflineType, SendToClientType
      <3>3. SilentOutput(a) /\ SilentOutput(b)
        BY <1>1, <1>4, SilentOutputs
      <3> HIDE DEF a, b
      <3> QED BY <2>2, <3>2, <3>3, SilentThen
    <2> QED BY <1>9, <2>1, <2>2, Zenon DEF Logout
  <1>10. ASSUME NEW c \in Conns, UsersCommand(c) PROVE SilentOutput(out')
    <2>1. CASE refuse(c, "401 UNAUTHORIZED")
      BY <1>3, <2>1
    <2>2. CASE out' = sendList(list(userLines(Registered)), c)
      BY <2>2, SilentUserList DEF Registered
    <2> QED BY <1>10, <2>1, <2>2, Zenon DEF UsersCommand
  <1>11. ASSUME NEW c \in Conns, NEW arg, UserCommand(c, arg) PROVE SilentOutput(out')
    <2>1. CASE \E status \in {"400 BAD_REQUEST", "401 UNAUTHORIZED", "404 NOT_FOUND"} :
                  refuse(c, status)
      BY <1>3, <2>1
    <2>2. CASE \E kind \in {"200 USER 1", "200 USER 0"} :
                  out' = sendToClient(line(kind, {arg}), c)
      BY <1>1, <2>2, SilentOutputs
    <2> QED BY <1>11, <2>1, <2>2, Zenon DEF UserCommand
  <1> QED BY <1>6, <1>7, <1>8, <1>9, <1>10, <1>11
          DEF SessionsNext, ServerStep, SessionCommand

-------------------------------------------------------------------------------
(* The mail service *)

\* The conversations in the mailboxes box, by pairs of users.
ChatIn(box) ==
    [p \in {{u, v} : u, v \in UserIds} |-> Senders(box[One(p)][Other(p)])]

Mirrored(box) == \A u, v \in UserIds : box[u][v] = box[v][u]

\* Which of the two copies stands for the conversation makes no difference.
LEMMA EitherCopy ==
    ASSUME NEW box, Mirrored(box), NEW u \in UserIds, NEW v \in UserIds
    PROVE  ChatIn(box)[{u, v}] = Senders(box[u][v])
  <1> DEFINE p == {u, v}
             a == One(p)
             b == Other(p)
  <1>1. a \in {u, v}
    BY DEF One
  <1>2. b \in UserIds /\ p = {a, b}
    <2>1. \E x \in UserIds : p = {a, x}
      BY <1>1
    <2> HIDE DEF p
    <2> QED BY <2>1 DEF Other
  <1>3. ChatIn(box)[p] = Senders(box[a][b])
    <2>1. p \in {{x, y} : x, y \in UserIds}
      OBVIOUS
    <2> HIDE DEF p
    <2> QED BY <2>1 DEF ChatIn
  <1> HIDE DEF a, b
  <1>4. (a = u /\ b = v) \/ (a = v /\ b = u)
    BY <1>1, <1>2
  <1> QED BY <1>3, <1>4 DEF p, Mirrored

LEMMA SendersAppend ==
    ASSUME NEW ms \in Seq(Message), NEW m \in Message
    PROVE  Senders(Append(ms, m)) = Append(Senders(ms), m.from)
  <1> DEFINE S == [i \in 1..Len(ms) |-> ms[i].from]
             n == Len(ms)
  <1>1. n \in Nat /\ Len(Append(ms, m)) = n + 1
    OBVIOUS
  <1>2. \A i \in 1..n : Append(ms, m)[i] = ms[i]
    OBVIOUS
  <1>3. Append(ms, m)[n + 1] = m
    OBVIOUS
  <1>4. S \in Seq(UserIds) /\ Len(S) = n
    <2>1. \A i \in 1..n : ms[i] \in Message
      OBVIOUS
    <2>2. \A i \in 1..n : ms[i].from \in UserIds
      BY <2>1 DEF Message
    <2> HIDE DEF n
    <2>3. [i \in 1..n |-> ms[i].from] \in Seq(UserIds)
      BY <1>1, <2>2
    <2>4. Len([i \in 1..n |-> ms[i].from]) = n
      BY <1>1
    <2> QED BY <2>3, <2>4 DEF n
  <1>5. m.from \in UserIds
    BY DEF Message
  <1>6. Append(S, m.from) = [i \in 1..(n + 1) |-> IF i = n + 1 THEN m.from ELSE S[i]]
    BY <1>4, <1>5
  <1>7. Senders(Append(ms, m)) = [i \in 1..(n + 1) |-> Append(ms, m)[i].from]
    BY <1>1 DEF Senders
  <1>8. \A i \in 1..(n + 1) : Append(ms, m)[i].from = IF i = n + 1 THEN m.from ELSE S[i]
    BY <1>1, <1>2, <1>3
  <1> QED BY <1>6, <1>7, <1>8 DEF Senders

\* A step that says nothing of messages and leaves the mailboxes alone.
LEMMA SilentIsQuiet ==
    ASSUME SilentOutput(out'), userOf' \in [Conns -> UserIds \cup {None}], mail' = mail
    PROVE  Mail!Quiet
  <1>1. \A d \in Conns : Announced(out'[d]) = {} /\ Listed(out'[d]) = << >>
    BY SilentSaysNothing DEF SilentOutput
  <1>2. News' = [d \in Conns |-> {}] /\ Shown' = [d \in Conns |-> << >>]
    BY <1>1 DEF News, Shown
  <1>3. Chat' = Chat
    BY DEF Chat
  <1> QED BY <1>2, <1>3 DEF Mail!Quiet, Mail!ToldNothing, Mail!ShownNothing

\* A refused command is such a step.
LEMMA RefusedIsQuiet ==
    ASSUME SessionsTypeOK, NEW c \in Conns, NEW status \in Refusals, pmRefuse(c, status)
    PROVE  Mail!Quiet
  <1>1. status \notin MailKinds
    BY DEF Refusals, MailKinds
  <1>2. SilentOutput(out') /\ userOf' = userOf /\ mail' = mail
    BY <1>1, SilentOutputs DEF pmRefuse, refuse, sessionVars
  <1> QED BY <1>2, SilentIsQuiet DEF SessionsTypeOK

\* What d is sent: e, if it is one of the connections T, then a, if it is c.
Sent(d, T, e, c, a) == (IF d \in T THEN << e >> ELSE << >>) \o (IF d = c THEN << a >> ELSE << >>)

\* The lines of Sent are e, for the connections T, and a.
EventThenAnswer(ls, d, T, e, a) ==
    /\ \A i \in DOMAIN ls : (ls[i] = e /\ d \in T) \/ ls[i] = a
    /\ d \in T => 1 \in DOMAIN ls /\ ls[1] = e

LEMMA SentLines ==
    ASSUME NEW d, NEW T, NEW e, NEW c, NEW a
    PROVE  EventThenAnswer(Sent(d, T, e, c, a), d, T, e, a)
  <1>1. CASE d \in T /\ d = c
    BY <1>1 DEF Sent, EventThenAnswer
  <1>2. CASE d \in T /\ d # c
    BY <1>2 DEF Sent, EventThenAnswer
  <1>3. CASE d \notin T /\ d = c
    BY <1>3 DEF Sent, EventThenAnswer
  <1>4. CASE d \notin T /\ d # c
    BY <1>4 DEF Sent, EventThenAnswer
  <1> QED BY <1>1, <1>2, <1>3, <1>4

\* Of messages, the lines ls tell the connections T that u has written.
TellsOf(ls, d, T, u) ==
    Announced(ls) = (IF d \in T THEN {u} ELSE {}) /\ Listed(ls) = << >>

\* The event and the answer of /send on one connection.
LEMMA EventOrAnswer ==
    ASSUME NEW u \in UserIds, NEW d, NEW T, NEW c, NEW kind, kind \notin MailKinds, NEW of
    PROVE  TellsOf(Sent(d, T, line("EVENT PRIVATE_MESSAGE", {u}), c, line(kind, of)), d, T, u)
  <1> DEFINE e == line("EVENT PRIVATE_MESSAGE", {u})
             a == line(kind, of)
             p == d \in T
             ls == Sent(d, T, e, c, a)
  <1>1. e.kind = "EVENT PRIVATE_MESSAGE" /\ a.kind # "EVENT PRIVATE_MESSAGE"
        /\ e.kind # "210 MESSAGE" /\ a.kind # "210 MESSAGE"
    BY DEF line, MailKinds
  <1>2. \A w : line("EVENT PRIVATE_MESSAGE", {w}).kind = "EVENT PRIVATE_MESSAGE"
    BY DEF line
  <1>3. \A w : e = line("EVENT PRIVATE_MESSAGE", {w}) => w = u
    BY DEF line
  <1>4. EventThenAnswer(ls, d, T, e, a)
    BY SentLines
  <1> HIDE DEF e, a
  <1>5. /\ \A i \in DOMAIN ls : (ls[i] = e /\ p) \/ ls[i] = a
        /\ p => 1 \in DOMAIN ls /\ ls[1] = e
    BY <1>4 DEF EventThenAnswer
  <1> HIDE DEF ls
  <1>6. Listed(ls) = << >>
    BY <1>1, <1>5, Zenon DEF Listed
  <1>7. ASSUME NEW w \in UserIds
        PROVE  (\E i \in DOMAIN ls : ls[i] = line("EVENT PRIVATE_MESSAGE", {w})) <=> p /\ w = u
    <2>1. ASSUME NEW i \in DOMAIN ls, ls[i] = line("EVENT PRIVATE_MESSAGE", {w})
          PROVE  p /\ w = u
      <3>1. ls[i] # a
        BY <1>1, <1>2, <2>1
      <3> QED BY <1>3, <1>5, <2>1, <3>1
    <2>2. ASSUME p, w = u PROVE \E i \in DOMAIN ls : ls[i] = line("EVENT PRIVATE_MESSAGE", {w})
      BY <1>5, <2>2 DEF e
    <2> QED BY <2>1, <2>2
  <1>8. Announced(ls) = IF p THEN {u} ELSE {}
    BY <1>7 DEF Announced
  <1> QED BY <1>6, <1>8 DEF ls, e, a, TellsOf

\* A stored message is posted: both copies are the one conversation.
LEMMA StoredIsPost ==
    ASSUME PrivateMessagesInv, PrivateMessagesInv', NEW c \in Conns, NEW to, NEW m, Stored(c, to, m)
    PROVE  Mail!Post(c, to)
  <1> DEFINE s == userOf[c]
             P == {{u, v} : u, v \in UserIds}
  <1>0. PrivateMessagesTypeOK /\ SessionsTypeOK /\ SessionsAreRegistered
    BY DEF PrivateMessagesInv, SessionsInv
  <1>1. s \in UserIds /\ to \in UserIds /\ s # None /\ userOf' = userOf /\ m.from = s
    BY NoneAssumption DEF Stored, sessionVars
  <1>2. m \in Message /\ BothCopies(s, to, m)
    BY <1>0, StoredMail
  <1>3. Mirrored(mail) /\ Mirrored(mail')
    BY DEF PrivateMessagesInv, MailboxesMirror, Mirrored
  <1>4. Chat = ChatIn(mail) /\ Chat' = ChatIn(mail')
    BY DEF Chat, ChatIn
  <1>5. Chat' = [Chat EXCEPT ![{s, to}] = Mail!Longer(@, s, to)]
    <2> HIDE DEF s
    <2>1. ASSUME NEW u \in UserIds, NEW v \in UserIds
          PROVE  Chat'[{u, v}] = IF {u, v} = {s, to} THEN Mail!Longer(Chat[{u, v}], s, to)
                                 ELSE Chat[{u, v}]
      <3>1. Chat[{u, v}] = Senders(mail[u][v]) /\ Chat'[{u, v}] = Senders(mail'[u][v])
        BY <1>3, <1>4, EitherCopy
      <3>2. {u, v} = {s, to} <=> Parties(u, v, s, to)
        BY DEF Parties
      <3>3. mail[u][v] \in Seq(Message) /\ Append(mail[u][v], m) \in Seq(Message)
        BY <1>0, <1>2 DEF PrivateMessagesTypeOK
      <3>4. CASE ~ Parties(u, v, s, to)
        BY <1>2, <3>1, <3>2, <3>4 DEF BothCopies
      <3>5. CASE Parties(u, v, s, to) /\ s = to
        <4>1. mail'[u][v] = Append(Append(mail[u][v], m), m)
          BY <1>2, <3>5 DEF BothCopies
        <4>2. Senders(mail'[u][v]) = Append(Append(Senders(mail[u][v]), s), s)
          BY <1>1, <1>2, <3>3, <4>1, SendersAppend
        <4> QED BY <3>1, <3>2, <3>5, <4>2 DEF Mail!Longer
      <3>6. CASE Parties(u, v, s, to) /\ s # to
        <4>1. mail'[u][v] = Append(mail[u][v], m)
          BY <1>2, <3>6 DEF BothCopies
        <4>2. Senders(mail'[u][v]) = Append(Senders(mail[u][v]), s)
          BY <1>1, <1>2, <3>3, <4>1, SendersAppend
        <4> QED BY <3>1, <3>2, <3>6, <4>2 DEF Mail!Longer
      <3> QED BY <3>4, <3>5, <3>6
    <2>2. \A p \in P : Chat'[p] = IF p = {s, to} THEN Mail!Longer(Chat[p], s, to) ELSE Chat[p]
      BY <2>1
    <2>3. Chat = [p \in P |-> Chat[p]] /\ Chat' = [p \in P |-> Chat'[p]]
      BY DEF Chat
    <2> HIDE DEF P
    <2> QED BY <2>2, <2>3
  <1>6. ASSUME NEW d \in Conns
        PROVE  /\ Announced(out'[d]) = IF userOf[d] = to THEN {s} ELSE {}
               /\ Listed(out'[d]) = << >>
    <2> DEFINE e == line("EVENT PRIVATE_MESSAGE", {s})
               a == line("200 OK", {})
    <2>1. out'[d] = Sent(d, SessionsOf(to), e, c, a)
      BY DEF Stored, sendToUser, Then, broadcast, sendToClient, Sent
    <2>2. d \in SessionsOf(to) <=> userOf[d] = to
      BY <1>0, <1>1, NoneAssumption DEF SessionsOf, SessionsAreRegistered
    <2>3. TellsOf(Sent(d, SessionsOf(to), e, c, a), d, SessionsOf(to), s)
      <3>1. s \in UserIds /\ "200 OK" \notin MailKinds
        BY <1>1 DEF MailKinds
      <3> HIDE DEF s
      <3> QED BY <3>1, EventOrAnswer
    <2> QED BY <2>1, <2>2, <2>3 DEF TellsOf
  <1>7. News' = [d \in Conns |-> IF userOf[d] = to THEN {s} ELSE {}]
    BY <1>6 DEF News
  <1>8. Shown' = [d \in Conns |-> << >>]
    BY <1>6 DEF Shown
  <1> QED BY <1>1, <1>5, <1>7, <1>8 DEF Mail!Post, Mail!ShownNothing

\* The items of t are those of s, with b before and z behind them.
Encloses(t, b, s, z) ==
    /\ Len(t) = Len(s) + 2 /\ DOMAIN t = 1..(Len(s) + 2)
    /\ t[1] = b /\ t[Len(s) + 2] = z
    /\ \A i \in 1..Len(s) : t[i + 1] = s[i]

LEMMA Enclosed ==
    ASSUME NEW S, NEW s \in Seq(S), NEW b \in S, NEW z \in S
    PROVE  Encloses(<< b >> \o s \o << z >>, b, s, z)
  <1> DEFINE a == << b >> \o s
             t == a \o << z >>
  <1>1. << b >> \in Seq(S) /\ Len(<< b >>) = 1 /\ << b >>[1] = b
    OBVIOUS
  <1>2. << z >> \in Seq(S) /\ Len(<< z >>) = 1 /\ << z >>[1] = z
    OBVIOUS
  <1>3. PICK n \in Nat : n = Len(s)
    OBVIOUS
  <1>4. /\ a \in Seq(S) /\ Len(a) = n + 1
        /\ \A i \in 1..(n + 1) : a[i] = IF i <= 1 THEN << b >>[i] ELSE s[i - 1]
    <2>1. /\ a \in Seq(S) /\ Len(a) = 1 + n
          /\ \A i \in 1..(1 + n) : a[i] = IF i <= 1 THEN << b >>[i] ELSE s[i - 1]
      BY <1>1, <1>3, ConcatProperties
    <2>2. 1 + n = n + 1
      OBVIOUS
    <2> QED BY <2>1, <2>2, Zenon
  <1> HIDE DEF a
  <1>5. /\ t \in Seq(S) /\ Len(t) = (n + 1) + 1
        /\ \A i \in 1..((n + 1) + 1) : t[i] = IF i <= n + 1 THEN a[i] ELSE << z >>[i - (n + 1)]
    BY <1>2, <1>4, ConcatProperties
  <1> HIDE DEF t
  <1>6. Len(t) = n + 2 /\ DOMAIN t = 1..(n + 2)
    BY <1>5
  <1>7. t[1] = b
    <2>1. 1 \in 1..((n + 1) + 1) /\ 1 \in 1..(n + 1) /\ 1 <= n + 1 /\ 1 <= 1
      OBVIOUS
    <2> QED BY <1>1, <1>4, <1>5, <2>1, Zenon
  <1>8. t[n + 2] = z
    <2>1. n + 2 \in 1..((n + 1) + 1) /\ ~ (n + 2 <= n + 1) /\ n + 2 - (n + 1) = 1
      OBVIOUS
    <2>2. t[n + 2] = << z >>[n + 2 - (n + 1)]
      BY <1>5, <2>1
    <2> QED BY <1>2, <2>1, <2>2, Zenon
  <1>9. ASSUME NEW i \in 1..n PROVE t[i + 1] = s[i]
    <2>1. /\ i + 1 \in 1..((n + 1) + 1) /\ i + 1 \in 1..(n + 1) /\ i + 1 <= n + 1
          /\ ~ (i + 1 <= 1) /\ i + 1 - 1 = i
      OBVIOUS
    <2>2. t[i + 1] = a[i + 1] /\ a[i + 1] = s[i + 1 - 1]
      BY <1>4, <1>5, <2>1
    <2> QED BY <2>1, <2>2, Zenon
  <1>10. Encloses(t, b, s, z)
    BY <1>3, <1>6, <1>7, <1>8, <1>9 DEF Encloses
  <1> QED BY <1>10 DEF t, a

\* The lines of a conversation, and the senders that are read off them.
LEMMA ListedSenders ==
    ASSUME NEW ms \in Seq(Message)
    PROVE  LET ls == list(messageLines(ms))
           IN  Announced(ls) = {} /\ Listed(ls) = Senders(ms)
  <1> DEFINE n == Len(ms)
             items == messageLines(ms)
             b == line("210-BEGIN", {})
             z == line("210-END", {})
             ls == list(items)
  <1>0. \A kind, of : line(kind, of).kind = kind /\ line(kind, of).of = of
    BY DEF line
  <1>1. n \in Nat /\ items \in Seq(Line) /\ \A i \in 1..n : ms[i].from \in UserIds
    <2>1. \A i \in 1..n : ms[i] \in Message
      OBVIOUS
    <2>2. \A i \in 1..n : ms[i].from \in UserIds
      BY <2>1 DEF Message
    <2>3. items \in Seq(Line)
      BY MessageLinesType
    <2> QED BY <2>2, <2>3
  <1>2. Len(items) = n /\ \A i \in 1..n : items[i] = line("210 MESSAGE", {ms[i].from})
    <2>1. items = [i \in 1..n |-> line("210 MESSAGE", {ms[i].from})]
      BY DEF messageLines
    <2> HIDE DEF n, items
    <2>2. DOMAIN items = 1..n /\ \A i \in 1..n : items[i] = line("210 MESSAGE", {ms[i].from})
      BY <2>1, Zenon
    <2>3. DOMAIN items = 1..Len(items) /\ Len(items) \in Nat
      BY <1>1
    <2>4. Len(items) = n
      <3>1. \A j, k \in Nat : 1..j = 1..k => j = k
        OBVIOUS
      <3> QED BY <1>1, <2>2, <2>3, <3>1, Zenon
    <2> QED BY <2>2, <2>4
  <1>3. b \in Line /\ z \in Line
    BY LineType DEF Kinds
  <1>4. b.kind = "210-BEGIN" /\ z.kind = "210-END"
    BY DEF line
  <1>5. ls = << b >> \o items \o << z >>
    BY DEF list
  <1> HIDE DEF n, items, b, z, ls
  <1>6. /\ Len(ls) = n + 2 /\ DOMAIN ls = 1..(n + 2) /\ ls[1] = b /\ ls[n + 2] = z
        /\ \A i \in 1..n : ls[i + 1] = items[i]
    <2>1. Encloses(ls, b, items, z)
      BY <1>1, <1>3, <1>5, Enclosed
    <2> QED BY <1>2, <2>1, Zenon DEF Encloses
  <1>7. \A i \in 1..n : ls[i + 1] = line("210 MESSAGE", {ms[i].from})
    BY <1>2, <1>6
  <1>8. \A i \in DOMAIN ls : i = 1 \/ i = n + 2 \/ i - 1 \in 1..n
    BY <1>1, <1>6
  <1>9. ASSUME NEW i \in DOMAIN ls
        PROVE  /\ ls[i].kind # "EVENT PRIVATE_MESSAGE"
               /\ ls[i].kind = "210 MESSAGE" => n # 0
    <2>1. CASE i = 1 \/ i = n + 2
      BY <1>4, <1>6, <2>1
    <2>2. CASE i - 1 \in 1..n
      <3>0. i \in 1..(n + 2) /\ n \in Nat
        BY <1>1, <1>6, Zenon
      <3>1. (i - 1) + 1 = i /\ n # 0
        BY <2>2, <3>0
      <3>2. ls[i] = line("210 MESSAGE", {ms[i - 1].from})
        BY <1>7, <2>2, <3>1
      <3>3. ls[i].kind = "210 MESSAGE"
        BY <1>0, <3>2
      <3> QED BY <3>1, <3>3
    <2> QED BY <1>8, <2>1, <2>2
  <1>10. Announced(ls) = {}
    <2>1. \A w : line("EVENT PRIVATE_MESSAGE", {w}).kind = "EVENT PRIVATE_MESSAGE"
      BY <1>0, Zenon
    <2>2. \A w : ~ \E i \in DOMAIN ls : ls[i] = line("EVENT PRIVATE_MESSAGE", {w})
      BY <1>9, <2>1, Zenon
    <2> QED BY <2>2, Zenon DEF Announced
  <1>11. CASE n = 0
    <2>1. Listed(ls) = << >>
      BY <1>9, <1>11, Zenon DEF Listed
    <2>2. Senders(ms) = << >>
      BY <1>11 DEF Senders, n
    <2> QED BY <1>10, <2>1, <2>2 DEF ls, items
  <1>12. CASE n # 0
    <2>1. 1 \in 1..n /\ 1 + 1 \in DOMAIN ls
      BY <1>1, <1>6, <1>12
    <2>2. ls[1 + 1].kind = "210 MESSAGE"
      BY <1>0, <1>7, <2>1
    <2>3. Listed(ls) = [i \in 1..(Len(ls) - 2) |-> CHOOSE u \in UserIds : ls[i + 1].of = {u}]
      BY <2>1, <2>2, Zenon DEF Listed
    <2>4. Len(ls) - 2 = n
      BY <1>1, <1>6
    <2>5. ASSUME NEW i \in 1..n
          PROVE  (CHOOSE u \in UserIds : ls[i + 1].of = {u}) = ms[i].from
      <3>1. ls[i + 1].of = {ms[i].from} /\ ms[i].from \in UserIds
        <4>1. ls[i + 1] = line("210 MESSAGE", {ms[i].from})
          BY <1>7
        <4>2. line("210 MESSAGE", {ms[i].from}).of = {ms[i].from}
          BY <1>0, Zenon
        <4> QED BY <1>1, <4>1, <4>2
      <3> QED BY <3>1
    <2>6. Listed(ls) = [i \in 1..n |-> ms[i].from]
      BY <2>3, <2>4, <2>5
    <2> QED BY <1>10, <2>6 DEF Senders, n, ls, items
  <1> QED BY <1>11, <1>12

\* A conversation that is listed is read, whichever of its users asks.
LEMMA ListedIsRead ==
    ASSUME PrivateMessagesInv, NEW c \in Conns, NEW arg, ListedTo(c, arg)
    PROVE  Mail!Read(c, arg)
  <1> DEFINE ms == mail[userOf[c]][arg]
  <1>1. /\ userOf[c] \in UserIds /\ arg \in UserIds /\ userOf[c] # None
        /\ userOf' = userOf /\ mail' = mail
        /\ out' = sendList(list(messageLines(ms)), c)
    BY NoneAssumption DEF ListedTo, sessionVars
  <1>2. Mirrored(mail)
    BY DEF PrivateMessagesInv, MailboxesMirror, Mirrored
  <1>3. Chat = ChatIn(mail) /\ Chat' = Chat
    BY <1>1 DEF Chat, ChatIn
  <1>4. Chat[{userOf[c], arg}] = Senders(ms)
    BY <1>1, <1>2, <1>3, EitherCopy
  <1>5. ms \in Seq(Message)
    BY <1>1 DEF PrivateMessagesInv, PrivateMessagesTypeOK
  <1> HIDE DEF ms
  <1>6. Announced(list(messageLines(ms))) = {} /\ Listed(list(messageLines(ms))) = Senders(ms)
    BY <1>5, ListedSenders
  <1>7. Announced(<< >>) = {} /\ Listed(<< >>) = << >>
    BY SilentSaysNothing DEF Silent
  <1>8. \A d \in Conns : out'[d] = IF d = c THEN list(messageLines(ms)) ELSE << >>
    BY <1>1 DEF sendList
  <1>9. \A d \in Conns : Announced(out'[d]) = {}
    BY <1>6, <1>7, <1>8
  <1>10. \A d \in Conns : Listed(out'[d]) = IF d = c THEN Senders(ms) ELSE << >>
    BY <1>6, <1>7, <1>8
  <1>11. News' = [d \in Conns |-> {}]
    BY <1>9 DEF News
  <1>12. Shown' = [d \in Conns |-> IF d = c THEN Senders(ms) ELSE << >>]
    BY <1>10 DEF Shown
  <1> QED BY <1>1, <1>3, <1>4, <1>11, <1>12 DEF Mail!Read, Mail!ToldNothing

\* Every step of the server is one of the mail service.
LEMMA StepImplementsMail ==
    ASSUME PrivateMessagesInv, PrivateMessagesInv', PrivateMessagesNext
    PROVE  Mail!MailNext
  <1>0. SessionsTypeOK /\ SessionsTypeOK'
    BY DEF PrivateMessagesInv, SessionsInv
  <1>1. CASE SessionsNext /\ UNCHANGED << mail, sent >>
    <2>1. userOf' \in [Conns -> UserIds \cup {None}]
      BY <1>0 DEF SessionsTypeOK
    <2> QED BY <1>0, <1>1, <2>1, SessionsAreSilent, SilentIsQuiet DEF Mail!MailNext
  <1>2. ASSUME NEW c \in Conns, NEW to \in UserIds \cup {None, Invalid}, NEW body, Send(c, to, body)
        PROVE  Mail!MailNext
    <2>1. CASE \E status \in Refusals : pmRefuse(c, status)
      BY <1>0, <2>1, RefusedIsQuiet DEF Mail!MailNext
    <2>2. CASE \E m : Stored(c, to, m)
      <3>1. to \in UserIds
        BY <2>2 DEF Stored
      <3> QED BY <2>2, <3>1, StoredIsPost DEF Mail!MailNext
    <2> QED BY <1>0, <1>2, <2>1, <2>2, SendShape
  <1>3. ASSUME NEW c \in Conns, NEW arg \in UserIds \cup {None, Invalid}, Messages(c, arg)
        PROVE  Mail!MailNext
    <2>1. CASE \E status \in Refusals : pmRefuse(c, status)
      BY <1>0, <2>1, RefusedIsQuiet DEF Mail!MailNext
    <2>2. CASE ListedTo(c, arg)
      <3>1. arg \in UserIds
        BY <2>2 DEF ListedTo
      <3> QED BY <2>2, <3>1, ListedIsRead DEF Mail!MailNext
    <2> QED BY <1>0, <1>3, <2>1, <2>2, MessagesShape
  <1> QED BY <1>1, <1>2, <1>3 DEF PrivateMessagesNext, MessageCommand

\* The server starts without messages.
LEMMA InitImplementsMail == PrivateMessagesInit => Mail!MailInit
  <1> SUFFICES ASSUME PrivateMessagesInit PROVE Mail!MailInit
    OBVIOUS
  <1>1. /\ userOf = [c \in Conns |-> None] /\ \A c \in Conns : out[c] = << >>
        /\ \A u, v \in UserIds : mail[u][v] = << >>
    BY DEF PrivateMessagesInit, SessionsInit, NoOutput
  <1>2. Mirrored(mail) /\ Chat = ChatIn(mail)
    BY <1>1 DEF Mirrored, Chat, ChatIn
  <1>3. Senders(<< >>) = << >>
    BY DEF Senders
  <1>4. ASSUME NEW u \in UserIds, NEW v \in UserIds PROVE Chat[{u, v}] = << >>
    <2>1. Chat[{u, v}] = Senders(mail[u][v])
      BY <1>2, EitherCopy
    <2> QED BY <1>1, <1>3, <2>1, Zenon
  <1>5. Chat = [p \in Mail!Pairs |-> Chat[p]]
    BY DEF Chat, Mail!Pairs
  <1>6. Chat = [p \in Mail!Pairs |-> << >>]
    <2>1. ASSUME NEW p \in Mail!Pairs PROVE Chat[p] = << >>
      <3>1. PICK u \in UserIds, v \in UserIds : p = {u, v}
        BY DEF Mail!Pairs
      <3> QED BY <1>4, <3>1, Zenon
    <2> QED BY <1>5, <2>1, Zenon
  <1>7. Announced(<< >>) = {} /\ Listed(<< >>) = << >>
    BY SilentSaysNothing DEF Silent
  <1>8. News = [c \in Conns |-> {}] /\ Shown = [c \in Conns |-> << >>]
    BY <1>1, <1>7 DEF News, Shown
  <1> QED BY <1>1, <1>6, <1>8 DEF Mail!MailInit

\* The server implements the mail service: although Send::execute writes two
\* copies and Messages::execute lists one of them, every two users have one
\* conversation, which grows by what one of them writes, is shown whole and in
\* order to the one who asks and to nobody else, and survives logouts,
\* disconnections and restarts.
THEOREM ServerImplementsMail == PrivateMessagesSpec => ImplementsMail
  <1>1. PrivateMessagesInv /\ PrivateMessagesInv' /\ [PrivateMessagesNext]_pmVars
        => [Mail!MailNext]_(Mail!mailVars)
    <2>1. UNCHANGED pmVars => UNCHANGED Mail!mailVars
      BY DEF pmVars, Mail!mailVars, News, Shown, Chat
    <2> QED BY <2>1, StepImplementsMail
  <1> QED BY <1>1, InitImplementsMail, PrivateMessagesInvariant, PTL
          DEF PrivateMessagesSpec, ImplementsMail, Mail!MailSpec
===============================================================================
