------------------------------ MODULE Persistence -----------------------------
(***************************************************************************)
(* The save file of myteams_server over the life of several server         *)
(* processes: a process loads the file when it starts, fills its database, *)
(* and saves it when a signal has ended its loop. It may be killed at any  *)
(* time, and a save may fail or be cut off after any number of bytes.      *)
(*                                                                         *)
(*   process   "down", "running", or "saving" (the file is open)           *)
(*   db        Server::_db                                                 *)
(*   file      myteams_data.json: {} when there is none, or its content    *)
(*   stored    {} or the database of the last save that wrote to the file, *)
(*             and                                                         *)
(*   whole     whether that save wrote all of it (history variables)       *)
(*   over      the parser has read a character that is not there           *)
(*   changes   the changes that commands made so far                       *)
(*   faults    the kills and failed saves so far                           *)
(*                                                                         *)
(* Which of the operations below a command comes to, and when it is        *)
(* refused, is in modules Sessions, Workspace and PrivateMessages; here    *)
(* is what they leave in the database.                                     *)
(***************************************************************************)
EXTENDS Json

CONSTANTS
    Uuids,      \* a sequence of distinct characters, the ends of uuids
    Texts,      \* a sequence of distinct texts: names, descriptions and bodies
    Now,        \* std::time(nullptr): a number
    MaxChanges, \* bound on the changes that commands make ...
    FaultChanges,   \* ... of which a fault costs so many
    MaxFaults   \* bound on the kills and failed saves

ASSUME PersistenceAssumption ==
    /\ {MaxChanges, FaultChanges, MaxFaults} \subseteq Nat
    /\ \A s \in {Uuids, Texts} : MaxChanges <= Len(s) /\ IsInjective(s)
    /\ Now \in Seq(Digits) \ {<< >>}

VARIABLES process, db, file, stored, whole, over, changes, faults

fileVars == << file, stored, whole >>
persistenceVars == << process, db, file, stored, whole, over, changes, faults >>

NoData == [users |-> << >>, teams |-> << >>]

-------------------------------------------------------------------------------
(* What the handlers leave in the database *)

\* The server runs, and the bound allows one more change.
MayChange == process = "running" /\ changes + FaultChanges * faults < MaxChanges

\* A command changes the database to d.
Changes(d) ==
    /\ MayChange
    /\ db' = d /\ changes' = changes + 1
    /\ UNCHANGED << process, fileVars, over, faults >>

\* The teams, channels, threads and replies of the database, of all lists.
teams == ToSet(db.teams)
channels == UNION {ToSet(t.channels) : t \in teams}
threads == UNION {ToSet(c.threads) : c \in channels}
replies == UNION {ToSet(r.replies) : r \in threads}

\* generateUuid, uuid_generate: a uuid of two characters that no item has.
\* (It does not tell in which order items of different kinds were created.)
newUuid(kind, others) ==
    LET free(x) == \A o \in others : o.uuid # << kind, x >>
    IN  << kind, Uuids[SelectInSeq(Uuids, free)] >>

\* A name that is not taken; a name that is taken creates nothing. (The model
\* takes the first of Texts that is free, and Texts[1] for any other text.)
newName(taken) == Texts[SelectInSeq(Texts, LAMBDA x : x \notin taken)]
names(s) == {x.name : x \in ToSet(s)}
titles(s) == {x.title : x \in ToSet(s)}

\* createNewUser.
createNewUser ==
    Changes([db EXCEPT !.users = Append(@,
        [uuid |-> newUuid("u", ToSet(db.users)), name |-> newName(names(db.users)),
         count |-> 1, teams |-> << >>, messages |-> << >>])])

\* logUserIn: a user whom load has brought back gets a session. (A user's
\* further sessions are in module Sessions. A login that no change can follow
\* is left out.)
logUserIn(u) ==
    /\ MayChange
    /\ db.users[u].count = 0
    /\ db' = [db EXCEPT !.users[u].count = @ + 1]
    /\ UNCHANGED << process, fileVars, over, changes, faults >>

\* The users that are logged in.
Connected == {u \in DOMAIN db.users : db.users[u].count > 0}

\* User::addMessage.
addMessage(user, other, m) ==
    LET before == IF other \in DOMAIN user.messages THEN user.messages[other] ELSE << >>
    IN  [user EXCEPT !.messages = (other :> Append(before, m)) @@ @]

\* Send::execute: both users keep the message.
Send(u, v) ==
    LET m == [sender |-> db.users[u].uuid, receiver |-> db.users[v].uuid,
              timestamp |-> Now, body |-> Texts[1]]
    IN  Changes([db EXCEPT !.users[u] = addMessage(@, m.receiver, m),
                           !.users[v] = addMessage(@, m.sender, m)])

\* Create::executeTeam: the creator is subscribed.
executeTeam(u) ==
    Changes([db EXCEPT !.teams = Append(@,
        [uuid |-> newUuid("t", teams), name |-> newName(names(db.teams)),
         description |-> Texts[1], subscribers |-> << db.users[u].uuid >>, channels |-> << >>])])

\* Create::executeChannel, in team t.
executeChannel(t) ==
    Changes([db EXCEPT !.teams[t].channels = Append(@,
        [uuid |-> newUuid("c", channels), name |-> newName(names(db.teams[t].channels)),
         description |-> Texts[1], threads |-> << >>])])

\* Create::executeThread, in channel c of team t.
executeThread(u, t, c) ==
    Changes([db EXCEPT !.teams[t].channels[c].threads = Append(@,
        [uuid |-> newUuid("r", threads), user_uuid |-> db.users[u].uuid, timestamp |-> Now,
         title |-> newName(titles(db.teams[t].channels[c].threads)), body |-> Texts[1],
         replies |-> << >>])])

\* Create::executeReply, in thread r of channel c of team t.
executeReply(u, t, c, r) ==
    Changes([db EXCEPT !.teams[t].channels[c].threads[r].replies = Append(@,
        [uuid |-> newUuid("p", replies), user_uuid |-> db.users[u].uuid, timestamp |-> Now,
         body |-> Texts[1]])])

\* The teams that a user is subscribed to.
SubscribedTo(u) ==
    {t \in DOMAIN db.teams : Contains(db.teams[t].subscribers, db.users[u].uuid)}

\* Team::addSubscriber: a user that is no subscriber becomes one.
addSubscriber(u, t) ==
    /\ t \notin SubscribedTo(u)
    /\ Changes([db EXCEPT !.teams[t].subscribers = Append(@, db.users[u].uuid)])

\* Team::removeSubscriber.
removeSubscriber(u, t) ==
    Changes([db EXCEPT !.teams[t].subscribers = SelectSeq(@, LAMBDA s : s # db.users[u].uuid)])

Command ==
    \/ createNewUser
    \/ \E u \in DOMAIN db.users : logUserIn(u)
    \/ \E u \in Connected :
          \/ \E v \in DOMAIN db.users : Send(u, v)
          \/ executeTeam(u)
          \/ \E t \in DOMAIN db.teams : addSubscriber(u, t)
          \/ \E t \in SubscribedTo(u) :
                \/ removeSubscriber(u, t)
                \/ executeChannel(t)
                \/ \E c \in DOMAIN db.teams[t].channels :
                      \/ executeThread(u, t, c)
                      \/ \E r \in DOMAIN db.teams[t].channels[c].threads :
                            executeReply(u, t, c, r)

-------------------------------------------------------------------------------
(* SaveManager *)

\* Regression variant: the teams come first.
contentTeamsFirst(d) ==
    object(<< member("teams", jsonArray(each(d.teams, teamToJson))),
              member("users", jsonArray(each(d.users, userToJson))) >>)

\* What save writes.
content(d) ==
    object(<< member("users", jsonArray(each(d.users, userToJson))),
              member("teams", jsonArray(each(d.teams, teamToJson))) >>)

\* What load makes of a content that was parsed.
database(root) ==
    [users |-> each(at(root, "users").array, userFromJson),
     teams |-> each(at(root, "teams").array, teamFromJson)]

\* The process ends, and its memory is gone.
Ends == process' = "down" /\ db' = NoData

\* The end of run: SaveManager::save opens the file, which empties it, or
\* returns when it cannot.
saveOpen ==
    /\ process = "running"
    /\ \/ /\ process' = "saving"
          /\ file' = {<< >>}
          /\ stored' = {[db EXCEPT !.users = [u \in DOMAIN @ |-> [@[u] EXCEPT !.count = 0]]]}
          /\ whole' = FALSE
          /\ UNCHANGED << db, faults >>
       \/ /\ faults < MaxFaults
          /\ faults' = faults + 1
          /\ Ends
          /\ UNCHANGED fileVars
    /\ UNCHANGED << changes, over >>

\* SaveManager::save writes the content, or as much of it as there is time or
\* room for; nobody looks at the state of the stream.
saveWrite ==
    /\ process = "saving"
    /\ Ends
    /\ \E text \in {content(db)} : \E n \in 0..Len(text) :
          /\ n = Len(text) \/ faults < MaxFaults
          /\ file' = {SubSeq(text, 1, n)}
          /\ whole' = (n = Len(text))
          /\ faults' = IF n = Len(text) THEN faults ELSE faults + 1
    /\ UNCHANGED << stored, over, changes >>

\* The process is killed while it runs: the file stays as it is.
Kill ==
    /\ process = "running" /\ faults < MaxFaults
    /\ Ends
    /\ faults' = faults + 1
    /\ UNCHANGED << fileVars, over, changes >>

\* Server::init: SaveManager::load into an empty database.
load ==
    /\ process = "down"
    /\ process' = "running"
    /\ IF file = {} THEN db' = NoData /\ UNCHANGED over
       ELSE \E text \in file : \E root \in {parseValue(text, 1)} :
               /\ db' = database(root.val)
               /\ over' = (over \/ root.over)
    /\ UNCHANGED << fileVars, changes, faults >>

PersistenceInit ==
    /\ process = "down" /\ db = NoData /\ file = {}
    /\ stored = {} /\ whole = TRUE /\ over = FALSE
    /\ changes = 0 /\ faults = 0

PersistenceNext == Command \/ saveOpen \/ saveWrite \/ Kill \/ load

PersistenceSpec == PersistenceInit /\ [][PersistenceNext]_persistenceVars

-------------------------------------------------------------------------------
(* Properties *)

\* Type invariant of the database, the loaded one included: every time stamp
\* is a number, and every text has only characters that somebody typed, or
\* the NUL that a cut escape leaves.
PersistenceTypeOK ==
    LET Chars == UNION {ToSet(t) : t \in ToSet(Texts) \cup {Uuids}}
                 \cup {"u", "t", "c", "r", "p", NUL}
        text(s) == ToSet(s) \subseteq Chars
        number(s) == s # << >> /\ ToSet(s) \subseteq Digits
    IN
    /\ process \in {"down", "running", "saving"}
    /\ {whole, over} \subseteq BOOLEAN
    /\ changes \in 0..MaxChanges /\ faults \in 0..MaxFaults
    /\ \A u \in ToSet(db.users) :
          /\ text(u.uuid) /\ text(u.name) /\ u.count \in Nat
          /\ \A other \in DOMAIN u.messages :
                /\ text(other)
                /\ \A m \in ToSet(u.messages[other]) :
                      text(m.sender) /\ text(m.receiver) /\ number(m.timestamp) /\ text(m.body)
    /\ \A t \in ToSet(db.teams) :
          /\ text(t.uuid) /\ text(t.name) /\ text(t.description)
          /\ \A c \in ToSet(t.channels) : \A r \in ToSet(c.threads) :
                /\ text(r.uuid) /\ number(r.timestamp) /\ text(r.title)
                /\ \A p \in ToSet(r.replies) : number(p.timestamp) /\ text(p.body)

\* A server starts.
Starts == process = "down" /\ process' = "running"

\* "When the server starts it must look if the save file exists and load it if
\* it does": after a save that was not cut off, and after a kill or a save that
\* could not open the file, a server starts with exactly the database that was
\* saved last, whatever its texts hold, and nobody is connected; also when that
\* database came out of a file that was cut off.
SavedIsRestored ==
    [][Starts /\ whole => db' = IF stored = {} THEN NoData
                                ELSE CHOOSE d \in stored : TRUE]_persistenceVars

\* p is what is left of the sequence s behind a cut: all of the items before
\* the last are intact, and of the last one "part" says what may be left.
Cut(p, s, part(_, _)) ==
    /\ Len(p) <= Len(s)
    /\ \A i \in 1..Len(p) - 1 : p[i] = s[i]
    /\ p # << >> => part(Last(p), s[Len(p)])

\* What may be left of a text: its start, and a NUL where an escape was cut.
CutText(p, s) == IsPrefix(p, s) \/ (p # << >> /\ Last(p) = NUL /\ IsPrefix(Front(p), s))

\* What may be left of an item with these text fields and the list behind
\* them: a field is intact when a later one has begun.
CutItem(p, s, fields, list) ==
    /\ \A i \in DOMAIN fields :
          /\ CutText(p[fields[i]], s[fields[i]])
          /\ p[fields[i]] # << >> =>
                \A j \in 1..i - 1 : p[fields[j]] = s[fields[j]]
    /\ p[list] # << >> => [p EXCEPT ![list] = s[list]] = s

cutMessage(p, s) == CutItem(p, s, << "sender", "receiver", "body" >>, "body")
cutReply(p, s) == CutItem(p, s, << "uuid", "user_uuid", "body" >>, "body")
cutThread(p, s) ==
    /\ CutItem(p, s, << "uuid", "user_uuid", "title", "body" >>, "replies")
    /\ Cut(p.replies, s.replies, cutReply)
cutChannel(p, s) ==
    /\ CutItem(p, s, << "uuid", "name", "description" >>, "threads")
    /\ Cut(p.threads, s.threads, cutThread)
cutTeam(p, s) ==
    /\ CutItem(p, s, << "uuid", "name", "description" >>, "channels")
    /\ Cut(p.subscribers, s.subscribers, CutText)
    /\ Cut(p.channels, s.channels, cutChannel)
\* All conversations but one are intact: the one that was being written.
cutUser(p, s) ==
    /\ CutItem(p, s, << "uuid", "name" >>, "messages")
    /\ \E last \in DOMAIN p.messages \cup {<< >>} : \A other \in DOMAIN p.messages :
          \/ other \in DOMAIN s.messages /\ p.messages[other] = s.messages[other]
          \/ other = last /\ p.messages[other] = << >>
          \/ /\ other = last /\ other \in DOMAIN s.messages
             /\ Cut(p.messages[other], s.messages[other], cutMessage)

\* After a save that was cut off anywhere, a server starts with what was
\* written before the cut and with nothing else: the items before the cut are
\* intact, at most one item of each list and at most one conversation of a user
\* is incomplete, and there are teams only if all users are intact.
TornFileIsAPrefix ==
    [][Starts /\ ~ whole =>
          \A d \in stored :
             /\ Cut(db'.users, d.users, cutUser)
             /\ Cut(db'.teams, d.teams, cutTeam)
             /\ db'.teams # << >> => db'.users = d.users]_persistenceVars

\* The parser never reads behind the end of the file, wherever the file was
\* cut off. (It also comes to an end: otherwise load would not.)
LoadNeverRunsOver == ~ over
===============================================================================
