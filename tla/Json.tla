--------------------------------- MODULE Json ---------------------------------
(***************************************************************************)
(* The save file of myteams_server, character by character: the serializer *)
(* (JsonSerializer.cpp), the parser (JsonParser.cpp) and the way back from *)
(* what was parsed to the database.                                        *)
(*                                                                         *)
(* The database, as saved:                                                 *)
(*   user     uuid, name, count (of connections; not saved), teams,        *)
(*            messages: a function from the uuid of the other to messages  *)
(*   message  sender, receiver, timestamp, body                            *)
(*   team     uuid, name, description, subscribers, channels               *)
(*   channel  uuid, name, description, threads                             *)
(*   thread   uuid, user_uuid, timestamp, title, body, replies             *)
(*   reply    uuid, user_uuid, timestamp, body                             *)
(* Their fields are texts, but for the lists; a number is its digits.      *)
(***************************************************************************)
EXTENDS Chars, TLC

Digits == {"0", "1", "2"}
NUL == "NUL"    \* the character that std::string has behind its last one

-------------------------------------------------------------------------------
(* Serializer *)

escapeJson(s) ==
    fold(LAMBDA out, c : out \o (IF c \in {Quote, Backslash} THEN << Backslash, c >>
                                 ELSE << c >>), << Quote >>, s) \o << Quote >>

\* The texts ts with commas between them.
joined(ts) == fold(LAMBDA out, t : IF out = << >> THEN t ELSE out \o << "," >> \o t, << >>, ts)

\* A key is one character, so a save is never cut inside one. (In the code a key
\* that is cut off is found by nobody, like a missing one: no key is a prefix
\* of another one of its object.)
member(key, text) == escapeJson(<< key >>) \o << ":" >> \o text
object(members) == << "{" >> \o joined(members) \o << "}" >>

\* jsonArray and jsonMapOfArrays take what the mapper has made of each item.
jsonArray(items) == << "[" >> \o joined(items) \o << "]" >>

\* (std::map has an order of its own; here it is any fixed one.)
jsonMapOfArrays(map) ==
    object(each(SetToSeq(DOMAIN map),
                LAMBDA key : escapeJson(key) \o << ":" >> \o jsonArray(map[key])))

messageToJson(m) ==
    object(<< member("sender", escapeJson(m.sender)), member("receiver", escapeJson(m.receiver)),
              member("timestamp", m.timestamp), member("body", escapeJson(m.body)) >>)

replyToJson(r) ==
    object(<< member("uuid", escapeJson(r.uuid)), member("user_uuid", escapeJson(r.user_uuid)),
              member("timestamp", r.timestamp), member("body", escapeJson(r.body)) >>)

threadToJson(t) ==
    object(<< member("uuid", escapeJson(t.uuid)), member("user_uuid", escapeJson(t.user_uuid)),
              member("timestamp", t.timestamp), member("title", escapeJson(t.title)),
              member("body", escapeJson(t.body)),
              member("replies", jsonArray(each(t.replies, replyToJson))) >>)

channelToJson(c) ==
    object(<< member("uuid", escapeJson(c.uuid)), member("name", escapeJson(c.name)),
              member("description", escapeJson(c.description)),
              member("threads", jsonArray(each(c.threads, threadToJson))) >>)

teamToJson(t) ==
    object(<< member("uuid", escapeJson(t.uuid)), member("name", escapeJson(t.name)),
              member("description", escapeJson(t.description)),
              member("subscribers", jsonArray(each(t.subscribers, escapeJson))),
              member("channels", jsonArray(each(t.channels, channelToJson))) >>)

userToJson(u) ==
    object(<< member("uuid", escapeJson(u.uuid)), member("name", escapeJson(u.name)),
              member("connected", << "f", "a", "l", "s", "e" >>),
              member("teams", jsonArray(each(u.teams, escapeJson))),
              member("messages", jsonMapOfArrays(
                  [other \in DOMAIN u.messages |-> each(u.messages[other], messageToJson)])) >>)

-------------------------------------------------------------------------------
(* Parser *)

\* JsonVal: the string, number, array and object that a value may be.
nullVal == [str |-> << >>, num |-> << "0" >>, array |-> << >>, object |-> << >>]

\* What a function of the parser leaves behind: its result, _pos, and whether
\* it has read a character that is not there.
parsed(val, pos, over) == [val |-> val, pos |-> pos, over |-> over]

\* _src[_pos], counted from 1; the character behind the last one may be read.
charAt(src, pos) == IF pos <= Len(src) THEN src[pos] ELSE NUL
readsOver(src, pos) == pos > Len(src) + 1

\* The position std::string::npos.
npos(src) == Len(src) + 2

\* The first position from pos on whose character is not in cs.
find_first_not_of(src, cs, pos) ==
    IF \A p \in pos..Len(src) : src[p] \in cs THEN npos(src)
    ELSE CHOOSE p \in pos..Len(src) : src[p] \notin cs /\ \A q \in pos..p - 1 : src[q] \in cs

\* Regression variant: what find_first_not_of returns is taken for a position.
skipWsUnchecked(src, pos) == find_first_not_of(src, Spaces, pos)

skipWs(src, pos) ==
    LET p == find_first_not_of(src, Spaces, pos)
    IN  IF p = npos(src) THEN Len(src) + 1 ELSE p

\* The string that starts at pos, and the position behind it.
RECURSIVE parseStrFrom(_, _, _)
parseStrFrom(src, pos, result) ==
    IF pos > Len(src) \/ charAt(src, pos) = Quote THEN parsed(result, pos + 1, FALSE)
    ELSE LET p == IF src[pos] = Backslash THEN pos + 1 ELSE pos
         IN  parseStrFrom(src, p + 1, Append(result, charAt(src, p)))
parseStr(src, pos) == parseStrFrom(src, pos + 1, << >>)

\* std::from_chars, for the numbers that the serializer writes.
parseNum(src, pos) ==
    LET end == CHOOSE e \in pos..Len(src) + 1 :
                  /\ \A p \in pos..e - 1 : src[p] \in Digits
                  /\ charAt(src, e) \notin Digits
    IN  parsed([nullVal EXCEPT !.num = IF end = pos THEN @ ELSE SubSeq(src, pos, end - 1)],
               end, FALSE)

RECURSIVE parseValue(_, _), elements(_, _), members(_, _)

\* The loops of parseArray and parseObject, from what "sofar" leaves on.
elements(src, sofar) ==
    IF sofar.pos > Len(src) \/ charAt(src, sofar.pos) = "]"
    THEN [sofar EXCEPT !.pos = @ + 1]
    ELSE with(parseValue(src, sofar.pos), LAMBDA v :
         with(skipWs(src, v.pos), LAMBDA p :
         with(parsed([sofar.val EXCEPT !.array = Append(@, v.val)],
                     IF charAt(src, p) = "," THEN p + 1 ELSE p,
                     sofar.over \/ v.over \/ readsOver(src, p)),
              LAMBDA next : elements(src, next))))

members(src, sofar) ==
    IF sofar.pos > Len(src) \/ charAt(src, sofar.pos) = "}"
    THEN [sofar EXCEPT !.pos = @ + 1]
    ELSE with(parseStr(src, sofar.pos), LAMBDA key :
         with(parseValue(src, skipWs(src, key.pos) + 1), LAMBDA v :
         with(skipWs(src, v.pos), LAMBDA p :
         with(parsed([sofar.val EXCEPT !.object = (key.val :> v.val) @@ @],
                     skipWs(src, IF charAt(src, p) = "," THEN p + 1 ELSE p),
                     sofar.over \/ v.over \/ readsOver(src, p)),
              LAMBDA next : members(src, next)))))

parseArray(src, pos) == elements(src, parsed(nullVal, skipWs(src, pos + 1), FALSE))
parseObject(src, pos) == members(src, parsed(nullVal, skipWs(src, pos + 1), FALSE))

parseValue(src, from) ==
    with(skipWs(src, from), LAMBDA pos :
        IF pos > Len(src) THEN parsed(nullVal, pos, FALSE)
        ELSE CASE src[pos] = Quote ->
                    with(parseStr(src, pos),
                         LAMBDA s : parsed([nullVal EXCEPT !.str = s.val], s.pos, FALSE))
               [] src[pos] = "[" -> parseArray(src, pos)
               [] src[pos] = "{" -> parseObject(src, pos)
               [] src[pos] \in {"t", "n"} -> parsed(nullVal, pos + 4, FALSE)
               [] src[pos] = "f" -> parsed(nullVal, pos + 5, FALSE)
               [] OTHER -> parseNum(src, pos))

-------------------------------------------------------------------------------
(* From a parsed value to the database *)

\* JsonVal::operator[].
at(val, key) == IF << key >> \in DOMAIN val.object THEN val.object[<< key >>] ELSE nullVal

strs(val) == each(val.array, LAMBDA v : v.str)

\* Regression variant: the timestamp is read as a string.
messageFromJsonStr(val) ==
    [sender |-> at(val, "sender").str, receiver |-> at(val, "receiver").str,
     timestamp |-> at(val, "timestamp").str, body |-> at(val, "body").str]

messageFromJson(val) ==
    [sender |-> at(val, "sender").str, receiver |-> at(val, "receiver").str,
     timestamp |-> at(val, "timestamp").num, body |-> at(val, "body").str]

replyFromJson(val) ==
    [uuid |-> at(val, "uuid").str, user_uuid |-> at(val, "user_uuid").str,
     timestamp |-> at(val, "timestamp").num, body |-> at(val, "body").str]

threadFromJson(val) ==
    [uuid |-> at(val, "uuid").str, user_uuid |-> at(val, "user_uuid").str,
     timestamp |-> at(val, "timestamp").num, title |-> at(val, "title").str,
     body |-> at(val, "body").str, replies |-> each(at(val, "replies").array, replyFromJson)]

channelFromJson(val) ==
    [uuid |-> at(val, "uuid").str, name |-> at(val, "name").str,
     description |-> at(val, "description").str,
     threads |-> each(at(val, "threads").array, threadFromJson)]

\* Regression variant: the subscribers of a team are left out.
teamFromJsonUnsubscribed(val) ==
    [uuid |-> at(val, "uuid").str, name |-> at(val, "name").str,
     description |-> at(val, "description").str, subscribers |-> << >>,
     channels |-> each(at(val, "channels").array, channelFromJson)]

teamFromJson(val) ==
    [uuid |-> at(val, "uuid").str, name |-> at(val, "name").str,
     description |-> at(val, "description").str, subscribers |-> strs(at(val, "subscribers")),
     channels |-> each(at(val, "channels").array, channelFromJson)]

userFromJson(val) ==
    [uuid |-> at(val, "uuid").str, name |-> at(val, "name").str, count |-> 0,
     teams |-> strs(at(val, "teams")),
     messages |-> LET box == at(val, "messages").object
                  IN  [other \in DOMAIN box |-> each(box[other].array, messageFromJson)]]
===============================================================================
