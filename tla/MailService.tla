------------------------------ MODULE MailService -----------------------------
(***************************************************************************)
(* What the server promises about private messages: one conversation for   *)
(* every two users, whoever of them reads it.                              *)
(*                                                                         *)
(*   session   the user of each connection, None when there is none        *)
(*   chat      the conversation of each pair of users: the senders of its  *)
(*             messages, oldest first                                      *)
(*   news      the users of whom the last step told each connection that   *)
(*             they have written                                           *)
(*   shown     the senders of the messages that the last step showed each  *)
(*             connection, in the order in which it showed them            *)
(*                                                                         *)
(* A conversation only grows, at its end, by what one of its two users     *)
(* writes; it outlives the sessions of both. How sessions begin and end is *)
(* left open here.                                                         *)
(***************************************************************************)
EXTENDS Sequences

CONSTANTS Conns, UserIds, None

VARIABLES session, chat, news, shown

mailVars == << session, chat, news, shown >>

Pairs == {{u, v} : u, v \in UserIds}

ToldNothing == news' = [c \in Conns |-> {}]
ShownNothing == shown' = [c \in Conns |-> << >>]

\* A conversation with a new message of u. What a user writes to himself is
\* kept twice.
Longer(s, u, to) == IF u = to THEN Append(Append(s, u), u) ELSE Append(s, u)

\* The user of c writes to the user to, who is told so wherever he is.
Post(c, to) ==
    /\ session[c] # None
    /\ chat' = [chat EXCEPT ![{session[c], to}] = Longer(@, session[c], to)]
    /\ news' = [d \in Conns |-> IF session[d] = to THEN {session[c]} ELSE {}]
    /\ ShownNothing
    /\ UNCHANGED session

\* The user of c is shown all of the conversation with the user v.
Read(c, v) ==
    /\ session[c] # None
    /\ shown' = [d \in Conns |-> IF d = c THEN chat[{session[c], v}] ELSE << >>]
    /\ ToldNothing
    /\ UNCHANGED << session, chat >>

\* Anything else: sessions begin and end, and nothing is said of messages.
Quiet ==
    /\ session' \in [Conns -> UserIds \cup {None}]
    /\ ToldNothing /\ ShownNothing
    /\ UNCHANGED chat

MailInit ==
    /\ session = [c \in Conns |-> None]
    /\ chat = [p \in Pairs |-> << >>]
    /\ news = [c \in Conns |-> {}]
    /\ shown = [c \in Conns |-> << >>]

MailNext ==
    \/ \E c \in Conns, u \in UserIds : Post(c, u) \/ Read(c, u)
    \/ Quiet

MailSpec == MailInit /\ [][MailNext]_mailVars
===============================================================================
