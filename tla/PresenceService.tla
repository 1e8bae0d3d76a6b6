---------------------------- MODULE PresenceService ---------------------------
(***************************************************************************)
(* What the server promises about who is online, without any counter.      *)
(*                                                                         *)
(*   open      the connections                                             *)
(*   session   the user of each connection, None when there is none        *)
(*   notice    what the last step told each connection: a set of facts     *)
(*             << "in", u >> or << "out", u >>                             *)
(*                                                                         *)
(* A user is online while some connection has a session of it. When a      *)
(* session starts everybody who is logged in is told that the user is in;  *)
(* when the user's last session ends everybody who is logged in is told    *)
(* that it is out. An inquiry of somebody who is logged in is answered     *)
(* with facts that hold.                                                   *)
(*                                                                         *)
(* The documents of the repository do not agree on the rest, and it is     *)
(* left open here: whether a connection without a session is told too      *)
(* (norm-rfc: the events go to all connected clients; subject: who is not  *)
(* logged in does not see who is connected), and whether the end of a      *)
(* session is announced when the user has another one (norm-rfc: always;   *)
(* but the user is not out).                                               *)
(***************************************************************************)
CONSTANTS Conns, UserIds, None

VARIABLES open, session, notice

serviceVars == << open, session, notice >>

Online(s) == {u \in UserIds : \E c \in Conns : s[c] = u}

Facts(s) == {<< "in", u >> : u \in Online(s)}
            \cup {<< "out", u >> : u \in UserIds \ Online(s)}

Tell(conns, facts) == [c \in Conns |-> IF c \in conns THEN facts ELSE {}]

\* The sets of connections that may be told of a change to the sessions s: all
\* that have a session, and any of the others that are in conns.
Audiences(conns, s) == {a \in SUBSET conns : {c \in conns : s[c] # None} \subseteq a}

Open(c) ==
    /\ c \notin open
    /\ open' = open \cup {c}
    /\ notice' = Tell({}, {})
    /\ UNCHANGED session

Begin(c, u) ==
    /\ c \in open /\ session[c] = None
    /\ session' = [session EXCEPT ![c] = u]
    /\ \E a \in Audiences(open, session') : notice' = Tell(a, {<< "in", u >>})
    /\ UNCHANGED open

\* The session of c ends, by a logout (c stays open) or with its connection.
End(c, u) ==
    /\ c \in open /\ session[c] = u
    /\ session' = [session EXCEPT ![c] = None]
    /\ open' \in {open, open \ {c}}
    /\ \/ \E a \in Audiences(open', session') : notice' = Tell(a, {<< "out", u >>})
       \/ u \in Online(session') /\ notice' = Tell({}, {})

Close(c) ==
    /\ c \in open /\ session[c] = None
    /\ open' = open \ {c}
    /\ notice' = Tell({}, {})
    /\ UNCHANGED session

\* c asks, and is told some of the facts if somebody is logged in on it, or
\* nothing.
Ask(c) ==
    /\ c \in open
    /\ \A d \in Conns : notice'[d] # {} => d = c
    /\ DOMAIN notice' = Conns
    /\ notice'[c] \subseteq IF session[c] = None THEN {} ELSE Facts(session)
    /\ UNCHANGED << open, session >>

Reset ==
    /\ open' = {}
    /\ session' = [c \in Conns |-> None]
    /\ notice' = Tell({}, {})

ServiceInit ==
    /\ open = {}
    /\ session = [c \in Conns |-> None]
    /\ notice = Tell({}, {})

ServiceNext ==
    \/ \E c \in Conns : Open(c) \/ Close(c) \/ Ask(c)
    \/ \E c \in Conns, u \in UserIds : Begin(c, u) \/ End(c, u)
    \/ Reset

ServiceSpec == ServiceInit /\ [][ServiceNext]_serviceVars

===============================================================================
