------------------------------- MODULE Presence -------------------------------
(***************************************************************************)
(* What the connections of the server are told about who is online.        *)
(*                                                                         *)
(* The module adds to Sessions and PrivateMessages the history variable    *)
(* told: told[c][u] is what the newest lines to connection c that speak of *)
(* user u's presence said, a subset of {"in", "out"} (empty: nothing yet). *)
(* It is computed from the output of the handlers alone, the way a client  *)
(* computes what it shows from the lines it reads.                         *)
(***************************************************************************)
EXTENDS PrivateMessages

VARIABLE told

presenceVars == << clients, userOf, name, count, out, mail, sent, told >>

InKinds == {"EVENT USER_LOGGED_IN", "210 USER 1", "200 USER 1"}
OutKinds == {"EVENT USER_LOGGED_OUT", "210 USER 0", "200 USER 0"}

Speaks(ms, kinds, u) == \E i \in DOMAIN ms : ms[i].kind \in kinds /\ u \in ms[i].of

\* The presence facts in a sequence of lines.
factsIn(ms) == {<< "in", u >> : u \in {v \in UserIds : Speaks(ms, InKinds, v)}}
               \cup {<< "out", u >> : u \in {v \in UserIds : Speaks(ms, OutKinds, v)}}

\* What is said about u in a sequence of lines.
saidOf(ms, u) == {s \in {"in", "out"} : << s, u >> \in factsIn(ms)}

Remember ==
    told' = [c \in Conns |-> [u \in UserIds |->
                IF c \notin clients' THEN {}
                ELSE IF saidOf(out'[c], u) = {} THEN told[c][u]
                ELSE saidOf(out'[c], u)]]

PresenceInit == PrivateMessagesInit /\ told = [c \in Conns |-> [u \in UserIds |-> {}]]

PresenceNext == PrivateMessagesNext /\ Remember

PresenceSpec == PresenceInit /\ [][PresenceNext]_presenceVars

-------------------------------------------------------------------------------
(* Properties *)

\* Whatever a connection was last told about a user is true now: it never
\* shows as online somebody who has no session any more, nor as offline
\* somebody who has one. (The code tells a connection of a change only
\* through the broadcasts of login, of the last logout and of the last
\* disconnection; a missing, early or superfluous one leaves a wrong belief
\* behind that may surface many steps later.)
ToldIsTrue ==
    \A c \in clients, u \in UserIds :
        /\ "in" \in told[c][u] => SessionsOf(u) # {}
        /\ "out" \in told[c][u] => SessionsOf(u) = {}

\* The presence facts in the last output to each connection.
Notice == [c \in Conns |-> factsIn(out[c])]

\* The sessions and the lines about them implement the presence service:
\* the counter decides exactly as the sessions themselves would.
Service == INSTANCE PresenceService
             WITH open <- clients, session <- userOf, notice <- Notice

\* The server implements PresenceService, private messages or not; see that
\* module for what it says.
ImplementsService == Service!ServiceSpec

\* "EVENT USER_LOGGED_OUT | User logs out or disconnects | All connected
\* clients": the end of every session is announced to every connection. The code
\* announces only the end of a user's last session.
EveryLogoutIsAnnounced ==
    [][\A c \in Conns : userOf[c] # None /\ userOf'[c] = None =>
          \A d \in clients' : << "out", userOf[c] >> \in factsIn(out'[d])]_presenceVars
===============================================================================
