-------------------------------- MODULE MCWire --------------------------------
(* Wire for TLC: the lines that may be typed. *)
EXTENDS Wire

CONSTANT MaxTail    \* bound on what is typed behind /login and /create

Alphabet == {Quote, Backslash, Blank, "a"}
quotes(s) == << Blank, Quote >> \o s \o << Quote >>

\* Behind two commands every short text; behind /create and /send two quoted
\* texts, of which the first is any; behind all commands no, one or three
\* arguments.
AnyTails == BoundedSeq(Alphabet, MaxTail)
TwoTexts == {quotes(s) \o quotes(t) : s \in BoundedSeq(Alphabet, 2), t \in {<< >>, << "a" >>}}
OtherTails == {<< >>, quotes(<< "a" >>), quotes(<< >>),
               quotes(<< "a" >>) \o quotes(<< "a" >>) \o quotes(<< "a" >>)}

\* Lines with other white space, with a quoted command, and that are not for
\* the server.
OddLines ==
    {<< Blank, "/login", Blank, Quote, "a", CR, "a", Quote, CR >>,
     << "/login", Blank, Quote, "a", CR, "a", Quote >>,
     << Quote, "/login", Quote, Blank, Quote, "a", Quote >>,
     << "/help" >>, << "/teams" >>, << "a" >>, << Blank >>, << >>}

MCLines ==
    {<< c >> \o t : c \in {"/login", "/create"}, t \in AnyTails}
    \cup {<< c >> \o t : c \in {"/create", "/send"}, t \in TwoTexts}
    \cup {s.name \o t : s \in schemas, t \in OtherTails}
    \cup OddLines
===============================================================================
