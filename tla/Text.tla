--------------------------------- MODULE Text ---------------------------------
(***************************************************************************)
(* The text of the protocol, character by character: how the client checks *)
(* and splits the line that was typed, how the server splits the line that *)
(* it received, how it quotes a field of its answer, and how both cut the  *)
(* bytes of the connection into lines.                                     *)
(*                                                                         *)
(* An optional value (std::optional, a pointer) is a set with at most one  *)
(* member.                                                                 *)
(***************************************************************************)
EXTENDS Chars

CONSTANTS
    MaxName,    \* maxName, MAX_NAME_LENGTH (32 in the code)
    MaxUuid,    \* maxUuid (36 in the code)
    MaxBody     \* maxBody, MAX_BODY_LENGTH (512 in the code)

ASSUME TextBoundsAssumption == {MaxName, MaxUuid, MaxBody} \subseteq Nat \ {0}

-------------------------------------------------------------------------------
(* Splitting *)

\* Regression variant: only blanks separate words.
wordStepAtBlanks(a, c) ==
    [ws |-> IF c = Blank THEN a.ws
            ELSE IF a.in THEN Append(Front(a.ws), Append(Last(a.ws), c))
            ELSE Append(a.ws, << c >>),
     in |-> c # Blank]

\* The words that "stream >> word" yields one after the other, and whether
\* the last of them goes on with the next character.
wordStep(a, c) ==
    [ws |-> IF c \in Spaces THEN a.ws
            ELSE IF a.in THEN Append(Front(a.ws), Append(Last(a.ws), c))
            ELSE Append(a.ws, << c >>),
     in |-> c \notin Spaces]
wordState(s) == fold(wordStep, [ws |-> << >>, in |-> FALSE], s)
words(s) == wordState(s).ws

\* The loop over the words, which is the same on both sides. A word that
\* starts with a quote and does not end with another one opens an argument,
\* which goes on to the next word that ends with a quote; white space inside
\* it becomes one blank. "bare" remembers that a word was a quote alone.
splitWord(a, w) ==
    IF a.open
    THEN LET arg == a.arg \o << Blank >> \o w
         IN  IF Last(w) = Quote
             THEN [a EXCEPT !.args = Append(@, Front(arg)), !.open = FALSE, !.arg = << >>]
             ELSE [a EXCEPT !.arg = arg]
    ELSE IF Head(w) # Quote THEN [a EXCEPT !.args = Append(@, w)]
    ELSE IF Len(w) > 1 /\ Last(w) = Quote
    THEN [a EXCEPT !.args = Append(@, Front(Tail(w)))]
    ELSE [a EXCEPT !.open = TRUE, !.arg = Tail(w), !.bare = @ \/ Len(w) = 1]

splitWords(ws) ==
    fold(splitWord, [args |-> << >>, open |-> FALSE, arg |-> << >>, bare |-> FALSE], ws)
split(s) == splitWords(words(s))

\* TokenParser::parse, on the client: an argument that stays open is an error.
parse(s) == {a.args : a \in {b \in {split(s)} : ~ b.open}}

\* Regression variant: the last word of an argument is joined without a blank.
parseArgsJoined(s) ==
    fold(LAMBDA a, w : IF a.open /\ Last(w) = Quote
                       THEN [a EXCEPT !.args = Append(@, a.arg \o Front(w)),
                                      !.open = FALSE, !.arg = << >>]
                       ELSE splitWord(a, w),
         [args |-> << >>, open |-> FALSE, arg |-> << >>, bare |-> FALSE], words(s)).args

\* parseArgs, on the server: an argument that stays open is dropped.
parseArgs(s) == split(s).args

\* parseArgs calls back() of an empty string when a word is a quote alone.
readsEmptyBack(s) == split(s).bare

\* The loop of hasUnquotedArgs: where it is behind the character c.
quoteStep(at, c) ==
    CASE at = "between" /\ c \in Spaces -> "between"
      [] at = "between" /\ c = Quote    -> "inside"
      [] at = "inside" /\ c = Quote     -> "between"
      [] at = "inside" /\ c # Quote     -> "inside"
      [] OTHER                          -> "unquoted"
quoteState(s) == fold(quoteStep, "between", s)

\* Regression variant: an argument may be left open.
hasUnquotedArgsButOpen(s) == quoteState(s) = "unquoted"

\* hasUnquotedArgs: something outside of quotes, or a quote that is not closed.
hasUnquotedArgs(s) == quoteState(s) # "between"

\* CommandLineDispatcher::trimLeft.
trimLeft(s) ==
    LET from == SelectInSeq(s, LAMBDA c : c \notin Spaces)
    IN  IF from = 0 THEN << >> ELSE SubSeq(s, from, Len(s))

-------------------------------------------------------------------------------
(* What the client accepts *)

\* CommandSchemas: a command, how many arguments it needs, and the longest
\* that each of its arguments may be.
schema(name, min, args) == [name |-> << name >>, min |-> min, args |-> args]

schemas ==
    {schema("/login", 1, << MaxName >>), schema("/logout", 0, << >>),
     schema("/users", 0, << >>), schema("/user", 1, << MaxUuid >>),
     schema("/send", 2, << MaxUuid, MaxBody >>), schema("/messages", 1, << MaxUuid >>),
     schema("/subscribe", 1, << MaxUuid >>), schema("/subscribed", 0, << MaxUuid >>),
     schema("/unsubscribe", 1, << MaxUuid >>),
     schema("/use", 0, << MaxUuid, MaxUuid, MaxUuid >>),
     schema("/create", 1, << MaxBody >>), schema("/create", 2, << MaxName, MaxBody >>),
     schema("/list", 0, << >>), schema("/info", 0, << >>)}

findSchema(command, argc) ==
    {s \in schemas : s.name = command /\ s.min <= argc /\ argc <= Len(s.args)}

isSupportedServerCommand(command) == \E s \in schemas : s.name = command

\* CommandLineDispatcher::validateArgs: the arguments, when they are accepted.
validateArgs(command, s) ==
    {args \in parse(s) :
        /\ ~ hasUnquotedArgs(s)
        /\ \E sc \in findSchema(command, Len(args)) :
              \A i \in DOMAIN args : Len(args[i]) <= sc.args[i]}

\* CommandLineDispatcher::extractCommand.
extractCommand(s) == {Head(args) : args \in {a \in parse(s) : a # << >>}}

\* ClientApplication::dispatchCommandLine: what goes to the server, when the
\* line is neither /help nor rejected. The command is cut off the line by its
\* length, so of a quoted command two characters are left, which are rejected.
accepted(line) ==
    LET trimmed == trimLeft(line)
        rest(command) == SubSeq(trimmed, Len(command) + 1, Len(trimmed))
    IN  UNION {{[command |-> c, args |-> a, frame |-> c \o rest(c)] :
                   a \in validateArgs(c, rest(c))} :
                   c \in {c \in extractCommand(trimmed) : isSupportedServerCommand(c)}}

-------------------------------------------------------------------------------
(* What the server sends *)

\* A quote and a backslash are preceded by a backslash.
escapeStep(t, c) ==
    t \o (IF c \in {Quote, Backslash} THEN << Backslash, c >> ELSE << c >>)
escape(s) == fold(escapeStep, << >>, s)

\* Utils::quoteProtocolField.
quoteProtocolField(s) == << Quote >> \o escape(s) \o << Quote >>

-------------------------------------------------------------------------------
(* Lines *)

\* The first line of a buffer that holds one, and what is behind it.
hasLine(buf) == Contains(buf, LF)
lineEnd(buf) == SelectInSeq(buf, LAMBDA c : c = LF)
firstLine(buf) ==
    LET s == SubSeq(buf, 1, lineEnd(buf) - 1)
    IN  IF s # << >> /\ Last(s) = CR THEN Front(s) ELSE s
afterLine(buf) == SubSeq(buf, lineEnd(buf) + 1, Len(buf))
===============================================================================
