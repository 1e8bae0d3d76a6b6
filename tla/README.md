# A TLA+ model of myteams

myteams is a chat server and its command line client, written in C++: accounts,
private messages, and teams with channels, threads and replies, over a line
oriented TCP protocol. The server is one thread around `poll`; its state is in
memory and is saved to a JSON file when a signal stops it. This directory holds
TLA+ modules that model it, the TLC configurations that check them, and proofs
for TLAPS.

    cd tla
    tlc -config MCPresence.cfg MCPresence      # one run; see the table below
    tlapm SessionsProofs.tla                   # the proofs of one module

## The system

| Part | State | Operations | Talks to |
|---|---|---|---|
| Sessions (`login`, `logout`, `users`, `user`, `User`) | which user is on which connection; per account a name and a connection counter | LOGIN, LOGOUT, USERS, USER, disconnection, restart | broadcasts presence events to every connection |
| Workspace (`use`, `create`, `list`, `info`, `subscribe`, ...) | teams, subscribers, channels, threads, replies; a context per connection | nine commands | events to the subscribers of a team |
| Private messages (`send`, `messages`) | one copy of a conversation per party | SEND, MESSAGES | event to every session of the receiver |
| Event loop (`server.cpp`, `Poller`, `Posix`) | client table, write buffers, interest flags, the batch of poll events | accept, read, write, disconnect, signal | runs the command handlers; the kernel |
| Wire text (`ClientCommandController`, `TokenParser`, `parseArgs`, `commandHandling`, `quoteProtocolField`) | the read buffers of both sides; the pending command and the list context of the client | check and split a typed line, execute it, format the answer, split and display it | the command handlers; the display library |
| Persistence (`saveManager`, JSON) | the save file | save at the stop, load at the start | the database |
| Client (`src/client`) | standard input, pending command, list context, output buffer | one handler per kind of poll event | the server |

What is hard. Inside the server nothing runs in parallel, so a handler is
atomic; the difficulties are long sequences of commands of several connections
(one user on many connections, contexts that outlive subscriptions and logins),
what is announced to whom, and the loop's bookkeeping while connections close,
are reset and reuse descriptors. In the client, answers arrive later than the
commands that follow them, and three buffers (standard input, output, frames)
have to be kept moving by one `poll`. A line is split three times, by the
checks of the client, by the server and by the client again, each time by other
code; what one side quotes, the other has to take apart. The save file is
truncated before it is written, and is read by a parser of the project's own
that has to stop at whatever end the file has. `PROJECT.json` lists the hazards one by
one, each at its line and with the properties that would catch it.

## The modules

Every handler is one action. Its guards follow the order of the code's checks,
and a refused command is a step too: it answers with a status. What handlers
append to the write buffers of the connections is the variable `out`, the
output of the last step, so that properties can speak about who is told what.
In the modules about the commands (Protocol to Client below) ids, names and
bodies are values of small sets; an argument is such a value, `None` (missing)
or `Invalid` (empty or too long), and descriptions, bodies and times are left
out. In the modules about text (Chars to Persistence) a text is a sequence of
characters, and what a handler decides is left open instead: any of its answers
may come.

- **Protocol**: the lines of the protocol and the ways to send them
  (`sendToClient`, `broadcast`, the `210` lists).
- **Sessions**: connections and accounts. `clients` is the client table,
  `userOf` the user of a connection, `name` and `count` the accounts.
  `Restart` is a stop by signal and a new start: the accounts survive, the
  counters are reset by `userFromJson`.
- **PresenceService**: what the server promises about presence, without
  counters: who is online is who has a session; every start of a session and
  the end of a user's last one are told to all who are logged in; a question is
  answered only to who is logged in, with facts that hold. Two things are left
  open, since the documents disagree with each other or with the code about
  them: whether connections without a login are told as well, and whether the
  end of a session is announced when the user has another one. The code tells
  all connections, and only at the end of the last session (run
  logout_not_announced).
- **Workspace**: extends Sessions with the teams and the contexts.
- **PrivateMessages**: extends Sessions with the mailboxes. The counter `sent`
  numbers the messages; the code has no such number. The refinement mapping to
  MailService takes one of the two copies of a conversation for it, and reads
  off the lines of `out` who is told of a message and what is listed.
- **MailService**: what the server promises about private messages: one
  conversation for every two users, which grows by what one of them writes, is
  announced to the other and shown whole to whoever of the two asks. A message
  to oneself enters its conversation twice: `Send::execute` stores one copy for
  each party (send.cpp:48-49), and here both are the same user. No document
  speaks of this case; the service has it as the code does.
- **Presence**: extends PrivateMessages with the history of what each connection
  was last told about everybody, over the commands of both, and the refinement
  mapping to PresenceService.
- **EventLoop**: the poll loop over a model of sockets. A command is reduced
  to the set of clients whose write buffers it appends to. An action is what
  happens between two system calls: the head of the loop, `poll`, and for each
  event the read part and the write part, so that a peer may close or be reset
  in between. `batch` keeps, for the property about it, which connection a
  descriptor stood for when `poll` returned.
- **Client**: one client process with its standard input, the two directions
  of its connection and a server that answers each command with the frames its
  handler can produce. Frames that are only displayed are one kind. A line may
  arrive in two parts (`BeginLine`): with only the first part in the pipe,
  `std::getline` waits in the only thread (`reading`), and no other handler of
  the client runs until the rest has come (`getlineGoesOn`).

- **Chars**: the characters that the code treats specially. A command word, a
  keyword and a key of the save file are one character each. On the connection
  a word is compared only when its line is complete, so it makes no difference
  where the reads cut it. A save can be cut inside a key; that is not in the
  model, and it changes nothing: no key is a prefix of another one in the same
  object, so a cut key is looked up by nobody, like one that is missing, and
  the parser takes the same path as for a text that is cut (which is in the
  model).
- **Text**: `split` and the checks of a typed line in the client, `parseArgs`
  and `handleBuffer` on the server, `quoteProtocolField`, `TokenParser::parse`.
- **Frames**: the format of every line that the server sends, with its fields
  in order, and the handlers of the client, each as the function of the display
  library that it calls and the fields it passes.
- **Wire**: one client, the server and the connection between them, byte by
  byte. Actions: a line is typed, the server reads a piece, cuts off and
  executes one line, the client reads a piece, routes one line. Another client
  may cause an event at any time. The history variables `typed`, `got`, `meant`
  and `shown` record what the properties compare: what was typed and what the
  server executed; what a line of the server is meant to display, by the
  parameter names of `logging_client.h` and with the texts as they are stored,
  and what it did display. That the client may be kept in `std::getline` is in
  module Client; here it goes on polling.
- **Json**: `JsonSerializer` and `JsonParser`. The parser keeps explicit
  positions, as the code does, and notes when it reads behind the end.
- **Persistence**: the save file over several server processes. Each operation
  that changes the database is an action; `saveOpen` and `saveWrite` are two,
  so that a save can be cut off behind every character (see Chars); `Kill` and a file that cannot
  be opened are faults.

`MC*` modules add symmetry, views and the inputs of a run. Definitions marked *Regression variant*
are no part of the model: each is what a mapped definition would be after a
plausible mistake, and `PROJECT.json` pairs it with the property that notices.

## The runs

| Run | Instance | Shows |
|---|---|---|
| presence | 3 connections, 2 accounts, 2 names, 2 messages | counter exact, accounts unique, nobody believes anything false about presence; both copies of a conversation equal and in order, every session gets the event; the presence service and the mail service are implemented |
| teams | 2 connections, 2 users, 2 teams; one channel, thread and reply, or, with one user, up to three channels and threads | content is written by, shown to and announced to subscribers only; names unique in their scope; a context is one path; `/use` takes over all of its arguments or none |
| event_loop | 2 descriptors, 3 connections, 1 command | events meet their client, poller and table agree, output drains, gone clients leave, a signal leads to the save |
| client | 3 typed lines, each perhaps in two parts, 1 event, 2 addresses, lists of up to 2 items | lists, logins, partial writes and the end of the server are handled however input, answers and reads interleave, if lines that are begun are ended |
| wire | 2 lines of any short text, 1 event, reads of 1, 2 or all bytes | the server executes the arguments the client checked; a missing quote is refused before anything is sent; every line of the server is displayed, up to escapes, by the function and with the fields it is meant for; every answer gets displayed |
| persistence | 5 changes, 1 fault | what was saved is restored; of a file that was cut off, what stands before the cut is restored and nothing else; the parser never reads behind the end |
| login_keeps_context | violation | LOGOUT leaves the context; the next login starts inside it |
| reset_kills_server | violation | a reset between `poll` and `read` or `write` ends the server |
| line_left_in_cin | violation | a second line in the pipe waits in the buffer of `std::cin` |
| answers_overtaken | violation | the answer to `/logout` has no effect when another command was sent since, nor has the 404 to `/user` |
| logout_not_announced | violation | the end of a session is silent when the user has another one |
| use_answers_per_level | violation | `/use` answers `200 OK` once for each argument |

The six violations are disagreements between the code and the documents in
`.github/` or the comments of `libs/myteams/logging_client.h`; `PROJECT.json`
quotes the sentence in question for each. The trace of answers_overtaken is
about `/logout`; its other clause, about `/user`, is violated by itself as well.
The properties of the passing runs leave open what the violations ask:
`ImplementsService` does not say who else is told of a logout, `UseAllOrNothing`
not how many lines a `/use` gets, `ShownAsMeant` not what becomes of a 404 to
`/user` that was overtaken. If the code were changed to follow the documents,
they would still hold.

Bounds. Three connections allow one user on two of them and a witness; two
users and two teams allow every kind of stranger. Two descriptors for three
connections make the loop reuse a descriptor and run out of them. Three typed
lines allow a login, a logout and one command more. `MaxReplies`, `MaxSent`,
`MaxOpened`, `MaxTyped`, `MaxEvents` and `MaxItems` (the items of a list) bound
what the code does not bound; two items, or two messages, are enough to have one
that follows another. The run teams has one more bound, `MCBound`: from a state
with two accounts it goes on only while there is one channel and one thread at
most, which is enough for each user to be a member of the team or a stranger;
from one with a single account while there are `MaxContent` = 3 channels and
threads, which is enough for a channel of the other team and for a thread of the
other channel. The steps that lead out of these states are checked as well.

In the wire run the limits on lengths are scaled down (`MaxName` = 3 for 32,
`MaxUuid` = 2 for 36, `MaxBody` = 3 for 512), so that texts of the limit and one
above it are among those typed. Behind `/login` and `/create` every text of up
to `MaxTail` = 5 characters is typed, over a quote, a backslash, a blank and a
letter; the other commands get every number of arguments. `MaxLines` = 2 lets a
second line or an event arrive while the first is in flight; two lines of
together at most `MaxChars` = 5 characters, of which an event counts
`EventChars` = 4, keep the pairs few, since what two lines can do to each other
depends on their commands and not on their texts. `MaxRead` = 2 cuts lines at
every place. In the persistence run five changes reach a reply in a thread, the
deepest nesting, and two accounts with messages; one fault is enough since
every step after a restart starts from the file alone, and it costs
`FaultChanges` = 2 changes. New ids and texts are the first ones that are not
used yet: the code compares them for equality only, so any others would give
the same file up to renaming. The texts hold every character that is escaped.

Ids are never reused in the code (they are uuids), so a finite pool only
ends the creation of new things. Where a run uses symmetry, the permuted sets
are model values and the run has no liveness property; where it uses a view,
the view drops `out`, on which no step depends, and the properties about `out`
are action properties, which TLC evaluates on every step. Which copy the mapping
to MailService chooses does not disturb the symmetry: the copies are equal.

Deadlock is checked except for the event loop, the client and the wire, which
may stop: the process ends, or nobody types any more.

Fairness. EventLoop assumes that the operating system goes on running the
process and that clients go on reading (`myteams_cli` always polls its socket
for input). It does not assume that anybody connects, sends, closes or signals.
Client assumes the same of its own handlers (`poll` reports everything that is
ready and the loop handles all of it) and that the server goes on answering. It
does not assume that somebody who begins a line ends it, and while the thread
waits in `std::getline` none of the handlers runs; `CommandsGetOut`
and `ServerGoneEndsClient` therefore hold only under `LinesGetEnded`, that the thread comes out of `std::getline` again and again.
Wire assumes that both processes go on reading and handling what they have
read, and not that anybody types or that an event happens; for the client this
again means that lines are typed as a whole.
That output drains also rests on the bound on commands: a client that is sent
lines for ever need never have an empty buffer.

## The proofs

Every invariant, action property and refinement of the runs presence,
teams, event_loop, client and wire is a theorem as well. The proofs
hold for every finite set of connections (of descriptors, in the event loop) and
for all sets of accounts, teams, channels, threads and names, and all bounds on
messages, replies, connections, commands, typed lines and events; those about
Wire for lines of any length over any characters, and all limits on lengths.
Assumptions, which TLC evaluates in the runs: `Conns` and `Fds` are finite, the listening socket is
not among `Fds`; `None` and `Invalid` are not ids or names; ids are among the
subjects of lines; no id stands for two things of different kinds, which is what
`uuid_generate` gives (`DisjointIdsAssumption`; lines say which ids they speak
of, so `ContentStaysInTeam` could otherwise mistake a user for a channel); a
typed line has no line end in it, which is what `std::getline` gives
(`LinesAssumption`).

Each module has an inductive invariant: the properties, and what they need to
be preserved by every step. There is one lemma for each action; facts about the
model's operators are lemmas of their own.

**SessionsProofs**, `SessionsInv`: `ConnectionCountExact`, `AccountNamesUnique`,
`SessionsRegistered`, `SessionsTypeCorrect`, and the action property
`SessionsKeepTheirUser`. The counter property alone is not inductive:
`decrementConnection` stops at zero, so the step needs that a logged in user
has an account, which in turn needs the types; `createNewUser` needs that an id
without an account has no sessions. The arithmetic is in two lemmas, one for
the start and one for the end of a session, over cardinalities of finite sets.

**PresenceProofs** shows `ServerImplementsService`: each step of the server is
a step of PresenceService under the mapping, or changes nothing that it
speaks of. The point of each step is that the counter, which decides whether an
event is sent, agrees with the sessions, by `SessionsInv`, and that `/send` and
`/messages` say nothing about presence (`MessageCommandIsNoticed`). The code tells
all connections, which is one of the audiences that the service admits
(`NoticedStep` says exactly what the code does, `NoticedStepIsService` that the
service allows it).
`BeliefsAreTrue` follows with an invariant that relates the history to the
sessions. Presence only adds a history variable to PrivateMessages
(`PresenceIsMessages`), so the theorems about PrivateMessages, whose invariant
contains `SessionsInv`, hold of it too.

**WorkspaceProofs**, `WorkspaceInv`: `SessionsInv`, the types,
`ContextWellFormed`, `NamesUniqueInScope`, and `ThreadsHaveAuthors`. A context
is shown to stay well formed together with the hierarchy of the content: what
is created now must not be something that a context already names. Lists speak
of the authors of threads, so the types of outputs need that threads have one.
The action properties follow from the invariant and one lemma, `StepShape`,
which says that a step is of one of eight forms (an answer to one client, a
change of context, a change of subscription, a new team, channel, thread or
reply, a step of the sessions) and what each sends to whom:
`UseIsAllOrNothing`, `ContentIsToldToMembersOnly`, `OnlyMembersChangeContent`
and `NewContentIsAnnounced`.

**PrivateMessagesProofs**, `PrivateMessagesInv`: `SessionsInv`, the types,
`MailboxesMirror`, `ConversationsInOrder`, and `StoredWereSent`: every stored
number is below the next one to be given, without which a message that is
appended need not be newer than the rest. `MessagesAreAnnounced` is the action
property. `ServerImplementsMail` is the refinement: a message that is stored is a
step `Post` of MailService, because both copies grow alike and, by
`MailboxesMirror`, either of them stands for the conversation (`EitherCopy`); a
list is a step `Read`; every other step is `Quiet`, for which one lemma goes
through all handlers of Sessions and shows that none sends a line about messages
(`SessionsAreSilent`).

**EventLoopProofs**, `LoopInv`: the four invariants of the run, and that a
descriptor is in `_fds` once (`FdsOnce`), that it has one event in a batch at
most (`EventsOnce`), and that a connection waits while the event of the
listening socket is still to be handled (`ServerEventHasClient`, without which
an accept would put an undefined connection into the table). Then
`EventsMeetTheirClient` is preserved: only the event at hand closes a
descriptor, and `accept` hands out one that no client has, so no other event of
the batch is about either. A consequence is that the test for a descriptor
without a client in `_processEvent` never succeeds. That `erase` of one entry
removes the descriptor rests on `FdsOnce` too.

**ClientProofs**, `ClientInv`. Both properties are about the frame that is
routed next, and need an invariant about all of the stream, the frames in the
read buffer followed by those in the socket: a `210` line directly follows the
`BEGIN`, or a line, of its own list, or is first and the context is its list;
and while the server has a user on the connection, the client is logged in or
the answer to `/login` is in the stream. The lemma `StreamSteps` says that a
step leaves the stream, drops it with the process, routes its first frame,
appends an answer that opens its own lists, or cuts it off (`ServerStops`).

**TextProofs** says what the loops over a text compute, for every text. The
induction theorems of the library take an operator as a parameter, which the
installed provers cannot instantiate; but `WFMin` speaks of a set. Applied to the
set of lengths at which a property fails it gives a least counterexample
(`LeastNumber`), hence induction up to a number (`Induction`) and over the
prefixes of a text (`TextInduction`). Every loop in Text is a fold, so what is
needed of each is its two equations, for no items and for one item more. The
rest are the lemmas about `words`, `split`, `parseArgs`, `hasUnquotedArgs`,
`escape`, `firstLine` and `accepted`: a line that the client accepts is split by
`parseArgs` of the server into the same arguments that the client has checked; a
field that `quoteProtocolField` writes is one token for `TokenParser::parse`,
whatever blanks, quotes and backslashes it holds.

**WireProofs** has one inductive invariant for each direction. `UpInv`: the bytes
that the server has not cut into lines yet, in its buffer and on the connection,
are the frames of exactly the accepted lines that it has not executed, in order,
each of which splits into the arguments that were checked. `DownInv`: the bytes
that the client has not routed yet are the lines of the server not displayed so
far, each with what it is meant to display, where lines of a list are preceded
by the `BEGIN` of their list or the client has it open already; and what was
displayed is right. There it is `rendering`, the display with the escapes left
in, which is what the client produces; `RenderingIs` says that it is the meant
one up to escapes. Neither property is inductive without its queue: it speaks of
the lines that are done, and the step that finishes a line needs to know the
bytes from which it is read. The proof goes through every format of the server
and the handler that displays it. It gives `ArgumentsArrive`,
`MissingQuoteRejected`, `WireType` and `AnswersShownAsMeant`. The attempt found
two tests of `handle404` that overlapped in the model where the code takes the
first; the model now has the order of the code.

Only model-checked: the liveness properties (`SignalLeadsToSave`, `WritesDrain`,
`GoneClientsLeave`, `CommandsGetOut`, `ServerGoneEndsClient`,
`AnswersAreShown`), since TLAPS has no support for fairness here; and all of
Persistence. The parser of Json is a set of mutually recursive operators, with
which the SMT backend of TLAPS does not work. Written as functions with a bound
on the depth it would be in reach, but that it comes to an end is among the
things that the run checks, and a bound would assume it.

## What the models show about the code

Besides the six violations, three things disagree with a document, and are in
the models without a run of their own:

- Texts are displayed with their escapes. `quoteProtocolField` puts a backslash
  before every quote and backslash, and `TokenParser::parse` takes the quotes
  around a field away but leaves the backslashes in it: the display functions
  get another text than was stored, where `logging_client.h` (line 44, for one)
  calls the parameter "The name of the user who logged in". `ShownAsMeant`
  admits the stored text and the escaped one, and nothing else.
- `broadcast` tells every connection who logs in and out, also one on which
  nobody is logged in. So say lines 480 and 481 of `.github/norm-rfc.md`, but
  line 87 of `.github/subject.md` says that "A user that is not logged in should
  **NOT** be able to see connected users for example". PresenceService admits
  both.
- `handleStdinEvent` calls `std::getline` (ClientApplication.cpp:51) as soon as
  `poll` reports anything on standard input. When a pipe holds only the beginning
  of a line, the call waits for its end, and the only thread meanwhile neither
  displays what the server sends nor writes what is pending nor notices that the
  server has ended. `logging_client.h` says of its functions when they "Must be
  called"; here that is only after the rest of the line.

Some more behaviour is worth knowing. It contradicts no document, or only where
noted, and the models contain it as it is:

- `TokenParser::parse` does not know escapes: a field ends at the first word
  that ends with a quote, escaped or not. It works because what
  `quoteProtocolField` writes was split by `parseArgs` before, which leaves no
  text in which a quote stands before a blank; `AnswersShownAsMeant`
  rests on this, and a name that came another way would shift the fields.
- The client splits a line at white space before it joins quoted arguments
  again, so that several blanks inside quotes arrive as one.
- Of the answers of the server only the 404 to `/user` and the `200 OK` to
  `/logout` are interpreted by the command sent last; `ShownAsMeant` states that
  no other line is lost.
- A message to oneself is stored, and listed by `/messages`, twice.
- A word that is a single quote makes `back()` of an empty string be called
  (undefined behaviour): with a standard library that checks it, the process
  ends. Wire has both outcomes.
- `/send` checks its arguments before the login: without a login, a bad
  argument is answered 400 and not 401, where section 10 of
  `.github/norm-rfc.md` says 401.
- A save that is cut off has already destroyed the save before it. What is
  restored is a prefix of the newer one, users first. A file that cannot be
  opened is not reported.

## What is not modelled

- The logging libraries: shared objects that are not part of the source. Which
  of their functions is called, and with what, is modelled for the client.
- The wording of messages on standard output and standard error.
- Allocation failure and arguments of the program.

## Plan

1. *(done)* Protocol, Sessions, Presence with their proofs; Workspace,
   PrivateMessages, EventLoop, Client with their runs.
2. *(done)* Persistence: the save file as a state of its own, with a stop or a
   crash at each step of `SaveManager::save`, and the serializer compared with
   the parser.
3. *(done)* Wire: the three splittings of a line compared with each other, and
   every format of the server with the handler that displays it.
4. *(done)* WorkspaceProofs, PrivateMessagesProofs, EventLoopProofs and
   ClientProofs: the invariants and action properties of their runs.
5. *(done)* TextProofs and WireProofs: what the text functions compute for every
   text, and the invariants of the run wire.
6. *(done)* MailService, an abstract specification that PrivateMessages
   implements, as PresenceService is for Sessions, checked and proved.
7. The same for team membership and Workspace; proofs about Persistence, if
   TLAPS comes to support recursive operators.
