------------------------------ MODULE WireProofs ------------------------------
(***************************************************************************)
(* Proofs about the connection, for all lines that may be typed, for all   *)
(* texts and however the bytes are cut into reads: what the client checked *)
(* is what the server executes, and what the server meant is what the      *)
(* client displays.                                                        *)
(***************************************************************************)
EXTENDS Wire, TextProofs

\* The words of the formats, and the values that the server makes up.
Words ==
    {"200", "201", "210", "210-BEGIN", "210-END", "400", "401", "403", "404", "409", "EVENT",
     "OK", "USER", "NOT_FOUND", "CREATED", "TEAM", "CHANNEL", "THREAD", "REPLY", "INFO",
     "SUBSCRIBE", "UNSUBSCRIBE", "BAD_REQUEST", "UNAUTHORIZED", "FORBIDDEN", "ALREADY_EXISTS",
     "USER_LOGGED_IN", "USER_LOGGED_OUT", "TEAM_CREATED", "CHANNEL_CREATED", "THREAD_CREATED",
     "REPLY_CREATED", "PRIVATE_MESSAGE", "user_subscribed", "user_unsubscribed", "USERS",
     "TEAMS", "CHANNELS", "THREADS", "REPLIES", "MESSAGES", "u", "t", "h", "r", "a", "0", "1"}

\* The characters on the connection, and those of a line. (The provers do not
\* know that a literal is a string.)
Byte == STRING \cup Words \cup {Quote, Backslash, Blank, CR, LF}
LineChars == Byte \ {LF}

\* The arguments that a line is split into.
Args == Seq(Arg(LineChars))

\* The arguments of a command, as a schema of the client wants them.
Fits(args) ==
    /\ args \in Args /\ args # << >>
    /\ \E sc \in schemas : /\ args[1] = sc.name
                           /\ sc.min <= Len(args) - 1 /\ Len(args) - 1 <= Len(sc.args)

LEMMA LinesAreTexts ==
    ASSUME NEW l \in Lines
    PROVE  l \in Seq(LineChars)
<1>1. l \in Seq(STRING) /\ \A i \in 1..Len(l) : l[i] # LF
    BY LinesAssumption DEF Contains
<1>2. \A i \in 1..Len(l) : l[i] \in LineChars
    BY <1>1 DEF LineChars, Byte
<1> QED
    BY <1>1, <1>2

LEMMA LineIsText ==
    ASSUME NEW s \in Seq(LineChars)
    PROVE  s \in Seq(Byte) /\ ~ hasLine(s)
<1>1. \A i \in 1..Len(s) : s[i] \in Byte /\ s[i] # LF
    BY DEF LineChars
<1>2. s \in Seq(Byte)
    BY DEF LineChars
<1> QED
    BY <1>1, <1>2 DEF hasLine, Contains

LEMMA EndChars == CR \in Byte /\ LF \in Byte /\ CRLF \in Seq(Byte)
<1>1. CR \in Byte /\ LF \in Byte
    BY DEF Byte
<1> QED
    BY <1>1 DEF CRLF

\* Bytes that are put together may be cut elsewhere.
Joins(a, b, c) == a \o b \in Seq(Byte) /\ a \o (b \o c) = (a \o b) \o c

LEMMA Bytes ==
    ASSUME NEW a \in Seq(Byte), NEW b \in Seq(Byte), NEW c \in Seq(Byte)
    PROVE  Joins(a, b, c)
    BY Associative, ConcatProperties DEF Joins

-------------------------------------------------------------------------------
(* The lines on their way to the server *)

\* f[i] are the bytes that the server has not cut into lines yet when it has
\* cut the first i lines: b when it has cut m, none when it has cut all n.
Queue(f, m, n, b, ts) ==
    /\ f \in [m..n -> Seq(Byte)]
    /\ f[m] = b
    /\ f[n] = << >>
    /\ \A i \in m..n - 1 :
          \E fr \in Seq(LineChars) :
             parseArgs(fr) = ts[i + 1].args /\ f[i] = fr \o CRLF \o f[i + 1]

\* A line is typed.
LEMMA QueueType ==
    ASSUME NEW m \in Nat, NEW n \in Nat, m <= n, NEW b \in Seq(Byte), NEW ts, NEW us,
           NEW f, Queue(f, m, n, b, ts), NEW fr \in Seq(LineChars),
           parseArgs(fr) = us[n + 1].args, \A i \in 1..n : us[i] = ts[i]
    PROVE  \E g : Queue(g, m, n + 1, b \o (fr \o CRLF), us)
<1> DEFINE e == fr \o CRLF
           g == [i \in m..n + 1 |-> IF i = n + 1 THEN << >> ELSE f[i] \o e]
<1>1. e \in Seq(Byte)
    BY LineIsText, EndChars, ConcatProperties
<1>2. \A i \in m..n : f[i] \in Seq(Byte) /\ f[i] \o e \in Seq(Byte)
  <2>1. \A i \in m..n : f[i] \in Seq(Byte)
      BY DEF Queue
  <2> HIDE DEF e
  <2> QED
      BY <1>1, <2>1, ConcatProperties
<1> HIDE DEF e
<1>3. g \in [m..n + 1 -> Seq(Byte)]
  <2>1. ASSUME NEW i \in m..n + 1
        PROVE  (IF i = n + 1 THEN << >> ELSE f[i] \o e) \in Seq(Byte)
    <3>1. i # n + 1 => i \in m..n
        OBVIOUS
    <3> QED
        BY <1>2, <3>1
  <2> QED
      BY <2>1
<1>4. \A i \in m..n + 1 : g[i] = IF i = n + 1 THEN << >> ELSE f[i] \o e
    OBVIOUS
<1> HIDE DEF g
<1>5. g[m] = b \o e /\ g[n + 1] = << >>
  <2>1. m \in m..n + 1 /\ n + 1 \in m..n + 1 /\ m # n + 1
      OBVIOUS
  <2>2. f[m] = b
      BY DEF Queue
  <2> QED
      BY <1>4, <2>1, <2>2
<1>6. ASSUME NEW i \in m..n
      PROVE  \E r \in Seq(LineChars) :
                parseArgs(r) = us[i + 1].args /\ g[i] = r \o CRLF \o g[i + 1]
  <2>1. CASE i = n
    <3>1. g[i] = << >> \o e /\ g[i + 1] = << >>
      <4>1. i \in m..n + 1 /\ i # n + 1 /\ i + 1 = n + 1
          BY <2>1
      <4>2. f[n] = << >>
          BY DEF Queue
      <4> QED
          BY <1>4, <1>5, <2>1, <4>1, <4>2
    <3>2. << >> \o e = e /\ e \o << >> = e
        BY <1>1, ConcatEmptySeq
    <3>3. g[i] = fr \o CRLF \o g[i + 1]
        BY <3>1, <3>2 DEF e
    <3> QED
        BY <2>1, <3>3
  <2>2. CASE i # n
    <3>1. i \in m..n - 1 /\ i \in m..n + 1 /\ i + 1 \in m..n + 1 /\ i + 1 \in m..n /\ i + 1 # n + 1
          /\ i # n + 1 /\ i + 1 \in 1..n
        BY <2>2
    <3>2. PICK r \in Seq(LineChars) :
             parseArgs(r) = ts[i + 1].args /\ f[i] = r \o CRLF \o f[i + 1]
        BY <3>1 DEF Queue
    <3> DEFINE q == r \o CRLF
               y == f[i + 1]
    <3>3. q \in Seq(Byte) /\ y \in Seq(Byte)
        BY <1>2, <3>1, LineIsText, EndChars, ConcatProperties
    <3>4. g[i] = f[i] \o e /\ g[i + 1] = y \o e /\ f[i] = q \o y
        BY <1>4, <3>1, <3>2
    <3> HIDE DEF q, y
    <3>5. (q \o y) \o e = q \o (y \o e)
      <4>1. Joins(q, y, e)
          BY <1>1, <3>3, Bytes
      <4> QED
          BY <4>1 DEF Joins
    <3>6. g[i] = q \o g[i + 1]
        BY <3>4, <3>5
    <3> QED
        BY <3>1, <3>2, <3>6 DEF q
  <2> QED
      BY <2>1, <2>2
<1>7. m..(n + 1) - 1 = m..n
    OBVIOUS
<1> QED
    BY <1>3, <1>5, <1>6, <1>7 DEF Queue, e

\* The server cuts off the next line.
LEMMA QueueCut ==
    ASSUME NEW m \in Nat, NEW n \in Nat, m <= n, NEW rb \in Seq(Byte), NEW u \in Seq(Byte),
           NEW ts, NEW f, Queue(f, m, n, rb \o u, ts), hasLine(rb)
    PROVE  /\ m < n /\ parseArgs(firstLine(rb)) = ts[m + 1].args
           /\ afterLine(rb) \in Seq(Byte) /\ firstLine(rb) \in Seq(LineChars)
           /\ \E g : Queue(g, m + 1, n, afterLine(rb) \o u, ts)
<1>1. f[m] = rb \o u /\ f[n] = << >> /\ \A i \in m..n : f[i] \in Seq(Byte)
    BY DEF Queue
<1>2. m # n
  <2>1. PICK i \in 1..Len(rb) : rb[i] = LF
      BY DEF hasLine, Contains
  <2>2. Len(rb \o u) = Len(rb) + Len(u) /\ Len(rb) \in Nat /\ Len(u) \in Nat
      BY ConcatProperties
  <2>3. Len(rb \o u) # 0
      BY <2>1, <2>2
  <2>4. rb \o u # << >>
      BY <2>3
  <2> QED
      BY <1>1, <2>4
<1>3. m \in m..n - 1 /\ m + 1 \in m..n /\ m < n
    BY <1>2
<1>4. PICK fr \in Seq(LineChars) : parseArgs(fr) = ts[m + 1].args /\ f[m] = fr \o CRLF \o f[m + 1]
    BY <1>3 DEF Queue
<1>5. fr \in Seq(Byte) /\ ~ hasLine(fr) /\ f[m + 1] \in Seq(Byte)
    BY <1>1, <1>3, LineIsText
<1>6. Holds(rb, u, fr, f[m + 1])
    BY <1>1, <1>4 DEF Holds
<1> DEFINE y == f[m + 1]
<1>7. firstLine(rb) = fr /\ afterLine(rb) \in Seq(Byte) /\ afterLine(rb) \o u = y
  <2>1. y \in Seq(Byte) /\ Holds(rb, u, fr, y)
      BY <1>5, <1>6
  <2> HIDE DEF y
  <2> QED
      BY <1>5, <2>1, EndChars, LineCut
<1> DEFINE g == [i \in m + 1..n |-> f[i]]
<1>8. Queue(g, m + 1, n, f[m + 1], ts)
  <2>1. \A i \in m + 1..n : g[i] = f[i] /\ i \in m..n
      OBVIOUS
  <2>2. g \in [m + 1..n -> Seq(Byte)]
      BY <1>1, <2>1
  <2>3. m + 1 \in m + 1..n /\ n \in m + 1..n
      BY <1>3
  <2>4. ASSUME NEW i \in m + 1..n - 1
        PROVE  \E r \in Seq(LineChars) :
                  parseArgs(r) = ts[i + 1].args /\ g[i] = r \o CRLF \o g[i + 1]
    <3>1. i \in m..n - 1 /\ i \in m + 1..n /\ i + 1 \in m + 1..n
        OBVIOUS
    <3>2. PICK r \in Seq(LineChars) :
             parseArgs(r) = ts[i + 1].args /\ f[i] = r \o CRLF \o f[i + 1]
        BY <3>1 DEF Queue
    <3>3. g[i] = f[i] /\ g[i + 1] = f[i + 1]
        BY <3>1, <2>1
    <3> QED
        BY <3>2, <3>3
  <2> HIDE DEF g
  <2> QED
      BY <1>1, <2>1, <2>2, <2>3, <2>4 DEF Queue
<1> QED
    BY <1>3, <1>4, <1>7, <1>8

-------------------------------------------------------------------------------
(* What the client has sent is what the server gets *)

Sent == [line : Seq(LineChars), args : Args]
Checked(t) == t \in Sent /\ Fits(t.args) /\ QuoteCount(t.line) % 2 = 0

\* The inductive invariant of the direction to the server: while the process
\* runs, the bytes that it has not cut into lines are the frames of the lines
\* that it has not executed, and each frame is split into the arguments that
\* the client has checked.
UpInv ==
    /\ rbuf \in Seq(Byte) /\ up \in Seq(Byte)
    /\ typed \in Seq(Sent) /\ got \in Seq(Args)
    /\ \A n \in 1..Len(typed) : Checked(typed[n])
    /\ Len(got) <= Len(typed)
    /\ \A n \in 1..Len(got) : got[n] = typed[n].args
    /\ aborted \/ \E f : Queue(f, Len(got), Len(typed), rbuf \o up, typed)

LEMMA UpInit == WireInit => UpInv
<1> SUFFICES ASSUME WireInit PROVE UpInv
    OBVIOUS
<1>1. rbuf = << >> /\ up = << >> /\ typed = << >> /\ got = << >>
    BY DEF WireInit
<1>2. Len(got) = 0 /\ Len(typed) = 0 /\ rbuf \o up = << >> /\ << >> \in Seq(Byte)
    BY <1>1
<1> DEFINE f == [i \in 0..0 |-> << >>]
<1>3. Queue(f, 0, 0, << >>, typed)
    BY <1>2 DEF Queue
<1>4. \E g : Queue(g, Len(got), Len(typed), rbuf \o up, typed)
    BY <1>2, <1>3
<1> QED
    BY <1>1, <1>2, <1>4 DEF UpInv

\* Of what the client accepts, the arguments and the frame.
LEMMA AcceptedIs ==
    ASSUME NEW l \in Accepted
    PROVE  /\ l.as.frame \in Seq(LineChars)
           /\ parseArgs(l.as.frame) = << l.as.command >> \o l.as.args
           /\ Checked([line |-> l.line, args |-> << l.as.command >> \o l.as.args])
           /\ l.as.command \in {s.name : s \in schemas}
           /\ (<< l.as.command >> \o l.as.args)[1] = l.as.command
<1>0. PICK s : /\ \E k \in Lines : s = withoutCR(k)
               /\ \E a \in accepted(s) : l = [line |-> s, as |-> a]
    BY DEF Accepted
<1>1. PICK a \in accepted(s) : l = [line |-> s, as |-> a]
    BY <1>0
<1>2. l.line = s /\ l.as = a
    BY <1>1
<1>3. s \in Seq(LineChars)
    BY <1>0, LinesAreTexts, Unappended DEF withoutCR
<1>4. Sound(LineChars, s, a)
    BY <1>3, AcceptedIsSound
<1>5. a.frame \in Seq(LineChars) /\ parseArgs(a.frame) = << a.command >> \o a.args
      /\ a.args \in Seq(Arg(LineChars)) /\ QuoteCount(s) % 2 = 0
    BY <1>4 DEF Sound
<1>6. PICK sc \in schemas : /\ sc.name = a.command
                            /\ sc.min <= Len(a.args) /\ Len(a.args) <= Len(sc.args)
    BY <1>4 DEF Sound
<1> DEFINE c == a.command
           g == a.args
           args == << c >> \o g
<1>7. args \in Args
    BY <1>5, ParseArgsType DEF Args
<1>8. Len(args) = Len(g) + 1 /\ args[1] = c /\ args # << >> /\ Len(g) \in Nat
  <2>1. << c >> \in Seq({c} \cup Arg(LineChars)) /\ g \in Seq({c} \cup Arg(LineChars))
      BY <1>5
  <2> DEFINE D == {c} \cup Arg(LineChars)
  <2>2. c \in D /\ g \in Seq(D)
      BY <2>1
  <2> HIDE DEF c, g, D
  <2> QED
      BY <2>2, InFront
<1>9. Fits(args)
  <2>1. Len(args) - 1 = Len(g)
      BY <1>8
  <2> HIDE DEF args
  <2> QED
      BY <1>6, <1>7, <1>8, <2>1 DEF Fits
<1>10. Checked([line |-> s, args |-> args])
  <2> HIDE DEF args
  <2> QED BY <1>3, <1>5, <1>7, <1>9 DEF Checked, Sent
<1>11. c \in {sch.name : sch \in schemas}
    BY <1>6
<1> QED
    BY <1>2, <1>5, <1>8, <1>10, <1>11

LEMMA UpType ==
    ASSUME UpInv, NEW l \in Accepted, Type(l)
    PROVE  UpInv'
<1>1. /\ rbuf \in Seq(Byte) /\ up \in Seq(Byte) /\ typed \in Seq(Sent) /\ got \in Seq(Args)
      /\ \A n \in 1..Len(typed) : Checked(typed[n])
      /\ Len(got) <= Len(typed) /\ Len(got) \in Nat /\ Len(typed) \in Nat
      /\ \A n \in 1..Len(got) : got[n] = typed[n].args
      /\ aborted \/ \E f : Queue(f, Len(got), Len(typed), rbuf \o up, typed)
    BY DEF UpInv
<1> DEFINE fr == l.as.frame
           args == << l.as.command >> \o l.as.args
           t == [line |-> l.line, args |-> args]
           n == Len(typed)
<1>2. fr \in Seq(LineChars) /\ parseArgs(fr) = args /\ Checked(t) /\ t.args = args
    BY AcceptedIs
<1>3. /\ rbuf' = rbuf /\ got' = got /\ aborted' = aborted
      /\ up' = up \o fr \o CRLF /\ typed' = Append(typed, t)
    BY DEF Type, serverVars, CRLF
<1> HIDE DEF fr, args, t
<1>4. t \in Sent
    BY <1>2 DEF Checked
<1>5. typed' \in Seq(Sent) /\ Len(typed') = n + 1 /\ typed'[n + 1] = t
      /\ \A i \in 1..n : typed'[i] = typed[i]
    BY <1>1, <1>3, <1>4, Appended
<1>6. \A i \in 1..Len(typed') : Checked(typed'[i])
  <2>1. \A i \in 1..n + 1 : i = n + 1 \/ i \in 1..n
      BY <1>1
  <2> QED
      BY <1>1, <1>2, <1>5, <2>1
<1>7. Len(got') <= Len(typed') /\ \A i \in 1..Len(got') : got'[i] = typed'[i].args
  <2>1. \A i \in 1..Len(got) : i \in 1..n
      BY <1>1
  <2> QED
      BY <1>1, <1>3, <1>5, <2>1
<1> DEFINE e == fr \o CRLF
<1>8. fr \in Seq(Byte) /\ CRLF \in Seq(Byte) /\ e \in Seq(Byte)
    BY <1>2, LineIsText, EndChars, ConcatProperties
<1>9. up' = up \o e /\ up' \in Seq(Byte)
  <2>1. up \o (fr \o CRLF) = (up \o fr) \o CRLF
    <3>1. Regroups(up, fr, CRLF)
        BY <1>1, <1>8, Regrouping
    <3> QED
        BY <3>1 DEF Regroups
  <2>2. up' = up \o e
      BY <1>3, <2>1
  <2> HIDE DEF e
  <2> QED
      BY <1>1, <1>8, <2>2, ConcatProperties
<1>10. aborted' \/ \E f : Queue(f, Len(got'), Len(typed'), rbuf' \o up', typed')
  <2> SUFFICES ASSUME ~ aborted
               PROVE  \E f : Queue(f, Len(got), n + 1, rbuf \o up', typed')
      BY <1>3, <1>5
  <2> DEFINE b == rbuf \o up
             m == Len(got)
             us == typed'
  <2>1. PICK f : Queue(f, m, n, b, typed)
      BY <1>1
  <2>2. b \in Seq(Byte)
      BY <1>1, ConcatProperties
  <2>3. us[n + 1].args = parseArgs(fr) /\ \A i \in 1..n : us[i] = typed[i]
      BY <1>2, <1>5
  <2>4. rbuf \o (up \o e) = b \o e
    <3>1. rbuf \in Seq(Byte) /\ up \in Seq(Byte) /\ e \in Seq(Byte)
        BY <1>1, <1>8
    <3> HIDE DEF e
    <3>2. Regroups(rbuf, up, e)
        BY <3>1, Regrouping
    <3> QED
        BY <3>2 DEF Regroups
  <2>5. m \in Nat /\ n \in Nat /\ m <= n
      BY <1>1
  <2> HIDE DEF b, m, n, us
  <2>6. \E g : Queue(g, m, n + 1, b \o (fr \o CRLF), us)
      BY <1>2, <2>1, <2>2, <2>3, <2>5, QueueType
  <2> QED
      BY <1>9, <2>4, <2>6 DEF m, us
<1> QED
    BY <1>1, <1>3, <1>5, <1>6, <1>7, <1>9, <1>10 DEF UpInv

LEMMA UpRead ==
    ASSUME UpInv, ServerRead
    PROVE  UpInv'
<1>1. PICK n \in ReadSizes(up) : /\ rbuf' = rbuf \o SubSeq(up, 1, n)
                                 /\ up' = SubSeq(up, n + 1, Len(up))
    BY DEF ServerRead
<1>2. got' = got /\ typed' = typed /\ aborted' = aborted
    BY DEF ServerRead
<1>3. rbuf \in Seq(Byte) /\ up \in Seq(Byte)
    BY DEF UpInv
<1> DEFINE x == SubSeq(up, 1, n)
           y == SubSeq(up, n + 1, Len(up))
<1>4. n \in 0..Len(up)
    BY <1>3 DEF ReadSizes
<1>5. x \in Seq(Byte) /\ y \in Seq(Byte) /\ up = x \o y
    BY <1>3, <1>4, Cut
<1> HIDE DEF x, y
<1>6. rbuf \o (x \o y) = (rbuf \o x) \o y /\ rbuf \o x \in Seq(Byte)
  <2>1. Joins(rbuf, x, y)
      BY <1>3, <1>5, Bytes
  <2> QED
      BY <2>1 DEF Joins
<1>7. rbuf' \o up' = rbuf \o up /\ rbuf' \in Seq(Byte) /\ up' \in Seq(Byte)
    BY <1>1, <1>5, <1>6 DEF x, y
<1> QED
    BY <1>2, <1>7 DEF UpInv

\* What parseCommand does to the arguments that the server has got.
LEMMA ParsedIsNext ==
    ASSUME UpInv, parseCommand
    PROVE  /\ ~ aborted /\ Len(got) < Len(typed)
           /\ parseArgs(firstLine(rbuf)) = typed[Len(got) + 1].args
           /\ firstLine(rbuf) \in Seq(LineChars)
           /\ rbuf' \in Seq(Byte) /\ up' = up /\ typed' = typed
           /\ \E g : Queue(g, Len(got) + 1, Len(typed), rbuf' \o up', typed)
<1>1. ~ aborted /\ hasLine(rbuf) /\ rbuf' = afterLine(rbuf) /\ up' = up /\ typed' = typed
    BY DEF parseCommand
<1> DEFINE m == Len(got)
           n == Len(typed)
<1>2. rbuf \in Seq(Byte) /\ up \in Seq(Byte) /\ m \in Nat /\ n \in Nat /\ m <= n
    BY DEF UpInv
<1>3. PICK f : Queue(f, m, n, rbuf \o up, typed)
    BY <1>1 DEF UpInv
<1> HIDE DEF m, n
<1>4. /\ m < n /\ parseArgs(firstLine(rbuf)) = typed[m + 1].args
      /\ afterLine(rbuf) \in Seq(Byte) /\ firstLine(rbuf) \in Seq(LineChars)
      /\ \E g : Queue(g, m + 1, n, afterLine(rbuf) \o up, typed)
    BY <1>1, <1>2, <1>3, QueueCut
<1> QED
    BY <1>1, <1>4 DEF m, n

LEMMA UpParse ==
    ASSUME UpInv, parseCommand
    PROVE  UpInv'
<1> DEFINE args == parseArgs(firstLine(rbuf))
           m == Len(got)
<1>1. /\ ~ aborted /\ m < Len(typed) /\ args = typed[m + 1].args
      /\ rbuf' \in Seq(Byte) /\ up' = up /\ typed' = typed
      /\ \E g : Queue(g, m + 1, Len(typed), rbuf' \o up', typed)
    BY ParsedIsNext
<1>2. /\ up \in Seq(Byte) /\ typed \in Seq(Sent) /\ got \in Seq(Args)
      /\ \A n \in 1..Len(typed) : Checked(typed[n])
      /\ m <= Len(typed) /\ m \in Nat /\ Len(typed) \in Nat
      /\ \A n \in 1..m : got[n] = typed[n].args
    BY DEF UpInv
<1>3. m + 1 \in 1..Len(typed)
    BY <1>1, <1>2
<1>4. args \in Args /\ args # << >>
    BY <1>1, <1>2, <1>3 DEF Checked, Fits
<1>5. \/ got' = Append(got, args)
      \/ got' = got /\ aborted'
    BY <1>4 DEF parseCommand, handleCommand
<1> HIDE DEF args
<1>6. CASE got' = Append(got, args)
  <2>1. got' \in Seq(Args) /\ Len(got') = m + 1 /\ got'[m + 1] = args
        /\ \A i \in 1..m : got'[i] = got[i]
      BY <1>2, <1>4, <1>6, Appended
  <2>2. \A i \in 1..m + 1 : i \in 1..m \/ i = m + 1
      BY <1>2
  <2>3. \A i \in 1..Len(got') : got'[i] = typed[i].args
      BY <1>1, <1>2, <2>1, <2>2
  <2>4. Len(got') <= Len(typed)
      BY <1>3, <2>1
  <2> QED
      BY <1>1, <1>2, <2>1, <2>3, <2>4 DEF UpInv
<1>7. CASE got' = got /\ aborted'
    BY <1>1, <1>2, <1>7 DEF UpInv
<1> QED
    BY <1>5, <1>6, <1>7

LEMMA UpNext == UpInv /\ [WireNext]_wireVars => UpInv'
<1> SUFFICES ASSUME UpInv, [WireNext]_wireVars PROVE UpInv'
    OBVIOUS
<1>1. ASSUME NEW l \in Accepted, Type(l) PROVE UpInv'
    BY <1>1, UpType
<1>2. CASE ServerRead
    BY <1>2, UpRead
<1>3. CASE parseCommand
    BY <1>3, UpParse
<1>4. ASSUME rbuf' = rbuf, up' = up, typed' = typed, got' = got, aborted' = aborted PROVE UpInv'
    BY <1>4 DEF UpInv
<1>5. ASSUME NEW kind \in Events, ServerEvent(kind) PROVE UpInv'
    BY <1>4, <1>5 DEF ServerEvent
<1>6. CASE ClientRead
    BY <1>4, <1>6 DEF ClientRead, serverVars
<1>7. CASE routeFrame
    BY <1>4, <1>7 DEF routeFrame, serverVars
<1>8. CASE UNCHANGED wireVars
    BY <1>4, <1>8 DEF wireVars
<1> QED
    BY <1>1, <1>2, <1>3, <1>5, <1>6, <1>7, <1>8 DEF WireNext

LEMMA UpImplies == UpInv => ArgumentsArriveAsChecked /\ MissingQuoteIsError
<1> SUFFICES ASSUME UpInv PROVE ArgumentsArriveAsChecked /\ MissingQuoteIsError
    OBVIOUS
<1>1. /\ typed \in Seq(Sent) /\ got \in Seq(Args)
      /\ \A n \in 1..Len(typed) : Checked(typed[n])
      /\ Len(got) <= Len(typed)
      /\ \A n \in 1..Len(got) : got[n] = typed[n].args
    BY Zenon DEF UpInv
<1>2. DOMAIN typed = 1..Len(typed) /\ Len(got) \in Nat /\ Len(typed) \in Nat
    BY <1>1
<1>3. MissingQuoteIsError
    BY <1>1, <1>2 DEF MissingQuoteIsError, Checked, QuoteCount
<1> DEFINE t == [n \in DOMAIN typed |-> typed[n].args]
           k == Len(got)
<1>4. t \in Seq(Args) /\ Len(t) = Len(typed) /\ \A n \in 1..Len(typed) : t[n] = typed[n].args
  <2>1. \A n \in 1..Len(typed) : typed[n].args \in Args
      BY <1>1 DEF Checked, Fits
  <2> QED
      BY <1>1, <1>2, <2>1
<1> HIDE DEF t
<1>5. SubSeq(got, 1, k) = SubSeq(t, 1, k)
  <2> DEFINE x == SubSeq(got, 1, k)
             y == SubSeq(t, 1, k)
  <2>1. k \in 0..Len(got) /\ k \in 0..Len(t)
      BY <1>1, <1>2, <1>4
  <2> HIDE DEF k
  <2>2. x \in Seq(Args) /\ Len(x) = k /\ \A i \in 1..k : x[i] = got[i]
      BY <1>1, <2>1, Cut
  <2>3. y \in Seq(Args) /\ Len(y) = k /\ \A i \in 1..k : y[i] = t[i]
      BY <1>4, <2>1, Cut
  <2> HIDE DEF x, y
  <2>4. \A i \in 1..k : i \in 1..Len(typed) /\ i \in 1..Len(got)
      BY <1>1, <1>2 DEF k
  <2>5. \A i \in 1..k : x[i] = y[i]
      BY <1>1, <1>4, <2>2, <2>3, <2>4
  <2>6. x = y
      BY <2>2, <2>3, <2>5, SeqEqual
  <2> QED
      BY <2>6 DEF x, y
<1> QED
    BY <1>1, <1>3, <1>4, <1>5 DEF ArgumentsArriveAsChecked, IsPrefix, t

\* Whatever is typed and however the bytes are cut into reads, the server
\* executes the lines that the client has accepted, in their order, with the
\* arguments that the client has checked (dispatchCommandLine, _parseCommands).
THEOREM ArgumentsArrive == WireSpec => []ArgumentsArriveAsChecked
<1>1. UpInv => ArgumentsArriveAsChecked
    BY UpImplies
<1> QED
    BY <1>1, UpInit, UpNext, PTL DEF WireSpec

\* Of a line with an odd number of quotes nothing is ever sent (hasUnquotedArgs).
THEOREM MissingQuoteRejected == WireSpec => []MissingQuoteIsError
<1>1. UpInv => MissingQuoteIsError
    BY UpImplies
<1> QED
    BY <1>1, UpInit, UpNext, PTL DEF WireSpec

-------------------------------------------------------------------------------
(* The lines of the server, and their tokens *)

\* The texts that are stored, and the values of the fields.
Texts == {t \in Arg(LineChars) : Tidy(t)}
TextFields == {"user", "team", "channel", "thread", "name", "description", "body", "asked"}
Numbers == {"timestamp", "status"}

GoodValues(v) ==
    /\ \A f \in TextFields : v[f] \in Texts
    /\ v["timestamp"] = << "1" >> /\ v["status"] = << "0" >>

Part == {word(w) : w \in Words} \cup {quoted(f) : f \in TextFields}
        \cup {bare(f) : f \in TextFields} \cup {plain(f) : f \in Numbers}

LEMMA PartIs ==
    /\ \A w \in Words : word(w) \in Part
    /\ \A f \in TextFields : quoted(f) \in Part /\ bare(f) \in Part
    /\ \A f \in Numbers : plain(f) \in Part
    BY DEF Part

LEMMA WordIsNoMark ==
    ASSUME NEW w \in Words
    PROVE  w \notin Spaces /\ w # Quote /\ w # Backslash /\ w \in LineChars
<1>1. w \notin {Blank, CR, LF, Quote, Backslash}
    BY DEF Words, Blank, CR, LF, Quote, Backslash
<1> QED
    BY <1>1 DEF Spaces, LineChars, Byte

LEMMA NumberIs ==
    ASSUME NEW w \in Words
    PROVE  escape(<< w >>) = << w >>
<1>1. << w >> = Append(<< >>, w) /\ << >> \in Seq(Words)
    OBVIOUS
<1>2. escape(Append(<< >>, w)) = escapeStep(escape(<< >>), w) /\ escape(<< >>) = << >>
    BY <1>1, EscapeEquations
<1>3. w \notin {Quote, Backslash}
    BY WordIsNoMark
<1>4. escapeStep(<< >>, w) = << >> \o << w >>
    BY <1>3 DEF escapeStep
<1>5. << >> \o << w >> = << w >>
    OBVIOUS
<1> QED
    BY <1>1, <1>2, <1>4, <1>5

\* The token that the client reads where the server has put the part p.
token(p, v) == IF p.as = "word" THEN << p.of >>
               ELSE IF p.as = "quoted" THEN escape(v[p.of]) ELSE v[p.of]
Tokens(ps, v) == [i \in 1..Len(ps) |-> token(ps[i], v)]

LEMMA TokenIs ==
    ASSUME NEW v, NEW x
    PROVE  /\ token(word(x), v) = << x >> /\ token(quoted(x), v) = escape(v[x])
           /\ token(bare(x), v) = v[x] /\ token(plain(x), v) = v[x]
    BY DEF token, word, quoted, bare, plain

\* A line is words and then fields.
Header(ws) == [i \in 1..Len(ws) |-> word(ws[i])]

Line(t, ws, fs, v) ==
    /\ t # << >> /\ Len(t) = Len(ws) + Len(fs)
    /\ \A i \in 1..Len(ws) : t[i] = << ws[i] >>
    /\ \A i \in 1..Len(fs) : t[Len(ws) + i] = Tokens(fs, v)[i]
    /\ SubSeq(t, Len(ws) + 1, Len(ws) + Len(fs)) = Tokens(fs, v)

LEMMA LineOf ==
    ASSUME NEW ws \in Seq(Words), ws # << >>, NEW fs \in Seq(Part), NEW v
    PROVE  /\ Header(ws) \o fs \in Seq(Part) /\ Header(ws) \o fs # << >>
           /\ Line(Tokens(Header(ws) \o fs, v), ws, fs, v)
<1> DEFINE hs == Header(ws)
           ps == hs \o fs
           t == Tokens(ps, v)
           m == Len(ws)
           n == Len(fs)
           u == Tokens(fs, v)
<1>1. hs \in Seq(Part) /\ Len(hs) = m /\ (\A i \in 1..m : hs[i] = word(ws[i])) /\ m \in Nat
      /\ m > 0
      /\ n \in Nat
    BY PartIs DEF Header
<1> HIDE DEF hs, m, n
<1>2. ps \in Seq(Part) /\ Len(ps) = m + n /\ (\A i \in 1..m : ps[i] = hs[i])
      /\ (\A i \in 1..n : ps[m + i] = fs[i])
  <2>0. hs \in Seq(Part) /\ fs \in Seq(Part)
      BY <1>1
  <2>1. ps \in Seq(Part) /\ Len(ps) = Len(hs) + Len(fs) /\ (\A i \in 1..Len(hs) : ps[i] = hs[i])
        /\ (\A i \in 1..Len(fs) : ps[Len(hs) + i] = fs[i])
      BY <2>0, Concat
  <2> HIDE DEF ps
  <2> QED
      BY <1>1, <2>1 DEF n
<1> HIDE DEF ps
<1>3. Len(t) = m + n /\ t \in Seq({token(ps[i], v) : i \in 1..m + n})
      /\ (\A i \in 1..m + n : t[i] = token(ps[i], v))
  <2>1. t = [i \in 1..m + n |-> token(ps[i], v)]
      BY <1>2 DEF Tokens
  <2> HIDE DEF t
  <2>2. m + n \in Nat
      BY <1>1
  <2> DEFINE k == m + n
  <2> HIDE DEF k
  <2>3. t = [i \in 1..k |-> token(ps[i], v)] /\ k \in Nat
      BY <2>1, <2>2 DEF k
  <2>4. Len(t) = k /\ t \in Seq({token(ps[i], v) : i \in 1..k})
    <3> DEFINE T == {token(ps[i], v) : i \in 1..k}
    <3>1. \A i \in 1..k : token(ps[i], v) \in T
        BY Zenon
    <3> HIDE DEF T
    <3>2. t \in [1..k -> T] /\ DOMAIN t = 1..k
        BY <2>3, <3>1, Zenon
    <3>3. Len(t) = k /\ t \in Seq(T)
        BY <2>3, <3>2
    <3> QED
        BY <3>3 DEF T
  <2>5. \A i \in 1..k : t[i] = token(ps[i], v)
      BY <2>3, Zenon
  <2> QED
      BY <2>4, <2>5 DEF k
<1>4. Len(u) = n /\ u = [i \in 1..n |-> token(fs[i], v)]
    BY <1>1 DEF Tokens, n
<1> HIDE DEF ps, t, u
<1>5. \A i \in 1..m : t[i] = << ws[i] >>
  <2>1. \A i \in 1..m : i \in 1..m + n
      BY <1>1
  <2> QED
      BY <1>1, <1>2, <1>3, <2>1, TokenIs
<1>6. \A i \in 1..n : t[m + i] = u[i]
  <2>1. \A i \in 1..n : m + i \in 1..m + n
      BY <1>1
  <2> QED
      BY <1>1, <1>2, <1>3, <1>4, <2>1
<1>7. SubSeq(t, m + 1, m + n) = u
  <2>1. SubSeq(t, m + 1, m + n) = [i \in 1..n |-> t[m + i]]
    <3>1. SubSeq(t, m + 1, m + n) = [i \in 1..(m + n) - (m + 1) + 1 |-> t[(m + 1) + i - 1]]
        BY <1>1, <1>3
    <3>2. (m + n) - (m + 1) + 1 = n /\ \A i \in 1..n : (m + 1) + i - 1 = m + i
        BY <1>1
    <3> QED
        BY <3>1, <3>2
  <2> QED
      BY <1>1, <1>2, <1>4, <1>6, <2>1
<1>8. t # << >> /\ ps # << >>
  <2>1. Len(t) # 0 /\ Len(ps) # 0
      BY <1>1, <1>2, <1>3
  <2> QED
      BY <2>1
<1> QED
    BY <1>2, <1>3, <1>5, <1>6, <1>7, <1>8 DEF Line, t, ps, hs, m, n, u

\* n fields with the tokens tk.
IsFields(fs, n, tk, v) == fs \in Seq(Part) /\ Len(fs) = n /\ Tokens(fs, v) = tk

LEMMA Fields1 ==
    ASSUME NEW v, NEW a \in Part
    PROVE  IsFields(<< a >>, 1, << token(a, v) >>, v)
    BY DEF IsFields, Tokens

LEMMA Fields2 ==
    ASSUME NEW v, NEW a \in Part, NEW b \in Part
    PROVE  IsFields(<< a, b >>, 2, << token(a, v), token(b, v) >>, v)
    BY DEF IsFields, Tokens

LEMMA Fields3 ==
    ASSUME NEW v, NEW a \in Part, NEW b \in Part, NEW c \in Part
    PROVE  IsFields(<< a, b, c >>, 3, << token(a, v), token(b, v), token(c, v) >>, v)
    BY DEF IsFields, Tokens

LEMMA Fields4 ==
    ASSUME NEW v, NEW a \in Part, NEW b \in Part, NEW c \in Part, NEW d \in Part
    PROVE  IsFields(<< a, b, c, d >>, 4, << token(a, v), token(b, v), token(c, v), token(d, v) >>,
               v)
    BY DEF IsFields, Tokens

LEMMA Fields5 ==
    ASSUME NEW v, NEW a \in Part, NEW b \in Part, NEW c \in Part, NEW d \in Part, NEW e \in Part
    PROVE  IsFields(<< a, b, c, d, e >>, 5, << token(a, v), token(b, v), token(c, v), token(d, v),
               token(e, v) >>, v)
    BY DEF IsFields, Tokens

\* A quoted text is displayed with its escapes; a number has none.
LEMMA FieldIs ==
    ASSUME NEW v, GoodValues(v)
    PROVE  /\ \A f \in TextFields : /\ quoted(f) \in Part /\ token(quoted(f), v) = escape(v[f])
                                    /\ bare(f) \in Part /\ token(bare(f), v) = v[f]
           /\ \A f \in Numbers : /\ plain(f) \in Part /\ token(plain(f), v) = escape(v[f])
                                 /\ number(escape(v[f]))
<1>1. "0" \in Words /\ "1" \in Words
    BY DEF Words
<1>2. escape(v["timestamp"]) = << "1" >> /\ escape(v["status"]) = << "0" >>
    BY <1>1, NumberIs DEF GoodValues
<1>3. number(<< "0" >>) /\ number(<< "1" >>)
    BY DEF number, Digits
<1> QED
    BY <1>2, <1>3, PartIs, TokenIs DEF GoodValues, Numbers

LEMMA NoFields == ASSUME NEW v PROVE IsFields(<< >>, 0, << >>, v)
    BY DEF IsFields, Tokens

\* The fields of the lines, and how they are displayed.
UserTokens(v) == << escape(v["user"]), escape(v["name"]), escape(v["status"]) >>
TeamTokens(v) == << escape(v["team"]), escape(v["name"]), escape(v["description"]) >>
ChannelTokens(v) == << escape(v["channel"]), escape(v["name"]),
                    escape(v["description"]) >>
ThreadTokens(v) == << escape(v["thread"]), escape(v["user"]), escape(v["timestamp"]),
                   escape(v["name"]), escape(v["body"]) >>
ReplyTokens(v) == << escape(v["thread"]), escape(v["user"]), escape(v["timestamp"]),
                  escape(v["body"]) >>
MessageTokens(v) == << escape(v["user"]), escape(v["timestamp"]), escape(v["body"]) >>
LoginTokens(v) == << escape(v["user"]), escape(v["name"]) >>
SubscriptionTokens(v) == << escape(v["user"]), escape(v["team"]) >>
AskedTokens(v) == << escape(v["asked"]) >>
ReplyEventTokens(v) == << escape(v["team"]), escape(v["thread"]), escape(v["user"]),
                       escape(v["body"]) >>
PrivateTokens(v) == << escape(v["user"]), escape(v["body"]) >>
NameTokens(v) == << v["user"], v["name"] >>
SubscriberTokens(v) == << v["team"], v["user"] >>

LEMMA UserFields ==
    ASSUME NEW v, GoodValues(v)
    PROVE  IsFields(aUser, 3, UserTokens(v), v) /\ number(UserTokens(v)[3])
<1>1. /\ quoted("user") \in Part /\ quoted("name") \in Part /\ plain("status") \in Part
    BY FieldIs DEF TextFields, Numbers
<1>2. IsFields(aUser, 3, << token(quoted("user"), v), token(quoted("name"), v),
               token(plain("status"), v) >>, v)
    BY <1>1, Fields3 DEF aUser
<1> QED
    BY <1>2, FieldIs DEF IsFields, UserTokens, TextFields, Numbers

LEMMA TeamFields ==
    ASSUME NEW v, GoodValues(v)
    PROVE  IsFields(aTeam, 3, TeamTokens(v), v)
<1>1. /\ quoted("team") \in Part /\ quoted("name") \in Part /\ quoted("description") \in Part
    BY FieldIs DEF TextFields
<1>2. IsFields(aTeam, 3, << token(quoted("team"), v), token(quoted("name"), v),
               token(quoted("description"), v) >>, v)
    BY <1>1, Fields3 DEF aTeam
<1> QED
    BY <1>2, FieldIs DEF IsFields, TeamTokens, TextFields

LEMMA ChannelFields ==
    ASSUME NEW v, GoodValues(v)
    PROVE  IsFields(aChannel, 3, ChannelTokens(v), v)
<1>1. /\ quoted("channel") \in Part /\ quoted("name") \in Part /\ quoted("description") \in Part
    BY FieldIs DEF TextFields
<1>2. IsFields(aChannel, 3, << token(quoted("channel"), v), token(quoted("name"), v),
               token(quoted("description"), v) >>, v)
    BY <1>1, Fields3 DEF aChannel
<1> QED
    BY <1>2, FieldIs DEF IsFields, ChannelTokens, TextFields

LEMMA ThreadFields ==
    ASSUME NEW v, GoodValues(v)
    PROVE  IsFields(aThread, 5, ThreadTokens(v), v) /\ number(ThreadTokens(v)[3])
<1>1. /\ quoted("thread") \in Part /\ quoted("user") \in Part /\ plain("timestamp") \in Part
      /\ quoted("name") \in Part /\ quoted("body") \in Part
    BY FieldIs DEF TextFields, Numbers
<1>2. IsFields(aThread, 5, << token(quoted("thread"), v), token(quoted("user"), v),
               token(plain("timestamp"), v), token(quoted("name"), v), token(quoted("body"),
               v) >>, v)
    BY <1>1, Fields5 DEF aThread
<1> QED
    BY <1>2, FieldIs DEF IsFields, ThreadTokens, TextFields, Numbers

LEMMA ReplyFields ==
    ASSUME NEW v, GoodValues(v)
    PROVE  IsFields(aReply, 4, ReplyTokens(v), v) /\ number(ReplyTokens(v)[3])
<1>1. /\ quoted("thread") \in Part /\ quoted("user") \in Part /\ plain("timestamp") \in Part
      /\ quoted("body") \in Part
    BY FieldIs DEF TextFields, Numbers
<1>2. IsFields(aReply, 4, << token(quoted("thread"), v), token(quoted("user"), v),
               token(plain("timestamp"), v), token(quoted("body"), v) >>, v)
    BY <1>1, Fields4 DEF aReply
<1> QED
    BY <1>2, FieldIs DEF IsFields, ReplyTokens, TextFields, Numbers

LEMMA MessageFields ==
    ASSUME NEW v, GoodValues(v)
    PROVE  IsFields(aMessage, 3, MessageTokens(v), v) /\ number(MessageTokens(v)[2])
<1>1. /\ quoted("user") \in Part /\ plain("timestamp") \in Part /\ quoted("body") \in Part
    BY FieldIs DEF TextFields, Numbers
<1>2. IsFields(aMessage, 3, << token(quoted("user"), v), token(plain("timestamp"), v),
               token(quoted("body"), v) >>, v)
    BY <1>1, Fields3 DEF aMessage
<1> QED
    BY <1>2, FieldIs DEF IsFields, MessageTokens, TextFields, Numbers

LEMMA LoginFields ==
    ASSUME NEW v, GoodValues(v)
    PROVE  IsFields(<< quoted("user"), quoted("name") >>, 2, LoginTokens(v), v)
<1>1. /\ quoted("user") \in Part /\ quoted("name") \in Part
    BY FieldIs DEF TextFields
<1>2. IsFields(<< quoted("user"), quoted("name") >>, 2, << token(quoted("user"), v),
               token(quoted("name"), v) >>, v)
    BY <1>1, Fields2
<1> QED
    BY <1>2, FieldIs DEF IsFields, LoginTokens, TextFields

LEMMA SubscriptionFields ==
    ASSUME NEW v, GoodValues(v)
    PROVE  IsFields(<< quoted("user"), quoted("team") >>, 2, SubscriptionTokens(v), v)
<1>1. /\ quoted("user") \in Part /\ quoted("team") \in Part
    BY FieldIs DEF TextFields
<1>2. IsFields(<< quoted("user"), quoted("team") >>, 2, << token(quoted("user"), v),
               token(quoted("team"), v) >>, v)
    BY <1>1, Fields2
<1> QED
    BY <1>2, FieldIs DEF IsFields, SubscriptionTokens, TextFields

LEMMA AskedFields ==
    ASSUME NEW v, GoodValues(v)
    PROVE  IsFields(<< quoted("asked") >>, 1, AskedTokens(v), v)
<1>1. /\ quoted("asked") \in Part
    BY FieldIs DEF TextFields
<1>2. IsFields(<< quoted("asked") >>, 1, << token(quoted("asked"), v) >>, v)
    BY <1>1, Fields1
<1> QED
    BY <1>2, FieldIs DEF IsFields, AskedTokens, TextFields

LEMMA ReplyEventFields ==
    ASSUME NEW v, GoodValues(v)
    PROVE  IsFields(<< quoted("team"), quoted("thread"), quoted("user"), quoted("body") >>, 4,
               ReplyEventTokens(v), v)
<1>1. /\ quoted("team") \in Part /\ quoted("thread") \in Part /\ quoted("user") \in Part
      /\ quoted("body") \in Part
    BY FieldIs DEF TextFields
<1>2. IsFields(<< quoted("team"), quoted("thread"), quoted("user"), quoted("body") >>, 4,
               << token(quoted("team"), v), token(quoted("thread"), v), token(quoted("user"),
               v), token(quoted("body"), v) >>, v)
    BY <1>1, Fields4
<1> QED
    BY <1>2, FieldIs DEF IsFields, ReplyEventTokens, TextFields

LEMMA PrivateFields ==
    ASSUME NEW v, GoodValues(v)
    PROVE  IsFields(<< quoted("user"), quoted("body") >>, 2, PrivateTokens(v), v)
<1>1. /\ quoted("user") \in Part /\ quoted("body") \in Part
    BY FieldIs DEF TextFields
<1>2. IsFields(<< quoted("user"), quoted("body") >>, 2, << token(quoted("user"), v),
               token(quoted("body"), v) >>, v)
    BY <1>1, Fields2
<1> QED
    BY <1>2, FieldIs DEF IsFields, PrivateTokens, TextFields

LEMMA NameFields ==
    ASSUME NEW v, GoodValues(v)
    PROVE  IsFields(<< bare("user"), bare("name") >>, 2, NameTokens(v), v)
<1>1. /\ bare("user") \in Part /\ bare("name") \in Part
    BY FieldIs DEF TextFields
<1>2. IsFields(<< bare("user"), bare("name") >>, 2, << token(bare("user"), v),
               token(bare("name"), v) >>, v)
    BY <1>1, Fields2
<1> QED
    BY <1>2, FieldIs DEF IsFields, NameTokens, TextFields

LEMMA SubscriberFields ==
    ASSUME NEW v, GoodValues(v)
    PROVE  IsFields(<< bare("team"), bare("user") >>, 2, SubscriberTokens(v), v)
<1>1. /\ bare("team") \in Part /\ bare("user") \in Part
    BY FieldIs DEF TextFields
<1>2. IsFields(<< bare("team"), bare("user") >>, 2, << token(bare("team"), v),
               token(bare("user"), v) >>, v)
    BY <1>1, Fields2
<1> QED
    BY <1>2, FieldIs DEF IsFields, SubscriberTokens, TextFields

\* The first word decides.
LEMMA OnEvent ==
    ASSUME NEW t, t # << >>, t[1] = << "EVENT" >>, Len(t) >= 2, ~ (Len(t) < 2), NEW x, NEW p
    PROVE  displayed(t, x, p) = handlers(t[2], t, p)
    BY DEF displayed

LEMMA OnItem ==
    ASSUME NEW t, t # << >>, t[1] = << "210" >>, NEW x, NEW p
    PROVE  displayed(t, x, p) = listHandlers(x, t)
    BY DEF displayed

LEMMA OnStatus ==
    ASSUME NEW t, t # << >>, NEW x, NEW p,
           t[1] \in {<< "200" >>, << "201" >>, << "400" >>, << "401" >>, << "403" >>, << "404" >>,
                     << "409" >>, << "user_subscribed" >>, << "user_unsubscribed" >>}
    PROVE  displayed(t, x, p) = handle(t[1], t, p)
<1>1. displayed(t, x, p) = handlers(t[1], t, p)
    BY DEF displayed
<1>2. @ = handle(t[1], t, p)
    BY DEF handlers
<1> QED
    BY <1>1, <1>2

LEMMA On200 ==
    ASSUME NEW t, t # << >>, t[1] = << "200" >>, NEW x, NEW p
    PROVE  displayed(t, x, p) = handle200(t)
<1>1. displayed(t, x, p) = handle(t[1], t, p)
    BY OnStatus
<1>2. @ = handle200(t)
    BY DEF handle
<1> QED
    BY <1>1, <1>2

LEMMA On201 ==
    ASSUME NEW t, t # << >>, t[1] = << "201" >>, NEW x, NEW p
    PROVE  displayed(t, x, p) = handle201(t)
<1>1. displayed(t, x, p) = handle(t[1], t, p)
    BY OnStatus
<1>2. @ = handle201(t)
    BY DEF handle
<1> QED
    BY <1>1, <1>2

LEMMA On404 ==
    ASSUME NEW t, t # << >>, t[1] = << "404" >>, NEW x, NEW p
    PROVE  displayed(t, x, p) = handle404(t, p)
<1>1. displayed(t, x, p) = handle(t[1], t, p)
    BY OnStatus
<1>2. @ = handle404(t, p)
    BY DEF handle
<1> QED
    BY <1>1, <1>2

\* What a line of this kind with the values v makes the client display: what it
\* is meant for, with the escapes left in.
rendering(kind, v) ==
    IF kind \notin DOMAIN Meaning THEN << >>
    ELSE << call(Head(Meaning[kind]),
                 [i \in 1..(Len(Meaning[kind]) - 1) |-> escape(v[Meaning[kind][i + 1]])]) >>

LEMMA RenderingIs ==
    ASSUME NEW kind, NEW v
    PROVE  escaped(meaning(kind, v)) = rendering(kind, v)
<1>1. CASE kind \notin DOMAIN Meaning
  <2>1. meaning(kind, v) = << >> /\ rendering(kind, v) = << >>
      BY <1>1 DEF meaning, rendering
  <2> QED
      BY <2>1 DEF escaped
<1>2. CASE kind \in DOMAIN Meaning
  <2> DEFINE m == Meaning[kind]
             f == Head(m)
             k == Len(m) - 1
             raw == [i \in 1..k |-> v[m[i + 1]]]
             esc == [i \in 1..k |-> escape(v[m[i + 1]])]
  <2>1. meaning(kind, v) = << call(f, raw) >> /\ rendering(kind, v) = << call(f, esc) >>
      BY <1>2 DEF meaning, rendering
  <2>2. [j \in DOMAIN raw |-> escape(raw[j])] = esc
      OBVIOUS
  <2>3. call(f, raw).function = f /\ call(f, raw).fields = raw
      BY DEF call
  <2> HIDE DEF m, f, k, raw, esc
  <2> DEFINE d == << call(f, raw) >>
  <2>4. DOMAIN d = {1} /\ d[1] = call(f, raw)
      OBVIOUS
  <2> HIDE DEF d
  <2>5. escaped(d) = [i \in {1} |-> call(f, esc)]
      BY <2>2, <2>3, <2>4 DEF escaped
  <2>6. [i \in {1} |-> call(f, esc)] = << call(f, esc) >>
      OBVIOUS
  <2> QED
      BY <2>1, <2>5, <2>6 DEF d
<1> QED
    BY <1>1, <1>2

\* The line of this kind shows what it is meant for, when the list x is open
\* and the command p was sent last.
WellFormed(kind, v) ==
    /\ format(kind) \in Seq(Part) /\ format(kind) # << >>
    /\ Tokens(format(kind), v)[1] \notin {<< "210-BEGIN" >>, << "210-END" >>}
Shown(kind, v, x, p) ==
    WellFormed(kind, v) /\ displayed(Tokens(format(kind), v), x, p) = rendering(kind, v)

\* The tokens of a line with one, two or three words and n fields.
One(t, a, n, tk) ==
    /\ t # << >> /\ Len(t) = 1 + n /\ t[1] = << a >>
    /\ (\A i \in 1..n : t[1 + i] = tk[i]) /\ SubSeq(t, 2, 1 + n) = tk
Two(t, a, b, n, tk) ==
    /\ t # << >> /\ Len(t) = 2 + n /\ t[1] = << a >> /\ t[2] = << b >>
    /\ (\A i \in 1..n : t[2 + i] = tk[i]) /\ SubSeq(t, 3, 2 + n) = tk
Three(t, a, b, c, n, tk) ==
    /\ t # << >> /\ Len(t) = 3 + n /\ t[1] = << a >> /\ t[2] = << b >> /\ t[3] = << c >>
    /\ (\A i \in 1..n : t[3 + i] = tk[i]) /\ SubSeq(t, 4, 3 + n) = tk

Shape(t, ws, n, tk) ==
    /\ t # << >> /\ Len(t) = Len(ws) + n
    /\ \A i \in 1..Len(ws) : t[i] = << ws[i] >>
    /\ \A i \in 1..n : t[Len(ws) + i] = tk[i]
    /\ SubSeq(t, Len(ws) + 1, Len(ws) + n) = tk

LEMMA LineShows ==
    ASSUME NEW v, NEW kind, NEW ws \in Seq(Words), ws # << >>,
           ws[1] \notin {"210-BEGIN", "210-END"}, NEW fs, NEW n, NEW tk, IsFields(fs, n, tk, v),
           format(kind) = Header(ws) \o fs
    PROVE  WellFormed(kind, v) /\ Shape(Tokens(format(kind), v), ws, n, tk)
<1> DEFINE t == Tokens(format(kind), v)
<1>1. fs \in Seq(Part) /\ Len(fs) = n /\ Tokens(fs, v) = tk
    BY DEF IsFields
<1>2. format(kind) \in Seq(Part) /\ format(kind) # << >> /\ Line(t, ws, fs, v)
    BY <1>1, LineOf
<1> HIDE DEF t
<1>3. t[1] = << ws[1] >>
  <2>1. 1 \in 1..Len(ws)
      OBVIOUS
  <2> QED
      BY <1>2, <2>1 DEF Line
<1>4. t[1] \notin {<< "210-BEGIN" >>, << "210-END" >>}
    BY <1>3
<1>5. Shape(t, ws, n, tk)
    BY <1>1, <1>2 DEF Line, Shape
<1> QED
    BY <1>2, <1>4, <1>5 DEF WellFormed, t

LEMMA OneIsShown ==
    ASSUME NEW v, NEW kind, NEW a \in Words,
           a \notin {"210-BEGIN", "210-END"}, NEW fs, NEW n, NEW tk, IsFields(fs, n, tk, v),
           format(kind) = << word(a) >> \o fs
    PROVE  WellFormed(kind, v) /\ One(Tokens(format(kind), v), a, n, tk)
<1> DEFINE ws == << a >>
           t == Tokens(format(kind), v)
<1>1. ws \in Seq(Words) /\ ws # << >> /\ Len(ws) = 1 /\ ws[1] = a
    OBVIOUS
<1>2. format(kind) = Header(ws) \o fs
    BY DEF Header
<1> HIDE DEF ws
<1>3. ws[1] \notin {"210-BEGIN", "210-END"}
    BY <1>1
<1>4. WellFormed(kind, v) /\ Shape(t, ws, n, tk)
    BY <1>1, <1>2, <1>3, LineShows
<1> HIDE DEF t
<1>5. One(t, a, n, tk)
    BY <1>1, <1>4 DEF One, Shape
<1> QED
    BY <1>4, <1>5 DEF t

LEMMA TwoIsShown ==
    ASSUME NEW v, NEW kind, NEW a \in Words, NEW b \in Words,
           a \notin {"210-BEGIN", "210-END"}, NEW fs, NEW n, NEW tk, IsFields(fs, n, tk, v),
           format(kind) = << word(a), word(b) >> \o fs
    PROVE  WellFormed(kind, v) /\ Two(Tokens(format(kind), v), a, b, n, tk)
<1> DEFINE ws == << a, b >>
           t == Tokens(format(kind), v)
<1>1. ws \in Seq(Words) /\ ws # << >> /\ Len(ws) = 2 /\ ws[1] = a /\ ws[2] = b
    OBVIOUS
<1>2. format(kind) = Header(ws) \o fs
    BY DEF Header
<1> HIDE DEF ws
<1>3. ws[1] \notin {"210-BEGIN", "210-END"}
    BY <1>1
<1>4. WellFormed(kind, v) /\ Shape(t, ws, n, tk)
    BY <1>1, <1>2, <1>3, LineShows
<1> HIDE DEF t
<1>5. Two(t, a, b, n, tk)
    BY <1>1, <1>4 DEF Two, Shape
<1> QED
    BY <1>4, <1>5 DEF t

LEMMA ThreeIsShown ==
    ASSUME NEW v, NEW kind, NEW a \in Words, NEW b \in Words, NEW c \in Words,
           a \notin {"210-BEGIN", "210-END"}, NEW fs, NEW n, NEW tk, IsFields(fs, n, tk, v),
           format(kind) = << word(a), word(b), word(c) >> \o fs
    PROVE  WellFormed(kind, v) /\ Three(Tokens(format(kind), v), a, b, c, n, tk)
<1> DEFINE ws == << a, b, c >>
           t == Tokens(format(kind), v)
<1>1. ws \in Seq(Words) /\ ws # << >> /\ Len(ws) = 3 /\ ws[1] = a /\ ws[2] = b /\ ws[3] = c
    OBVIOUS
<1>2. format(kind) = Header(ws) \o fs
    BY DEF Header
<1> HIDE DEF ws
<1>3. ws[1] \notin {"210-BEGIN", "210-END"}
    BY <1>1
<1>4. WellFormed(kind, v) /\ Shape(t, ws, n, tk)
    BY <1>1, <1>2, <1>3, LineShows
<1> HIDE DEF t
<1>5. Three(t, a, b, c, n, tk)
    BY <1>1, <1>4 DEF Three, Shape
<1> QED
    BY <1>4, <1>5 DEF t

LEMMA FormatKinds ==
    /\ DOMAIN loginFormats = {"LOGIN", "USER_LOGGED_IN"}
    /\ DOMAIN logoutFormats = {"OK", "USER_LOGGED_OUT"}
    /\ DOMAIN userFormats = {"USER", "UNKNOWN"}
    /\ DOMAIN createFormats = {"CREATED_TEAM", "CREATED_CHANNEL", "CREATED_THREAD",
                               "CREATED_REPLY", "TEAM_CREATED", "CHANNEL_CREATED",
                               "THREAD_CREATED", "REPLY_CREATED"}
    /\ DOMAIN infoFormats = {"INFO_USER", "INFO_TEAM", "INFO_CHANNEL", "INFO_THREAD"}
    /\ DOMAIN listFormats = {"USERS", "TEAMS", "CHANNELS", "THREADS", "REPLIES", "MESSAGES"}
    /\ DOMAIN subscribeFormats = {"SUBSCRIBE", "user_subscribed"}
    /\ DOMAIN unsubscribeFormats = {"UNSUBSCRIBE", "user_unsubscribed"}
    /\ DOMAIN sendFormats = {"PRIVATE_MESSAGE"}
    /\ DOMAIN errorFormats = {"BAD_REQUEST", "UNAUTHORIZED", "FORBIDDEN", "ALREADY_EXISTS",
                              "UNKNOWN_TEAM", "UNKNOWN_CHANNEL", "UNKNOWN_THREAD",
                              "UNKNOWN_USER"}
    BY DEF loginFormats, logoutFormats, userFormats, createFormats, infoFormats, listFormats,
           subscribeFormats, unsubscribeFormats, sendFormats, errorFormats

LEMMA OneAndTwo ==
    ASSUME NEW a, NEW b, NEW c
    PROVE  << a >> \o << b, c >> = << a, b, c >>
<1> DEFINE C == {a, b, c}
           p == << a >>
           q == << b, c >>
           s == << a, b, c >>
<1>1. p \in Seq(C) /\ q \in Seq(C) /\ s \in Seq(C) /\ Len(s) = Len(p) + Len(q)
    OBVIOUS
<1>2. \A i \in 1..Len(p) : s[i] = p[i]
    OBVIOUS
<1>3. \A i \in 1..Len(q) : s[Len(p) + i] = q[i]
    OBVIOUS
<1> HIDE DEF C, p, q, s
<1>4. s = p \o q
    BY <1>1, <1>2, <1>3, IsConcat
<1> QED
    BY <1>4 DEF s, p, q

LEMMA TwoAndOne ==
    ASSUME NEW a, NEW b, NEW c
    PROVE  << a, b >> \o << c >> = << a, b, c >>
<1> DEFINE C == {a, b, c}
           p == << a, b >>
           q == << c >>
           s == << a, b, c >>
<1>1. p \in Seq(C) /\ q \in Seq(C) /\ s \in Seq(C) /\ Len(s) = Len(p) + Len(q)
    OBVIOUS
<1>2. \A i \in 1..Len(p) : s[i] = p[i]
    OBVIOUS
<1>3. \A i \in 1..Len(q) : s[Len(p) + i] = q[i]
    OBVIOUS
<1> HIDE DEF C, p, q, s
<1>4. s = p \o q
    BY <1>1, <1>2, <1>3, IsConcat
<1> QED
    BY <1>4 DEF s, p, q

LEMMA FourByTwo ==
    ASSUME NEW a, NEW b, NEW c, NEW d
    PROVE  << a, b >> \o << c, d >> = << a, b, c, d >>
<1> DEFINE C == {a, b, c, d}
           p == << a, b >>
           q == << c, d >>
           s == << a, b, c, d >>
<1>1. p \in Seq(C) /\ q \in Seq(C) /\ s \in Seq(C) /\ Len(s) = Len(p) + Len(q)
    OBVIOUS
<1>2. \A i \in 1..Len(p) : s[i] = p[i]
    OBVIOUS
<1>3. \A i \in 1..Len(q) : s[Len(p) + i] = q[i]
    OBVIOUS
<1> HIDE DEF C, p, q, s
<1>4. s = p \o q
    BY <1>1, <1>2, <1>3, IsConcat
<1> QED
    BY <1>4 DEF s, p, q

LEMMA FourByThree ==
    ASSUME NEW a, NEW b, NEW c, NEW d
    PROVE  << a, b, c >> \o << d >> = << a, b, c, d >>
<1> DEFINE C == {a, b, c, d}
           p == << a, b, c >>
           q == << d >>
           s == << a, b, c, d >>
<1>1. p \in Seq(C) /\ q \in Seq(C) /\ s \in Seq(C) /\ Len(s) = Len(p) + Len(q)
    OBVIOUS
<1>2. \A i \in 1..Len(p) : s[i] = p[i]
    OBVIOUS
<1>3. \A i \in 1..Len(q) : s[Len(p) + i] = q[i]
    OBVIOUS
<1> HIDE DEF C, p, q, s
<1>4. s = p \o q
    BY <1>1, <1>2, <1>3, IsConcat
<1> QED
    BY <1>4 DEF s, p, q

\* A status line and two tokens are three words and one token.
ThreeWords(a, b, c, d) == << a, b >> \o << c, d >> = << a, b, c >> \o << d >>

LEMMA TwoAndTwo ==
    ASSUME NEW a, NEW b, NEW c, NEW d
    PROVE  ThreeWords(a, b, c, d)
<1>1. << a, b >> \o << c, d >> = << a, b, c, d >>
    BY FourByTwo
<1>2. << a, b, c >> \o << d >> = << a, b, c, d >>
    BY FourByThree
<1> QED
    BY <1>1, <1>2, Zenon DEF ThreeWords

LEMMA TwoAndNone ==
    ASSUME NEW a, NEW b
    PROVE  << a, b >> \o << >> = << a, b >>
<1> DEFINE h == << a, b >>
           C == {a, b}
<1>1. h \in Seq(C)
    OBVIOUS
<1> HIDE DEF h, C
<1>2. h \o << >> = h
    BY <1>1, ConcatEmptySeq
<1> QED
    BY <1>2 DEF h

\* What was done or asked for.
LEMMA DoneAreShown ==
    ASSUME NEW v, GoodValues(v), NEW x, NEW p
    PROVE  /\ Shown("LOGIN", v, x, p)
           /\ Shown("OK", v, x, p)
           /\ Shown("USER", v, x, p)
           /\ Shown("INFO_USER", v, x, p)
           /\ Shown("INFO_TEAM", v, x, p)
           /\ Shown("INFO_CHANNEL", v, x, p)
           /\ Shown("INFO_THREAD", v, x, p)
           /\ Shown("SUBSCRIBE", v, x, p)
           /\ Shown("UNSUBSCRIBE", v, x, p)
<1>1. Shown("LOGIN", v, x, p)
  <2>1. format("LOGIN") = << word("200"), word("OK") >> \o << bare("user"), bare("name") >>
    <3>1. format("LOGIN") = loginFormats["LOGIN"]
        BY FormatKinds DEF format
    <3> QED
        BY <3>1 DEF loginFormats, status
  <2>2. ASSUME NEW t, Two(t, "200", "OK", 2, NameTokens(v))
        PROVE  displayed(t, x, p) = rendering("LOGIN", v)
    <3>1. /\ t # << >> /\ Len(t) = 4 /\ t[1] = << "200" >> /\ t[2] = << "OK" >>
        BY <2>2 DEF Two
    <3>2. displayed(t, x, p) = handle200(t)
        BY <3>1, On200
    <3>3. @ = << >>
        BY <3>1 DEF handle200
    <3>4. @ = rendering("LOGIN", v)
        BY DEF rendering, Meaning
    <3> QED
        BY <3>2, <3>3, <3>4
  <2>3. "200" \in Words /\ "OK" \in Words
      BY DEF Words
  <2>4. WellFormed("LOGIN", v) /\ Two(Tokens(format("LOGIN"), v), "200", "OK", 2, NameTokens(v))
      BY <2>1, <2>3, NameFields, TwoIsShown
  <2> QED
      BY <2>2, <2>4 DEF Shown
<1>2. Shown("OK", v, x, p)
  <2>1. format("OK") = << word("200"), word("OK") >> \o << >>
    <3>1. format("OK") = logoutFormats["OK"]
        BY FormatKinds DEF format
    <3>2. @ = << word("200"), word("OK") >>
        BY DEF logoutFormats, status
    <3> QED
        BY <3>1, <3>2, TwoAndNone
  <2>2. ASSUME NEW t, Two(t, "200", "OK", 0, << >>)
        PROVE  displayed(t, x, p) = rendering("OK", v)
    <3>1. /\ t # << >> /\ Len(t) = 2 /\ t[1] = << "200" >> /\ t[2] = << "OK" >>
        BY <2>2 DEF Two
    <3>2. displayed(t, x, p) = handle200(t)
        BY <3>1, On200
    <3>3. @ = << >>
        BY <3>1 DEF handle200
    <3>4. @ = rendering("OK", v)
        BY DEF rendering, Meaning
    <3> QED
        BY <3>2, <3>3, <3>4
  <2>3. "200" \in Words /\ "OK" \in Words
      BY DEF Words
  <2>4. WellFormed("OK", v) /\ Two(Tokens(format("OK"), v), "200", "OK", 0, << >>)
      BY <2>1, <2>3, NoFields, TwoIsShown
  <2> QED
      BY <2>2, <2>4 DEF Shown
<1>3. Shown("USER", v, x, p)
  <2>1. format("USER") = << word("200"), word("USER") >> \o aUser
    <3>1. format("USER") = userFormats["USER"]
        BY FormatKinds DEF format
    <3> QED
        BY <3>1 DEF userFormats, status
  <2>2. ASSUME NEW t, Two(t, "200", "USER", 3, UserTokens(v))
        PROVE  displayed(t, x, p) = rendering("USER", v)
    <3>1. /\ t # << >> /\ Len(t) = 5 /\ t[1] = << "200" >> /\ t[2] = << "USER" >>
          /\ number(t[5])
        BY <2>2, UserFields DEF Two
    <3>2. SubSeq(t, 3, 5) = UserTokens(v)
        BY <2>2 DEF Two
    <3>3. displayed(t, x, p) = handle200(t)
        BY <3>1, On200
    <3>4. @ = handle200User(t)
        BY <3>1 DEF handle200
    <3>5. @ = << call("client_print_user", SubSeq(t, 3, 5)) >>
        BY <3>1 DEF handle200User, showIf
    <3>6. @ = << call("client_print_user", UserTokens(v)) >>
        BY <3>2, Zenon
    <3>7. @ = rendering("USER", v)
        BY DEF rendering, Meaning, UserTokens
    <3> QED
        BY <3>3, <3>4, <3>5, <3>6, <3>7
  <2>3. "200" \in Words /\ "USER" \in Words
      BY DEF Words
  <2>4. WellFormed("USER", v) /\ Two(Tokens(format("USER"), v), "200", "USER", 3, UserTokens(v))
      BY <2>1, <2>3, UserFields, TwoIsShown
  <2> QED
      BY <2>2, <2>4 DEF Shown
<1>4. Shown("INFO_USER", v, x, p)
  <2>1. format("INFO_USER") = << word("200"), word("INFO"), word("USER") >> \o aUser
    <3>1. format("INFO_USER") = infoFormats["INFO_USER"]
        BY FormatKinds DEF format
    <3>2. @ = (<< word("200"), word("INFO") >> \o << word("USER") >>) \o aUser
        BY DEF infoFormats, status
    <3> QED
        BY <3>1, <3>2, TwoAndOne
  <2>2. ASSUME NEW t, Three(t, "200", "INFO", "USER", 3, UserTokens(v))
        PROVE  displayed(t, x, p) = rendering("INFO_USER", v)
    <3>1. /\ t # << >> /\ Len(t) = 6 /\ t[1] = << "200" >> /\ t[2] = << "INFO" >>
          /\ t[3] = << "USER" >> /\ number(t[6])
        BY <2>2, UserFields DEF Three
    <3>2. SubSeq(t, 4, 6) = UserTokens(v)
        BY <2>2 DEF Three
    <3>3. displayed(t, x, p) = handle200(t)
        BY <3>1, On200
    <3>4. @ = handle200Info(t)
        BY <3>1 DEF handle200
    <3>5. @ = << call("client_print_user", SubSeq(t, 4, 6)) >>
        BY <3>1 DEF handle200Info, showIf
    <3>6. @ = << call("client_print_user", UserTokens(v)) >>
        BY <3>2, Zenon
    <3>7. @ = rendering("INFO_USER", v)
        BY DEF rendering, Meaning, UserTokens
    <3> QED
        BY <3>3, <3>4, <3>5, <3>6, <3>7
  <2>3. "200" \in Words /\ "INFO" \in Words /\ "USER" \in Words
      BY DEF Words
  <2>4. WellFormed("INFO_USER", v)
        /\ Three(Tokens(format("INFO_USER"), v), "200", "INFO", "USER", 3, UserTokens(v))
      BY <2>1, <2>3, UserFields, ThreeIsShown
  <2> QED
      BY <2>2, <2>4 DEF Shown
<1>5. Shown("INFO_TEAM", v, x, p)
  <2>1. format("INFO_TEAM") = << word("200"), word("INFO"), word("TEAM") >> \o aTeam
    <3>1. format("INFO_TEAM") = infoFormats["INFO_TEAM"]
        BY FormatKinds DEF format
    <3>2. @ = (<< word("200"), word("INFO") >> \o << word("TEAM") >>) \o aTeam
        BY DEF infoFormats, status
    <3> QED
        BY <3>1, <3>2, TwoAndOne
  <2>2. ASSUME NEW t, Three(t, "200", "INFO", "TEAM", 3, TeamTokens(v))
        PROVE  displayed(t, x, p) = rendering("INFO_TEAM", v)
    <3>1. /\ t # << >> /\ Len(t) = 6 /\ t[1] = << "200" >> /\ t[2] = << "INFO" >>
          /\ t[3] = << "TEAM" >>
        BY <2>2 DEF Three
    <3>2. SubSeq(t, 4, 6) = TeamTokens(v)
        BY <2>2 DEF Three
    <3>3. displayed(t, x, p) = handle200(t)
        BY <3>1, On200
    <3>4. @ = handle200Info(t)
        BY <3>1 DEF handle200
    <3>5. @ = << call("client_print_team", SubSeq(t, 4, 6)) >>
        BY <3>1 DEF handle200Info, showIf
    <3>6. @ = << call("client_print_team", TeamTokens(v)) >>
        BY <3>2, Zenon
    <3>7. @ = rendering("INFO_TEAM", v)
        BY DEF rendering, Meaning, TeamTokens
    <3> QED
        BY <3>3, <3>4, <3>5, <3>6, <3>7
  <2>3. "200" \in Words /\ "INFO" \in Words /\ "TEAM" \in Words
      BY DEF Words
  <2>4. WellFormed("INFO_TEAM", v)
        /\ Three(Tokens(format("INFO_TEAM"), v), "200", "INFO", "TEAM", 3, TeamTokens(v))
      BY <2>1, <2>3, TeamFields, ThreeIsShown
  <2> QED
      BY <2>2, <2>4 DEF Shown
<1>6. Shown("INFO_CHANNEL", v, x, p)
  <2>1. format("INFO_CHANNEL") = << word("200"), word("INFO"), word("CHANNEL") >> \o aChannel
    <3>1. format("INFO_CHANNEL") = infoFormats["INFO_CHANNEL"]
        BY FormatKinds DEF format
    <3>2. @ = (<< word("200"), word("INFO") >> \o << word("CHANNEL") >>) \o aChannel
        BY DEF infoFormats, status
    <3> QED
        BY <3>1, <3>2, TwoAndOne
  <2>2. ASSUME NEW t, Three(t, "200", "INFO", "CHANNEL", 3, ChannelTokens(v))
        PROVE  displayed(t, x, p) = rendering("INFO_CHANNEL", v)
    <3>1. /\ t # << >> /\ Len(t) = 6 /\ t[1] = << "200" >> /\ t[2] = << "INFO" >>
          /\ t[3] = << "CHANNEL" >>
        BY <2>2 DEF Three
    <3>2. SubSeq(t, 4, 6) = ChannelTokens(v)
        BY <2>2 DEF Three
    <3>3. displayed(t, x, p) = handle200(t)
        BY <3>1, On200
    <3>4. @ = handle200Info(t)
        BY <3>1 DEF handle200
    <3>5. @ = << call("client_print_channel", SubSeq(t, 4, 6)) >>
        BY <3>1 DEF handle200Info, showIf
    <3>6. @ = << call("client_print_channel", ChannelTokens(v)) >>
        BY <3>2, Zenon
    <3>7. @ = rendering("INFO_CHANNEL", v)
        BY DEF rendering, Meaning, ChannelTokens
    <3> QED
        BY <3>3, <3>4, <3>5, <3>6, <3>7
  <2>3. "200" \in Words /\ "INFO" \in Words /\ "CHANNEL" \in Words
      BY DEF Words
  <2>4. WellFormed("INFO_CHANNEL", v)
        /\ Three(Tokens(format("INFO_CHANNEL"), v), "200", "INFO", "CHANNEL", 3, ChannelTokens(v))
      BY <2>1, <2>3, ChannelFields, ThreeIsShown
  <2> QED
      BY <2>2, <2>4 DEF Shown
<1>7. Shown("INFO_THREAD", v, x, p)
  <2>1. format("INFO_THREAD") = << word("200"), word("INFO"), word("THREAD") >> \o aThread
    <3>1. format("INFO_THREAD") = infoFormats["INFO_THREAD"]
        BY FormatKinds DEF format
    <3>2. @ = (<< word("200"), word("INFO") >> \o << word("THREAD") >>) \o aThread
        BY DEF infoFormats, status
    <3> QED
        BY <3>1, <3>2, TwoAndOne
  <2>2. ASSUME NEW t, Three(t, "200", "INFO", "THREAD", 5, ThreadTokens(v))
        PROVE  displayed(t, x, p) = rendering("INFO_THREAD", v)
    <3>1. /\ t # << >> /\ Len(t) = 8 /\ t[1] = << "200" >> /\ t[2] = << "INFO" >>
          /\ t[3] = << "THREAD" >> /\ number(t[6])
        BY <2>2, ThreadFields DEF Three
    <3>2. SubSeq(t, 4, 8) = ThreadTokens(v)
        BY <2>2 DEF Three
    <3>3. displayed(t, x, p) = handle200(t)
        BY <3>1, On200
    <3>4. @ = handle200Info(t)
        BY <3>1 DEF handle200
    <3>5. @ = << call("client_print_thread", SubSeq(t, 4, 8)) >>
        BY <3>1 DEF handle200Info, showIf
    <3>6. @ = << call("client_print_thread", ThreadTokens(v)) >>
        BY <3>2, Zenon
    <3>7. @ = rendering("INFO_THREAD", v)
        BY DEF rendering, Meaning, ThreadTokens
    <3> QED
        BY <3>3, <3>4, <3>5, <3>6, <3>7
  <2>3. "200" \in Words /\ "INFO" \in Words /\ "THREAD" \in Words
      BY DEF Words
  <2>4. WellFormed("INFO_THREAD", v)
        /\ Three(Tokens(format("INFO_THREAD"), v), "200", "INFO", "THREAD", 5, ThreadTokens(v))
      BY <2>1, <2>3, ThreadFields, ThreeIsShown
  <2> QED
      BY <2>2, <2>4 DEF Shown
<1>8. Shown("SUBSCRIBE", v, x, p)
  <2>1. format("SUBSCRIBE") = << word("200"), word("SUBSCRIBE") >>
            \o << quoted("user"), quoted("team") >>
    <3>1. format("SUBSCRIBE") = subscribeFormats["SUBSCRIBE"]
        BY FormatKinds DEF format
    <3> QED
        BY <3>1 DEF subscribeFormats, status
  <2>2. ASSUME NEW t, Two(t, "200", "SUBSCRIBE", 2, SubscriptionTokens(v))
        PROVE  displayed(t, x, p) = rendering("SUBSCRIBE", v)
    <3>1. /\ t # << >> /\ Len(t) = 4 /\ t[1] = << "200" >> /\ t[2] = << "SUBSCRIBE" >>
        BY <2>2 DEF Two
    <3>2. SubSeq(t, 3, 4) = SubscriptionTokens(v)
        BY <2>2 DEF Two
    <3>3. displayed(t, x, p) = handle200(t)
        BY <3>1, On200
    <3>4. @ = handle200Subscribe(t)
        BY <3>1 DEF handle200
    <3>5. @ = << call("client_print_subscribed", SubSeq(t, 3, 4)) >>
        BY <3>1 DEF handle200Subscribe, showIf
    <3>6. @ = << call("client_print_subscribed", SubscriptionTokens(v)) >>
        BY <3>2, Zenon
    <3>7. @ = rendering("SUBSCRIBE", v)
        BY DEF rendering, Meaning, SubscriptionTokens
    <3> QED
        BY <3>3, <3>4, <3>5, <3>6, <3>7
  <2>3. "200" \in Words /\ "SUBSCRIBE" \in Words
      BY DEF Words
  <2>4. WellFormed("SUBSCRIBE", v)
        /\ Two(Tokens(format("SUBSCRIBE"), v), "200", "SUBSCRIBE", 2, SubscriptionTokens(v))
      BY <2>1, <2>3, SubscriptionFields, TwoIsShown
  <2> QED
      BY <2>2, <2>4 DEF Shown
<1>9. Shown("UNSUBSCRIBE", v, x, p)
  <2>1. format("UNSUBSCRIBE") = << word("200"), word("UNSUBSCRIBE") >>
            \o << quoted("user"), quoted("team") >>
    <3>1. format("UNSUBSCRIBE") = unsubscribeFormats["UNSUBSCRIBE"]
        BY FormatKinds DEF format
    <3> QED
        BY <3>1 DEF unsubscribeFormats, status
  <2>2. ASSUME NEW t, Two(t, "200", "UNSUBSCRIBE", 2, SubscriptionTokens(v))
        PROVE  displayed(t, x, p) = rendering("UNSUBSCRIBE", v)
    <3>1. /\ t # << >> /\ Len(t) = 4 /\ t[1] = << "200" >> /\ t[2] = << "UNSUBSCRIBE" >>
        BY <2>2 DEF Two
    <3>2. SubSeq(t, 3, 4) = SubscriptionTokens(v)
        BY <2>2 DEF Two
    <3>3. displayed(t, x, p) = handle200(t)
        BY <3>1, On200
    <3>4. @ = handle200Unsubscribe(t)
        BY <3>1 DEF handle200
    <3>5. @ = << call("client_print_unsubscribed", SubSeq(t, 3, 4)) >>
        BY <3>1 DEF handle200Unsubscribe, showIf
    <3>6. @ = << call("client_print_unsubscribed", SubscriptionTokens(v)) >>
        BY <3>2, Zenon
    <3>7. @ = rendering("UNSUBSCRIBE", v)
        BY DEF rendering, Meaning, SubscriptionTokens
    <3> QED
        BY <3>3, <3>4, <3>5, <3>6, <3>7
  <2>3. "200" \in Words /\ "UNSUBSCRIBE" \in Words
      BY DEF Words
  <2>4. WellFormed("UNSUBSCRIBE", v)
        /\ Two(Tokens(format("UNSUBSCRIBE"), v), "200", "UNSUBSCRIBE", 2, SubscriptionTokens(v))
      BY <2>1, <2>3, SubscriptionFields, TwoIsShown
  <2> QED
      BY <2>2, <2>4 DEF Shown
<1> QED
    BY <1>1, <1>2, <1>3, <1>4, <1>5, <1>6, <1>7, <1>8, <1>9

\* The events.
LEMMA EventsAreShown ==
    ASSUME NEW v, GoodValues(v), NEW x, NEW p
    PROVE  /\ Shown("USER_LOGGED_IN", v, x, p)
           /\ Shown("USER_LOGGED_OUT", v, x, p)
           /\ Shown("TEAM_CREATED", v, x, p)
           /\ Shown("CHANNEL_CREATED", v, x, p)
           /\ Shown("THREAD_CREATED", v, x, p)
           /\ Shown("REPLY_CREATED", v, x, p)
           /\ Shown("user_subscribed", v, x, p)
           /\ Shown("user_unsubscribed", v, x, p)
           /\ Shown("PRIVATE_MESSAGE", v, x, p)
<1>1. Shown("USER_LOGGED_IN", v, x, p)
  <2>1. format("USER_LOGGED_IN") = << word("EVENT"), word("USER_LOGGED_IN") >>
            \o << quoted("user"), quoted("name") >>
    <3>1. format("USER_LOGGED_IN") = loginFormats["USER_LOGGED_IN"]
        BY FormatKinds DEF format
    <3> QED
        BY <3>1 DEF loginFormats, status, event
  <2>2. ASSUME NEW t, Two(t, "EVENT", "USER_LOGGED_IN", 2, LoginTokens(v))
        PROVE  displayed(t, x, p) = rendering("USER_LOGGED_IN", v)
    <3>1. /\ t # << >> /\ Len(t) = 4 /\ t[1] = << "EVENT" >>
          /\ t[2] = << "USER_LOGGED_IN" >>
        BY <2>2 DEF Two
    <3>2. SubSeq(t, 3, 4) = LoginTokens(v)
        BY <2>2 DEF Two
    <3>3. displayed(t, x, p) = handlers(t[2], t, p)
        BY <3>1, OnEvent
    <3>4. @ = UserLoggedInHandler(t)
        BY <3>1 DEF handlers
    <3>5. @ = << call("client_event_logged_in", SubSeq(t, 3, 4)) >>
        BY <3>1 DEF UserLoggedInHandler, showIf
    <3>6. @ = << call("client_event_logged_in", LoginTokens(v)) >>
        BY <3>2, Zenon
    <3>7. @ = rendering("USER_LOGGED_IN", v)
        BY DEF rendering, Meaning, LoginTokens
    <3> QED
        BY <3>3, <3>4, <3>5, <3>6, <3>7
  <2>3. "EVENT" \in Words /\ "USER_LOGGED_IN" \in Words
      BY DEF Words
  <2>4. WellFormed("USER_LOGGED_IN", v)
        /\ Two(Tokens(format("USER_LOGGED_IN"), v), "EVENT", "USER_LOGGED_IN", 2, LoginTokens(v))
      BY <2>1, <2>3, LoginFields, TwoIsShown
  <2> QED
      BY <2>2, <2>4 DEF Shown
<1>2. Shown("USER_LOGGED_OUT", v, x, p)
  <2>1. format("USER_LOGGED_OUT") = << word("EVENT"), word("USER_LOGGED_OUT") >>
            \o << quoted("user"), quoted("name") >>
    <3>1. format("USER_LOGGED_OUT") = logoutFormats["USER_LOGGED_OUT"]
        BY FormatKinds DEF format
    <3> QED
        BY <3>1 DEF logoutFormats, status, event
  <2>2. ASSUME NEW t, Two(t, "EVENT", "USER_LOGGED_OUT", 2, LoginTokens(v))
        PROVE  displayed(t, x, p) = rendering("USER_LOGGED_OUT", v)
    <3>1. /\ t # << >> /\ Len(t) = 4 /\ t[1] = << "EVENT" >>
          /\ t[2] = << "USER_LOGGED_OUT" >>
        BY <2>2 DEF Two
    <3>2. SubSeq(t, 3, 4) = LoginTokens(v)
        BY <2>2 DEF Two
    <3>3. displayed(t, x, p) = handlers(t[2], t, p)
        BY <3>1, OnEvent
    <3>4. @ = UserLoggedOutHandler(t)
        BY <3>1 DEF handlers
    <3>5. @ = << call("client_event_logged_out", SubSeq(t, 3, 4)) >>
        BY <3>1 DEF UserLoggedOutHandler, showIf
    <3>6. @ = << call("client_event_logged_out", LoginTokens(v)) >>
        BY <3>2, Zenon
    <3>7. @ = rendering("USER_LOGGED_OUT", v)
        BY DEF rendering, Meaning, LoginTokens
    <3> QED
        BY <3>3, <3>4, <3>5, <3>6, <3>7
  <2>3. "EVENT" \in Words /\ "USER_LOGGED_OUT" \in Words
      BY DEF Words
  <2>4. WellFormed("USER_LOGGED_OUT", v)
        /\ Two(Tokens(format("USER_LOGGED_OUT"), v), "EVENT", "USER_LOGGED_OUT", 2, LoginTokens(v))
      BY <2>1, <2>3, LoginFields, TwoIsShown
  <2> QED
      BY <2>2, <2>4 DEF Shown
<1>3. Shown("TEAM_CREATED", v, x, p)
  <2>1. format("TEAM_CREATED") = << word("EVENT"), word("TEAM_CREATED") >> \o aTeam
    <3>1. format("TEAM_CREATED") = createFormats["TEAM_CREATED"]
        BY FormatKinds DEF format
    <3> QED
        BY <3>1 DEF createFormats, status, event
  <2>2. ASSUME NEW t, Two(t, "EVENT", "TEAM_CREATED", 3, TeamTokens(v))
        PROVE  displayed(t, x, p) = rendering("TEAM_CREATED", v)
    <3>1. /\ t # << >> /\ Len(t) = 5 /\ t[1] = << "EVENT" >> /\ t[2] = << "TEAM_CREATED" >>
        BY <2>2 DEF Two
    <3>2. SubSeq(t, 3, 5) = TeamTokens(v)
        BY <2>2 DEF Two
    <3>3. displayed(t, x, p) = handlers(t[2], t, p)
        BY <3>1, OnEvent
    <3>4. @ = TeamCreatedHandler(t)
        BY <3>1 DEF handlers
    <3>5. @ = << call("client_event_team_created", SubSeq(t, 3, 5)) >>
        BY <3>1 DEF TeamCreatedHandler, showIf
    <3>6. @ = << call("client_event_team_created", TeamTokens(v)) >>
        BY <3>2, Zenon
    <3>7. @ = rendering("TEAM_CREATED", v)
        BY DEF rendering, Meaning, TeamTokens
    <3> QED
        BY <3>3, <3>4, <3>5, <3>6, <3>7
  <2>3. "EVENT" \in Words /\ "TEAM_CREATED" \in Words
      BY DEF Words
  <2>4. WellFormed("TEAM_CREATED", v)
        /\ Two(Tokens(format("TEAM_CREATED"), v), "EVENT", "TEAM_CREATED", 3, TeamTokens(v))
      BY <2>1, <2>3, TeamFields, TwoIsShown
  <2> QED
      BY <2>2, <2>4 DEF Shown
<1>4. Shown("CHANNEL_CREATED", v, x, p)
  <2>1. format("CHANNEL_CREATED") = << word("EVENT"), word("CHANNEL_CREATED") >> \o aChannel
    <3>1. format("CHANNEL_CREATED") = createFormats["CHANNEL_CREATED"]
        BY FormatKinds DEF format
    <3> QED
        BY <3>1 DEF createFormats, status, event
  <2>2. ASSUME NEW t, Two(t, "EVENT", "CHANNEL_CREATED", 3, ChannelTokens(v))
        PROVE  displayed(t, x, p) = rendering("CHANNEL_CREATED", v)
    <3>1. /\ t # << >> /\ Len(t) = 5 /\ t[1] = << "EVENT" >>
          /\ t[2] = << "CHANNEL_CREATED" >>
        BY <2>2 DEF Two
    <3>2. SubSeq(t, 3, 5) = ChannelTokens(v)
        BY <2>2 DEF Two
    <3>3. displayed(t, x, p) = handlers(t[2], t, p)
        BY <3>1, OnEvent
    <3>4. @ = ChannelCreatedHandler(t)
        BY <3>1 DEF handlers
    <3>5. @ = << call("client_event_channel_created", SubSeq(t, 3, 5)) >>
        BY <3>1 DEF ChannelCreatedHandler, showIf
    <3>6. @ = << call("client_event_channel_created", ChannelTokens(v)) >>
        BY <3>2, Zenon
    <3>7. @ = rendering("CHANNEL_CREATED", v)
        BY DEF rendering, Meaning, ChannelTokens
    <3> QED
        BY <3>3, <3>4, <3>5, <3>6, <3>7
  <2>3. "EVENT" \in Words /\ "CHANNEL_CREATED" \in Words
      BY DEF Words
  <2>4. WellFormed("CHANNEL_CREATED", v)
        /\ Two(Tokens(format("CHANNEL_CREATED"), v), "EVENT", "CHANNEL_CREATED", 3,
            ChannelTokens(v))
      BY <2>1, <2>3, ChannelFields, TwoIsShown
  <2> QED
      BY <2>2, <2>4 DEF Shown
<1>5. Shown("THREAD_CREATED", v, x, p)
  <2>1. format("THREAD_CREATED") = << word("EVENT"), word("THREAD_CREATED") >> \o aThread
    <3>1. format("THREAD_CREATED") = createFormats["THREAD_CREATED"]
        BY FormatKinds DEF format
    <3> QED
        BY <3>1 DEF createFormats, status, event
  <2>2. ASSUME NEW t, Two(t, "EVENT", "THREAD_CREATED", 5, ThreadTokens(v))
        PROVE  displayed(t, x, p) = rendering("THREAD_CREATED", v)
    <3>1. /\ t # << >> /\ Len(t) = 7 /\ t[1] = << "EVENT" >>
          /\ t[2] = << "THREAD_CREATED" >> /\ number(t[5])
        BY <2>2, ThreadFields DEF Two
    <3>2. SubSeq(t, 3, 7) = ThreadTokens(v)
        BY <2>2 DEF Two
    <3>3. displayed(t, x, p) = handlers(t[2], t, p)
        BY <3>1, OnEvent
    <3>4. @ = ThreadCreatedHandler(t)
        BY <3>1 DEF handlers
    <3>5. @ = << call("client_event_thread_created", SubSeq(t, 3, 7)) >>
        BY <3>1 DEF ThreadCreatedHandler, showIf
    <3>6. @ = << call("client_event_thread_created", ThreadTokens(v)) >>
        BY <3>2, Zenon
    <3>7. @ = rendering("THREAD_CREATED", v)
        BY DEF rendering, Meaning, ThreadTokens
    <3> QED
        BY <3>3, <3>4, <3>5, <3>6, <3>7
  <2>3. "EVENT" \in Words /\ "THREAD_CREATED" \in Words
      BY DEF Words
  <2>4. WellFormed("THREAD_CREATED", v)
        /\ Two(Tokens(format("THREAD_CREATED"), v), "EVENT", "THREAD_CREATED", 5, ThreadTokens(v))
      BY <2>1, <2>3, ThreadFields, TwoIsShown
  <2> QED
      BY <2>2, <2>4 DEF Shown
<1>6. Shown("REPLY_CREATED", v, x, p)
  <2>1. format("REPLY_CREATED") = << word("EVENT"), word("REPLY_CREATED") >>
            \o << quoted("team"), quoted("thread"), quoted("user"), quoted("body") >>
    <3>1. format("REPLY_CREATED") = createFormats["REPLY_CREATED"]
        BY FormatKinds DEF format
    <3> QED
        BY <3>1 DEF createFormats, status, event
  <2>2. ASSUME NEW t, Two(t, "EVENT", "REPLY_CREATED", 4, ReplyEventTokens(v))
        PROVE  displayed(t, x, p) = rendering("REPLY_CREATED", v)
    <3>1. /\ t # << >> /\ Len(t) = 6 /\ t[1] = << "EVENT" >> /\ t[2] = << "REPLY_CREATED" >>
        BY <2>2 DEF Two
    <3>2. SubSeq(t, 3, 6) = ReplyEventTokens(v)
        BY <2>2 DEF Two
    <3>3. displayed(t, x, p) = handlers(t[2], t, p)
        BY <3>1, OnEvent
    <3>4. @ = ReplyCreatedHandler(t)
        BY <3>1 DEF handlers
    <3>5. @ = << call("client_event_thread_reply_received", SubSeq(t, 3, 6)) >>
        BY <3>1 DEF ReplyCreatedHandler, showIf
    <3>6. @ = << call("client_event_thread_reply_received", ReplyEventTokens(v)) >>
        BY <3>2, Zenon
    <3>7. @ = rendering("REPLY_CREATED", v)
        BY DEF rendering, Meaning, ReplyEventTokens
    <3> QED
        BY <3>3, <3>4, <3>5, <3>6, <3>7
  <2>3. "EVENT" \in Words /\ "REPLY_CREATED" \in Words
      BY DEF Words
  <2>4. WellFormed("REPLY_CREATED", v)
        /\ Two(Tokens(format("REPLY_CREATED"), v), "EVENT", "REPLY_CREATED", 4,
            ReplyEventTokens(v))
      BY <2>1, <2>3, ReplyEventFields, TwoIsShown
  <2> QED
      BY <2>2, <2>4 DEF Shown
<1>7. Shown("user_subscribed", v, x, p)
  <2>1. format("user_subscribed") = << word("user_subscribed") >>
            \o << bare("team"), bare("user") >>
    <3>1. format("user_subscribed") = subscribeFormats["user_subscribed"]
        BY FormatKinds DEF format
    <3>2. @ = << word("user_subscribed"), bare("team"), bare("user") >>
        BY DEF subscribeFormats
    <3> QED
        BY <3>1, <3>2, OneAndTwo
  <2>2. ASSUME NEW t, One(t, "user_subscribed", 2, SubscriberTokens(v))
        PROVE  displayed(t, x, p) = rendering("user_subscribed", v)
    <3>1. /\ t # << >> /\ Len(t) = 3 /\ t[1] = << "user_subscribed" >>
        BY <2>2 DEF One
    <3>2. displayed(t, x, p) = handle(t[1], t, p)
        BY <3>1, OnStatus
    <3>3. @ = << >>
        BY <3>1 DEF handle
    <3>4. @ = rendering("user_subscribed", v)
        BY DEF rendering, Meaning
    <3> QED
        BY <3>2, <3>3, <3>4
  <2>3. "user_subscribed" \in Words
      BY DEF Words
  <2>4. WellFormed("user_subscribed", v)
        /\ One(Tokens(format("user_subscribed"), v), "user_subscribed", 2, SubscriberTokens(v))
      BY <2>1, <2>3, SubscriberFields, OneIsShown
  <2> QED
      BY <2>2, <2>4 DEF Shown
<1>8. Shown("user_unsubscribed", v, x, p)
  <2>1. format("user_unsubscribed") = << word("user_unsubscribed") >>
            \o << bare("team"), bare("user") >>
    <3>1. format("user_unsubscribed") = unsubscribeFormats["user_unsubscribed"]
        BY FormatKinds DEF format
    <3>2. @ = << word("user_unsubscribed"), bare("team"), bare("user") >>
        BY DEF unsubscribeFormats
    <3> QED
        BY <3>1, <3>2, OneAndTwo
  <2>2. ASSUME NEW t, One(t, "user_unsubscribed", 2, SubscriberTokens(v))
        PROVE  displayed(t, x, p) = rendering("user_unsubscribed", v)
    <3>1. /\ t # << >> /\ Len(t) = 3 /\ t[1] = << "user_unsubscribed" >>
        BY <2>2 DEF One
    <3>2. displayed(t, x, p) = handle(t[1], t, p)
        BY <3>1, OnStatus
    <3>3. @ = << >>
        BY <3>1 DEF handle
    <3>4. @ = rendering("user_unsubscribed", v)
        BY DEF rendering, Meaning
    <3> QED
        BY <3>2, <3>3, <3>4
  <2>3. "user_unsubscribed" \in Words
      BY DEF Words
  <2>4. WellFormed("user_unsubscribed", v)
        /\ One(Tokens(format("user_unsubscribed"), v), "user_unsubscribed", 2, SubscriberTokens(v))
      BY <2>1, <2>3, SubscriberFields, OneIsShown
  <2> QED
      BY <2>2, <2>4 DEF Shown
<1>9. Shown("PRIVATE_MESSAGE", v, x, p)
  <2>1. format("PRIVATE_MESSAGE") = << word("EVENT"), word("PRIVATE_MESSAGE") >>
            \o << quoted("user"), quoted("body") >>
    <3>1. format("PRIVATE_MESSAGE") = sendFormats["PRIVATE_MESSAGE"]
        BY FormatKinds DEF format
    <3> QED
        BY <3>1 DEF sendFormats, status, event
  <2>2. ASSUME NEW t, Two(t, "EVENT", "PRIVATE_MESSAGE", 2, PrivateTokens(v))
        PROVE  displayed(t, x, p) = rendering("PRIVATE_MESSAGE", v)
    <3>1. /\ t # << >> /\ Len(t) = 4 /\ t[1] = << "EVENT" >>
          /\ t[2] = << "PRIVATE_MESSAGE" >>
        BY <2>2 DEF Two
    <3>2. SubSeq(t, 3, 4) = PrivateTokens(v)
        BY <2>2 DEF Two
    <3>3. displayed(t, x, p) = handlers(t[2], t, p)
        BY <3>1, OnEvent
    <3>4. @ = PrivateMessageHandler(t)
        BY <3>1 DEF handlers
    <3>5. @ = << call("client_event_private_message_received", SubSeq(t, 3, 4)) >>
        BY <3>1 DEF PrivateMessageHandler, showIf
    <3>6. @ = << call("client_event_private_message_received", PrivateTokens(v)) >>
        BY <3>2, Zenon
    <3>7. @ = rendering("PRIVATE_MESSAGE", v)
        BY DEF rendering, Meaning, PrivateTokens
    <3> QED
        BY <3>3, <3>4, <3>5, <3>6, <3>7
  <2>3. "EVENT" \in Words /\ "PRIVATE_MESSAGE" \in Words
      BY DEF Words
  <2>4. WellFormed("PRIVATE_MESSAGE", v)
        /\ Two(Tokens(format("PRIVATE_MESSAGE"), v), "EVENT", "PRIVATE_MESSAGE", 2,
            PrivateTokens(v))
      BY <2>1, <2>3, PrivateFields, TwoIsShown
  <2> QED
      BY <2>2, <2>4 DEF Shown
<1> QED
    BY <1>1, <1>2, <1>3, <1>4, <1>5, <1>6, <1>7, <1>8, <1>9

\* The refusals.
LEMMA RefusedAreShown ==
    ASSUME NEW v, GoodValues(v), NEW x, NEW p
    PROVE  /\ Shown("BAD_REQUEST", v, x, p)
           /\ Shown("UNAUTHORIZED", v, x, p)
           /\ Shown("FORBIDDEN", v, x, p)
           /\ Shown("ALREADY_EXISTS", v, x, p)
           /\ Shown("UNKNOWN_TEAM", v, x, p)
           /\ Shown("UNKNOWN_CHANNEL", v, x, p)
           /\ Shown("UNKNOWN_THREAD", v, x, p)
           /\ Shown("UNKNOWN_USER", v, x, p)
<1>1. Shown("BAD_REQUEST", v, x, p)
  <2>1. format("BAD_REQUEST") = << word("400"), word("BAD_REQUEST") >> \o << >>
    <3>1. format("BAD_REQUEST") = errorFormats["BAD_REQUEST"]
        BY FormatKinds DEF format
    <3>2. @ = << word("400"), word("BAD_REQUEST") >>
        BY DEF errorFormats, status
    <3> QED
        BY <3>1, <3>2, TwoAndNone
  <2>2. ASSUME NEW t, Two(t, "400", "BAD_REQUEST", 0, << >>)
        PROVE  displayed(t, x, p) = rendering("BAD_REQUEST", v)
    <3>1. /\ t # << >> /\ Len(t) = 2 /\ t[1] = << "400" >> /\ t[2] = << "BAD_REQUEST" >>
        BY <2>2 DEF Two
    <3>2. displayed(t, x, p) = handle(t[1], t, p)
        BY <3>1, OnStatus
    <3>3. @ = << call("bad_request", << >>) >>
        BY <3>1 DEF handle
    <3>4. @ = rendering("BAD_REQUEST", v)
        BY DEF rendering, Meaning
    <3> QED
        BY <3>2, <3>3, <3>4
  <2>3. "400" \in Words /\ "BAD_REQUEST" \in Words
      BY DEF Words
  <2>4. WellFormed("BAD_REQUEST", v)
        /\ Two(Tokens(format("BAD_REQUEST"), v), "400", "BAD_REQUEST", 0, << >>)
      BY <2>1, <2>3, NoFields, TwoIsShown
  <2> QED
      BY <2>2, <2>4 DEF Shown
<1>2. Shown("UNAUTHORIZED", v, x, p)
  <2>1. format("UNAUTHORIZED") = << word("401"), word("UNAUTHORIZED") >> \o << >>
    <3>1. format("UNAUTHORIZED") = errorFormats["UNAUTHORIZED"]
        BY FormatKinds DEF format
    <3>2. @ = << word("401"), word("UNAUTHORIZED") >>
        BY DEF errorFormats, status
    <3> QED
        BY <3>1, <3>2, TwoAndNone
  <2>2. ASSUME NEW t, Two(t, "401", "UNAUTHORIZED", 0, << >>)
        PROVE  displayed(t, x, p) = rendering("UNAUTHORIZED", v)
    <3>1. /\ t # << >> /\ Len(t) = 2 /\ t[1] = << "401" >> /\ t[2] = << "UNAUTHORIZED" >>
        BY <2>2 DEF Two
    <3>2. displayed(t, x, p) = handle(t[1], t, p)
        BY <3>1, OnStatus
    <3>3. @ = << call("client_error_unauthorized", << >>) >>
        BY <3>1 DEF handle
    <3>4. @ = rendering("UNAUTHORIZED", v)
        BY DEF rendering, Meaning
    <3> QED
        BY <3>2, <3>3, <3>4
  <2>3. "401" \in Words /\ "UNAUTHORIZED" \in Words
      BY DEF Words
  <2>4. WellFormed("UNAUTHORIZED", v)
        /\ Two(Tokens(format("UNAUTHORIZED"), v), "401", "UNAUTHORIZED", 0, << >>)
      BY <2>1, <2>3, NoFields, TwoIsShown
  <2> QED
      BY <2>2, <2>4 DEF Shown
<1>3. Shown("FORBIDDEN", v, x, p)
  <2>1. format("FORBIDDEN") = << word("403"), word("FORBIDDEN") >> \o << >>
    <3>1. format("FORBIDDEN") = errorFormats["FORBIDDEN"]
        BY FormatKinds DEF format
    <3>2. @ = << word("403"), word("FORBIDDEN") >>
        BY DEF errorFormats, status
    <3> QED
        BY <3>1, <3>2, TwoAndNone
  <2>2. ASSUME NEW t, Two(t, "403", "FORBIDDEN", 0, << >>)
        PROVE  displayed(t, x, p) = rendering("FORBIDDEN", v)
    <3>1. /\ t # << >> /\ Len(t) = 2 /\ t[1] = << "403" >> /\ t[2] = << "FORBIDDEN" >>
        BY <2>2 DEF Two
    <3>2. displayed(t, x, p) = handle(t[1], t, p)
        BY <3>1, OnStatus
    <3>3. @ = << call("client_error_unauthorized", << >>) >>
        BY <3>1 DEF handle
    <3>4. @ = rendering("FORBIDDEN", v)
        BY DEF rendering, Meaning
    <3> QED
        BY <3>2, <3>3, <3>4
  <2>3. "403" \in Words /\ "FORBIDDEN" \in Words
      BY DEF Words
  <2>4. WellFormed("FORBIDDEN", v)
        /\ Two(Tokens(format("FORBIDDEN"), v), "403", "FORBIDDEN", 0, << >>)
      BY <2>1, <2>3, NoFields, TwoIsShown
  <2> QED
      BY <2>2, <2>4 DEF Shown
<1>4. Shown("ALREADY_EXISTS", v, x, p)
  <2>1. format("ALREADY_EXISTS") = << word("409"), word("ALREADY_EXISTS") >> \o << >>
    <3>1. format("ALREADY_EXISTS") = errorFormats["ALREADY_EXISTS"]
        BY FormatKinds DEF format
    <3>2. @ = << word("409"), word("ALREADY_EXISTS") >>
        BY DEF errorFormats, status
    <3> QED
        BY <3>1, <3>2, TwoAndNone
  <2>2. ASSUME NEW t, Two(t, "409", "ALREADY_EXISTS", 0, << >>)
        PROVE  displayed(t, x, p) = rendering("ALREADY_EXISTS", v)
    <3>1. /\ t # << >> /\ Len(t) = 2 /\ t[1] = << "409" >> /\ t[2] = << "ALREADY_EXISTS" >>
        BY <2>2 DEF Two
    <3>2. displayed(t, x, p) = handle(t[1], t, p)
        BY <3>1, OnStatus
    <3>3. @ = << call("client_error_already_exist", << >>) >>
        BY <3>1 DEF handle
    <3>4. @ = rendering("ALREADY_EXISTS", v)
        BY DEF rendering, Meaning
    <3> QED
        BY <3>2, <3>3, <3>4
  <2>3. "409" \in Words /\ "ALREADY_EXISTS" \in Words
      BY DEF Words
  <2>4. WellFormed("ALREADY_EXISTS", v)
        /\ Two(Tokens(format("ALREADY_EXISTS"), v), "409", "ALREADY_EXISTS", 0, << >>)
      BY <2>1, <2>3, NoFields, TwoIsShown
  <2> QED
      BY <2>2, <2>4 DEF Shown
<1>5. Shown("UNKNOWN_TEAM", v, x, p)
  <2>1. format("UNKNOWN_TEAM") = << word("404"), word("NOT_FOUND"), word("TEAM") >>
            \o << quoted("asked") >>
    <3>1. format("UNKNOWN_TEAM") = errorFormats["UNKNOWN_TEAM"]
        BY FormatKinds DEF format
    <3>2. @ = << word("404"), word("NOT_FOUND") >> \o << word("TEAM"), quoted("asked") >>
        BY DEF errorFormats, status
    <3>3. ThreeWords(word("404"), word("NOT_FOUND"), word("TEAM"), quoted("asked"))
        BY TwoAndTwo
    <3> QED
        BY <3>1, <3>2, <3>3, Zenon DEF ThreeWords
  <2>2. ASSUME NEW t, Three(t, "404", "NOT_FOUND", "TEAM", 1, AskedTokens(v))
        PROVE  displayed(t, x, p) = rendering("UNKNOWN_TEAM", v)
    <3>1. /\ t # << >> /\ Len(t) = 4 /\ t[1] = << "404" >> /\ t[2] = << "NOT_FOUND" >>
          /\ t[3] = << "TEAM" >> /\ t[4] = escape(v["asked"])
        BY <2>2 DEF Three, AskedTokens
    <3>2. displayed(t, x, p) = handle404(t, p)
        BY <3>1, On404
    <3>3. @ = << call("client_error_unknown_team", << t[4] >>) >>
        BY <3>1 DEF handle404
    <3>4. @ = << call("client_error_unknown_team", AskedTokens(v)) >>
        BY <3>1 DEF AskedTokens
    <3>5. @ = rendering("UNKNOWN_TEAM", v)
        BY DEF rendering, Meaning, AskedTokens
    <3> QED
        BY <3>2, <3>3, <3>4, <3>5
  <2>3. "404" \in Words /\ "NOT_FOUND" \in Words /\ "TEAM" \in Words
      BY DEF Words
  <2>4. WellFormed("UNKNOWN_TEAM", v)
        /\ Three(Tokens(format("UNKNOWN_TEAM"), v), "404", "NOT_FOUND", "TEAM", 1, AskedTokens(v))
      BY <2>1, <2>3, AskedFields, ThreeIsShown
  <2> QED
      BY <2>2, <2>4 DEF Shown
<1>6. Shown("UNKNOWN_CHANNEL", v, x, p)
  <2>1. format("UNKNOWN_CHANNEL") = << word("404"), word("NOT_FOUND"), word("CHANNEL") >>
            \o << quoted("asked") >>
    <3>1. format("UNKNOWN_CHANNEL") = errorFormats["UNKNOWN_CHANNEL"]
        BY FormatKinds DEF format
    <3>2. @ = << word("404"), word("NOT_FOUND") >> \o << word("CHANNEL"), quoted("asked") >>
        BY DEF errorFormats, status
    <3>3. ThreeWords(word("404"), word("NOT_FOUND"), word("CHANNEL"), quoted("asked"))
        BY TwoAndTwo
    <3> QED
        BY <3>1, <3>2, <3>3, Zenon DEF ThreeWords
  <2>2. ASSUME NEW t, Three(t, "404", "NOT_FOUND", "CHANNEL", 1, AskedTokens(v))
        PROVE  displayed(t, x, p) = rendering("UNKNOWN_CHANNEL", v)
    <3>1. /\ t # << >> /\ Len(t) = 4 /\ t[1] = << "404" >> /\ t[2] = << "NOT_FOUND" >>
          /\ t[3] = << "CHANNEL" >> /\ t[4] = escape(v["asked"])
        BY <2>2 DEF Three, AskedTokens
    <3>2. displayed(t, x, p) = handle404(t, p)
        BY <3>1, On404
    <3>3. @ = << call("client_error_unknown_channel", << t[4] >>) >>
        BY <3>1 DEF handle404
    <3>4. @ = << call("client_error_unknown_channel", AskedTokens(v)) >>
        BY <3>1 DEF AskedTokens
    <3>5. @ = rendering("UNKNOWN_CHANNEL", v)
        BY DEF rendering, Meaning, AskedTokens
    <3> QED
        BY <3>2, <3>3, <3>4, <3>5
  <2>3. "404" \in Words /\ "NOT_FOUND" \in Words /\ "CHANNEL" \in Words
      BY DEF Words
  <2>4. WellFormed("UNKNOWN_CHANNEL", v)
        /\ Three(Tokens(format("UNKNOWN_CHANNEL"), v), "404", "NOT_FOUND", "CHANNEL", 1,
            AskedTokens(v))
      BY <2>1, <2>3, AskedFields, ThreeIsShown
  <2> QED
      BY <2>2, <2>4 DEF Shown
<1>7. Shown("UNKNOWN_THREAD", v, x, p)
  <2>1. format("UNKNOWN_THREAD") = << word("404"), word("NOT_FOUND"), word("THREAD") >>
            \o << quoted("asked") >>
    <3>1. format("UNKNOWN_THREAD") = errorFormats["UNKNOWN_THREAD"]
        BY FormatKinds DEF format
    <3>2. @ = << word("404"), word("NOT_FOUND") >> \o << word("THREAD"), quoted("asked") >>
        BY DEF errorFormats, status
    <3>3. ThreeWords(word("404"), word("NOT_FOUND"), word("THREAD"), quoted("asked"))
        BY TwoAndTwo
    <3> QED
        BY <3>1, <3>2, <3>3, Zenon DEF ThreeWords
  <2>2. ASSUME NEW t, Three(t, "404", "NOT_FOUND", "THREAD", 1, AskedTokens(v))
        PROVE  displayed(t, x, p) = rendering("UNKNOWN_THREAD", v)
    <3>1. /\ t # << >> /\ Len(t) = 4 /\ t[1] = << "404" >> /\ t[2] = << "NOT_FOUND" >>
          /\ t[3] = << "THREAD" >> /\ t[4] = escape(v["asked"])
        BY <2>2 DEF Three, AskedTokens
    <3>2. displayed(t, x, p) = handle404(t, p)
        BY <3>1, On404
    <3>3. @ = << call("client_error_unknown_thread", << t[4] >>) >>
        BY <3>1 DEF handle404
    <3>4. @ = << call("client_error_unknown_thread", AskedTokens(v)) >>
        BY <3>1 DEF AskedTokens
    <3>5. @ = rendering("UNKNOWN_THREAD", v)
        BY DEF rendering, Meaning, AskedTokens
    <3> QED
        BY <3>2, <3>3, <3>4, <3>5
  <2>3. "404" \in Words /\ "NOT_FOUND" \in Words /\ "THREAD" \in Words
      BY DEF Words
  <2>4. WellFormed("UNKNOWN_THREAD", v)
        /\ Three(Tokens(format("UNKNOWN_THREAD"), v), "404", "NOT_FOUND", "THREAD", 1,
            AskedTokens(v))
      BY <2>1, <2>3, AskedFields, ThreeIsShown
  <2> QED
      BY <2>2, <2>4 DEF Shown
<1>8. Shown("UNKNOWN_USER", v, x, p)
  <2>1. format("UNKNOWN_USER") = << word("404"), word("NOT_FOUND"), word("USER") >>
            \o << quoted("asked") >>
    <3>1. format("UNKNOWN_USER") = errorFormats["UNKNOWN_USER"]
        BY FormatKinds DEF format
    <3>2. @ = << word("404"), word("NOT_FOUND") >> \o << word("USER"), quoted("asked") >>
        BY DEF errorFormats, status
    <3>3. ThreeWords(word("404"), word("NOT_FOUND"), word("USER"), quoted("asked"))
        BY TwoAndTwo
    <3> QED
        BY <3>1, <3>2, <3>3, Zenon DEF ThreeWords
  <2>2. ASSUME NEW t, Three(t, "404", "NOT_FOUND", "USER", 1, AskedTokens(v))
        PROVE  displayed(t, x, p) = rendering("UNKNOWN_USER", v)
    <3>1. /\ t # << >> /\ Len(t) = 4 /\ t[1] = << "404" >> /\ t[2] = << "NOT_FOUND" >>
          /\ t[3] = << "USER" >> /\ t[4] = escape(v["asked"])
        BY <2>2 DEF Three, AskedTokens
    <3>2. displayed(t, x, p) = handle404(t, p)
        BY <3>1, On404
    <3>3. @ = << call("client_error_unknown_user", << t[4] >>) >>
        BY <3>1 DEF handle404
    <3>4. @ = << call("client_error_unknown_user", AskedTokens(v)) >>
        BY <3>1 DEF AskedTokens
    <3>5. @ = rendering("UNKNOWN_USER", v)
        BY DEF rendering, Meaning, AskedTokens
    <3> QED
        BY <3>2, <3>3, <3>4, <3>5
  <2>3. "404" \in Words /\ "NOT_FOUND" \in Words /\ "USER" \in Words
      BY DEF Words
  <2>4. WellFormed("UNKNOWN_USER", v)
        /\ Three(Tokens(format("UNKNOWN_USER"), v), "404", "NOT_FOUND", "USER", 1, AskedTokens(v))
      BY <2>1, <2>3, AskedFields, ThreeIsShown
  <2> QED
      BY <2>2, <2>4 DEF Shown
<1> QED
    BY <1>1, <1>2, <1>3, <1>4, <1>5, <1>6, <1>7, <1>8

\* What was created.
LEMMA CreatedAreShown ==
    ASSUME NEW v, GoodValues(v), NEW x, NEW p
    PROVE  /\ Shown("CREATED_TEAM", v, x, p)
           /\ Shown("CREATED_CHANNEL", v, x, p)
           /\ Shown("CREATED_THREAD", v, x, p)
           /\ Shown("CREATED_REPLY", v, x, p)
<1>1. Shown("CREATED_TEAM", v, x, p)
  <2>1. format("CREATED_TEAM") = << word("201"), word("CREATED"), word("TEAM") >> \o aTeam
    <3>1. format("CREATED_TEAM") = createFormats["CREATED_TEAM"]
        BY FormatKinds DEF format
    <3>2. @ = (<< word("201"), word("CREATED") >> \o << word("TEAM") >>) \o aTeam
        BY DEF createFormats, status
    <3> QED
        BY <3>1, <3>2, TwoAndOne
  <2>2. ASSUME NEW t, Three(t, "201", "CREATED", "TEAM", 3, TeamTokens(v))
        PROVE  displayed(t, x, p) = rendering("CREATED_TEAM", v)
    <3>1. /\ t # << >> /\ Len(t) = 6 /\ t[1] = << "201" >> /\ t[2] = << "CREATED" >>
          /\ t[3] = << "TEAM" >>
        BY <2>2 DEF Three
    <3>2. SubSeq(t, 4, 6) = TeamTokens(v)
        BY <2>2 DEF Three
    <3>3. displayed(t, x, p) = handle201(t)
        BY <3>1, On201
    <3>4. @ = << call("client_print_team_created", SubSeq(t, 4, 6)) >>
        BY <3>1 DEF handle201, showIf
    <3>5. @ = << call("client_print_team_created", TeamTokens(v)) >>
        BY <3>2, Zenon
    <3>6. @ = rendering("CREATED_TEAM", v)
        BY DEF rendering, Meaning, TeamTokens
    <3> QED
        BY <3>3, <3>4, <3>5, <3>6
  <2>3. "201" \in Words /\ "CREATED" \in Words /\ "TEAM" \in Words
      BY DEF Words
  <2>4. WellFormed("CREATED_TEAM", v)
        /\ Three(Tokens(format("CREATED_TEAM"), v), "201", "CREATED", "TEAM", 3, TeamTokens(v))
      BY <2>1, <2>3, TeamFields, ThreeIsShown
  <2> QED
      BY <2>2, <2>4 DEF Shown
<1>2. Shown("CREATED_CHANNEL", v, x, p)
  <2>1. format("CREATED_CHANNEL") = << word("201"), word("CREATED"), word("CHANNEL") >> \o aChannel
    <3>1. format("CREATED_CHANNEL") = createFormats["CREATED_CHANNEL"]
        BY FormatKinds DEF format
    <3>2. @ = (<< word("201"), word("CREATED") >> \o << word("CHANNEL") >>) \o aChannel
        BY DEF createFormats, status
    <3> QED
        BY <3>1, <3>2, TwoAndOne
  <2>2. ASSUME NEW t, Three(t, "201", "CREATED", "CHANNEL", 3, ChannelTokens(v))
        PROVE  displayed(t, x, p) = rendering("CREATED_CHANNEL", v)
    <3>1. /\ t # << >> /\ Len(t) = 6 /\ t[1] = << "201" >> /\ t[2] = << "CREATED" >>
          /\ t[3] = << "CHANNEL" >>
        BY <2>2 DEF Three
    <3>2. SubSeq(t, 4, 6) = ChannelTokens(v)
        BY <2>2 DEF Three
    <3>3. displayed(t, x, p) = handle201(t)
        BY <3>1, On201
    <3>4. @ = << call("client_print_channel_created", SubSeq(t, 4, 6)) >>
        BY <3>1 DEF handle201, showIf
    <3>5. @ = << call("client_print_channel_created", ChannelTokens(v)) >>
        BY <3>2, Zenon
    <3>6. @ = rendering("CREATED_CHANNEL", v)
        BY DEF rendering, Meaning, ChannelTokens
    <3> QED
        BY <3>3, <3>4, <3>5, <3>6
  <2>3. "201" \in Words /\ "CREATED" \in Words /\ "CHANNEL" \in Words
      BY DEF Words
  <2>4. WellFormed("CREATED_CHANNEL", v)
        /\ Three(Tokens(format("CREATED_CHANNEL"), v), "201", "CREATED", "CHANNEL", 3,
            ChannelTokens(v))
      BY <2>1, <2>3, ChannelFields, ThreeIsShown
  <2> QED
      BY <2>2, <2>4 DEF Shown
<1>3. Shown("CREATED_THREAD", v, x, p)
  <2>1. format("CREATED_THREAD") = << word("201"), word("CREATED"), word("THREAD") >> \o aThread
    <3>1. format("CREATED_THREAD") = createFormats["CREATED_THREAD"]
        BY FormatKinds DEF format
    <3>2. @ = (<< word("201"), word("CREATED") >> \o << word("THREAD") >>) \o aThread
        BY DEF createFormats, status
    <3> QED
        BY <3>1, <3>2, TwoAndOne
  <2>2. ASSUME NEW t, Three(t, "201", "CREATED", "THREAD", 5, ThreadTokens(v))
        PROVE  displayed(t, x, p) = rendering("CREATED_THREAD", v)
    <3>1. /\ t # << >> /\ Len(t) = 8 /\ t[1] = << "201" >> /\ t[2] = << "CREATED" >>
          /\ t[3] = << "THREAD" >> /\ number(t[6])
        BY <2>2, ThreadFields DEF Three
    <3>2. SubSeq(t, 4, 8) = ThreadTokens(v)
        BY <2>2 DEF Three
    <3>3. displayed(t, x, p) = handle201(t)
        BY <3>1, On201
    <3>4. @ = << call("client_print_thread_created", SubSeq(t, 4, 8)) >>
        BY <3>1 DEF handle201, showIf
    <3>5. @ = << call("client_print_thread_created", ThreadTokens(v)) >>
        BY <3>2, Zenon
    <3>6. @ = rendering("CREATED_THREAD", v)
        BY DEF rendering, Meaning, ThreadTokens
    <3> QED
        BY <3>3, <3>4, <3>5, <3>6
  <2>3. "201" \in Words /\ "CREATED" \in Words /\ "THREAD" \in Words
      BY DEF Words
  <2>4. WellFormed("CREATED_THREAD", v)
        /\ Three(Tokens(format("CREATED_THREAD"), v), "201", "CREATED", "THREAD", 5,
            ThreadTokens(v))
      BY <2>1, <2>3, ThreadFields, ThreeIsShown
  <2> QED
      BY <2>2, <2>4 DEF Shown
<1>4. Shown("CREATED_REPLY", v, x, p)
  <2>1. format("CREATED_REPLY") = << word("201"), word("CREATED"), word("REPLY") >> \o aReply
    <3>1. format("CREATED_REPLY") = createFormats["CREATED_REPLY"]
        BY FormatKinds DEF format
    <3>2. @ = (<< word("201"), word("CREATED") >> \o << word("REPLY") >>) \o aReply
        BY DEF createFormats, status
    <3> QED
        BY <3>1, <3>2, TwoAndOne
  <2>2. ASSUME NEW t, Three(t, "201", "CREATED", "REPLY", 4, ReplyTokens(v))
        PROVE  displayed(t, x, p) = rendering("CREATED_REPLY", v)
    <3>1. /\ t # << >> /\ Len(t) = 7 /\ t[1] = << "201" >> /\ t[2] = << "CREATED" >>
          /\ t[3] = << "REPLY" >> /\ number(t[6])
        BY <2>2, ReplyFields DEF Three
    <3>2. SubSeq(t, 4, 7) = ReplyTokens(v)
        BY <2>2 DEF Three
    <3>3. displayed(t, x, p) = handle201(t)
        BY <3>1, On201
    <3>4. @ = << call("client_print_reply_created", SubSeq(t, 4, 7)) >>
        BY <3>1 DEF handle201, showIf
    <3>5. @ = << call("client_print_reply_created", ReplyTokens(v)) >>
        BY <3>2, Zenon
    <3>6. @ = rendering("CREATED_REPLY", v)
        BY DEF rendering, Meaning, ReplyTokens
    <3> QED
        BY <3>3, <3>4, <3>5, <3>6
  <2>3. "201" \in Words /\ "CREATED" \in Words /\ "REPLY" \in Words
      BY DEF Words
  <2>4. WellFormed("CREATED_REPLY", v)
        /\ Three(Tokens(format("CREATED_REPLY"), v), "201", "CREATED", "REPLY", 4, ReplyTokens(v))
      BY <2>1, <2>3, ReplyFields, ThreeIsShown
  <2> QED
      BY <2>2, <2>4 DEF Shown
<1> QED
    BY <1>1, <1>2, <1>3, <1>4

\* The items of a list, while the list is open.
LEMMA ItemsAreShown ==
    ASSUME NEW v, GoodValues(v), NEW p
    PROVE  /\ Shown("USERS", v, << "USERS" >>, p)
           /\ Shown("TEAMS", v, << "TEAMS" >>, p)
           /\ Shown("CHANNELS", v, << "CHANNELS" >>, p)
           /\ Shown("THREADS", v, << "THREADS" >>, p)
           /\ Shown("REPLIES", v, << "REPLIES" >>, p)
           /\ Shown("MESSAGES", v, << "MESSAGES" >>, p)
<1>1. Shown("USERS", v, << "USERS" >>, p)
  <2>1. format("USERS") = << word("210") >> \o aUser
    <3>1. format("USERS") = listFormats["USERS"]
        BY FormatKinds DEF format
    <3> QED
        BY <3>1 DEF listFormats
  <2>2. ASSUME NEW t, One(t, "210", 3, UserTokens(v))
        PROVE  displayed(t, << "USERS" >>, p) = rendering("USERS", v)
    <3>1. /\ t # << >> /\ Len(t) = 4 /\ t[1] = << "210" >> /\ number(t[4])
        BY <2>2, UserFields DEF One
    <3>2. SubSeq(t, 2, 4) = UserTokens(v)
        BY <2>2 DEF One
    <3>3. displayed(t, << "USERS" >>, p) = listHandlers(<< "USERS" >>, t)
        BY <3>1, OnItem
    <3>4. @ = << call("client_print_users", SubSeq(t, 2, 4)) >>
        BY <3>1 DEF listHandlers, showIf
    <3>5. @ = << call("client_print_users", UserTokens(v)) >>
        BY <3>2, Zenon
    <3>6. @ = rendering("USERS", v)
        BY DEF rendering, Meaning, UserTokens
    <3> QED
        BY <3>3, <3>4, <3>5, <3>6
  <2>3. "210" \in Words
      BY DEF Words
  <2>4. WellFormed("USERS", v) /\ One(Tokens(format("USERS"), v), "210", 3, UserTokens(v))
      BY <2>1, <2>3, UserFields, OneIsShown
  <2> QED
      BY <2>2, <2>4 DEF Shown
<1>2. Shown("TEAMS", v, << "TEAMS" >>, p)
  <2>1. format("TEAMS") = << word("210") >> \o aTeam
    <3>1. format("TEAMS") = listFormats["TEAMS"]
        BY FormatKinds DEF format
    <3> QED
        BY <3>1 DEF listFormats
  <2>2. ASSUME NEW t, One(t, "210", 3, TeamTokens(v))
        PROVE  displayed(t, << "TEAMS" >>, p) = rendering("TEAMS", v)
    <3>1. /\ t # << >> /\ Len(t) = 4 /\ t[1] = << "210" >>
        BY <2>2 DEF One
    <3>2. SubSeq(t, 2, 4) = TeamTokens(v)
        BY <2>2 DEF One
    <3>3. displayed(t, << "TEAMS" >>, p) = listHandlers(<< "TEAMS" >>, t)
        BY <3>1, OnItem
    <3>4. @ = << call("client_print_teams", SubSeq(t, 2, 4)) >>
        BY <3>1 DEF listHandlers, showIf
    <3>5. @ = << call("client_print_teams", TeamTokens(v)) >>
        BY <3>2, Zenon
    <3>6. @ = rendering("TEAMS", v)
        BY DEF rendering, Meaning, TeamTokens
    <3> QED
        BY <3>3, <3>4, <3>5, <3>6
  <2>3. "210" \in Words
      BY DEF Words
  <2>4. WellFormed("TEAMS", v) /\ One(Tokens(format("TEAMS"), v), "210", 3, TeamTokens(v))
      BY <2>1, <2>3, TeamFields, OneIsShown
  <2> QED
      BY <2>2, <2>4 DEF Shown
<1>3. Shown("CHANNELS", v, << "CHANNELS" >>, p)
  <2>1. format("CHANNELS") = << word("210") >> \o aChannel
    <3>1. format("CHANNELS") = listFormats["CHANNELS"]
        BY FormatKinds DEF format
    <3> QED
        BY <3>1 DEF listFormats
  <2>2. ASSUME NEW t, One(t, "210", 3, ChannelTokens(v))
        PROVE  displayed(t, << "CHANNELS" >>, p) = rendering("CHANNELS", v)
    <3>1. /\ t # << >> /\ Len(t) = 4 /\ t[1] = << "210" >>
        BY <2>2 DEF One
    <3>2. SubSeq(t, 2, 4) = ChannelTokens(v)
        BY <2>2 DEF One
    <3>3. displayed(t, << "CHANNELS" >>, p) = listHandlers(<< "CHANNELS" >>, t)
        BY <3>1, OnItem
    <3>4. @ = << call("client_team_print_channels", SubSeq(t, 2, 4)) >>
        BY <3>1 DEF listHandlers, showIf
    <3>5. @ = << call("client_team_print_channels", ChannelTokens(v)) >>
        BY <3>2, Zenon
    <3>6. @ = rendering("CHANNELS", v)
        BY DEF rendering, Meaning, ChannelTokens
    <3> QED
        BY <3>3, <3>4, <3>5, <3>6
  <2>3. "210" \in Words
      BY DEF Words
  <2>4. WellFormed("CHANNELS", v) /\ One(Tokens(format("CHANNELS"), v), "210", 3, ChannelTokens(v))
      BY <2>1, <2>3, ChannelFields, OneIsShown
  <2> QED
      BY <2>2, <2>4 DEF Shown
<1>4. Shown("THREADS", v, << "THREADS" >>, p)
  <2>1. format("THREADS") = << word("210") >> \o aThread
    <3>1. format("THREADS") = listFormats["THREADS"]
        BY FormatKinds DEF format
    <3> QED
        BY <3>1 DEF listFormats
  <2>2. ASSUME NEW t, One(t, "210", 5, ThreadTokens(v))
        PROVE  displayed(t, << "THREADS" >>, p) = rendering("THREADS", v)
    <3>1. /\ t # << >> /\ Len(t) = 6 /\ t[1] = << "210" >> /\ number(t[4])
        BY <2>2, ThreadFields DEF One
    <3>2. SubSeq(t, 2, 6) = ThreadTokens(v)
        BY <2>2 DEF One
    <3>3. displayed(t, << "THREADS" >>, p) = listHandlers(<< "THREADS" >>, t)
        BY <3>1, OnItem
    <3>4. @ = << call("client_channel_print_threads", SubSeq(t, 2, 6)) >>
        BY <3>1 DEF listHandlers, showIf
    <3>5. @ = << call("client_channel_print_threads", ThreadTokens(v)) >>
        BY <3>2, Zenon
    <3>6. @ = rendering("THREADS", v)
        BY DEF rendering, Meaning, ThreadTokens
    <3> QED
        BY <3>3, <3>4, <3>5, <3>6
  <2>3. "210" \in Words
      BY DEF Words
  <2>4. WellFormed("THREADS", v) /\ One(Tokens(format("THREADS"), v), "210", 5, ThreadTokens(v))
      BY <2>1, <2>3, ThreadFields, OneIsShown
  <2> QED
      BY <2>2, <2>4 DEF Shown
<1>5. Shown("REPLIES", v, << "REPLIES" >>, p)
  <2>1. format("REPLIES") = << word("210") >> \o aReply
    <3>1. format("REPLIES") = listFormats["REPLIES"]
        BY FormatKinds DEF format
    <3> QED
        BY <3>1 DEF listFormats
  <2>2. ASSUME NEW t, One(t, "210", 4, ReplyTokens(v))
        PROVE  displayed(t, << "REPLIES" >>, p) = rendering("REPLIES", v)
    <3>1. /\ t # << >> /\ Len(t) = 5 /\ t[1] = << "210" >> /\ number(t[4])
        BY <2>2, ReplyFields DEF One
    <3>2. SubSeq(t, 2, 5) = ReplyTokens(v)
        BY <2>2 DEF One
    <3>3. displayed(t, << "REPLIES" >>, p) = listHandlers(<< "REPLIES" >>, t)
        BY <3>1, OnItem
    <3>4. @ = << call("client_thread_print_replies", SubSeq(t, 2, 5)) >>
        BY <3>1 DEF listHandlers, showIf
    <3>5. @ = << call("client_thread_print_replies", ReplyTokens(v)) >>
        BY <3>2, Zenon
    <3>6. @ = rendering("REPLIES", v)
        BY DEF rendering, Meaning, ReplyTokens
    <3> QED
        BY <3>3, <3>4, <3>5, <3>6
  <2>3. "210" \in Words
      BY DEF Words
  <2>4. WellFormed("REPLIES", v) /\ One(Tokens(format("REPLIES"), v), "210", 4, ReplyTokens(v))
      BY <2>1, <2>3, ReplyFields, OneIsShown
  <2> QED
      BY <2>2, <2>4 DEF Shown
<1>6. Shown("MESSAGES", v, << "MESSAGES" >>, p)
  <2>1. format("MESSAGES") = << word("210") >> \o aMessage
    <3>1. format("MESSAGES") = listFormats["MESSAGES"]
        BY FormatKinds DEF format
    <3> QED
        BY <3>1 DEF listFormats
  <2>2. ASSUME NEW t, One(t, "210", 3, MessageTokens(v))
        PROVE  displayed(t, << "MESSAGES" >>, p) = rendering("MESSAGES", v)
    <3>1. /\ t # << >> /\ Len(t) = 4 /\ t[1] = << "210" >> /\ number(t[3])
        BY <2>2, MessageFields DEF One
    <3>2. SubSeq(t, 2, 4) = MessageTokens(v)
        BY <2>2 DEF One
    <3>3. displayed(t, << "MESSAGES" >>, p) = listHandlers(<< "MESSAGES" >>, t)
        BY <3>1, OnItem
    <3>4. @ = << call("client_private_message_print_messages", SubSeq(t, 2, 4)) >>
        BY <3>1 DEF listHandlers, showIf
    <3>5. @ = << call("client_private_message_print_messages", MessageTokens(v)) >>
        BY <3>2, Zenon
    <3>6. @ = rendering("MESSAGES", v)
        BY DEF rendering, Meaning, MessageTokens
    <3> QED
        BY <3>3, <3>4, <3>5, <3>6
  <2>3. "210" \in Words
      BY DEF Words
  <2>4. WellFormed("MESSAGES", v) /\ One(Tokens(format("MESSAGES"), v), "210", 3, MessageTokens(v))
      BY <2>1, <2>3, MessageFields, OneIsShown
  <2> QED
      BY <2>2, <2>4 DEF Shown
<1> QED
    BY <1>1, <1>2, <1>3, <1>4, <1>5, <1>6

\* The answer to /user for an unknown user is shown when /user was sent last;
\* when another command was, it is shown or lost.
LEMMA UnknownIsShown ==
    ASSUME NEW v, GoodValues(v), NEW x, NEW p
    PROVE  /\ WellFormed("UNKNOWN", v)
           /\ displayed(Tokens(format("UNKNOWN"), v), x, p) \in {<< >>, rendering("UNKNOWN", v)}
           /\ p = << "/user" >>
              => displayed(Tokens(format("UNKNOWN"), v), x, p) = rendering("UNKNOWN", v)
<1>1. format("UNKNOWN") = << word("404"), word("NOT_FOUND") >> \o << quoted("asked") >>
  <2>1. format("UNKNOWN") = userFormats["UNKNOWN"]
      BY FormatKinds DEF format
  <2> QED
      BY <2>1 DEF userFormats, status
<1> DEFINE t == Tokens(format("UNKNOWN"), v)
<1>2. "404" \in Words /\ "NOT_FOUND" \in Words
    BY DEF Words
<1>3. WellFormed("UNKNOWN", v) /\ Two(t, "404", "NOT_FOUND", 1, AskedTokens(v))
    BY <1>1, <1>2, AskedFields, TwoIsShown
<1> HIDE DEF t
<1>4. t # << >> /\ Len(t) = 3 /\ t[1] = << "404" >> /\ t[3] = escape(v["asked"])
    BY <1>3 DEF Two, AskedTokens
<1>5. displayed(t, x, p) = handle404(t, p)
    BY <1>4, On404
<1>6. @ = IF p \in {<< "/user" >>, << "/send" >>, << "/messages" >>}
          THEN << call("client_error_unknown_user", << t[3] >>) >> ELSE << >>
    BY <1>4 DEF handle404, showIf
<1>7. rendering("UNKNOWN", v) = << call("client_error_unknown_user", << t[3] >>) >>
    BY <1>4 DEF rendering, Meaning
<1> QED
    BY <1>3, <1>5, <1>6, <1>7 DEF t

-------------------------------------------------------------------------------
(* The client splits a line of the server into the tokens of its parts *)

LEMMA MarkBytes ==
    /\ Quote \in LineChars /\ Backslash \in LineChars /\ Blank \in LineChars /\ CR \in LineChars
    /\ CR \in Byte /\ LF \in Byte
    BY DEF LineChars, Byte, Quote, Backslash, Blank, CR, LF

LEMMA ArgIsLine ==
    ASSUME NEW x \in Arg(LineChars)
    PROVE  x \in Seq(LineChars)
<1>1. ArgChars(LineChars) \subseteq LineChars
    BY MarkBytes DEF ArgChars
<1> QED
    BY <1>1 DEF Arg

\* A text in quotes.
LEMMA QuotesRead ==
    ASSUME NEW x \in Texts
    PROVE  /\ << Quote >> \o x \o << Quote >> \in Seq(LineChars)
           /\ Reads(<< Quote >> \o x \o << Quote >>, << x >>)
<1>1. x \in Arg(LineChars) /\ Tidy(x) /\ x \in Seq(LineChars)
    BY ArgIsLine DEF Texts
<1>2. << Quote >> \in Seq(LineChars)
    BY MarkBytes
<1>3. << Quote >> \o x \in Seq(LineChars)
    BY <1>1, <1>2, ConcatProperties
<1>4. (<< Quote >> \o x) \o << Quote >> \in Seq(LineChars)
    BY <1>2, <1>3, ConcatProperties
<1>5. Reads(<< Quote >> \o x \o << Quote >>, << x >>)
    BY <1>1, MarkBytes, ReadsQuoted
<1> QED
    BY <1>4, <1>5

LEMMA WordReads ==
    ASSUME NEW w \in Words
    PROVE  << w >> \in Seq(LineChars) /\ Reads(<< w >>, << << w >> >>)
<1>1. w \in LineChars /\ w \notin Spaces /\ w # Quote
    BY WordIsNoMark
<1>2. << w >> \in Seq(LineChars \ Spaces) /\ << w >> # << >> /\ Head(<< w >>) = w
    BY <1>1
<1>3. << w >> \in Word(LineChars)
    BY <1>2 DEF Word
<1>4. Reads(<< w >>, << << w >> >>)
    BY <1>1, <1>2, <1>3, ReadsWord
<1> QED
    BY <1>1, <1>4

LEMMA PartReads ==
    ASSUME NEW v, GoodValues(v), NEW p \in Part
    PROVE  part(p, v) \in Seq(LineChars) /\ Reads(part(p, v), << token(p, v) >>)
<1>1. ASSUME NEW w \in Words, p = word(w)
      PROVE  part(p, v) \in Seq(LineChars) /\ Reads(part(p, v), << token(p, v) >>)
  <2>1. part(p, v) = << w >> /\ token(p, v) = << w >>
      BY <1>1 DEF part, token, word
  <2> QED
      BY <2>1, WordReads
<1>2. ASSUME NEW f \in TextFields, p = quoted(f)
      PROVE  part(p, v) \in Seq(LineChars) /\ Reads(part(p, v), << token(p, v) >>)
  <2> DEFINE x == escape(v[f])
  <2>1. v[f] \in Texts
      BY DEF GoodValues
  <2>2. x \in Texts
      BY <2>1, MarkBytes, EscapeIsTidy DEF Texts
  <2>3. part(p, v) = quoteProtocolField(v[f])
      BY <1>2 DEF part, quoted
  <2>4. @ = << Quote >> \o x \o << Quote >>
      BY DEF quoteProtocolField
  <2>5. token(p, v) = x
      BY <1>2, TokenIs
  <2> HIDE DEF x
  <2> QED
      BY <2>2, <2>3, <2>4, <2>5, QuotesRead
<1>3. ASSUME NEW f \in TextFields, p = bare(f)
      PROVE  part(p, v) \in Seq(LineChars) /\ Reads(part(p, v), << token(p, v) >>)
  <2>1. v[f] \in Texts
      BY DEF GoodValues
  <2>2. part(p, v) = << Quote >> \o v[f] \o << Quote >>
      BY <1>3 DEF part, bare
  <2>3. token(p, v) = v[f]
      BY <1>3, TokenIs
  <2> QED
      BY <2>1, <2>2, <2>3, QuotesRead
<1>4. ASSUME NEW f \in Numbers, p = plain(f)
      PROVE  part(p, v) \in Seq(LineChars) /\ Reads(part(p, v), << token(p, v) >>)
  <2>1. part(p, v) = v[f]
      BY <1>4 DEF part, plain
  <2>2. token(p, v) = v[f]
      BY <1>4, TokenIs
  <2>3. PICK w \in Words : v[f] = << w >>
      BY DEF GoodValues, Numbers, Words
  <2> QED
      BY <2>1, <2>2, <2>3, WordReads
<1> QED
    BY <1>1, <1>2, <1>3, <1>4 DEF Part

joinStep(t, p, v) == t \o << Blank >> \o part(p, v)
joined(x, ps, v) == fold(LAMBDA t, p : joinStep(t, p, v), x, ps)

LEMMA JoinStepType ==
    ASSUME NEW v, GoodValues(v), NEW t \in Seq(LineChars), NEW p \in Part
    PROVE  joinStep(t, p, v) \in Seq(LineChars)
<1> DEFINE q == part(p, v)
<1>1. q \in Seq(LineChars)
    BY PartReads
<1>2. Blank \in LineChars
    BY MarkBytes
<1>3. << Blank >> \in Seq(LineChars)
    BY <1>2
<1> HIDE DEF q
<1>4. t \o << Blank >> \in Seq(LineChars)
    BY <1>3, ConcatProperties
<1>5. (t \o << Blank >>) \o q \in Seq(LineChars)
    BY <1>1, <1>4, ConcatProperties
<1> QED
    BY <1>5 DEF joinStep, q

joinNext(a, p, v) == the({joinStep(b, p, v) : b \in {a}})

JoinRun(x, v, s, f) ==
    f = [i \in 0..Len(s) |-> IF i = 0 THEN x ELSE joinNext(f[i - 1], s[i], v)]

\* The equations of joined.
LEMMA JoinEquations ==
    ASSUME NEW v, GoodValues(v), NEW x \in Seq(LineChars)
    PROVE  /\ joined(x, << >>, v) = x
           /\ \A s \in Seq(Part) : joined(x, s, v) \in Seq(LineChars)
           /\ \A s \in Seq(Part), c \in Part :
                 joined(x, Append(s, c), v) = joinStep(joined(x, s, v), c, v)
<1> DEFINE X == Seq(LineChars)
           I == Part
           F == [a \in X |-> [c \in I |-> joinStep(a, c, v)]]
<1>1. \A a \in X, c \in I : step(F, a, c) = joinStep(a, c, v)
  <2> HIDE DEF X, I
  <2> QED BY DEF step
<1>2. Closed(X, I, x, F)
  <2>1. x \in X
      OBVIOUS
  <2>2. \A a \in X, c \in I : joinStep(a, c, v) \in X
      BY JoinStepType
  <2> QED
      BY <1>1, <2>1, <2>2 DEF Closed
<1> HIDE DEF F, X, I
<1>3. \A a, c : joinNext(a, c, v) = joinStep(a, c, v)
  <2> SUFFICES ASSUME NEW a, NEW c PROVE joinNext(a, c, v) = joinStep(a, c, v)
      OBVIOUS
  <2>1. {joinStep(b, c, v) : b \in {a}} = {joinStep(a, c, v)}
      OBVIOUS
  <2> QED
      BY <2>1, The DEF joinNext
<1>4. ASSUME NEW s \in Seq(I) PROVE joined(x, s, v) = RunEnd(F, x, s)
  <2> DEFINE run(t) == CHOOSE f : JoinRun(x, v, t, f)
  <2>1. joined(x, s, v) = the({run(t)[Len(t)] : t \in {s}})
      BY DEF joined, joinStep, fold, with, JoinRun, joinNext
  <2>2. PICK f : Run(F, x, s, f)
      BY <1>2, RunExists
  <2>3. JoinRun(x, v, s, f)
    <3>1. ASSUME NEW i \in 1..Len(s) PROVE step(F, f[i - 1], s[i]) = joinNext(f[i - 1], s[i], v)
      <4>1. i - 1 \in 0..Len(s) /\ s[i] \in I
          OBVIOUS
      <4>2. f[i - 1] \in X
          BY <1>2, <2>2, <4>1, RunValues
      <4> QED
          BY <1>1, <1>3, <4>1, <4>2
    <3>2. \A i \in 0..Len(s) : (IF i = 0 THEN x ELSE step(F, f[i - 1], s[i]))
                             = (IF i = 0 THEN x ELSE joinNext(f[i - 1], s[i], v))
        BY <3>1
    <3> QED
        BY <2>2, <3>2 DEF Run, JoinRun
  <2>4. JoinRun(x, v, s, run(s))
      BY <2>3, Zenon
  <2> HIDE DEF run
  <2>5. joined(x, s, v) = run(s)[Len(s)]
    <3>1. {run(t)[Len(t)] : t \in {s}} = {run(s)[Len(s)]}
        OBVIOUS
    <3> QED
        BY <2>1, <3>1, The
  <2>6. run(s)[0] = x /\ \A i \in 1..Len(s) : run(s)[i] = joinNext(run(s)[i - 1], s[i], v)
    <3> DEFINE n == Len(s)
               g == run(s)
    <3>1. g = [i \in 0..n |-> IF i = 0 THEN x ELSE joinNext(g[i - 1], s[i], v)] /\ n \in Nat
        BY <2>4 DEF JoinRun
    <3> HIDE DEF g, n
    <3>2. 0 \in 0..n /\ \A i \in 1..n : i \in 0..n /\ i # 0
        BY <3>1
    <3>3. g[0] = x
        BY <3>1, <3>2
    <3>4. \A i \in 1..n : g[i] = joinNext(g[i - 1], s[i], v)
        BY <3>1, <3>2
    <3> QED
        BY <3>3, <3>4 DEF g, n
  <2>7. \A i \in 1..Len(s) : run(s)[i - 1] \in X => run(s)[i] = step(F, run(s)[i - 1], s[i])
    <3>1. \A i \in 1..Len(s) : s[i] \in I
        OBVIOUS
    <3> QED
        BY <1>1, <1>3, <2>6, <3>1
  <2> QED
      BY <1>2, <2>5, <2>6, <2>7, SameEnd
<1>5. /\ RunEnd(F, x, << >>) = x
      /\ \A s \in Seq(I) : RunEnd(F, x, s) \in X
      /\ \A s \in Seq(I), c \in I :
            RunEnd(F, x, Append(s, c)) = step(F, RunEnd(F, x, s), c)
    BY <1>2, FoldEquations
<1>6. << >> \in Seq(I) /\ \A s \in Seq(I), c \in I : Append(s, c) \in Seq(I)
    OBVIOUS
<1>7. joined(x, << >>, v) = x /\ \A s \in Seq(I) : joined(x, s, v) \in X
    BY <1>4, <1>5, <1>6
<1>8. ASSUME NEW s \in Seq(I), NEW c \in I
      PROVE  joined(x, Append(s, c), v) = joinStep(joined(x, s, v), c, v)
  <2>1. joined(x, Append(s, c), v) = RunEnd(F, x, Append(s, c))
      BY <1>4, <1>6
  <2>2. joined(x, s, v) = RunEnd(F, x, s) /\ RunEnd(F, x, s) \in X
      BY <1>4, <1>5
  <2>3. RunEnd(F, x, Append(s, c)) = step(F, RunEnd(F, x, s), c)
      BY <1>5
  <2> QED
      BY <1>1, <2>1, <2>2, <2>3
<1> QED
    BY <1>7, <1>8 DEF X, I

LEMMA LineReads ==
    ASSUME NEW v, GoodValues(v), NEW ps \in Seq(Part), ps # << >>
    PROVE  joinParts(ps, v) \in Seq(LineChars) /\ Reads(joinParts(ps, v), Tokens(ps, v))
<1> DEFINE h == Head(ps)
           x == part(h, v)
           S == {r \in Seq(Part) : Reads(joined(x, r, v), << token(h, v) >> \o Tokens(r, v))}
<1>1. h \in Part /\ Tail(ps) \in Seq(Part)
    OBVIOUS
<1>2. x \in Seq(LineChars) /\ Reads(x, << token(h, v) >>)
    BY <1>1, PartReads
<1> HIDE DEF x
<1>3. << >> \in S
  <2>1. joined(x, << >>, v) = x
      BY <1>2, JoinEquations
  <2>2. Tokens(<< >>, v) = << >>
      BY DEF Tokens
  <2>3. << token(h, v) >> \o << >> = << token(h, v) >>
      OBVIOUS
  <2>4. Reads(joined(x, << >>, v), << token(h, v) >> \o Tokens(<< >>, v))
      BY <1>2, <2>1, <2>2, <2>3, Zenon
  <2> QED
      BY <2>4
<1>4. ASSUME NEW r \in Seq(Part), NEW p \in Part, r \in S PROVE Append(r, p) \in S
  <2> DEFINE j == joined(x, r, v)
             k == << token(h, v) >> \o Tokens(r, v)
             q == part(p, v)
  <2>1. j \in Seq(LineChars) /\ joined(x, Append(r, p), v) = joinStep(j, p, v)
      BY <1>2, JoinEquations
  <2>2. q \in Seq(LineChars) /\ Reads(q, << token(p, v) >>)
      BY PartReads
  <2>3. Reads(j, k)
      BY <1>4
  <2>4. Blank \in LineChars
      BY MarkBytes
  <2> HIDE DEF j, k, q
  <2>5. Reads(j \o << Blank >> \o q, k \o << token(p, v) >>)
      BY <2>1, <2>2, <2>3, <2>4, ReadsConcat
  <2>6. k \o << token(p, v) >> = << token(h, v) >> \o Tokens(Append(r, p), v)
    <3> DEFINE C == {token(z, v) : z \in Part}
               a == << token(h, v) >>
               b == Tokens(r, v)
               c == token(p, v)
    <3>1. a \in Seq(C) /\ c \in C
        BY <1>1
    <3>2. b \in Seq(C)
        BY DEF Tokens
    <3>3. Tokens(Append(r, p), v) = Append(b, c)
      <4>1. Len(b) = Len(r) /\ \A i \in 1..Len(r) : b[i] = token(r[i], v)
          BY DEF Tokens
      <4>2. Append(b, c) \in Seq(C) /\ Len(Append(b, c)) = Len(r) + 1
            /\ Append(b, c)[Len(r) + 1] = c /\ \A i \in 1..Len(r) : Append(b, c)[i] = b[i]
        <5>1. b \in Seq(C) /\ c \in C
            BY <3>1, <3>2
        <5> HIDE DEF b, c, C
        <5> QED
            BY <4>1, <5>1, Appended
      <4>3. Append(r, p) \in Seq(Part) /\ Len(Append(r, p)) = Len(r) + 1 /\ Len(r) \in Nat
            /\ Append(r, p)[Len(r) + 1] = p /\ \A i \in 1..Len(r) : Append(r, p)[i] = r[i]
          BY Appended
      <4> DEFINE T == Tokens(Append(r, p), v)
                 y == Append(b, c)
                 rp == Append(r, p)
      <4>4. T \in Seq(C) /\ Len(T) = Len(r) + 1 /\ \A i \in 1..Len(r) + 1 : T[i] = token(rp[i], v)
        <5> HIDE DEF rp
        <5> QED
            BY <4>3 DEF Tokens, rp
      <4>5. \A i \in 1..Len(r) + 1 : i = Len(r) + 1 \/ i \in 1..Len(r)
          BY <4>3
      <4> HIDE DEF T, y, rp, C, b
      <4>6. \A i \in 1..Len(r) + 1 : T[i] = y[i]
          BY <4>1, <4>2, <4>3, <4>4, <4>5 DEF y, rp
      <4>7. T = y
          BY <4>2, <4>4, <4>6, SeqEqual DEF y
      <4> QED
          BY <4>7 DEF T, y
    <3> HIDE DEF a, b, c, C
    <3>4. (a \o b) \o << c >> = a \o Append(b, c)
      <4>1. a \o Append(b, c) = Append(a \o b, c)
          BY <3>1, <3>2, ConcatAppend
      <4>2. a \o b \in Seq(C)
          BY <3>1, <3>2, ConcatProperties
      <4>3. Append(a \o b, c) = (a \o b) \o << c >>
          BY <3>1, <4>2, Appended
      <4> QED
          BY <4>1, <4>3
    <3> QED
        BY <3>3, <3>4 DEF a, b, c, k
  <2>7. Append(r, p) \in Seq(Part)
      OBVIOUS
  <2> QED
      BY <2>1, <2>5, <2>6, <2>7 DEF joinStep, q
<1>5. Tail(ps) \in S
  <2> HIDE DEF S
  <2>1. Seq(Part) \subseteq S
      BY <1>3, <1>4, TextInduction
  <2> QED
      BY <1>1, <2>1
<1>6. joinParts(ps, v) = joined(x, Tail(ps), v)
    BY DEF joinParts, joined, joinStep, x
<1>7. joined(x, Tail(ps), v) \in Seq(LineChars)
    BY <1>1, <1>2, JoinEquations
<1>8. << token(h, v) >> \o Tokens(Tail(ps), v) = Tokens(ps, v)
  <2> DEFINE C == {token(z, v) : z \in Part}
             a == token(h, v)
             b == Tokens(Tail(ps), v)
             T == Tokens(ps, v)
             m == Len(ps)
  <2>1. m \in Nat /\ m >= 1 /\ Len(Tail(ps)) = m - 1
        /\ (\A i \in 1..m - 1 : Tail(ps)[i] = ps[i + 1])
        /\ ps[1] = h
      OBVIOUS
  <2>2. a \in C /\ b \in Seq(C) /\ Len(b) = m - 1 /\ \A i \in 1..m - 1 : b[i] = token(ps[i + 1], v)
      BY <1>1, <2>1 DEF Tokens
  <2>3. T \in Seq(C) /\ Len(T) = m /\ \A i \in 1..m : T[i] = token(ps[i], v)
      BY DEF Tokens
  <2> DEFINE y == << a >> \o b
  <2>4. y \in Seq(C) /\ Len(y) = Len(b) + 1 /\ y[1] = a /\ \A i \in 1..Len(b) : y[i + 1] = b[i]
    <3>1. a \in C /\ b \in Seq(C)
        BY <2>2
    <3> HIDE DEF a, b, C
    <3> QED
        BY <3>1, InFront
  <2> HIDE DEF m, C, b, T, y
  <2>5. \A i \in 1..m : y[i] = T[i]
    <3> SUFFICES ASSUME NEW i \in 1..m PROVE y[i] = T[i]
        OBVIOUS
    <3>1. CASE i = 1
        BY <2>1, <2>3, <2>4, <3>1
    <3>2. CASE i # 1
      <4>1. i - 1 \in 1..m - 1 /\ (i - 1) + 1 = i
          BY <2>1, <3>2
      <4>2. y[(i - 1) + 1] = b[i - 1] /\ b[i - 1] = token(ps[(i - 1) + 1], v)
          BY <2>2, <2>4, <4>1
      <4> QED
          BY <2>3, <4>1, <4>2
    <3> QED
        BY <3>1, <3>2
  <2>6. Len(y) = m
      BY <2>1, <2>2, <2>4
  <2>7. y = T
      BY <2>3, <2>4, <2>5, <2>6, SeqEqual
  <2> QED
      BY <2>7 DEF y, T, b
<1> QED
    BY <1>5, <1>6, <1>7, <1>8

-------------------------------------------------------------------------------
(* The answers *)

Lists == {"USERS", "TEAMS", "CHANNELS", "THREADS", "REPLIES", "MESSAGES"}

\* The lines that are displayed in the same way whatever was sent before.
SimpleKinds ==
    {"LOGIN", "OK", "USER", "INFO_USER", "INFO_TEAM", "INFO_CHANNEL", "INFO_THREAD",
     "SUBSCRIBE", "UNSUBSCRIBE", "USER_LOGGED_IN", "USER_LOGGED_OUT", "TEAM_CREATED",
     "CHANNEL_CREATED", "THREAD_CREATED", "REPLY_CREATED", "user_subscribed",
     "user_unsubscribed", "PRIVATE_MESSAGE", "BAD_REQUEST", "UNAUTHORIZED", "FORBIDDEN",
     "ALREADY_EXISTS", "UNKNOWN_TEAM", "UNKNOWN_CHANNEL", "UNKNOWN_THREAD", "UNKNOWN_USER",
     "CREATED_TEAM", "CREATED_CHANNEL", "CREATED_THREAD", "CREATED_REPLY"}

begin(l) == [kind |-> "BEGIN", parts |-> << word("210-BEGIN"), word(l) >>]
end(l) == [kind |-> "END", parts |-> << word("210-END"), word(l) >>]

SimpleLines == {one(k) : k \in SimpleKinds}
AnswerLines ==
    SimpleLines \cup {one("UNKNOWN")} \cup {one(l) : l \in Lists}
    \cup {begin(l) : l \in Lists} \cup {end(l) : l \in Lists}

LEMMA SimpleIsShown ==
    ASSUME NEW v, GoodValues(v), NEW k \in SimpleKinds, NEW x, NEW p
    PROVE  Shown(k, v, x, p)
<1>1. k \in {"LOGIN", "OK", "USER", "INFO_USER", "INFO_TEAM", "INFO_CHANNEL", "INFO_THREAD",
             "SUBSCRIBE", "UNSUBSCRIBE"} => Shown(k, v, x, p)
    BY DoneAreShown
<1>2. k \in {"USER_LOGGED_IN", "USER_LOGGED_OUT", "TEAM_CREATED", "CHANNEL_CREATED",
             "THREAD_CREATED", "REPLY_CREATED", "user_subscribed", "user_unsubscribed",
             "PRIVATE_MESSAGE"} => Shown(k, v, x, p)
    BY EventsAreShown
<1>3. k \in {"BAD_REQUEST", "UNAUTHORIZED", "FORBIDDEN", "ALREADY_EXISTS", "UNKNOWN_TEAM",
             "UNKNOWN_CHANNEL", "UNKNOWN_THREAD", "UNKNOWN_USER"} => Shown(k, v, x, p)
    BY RefusedAreShown
<1>4. k \in {"CREATED_TEAM", "CREATED_CHANNEL", "CREATED_THREAD", "CREATED_REPLY"}
      => Shown(k, v, x, p)
    BY CreatedAreShown
<1> QED
    BY <1>1, <1>2, <1>3, <1>4 DEF SimpleKinds

LEMMA ItemIsShown ==
    ASSUME NEW v, GoodValues(v), NEW l \in Lists, NEW p
    PROVE  Shown(l, v, << l >>, p)
    BY ItemsAreShown DEF Lists

\* The list that is open behind the tokens t, of a line that is read when the
\* list x is open.
after(t, x) ==
    IF t[1] = << "210-BEGIN" >> /\ Len(t) >= 2 THEN t[2]
    ELSE IF t[1] = << "210-END" >> THEN << >> ELSE x

\* The answer m to /user is lost when another command was sent last.
Lost(t, x, p, m, g) ==
    /\ displayed(t, x, p) = << >> /\ p # << "/user" >>
    /\ m.to \in 1..Len(g) /\ g[m.to][1] = << "/user" >>

\* The line fr, read when the list x is open and before the list y is, is
\* displayed as m says.
Carries(fr, x, y, m, g) ==
    \E t : /\ Reads(fr, t) /\ t # << >> /\ y = after(t, x)
           /\ \A p : displayed(t, x, p) = escaped(m.as) \/ Lost(t, x, p, m, g)

\* The line l with the values v, in answer to the command number n.
Says(l, v, x, y, n, g) ==
    Carries(joinParts(l.parts, v), x, y, [to |-> n, as |-> meaning(l.kind, v)], g)

LEMMA TokensNotEmpty ==
    ASSUME NEW v, NEW ps \in Seq(Part), ps # << >>
    PROVE  Tokens(ps, v) # << >>
<1>1. Len(Tokens(ps, v)) # 0
    BY DEF Tokens
<1> QED
    BY <1>1

LEMMA ShownSays ==
    ASSUME NEW v, GoodValues(v), NEW k, NEW x, NEW n, NEW g, \A p : Shown(k, v, x, p)
    PROVE  Says(one(k), v, x, x, n, g)
<1> DEFINE f == format(k)
           t == Tokens(f, v)
           m == [to |-> n, as |-> meaning(k, v)]
<1>1. WellFormed(k, v) /\ \A p : displayed(t, x, p) = rendering(k, v)
    BY DEF Shown
<1>2. f \in Seq(Part) /\ f # << >> /\ t[1] \notin {<< "210-BEGIN" >>, << "210-END" >>}
    BY <1>1 DEF WellFormed
<1> HIDE DEF f
<1>3. Reads(joinParts(f, v), t) /\ t # << >>
    BY <1>2, LineReads, TokensNotEmpty
<1>4. x = after(t, x)
  <2> HIDE DEF t
  <2> QED BY <1>2 DEF after
<1>5. \A p : displayed(t, x, p) = escaped(m.as)
    BY <1>1, RenderingIs
<1> HIDE DEF t
<1>6. Carries(joinParts(f, v), x, x, m, g)
    BY <1>3, <1>4, <1>5 DEF Carries
<1>7. one(k).parts = f /\ one(k).kind = k
    BY DEF one, f
<1> QED
    BY <1>6, <1>7 DEF Says

LEMMA UnknownSays ==
    ASSUME NEW v, GoodValues(v), NEW x, NEW g, NEW n \in 1..Len(g), g[n][1] = << "/user" >>
    PROVE  Says(one("UNKNOWN"), v, x, x, n, g)
<1> DEFINE k == "UNKNOWN"
           f == format(k)
           t == Tokens(f, v)
           m == [to |-> n, as |-> meaning(k, v)]
<1>1. /\ WellFormed(k, v)
      /\ \A p : displayed(t, x, p) \in {<< >>, rendering(k, v)}
      /\ \A p : p = << "/user" >> => displayed(t, x, p) = rendering(k, v)
    BY UnknownIsShown
<1> HIDE DEF k
<1>2. f \in Seq(Part) /\ f # << >> /\ t[1] \notin {<< "210-BEGIN" >>, << "210-END" >>}
    BY <1>1 DEF WellFormed
<1> HIDE DEF f
<1>3. Reads(joinParts(f, v), t) /\ t # << >>
    BY <1>2, LineReads, TokensNotEmpty
<1> HIDE DEF t
<1>4. x = after(t, x)
    BY <1>2 DEF after
<1>5. \A p : displayed(t, x, p) = escaped(m.as) \/ Lost(t, x, p, m, g)
  <2>1. escaped(m.as) = rendering(k, v) /\ m.to = n
      BY RenderingIs
  <2> HIDE DEF m
  <2> QED
      BY <1>1, <2>1 DEF Lost
<1>6. Carries(joinParts(f, v), x, x, m, g)
    BY <1>3, <1>4, <1>5 DEF Carries
<1>7. one(k).parts = f /\ one(k).kind = k
    BY DEF one, f
<1> QED
    BY <1>6, <1>7 DEF Says, k

\* The first and the last line of a list.
LEMMA FrameSays ==
    ASSUME NEW v, GoodValues(v), NEW l \in Lists, NEW x, NEW n, NEW g
    PROVE  Says(begin(l), v, x, << l >>, n, g) /\ Says(end(l), v, x, << >>, n, g)
<1>1. l \in Words /\ "210-BEGIN" \in Words /\ "210-END" \in Words
    BY DEF Lists, Words
<1>2. word(l) \in Part /\ word("210-BEGIN") \in Part /\ word("210-END") \in Part
    BY <1>1, PartIs
<1>3. ASSUME NEW w \in {"210-BEGIN", "210-END"}, NEW k \in {"BEGIN", "END"}
      PROVE  \E t : /\ Reads(joinParts(<< word(w), word(l) >>, v), t) /\ t # << >>
                    /\ t[1] = << w >> /\ t[2] = << l >> /\ Len(t) = 2
                    /\ \A p : displayed(t, x, p) = rendering(k, v)
  <2> DEFINE ps == << word(w), word(l) >>
             t == Tokens(ps, v)
  <2>1. ps \in Seq(Part) /\ ps # << >>
      BY <1>2
  <2>2. Reads(joinParts(ps, v), t)
      BY <2>1, LineReads
  <2>3. t = << token(word(w), v), token(word(l), v) >>
    <3>1. IsFields(ps, 2, << token(word(w), v), token(word(l), v) >>, v)
        BY <1>2, Fields2
    <3> QED
        BY <3>1 DEF IsFields
  <2>4. token(word(w), v) = << w >> /\ token(word(l), v) = << l >>
      BY TokenIs
  <2> HIDE DEF ps, t
  <2>5. t = << << w >>, << l >> >>
      BY <2>3, <2>4
  <2>6. t # << >> /\ t[1] = << w >> /\ t[2] = << l >> /\ Len(t) = 2
      BY <2>5
  <2>7. rendering(k, v) = << >>
      BY DEF rendering, Meaning
  <2>8. \A p : displayed(t, x, p) = << >>
    <3>1. t[1] \in {<< "210-BEGIN" >>, << "210-END" >>}
        BY <2>6
    <3>2. t[1] # << "210" >> /\ t[1] # << "EVENT" >>
        BY <2>6
    <3> QED
        BY <3>1, <3>2 DEF displayed
  <2> QED
      BY <2>2, <2>6, <2>7, <2>8 DEF ps
<1>4. Says(begin(l), v, x, << l >>, n, g)
  <2> DEFINE k == "BEGIN"
             m == [to |-> n, as |-> meaning(k, v)]
             fr == joinParts(<< word("210-BEGIN"), word(l) >>, v)
  <2>1. PICK t : /\ Reads(fr, t) /\ t # << >>
                 /\ t[1] = << "210-BEGIN" >> /\ t[2] = << l >> /\ Len(t) = 2
                 /\ \A p : displayed(t, x, p) = rendering(k, v)
      BY <1>3
  <2>2. << l >> = after(t, x)
      BY <2>1 DEF after
  <2>3. escaped(m.as) = rendering(k, v)
      BY RenderingIs
  <2> HIDE DEF m, fr, k
  <2>4. Carries(fr, x, << l >>, m, g)
      BY <2>1, <2>2, <2>3 DEF Carries
  <2>5. begin(l).parts = << word("210-BEGIN"), word(l) >> /\ begin(l).kind = k
      BY DEF begin, k
  <2> QED
      BY <2>4, <2>5 DEF Says, m, fr
<1>5. Says(end(l), v, x, << >>, n, g)
  <2> DEFINE k == "END"
             m == [to |-> n, as |-> meaning(k, v)]
             fr == joinParts(<< word("210-END"), word(l) >>, v)
  <2>1. PICK t : /\ Reads(fr, t) /\ t # << >>
                 /\ t[1] = << "210-END" >> /\ t[2] = << l >> /\ Len(t) = 2
                 /\ \A p : displayed(t, x, p) = rendering(k, v)
      BY <1>3
  <2>2. << >> = after(t, x)
      BY <2>1 DEF after
  <2>3. escaped(m.as) = rendering(k, v)
      BY RenderingIs
  <2> HIDE DEF m, fr, k
  <2>4. Carries(fr, x, << >>, m, g)
      BY <2>1, <2>2, <2>3 DEF Carries
  <2>5. end(l).parts = << word("210-END"), word(l) >> /\ end(l).kind = k
      BY DEF end, k
  <2> QED
      BY <2>4, <2>5 DEF Says, m, fr
<1> QED
    BY <1>4, <1>5

LEMMA AnswerLineIs ==
    ASSUME NEW v, GoodValues(v), NEW l \in AnswerLines
    PROVE  l.parts \in Seq(Part) /\ l.parts # << >>
<1>1. ASSUME NEW k, WellFormed(k, v) PROVE one(k).parts \in Seq(Part) /\ one(k).parts # << >>
    BY <1>1 DEF one, WellFormed
<1>2. \A k \in SimpleKinds : WellFormed(k, v)
    BY SimpleIsShown DEF Shown
<1>3. \A k \in Lists : WellFormed(k, v)
    BY ItemIsShown DEF Shown
<1>4. WellFormed("UNKNOWN", v)
    BY UnknownIsShown
<1>5. ASSUME NEW k \in Lists
      PROVE  /\ begin(k).parts \in Seq(Part) /\ begin(k).parts # << >>
             /\ end(k).parts \in Seq(Part) /\ end(k).parts # << >>
  <2>1. k \in Words /\ "210-BEGIN" \in Words /\ "210-END" \in Words
      BY DEF Lists, Words
  <2>2. word(k) \in Part /\ word("210-BEGIN") \in Part /\ word("210-END") \in Part
      BY <2>1, PartIs
  <2> QED
      BY <2>2 DEF begin, end
<1> QED
    BY <1>1, <1>2, <1>3, <1>4, <1>5 DEF AnswerLines, SimpleLines

sendStep(d, l, v) == d \o render(l.parts, v)
sent(x, ls, v) == fold(LAMBDA d, l : sendStep(d, l, v), x, ls)

LEMMA SendStepType ==
    ASSUME NEW v, GoodValues(v), NEW d \in Seq(Byte), NEW l \in AnswerLines
    PROVE  /\ joinParts(l.parts, v) \in Seq(LineChars)
           /\ sendStep(d, l, v) = d \o (joinParts(l.parts, v) \o CRLF)
           /\ sendStep(d, l, v) \in Seq(Byte)
<1> DEFINE j == joinParts(l.parts, v)
<1>1. j \in Seq(LineChars)
    BY AnswerLineIs, LineReads
<1>2. sendStep(d, l, v) = d \o (j \o CRLF)
    BY DEF sendStep, render, CRLF
<1> HIDE DEF j
<1>3. j \in Seq(Byte) /\ CRLF \in Seq(Byte)
    BY <1>1, MarkBytes DEF LineChars, CRLF
<1>4. j \o CRLF \in Seq(Byte)
    BY <1>3, ConcatProperties
<1> DEFINE e == j \o CRLF
<1> HIDE DEF e
<1>5. d \o e \in Seq(Byte)
    BY <1>4, ConcatProperties DEF e
<1> QED
    BY <1>1, <1>2, <1>5 DEF j, e

sendNext(a, l, v) == the({sendStep(b, l, v) : b \in {a}})

SendRun(x, v, s, f) ==
    f = [i \in 0..Len(s) |-> IF i = 0 THEN x ELSE sendNext(f[i - 1], s[i], v)]

\* The equations of sent.
LEMMA SendEquations ==
    ASSUME NEW v, GoodValues(v), NEW x \in Seq(Byte)
    PROVE  /\ sent(x, << >>, v) = x
           /\ \A s \in Seq(AnswerLines) : sent(x, s, v) \in Seq(Byte)
           /\ \A s \in Seq(AnswerLines), c \in AnswerLines :
                 sent(x, Append(s, c), v) = sendStep(sent(x, s, v), c, v)
<1> DEFINE X == Seq(Byte)
           I == AnswerLines
           F == [a \in X |-> [c \in I |-> sendStep(a, c, v)]]
<1>1. \A a \in X, c \in I : step(F, a, c) = sendStep(a, c, v)
  <2> HIDE DEF X, I
  <2> QED BY DEF step
<1>2. Closed(X, I, x, F)
  <2>1. x \in X
      OBVIOUS
  <2>2. \A a \in X, c \in I : sendStep(a, c, v) \in X
      BY SendStepType
  <2> QED
      BY <1>1, <2>1, <2>2 DEF Closed
<1> HIDE DEF F, X, I
<1>3. \A a, c : sendNext(a, c, v) = sendStep(a, c, v)
  <2> SUFFICES ASSUME NEW a, NEW c PROVE sendNext(a, c, v) = sendStep(a, c, v)
      OBVIOUS
  <2>1. {sendStep(b, c, v) : b \in {a}} = {sendStep(a, c, v)}
      OBVIOUS
  <2> QED
      BY <2>1, The DEF sendNext
<1>4. ASSUME NEW s \in Seq(I) PROVE sent(x, s, v) = RunEnd(F, x, s)
  <2> DEFINE run(t) == CHOOSE f : SendRun(x, v, t, f)
  <2>1. sent(x, s, v) = the({run(t)[Len(t)] : t \in {s}})
      BY DEF sent, sendStep, fold, with, SendRun, sendNext
  <2>2. PICK f : Run(F, x, s, f)
      BY <1>2, RunExists
  <2>3. SendRun(x, v, s, f)
    <3>1. ASSUME NEW i \in 1..Len(s) PROVE step(F, f[i - 1], s[i]) = sendNext(f[i - 1], s[i], v)
      <4>1. i - 1 \in 0..Len(s) /\ s[i] \in I
          OBVIOUS
      <4>2. f[i - 1] \in X
          BY <1>2, <2>2, <4>1, RunValues
      <4> QED
          BY <1>1, <1>3, <4>1, <4>2
    <3>2. \A i \in 0..Len(s) : (IF i = 0 THEN x ELSE step(F, f[i - 1], s[i]))
                             = (IF i = 0 THEN x ELSE sendNext(f[i - 1], s[i], v))
        BY <3>1
    <3> QED
        BY <2>2, <3>2 DEF Run, SendRun
  <2>4. SendRun(x, v, s, run(s))
      BY <2>3, Zenon
  <2> HIDE DEF run
  <2>5. sent(x, s, v) = run(s)[Len(s)]
    <3>1. {run(t)[Len(t)] : t \in {s}} = {run(s)[Len(s)]}
        OBVIOUS
    <3> QED
        BY <2>1, <3>1, The
  <2>6. run(s)[0] = x /\ \A i \in 1..Len(s) : run(s)[i] = sendNext(run(s)[i - 1], s[i], v)
    <3> DEFINE n == Len(s)
               g == run(s)
    <3>1. g = [i \in 0..n |-> IF i = 0 THEN x ELSE sendNext(g[i - 1], s[i], v)] /\ n \in Nat
        BY <2>4 DEF SendRun
    <3> HIDE DEF g, n
    <3>2. 0 \in 0..n /\ \A i \in 1..n : i \in 0..n /\ i # 0
        BY <3>1
    <3>3. g[0] = x
        BY <3>1, <3>2
    <3>4. \A i \in 1..n : g[i] = sendNext(g[i - 1], s[i], v)
        BY <3>1, <3>2
    <3> QED
        BY <3>3, <3>4 DEF g, n
  <2>7. \A i \in 1..Len(s) : run(s)[i - 1] \in X => run(s)[i] = step(F, run(s)[i - 1], s[i])
    <3>1. \A i \in 1..Len(s) : s[i] \in I
        OBVIOUS
    <3> QED
        BY <1>1, <1>3, <2>6, <3>1
  <2> QED
      BY <1>2, <2>5, <2>6, <2>7, SameEnd
<1>5. /\ RunEnd(F, x, << >>) = x
      /\ \A s \in Seq(I) : RunEnd(F, x, s) \in X
      /\ \A s \in Seq(I), c \in I :
            RunEnd(F, x, Append(s, c)) = step(F, RunEnd(F, x, s), c)
    BY <1>2, FoldEquations
<1>6. << >> \in Seq(I) /\ \A s \in Seq(I), c \in I : Append(s, c) \in Seq(I)
    OBVIOUS
<1>7. sent(x, << >>, v) = x /\ \A s \in Seq(I) : sent(x, s, v) \in X
    BY <1>4, <1>5, <1>6
<1>8. ASSUME NEW s \in Seq(I), NEW c \in I
      PROVE  sent(x, Append(s, c), v) = sendStep(sent(x, s, v), c, v)
  <2>1. sent(x, Append(s, c), v) = RunEnd(F, x, Append(s, c))
      BY <1>4, <1>6
  <2>2. sent(x, s, v) = RunEnd(F, x, s) /\ RunEnd(F, x, s) \in X
      BY <1>4, <1>5
  <2>3. RunEnd(F, x, Append(s, c)) = step(F, RunEnd(F, x, s), c)
      BY <1>5
  <2> QED
      BY <1>1, <2>1, <2>2, <2>3
<1> QED
    BY <1>7, <1>8 DEF X, I

-------------------------------------------------------------------------------
(* What the handlers answer *)

LEMMA OneAndNone == ASSUME NEW a PROVE << a >> \o << >> = << a >>
    OBVIOUS

LEMMA OneAndOne ==
    ASSUME NEW a, NEW b
    PROVE  << a >> \o << b >> = << a, b >>
<1> DEFINE C == {a, b}
           p == << a >>
           q == << b >>
           s == << a, b >>
<1>1. p \in Seq(C) /\ q \in Seq(C) /\ s \in Seq(C) /\ Len(s) = Len(p) + Len(q)
    OBVIOUS
<1>2. \A i \in 1..Len(p) : s[i] = p[i]
    OBVIOUS
<1>3. \A i \in 1..Len(q) : s[Len(p) + i] = q[i]
    OBVIOUS
<1> HIDE DEF C, p, q, s
<1>4. s = p \o q
    BY <1>1, <1>2, <1>3, IsConcat
<1> QED
    BY <1>4 DEF s, p, q

TextRecords == [name : Texts, description : Texts, body : Texts]

LEMMA WordIsText ==
    ASSUME NEW w \in Words
    PROVE  << w >> \in Texts
<1>1. w \in ArgChars(LineChars)
    BY WordIsNoMark DEF ArgChars
<1>2. << w >> \in Arg(LineChars) /\ Len(<< w >>) = 1
    BY <1>1 DEF Arg
<1> QED
    BY <1>2 DEF Texts, Tidy

LEMMA ValuesAreGood ==
    ASSUME NEW tx \in TextRecords, NEW args, Last(args) \in Texts
    PROVE  GoodValues(values(tx, args))
<1>1. << "u" >> \in Texts /\ << "t" >> \in Texts /\ << "h" >> \in Texts /\ << "r" >> \in Texts
  <2>1. "u" \in Words /\ "t" \in Words /\ "h" \in Words /\ "r" \in Words
      BY DEF Words
  <2> QED
      BY <2>1, WordIsText
<1>2. tx.name \in Texts /\ tx.description \in Texts /\ tx.body \in Texts
    BY DEF TextRecords
<1> DEFINE v == values(tx, args)
<1>3. /\ v["user"] = << "u" >> /\ v["team"] = << "t" >> /\ v["channel"] = << "h" >>
      /\ v["thread"] = << "r" >> /\ v["timestamp"] = << "1" >> /\ v["status"] = << "0" >>
      /\ v["name"] = tx.name /\ v["description"] = tx.description /\ v["body"] = tx.body
      /\ v["asked"] = Last(args)
    BY DEF values
<1> HIDE DEF v
<1>4. \A f \in TextFields : v[f] \in Texts
    BY <1>1, <1>2, <1>3 DEF TextFields
<1> QED
    BY <1>3, <1>4 DEF GoodValues, v

\* The lines of an answer: simple ones, a list with at most one item (as in
\* lists), or the answer to /user that depends on what the client sent last.
ProperLines(ls, command) ==
    \/ ls \in Seq(SimpleLines)
    \/ \E l \in Lists : ls = << begin(l), end(l) >> \/ ls = << begin(l), one(l), end(l) >>
    \/ ls = << one("UNKNOWN") >> /\ command = << "/user" >>

Proper(o, command) ==
    o.texts \in TextRecords /\ o.session \in BOOLEAN /\ ProperLines(o.lines, command)

LEMMA SimpleProper ==
    ASSUME NEW c, NEW ls \in Seq(SimpleLines), NEW tx \in TextRecords, NEW b \in BOOLEAN,
           NEW o, o.lines = ls, o.texts = tx, o.session = b
    PROVE  Proper(o, c)
    BY DEF Proper, ProperLines

LEMMA SaysIs ==
    ASSUME NEW k, NEW j
    PROVE  /\ says(k).lines = << one(k) >> /\ says(k).texts = texts /\ says(k).session = session
           /\ saysBoth(k, j).lines = << one(k), one(j) >> /\ saysBoth(k, j).texts = texts
           /\ saysBoth(k, j).session = session
    BY DEF says, saysBoth, outcome

LEMMA SaysProper ==
    ASSUME texts \in TextRecords, session \in BOOLEAN, NEW c, NEW k \in SimpleKinds
    PROVE  Proper(says(k), c)
<1>1. << one(k) >> \in Seq(SimpleLines)
    BY DEF SimpleLines
<1> QED
    BY <1>1, SaysIs, SimpleProper

LEMMA BothProper ==
    ASSUME texts \in TextRecords, session \in BOOLEAN, NEW c, NEW k \in SimpleKinds,
           NEW j \in SimpleKinds
    PROVE  Proper(saysBoth(k, j), c) /\ << one(k), one(j) >> \in Seq(SimpleLines)
<1>1. one(k) \in SimpleLines /\ one(j) \in SimpleLines
    BY DEF SimpleLines
<1>2. << one(k), one(j) >> \in Seq(SimpleLines)
    BY <1>1
<1> QED
    BY <1>2, SaysIs, SimpleProper

LEMMA ListsProper ==
    ASSUME texts \in TextRecords, session \in BOOLEAN, NEW c, NEW l \in Lists, NEW o \in lists(l)
    PROVE  Proper(o, c)
<1>1. PICK items \in {<< >>, << one(l) >>} : o = outcome(listOf(l, items))
    BY DEF lists
<1>2. o.lines = listOf(l, items) /\ o.texts = texts /\ o.session = session
    BY <1>1 DEF outcome
<1>3. listOf(l, items) = << begin(l) >> \o items \o << end(l) >>
    BY DEF listOf, begin, end
<1>4. << begin(l) >> \o << >> \o << end(l) >> = << begin(l), end(l) >>
  <2>1. << begin(l) >> \o << >> = << begin(l) >>
      BY OneAndNone
  <2>2. << begin(l) >> \o << end(l) >> = << begin(l), end(l) >>
      BY OneAndOne
  <2> QED
      BY <2>1, <2>2, Zenon
<1>5. << begin(l) >> \o << one(l) >> \o << end(l) >> = << begin(l), one(l), end(l) >>
  <2>1. << begin(l) >> \o << one(l) >> = << begin(l), one(l) >>
      BY OneAndOne
  <2>2. << begin(l), one(l) >> \o << end(l) >> = << begin(l), one(l), end(l) >>
      BY TwoAndOne
  <2> QED
      BY <2>1, <2>2, Zenon
<1>6. o.lines = << begin(l), end(l) >> \/ o.lines = << begin(l), one(l), end(l) >>
    BY <1>2, <1>3, <1>4, <1>5
<1> QED
    BY <1>2, <1>6 DEF Proper, ProperLines

LEMMA CheckedProper ==
    ASSUME texts \in TextRecords, session \in BOOLEAN, NEW c, NEW args, NEW os,
           \A o \in os : Proper(o, c), NEW o \in checked(args, os)
    PROVE  Proper(o, c)
<1>1. Proper(says("UNAUTHORIZED"), c) /\ Proper(says("BAD_REQUEST"), c)
    BY SaysProper DEF SimpleKinds
<1> QED
    BY <1>1 DEF checked

\* Each handler, for arguments that its schema allows.
LEMMA LoginProper ==
    ASSUME texts \in TextRecords, session \in BOOLEAN, NEW c, NEW args, args[2] \in Texts,
           NEW o \in Login(args)
    PROVE  Proper(o, c)
<1>1. Proper(says("UNAUTHORIZED"), c) /\ Proper(says("BAD_REQUEST"), c)
    BY SaysProper DEF SimpleKinds
<1> DEFINE q == saysBoth("LOGIN", "USER_LOGGED_IN")
           r == [q EXCEPT !.texts.name = args[2], !.session = TRUE]
<1>2. r.lines = q.lines /\ r.texts = [q.texts EXCEPT !.name = args[2]] /\ r.session = TRUE
    BY DEF saysBoth, outcome
<1>3. q.lines \in Seq(SimpleLines) /\ q.texts = texts
  <2>1. "LOGIN" \in SimpleKinds /\ "USER_LOGGED_IN" \in SimpleKinds
      BY DEF SimpleKinds
  <2>2. << one("LOGIN"), one("USER_LOGGED_IN") >> \in Seq(SimpleLines)
      BY <2>1, BothProper
  <2> QED
      BY <2>2, SaysIs
<1> HIDE DEF q
<1>4. r.texts \in TextRecords
    BY <1>2, <1>3 DEF TextRecords
<1> HIDE DEF r
<1>5. Proper(r, c)
    BY <1>2, <1>3, <1>4, SimpleProper
<1>6. o \in {says("UNAUTHORIZED"), says("BAD_REQUEST"), r}
    BY DEF Login, r, q
<1> QED
    BY <1>1, <1>5, <1>6

LEMMA LogoutProper ==
    ASSUME texts \in TextRecords, session \in BOOLEAN, NEW c, NEW args, NEW o \in Logout(args)
    PROVE  Proper(o, c)
<1> DEFINE os == {[q EXCEPT !.session = FALSE] :
                     q \in {says("OK"), saysBoth("USER_LOGGED_OUT", "OK")}}
<1>1. ASSUME NEW r \in os PROVE Proper(r, c)
  <2>1. PICK q \in {says("OK"), saysBoth("USER_LOGGED_OUT", "OK")} :
           r = [q EXCEPT !.session = FALSE]
      BY <1>1
  <2>2. r.lines = q.lines /\ r.texts = texts /\ r.session = FALSE
      BY <2>1 DEF says, saysBoth, outcome
  <2>3. << one("OK") >> \in Seq(SimpleLines)
        /\ << one("USER_LOGGED_OUT"), one("OK") >> \in Seq(SimpleLines)
      BY DEF SimpleLines, SimpleKinds
  <2>4. q.lines \in Seq(SimpleLines)
      BY <2>3, SaysIs
  <2> QED
      BY <2>2, <2>4, SimpleProper
<1>2. o \in checked(args, os)
    BY DEF Logout
<1> HIDE DEF os
<1> QED
    BY <1>1, <1>2, CheckedProper

LEMMA UsersProper ==
    ASSUME texts \in TextRecords, session \in BOOLEAN, NEW c, NEW args, NEW o \in Users(args)
    PROVE  Proper(o, c)
<1>1. \A r \in lists("USERS") : Proper(r, c)
    BY ListsProper DEF Lists
<1>2. o \in checked(args, lists("USERS"))
    BY DEF Users
<1> QED
    BY <1>1, <1>2, CheckedProper

LEMMA UserProper ==
    ASSUME texts \in TextRecords, session \in BOOLEAN, NEW args, NEW o \in User(args)
    PROVE  Proper(o, << "/user" >>)
<1> DEFINE c == << "/user" >>
<1>1. Proper(says("UNAUTHORIZED"), c) /\ Proper(says("USER"), c)
    BY SaysProper DEF SimpleKinds
<1>2. Proper(says("UNKNOWN"), c)
    BY SaysIs DEF Proper, ProperLines
<1>3. o \in {says("UNAUTHORIZED"), says("USER"), says("UNKNOWN")}
    BY DEF User
<1> HIDE DEF c
<1>4. Proper(o, c)
    BY <1>1, <1>2, <1>3
<1> QED
    BY <1>4 DEF c

LEMMA SendProper ==
    ASSUME texts \in TextRecords, session \in BOOLEAN, NEW c, NEW args, args[3] \in Texts,
           NEW o \in Send(args)
    PROVE  Proper(o, c)
<1>1. /\ Proper(says("UNAUTHORIZED"), c) /\ Proper(says("BAD_REQUEST"), c)
      /\ Proper(says("UNKNOWN_USER"), c)
    BY SaysProper DEF SimpleKinds
<1> DEFINE os == {[q EXCEPT !.texts.body = args[3]] :
                     q \in {says("OK"), saysBoth("PRIVATE_MESSAGE", "OK")}}
<1>2. ASSUME NEW r \in os PROVE Proper(r, c)
  <2>1. PICK q \in {says("OK"), saysBoth("PRIVATE_MESSAGE", "OK")} :
           r = [q EXCEPT !.texts.body = args[3]]
      BY <1>2
  <2>2. r.lines = q.lines /\ r.texts = [q.texts EXCEPT !.body = args[3]] /\ r.session = session
        /\ q.texts = texts
      BY <2>1 DEF says, saysBoth, outcome
  <2>3. << one("OK") >> \in Seq(SimpleLines)
        /\ << one("PRIVATE_MESSAGE"), one("OK") >> \in Seq(SimpleLines)
      BY DEF SimpleLines, SimpleKinds
  <2>4. q.lines \in Seq(SimpleLines)
      BY <2>3, SaysIs
  <2>5. r.texts \in TextRecords
      BY <2>2 DEF TextRecords
  <2> QED
      BY <2>2, <2>4, <2>5, SimpleProper
<1>3. o \in {says("UNAUTHORIZED"), says("BAD_REQUEST"), says("UNKNOWN_USER")} \cup os
    BY DEF Send
<1> HIDE DEF os
<1> QED
    BY <1>1, <1>2, <1>3

LEMMA MessagesProper ==
    ASSUME texts \in TextRecords, session \in BOOLEAN, NEW c, NEW args, NEW o \in Messages(args)
    PROVE  Proper(o, c)
<1> DEFINE os == {says("UNKNOWN_USER")} \cup lists("MESSAGES")
<1>1. Proper(says("UNKNOWN_USER"), c)
    BY SaysProper DEF SimpleKinds
<1>2. \A r \in lists("MESSAGES") : Proper(r, c)
    BY ListsProper DEF Lists
<1>3. \A r \in os : Proper(r, c)
    BY <1>1, <1>2
<1>4. o \in checked(args, os)
    BY DEF Messages
<1> HIDE DEF os
<1> QED
    BY <1>3, <1>4, CheckedProper

LEMMA SubscribeProper ==
    ASSUME texts \in TextRecords, session \in BOOLEAN, NEW c, NEW args, NEW o \in Subscribe(args)
    PROVE  Proper(o, c)
<1> DEFINE os == {says("UNKNOWN_TEAM"), says("SUBSCRIBE"),
                  saysBoth("user_subscribed", "SUBSCRIBE")}
<1>1. /\ Proper(says("UNKNOWN_TEAM"), c) /\ Proper(says("SUBSCRIBE"), c)
      /\ Proper(saysBoth("user_subscribed", "SUBSCRIBE"), c)
    BY SaysProper, BothProper DEF SimpleKinds
<1>2. \A r \in os : Proper(r, c)
    BY <1>1
<1>3. o \in checked(args, os)
    BY DEF Subscribe
<1> HIDE DEF os
<1> QED
    BY <1>2, <1>3, CheckedProper

LEMMA UnsubscribeProper ==
    ASSUME texts \in TextRecords, session \in BOOLEAN, NEW c, NEW args, NEW o \in Unsubscribe(args)
    PROVE  Proper(o, c)
<1> DEFINE os == {says("UNKNOWN_TEAM"), says("FORBIDDEN"), says("UNSUBSCRIBE")}
<1>1. /\ Proper(says("UNKNOWN_TEAM"), c) /\ Proper(says("FORBIDDEN"), c)
      /\ Proper(says("UNSUBSCRIBE"), c)
    BY SaysProper DEF SimpleKinds
<1>2. \A r \in os : Proper(r, c)
    BY <1>1
<1>3. o \in checked(args, os)
    BY DEF Unsubscribe
<1> HIDE DEF os
<1> QED
    BY <1>2, <1>3, CheckedProper

LEMMA SubscribedProper ==
    ASSUME texts \in TextRecords, session \in BOOLEAN, NEW c, NEW args, NEW o \in Subscribed(args)
    PROVE  Proper(o, c)
<1> DEFINE os == IF Len(args) = 1 THEN lists("TEAMS")
                 ELSE {says("UNKNOWN_TEAM")} \cup lists("USERS")
<1>1. Proper(says("UNKNOWN_TEAM"), c)
    BY SaysProper DEF SimpleKinds
<1>2. \A r \in lists("TEAMS") \cup lists("USERS") : Proper(r, c)
    BY ListsProper DEF Lists
<1>3. \A r \in os : Proper(r, c)
    BY <1>1, <1>2
<1>4. o \in checked(args, os)
    BY DEF Subscribed
<1> HIDE DEF os
<1> QED
    BY <1>3, <1>4, CheckedProper

LEMMA UseProper ==
    ASSUME texts \in TextRecords, session \in BOOLEAN, NEW c, NEW args, Len(args) \in 1..4,
           NEW o \in Use(args)
    PROVE  Proper(o, c)
<1> DEFINE oks(n) == [i \in 1..n |-> one("OK")]
           refused == << {"UNKNOWN_TEAM", "FORBIDDEN"}, {"UNKNOWN_CHANNEL"}, {"UNKNOWN_THREAD"} >>
<1>0. \A i \in 1..Len(args) - 1 : i \in 1..3 /\ i - 1 \in Nat
  <2> DEFINE n == Len(args)
  <2>1. n \in 1..4
      OBVIOUS
  <2> HIDE DEF n
  <2>2. \A i \in 1..n - 1 : i \in 1..3 /\ i - 1 \in Nat
      BY <2>1
  <2> QED
      BY <2>2 DEF n
<1>1. Proper(says("UNAUTHORIZED"), c)
    BY SaysProper DEF SimpleKinds
<1>2. one("OK") \in SimpleLines
    BY DEF SimpleLines, SimpleKinds
<1>3. \A n \in Nat : oks(n) \in Seq(SimpleLines)
    BY <1>2
<1> HIDE DEF oks
<1>4. ASSUME NEW ls \in Seq(SimpleLines) PROVE Proper(outcome(ls), c)
  <2>1. outcome(ls).lines = ls /\ outcome(ls).texts = texts /\ outcome(ls).session = session
      BY DEF outcome
  <2> QED
      BY <2>1, SimpleProper
<1>5. ASSUME NEW i \in 1..Len(args) - 1, NEW k \in refused[i]
      PROVE  Append(oks(i - 1), one(k)) \in Seq(SimpleLines)
  <2>1. i \in 1..3 /\ i - 1 \in Nat
      BY <1>0
  <2>2. k \in SimpleKinds
      BY <2>1 DEF SimpleKinds
  <2>3. one(k) \in SimpleLines /\ oks(i - 1) \in Seq(SimpleLines)
      BY <1>3, <2>1, <2>2 DEF SimpleLines
  <2> QED
      BY <2>3
<1>6. (IF Len(args) = 1 THEN 1 ELSE Len(args) - 1) \in Nat
    OBVIOUS
<1>7. o \in {says("UNAUTHORIZED"), outcome(oks(IF Len(args) = 1 THEN 1 ELSE Len(args) - 1))}
            \cup UNION {{outcome(Append(oks(i - 1), one(k))) : k \in refused[i]} :
                           i \in 1..Len(args) - 1}
    BY DEF Use, oks
<1> HIDE DEF refused
<1>8. CASE \E i \in 1..Len(args) - 1 : \E k \in refused[i] :
              o = outcome(Append(oks(i - 1), one(k)))
    BY <1>4, <1>5, <1>8
<1> QED
    BY <1>1, <1>3, <1>4, <1>6, <1>7, <1>8

LEMMA CreateProper ==
    ASSUME texts \in TextRecords, session \in BOOLEAN, NEW c, NEW args, args[2] \in Texts,
           Len(args) < 3 \/ args[3] \in Texts, NEW o \in Create(args)
    PROVE  Proper(o, c)
<1> DEFINE tx == [name |-> args[2], description |-> args[3], body |-> args[3]]
           creates(first, second) == [saysBoth(first, second) EXCEPT !.texts = tx]
           q == saysBoth("CREATED_REPLY", "REPLY_CREATED")
           r == [q EXCEPT !.texts.body = args[2]]
<1>1. /\ Proper(says("UNAUTHORIZED"), c) /\ Proper(says("BAD_REQUEST"), c)
      /\ Proper(says("FORBIDDEN"), c) /\ Proper(says("ALREADY_EXISTS"), c)
    BY SaysProper DEF SimpleKinds
<1>2. Proper(r, c)
  <2>1. r.lines = q.lines /\ r.texts = [q.texts EXCEPT !.body = args[2]] /\ r.session = session
      BY DEF saysBoth, outcome
  <2>2. q.lines \in Seq(SimpleLines) /\ q.texts = texts
      BY SaysIs, BothProper DEF SimpleKinds
  <2> HIDE DEF q
  <2>3. r.texts \in TextRecords
      BY <2>1, <2>2 DEF TextRecords
  <2> HIDE DEF r
  <2> QED
      BY <2>1, <2>2, <2>3, SimpleProper
<1>3. ASSUME NEW k \in SimpleKinds, NEW j \in SimpleKinds, args[3] \in Texts
      PROVE  Proper(creates(k, j), c)
  <2> DEFINE z == creates(k, j)
  <2>1. z.lines = << one(k), one(j) >> /\ z.texts = tx /\ z.session = session
      BY DEF saysBoth, outcome
  <2>2. << one(k), one(j) >> \in Seq(SimpleLines)
      BY BothProper
  <2>3. tx \in TextRecords
      BY <1>3 DEF TextRecords
  <2> HIDE DEF z, tx
  <2>4. Proper(z, c)
      BY <2>1, <2>2, <2>3, SimpleProper
  <2> QED
      BY <2>4 DEF z
<1>4. args[3] \in Texts => /\ Proper(creates("CREATED_TEAM", "TEAM_CREATED"), c)
                           /\ Proper(creates("CREATED_CHANNEL", "CHANNEL_CREATED"), c)
                           /\ Proper(creates("CREATED_THREAD", "THREAD_CREATED"), c)
  <2> HIDE DEF creates
  <2> QED BY <1>3 DEF SimpleKinds
<1>5. \/ o \in {says("UNAUTHORIZED"), says("BAD_REQUEST"), says("FORBIDDEN"),
          says("ALREADY_EXISTS"), r}
      \/ ~ (Len(args) < 3) /\ o \in {creates("CREATED_TEAM", "TEAM_CREATED"),
                                     creates("CREATED_CHANNEL", "CHANNEL_CREATED"),
                                     creates("CREATED_THREAD", "THREAD_CREATED")}
    BY Zenon DEF Create
<1> HIDE DEF creates, r
<1> QED
    BY <1>1, <1>2, <1>4, <1>5

LEMMA ListProper ==
    ASSUME texts \in TextRecords, session \in BOOLEAN, NEW c, NEW args, NEW o \in List(args)
    PROVE  Proper(o, c)
<1> DEFINE os == {says("FORBIDDEN")} \cup lists("TEAMS") \cup lists("CHANNELS")
                 \cup lists("THREADS") \cup lists("REPLIES")
<1>1. Proper(says("FORBIDDEN"), c)
    BY SaysProper DEF SimpleKinds
<1>2. /\ \A r \in lists("TEAMS") : Proper(r, c)
      /\ \A r \in lists("CHANNELS") : Proper(r, c)
      /\ \A r \in lists("THREADS") : Proper(r, c)
      /\ \A r \in lists("REPLIES") : Proper(r, c)
    BY ListsProper DEF Lists
<1>3. \A r \in os : Proper(r, c)
    BY <1>1, <1>2
<1>4. o \in checked(args, os)
    BY DEF List
<1> HIDE DEF os
<1> QED
    BY <1>3, <1>4, CheckedProper

LEMMA InfoProper ==
    ASSUME texts \in TextRecords, session \in BOOLEAN, NEW c, NEW args, NEW o \in Info(args)
    PROVE  Proper(o, c)
<1> DEFINE ks == {"FORBIDDEN", "INFO_USER", "INFO_TEAM", "INFO_CHANNEL", "INFO_THREAD"}
           os == {says(k) : k \in ks}
<1>1. ks \subseteq SimpleKinds
    BY DEF SimpleKinds
<1> HIDE DEF ks
<1>2. \A r \in os : Proper(r, c)
    BY <1>1, SaysProper
<1>3. o \in checked(args, os)
    BY DEF Info, ks
<1> HIDE DEF os
<1> QED
    BY <1>2, <1>3, CheckedProper

\* All of them.
LEMMA ExecuteProper ==
    ASSUME texts \in TextRecords, session \in BOOLEAN, NEW args, Fits(args),
           \A i \in 1..Len(args) : args[i] \in Texts,
           NEW o, o \in execute(args)
    PROVE  Proper(o, args[1])
<1>1. PICK sc \in schemas : /\ args[1] = sc.name
                            /\ sc.min <= Len(args) - 1 /\ Len(args) - 1 <= Len(sc.args)
    BY DEF Fits
<1>2. Len(args) \in Nat
    BY DEF Fits, Args
<1> DEFINE c == args[1]
<1>3. \/ c = << "/login" >> /\ Len(args) >= 2
      \/ c \in {<< "/logout" >>, << "/users" >>, << "/user" >>, << "/messages" >>,
                << "/subscribe" >>, << "/subscribed" >>, << "/unsubscribe" >>, << "/list" >>,
                << "/info" >>}
      \/ c = << "/send" >> /\ Len(args) >= 3
      \/ c = << "/use" >> /\ Len(args) \in 1..4
      \/ c = << "/create" >> /\ Len(args) >= 2
  <2>1. \/ sc.name = << "/login" >> /\ sc.min = 1
        \/ sc.name \in {<< "/logout" >>, << "/users" >>, << "/user" >>, << "/messages" >>,
                        << "/subscribe" >>, << "/subscribed" >>, << "/unsubscribe" >>,
                        << "/list" >>, << "/info" >>}
        \/ sc.name = << "/send" >> /\ sc.min = 2
        \/ sc.name = << "/use" >> /\ sc.min = 0 /\ Len(sc.args) = 3
        \/ sc.name = << "/create" >> /\ sc.min \in {1, 2}
      BY DEF schemas, schema
  <2>2. \A k \in {0, 1, 2} : k <= Len(args) - 1 => Len(args) >= k + 1
      BY <1>2
  <2>3. sc.min \in {0, 1, 2}
      BY DEF schemas, schema
  <2>4. Len(sc.args) = 3 /\ sc.min \in {0, 1, 2} => Len(args) \in 1..4
    <3>1. \A n \in Nat, k \in {0, 1, 2} : k <= n - 1 /\ n - 1 <= 3 => n \in 1..4
        OBVIOUS
    <3> QED
        BY <1>1, <1>2, <3>1
  <2> HIDE DEF c
  <2> QED
      BY <1>1, <1>2, <2>1, <2>2, <2>3, <2>4 DEF c
<1>4. /\ Len(args) >= 2 => args[2] \in Texts
      /\ Len(args) >= 3 => args[3] \in Texts
    BY <1>2
<1>5. CASE c = << "/login" >>
  <2>1. o \in Login(args)
      BY <1>5 DEF execute
  <2> QED
      BY <1>3, <1>4, <1>5, <2>1, LoginProper
<1>6. CASE c = << "/logout" >>
  <2>1. o \in Logout(args)
      BY <1>6 DEF execute
  <2> QED
      BY <2>1, LogoutProper
<1>7. CASE c = << "/users" >>
  <2>1. o \in Users(args)
      BY <1>7 DEF execute
  <2> QED
      BY <2>1, UsersProper
<1>8. CASE c = << "/user" >>
  <2>1. o \in User(args)
      BY <1>8 DEF execute
  <2> QED
      BY <1>8, <2>1, UserProper
<1>9. CASE c = << "/messages" >>
  <2>1. o \in Messages(args)
      BY <1>9 DEF execute
  <2> QED
      BY <2>1, MessagesProper
<1>10. CASE c = << "/subscribe" >>
  <2>1. o \in Subscribe(args)
      BY <1>10 DEF execute
  <2> QED
      BY <2>1, SubscribeProper
<1>11. CASE c = << "/subscribed" >>
  <2>1. o \in Subscribed(args)
      BY <1>11 DEF execute
  <2> QED
      BY <2>1, SubscribedProper
<1>12. CASE c = << "/unsubscribe" >>
  <2>1. o \in Unsubscribe(args)
      BY <1>12 DEF execute
  <2> QED
      BY <2>1, UnsubscribeProper
<1>13. CASE c = << "/list" >>
  <2>1. o \in List(args)
      BY <1>13 DEF execute
  <2> QED
      BY <2>1, ListProper
<1>14. CASE c = << "/info" >>
  <2>1. o \in Info(args)
      BY <1>14 DEF execute
  <2> QED
      BY <2>1, InfoProper
<1>15. CASE c = << "/send" >>
  <2>1. o \in Send(args)
      BY <1>15 DEF execute
  <2> QED
      BY <1>3, <1>4, <1>15, <2>1, SendProper
<1>16. CASE c = << "/use" >>
  <2>1. o \in Use(args)
      BY <1>16 DEF execute
  <2> QED
      BY <1>3, <1>16, <2>1, UseProper
<1>17. CASE c = << "/create" >>
  <2>1. o \in Create(args)
      BY <1>17 DEF execute
  <2>2. args[2] \in Texts /\ (Len(args) < 3 \/ args[3] \in Texts)
      BY <1>2, <1>3, <1>4, <1>17
  <2> QED
      BY <2>1, <2>2, CreateProper
<1> QED
    BY <1>3, <1>5, <1>6, <1>7, <1>8, <1>9, <1>10, <1>11, <1>12, <1>13, <1>14, <1>15, <1>16, <1>17

-------------------------------------------------------------------------------
(* The lines on their way to the client *)

\* The values of ServerMessageRouter::_listContext.
Contexts == {<< >>} \cup {<< l >> : l \in Lists}

\* f[i] are the bytes that the client has not cut into lines yet, and c[i] the
\* list that is open, when it has routed the first i lines: b and x when it has
\* routed m, none and z when it has routed all n. Each line carries what ms says
\* of it; g are the commands that were executed.
Feed(f, c, m, n, b, x, z, ms, g) ==
    /\ f \in [m..n -> Seq(Byte)] /\ c \in [m..n -> Contexts]
    /\ f[m] = b /\ c[m] = x
    /\ f[n] = << >> /\ c[n] = z
    /\ \A i \in m..n - 1 :
          \E fr \in Seq(LineChars) :
             f[i] = fr \o CRLF \o f[i + 1] /\ Carries(fr, c[i], c[i + 1], ms[i + 1], g)

Fed(m, n, b, x, z, ms, g) == \E f, c : Feed(f, c, m, n, b, x, z, ms, g)

\* The server sends one more line.
LEMMA FeedOne ==
    ASSUME NEW m \in Nat, NEW n \in Nat, m <= n, NEW b \in Seq(Byte), NEW x, NEW z, NEW ms, NEW g,
           Fed(m, n, b, x, z, ms, g), NEW fr \in Seq(LineChars), NEW y \in Contexts,
           Carries(fr, z, y, ms[n + 1], g)
    PROVE  Fed(m, n + 1, b \o (fr \o CRLF), x, y, ms, g)
<1>0. PICK f, c : Feed(f, c, m, n, b, x, z, ms, g)
    BY DEF Fed
<1> DEFINE e == fr \o CRLF
           h == [i \in m..n + 1 |-> IF i = n + 1 THEN << >> ELSE f[i] \o e]
           d == [i \in m..n + 1 |-> IF i = n + 1 THEN y ELSE c[i]]
<1>1. e \in Seq(Byte)
    BY LineIsText, EndChars, ConcatProperties
<1>2. \A i \in m..n : f[i] \in Seq(Byte) /\ f[i] \o e \in Seq(Byte)
  <2>1. \A i \in m..n : f[i] \in Seq(Byte)
      BY <1>0 DEF Feed
  <2> HIDE DEF e
  <2> QED
      BY <1>1, <2>1, ConcatProperties
<1> HIDE DEF e
<1>3. h \in [m..n + 1 -> Seq(Byte)]
  <2>1. ASSUME NEW i \in m..n + 1
        PROVE  (IF i = n + 1 THEN << >> ELSE f[i] \o e) \in Seq(Byte)
    <3>1. i # n + 1 => i \in m..n
        OBVIOUS
    <3> QED
        BY <1>2, <3>1
  <2> QED
      BY <2>1
<1>4. d \in [m..n + 1 -> Contexts]
  <2>1. \A i \in m..n : c[i] \in Contexts
      BY <1>0 DEF Feed
  <2>2. \A i \in m..n + 1 : i # n + 1 => i \in m..n
      OBVIOUS
  <2> QED
      BY <2>1, <2>2
<1>5. \A i \in m..n + 1 : /\ h[i] = IF i = n + 1 THEN << >> ELSE f[i] \o e
                          /\ d[i] = IF i = n + 1 THEN y ELSE c[i]
    OBVIOUS
<1> HIDE DEF h, d
<1>6. h[m] = b \o e /\ d[m] = x /\ h[n + 1] = << >> /\ d[n + 1] = y
  <2>1. m \in m..n + 1 /\ n + 1 \in m..n + 1 /\ m # n + 1
      OBVIOUS
  <2>2. f[m] = b /\ c[m] = x
      BY <1>0 DEF Feed
  <2> QED
      BY <1>5, <2>1, <2>2
<1>7. ASSUME NEW i \in m..n
      PROVE  \E r \in Seq(LineChars) :
                h[i] = r \o CRLF \o h[i + 1] /\ Carries(r, d[i], d[i + 1], ms[i + 1], g)
  <2>1. CASE i = n
    <3>1. h[i] = << >> \o e /\ h[i + 1] = << >> /\ d[i] = z /\ d[i + 1] = y
      <4>1. i \in m..n + 1 /\ i # n + 1 /\ i + 1 = n + 1
          BY <2>1
      <4>2. f[n] = << >> /\ c[n] = z
          BY <1>0 DEF Feed
      <4> QED
          BY <1>5, <1>6, <2>1, <4>1, <4>2
    <3>2. << >> \o e = e /\ e \o << >> = e
        BY <1>1, ConcatEmptySeq
    <3>3. h[i] = fr \o CRLF \o h[i + 1]
        BY <3>1, <3>2 DEF e
    <3> QED
        BY <2>1, <3>1, <3>3
  <2>2. CASE i # n
    <3>1. i \in m..n - 1 /\ i \in m..n + 1 /\ i + 1 \in m..n + 1 /\ i + 1 \in m..n /\ i + 1 # n + 1
          /\ i # n + 1
        BY <2>2
    <3>2. PICK r \in Seq(LineChars) :
             f[i] = r \o CRLF \o f[i + 1] /\ Carries(r, c[i], c[i + 1], ms[i + 1], g)
        BY <1>0, <3>1 DEF Feed
    <3> DEFINE q == r \o CRLF
               u == f[i + 1]
    <3>3. q \in Seq(Byte) /\ u \in Seq(Byte)
        BY <1>2, <3>1, LineIsText, EndChars, ConcatProperties
    <3>4. h[i] = f[i] \o e /\ h[i + 1] = u \o e /\ f[i] = q \o u /\ d[i] = c[i]
          /\ d[i + 1] = c[i + 1]
        BY <1>5, <3>1, <3>2
    <3> HIDE DEF q, u
    <3>5. (q \o u) \o e = q \o (u \o e)
      <4>1. Joins(q, u, e)
          BY <1>1, <3>3, Bytes
      <4> QED
          BY <4>1 DEF Joins
    <3>6. h[i] = q \o h[i + 1]
        BY <3>4, <3>5
    <3> QED
        BY <3>2, <3>4, <3>6 DEF q
  <2> QED
      BY <2>1, <2>2
<1>8. m..(n + 1) - 1 = m..n
    OBVIOUS
<1>9. Feed(h, d, m, n + 1, b \o e, x, y, ms, g)
    BY <1>3, <1>4, <1>6, <1>7, <1>8 DEF Feed
<1> QED
    BY <1>9 DEF Fed, e

\* The client routes the next line.
LEMMA FeedCut ==
    ASSUME NEW m \in Nat, NEW n \in Nat, m <= n, NEW cb \in Seq(Byte), NEW dn \in Seq(Byte),
           NEW x, NEW z, NEW ms, NEW g, Fed(m, n, cb \o dn, x, z, ms, g), hasLine(cb)
    PROVE  /\ m < n /\ afterLine(cb) \in Seq(Byte)
           /\ \E y \in Contexts : /\ Carries(firstLine(cb), x, y, ms[m + 1], g)
                                  /\ Fed(m + 1, n, afterLine(cb) \o dn, y, z, ms, g)
<1>0. PICK f, c : Feed(f, c, m, n, cb \o dn, x, z, ms, g)
    BY DEF Fed
<1>1. /\ f[m] = cb \o dn /\ f[n] = << >> /\ c[m] = x /\ c[n] = z
      /\ \A i \in m..n : f[i] \in Seq(Byte) /\ c[i] \in Contexts
    BY <1>0 DEF Feed
<1>2. m # n
  <2>1. PICK i \in 1..Len(cb) : cb[i] = LF
      BY DEF hasLine, Contains
  <2>2. Len(cb \o dn) = Len(cb) + Len(dn) /\ Len(cb) \in Nat /\ Len(dn) \in Nat
      BY ConcatProperties
  <2>3. Len(cb \o dn) # 0
      BY <2>1, <2>2
  <2>4. cb \o dn # << >>
      BY <2>3
  <2> QED
      BY <1>1, <2>4
<1>3. m \in m..n - 1 /\ m + 1 \in m..n /\ m < n
    BY <1>2
<1>4. PICK fr \in Seq(LineChars) :
         f[m] = fr \o CRLF \o f[m + 1] /\ Carries(fr, c[m], c[m + 1], ms[m + 1], g)
    BY <1>0, <1>3 DEF Feed
<1>5. fr \in Seq(Byte) /\ ~ hasLine(fr) /\ f[m + 1] \in Seq(Byte)
    BY <1>1, <1>3, LineIsText
<1>6. Holds(cb, dn, fr, f[m + 1])
    BY <1>1, <1>4 DEF Holds
<1> DEFINE u == f[m + 1]
<1>7. firstLine(cb) = fr /\ afterLine(cb) \in Seq(Byte) /\ afterLine(cb) \o dn = u
  <2>1. u \in Seq(Byte) /\ Holds(cb, dn, fr, u)
      BY <1>5, <1>6
  <2> HIDE DEF u
  <2> QED
      BY <1>5, <2>1, EndChars, LineCut
<1> DEFINE h == [i \in m + 1..n |-> f[i]]
           d == [i \in m + 1..n |-> c[i]]
<1>8. Feed(h, d, m + 1, n, f[m + 1], c[m + 1], z, ms, g)
  <2>1. \A i \in m + 1..n : h[i] = f[i] /\ d[i] = c[i] /\ i \in m..n
      OBVIOUS
  <2>2. h \in [m + 1..n -> Seq(Byte)] /\ d \in [m + 1..n -> Contexts]
      BY <1>1, <2>1
  <2>3. m + 1 \in m + 1..n /\ n \in m + 1..n
      BY <1>3
  <2>4. ASSUME NEW i \in m + 1..n - 1
        PROVE  \E r \in Seq(LineChars) :
                  h[i] = r \o CRLF \o h[i + 1] /\ Carries(r, d[i], d[i + 1], ms[i + 1], g)
    <3>1. i \in m..n - 1 /\ i \in m + 1..n /\ i + 1 \in m + 1..n
        OBVIOUS
    <3>2. PICK r \in Seq(LineChars) :
             f[i] = r \o CRLF \o f[i + 1] /\ Carries(r, c[i], c[i + 1], ms[i + 1], g)
        BY <1>0, <3>1 DEF Feed
    <3>3. h[i] = f[i] /\ h[i + 1] = f[i + 1] /\ d[i] = c[i] /\ d[i + 1] = c[i + 1]
        BY <3>1, <2>1
    <3> QED
        BY <3>2, <3>3
  <2> HIDE DEF h, d
  <2> QED
      BY <1>1, <2>1, <2>2, <2>3, <2>4 DEF Feed
<1>9. c[m + 1] \in Contexts /\ Carries(firstLine(cb), x, c[m + 1], ms[m + 1], g)
    BY <1>1, <1>3, <1>4, <1>7
<1>10. Fed(m + 1, n, afterLine(cb) \o dn, c[m + 1], z, ms, g)
  <2>1. Fed(m + 1, n, u, c[m + 1], z, ms, g)
      BY <1>8 DEF Fed
  <2> HIDE DEF u
  <2> QED
      BY <1>7, <2>1
<1> QED
    BY <1>3, <1>7, <1>9, <1>10

\* Later commands, and what later lines are meant for, change nothing.
Grows(g, h) ==
    /\ Len(g) \in Nat /\ Len(h) \in Nat /\ Len(g) <= Len(h)
    /\ \A i \in 1..Len(g) : h[i] = g[i]

LEMMA CarriesGrows ==
    ASSUME NEW fr, NEW x, NEW y, NEW mm, NEW g, NEW h, Grows(g, h), Carries(fr, x, y, mm, g)
    PROVE  Carries(fr, x, y, mm, h)
<1>1. PICK t : /\ Reads(fr, t) /\ t # << >> /\ y = after(t, x)
               /\ \A p : displayed(t, x, p) = escaped(mm.as) \/ Lost(t, x, p, mm, g)
    BY DEF Carries
<1>2. ASSUME NEW p, Lost(t, x, p, mm, g) PROVE Lost(t, x, p, mm, h)
  <2>1. /\ displayed(t, x, p) = << >> /\ p # << "/user" >>
        /\ mm.to \in 1..Len(g) /\ g[mm.to][1] = << "/user" >>
      BY <1>2 DEF Lost
  <2>2. mm.to \in 1..Len(h) /\ h[mm.to] = g[mm.to]
      BY <2>1 DEF Grows
  <2> QED
      BY <2>1, <2>2 DEF Lost
<1>3. \A p : displayed(t, x, p) = escaped(mm.as) \/ Lost(t, x, p, mm, h)
    BY <1>1, <1>2
<1> QED
    BY <1>1, <1>3 DEF Carries

LEMMA FedGrows ==
    ASSUME NEW m \in Nat, NEW n \in Nat, NEW b, NEW x, NEW z, NEW ms, NEW us, NEW g, NEW h,
           Fed(m, n, b, x, z, ms, g), Grows(g, h), \A i \in 1..n : us[i] = ms[i]
    PROVE  Fed(m, n, b, x, z, us, h)
<1>1. PICK f, c : Feed(f, c, m, n, b, x, z, ms, g)
    BY DEF Fed
<1>2. /\ f \in [m..n -> Seq(Byte)] /\ c \in [m..n -> Contexts]
      /\ f[m] = b /\ c[m] = x /\ f[n] = << >> /\ c[n] = z
    BY <1>1 DEF Feed
<1>3. ASSUME NEW i \in m..n - 1
      PROVE  \E fr \in Seq(LineChars) :
                f[i] = fr \o CRLF \o f[i + 1] /\ Carries(fr, c[i], c[i + 1], us[i + 1], h)
  <2>1. PICK fr \in Seq(LineChars) :
           f[i] = fr \o CRLF \o f[i + 1] /\ Carries(fr, c[i], c[i + 1], ms[i + 1], g)
      BY <1>1 DEF Feed
  <2>2. i + 1 \in 1..n
      OBVIOUS
  <2>3. us[i + 1] = ms[i + 1]
      BY <2>2
  <2>4. Carries(fr, c[i], c[i + 1], ms[i + 1], h)
      BY <2>1, CarriesGrows
  <2> QED
      BY <2>1, <2>3, <2>4
<1>4. Feed(f, c, m, n, b, x, z, us, h)
    BY <1>2, <1>3 DEF Feed
<1> QED
    BY <1>4 DEF Fed

\* The lines s, with the values v, go through the contexts d; they answer the
\* command number k, and us says so from its place n on.
Chain(s, v, d, n, us, k, g) ==
    /\ d[0] = << >>
    /\ \A i \in 1..Len(s) :
          /\ d[i] \in Contexts
          /\ us[n + i] = [to |-> k, as |-> meaning(s[i].kind, v)]
          /\ Says(s[i], v, d[i - 1], d[i], k, g)

\* The server sends the lines of an answer.
LEMMA FeedSend ==
    ASSUME NEW m \in Nat, NEW n \in Nat, m <= n, NEW cb \in Seq(Byte), NEW dn \in Seq(Byte), NEW x,
           NEW us, NEW g, Fed(m, n, cb \o dn, x, << >>, us, g), NEW v, GoodValues(v), NEW d, NEW k,
           NEW ls \in Seq(AnswerLines), Chain(ls, v, d, n, us, k, g)
    PROVE  Fed(m, n + Len(ls), cb \o sent(dn, ls, v), x, d[Len(ls)], us, g)
<1> DEFINE S == {s \in Seq(AnswerLines) :
                    Chain(s, v, d, n, us, k, g)
                    => Fed(m, n + Len(s), cb \o sent(dn, s, v), x, d[Len(s)], us, g)}
<1>1. << >> \in S
  <2>1. Len(<< >>) = 0 /\ n + 0 = n /\ << >> \in Seq(AnswerLines)
      OBVIOUS
  <2>2. sent(dn, << >>, v) = dn
      BY SendEquations
  <2>3. Chain(<< >>, v, d, n, us, k, g) => d[0] = << >>
      BY DEF Chain
  <2> QED
      BY <2>1, <2>2, <2>3
<1>2. ASSUME NEW s \in Seq(AnswerLines), NEW l \in AnswerLines, s \in S PROVE Append(s, l) \in S
  <2> DEFINE a == Append(s, l)
             j == Len(s)
             q == sent(dn, s, v)
             r == joinParts(l.parts, v)
             e == r \o CRLF
             mm == us[n + (j + 1)]
  <2>1. a \in Seq(AnswerLines) /\ Len(a) = j + 1 /\ a[j + 1] = l /\ j \in Nat
        /\ \A i \in 1..j : a[i] = s[i]
      BY Appended
  <2> HIDE DEF a
  <2> SUFFICES ASSUME Chain(a, v, d, n, us, k, g)
               PROVE  Fed(m, n + Len(a), cb \o sent(dn, a, v), x, d[Len(a)], us, g)
      BY <2>1 DEF a
  <2>2. /\ d[0] = << >>
        /\ \A i \in 1..j + 1 : /\ d[i] \in Contexts
                               /\ us[n + i] = [to |-> k, as |-> meaning(a[i].kind, v)]
                               /\ Says(a[i], v, d[i - 1], d[i], k, g)
      BY <2>1 DEF Chain
  <2>3. j + 1 \in 1..j + 1 /\ \A i \in 1..j : i \in 1..j + 1
      BY <2>1
  <2>4. Chain(s, v, d, n, us, k, g)
      BY <2>1, <2>2, <2>3 DEF Chain
  <2>5. Fed(m, n + j, cb \o q, x, d[j], us, g)
      BY <1>2, <2>4
  <2>6. d[j + 1] \in Contexts /\ mm = [to |-> k, as |-> meaning(l.kind, v)]
        /\ Says(l, v, d[j], d[j + 1], k, g)
    <3>1. (j + 1) - 1 = j
        BY <2>1
    <3> DEFINE i == j + 1
    <3>2. /\ d[i] \in Contexts /\ us[n + i] = [to |-> k, as |-> meaning(a[i].kind, v)]
          /\ Says(a[i], v, d[i - 1], d[i], k, g)
      <4> HIDE DEF j
      <4> QED BY <2>2, <2>3, Zenon
    <3>3. a[i] = l /\ i - 1 = j
        BY <2>1, <3>1
    <3> HIDE DEF i
    <3> QED
        BY <3>2, <3>3, Zenon DEF i
  <2>7. Carries(r, d[j], d[j + 1], mm, g)
      BY <2>6 DEF Says
  <2>8. q \in Seq(Byte)
      BY SendEquations
  <2>9. sent(dn, a, v) = sendStep(q, l, v)
      BY SendEquations DEF a
  <2>10. r \in Seq(LineChars) /\ sendStep(q, l, v) = q \o e
      BY <2>8, SendStepType
  <2>11. e \in Seq(Byte)
      BY <2>10, LineIsText, EndChars, ConcatProperties
  <2>12. n + j \in Nat /\ m <= n + j /\ (n + j) + 1 = n + (j + 1)
      BY <2>1
  <2> HIDE DEF q, e, r
  <2>13. cb \o q \in Seq(Byte) /\ cb \o (q \o e) = (cb \o q) \o e
    <3>1. Joins(cb, q, e)
        BY <2>8, <2>11, Bytes
    <3> QED
        BY <3>1 DEF Joins
  <2> DEFINE w == cb \o q
             nn == n + j
  <2>14. Carries(r, d[j], d[j + 1], us[nn + 1], g)
      BY <2>7, <2>12
  <2>15. nn \in Nat /\ m <= nn /\ w \in Seq(Byte) /\ Fed(m, nn, w, x, d[j], us, g)
      BY <2>5, <2>12, <2>13
  <2> HIDE DEF nn, w, j, mm
  <2>16. Fed(m, nn + 1, w \o (r \o CRLF), x, d[j + 1], us, g)
      BY <2>6, <2>10, <2>14, <2>15, FeedOne
  <2> QED
      BY <2>1, <2>9, <2>10, <2>12, <2>13, <2>16 DEF e, nn, w
<1> HIDE DEF S
<1>3. Seq(AnswerLines) \subseteq S
    BY <1>1, <1>2, TextInduction
<1> QED
    BY <1>3 DEF S

\* The places in us behind n are for the lines ls.
Noted(us, n, ls, v, k) ==
    \A i \in 1..Len(ls) : us[n + i] = [to |-> k, as |-> meaning(ls[i].kind, v)]

Answered(ls, v, n, us, k, g) ==
    ls \in Seq(AnswerLines) /\ \E d : Chain(ls, v, d, n, us, k, g) /\ d[Len(ls)] = << >>

LEMMA SimpleChain ==
    ASSUME NEW v, GoodValues(v), NEW ls \in Seq(SimpleLines), NEW n, NEW us, NEW k, NEW g,
           Noted(us, n, ls, v, k)
    PROVE  Answered(ls, v, n, us, k, g)
<1> DEFINE d == [i \in 0..Len(ls) |-> << >>]
<1>1. Len(ls) \in Nat /\ \A i \in 1..Len(ls) : ls[i] \in SimpleLines
    OBVIOUS
<1>2. ls \in Seq(AnswerLines)
  <2>1. SimpleLines \subseteq AnswerLines
      BY DEF AnswerLines
  <2> QED
      BY <2>1
<1>3. d[0] = << >> /\ d[Len(ls)] = << >> /\ \A i \in 1..Len(ls) : d[i] = << >> /\ d[i - 1] = << >>
    BY <1>1
<1> HIDE DEF d
<1>4. ASSUME NEW i \in 1..Len(ls) PROVE Says(ls[i], v, << >>, << >>, k, g)
  <2>1. PICK kind \in SimpleKinds : ls[i] = one(kind)
      BY <1>1 DEF SimpleLines
  <2>2. \A p : Shown(kind, v, << >>, p)
      BY SimpleIsShown
  <2> QED
      BY <2>1, <2>2, ShownSays
<1>5. Chain(ls, v, d, n, us, k, g)
    BY <1>3, <1>4 DEF Chain, Contexts, Noted
<1> QED
    BY <1>2, <1>3, <1>5 DEF Answered

LEMMA UnknownChain ==
    ASSUME NEW v, GoodValues(v), NEW n, NEW us, NEW g, NEW k \in 1..Len(g),
           g[k][1] = << "/user" >>, Noted(us, n, << one("UNKNOWN") >>, v, k)
    PROVE  Answered(<< one("UNKNOWN") >>, v, n, us, k, g)
<1> DEFINE l == one("UNKNOWN")
           ls == << l >>
           d == [i \in 0..1 |-> << >>]
<1>1. l \in AnswerLines
    BY DEF AnswerLines
<1>2. Says(l, v, << >>, << >>, k, g)
    BY UnknownSays
<1> HIDE DEF l
<1>3. ls \in Seq(AnswerLines) /\ Len(ls) = 1 /\ ls[1] = l
    BY <1>1
<1>4. d[0] = << >> /\ d[1] = << >> /\ d[Len(ls)] = << >> /\ 1 - 1 = 0
    BY <1>3
<1>5. \A i \in 1..Len(ls) : i = 1
    BY <1>3
<1> HIDE DEF d, ls
<1>6. Noted(us, n, ls, v, k)
    BY DEF ls, l
<1>7. ASSUME NEW i \in 1..Len(ls) PROVE d[i] \in Contexts /\ Says(ls[i], v, d[i - 1], d[i], k, g)
    BY <1>2, <1>3, <1>4, <1>5 DEF Contexts
<1>8. Chain(ls, v, d, n, us, k, g)
    BY <1>4, <1>6, <1>7 DEF Chain, Noted
<1>9. Answered(ls, v, n, us, k, g)
    BY <1>3, <1>4, <1>8 DEF Answered
<1> QED
    BY <1>9 DEF ls, l

LEMMA ListChain ==
    ASSUME NEW v, GoodValues(v), NEW l \in Lists, NEW n, NEW us, NEW g, NEW k, NEW ls,
           ls = << begin(l), end(l) >> \/ ls = << begin(l), one(l), end(l) >>,
           Noted(us, n, ls, v, k)
    PROVE  Answered(ls, v, n, us, k, g)
<1> DEFINE a == begin(l)
           b == one(l)
           c == end(l)
           x == << l >>
<1>1. a \in AnswerLines /\ b \in AnswerLines /\ c \in AnswerLines
    BY DEF AnswerLines
<1>2. Says(a, v, << >>, x, k, g) /\ Says(c, v, x, << >>, k, g)
    BY FrameSays
<1>3. Says(b, v, x, x, k, g)
  <2>1. \A p : Shown(l, v, x, p)
      BY ItemIsShown
  <2> QED
      BY <2>1, ShownSays
<1>4. x \in Contexts /\ << >> \in Contexts
    BY DEF Contexts
<1> HIDE DEF a, b, c, x
<1>5. CASE ls = << a, c >>
  <2> DEFINE d == [i \in 0..2 |-> IF i = 1 THEN x ELSE << >>]
  <2>1. ls \in Seq(AnswerLines) /\ Len(ls) = 2 /\ ls[1] = a /\ ls[2] = c
      BY <1>1, <1>5
  <2>2. d[0] = << >> /\ d[1] = x /\ d[2] = << >> /\ 1 - 1 = 0 /\ 2 - 1 = 1
      OBVIOUS
  <2> HIDE DEF d
  <2>3. \A i \in 1..Len(ls) : i \in {1, 2}
      BY <2>1
  <2>4. ASSUME NEW i \in 1..Len(ls) PROVE d[i] \in Contexts /\ Says(ls[i], v, d[i - 1], d[i], k, g)
    <3>1. CASE i = 1
        BY <1>2, <1>4, <2>1, <2>2, <3>1
    <3>2. CASE i = 2
        BY <1>2, <1>4, <2>1, <2>2, <3>2
    <3> QED
        BY <2>3, <3>1, <3>2
  <2>5. Chain(ls, v, d, n, us, k, g)
      BY <2>2, <2>4 DEF Chain, Noted
  <2> QED
      BY <2>1, <2>2, <2>5 DEF Answered
<1>6. CASE ls = << a, b, c >>
  <2> DEFINE d == [i \in 0..3 |-> IF i \in {1, 2} THEN x ELSE << >>]
  <2>1. ls \in Seq(AnswerLines) /\ Len(ls) = 3 /\ ls[1] = a /\ ls[2] = b /\ ls[3] = c
      BY <1>1, <1>6
  <2>2. d[0] = << >> /\ d[1] = x /\ d[2] = x /\ d[3] = << >> /\ 1 - 1 = 0 /\ 2 - 1 = 1 /\ 3 - 1 = 2
      OBVIOUS
  <2> HIDE DEF d
  <2>3. \A i \in 1..Len(ls) : i \in {1, 2, 3}
      BY <2>1
  <2>4. ASSUME NEW i \in 1..Len(ls) PROVE d[i] \in Contexts /\ Says(ls[i], v, d[i - 1], d[i], k, g)
    <3>1. CASE i = 1
        BY <1>2, <1>4, <2>1, <2>2, <3>1
    <3>2. CASE i = 2
        BY <1>3, <1>4, <2>1, <2>2, <3>2
    <3>3. CASE i = 3
        BY <1>2, <1>4, <2>1, <2>2, <3>3
    <3> QED
        BY <2>3, <3>1, <3>2, <3>3
  <2>5. Chain(ls, v, d, n, us, k, g)
      BY <2>2, <2>4 DEF Chain, Noted
  <2> QED
      BY <2>1, <2>2, <2>5 DEF Answered
<1> QED
    BY <1>5, <1>6 DEF a, b, c

LEMMA ProperChain ==
    ASSUME NEW v, GoodValues(v), NEW ls, NEW command, ProperLines(ls, command), NEW n, NEW us,
           NEW g, NEW k \in 1..Len(g), g[k][1] = command, Noted(us, n, ls, v, k)
    PROVE  Answered(ls, v, n, us, k, g)
<1>1. CASE ls \in Seq(SimpleLines)
    BY <1>1, SimpleChain
<1>2. CASE \E l \in Lists : ls = << begin(l), end(l) >> \/ ls = << begin(l), one(l), end(l) >>
    BY <1>2, ListChain
<1>3. CASE ls = << one("UNKNOWN") >> /\ command = << "/user" >>
    BY <1>3, UnknownChain
<1> QED
    BY <1>1, <1>2, <1>3 DEF ProperLines

-------------------------------------------------------------------------------
(* What the client displays is what the server meant *)

IsSeq(s) == \E S : s \in Seq(S)

LEMMA SeqMore ==
    ASSUME NEW s, NEW t, IsSeq(s), IsSeq(t)
    PROVE  /\ IsSeq(s \o t) /\ Len(s) \in Nat /\ Len(t) \in Nat /\ Len(s \o t) = Len(s) + Len(t)
           /\ \A i \in 1..Len(s) : (s \o t)[i] = s[i]
           /\ \A i \in 1..Len(t) : (s \o t)[Len(s) + i] = t[i]
<1>1. PICK A : s \in Seq(A)
    BY DEF IsSeq
<1>2. PICK B : t \in Seq(B)
    BY DEF IsSeq
<1> DEFINE C == A \cup B
<1>3. s \in Seq(C) /\ t \in Seq(C)
    BY <1>1, <1>2
<1> HIDE DEF C
<1>4. /\ s \o t \in Seq(C) /\ Len(s \o t) = Len(s) + Len(t)
      /\ \A i \in 1..Len(s) : (s \o t)[i] = s[i]
      /\ \A i \in 1..Len(t) : (s \o t)[Len(s) + i] = t[i]
    BY <1>3, Concat
<1>5. Len(s) \in Nat /\ Len(t) \in Nat
    BY <1>3
<1> QED
    BY <1>4, <1>5 DEF IsSeq

LEMMA SeqAppend ==
    ASSUME NEW s, NEW a, IsSeq(s)
    PROVE  /\ IsSeq(Append(s, a)) /\ Len(s) \in Nat /\ Len(Append(s, a)) = Len(s) + 1
           /\ Append(s, a)[Len(s) + 1] = a
           /\ \A i \in 1..Len(s) : Append(s, a)[i] = s[i]
<1>1. PICK A : s \in Seq(A)
    BY DEF IsSeq
<1> DEFINE C == A \cup {a}
<1>2. s \in Seq(C) /\ a \in C
    BY <1>1
<1> HIDE DEF C
<1>3. /\ Append(s, a) \in Seq(C) /\ Len(Append(s, a)) = Len(s) + 1
      /\ Append(s, a)[Len(s) + 1] = a
      /\ \A i \in 1..Len(s) : Append(s, a)[i] = s[i]
    BY <1>2, Appended
<1>4. Len(s) \in Nat
    BY <1>2
<1> QED
    BY <1>3, <1>4 DEF IsSeq

\* The display number n is right, or it is that of the answer to /user that is lost.
RightlyShown(sh, ms, n, g, typedLines) ==
    \/ sh[n] = escaped(ms[n].as)
    \/ /\ sh[n] = << >> /\ ms[n].to \in 1..Len(g) /\ typedLines > ms[n].to
       /\ g[ms[n].to][1] = << "/user" >>

\* The inductive invariant of the direction to the client, on top of UpInv:
\* the bytes that the client has not cut into lines are those of the lines that
\* it has not routed, and each of them carries what it is meant for.
DownInv ==
    /\ left \in BOOLEAN /\ aborted \in BOOLEAN /\ session \in BOOLEAN
    /\ pending \in {<< >>} \cup {s.name : s \in schemas}
    /\ typed # << >> => pending = typed[Len(typed)].args[1]
    /\ texts \in TextRecords
    /\ cbuf \in Seq(Byte) /\ down \in Seq(Byte)
    /\ listCtx \in Contexts
    /\ IsSeq(meant) /\ IsSeq(shown)
    /\ Len(shown) <= Len(meant)
    /\ \A n \in 1..Len(shown) : RightlyShown(shown, meant, n, got, Len(typed))
    /\ Fed(Len(shown), Len(meant), cbuf \o down, listCtx, << >>, meant, got)

LEMMA DownInit == WireInit => DownInv
<1> SUFFICES ASSUME WireInit PROVE DownInv
    OBVIOUS
<1>1. /\ left = FALSE /\ aborted = FALSE /\ session \in BOOLEAN /\ pending = << >>
      /\ listCtx = << >> /\ cbuf = << >> /\ down = << >> /\ typed = << >> /\ meant = << >>
      /\ shown = << >>
      /\ texts = [name |-> << "a" >>, description |-> << "a" >>, body |-> << "a" >>]
    BY DEF WireInit
<1>2. texts \in TextRecords
  <2>1. "a" \in Words
      BY DEF Words
  <2>2. << "a" >> \in Texts
      BY <2>1, WordIsText
  <2> QED
      BY <1>1, <2>2 DEF TextRecords
<1>3. Len(shown) = 0 /\ Len(meant) = 0 /\ cbuf \o down = << >> /\ << >> \in Seq(Byte)
    BY <1>1
<1>4. << >> \in Contexts
    BY DEF Contexts
<1> DEFINE f == [i \in 0..0 |-> << >>]
<1>5. Feed(f, f, 0, 0, << >>, << >>, << >>, meant, got)
    BY <1>3, <1>4 DEF Feed
<1>6. Fed(Len(shown), Len(meant), cbuf \o down, listCtx, << >>, meant, got)
    BY <1>1, <1>3, <1>5 DEF Fed
<1>7. IsSeq(meant) /\ IsSeq(shown)
  <2>1. << >> \in Seq({})
      OBVIOUS
  <2> QED
      BY <1>1, <2>1 DEF IsSeq
<1>8. cbuf \in Seq(Byte) /\ down \in Seq(Byte)
    BY <1>1, <1>3
<1>9. left \in BOOLEAN /\ aborted \in BOOLEAN /\ session \in BOOLEAN
    BY <1>1
<1>10. pending \in {<< >>} \cup {s.name : s \in schemas} /\ ~ (typed # << >>)
       /\ listCtx \in Contexts
    BY <1>1, <1>4
<1>11. Len(shown) <= Len(meant)
       /\ \A n \in 1..Len(shown) : RightlyShown(shown, meant, n, got, Len(typed))
    BY <1>3
<1> QED
    BY <1>2, <1>6, <1>7, <1>8, <1>9, <1>10, <1>11, Zenon DEF DownInv

LEMMA ShownStays ==
    ASSUME NEW sh, NEW sh2, NEW ms, NEW us, NEW n, NEW g, NEW h, NEW j \in Nat, NEW k \in Nat,
           RightlyShown(sh, ms, n, g, j), Grows(g, h), j <= k, us[n] = ms[n], sh2[n] = sh[n]
    PROVE  RightlyShown(sh2, us, n, h, k)
<1>1. CASE sh[n] = escaped(ms[n].as)
    BY <1>1 DEF RightlyShown
<1>2. CASE sh[n] # escaped(ms[n].as)
  <2> DEFINE i == ms[n].to
  <2>1. sh[n] = << >> /\ i \in 1..Len(g) /\ j > i /\ g[i][1] = << "/user" >>
      BY <1>2 DEF RightlyShown
  <2>2. i \in 1..Len(h) /\ h[i] = g[i] /\ k > i
      BY <2>1 DEF Grows
  <2> QED
      BY <2>1, <2>2 DEF RightlyShown
<1> QED
    BY <1>1, <1>2

LEMMA DownType ==
    ASSUME UpInv, DownInv, NEW l \in Accepted, Type(l)
    PROVE  DownInv'
<1>1. /\ left' = left /\ aborted' = aborted /\ session' = session /\ texts' = texts
      /\ cbuf' = cbuf /\ down' = down /\ listCtx' = listCtx /\ meant' = meant /\ shown' = shown
      /\ got' = got /\ pending' = l.as.command
    BY DEF Type, serverVars
<1> DEFINE args == << l.as.command >> \o l.as.args
           t == [line |-> l.line, args |-> args]
           j == Len(typed)
<1>2. typed' = Append(typed, t)
    BY DEF Type
<1>3. Checked(t) /\ args[1] = l.as.command /\ l.as.command \in {s.name : s \in schemas}
    BY AcceptedIs
<1>4. typed \in Seq(Sent) /\ got \in Seq(Args)
    BY DEF UpInv
<1>5. t \in Sent /\ t.args = args
    BY <1>3 DEF Checked
<1> HIDE DEF t, args
<1>6. Len(typed') = j + 1 /\ typed'[j + 1] = t /\ j \in Nat
    BY <1>2, <1>4, <1>5, Appended
<1>7. typed'[Len(typed')].args[1] = pending'
    BY <1>1, <1>3, <1>5, <1>6
<1>8. pending' \in {<< >>} \cup {s.name : s \in schemas}
    BY <1>1, <1>3
<1>9. Grows(got, got)
    BY <1>4 DEF Grows
<1>10. \A n \in 1..Len(shown) : RightlyShown(shown, meant, n, got, Len(typed'))
  <2>1. \A n \in 1..Len(shown) : RightlyShown(shown, meant, n, got, j)
      BY DEF DownInv
  <2>2. j \in Nat /\ j + 1 \in Nat /\ j <= j + 1
      BY <1>6
  <2> DEFINE k == j + 1
  <2>3. k \in Nat /\ j <= k /\ j \in Nat /\ Len(typed') = k
      BY <1>6, <2>2
  <2> HIDE DEF j, k
  <2>4. \A n \in 1..Len(shown) : RightlyShown(shown, meant, n, got, k)
      BY <1>9, <2>1, <2>3, ShownStays
  <2> QED
      BY <2>3, <2>4
<1>11. /\ left \in BOOLEAN /\ aborted \in BOOLEAN /\ session \in BOOLEAN
       /\ texts \in TextRecords /\ cbuf \in Seq(Byte) /\ down \in Seq(Byte) /\ listCtx \in Contexts
       /\ IsSeq(meant) /\ IsSeq(shown) /\ Len(shown) <= Len(meant)
       /\ Fed(Len(shown), Len(meant), cbuf \o down, listCtx, << >>, meant, got)
    BY Zenon DEF DownInv
<1> QED
    BY <1>1, <1>7, <1>8, <1>10, <1>11, Zenon DEF DownInv

LEMMA DownRead ==
    ASSUME UpInv, DownInv, ClientRead
    PROVE  DownInv'
<1>1. PICK n \in ReadSizes(down) : /\ cbuf' = cbuf \o SubSeq(down, 1, n)
                                   /\ down' = SubSeq(down, n + 1, Len(down))
    BY DEF ClientRead
<1>2. /\ left' = left /\ aborted' = aborted /\ session' = session /\ texts' = texts
      /\ listCtx' = listCtx /\ meant' = meant /\ shown' = shown /\ got' = got
      /\ pending' = pending /\ typed' = typed
    BY DEF ClientRead, serverVars
<1>3. cbuf \in Seq(Byte) /\ down \in Seq(Byte)
    BY DEF DownInv
<1> DEFINE x == SubSeq(down, 1, n)
           y == SubSeq(down, n + 1, Len(down))
<1>4. n \in 0..Len(down)
    BY <1>3 DEF ReadSizes
<1>5. x \in Seq(Byte) /\ y \in Seq(Byte) /\ down = x \o y
    BY <1>3, <1>4, Cut
<1> HIDE DEF x, y
<1>6. cbuf \o (x \o y) = (cbuf \o x) \o y /\ cbuf \o x \in Seq(Byte)
  <2>1. Joins(cbuf, x, y)
      BY <1>3, <1>5, Bytes
  <2> QED
      BY <2>1 DEF Joins
<1>7. cbuf' \o down' = cbuf \o down /\ cbuf' \in Seq(Byte) /\ down' \in Seq(Byte)
    BY <1>1, <1>5, <1>6 DEF x, y
<1> QED
    BY <1>2, <1>7 DEF DownInv

\* The lines of an answer are put into the write buffer.
LEMMA DownSend ==
    ASSUME DownInv, NEW ls \in Seq(AnswerLines), NEW v, GoodValues(v), NEW k, send(ls, v, k),
           NEW h, Grows(got, h),
           \A n, us : Noted(us, n, ls, v, k) => Answered(ls, v, n, us, k, h)
    PROVE  /\ down' \in Seq(Byte) /\ IsSeq(meant')
           /\ Len(meant) \in Nat /\ Len(meant') \in Nat /\ Len(meant) <= Len(meant')
           /\ \A i \in 1..Len(meant) : meant'[i] = meant[i]
           /\ Fed(Len(shown), Len(meant'), cbuf \o down', listCtx, << >>, meant', h)
<1> DEFINE new == [i \in DOMAIN ls |-> [to |-> k, as |-> meaning(ls[i].kind, v)]]
           us == meant'
           n == Len(meant)
           m == Len(shown)
<1>1. down' = sent(down, ls, v)
    BY DEF send, sent, sendStep
<1>2. meant' = meant \o new
    BY DEF send
<1>3. new \in Seq({new[i] : i \in 1..Len(ls)}) /\ Len(new) = Len(ls)
      /\ \A i \in 1..Len(ls) : new[i] = [to |-> k, as |-> meaning(ls[i].kind, v)]
  <2>1. DOMAIN ls = 1..Len(ls) /\ Len(ls) \in Nat
      OBVIOUS
  <2> QED
      BY <2>1
<1>4. IsSeq(new)
    BY <1>3 DEF IsSeq
<1> HIDE DEF new
<1>5. /\ IsSeq(meant) /\ IsSeq(shown) /\ m <= n /\ cbuf \in Seq(Byte) /\ down \in Seq(Byte)
      /\ Fed(m, n, cbuf \o down, listCtx, << >>, meant, got)
    BY Zenon DEF DownInv
<1>6. /\ IsSeq(us) /\ n \in Nat /\ Len(us) = n + Len(new)
      /\ \A i \in 1..n : us[i] = meant[i]
      /\ \A i \in 1..Len(new) : us[n + i] = new[i]
  <2> HIDE DEF n
  <2> QED BY <1>2, <1>4, <1>5, SeqMore DEF n
<1>7. m \in Nat /\ Len(ls) \in Nat
    BY <1>5 DEF IsSeq
<1>8. Noted(us, n, ls, v, k)
    BY <1>3, <1>6 DEF Noted
<1> HIDE DEF us, n, m
<1>9. PICK d : Chain(ls, v, d, n, us, k, h) /\ d[Len(ls)] = << >>
    BY <1>8 DEF Answered
<1>10. Fed(m, n, cbuf \o down, listCtx, << >>, us, h)
    BY <1>5, <1>6, <1>7, FedGrows
<1>11. Fed(m, n + Len(ls), cbuf \o sent(down, ls, v), listCtx, d[Len(ls)], us, h)
    BY <1>5, <1>6, <1>7, <1>9, <1>10, FeedSend
<1>12. sent(down, ls, v) \in Seq(Byte)
    BY <1>5, SendEquations
<1>13. Len(us) = n + Len(ls) /\ Len(us) \in Nat /\ n <= Len(us)
    BY <1>3, <1>6, <1>7
<1> QED
    BY <1>1, <1>6, <1>9, <1>11, <1>12, <1>13 DEF us, n, m

\* The rest of DownInv when the server has sent something.
LEMMA DownSent ==
    ASSUME UpInv, DownInv, left' = left, pending' = pending, listCtx' = listCtx, cbuf' = cbuf,
           shown' = shown, typed' = typed, aborted' \in BOOLEAN, session' \in BOOLEAN,
           texts' \in TextRecords, down' \in Seq(Byte), IsSeq(meant'),
           Len(meant) \in Nat, Len(meant') \in Nat, Len(meant) <= Len(meant'),
           \A i \in 1..Len(meant) : meant'[i] = meant[i], Grows(got, got'),
           Fed(Len(shown), Len(meant'), cbuf \o down', listCtx, << >>, meant', got')
    PROVE  DownInv'
<1>1. /\ left \in BOOLEAN /\ pending \in {<< >>} \cup {s.name : s \in schemas}
      /\ (typed # << >> => pending = typed[Len(typed)].args[1])
      /\ cbuf \in Seq(Byte) /\ listCtx \in Contexts /\ IsSeq(shown) /\ Len(shown) <= Len(meant)
      /\ \A n \in 1..Len(shown) : RightlyShown(shown, meant, n, got, Len(typed))
    BY Zenon DEF DownInv
<1>2. Len(shown) \in Nat
    BY <1>1 DEF IsSeq
<1>3. Len(typed) \in Nat /\ Len(typed) <= Len(typed)
    BY DEF UpInv
<1>4. \A n \in 1..Len(shown) : n \in 1..Len(meant)
    BY <1>1, <1>2
<1> DEFINE j == Len(typed)
           us == meant'
           h == got'
<1> HIDE DEF j, us, h
<1>5. ASSUME NEW n \in 1..Len(shown) PROVE RightlyShown(shown, us, n, h, j)
  <2>1. us[n] = meant[n] /\ Grows(got, h) /\ j \in Nat /\ j <= j
      BY <1>3, <1>4 DEF us, h, j
  <2>2. RightlyShown(shown, meant, n, got, j)
      BY <1>1 DEF j
  <2> QED
      BY <2>1, <2>2, ShownStays
<1>6. \A n \in 1..Len(shown) : RightlyShown(shown, meant', n, got', Len(typed))
    BY <1>5 DEF us, h, j
<1>7. Len(shown) <= Len(meant')
    BY <1>1, <1>2
<1> QED
    BY <1>1, <1>6, <1>7, Zenon DEF DownInv

LEMMA ProperAre ==
    ASSUME NEW ls, NEW command, ProperLines(ls, command)
    PROVE  ls \in Seq(AnswerLines)
<1>1. CASE ls \in Seq(SimpleLines)
  <2>1. SimpleLines \subseteq AnswerLines
      BY DEF AnswerLines
  <2> QED
      BY <1>1, <2>1
<1>2. ASSUME NEW l \in Lists, ls = << begin(l), end(l) >> \/ ls = << begin(l), one(l), end(l) >>
      PROVE  ls \in Seq(AnswerLines)
  <2> DEFINE a == begin(l)
             b == one(l)
             c == end(l)
  <2>1. a \in AnswerLines /\ b \in AnswerLines /\ c \in AnswerLines
      BY DEF AnswerLines
  <2>2. ls = << a, c >> \/ ls = << a, b, c >>
      BY <1>2
  <2> HIDE DEF a, b, c
  <2>3. << a, c >> \in Seq(AnswerLines) /\ << a, b, c >> \in Seq(AnswerLines)
      BY <2>1
  <2> QED
      BY <2>2, <2>3
<1>3. CASE ls = << one("UNKNOWN") >>
  <2>1. one("UNKNOWN") \in AnswerLines
      BY DEF AnswerLines
  <2> QED
      BY <1>3, <2>1
<1> QED
    BY <1>1, <1>2, <1>3 DEF ProperLines

LEMMA DownEvent ==
    ASSUME UpInv, DownInv, NEW kind \in Events, ServerEvent(kind)
    PROVE  DownInv'
<1> DEFINE ls == << one(kind) >>
           v == values(texts, << << >> >>)
<1>1. /\ left' = left /\ pending' = pending /\ listCtx' = listCtx /\ cbuf' = cbuf /\ shown' = shown
      /\ typed' = typed /\ aborted' = aborted /\ session' = session /\ texts' = texts /\ got' = got
      /\ send(ls, v, 0)
    BY DEF ServerEvent, clientVars
<1>2. aborted \in BOOLEAN /\ session \in BOOLEAN /\ texts \in TextRecords
    BY DEF DownInv
<1>3. kind \in SimpleKinds
    BY DEF Events, SimpleKinds
<1>4. ls \in Seq(SimpleLines)
    BY <1>3 DEF SimpleLines
<1>5. ls \in Seq(AnswerLines)
  <2>1. SimpleLines \subseteq AnswerLines
      BY DEF AnswerLines
  <2> QED
      BY <1>4, <2>1
<1>6. GoodValues(v)
  <2>1. Last(<< << >> >>) = << >>
      BY DEF Last
  <2>2. << >> \in Texts
      BY DEF Texts, Arg, Tidy
  <2> QED
      BY <1>2, <2>1, <2>2, ValuesAreGood
<1>7. Grows(got, got)
    BY DEF Grows, UpInv
<1> HIDE DEF ls, v
<1>8. \A n, us : Noted(us, n, ls, v, 0) => Answered(ls, v, n, us, 0, got)
    BY <1>4, <1>6, SimpleChain
<1>9. /\ down' \in Seq(Byte) /\ IsSeq(meant')
      /\ Len(meant) \in Nat /\ Len(meant') \in Nat /\ Len(meant) <= Len(meant')
      /\ \A i \in 1..Len(meant) : meant'[i] = meant[i]
      /\ Fed(Len(shown), Len(meant'), cbuf \o down', listCtx, << >>, meant', got)
    BY <1>1, <1>5, <1>6, <1>7, <1>8, DownSend
<1> QED
    BY <1>1, <1>2, <1>7, <1>9, DownSent

LEMMA DownParse ==
    ASSUME UpInv, DownInv, parseCommand
    PROVE  DownInv'
<1> DEFINE args == parseArgs(firstLine(rbuf))
           k == Len(got) + 1
<1>1. /\ left' = left /\ pending' = pending /\ listCtx' = listCtx /\ cbuf' = cbuf /\ shown' = shown
      /\ typed' = typed
    BY DEF parseCommand, clientVars
<1>2. aborted \in BOOLEAN /\ session \in BOOLEAN /\ texts \in TextRecords
    BY DEF DownInv
<1>3. Len(got) < Len(typed) /\ args = typed[k].args /\ firstLine(rbuf) \in Seq(LineChars)
    BY ParsedIsNext
<1>4. got \in Seq(Args) /\ typed \in Seq(Sent) /\ \A n \in 1..Len(typed) : Checked(typed[n])
    BY DEF UpInv
<1>5. k \in 1..Len(typed) /\ Len(got) \in Nat
    BY <1>3, <1>4
<1>6. Fits(args)
    BY <1>3, <1>4, <1>5 DEF Checked
<1>7. args \in Args /\ args # << >>
    BY <1>6 DEF Fits
<1>8. \A i \in 1..Len(args) : args[i] \in Texts
  <2>1. \A i \in 1..Len(args) : Tidy(args[i])
      BY <1>3, ArgsAreTidy
  <2>2. \A i \in 1..Len(args) : args[i] \in Arg(LineChars)
      BY <1>7 DEF Args
  <2> QED
      BY <2>1, <2>2 DEF Texts
<1>9. \/ handleCommand(args) /\ aborted' = aborted
      \/ /\ aborted' = TRUE /\ session' = session /\ texts' = texts /\ got' = got
         /\ meant' = meant /\ down' = down
    BY <1>7 DEF parseCommand
<1> HIDE DEF args
<1>10. CASE /\ aborted' = TRUE /\ session' = session /\ texts' = texts /\ got' = got
            /\ meant' = meant /\ down' = down
  <2>1. aborted' \in BOOLEAN
      BY <1>10
  <2>2. /\ left \in BOOLEAN /\ session \in BOOLEAN
        /\ pending \in {<< >>} \cup {s.name : s \in schemas}
        /\ (typed # << >> => pending = typed[Len(typed)].args[1])
        /\ texts \in TextRecords
        /\ cbuf \in Seq(Byte) /\ down \in Seq(Byte)
        /\ listCtx \in Contexts
        /\ IsSeq(meant) /\ IsSeq(shown)
        /\ Len(shown) <= Len(meant)
        /\ (\A n \in 1..Len(shown) : RightlyShown(shown, meant, n, got, Len(typed)))
        /\ Fed(Len(shown), Len(meant), cbuf \o down, listCtx, << >>, meant, got)
      BY Zenon DEF DownInv
  <2> QED
      BY <1>1, <1>10, <2>1, <2>2, Zenon DEF DownInv
<1>11. CASE handleCommand(args) /\ aborted' = aborted
  <2>1. got' = Append(got, args)
      BY <1>11 DEF handleCommand
  <2>2. PICK o \in (IF args[1] \in {<< c >> : c \in commands} THEN execute(args)
                    ELSE {outcome(<< >>)}) :
           send(o.lines, values(o.texts, args), Len(got')) /\ texts' = o.texts
           /\ session' = o.session
      BY <1>11 DEF handleCommand
  <2>3. Proper(o, args[1])
    <3>1. CASE o \in execute(args)
        BY <1>2, <1>6, <1>8, <3>1, ExecuteProper
    <3>2. CASE o = outcome(<< >>)
      <4>1. o.lines = << >> /\ o.texts = texts /\ o.session = session
          BY <3>2 DEF outcome
      <4>2. << >> \in Seq(SimpleLines)
          OBVIOUS
      <4> QED
          BY <1>2, <4>1, <4>2, SimpleProper
    <3> QED
        BY <2>2, <3>1, <3>2
  <2> DEFINE ls == o.lines
             v == values(o.texts, args)
             h == got'
  <2>4. o.texts \in TextRecords /\ o.session \in BOOLEAN /\ ProperLines(ls, args[1])
      BY <2>3 DEF Proper
  <2>5. ls \in Seq(AnswerLines)
      BY <2>4, ProperAre
  <2>6. Last(args) \in Texts
    <3>1. Len(args) \in 1..Len(args) /\ Last(args) = args[Len(args)]
        BY <1>7 DEF Args, Last
    <3> QED
        BY <1>8, <3>1
  <2>7. GoodValues(v)
      BY <2>4, <2>6, ValuesAreGood
  <2>8. Len(h) = k /\ h[k] = args /\ Grows(got, h)
    <3>1. Len(h) = Len(got) + 1 /\ h[Len(got) + 1] = args /\ \A i \in 1..Len(got) : h[i] = got[i]
        BY <1>4, <1>7, <2>1, Appended
    <3> QED
        BY <1>5, <3>1 DEF Grows
  <2>9. k \in 1..Len(h) /\ h[k][1] = args[1] /\ send(ls, v, k)
      BY <1>5, <2>2, <2>8
  <2> HIDE DEF ls, v, h, k
  <2>10. \A n, us : Noted(us, n, ls, v, k) => Answered(ls, v, n, us, k, h)
      BY <2>4, <2>7, <2>9, ProperChain
  <2>11. /\ down' \in Seq(Byte) /\ IsSeq(meant')
         /\ Len(meant) \in Nat /\ Len(meant') \in Nat /\ Len(meant) <= Len(meant')
         /\ \A i \in 1..Len(meant) : meant'[i] = meant[i]
         /\ Fed(Len(shown), Len(meant'), cbuf \o down', listCtx, << >>, meant', h)
      BY <2>5, <2>7, <2>8, <2>9, <2>10, DownSend
  <2>12. aborted' \in BOOLEAN /\ session' \in BOOLEAN /\ texts' \in TextRecords /\ Grows(got, got')
      BY <1>2, <1>11, <2>2, <2>4, <2>8 DEF h
  <2> QED
      BY <1>1, <2>11, <2>12, DownSent DEF h
<1> QED
    BY <1>9, <1>10, <1>11

LEMMA DownRoute ==
    ASSUME UpInv, DownInv, routeFrame
    PROVE  DownInv'
<1> DEFINE m == Len(shown)
           n == Len(meant)
           j == Len(typed)
           mm == meant[m + 1]
<1>1. /\ aborted \in BOOLEAN /\ session \in BOOLEAN
      /\ pending \in {<< >>} \cup {s.name : s \in schemas}
      /\ (typed # << >> => pending = typed[Len(typed)].args[1])
      /\ texts \in TextRecords
      /\ cbuf \in Seq(Byte) /\ down \in Seq(Byte)
      /\ IsSeq(meant) /\ IsSeq(shown) /\ m <= n
      /\ (\A i \in 1..m : RightlyShown(shown, meant, i, got, j))
      /\ Fed(m, n, cbuf \o down, listCtx, << >>, meant, got)
    BY Zenon DEF DownInv
<1>2. m \in Nat /\ n \in Nat
    BY <1>1 DEF IsSeq
<1>3. /\ aborted' = aborted /\ session' = session /\ texts' = texts /\ got' = got /\ meant' = meant
      /\ pending' = pending /\ down' = down /\ typed' = typed
      /\ hasLine(cbuf) /\ cbuf' = afterLine(cbuf)
    BY DEF routeFrame, serverVars
<1>4. PICK t \in tokensOf(firstLine(cbuf)) :
         /\ listCtx' = IF /\ (IF t = << >> THEN << >> ELSE t[1]) = << "210-BEGIN" >>
                          /\ Len(t) >= 2
                       THEN t[2]
                       ELSE IF (IF t = << >> THEN << >> ELSE t[1]) = << "210-END" >> THEN << >>
                       ELSE listCtx
         /\ left' \in BOOLEAN
         /\ shown' = Append(shown, displayed(t, listCtx, pending))
    BY DEF routeFrame
<1>5. /\ m < n /\ cbuf' \in Seq(Byte)
      /\ \E y \in Contexts : /\ Carries(firstLine(cbuf), listCtx, y, mm, got)
                             /\ Fed(m + 1, n, cbuf' \o down, y, << >>, meant, got)
  <2> HIDE DEF m, n
  <2> QED
      BY <1>1, <1>2, <1>3, FeedCut
<1>6. PICK y \in Contexts : /\ Carries(firstLine(cbuf), listCtx, y, mm, got)
                            /\ Fed(m + 1, n, cbuf' \o down, y, << >>, meant, got)
    BY <1>5
<1>7. PICK r : /\ Reads(firstLine(cbuf), r) /\ r # << >> /\ y = after(r, listCtx)
               /\ \A p : displayed(r, listCtx, p) = escaped(mm.as) \/ Lost(r, listCtx, p, mm, got)
    BY <1>6 DEF Carries
<1>8. t = r
  <2>1. parse(firstLine(cbuf)) = {r}
      BY <1>7, ReadsParse
  <2>2. tokensOf(firstLine(cbuf)) = {r}
      BY <2>1 DEF tokensOf
  <2> QED
      BY <1>4, <2>2
<1>9. listCtx' = y
    BY <1>4, <1>7, <1>8 DEF after
<1> DEFINE a == displayed(t, listCtx, pending)
<1>10. a = escaped(mm.as) \/ Lost(t, listCtx, pending, mm, got)
    BY <1>7, <1>8
<1>11. shown' = Append(shown, a)
    BY <1>4
<1> HIDE DEF a
<1>12. /\ IsSeq(shown') /\ Len(shown') = m + 1 /\ shown'[m + 1] = a
       /\ \A i \in 1..m : shown'[i] = shown[i]
    BY <1>1, <1>11, SeqAppend
<1>13. j \in Nat /\ Len(got) \in Nat /\ Len(got) <= j /\ typed \in Seq(Sent)
       /\ \A i \in 1..Len(got) : got[i] = typed[i].args
    BY DEF UpInv
<1>14. RightlyShown(shown', meant, m + 1, got, j)
  <2>1. CASE a = escaped(mm.as)
      BY <1>12, <2>1 DEF RightlyShown
  <2>2. CASE Lost(t, listCtx, pending, mm, got)
    <3> DEFINE i == mm.to
    <3>1. a = << >> /\ pending # << "/user" >> /\ i \in 1..Len(got) /\ got[i][1] = << "/user" >>
        BY <2>2 DEF Lost, a
    <3>2. i # j
      <4>1. SUFFICES ASSUME i = j PROVE FALSE
          OBVIOUS
      <4>2. got[j] = typed[j].args /\ got[j][1] = << "/user" >>
          BY <1>13, <3>1, <4>1
      <4>3. typed # << >>
          BY <1>13, <3>1, <4>1
      <4> QED
          BY <1>1, <3>1, <4>2, <4>3
    <3>3. j > i
        BY <1>13, <3>1, <3>2
    <3> QED
        BY <1>12, <3>1, <3>3 DEF RightlyShown
  <2> QED
      BY <1>10, <2>1, <2>2
<1>15. \A i \in 1..Len(shown') : RightlyShown(shown', meant, i, got, j)
  <2>1. \A i \in 1..m + 1 : i \in 1..m \/ i = m + 1
      BY <1>2
  <2>2. \A i \in 1..m : RightlyShown(shown', meant, i, got, j)
      BY <1>1, <1>12 DEF RightlyShown
  <2> QED
      BY <1>12, <1>14, <2>1, <2>2
<1>16. Fed(Len(shown'), Len(meant), cbuf' \o down, listCtx', << >>, meant, got)
    BY <1>6, <1>9, <1>12
<1>17. Len(shown') <= Len(meant) /\ listCtx' \in Contexts /\ left' \in BOOLEAN
    BY <1>2, <1>4, <1>5, <1>6, <1>9, <1>12
<1> QED
    BY <1>1, <1>3, <1>5, <1>12, <1>15, <1>16, <1>17, Zenon DEF DownInv

LEMMA DownNext == UpInv /\ DownInv /\ [WireNext]_wireVars => DownInv'
<1> SUFFICES ASSUME UpInv, DownInv, [WireNext]_wireVars PROVE DownInv'
    OBVIOUS
<1>1. ASSUME NEW l \in Accepted, Type(l) PROVE DownInv'
    BY <1>1, DownType
<1>2. ASSUME left' = left, aborted' = aborted, session' = session, pending' = pending,
             typed' = typed, texts' = texts, cbuf' = cbuf, down' = down, listCtx' = listCtx,
             meant' = meant, shown' = shown, got' = got
      PROVE  DownInv'
    BY <1>2 DEF DownInv
<1>3. CASE ServerRead
    BY <1>2, <1>3 DEF ServerRead, clientVars
<1>4. CASE parseCommand
    BY <1>4, DownParse
<1>5. ASSUME NEW kind \in Events, ServerEvent(kind) PROVE DownInv'
    BY <1>5, DownEvent
<1>6. CASE ClientRead
    BY <1>6, DownRead
<1>7. CASE routeFrame
    BY <1>7, DownRoute
<1>8. CASE UNCHANGED wireVars
    BY <1>2, <1>8 DEF wireVars
<1> QED
    BY <1>1, <1>3, <1>4, <1>5, <1>6, <1>7, <1>8 DEF WireNext

LEMMA DownImplies == UpInv /\ DownInv => ShownAsMeant /\ WireTypeOK
<1> SUFFICES ASSUME UpInv, DownInv PROVE ShownAsMeant /\ WireTypeOK
    OBVIOUS
<1>1. ShownAsMeant
  <2>1. IsSeq(shown) /\ Len(shown) <= Len(meant)
        /\ \A n \in 1..Len(shown) : RightlyShown(shown, meant, n, got, Len(typed))
      BY Zenon DEF DownInv
  <2>2. DOMAIN shown = 1..Len(shown)
      BY <2>1 DEF IsSeq
  <2> QED
      BY <2>1, <2>2 DEF ShownAsMeant, RightlyShown
<1>2. ASSUME NEW t \in Arg(LineChars) PROVE ToSet(t) \cap {CR, LF} = {}
  <2>1. \A i \in 1..Len(t) : t[i] \in ArgChars(LineChars)
      BY DEF Arg
  <2>2. CR \notin ArgChars(LineChars) /\ LF \notin ArgChars(LineChars)
    <3>1. CR # Blank /\ LF # Blank
        BY DEF CR, LF, Blank
    <3> QED
        BY <3>1 DEF ArgChars, Spaces
  <2>3. DOMAIN t = 1..Len(t)
      BY DEF Arg
  <2> QED
      BY <2>1, <2>2, <2>3 DEF ToSet
<1>3. \A n \in DOMAIN got : \A i \in DOMAIN got[n] : ToSet(got[n][i]) \cap {CR, LF} = {}
  <2>1. got \in Seq(Args)
      BY DEF UpInv
  <2>2. \A n \in DOMAIN got : got[n] \in Args
      BY <2>1
  <2>3. \A n \in DOMAIN got : \A i \in DOMAIN got[n] : got[n][i] \in Arg(LineChars)
      BY <2>2 DEF Args
  <2> QED
      BY <1>2, <2>3
<1>4. \A f \in DOMAIN texts : ToSet(texts[f]) \cap {CR, LF} = {}
  <2>1. texts \in TextRecords
      BY DEF DownInv
  <2>2. texts \in [name : Texts, description : Texts, body : Texts]
      BY <2>1 DEF TextRecords
  <2>3. \A f \in DOMAIN texts : texts[f] \in Texts
      BY <2>2
  <2> QED
      BY <1>2, <2>3 DEF Texts
<1>5. {left, aborted, session} \subseteq BOOLEAN
  <2>1. left \in BOOLEAN /\ aborted \in BOOLEAN /\ session \in BOOLEAN
      BY DEF DownInv
  <2> QED
      BY <2>1
<1>6. pending \in {<< >>} \cup {s.name : s \in schemas}
    BY DEF DownInv
<1>7. listCtx \in {<< >>} \cup {<< l >> : l \in DOMAIN listFormats}
  <2>1. listCtx \in Contexts
      BY DEF DownInv
  <2>2. DOMAIN listFormats = Lists
      BY FormatKinds DEF Lists
  <2> QED
      BY <2>1, <2>2 DEF Contexts
<1>8. WireTypeOK
    BY <1>3, <1>4, <1>5, <1>6, <1>7, Zenon DEF WireTypeOK
<1> QED
    BY <1>1, <1>8

\* The state of the connection stays well-formed: the list that the client has
\* open is one of the server's, the command that it remembers is one of the
\* schemas, and no argument and no stored text ever holds the end of a line
\* (routeFrame, dispatchCommandLine, parseArgs).
THEOREM WireType == WireSpec => []WireTypeOK
<1>1. WireInit => UpInv /\ DownInv
    BY UpInit, DownInit
<1>2. UpInv /\ DownInv /\ [WireNext]_wireVars => (UpInv /\ DownInv)'
    BY UpNext, DownNext
<1>3. UpInv /\ DownInv => WireTypeOK
    BY DownImplies
<1> QED
    BY <1>1, <1>2, <1>3, PTL DEF WireSpec

\* Whatever is typed, whatever the texts hold and however the bytes are cut into
\* reads, every line of the server is displayed by the function that it is meant
\* for, with each field in its place, or it is the answer to /user that is lost
\* because another command was sent since (quoteProtocolField, TokenParser::parse,
\* routeFrame and the handlers).
THEOREM AnswersShownAsMeant == WireSpec => []ShownAsMeant
<1>1. WireInit => UpInv /\ DownInv
    BY UpInit, DownInit
<1>2. UpInv /\ DownInv /\ [WireNext]_wireVars => (UpInv /\ DownInv)'
    BY UpNext, DownNext
<1>3. UpInv /\ DownInv => ShownAsMeant
    BY DownImplies
<1> QED
    BY <1>1, <1>2, <1>3, PTL DEF WireSpec
===============================================================================
