----------------------------- MODULE ClientProofs -----------------------------
(***************************************************************************)
(* Proofs about module Client, for any lines typed, any number of          *)
(* addresses, lines and events, and any cut of the stream into reads.      *)
(***************************************************************************)
EXTENDS Client, SequenceTheorems, TLAPS

\* All that the server has sent and the client has not routed, in order.
stream == rbuf \o toClient

\* The frame f leaves the list of the 210 line g open.
Opens(f, g) == f.kind \in {"BEGIN", "210"} /\ f.list = g.list

\* Every 210 line of s belongs to the list that is open where it stands; ctx
\* is the list that is open before s.
Listed(ctx, s) ==
    \A n \in 1..Len(s) :
        s[n].kind = "210" => \/ n = 1 /\ ctx = s[1].list
                             \/ n > 1 /\ Opens(s[n - 1], s[n])

\* Every 210 line of s belongs to a list that is opened in s.
SelfContained(s) ==
    \A n \in 1..Len(s) : s[n].kind = "210" => n > 1 /\ Opens(s[n - 1], s[n])

\* The answer to /login is in s.
Announced(s) == \E n \in 1..Len(s) : s[n].kind = "LOGIN"

\* Before there is a connection nothing was sent on it.
NothingBeforeConnection ==
    phase = "connecting" => addresses >= 1 /\ toServer = << >> /\ session = FALSE

\* The answer to /login is routed, or on its way.
LoginIsOnItsWay ==
    phase = "running" /\ server = "up" /\ session = TRUE => loggedIn = TRUE \/ Announced(stream)

\* The inductive invariant. That the line routed next belongs to the open list
\* needs to know it of the whole stream; that a login is noticed, where its
\* answer is while it is under way.
ClientInv ==
    /\ ClientTypeOK
    /\ Listed(listCtx, stream)
    /\ NothingBeforeConnection
    /\ LoginIsOnItsWay

-------------------------------------------------------------------------------
(* Streams of frames *)

LEMMA FrameFields ==
    ASSUME NEW k \in Kinds, NEW l \in Lists \cup {""}, NEW c \in ServerCommands \cup {""}
    PROVE  [kind |-> k, list |-> l, of |-> c] \in Frame
  BY DEF Frame

\* The list context after a frame.
contextAfter(ctx, f) ==
    CASE f.kind = "BEGIN" -> f.list [] f.kind = "END" -> "" [] OTHER -> ctx

\* Routing the first frame of a stream.
LEMMA ListedTail ==
    ASSUME NEW ctx, NEW s \in Seq(Frame), s # << >>, Listed(ctx, s)
    PROVE  Listed(contextAfter(ctx, Head(s)), Tail(s))
  <1> DEFINE t == Tail(s)
  <1>1. t \in Seq(Frame) /\ Len(t) = Len(s) - 1 /\ Len(s) \in Nat /\ Len(s) > 0
    BY HeadTailProperties
  <1>2. \A i \in 1..Len(t) : t[i] = s[i + 1]
    BY HeadTailProperties
  <1>3. Head(s) = s[1]
    OBVIOUS
  <1> HIDE DEF t
  <1> SUFFICES ASSUME NEW n \in 1..Len(t), t[n].kind = "210"
               PROVE  \/ n = 1 /\ contextAfter(ctx, Head(s)) = t[1].list
                      \/ n > 1 /\ Opens(t[n - 1], t[n])
    BY DEF Listed, t
  <1>4. n + 1 \in 1..Len(s) /\ s[n + 1] = t[n]
    BY <1>1, <1>2
  <1>5. Opens(s[(n + 1) - 1], s[n + 1])
    BY <1>4, <1>1 DEF Listed
  <1>6. Opens(s[n], t[n])
    BY <1>4, <1>5, <1>1
  <1>7. CASE n > 1
    <2>1. n - 1 \in 1..Len(t) /\ t[n - 1] = s[n]
      BY <1>1, <1>2, <1>7
    <2> QED BY <2>1, <1>6, <1>7
  <1>8. CASE n = 1
    <2>1. Opens(s[1], t[1])
      BY <1>6, <1>8
    <2>2. s[1].kind \in {"BEGIN", "210"} /\ s[1].list = t[1].list
      BY <2>1 DEF Opens
    <2>3. CASE s[1].kind = "BEGIN"
      BY <2>2, <2>3, <1>3, <1>8 DEF contextAfter
    <2>4. CASE s[1].kind = "210"
      <3>1. 1 \in 1..Len(s)
        BY <1>1
      <3>2. ctx = s[1].list
        BY <2>4, <3>1 DEF Listed
      <3>3. contextAfter(ctx, Head(s)) = ctx
        BY <2>4, <1>3 DEF contextAfter
      <3> QED BY <3>2, <3>3, <2>2, <1>8
    <2> QED BY <2>2, <2>3, <2>4
  <1> QED BY <1>7, <1>8, <1>1

\* What has been sent after a stream, and opens its own lists.
LEMMA ListedConcat ==
    ASSUME NEW ctx, NEW s \in Seq(Frame), NEW a \in Seq(Frame),
           Listed(ctx, s), SelfContained(a)
    PROVE  Listed(ctx, s \o a)
  <1> DEFINE t == s \o a
  <1>1. Len(s) \in Nat /\ Len(a) \in Nat /\ Len(t) = Len(s) + Len(a)
    OBVIOUS
  <1>2. \A i \in 1..Len(s) : t[i] = s[i]
    OBVIOUS
  <1>3. \A i \in 1..Len(a) : t[Len(s) + i] = a[i]
    OBVIOUS
  <1> HIDE DEF t
  <1> SUFFICES ASSUME NEW n \in 1..Len(t), t[n].kind = "210"
               PROVE  \/ n = 1 /\ ctx = t[1].list
                      \/ n > 1 /\ Opens(t[n - 1], t[n])
    BY DEF Listed, t
  <1>4. CASE n <= Len(s)
    <2>1. n \in 1..Len(s) /\ s[n] = t[n]
      BY <1>1, <1>2, <1>4
    <2>2. \/ n = 1 /\ ctx = s[1].list
          \/ n > 1 /\ Opens(s[n - 1], s[n])
      BY <2>1 DEF Listed
    <2>3. n > 1 => n - 1 \in 1..Len(s) /\ t[n - 1] = s[n - 1]
      BY <2>1, <1>1, <1>2
    <2> QED BY <2>1, <2>2, <2>3
  <1>5. CASE n > Len(s)
    <2> DEFINE m == n - Len(s)
    <2>1. m \in 1..Len(a) /\ Len(s) + m = n
      BY <1>1, <1>5
    <2>2. t[n] = a[m]
      BY <2>1, <1>3
    <2>3. m > 1 /\ Opens(a[m - 1], a[m])
      BY <2>1, <2>2 DEF SelfContained
    <2>4. m - 1 \in 1..Len(a) /\ Len(s) + (m - 1) = n - 1 /\ n > 1
      BY <2>1, <2>3, <1>1
    <2>5. t[n - 1] = a[m - 1]
      BY <2>4, <1>3
    <2> QED BY <2>2, <2>3, <2>4, <2>5
  <1> QED BY <1>1, <1>4, <1>5

\* A stream that was cut off.
LEMMA ListedPrefix ==
    ASSUME NEW ctx, NEW s \in Seq(Frame), NEW a \in Seq(Frame), Listed(ctx, s \o a)
    PROVE  Listed(ctx, s)
  <1> DEFINE t == s \o a
  <1>1. Len(s) \in Nat /\ Len(t) >= Len(s) /\ Len(t) \in Nat
    OBVIOUS
  <1>2. \A i \in 1..Len(s) : t[i] = s[i]
    OBVIOUS
  <1>3. Listed(ctx, t)
    OBVIOUS
  <1> HIDE DEF t
  <1> SUFFICES ASSUME NEW n \in 1..Len(s), s[n].kind = "210"
               PROVE  \/ n = 1 /\ ctx = s[1].list
                      \/ n > 1 /\ Opens(s[n - 1], s[n])
    BY DEF Listed
  <1>4. n \in 1..Len(t) /\ t[n] = s[n]
    BY <1>1, <1>2
  <1>5. \/ n = 1 /\ ctx = t[1].list
        \/ n > 1 /\ Opens(t[n - 1], t[n])
    BY <1>3, <1>4 DEF Listed
  <1>6. n > 1 => t[n - 1] = s[n - 1]
    BY <1>1, <1>2
  <1> QED BY <1>4, <1>5, <1>6

LEMMA ListedEmpty ==
    ASSUME NEW ctx
    PROVE  Listed(ctx, << >>)
  BY DEF Listed

\* An answer to /login that is in a stream stays in it when more is sent, and
\* until it is routed.
LEMMA AnnouncedConcat ==
    ASSUME NEW s \in Seq(Frame), NEW a \in Seq(Frame), Announced(s) \/ Announced(a)
    PROVE  Announced(s \o a)
  <1> DEFINE t == s \o a
  <1>1. Len(s) \in Nat /\ Len(a) \in Nat /\ Len(t) = Len(s) + Len(a)
    OBVIOUS
  <1>2. \A i \in 1..Len(s) : t[i] = s[i]
    OBVIOUS
  <1>3. \A i \in 1..Len(a) : t[Len(s) + i] = a[i]
    OBVIOUS
  <1> HIDE DEF t
  <1>4. CASE Announced(s)
    <2>1. PICK n \in 1..Len(s) : s[n].kind = "LOGIN"
      BY <1>4 DEF Announced
    <2>2. n \in 1..Len(t) /\ t[n].kind = "LOGIN"
      BY <2>1, <1>1, <1>2
    <2> QED BY <2>2 DEF Announced, t
  <1>5. CASE Announced(a)
    <2>1. PICK n \in 1..Len(a) : a[n].kind = "LOGIN"
      BY <1>5 DEF Announced
    <2>2. Len(s) + n \in 1..Len(t) /\ t[Len(s) + n].kind = "LOGIN"
      BY <2>1, <1>1, <1>3
    <2> QED BY <2>2 DEF Announced, t
  <1> QED BY <1>4, <1>5

LEMMA AnnouncedTail ==
    ASSUME NEW s \in Seq(Frame), s # << >>, Announced(s), Head(s).kind # "LOGIN"
    PROVE  Announced(Tail(s))
  <1> DEFINE t == Tail(s)
  <1>1. t \in Seq(Frame) /\ Len(t) = Len(s) - 1 /\ Len(s) \in Nat /\ Len(s) > 0
    BY HeadTailProperties
  <1>2. \A i \in 1..Len(t) : t[i] = s[i + 1]
    BY HeadTailProperties
  <1>3. Head(s) = s[1]
    OBVIOUS
  <1>4. PICK n \in 1..Len(s) : s[n].kind = "LOGIN"
    BY DEF Announced
  <1>5. n # 1
    BY <1>3, <1>4
  <1> HIDE DEF t
  <1>6. n - 1 \in 1..Len(t) /\ t[n - 1] = s[n]
    BY <1>1, <1>2, <1>5
  <1> QED BY <1>4, <1>6 DEF Announced, t

-------------------------------------------------------------------------------
(* The answers of the server *)

LEMMA FrameOf ==
    ASSUME NEW k \in Kinds, NEW c \in ServerCommands \cup {""}
    PROVE  frame(k, c) \in Frame /\ frame(k, c).kind = k
  BY FrameFields DEF frame, Lists

\* What a sequence of one or two frames that are no list lines opens.
LEMMA ShortAnswer ==
    ASSUME NEW f \in Frame, NEW g \in Frame, f.kind # "210", g.kind # "210"
    PROVE  /\ << f >> \in Seq(Frame) /\ SelfContained(<< f >>)
           /\ << f, g >> \in Seq(Frame) /\ SelfContained(<< f, g >>)
  BY DEF SelfContained

\* What the frames f, any number of them, followed by g or not, open.
LEMMA RepeatedAnswer ==
    ASSUME NEW f \in Frame, NEW g \in Frame, f.kind # "210", g.kind # "210", NEW k \in Nat
    PROVE  LET s == [i \in 1..k |-> f]
           IN  /\ s \in Seq(Frame) /\ SelfContained(s)
               /\ Append(s, g) \in Seq(Frame) /\ SelfContained(Append(s, g))
  <1> DEFINE s == [i \in 1..k |-> f]
             t == Append(s, g)
  <1>1. s \in Seq(Frame) /\ Len(s) = k /\ \A i \in 1..k : s[i] = f
    OBVIOUS
  <1> HIDE DEF s
  <1>2. /\ t \in Seq(Frame) /\ Len(t) = k + 1 /\ t[k + 1] = g
        /\ \A i \in 1..k : t[i] = s[i]
    BY <1>1, AppendProperties
  <1> HIDE DEF t
  <1>3. \A i \in 1..(k + 1) : t[i] = f \/ t[i] = g
    <2> SUFFICES ASSUME NEW i \in 1..(k + 1) PROVE t[i] = f \/ t[i] = g
      OBVIOUS
    <2>1. i \in 1..k \/ i = k + 1
      OBVIOUS
    <2> QED BY <2>1, <1>1, <1>2
  <1>4. SelfContained(s)
    BY <1>1 DEF SelfContained
  <1>5. SelfContained(t)
    BY <1>2, <1>3 DEF SelfContained
  <1> QED BY <1>1, <1>2, <1>4, <1>5 DEF s, t

\* A list opens the list that its lines belong to.
LEMMA ListAnswer ==
    ASSUME NEW l \in Lists, NEW c \in ServerCommands, NEW a \in aList(l, c)
    PROVE  a \in Seq(Frame) /\ SelfContained(a)
  <1>1. PICK k \in 0..MaxItems :
           a = << [kind |-> "BEGIN", list |-> l, of |-> c] >>
               \o [n \in 1..k |-> [kind |-> "210", list |-> l, of |-> c]]
               \o << [kind |-> "END", list |-> l, of |-> c] >>
    BY DEF aList
  <1>k. k \in Nat
    BY ClientBoundsAssumption
  <1> DEFINE b == [kind |-> "BEGIN", list |-> l, of |-> c]
             x == [kind |-> "210", list |-> l, of |-> c]
             e == [kind |-> "END", list |-> l, of |-> c]
             m == [n \in 1..k |-> x]
  <1>2. b \in Frame /\ x \in Frame /\ e \in Frame
    BY FrameFields DEF Kinds
  <1>3. b.kind = "BEGIN" /\ b.list = l /\ x.kind = "210" /\ x.list = l /\ e.kind = "END"
    OBVIOUS
  <1>4. a = << b >> \o m \o << e >>
    BY <1>1
  <1> HIDE DEF b, x, e
  <1>5. m \in Seq(Frame) /\ Len(m) = k /\ \A n \in 1..k : m[n] = x
    BY <1>2, <1>k
  <1> HIDE DEF m
  <1>6. << b >> \in Seq(Frame) /\ Len(<< b >>) = 1 /\ << b >>[1] = b
    BY <1>2
  <1>7. << e >> \in Seq(Frame) /\ Len(<< e >>) = 1 /\ << e >>[1] = e
    BY <1>2
  <1> DEFINE h == << b >> \o m
  <1>8. h \in Seq(Frame) /\ Len(h) = 1 + k /\ h[1] = b
    BY <1>5, <1>6, <1>k
  <1>9. \A n \in 2..(k + 1) : h[n] = x
    <2> SUFFICES ASSUME NEW n \in 2..(k + 1) PROVE h[n] = x
      OBVIOUS
    <2>1. n - 1 \in 1..k
      BY <1>k
    <2> QED BY <2>1, <1>5, <1>6, <1>k
  <1>10. a = h \o << e >>
    BY <1>4
  <1> HIDE DEF h
  <1>11. a \in Seq(Frame) /\ Len(a) = k + 2
    BY <1>8, <1>7, <1>10, <1>k
  <1>12. \A n \in 1..(k + 1) : a[n] = h[n]
    BY <1>8, <1>7, <1>10, <1>k
  <1>13. a[k + 2] = e
    BY <1>8, <1>7, <1>10, <1>k
  <1>14. ASSUME NEW n \in 1..Len(a), a[n].kind = "210"
         PROVE  n > 1 /\ Opens(a[n - 1], a[n])
    <2>1. n # 1 /\ n # k + 2
      BY <1>14, <1>12, <1>13, <1>8, <1>3, <1>k
    <2>2. n \in 2..(k + 1) /\ n - 1 \in 1..(k + 1)
      BY <2>1, <1>11, <1>k
    <2>3. a[n] = x
      BY <2>2, <1>12, <1>9
    <2>4. a[n - 1] = h[n - 1]
      BY <2>2, <1>12
    <2>5. h[n - 1] = b \/ h[n - 1] = x
      <3>1. n - 1 = 1 \/ n - 1 \in 2..(k + 1)
        BY <2>2, <1>k
      <3> QED BY <3>1, <1>8, <1>9
    <2> QED BY <2>2, <2>3, <2>4, <2>5, <1>3 DEF Opens
  <1> QED BY <1>11, <1>14 DEF SelfContained

\* Every answer of a handler opens the lists that its lines belong to.
LEMMA AnswersAreContained ==
    ASSUME NEW cmd \in ServerCommands, NEW a \in answers(cmd)
    PROVE  a \in Seq(Frame) /\ SelfContained(a)
  <1> DEFINE s0 == frame("SHOW", "")
             sc == frame("SHOW", cmd)
             ok == frame("OK", cmd)
  <1>1. /\ s0 \in Frame /\ s0.kind # "210"
        /\ sc \in Frame /\ sc.kind # "210"
        /\ ok \in Frame /\ ok.kind # "210"
    BY FrameOf DEF Kinds
  <1>2. \/ a \in {<< ok >>, << s0, ok >>, << sc >>, << s0, sc >>}
        \/ \E k \in Nat : a = [i \in 1..k |-> ok] \/ a = Append([i \in 1..k |-> ok], sc)
        \/ \E l \in Lists : a \in aList(l, cmd)
    <2>1. CASE cmd = "/logout"
      BY <2>1 DEF answers
    <2>2. CASE cmd = "/use"
      <3>1. answers("/use") = {[i \in 1..n |-> frame("OK", "/use")] : n \in 1..3}
                              \cup {Append([i \in 1..n |-> frame("OK", "/use")],
                                           frame("SHOW", "/use")) : n \in 0..2}
        BY DEF answers
      <3>2. \/ \E n \in 1..3 : a = [i \in 1..n |-> ok]
            \/ \E n \in 0..2 : a = Append([i \in 1..n |-> ok], sc)
        BY <2>2, <3>1, Zenon
      <3>3. 1..3 \subseteq Nat /\ 0..2 \subseteq Nat
        OBVIOUS
      <3> QED BY <3>2, <3>3, Zenon
    <2>3. CASE cmd = "/send"
      BY <2>3 DEF answers
    <2>4. CASE cmd = "/users"
      BY <2>4 DEF answers, Lists
    <2>5. CASE cmd = "/messages"
      BY <2>5 DEF answers, Lists
    <2>6. CASE cmd = "/subscribed"
      BY <2>6 DEF answers, Lists
    <2>7. CASE cmd = "/list"
      BY <2>7 DEF answers, Lists
    <2>8. CASE cmd = "/create"
      BY <2>8 DEF answers
    <2>9. CASE cmd \notin {"/logout", "/use", "/send", "/users", "/messages",
                           "/subscribed", "/list", "/create"}
      BY <2>9 DEF answers
    <2> QED BY <2>1, <2>2, <2>3, <2>4, <2>5, <2>6, <2>7, <2>8, <2>9
  <1> HIDE DEF s0, sc, ok
  <1>3. CASE a \in {<< ok >>, << s0, ok >>, << sc >>, << s0, sc >>}
    <2>1. /\ << ok >> \in Seq(Frame) /\ SelfContained(<< ok >>)
          /\ << sc >> \in Seq(Frame) /\ SelfContained(<< sc >>)
          /\ << s0, ok >> \in Seq(Frame) /\ SelfContained(<< s0, ok >>)
          /\ << s0, sc >> \in Seq(Frame) /\ SelfContained(<< s0, sc >>)
      BY <1>1, ShortAnswer
    <2> QED BY <1>3, <2>1
  <1>4. CASE \E l \in Lists : a \in aList(l, cmd)
    BY <1>4, ListAnswer
  <1>5. CASE \E k \in Nat : a = [i \in 1..k |-> ok] \/ a = Append([i \in 1..k |-> ok], sc)
    <2>1. PICK k \in Nat : a = [i \in 1..k |-> ok] \/ a = Append([i \in 1..k |-> ok], sc)
      BY <1>5
    <2> QED BY <2>1, <1>1, RepeatedAnswer
  <1> QED BY <1>2, <1>3, <1>4, <1>5

\* What ServerAnswers sends for the command cmd.
answersNow(cmd) ==
    IF session THEN answers(cmd)
    ELSE IF cmd = "/login" THEN {<< frame("LOGIN", cmd), frame("SHOW", "") >>}
    ELSE {<< frame("SHOW", cmd) >>}

\* The server's answer to a command is well formed, and one that makes a
\* session announces it.
LEMMA AnswersNow ==
    ASSUME NEW cmd \in ServerCommands, NEW a \in answersNow(cmd)
    PROVE  /\ a \in Seq(Frame) /\ SelfContained(a)
           /\ ~ session /\ cmd = "/login" => Announced(a)
  <1>1. CASE session
    BY <1>1, AnswersAreContained DEF answersNow
  <1>2. CASE ~ session /\ cmd = "/login"
    <2> DEFINE f == frame("LOGIN", cmd)
               g == frame("SHOW", "")
    <2>1. f \in Frame /\ g \in Frame /\ f.kind = "LOGIN" /\ g.kind = "SHOW"
      BY FrameOf DEF Kinds
    <2>2. a = << f, g >>
      BY <1>2 DEF answersNow
    <2> HIDE DEF f, g
    <2>3. Len(a) = 2 /\ a[1] = f
      BY <2>2
    <2>4. 1 \in 1..Len(a) /\ a[1].kind = "LOGIN"
      BY <2>1, <2>3
    <2> QED BY <2>1, <2>2, <2>4, ShortAnswer DEF Announced
  <1>3. CASE ~ session /\ cmd # "/login"
    <2> DEFINE f == frame("SHOW", cmd)
    <2>1. f \in Frame /\ f.kind = "SHOW"
      BY FrameOf DEF Kinds
    <2>2. a = << f >>
      BY <1>3 DEF answersNow
    <2> HIDE DEF f
    <2> QED BY <1>3, <2>1, <2>2, ShortAnswer
  <1> QED BY <1>1, <1>2, <1>3

-------------------------------------------------------------------------------
(* Types *)

\* What flushPendingWrites leaves.
LEMMA FlushTypes ==
    ASSUME ClientTypeOK, NEW w \in Seq(ServerCommands), flushPendingWrites(w)
    PROVE  /\ writes' \in Seq(ServerCommands) /\ toServer' \in Seq(ServerCommands)
           /\ room' \in BOOLEAN
           /\ phase' = phase \/ phase' = "failed"
           /\ server' = server \/ server' = "reset"
  <1>1. CASE server = "up" /\ room
    <2>1. PICK k \in 1..Len(w), more \in BOOLEAN :
             /\ toServer' = toServer \o SubSeq(w, 1, k)
             /\ writes' = SubSeq(w, k + 1, Len(w))
             /\ room' = (k = Len(w) /\ more)
      BY <1>1 DEF flushPendingWrites
    <2>2. phase' = phase /\ server' = server
      BY <1>1 DEF flushPendingWrites
    <2>3. Len(w) \in Nat /\ \A i \in 1..Len(w) : w[i] \in ServerCommands
      OBVIOUS
    <2>4. SubSeq(w, 1, k) \in Seq(ServerCommands)
      BY <2>3, SubSeqProperties
    <2>5. SubSeq(w, k + 1, Len(w)) \in Seq(ServerCommands)
      BY <2>3, SubSeqProperties
    <2>6. toServer \in Seq(ServerCommands)
      BY DEF ClientTypeOK
    <2>7. toServer \o SubSeq(w, 1, k) \in Seq(ServerCommands)
      BY <2>4, <2>6, ConcatProperties
    <2>8. room' \in BOOLEAN
      BY <2>1
    <2>9. writes' \in Seq(ServerCommands)
      BY <2>1, <2>5
    <2>10. toServer' \in Seq(ServerCommands)
      BY <2>1, <2>7
    <2> QED BY <2>2, <2>8, <2>9, <2>10, Zenon
  <1>2. CASE ~ (server = "up" /\ room)
    <2>1. toServer' = toServer /\ room' = room
      BY <1>2 DEF flushPendingWrites
    <2>2. writes' = w \/ writes' = << >>
      BY <1>2 DEF flushPendingWrites
    <2>3. /\ phase' = phase \/ phase' = "failed"
          /\ server' = server \/ server' = "reset"
      BY <1>2 DEF flushPendingWrites
    <2>4. toServer \in Seq(ServerCommands) /\ room \in BOOLEAN
      BY DEF ClientTypeOK
    <2>5. toServer' \in Seq(ServerCommands) /\ room' \in BOOLEAN
      BY <2>1, <2>4, Zenon
    <2>6. << >> \in Seq(ServerCommands)
      OBVIOUS
    <2> QED BY <2>2, <2>3, <2>5, <2>6, Zenon
  <1> QED BY <1>1, <1>2, Zenon

\* What getline leaves.
LEMMA GetlineTypes ==
    ASSUME ClientTypeOK, NEW l \in Typed, getline(l)
    PROVE  /\ cin' \in Seq(Typed) /\ tty' \in Seq(Typed)
           /\ partial' \in {"none", "tty", "cin"}
  <1>1. cin \in Seq(Typed) /\ tty \in Seq(Typed) /\ partial \in {"none", "tty", "cin"}
    BY DEF ClientTypeOK
  <1>2. CASE cin # << >>
    <2>1. cin' = Tail(cin) /\ tty' = tty /\ partial' = partial
      BY <1>2 DEF getline
    <2> QED BY <1>1, <1>2, <2>1, HeadTailProperties
  <1>3. CASE cin = << >>
    <2>1. PICK n \in 1..Len(tty) :
             /\ cin' = SubSeq(tty, 2, n) /\ tty' = SubSeq(tty, n + 1, Len(tty))
             /\ partial' = partial \/ partial' \in {"tty", "cin"}
      BY <1>3 DEF getline
    <2>2. Len(tty) \in Nat /\ \A i \in 1..Len(tty) : tty[i] \in Typed
      BY <1>1
    <2>3. SubSeq(tty, 2, n) \in Seq(Typed)
      BY <2>2, SubSeqProperties
    <2>4. SubSeq(tty, n + 1, Len(tty)) \in Seq(Typed)
      BY <2>2, SubSeqProperties
    <2> QED BY <1>1, <2>1, <2>3, <2>4
  <1> QED BY <1>2, <1>3

\* A read cuts what has arrived in two.
LEMMA ReadTypes ==
    ASSUME toClient \in Seq(Frame), readFrames
    PROVE  /\ rbuf' \in Seq(Frame) /\ toClient' \in Seq(Frame)
           /\ rbuf' \o toClient' = toClient
  <1>1. PICK n \in 1..Len(toClient) :
           /\ rbuf' = SubSeq(toClient, 1, n)
           /\ toClient' = SubSeq(toClient, n + 1, Len(toClient))
    BY DEF readFrames
  <1>2. Len(toClient) \in Nat /\ \A i \in 1..Len(toClient) : toClient[i] \in Frame
    OBVIOUS
  <1>3. rbuf' \in Seq(Frame)
    BY <1>1, <1>2, SubSeqProperties
  <1>4. toClient' \in Seq(Frame)
    BY <1>1, <1>2, SubSeqProperties
  <1> DEFINE len == Len(toClient)
  <1>5. 1 \in 1..(len + 1) /\ n \in (1 - 1)..len /\ len \in n..len
    BY <1>2
  <1>6. SubSeq(toClient, 1, n) \o SubSeq(toClient, n + 1, len) = SubSeq(toClient, 1, len)
    BY <1>5, ConcatAdjacentSubSeq
  <1>7. SubSeq(toClient, 1, len) = toClient
    BY SubSeqFull
  <1> QED BY <1>1, <1>3, <1>4, <1>6, <1>7

\* The type invariant by the groups of variables that the actions name.
InputOK ==
    /\ cin \in Seq(Typed) /\ tty \in Seq(Typed) /\ stdinPolled \in BOOLEAN
    /\ stdin \in {"pipe", "file", "hungup"} /\ typed \in 0..MaxTyped
    /\ partial \in {"none", "tty", "cin"} /\ reading \in BOOLEAN
RouterOK ==
    /\ pending \in ServerCommands \cup {""} /\ loggedIn \in BOOLEAN
    /\ listCtx \in Lists \cup {""}
OutOK ==
    /\ writes \in Seq(ServerCommands) /\ pollOut \in BOOLEAN
    /\ toServer \in Seq(ServerCommands) /\ room \in BOOLEAN
InOK == toClient \in Seq(Frame) /\ rbuf \in Seq(Frame)
WorldOK == server \in {"up", "closed", "reset"} /\ session \in BOOLEAN /\ events \in 0..MaxEvents
PhaseOK ==
    /\ phase \in {"connecting", "running", "left", "failed"}
    /\ addresses \in 0..MaxAddresses
    /\ phase = "left" => writes = << >>
    /\ NothingBeforeConnection

LEMMA Groups ==
    ClientTypeOK /\ NothingBeforeConnection
    <=> InputOK /\ RouterOK /\ OutOK /\ InOK /\ WorldOK /\ PhaseOK
  BY Zenon DEF ClientTypeOK, InputOK, RouterOK, OutOK, InOK, WorldOK, PhaseOK

LEMMA GroupsPrimed ==
    ASSUME InputOK', RouterOK', OutOK', InOK', WorldOK', PhaseOK'
    PROVE  ClientTypeOK' /\ NothingBeforeConnection'
  BY Zenon DEF ClientTypeOK, InputOK, RouterOK, OutOK, InOK, WorldOK, PhaseOK

LEMMA InputUnchanged == InputOK /\ UNCHANGED inputVars => InputOK'
  BY DEF InputOK, inputVars
LEMMA RouterUnchanged == RouterOK /\ UNCHANGED routerVars => RouterOK'
  BY DEF RouterOK, routerVars
LEMMA OutUnchanged == OutOK /\ UNCHANGED outVars => OutOK'
  BY DEF OutOK, outVars
LEMMA InUnchanged == InOK /\ UNCHANGED inVars => InOK'
  BY DEF InOK, inVars
LEMMA WorldUnchanged == WorldOK /\ UNCHANGED worldVars => WorldOK'
  BY DEF WorldOK, worldVars

\* disconnect leaves the process, with nothing queued.
LEMMA DisconnectTypes ==
    ASSUME OutOK, PhaseOK, disconnect, addresses' = addresses
    PROVE  OutOK' /\ InOK' /\ PhaseOK'
  <1>1. /\ phase' = "left" /\ writes' = << >> /\ pollOut' = FALSE
        /\ rbuf' = << >> /\ toClient' = << >> /\ toServer' = toServer /\ room' = room
    BY DEF disconnect
  <1>2. InOK'
    BY <1>1 DEF InOK
  <1>3. PhaseOK'
    BY <1>1 DEF PhaseOK, NothingBeforeConnection
  <1>4. << >> \in Seq(ServerCommands)
    OBVIOUS
  <1>5. OutOK'
    BY <1>1, <1>4, Zenon DEF OutOK
  <1> QED BY <1>2, <1>3, <1>5

\* flushPendingWrites keeps the types, whatever it is given to write.
LEMMA FlushKeeps ==
    ASSUME ClientTypeOK, PhaseOK, WorldOK, NEW w \in Seq(ServerCommands), phase = "running",
           flushPendingWrites(w), updateServerWatchedEvents,
           addresses' = addresses, session' = session, events' = events
    PROVE  OutOK' /\ PhaseOK' /\ WorldOK'
  <1>1. /\ writes' \in Seq(ServerCommands) /\ toServer' \in Seq(ServerCommands)
        /\ room' \in BOOLEAN
        /\ phase' = phase \/ phase' = "failed"
        /\ server' = server \/ server' = "reset"
    BY FlushTypes
  <1>2. pollOut' = (writes' # << >>)
    BY DEF updateServerWatchedEvents
  <1>3. pollOut' \in BOOLEAN
    BY <1>2
  <1>4. OutOK'
    BY <1>1, <1>3, Zenon DEF OutOK
  <1>5. PhaseOK'
    BY <1>1 DEF PhaseOK, NothingBeforeConnection
  <1>6. WorldOK'
    BY <1>1 DEF WorldOK
  <1> QED BY <1>4, <1>5, <1>6

\* A line that was read, whatever it is, keeps the types.
LEMMA DispatchKeeps ==
    ASSUME ClientTypeOK, RouterOK, OutOK, PhaseOK, WorldOK, phase = "running",
           NEW l, dispatchCommandLine(l),
           addresses' = addresses, session' = session, events' = events,
           loggedIn' = loggedIn, listCtx' = listCtx
    PROVE  RouterOK' /\ OutOK' /\ PhaseOK' /\ WorldOK'
  <1>1. CASE UNCHANGED << phase, pending, server >> /\ UNCHANGED outVars
    <2>1. RouterOK' /\ OutOK' /\ WorldOK'
      BY <1>1, RouterUnchanged, OutUnchanged, WorldUnchanged DEF routerVars, worldVars
    <2>2. PhaseOK'
      BY <1>1 DEF PhaseOK, NothingBeforeConnection
    <2> QED BY <2>1, <2>2
  <1>2. CASE l \in ServerCommands /\ pending' = l /\ sendCommandFrame(l)
    <2> DEFINE w == Append(writes, l)
    <2>1. w \in Seq(ServerCommands)
      BY <1>2, AppendProperties DEF OutOK
    <2>2. flushPendingWrites(w) /\ updateServerWatchedEvents
      BY <1>2 DEF sendCommandFrame
    <2> HIDE DEF w
    <2>3. OutOK' /\ PhaseOK' /\ WorldOK'
      BY <2>1, <2>2, FlushKeeps
    <2>4. RouterOK'
      BY <1>2 DEF RouterOK
    <2> QED BY <2>3, <2>4
  <1> QED BY <1>1, <1>2 DEF dispatchCommandLine

\* Waiting for the rest of a line keeps the types.
LEMMA WaitKeeps ==
    ASSUME InputOK, RouterOK, OutOK, InOK, PhaseOK, WorldOK, phase = "running", getlineWaits,
           UNCHANGED << stdinPolled, stdin, typed, loggedIn, listCtx, inVars >>,
           UNCHANGED << addresses, session, events >>
    PROVE  InputOK' /\ RouterOK' /\ OutOK' /\ InOK' /\ PhaseOK' /\ WorldOK'
  <1>1. /\ partial' = "cin" /\ reading' = TRUE
        /\ UNCHANGED << phase, pending, server, cin, tty, outVars >>
    BY DEF getlineWaits
  <1>2. RouterOK' /\ OutOK' /\ InOK' /\ WorldOK'
    BY <1>1, RouterUnchanged, OutUnchanged, InUnchanged, WorldUnchanged
       DEF routerVars, worldVars
  <1>3. InputOK'
    BY <1>1 DEF InputOK
  <1>4. PhaseOK'
    BY <1>1 DEF PhaseOK, NothingBeforeConnection
  <1> QED BY <1>2, <1>3, <1>4

\* Every step keeps the types, and nothing is sent before there is a
\* connection.
LEMMA ClientTypesStep ==
    ASSUME ClientTypeOK, NothingBeforeConnection, [ClientNext]_clientVars
    PROVE  ClientTypeOK' /\ NothingBeforeConnection'
  <1> DEFINE Goal == InputOK' /\ RouterOK' /\ OutOK' /\ InOK' /\ WorldOK' /\ PhaseOK'
  <1> SUFFICES Goal
    BY GroupsPrimed
  <1>0. InputOK /\ RouterOK /\ OutOK /\ InOK /\ WorldOK /\ PhaseOK
    BY Groups
  <1>1. CASE connectTo
    <2>1. UNCHANGED << routerVars, outVars, inVars, worldVars >>
      BY <1>1 DEF connectTo
    <2>2. RouterOK' /\ OutOK' /\ InOK' /\ WorldOK'
      BY <1>0, <2>1, RouterUnchanged, OutUnchanged, InUnchanged, WorldUnchanged
    <2>3. InputOK'
      <3>1. UNCHANGED << cin, reading, stdin, tty, partial, typed >>
        BY <1>1 DEF connectTo
      <3>2. stdinPolled' = TRUE \/ stdinPolled' = stdinPolled
        BY <1>1 DEF connectTo
      <3> QED BY <1>0, <3>1, <3>2 DEF InputOK
    <2>4. PhaseOK'
      BY <1>0, <1>1, <2>1, ClientBoundsAssumption
         DEF connectTo, PhaseOK, NothingBeforeConnection, outVars, worldVars
    <2> QED BY <2>2, <2>3, <2>4
  <1>2. CASE handleStdinEvent
    <2>1. /\ phase = "running" /\ addresses' = addresses /\ session' = session
          /\ events' = events
      BY <1>2 DEF handleStdinEvent, Polling
    <2>2. CASE stdin = "hungup" /\ disconnect /\ UNCHANGED << inputVars, routerVars, server >>
      BY <1>0, <2>1, <2>2, DisconnectTypes, InputUnchanged, RouterUnchanged, WorldUnchanged
         DEF worldVars
    <2>3. CASE /\ stdinPolled' = FALSE
               /\ UNCHANGED << phase, cin, reading, stdin, tty, partial, typed, routerVars,
                               outVars, inVars, server >>
      <3>1. RouterOK' /\ OutOK' /\ InOK' /\ WorldOK'
        BY <1>0, <2>1, <2>3, RouterUnchanged, OutUnchanged, InUnchanged, WorldUnchanged
           DEF worldVars
      <3>2. InputOK'
        BY <1>0, <2>3 DEF InputOK
      <3>3. PhaseOK'
        BY <1>0, <2>1, <2>3 DEF PhaseOK, NothingBeforeConnection
      <3> QED BY <3>1, <3>2, <3>3
    <2>4. CASE /\ \E l \in Typed : getline(l) /\ dispatchCommandLine(l) /\ UNCHANGED reading
               /\ UNCHANGED << stdinPolled, stdin, typed, loggedIn, listCtx, inVars >>
      <3>1. PICK l \in Typed : getline(l) /\ dispatchCommandLine(l) /\ UNCHANGED reading
        BY <2>4
      <3>2. cin' \in Seq(Typed) /\ tty' \in Seq(Typed) /\ partial' \in {"none", "tty", "cin"}
        BY <3>1, GetlineTypes
      <3>3. InputOK'
        BY <1>0, <2>4, <3>1, <3>2 DEF InputOK
      <3>4. InOK'
        BY <1>0, <2>4, InUnchanged
      <3>5. RouterOK' /\ OutOK' /\ PhaseOK' /\ WorldOK'
        BY <1>0, <2>1, <2>4, <3>1, DispatchKeeps
      <3> QED BY <3>3, <3>4, <3>5
    <2>5. CASE /\ getlineWaits
               /\ UNCHANGED << stdinPolled, stdin, typed, loggedIn, listCtx, inVars >>
      BY <1>0, <2>1, <2>5, WaitKeeps
    <2>6. \/ stdin = "hungup" /\ disconnect /\ UNCHANGED << inputVars, routerVars, server >>
          \/ /\ stdinPolled' = FALSE
             /\ UNCHANGED << phase, cin, reading, stdin, tty, partial, typed, routerVars, outVars,
                             inVars, server >>
          \/ /\ \/ \E l \in Typed : getline(l) /\ dispatchCommandLine(l) /\ UNCHANGED reading
                \/ getlineWaits
             /\ UNCHANGED << stdinPolled, stdin, typed, loggedIn, listCtx, inVars >>
      BY <1>2 DEF handleStdinEvent
    <2> QED BY <2>2, <2>3, <2>4, <2>5, <2>6
  <1>3. CASE handleServerHangup
    <2>1. disconnect /\ UNCHANGED << addresses, inputVars, routerVars, worldVars >>
      BY <1>3 DEF handleServerHangup
    <2> QED BY <1>0, <2>1, DisconnectTypes, InputUnchanged, RouterUnchanged, WorldUnchanged
  <1>4. CASE handleServerWritable
    <2>1. /\ flushPendingWrites(writes) /\ updateServerWatchedEvents /\ phase = "running"
          /\ UNCHANGED << addresses, inputVars, routerVars, inVars, session, events >>
      BY <1>4 DEF handleServerWritable, Polling
    <2>2. writes \in Seq(ServerCommands)
      BY <1>0 DEF OutOK
    <2>3. OutOK' /\ PhaseOK' /\ WorldOK'
      BY <1>0, <2>1, <2>2, FlushKeeps
    <2> QED BY <1>0, <2>1, <2>3, InputUnchanged, RouterUnchanged, InUnchanged
  <1>5. CASE handleServerReadable
    <2>1. UNCHANGED << addresses, inputVars, routerVars, worldVars >> /\ phase = "running"
      BY <1>5 DEF handleServerReadable, Polling
    <2>2. InputOK' /\ RouterOK' /\ WorldOK'
      BY <1>0, <2>1, InputUnchanged, RouterUnchanged, WorldUnchanged
    <2>3. CASE readFrames /\ UNCHANGED << phase, outVars >>
      <3>1. InOK'
        BY <1>0, <2>3, ReadTypes DEF InOK
      <3>2. OutOK'
        BY <1>0, <2>3, OutUnchanged
      <3>3. PhaseOK'
        BY <1>0, <2>1, <2>3 DEF PhaseOK, NothingBeforeConnection, outVars
      <3> QED BY <2>2, <3>1, <3>2, <3>3
    <2>4. CASE disconnect
      BY <1>0, <2>1, <2>2, <2>4, DisconnectTypes
    <2> QED BY <1>5, <2>3, <2>4 DEF handleServerReadable
  <1>6. CASE routeFrame
    <2> DEFINE f == Head(rbuf)
    <2>1. /\ UNCHANGED << addresses, inputVars, pending, worldVars >>
          /\ phase = "running" /\ rbuf # << >>
      BY <1>6 DEF routeFrame
    <2>2. f \in Frame /\ Tail(rbuf) \in Seq(Frame)
      BY <1>0, <2>1, HeadTailProperties DEF InOK
    <2>3. f.list \in Lists \cup {""}
      BY <2>2 DEF Frame
    <2>4. /\ listCtx' = contextAfter(listCtx, f)
          /\ loggedIn' = ((loggedIn \/ logsIn(f)) /\ ~ logsOut(f))
      BY <1>6 DEF routeFrame, contextAfter
    <2>5. InputOK' /\ WorldOK'
      BY <1>0, <2>1, InputUnchanged, WorldUnchanged
    <2>6. listCtx' \in Lists \cup {""}
      <3> HIDE DEF f
      <3> QED BY <1>0, <2>3, <2>4 DEF contextAfter, RouterOK
    <2>7. RouterOK'
      BY <1>0, <2>1, <2>4, <2>6 DEF RouterOK
    <2>8. CASE disconnect
      BY <1>0, <2>1, <2>5, <2>7, <2>8, DisconnectTypes
    <2>9. CASE rbuf' = Tail(rbuf) /\ UNCHANGED << phase, outVars, toClient >>
      <3>1. InOK'
        BY <1>0, <2>2, <2>9 DEF InOK
      <3>2. OutOK'
        BY <1>0, <2>9, OutUnchanged
      <3>3. PhaseOK'
        BY <1>0, <2>1, <2>9 DEF PhaseOK, NothingBeforeConnection, outVars
      <3> QED BY <2>5, <2>7, <3>1, <3>2, <3>3
    <2> QED BY <1>6, <2>8, <2>9 DEF routeFrame
  <1>7. CASE \E l \in Typed : Type(l)
    <2>1. UNCHANGED << phase, addresses, routerVars, outVars, inVars, worldVars >>
      BY <1>7 DEF Type
    <2>2. RouterOK' /\ OutOK' /\ InOK' /\ WorldOK'
      BY <1>0, <2>1, RouterUnchanged, OutUnchanged, InUnchanged, WorldUnchanged
    <2>3. PICK l \in Typed : Type(l)
      BY <1>7
    <2>4. tty' \in Seq(Typed)
      BY <1>0, <2>3, AppendProperties DEF Type, InputOK
    <2>5. InputOK'
      BY <1>0, <2>3, <2>4, ClientBoundsAssumption DEF Type, InputOK
    <2>6. PhaseOK'
      BY <1>0, <2>1 DEF PhaseOK, NothingBeforeConnection, outVars, worldVars
    <2> QED BY <2>2, <2>5, <2>6
  <1>8. CASE CloseStdin
    <2>1. UNCHANGED << phase, addresses, routerVars, outVars, inVars, worldVars >>
      BY <1>8 DEF CloseStdin
    <2>2. RouterOK' /\ OutOK' /\ InOK' /\ WorldOK'
      BY <1>0, <2>1, RouterUnchanged, OutUnchanged, InUnchanged, WorldUnchanged
    <2>3. InputOK'
      BY <1>0, <1>8 DEF CloseStdin, InputOK
    <2>4. PhaseOK'
      BY <1>0, <2>1 DEF PhaseOK, NothingBeforeConnection, outVars, worldVars
    <2> QED BY <2>2, <2>3, <2>4
  <1>14. CASE BeginLine
    <2>1. UNCHANGED << phase, addresses, routerVars, outVars, inVars, worldVars >>
      BY <1>14 DEF BeginLine
    <2>2. RouterOK' /\ OutOK' /\ InOK' /\ WorldOK'
      BY <1>0, <2>1, RouterUnchanged, OutUnchanged, InUnchanged, WorldUnchanged
    <2>3. InputOK'
      BY <1>0, <1>14 DEF BeginLine, InputOK
    <2>4. PhaseOK'
      BY <1>0, <2>1 DEF PhaseOK, NothingBeforeConnection, outVars, worldVars
    <2> QED BY <2>2, <2>3, <2>4
  <1>15. CASE getlineGoesOn
    <2>1. /\ phase = "running"
          /\ UNCHANGED << stdinPolled, stdin, typed, loggedIn, listCtx, inVars >>
          /\ UNCHANGED << addresses, session, events >>
      BY <1>15 DEF getlineGoesOn
    <2>2. InOK'
      BY <1>0, <2>1, InUnchanged
    <2>3. ASSUME NEW l, dispatchCommandLine(l), reading' = FALSE,
                 cin' \in Seq(Typed), tty' \in Seq(Typed), partial' \in {"none", "tty", "cin"}
          PROVE  Goal
      <3>1. RouterOK' /\ OutOK' /\ PhaseOK' /\ WorldOK'
        BY <1>0, <2>1, <2>3, DispatchKeeps
      <3>2. InputOK'
        BY <1>0, <2>1, <2>3 DEF InputOK
      <3> QED BY <2>2, <3>1, <3>2
    <2>4. CASE \E l \in Typed : getline(l) /\ dispatchCommandLine(l) /\ reading' = FALSE
      BY <2>3, <2>4, GetlineTypes
    <2>5. CASE getlineWaits
      BY <1>0, <2>1, <2>5, WaitKeeps
    <2>6. CASE /\ \E l \in Typed \cup {"rejected"} : dispatchCommandLine(l)
               /\ partial' = "none" /\ reading' = FALSE /\ UNCHANGED << cin, tty >>
      <3>1. cin' \in Seq(Typed) /\ tty' \in Seq(Typed)
        BY <1>0, <2>6 DEF InputOK
      <3> QED BY <2>3, <2>6, <3>1
    <2> QED BY <1>15, <2>4, <2>5, <2>6 DEF getlineGoesOn
  <1>9. CASE ServerAnswers
    <2> DEFINE cmd == Head(toServer)
    <2>1. toServer \in Seq(ServerCommands) /\ toServer # << >>
      BY <1>0, <1>9 DEF ServerAnswers, OutOK
    <2>2. cmd \in ServerCommands /\ Tail(toServer) \in Seq(ServerCommands)
      BY <2>1, HeadTailProperties
    <2>3. PICK a \in answersNow(cmd) :
             toClient' = IF phase = "running" THEN toClient \o a ELSE toClient
      BY <1>9 DEF ServerAnswers, answersNow
    <2>4. session' = CASE cmd = "/login" -> TRUE [] cmd = "/logout" -> FALSE
                       [] OTHER -> session
      BY <1>9 DEF ServerAnswers
    <2>5. /\ toServer' = Tail(toServer) /\ room' = TRUE
          /\ UNCHANGED << phase, addresses, inputVars, routerVars, writes, pollOut, rbuf,
                          server, events >>
      BY <1>9 DEF ServerAnswers
    <2> HIDE DEF cmd
    <2>6. a \in Seq(Frame)
      BY <2>2, AnswersNow
    <2>7. toClient \o a \in Seq(Frame)
      BY <1>0, <2>6, ConcatProperties DEF InOK
    <2>8. InOK'
      BY <1>0, <2>3, <2>5, <2>7 DEF InOK
    <2>9. WorldOK'
      BY <1>0, <2>4, <2>5 DEF WorldOK
    <2>10. OutOK'
      BY <1>0, <2>2, <2>5 DEF OutOK
    <2>11. PhaseOK'
      BY <1>0, <2>1, <2>5 DEF PhaseOK, NothingBeforeConnection
    <2> QED BY <1>0, <2>5, <2>8, <2>9, <2>10, <2>11, InputUnchanged, RouterUnchanged
  <1>10. CASE ServerEvent
    <2>1. frame("SHOW", "") \in Frame
      BY FrameOf DEF Kinds
    <2>2. /\ toClient' = Append(toClient, frame("SHOW", "")) /\ rbuf' = rbuf
          /\ phase = "running" /\ events < MaxEvents /\ events' = events + 1
          /\ UNCHANGED << phase, addresses, inputVars, routerVars, outVars, server, session >>
      BY <1>10 DEF ServerEvent
    <2>3. InOK'
      BY <1>0, <2>1, <2>2, AppendProperties DEF InOK
    <2>4. WorldOK'
      <3>1. events' \in 0..MaxEvents
        <4>1. events \in 0..MaxEvents /\ MaxEvents \in Nat
          BY <1>0, ClientBoundsAssumption DEF WorldOK
        <4>2. events < MaxEvents /\ events' = events + 1
          BY <2>2
        <4> QED BY <4>1, <4>2
      <3>2. server' = server /\ session' = session
        BY <2>2
      <3> QED BY <1>0, <3>1, <3>2, Zenon DEF WorldOK
    <2>5. PhaseOK'
      BY <1>0, <2>2 DEF PhaseOK, NothingBeforeConnection, outVars
    <2> QED BY <1>0, <2>2, <2>3, <2>4, <2>5, InputUnchanged, RouterUnchanged, OutUnchanged
  <1>11. CASE ServerStops
    <2>1. /\ session' = FALSE /\ toServer' = << >>
          /\ UNCHANGED << phase, addresses, inputVars, routerVars, writes, pollOut, room,
                          rbuf, events >>
      BY <1>11 DEF ServerStops
    <2>2. server' \in {"closed", "reset"} /\ (toClient' = toClient \/ toClient' = << >>)
      BY <1>11 DEF ServerStops
    <2>3. InOK'
      BY <1>0, <2>1, <2>2, EmptySeq DEF InOK
    <2>4. WorldOK'
      BY <1>0, <2>1, <2>2 DEF WorldOK
    <2>5. OutOK'
      BY <1>0, <2>1 DEF OutOK
    <2>6. PhaseOK'
      BY <1>0, <2>1 DEF PhaseOK, NothingBeforeConnection
    <2> QED BY <1>0, <2>1, <2>3, <2>4, <2>5, <2>6, InputUnchanged, RouterUnchanged
  <1>12. CASE MakeRoom
    <2>1. /\ room' = TRUE
          /\ UNCHANGED << phase, addresses, inputVars, routerVars, writes, pollOut, toServer,
                          inVars, worldVars >>
      BY <1>12 DEF MakeRoom
    <2>2. OutOK'
      BY <1>0, <2>1 DEF OutOK
    <2>3. PhaseOK'
      BY <1>0, <2>1 DEF PhaseOK, NothingBeforeConnection, worldVars
    <2> QED BY <1>0, <2>1, <2>2, <2>3, InputUnchanged, RouterUnchanged, InUnchanged,
               WorldUnchanged
  <1>13. CASE UNCHANGED clientVars
    <2>1. UNCHANGED << phase, addresses, inputVars, routerVars, outVars, inVars, worldVars >>
      BY <1>13 DEF clientVars, inputVars, routerVars, outVars, inVars, worldVars
    <2>2. PhaseOK'
      BY <1>0, <2>1 DEF PhaseOK, NothingBeforeConnection, outVars, worldVars
    <2> QED BY <1>0, <2>1, <2>2, InputUnchanged, RouterUnchanged, OutUnchanged, InUnchanged,
               WorldUnchanged
  <1> QED BY <1>1, <1>2, <1>3, <1>4, <1>5, <1>6, <1>7, <1>8, <1>9, <1>10, <1>11,
             <1>12, <1>13, <1>14, <1>15 DEF ClientNext, Process, World

-------------------------------------------------------------------------------
(* The stream *)

\* The ways in which a step changes what is on its way to the client, with
\* the state that interprets it: not at all; the process is gone, and the
\* stream with it or no longer filled; the first frame is routed; the server
\* sends more; the server's end cuts it.
StreamKept ==
    /\ stream' = stream /\ UNCHANGED << listCtx, loggedIn, session >>
    /\ phase' = "running" => phase = "running" \/ session = FALSE
    /\ server' = "up" => server = "up"
StreamDropped ==
    /\ phase' # "running"
    /\ stream' = << >> \/ (stream' = stream /\ listCtx' = listCtx)
StreamRouted ==
    /\ stream # << >> /\ stream' = Tail(stream) /\ UNCHANGED << session, server, phase >>
    /\ listCtx' = contextAfter(listCtx, Head(stream))
    /\ loggedIn' = (loggedIn \/ logsIn(Head(stream)))
StreamGrows ==
    \E a \in Seq(Frame) :
        /\ stream' = stream \o a /\ SelfContained(a)
        /\ UNCHANGED << listCtx, loggedIn, server, phase >>
        /\ session' = TRUE => session = TRUE \/ Announced(a)
StreamCut ==
    \E a \in Seq(Frame) : stream = stream' \o a /\ listCtx' = listCtx /\ session' = FALSE

\* A stream from which the read buffer has lost its first frame.
LEMMA TailOfConcat ==
    ASSUME NEW s \in Seq(Frame), NEW t \in Seq(Frame), s # << >>
    PROVE  /\ s \o t # << >> /\ Head(s \o t) = Head(s)
           /\ Tail(s \o t) = Tail(s) \o t
  <1> DEFINE u == s \o t
             v == Tail(s) \o t
             w == Tail(u)
  <1>1. /\ u \in Seq(Frame) /\ Len(u) = Len(s) + Len(t)
        /\ \A i \in 1..(Len(s) + Len(t)) : u[i] = IF i <= Len(s) THEN s[i] ELSE t[i - Len(s)]
    BY ConcatProperties
  <1>2. /\ Tail(s) \in Seq(Frame) /\ Len(Tail(s)) = Len(s) - 1
        /\ \A i \in 1..Len(Tail(s)) : Tail(s)[i] = s[i + 1]
    BY HeadTailProperties
  <1>3. Len(s) \in Nat /\ Len(s) > 0 /\ Len(t) \in Nat
    OBVIOUS
  <1>4. /\ v \in Seq(Frame) /\ Len(v) = (Len(s) - 1) + Len(t)
        /\ \A i \in 1..((Len(s) - 1) + Len(t)) :
              v[i] = IF i <= Len(s) - 1 THEN Tail(s)[i] ELSE t[i - (Len(s) - 1)]
    BY <1>2, ConcatProperties
  <1> HIDE DEF u, v
  <1>5. u # << >>
    BY <1>1, <1>3
  <1>6. /\ w \in Seq(Frame) /\ Len(w) = Len(u) - 1
        /\ \A i \in 1..Len(w) : w[i] = u[i + 1]
    BY <1>1, <1>5, HeadTailProperties
  <1> HIDE DEF w
  <1>7. Len(w) = Len(v)
    BY <1>1, <1>3, <1>4, <1>6
  <1>8. ASSUME NEW i \in 1..Len(w)
        PROVE  w[i] = v[i]
    <2>1. /\ i \in 1..((Len(s) - 1) + Len(t)) /\ i + 1 \in 1..(Len(s) + Len(t))
          /\ (i + 1) - Len(s) = i - (Len(s) - 1)
      BY <1>1, <1>3, <1>6
    <2>2. w[i] = u[i + 1]
      BY <1>6
    <2>3. CASE i <= Len(s) - 1
      <3>1. u[i + 1] = s[i + 1]
        BY <2>1, <2>3, <1>1, <1>3
      <3>2. v[i] = s[i + 1]
        BY <2>1, <2>3, <1>2, <1>3, <1>4
      <3> QED BY <2>2, <3>1, <3>2
    <2>4. CASE ~ (i <= Len(s) - 1)
      <3>1. ~ (i + 1 <= Len(s))
        BY <2>4, <1>3
      <3>2. u[i + 1] = t[(i + 1) - Len(s)]
        BY <2>1, <3>1, <1>1
      <3>3. v[i] = t[i - (Len(s) - 1)]
        BY <2>1, <2>4, <1>4
      <3> QED BY <2>1, <2>2, <3>2, <3>3
    <2> QED BY <2>3, <2>4
  <1>9. w = v
    BY <1>4, <1>6, <1>7, <1>8, SeqEqual
  <1>10. Head(u) = Head(s)
    <2>1. Head(u) = u[1] /\ Head(s) = s[1]
      BY <1>1, <1>5
    <2>2. u[1] = s[1]
      BY <1>1, <1>3
    <2> QED BY <2>1, <2>2
  <1> QED BY <1>5, <1>9, <1>10 DEF u, v, w

\* Every step changes the stream in one of these ways.
LEMMA StreamSteps ==
    ASSUME ClientTypeOK, NothingBeforeConnection, [ClientNext]_clientVars
    PROVE  StreamKept \/ StreamDropped \/ StreamRouted \/ StreamGrows \/ StreamCut
  <1>0. /\ toClient \in Seq(Frame) /\ rbuf \in Seq(Frame)
        /\ session \in BOOLEAN
    BY DEF ClientTypeOK
  <1>a. stream \in Seq(Frame)
    BY <1>0, ConcatProperties DEF stream
  <1>b. ASSUME disconnect PROVE StreamDropped
    <2>1. rbuf' = << >> /\ toClient' = << >> /\ phase' = "left"
      BY <1>b DEF disconnect
    <2>2. << >> \o << >> = << >>
      OBVIOUS
    <2> QED BY <2>1, <2>2 DEF StreamDropped, stream
  <1>c. ASSUME UNCHANGED inVars PROVE stream' = stream
    BY <1>c DEF stream, inVars
  <1>d. ASSUME UNCHANGED << routerVars, inVars, worldVars, phase >> PROVE StreamKept
    BY <1>d, <1>c DEF StreamKept, routerVars, worldVars
  <1>e. ASSUME (\E l : dispatchCommandLine(l)) \/ getlineWaits, phase = "running",
               UNCHANGED << loggedIn, listCtx, inVars, session >>
        PROVE  StreamKept
    <2>1. server' = server \/ server' = "reset"
      BY <1>e DEF getlineWaits, dispatchCommandLine, sendCommandFrame, flushPendingWrites
    <2> QED BY <2>1, <1>e, <1>c DEF StreamKept
  <1>1. CASE connectTo
    <2>1. session = FALSE
      BY <1>1 DEF connectTo, NothingBeforeConnection
    <2> QED BY <1>1, <1>c, <2>1 DEF connectTo, StreamKept, routerVars, worldVars
  <1>2. CASE handleStdinEvent
    <2>1. phase = "running" /\ session' = session
      BY <1>2 DEF handleStdinEvent, Polling
    <2>2. CASE disconnect
      BY <2>2, <1>b
    <2>3. CASE UNCHANGED << phase, routerVars, inVars, server >>
      BY <2>1, <2>3, <1>c DEF StreamKept, routerVars
    <2>4. CASE /\ (\E l \in Typed : dispatchCommandLine(l)) \/ getlineWaits
               /\ UNCHANGED << loggedIn, listCtx, inVars >>
      BY <2>1, <2>4, <1>e
    <2> QED BY <1>2, <2>2, <2>3, <2>4 DEF handleStdinEvent
  <1>14. CASE getlineGoesOn
    <2>1. /\ phase = "running" /\ session' = session
          /\ UNCHANGED << loggedIn, listCtx, inVars >>
          /\ (\E l \in Typed \cup {"rejected"} : dispatchCommandLine(l)) \/ getlineWaits
      BY <1>14 DEF getlineGoesOn
    <2> QED BY <2>1, <1>e
  <1>3. CASE handleServerHangup
    BY <1>3, <1>b DEF handleServerHangup
  <1>4. CASE handleServerWritable
    <2>1. /\ flushPendingWrites(writes) /\ phase = "running"
          /\ UNCHANGED << routerVars, inVars, session >>
      BY <1>4 DEF handleServerWritable, Polling
    <2>2. server' = server \/ server' = "reset"
      BY <2>1 DEF flushPendingWrites
    <2> QED BY <2>1, <2>2, <1>c DEF StreamKept, routerVars
  <1>5. CASE handleServerReadable
    <2>1. UNCHANGED << routerVars, worldVars >> /\ phase = "running" /\ rbuf = << >>
      BY <1>5 DEF handleServerReadable, Polling
    <2>2. CASE readFrames /\ UNCHANGED << phase, outVars >>
      <3>1. stream' = toClient
        BY <2>2, <1>0, ReadTypes DEF stream
      <3>2. stream = toClient
        BY <2>1, <1>0, ConcatEmptySeq DEF stream
      <3> QED BY <2>1, <2>2, <3>1, <3>2 DEF StreamKept, routerVars, worldVars
    <2>3. CASE disconnect
      BY <2>3, <1>b
    <2> QED BY <1>5, <2>2, <2>3 DEF handleServerReadable
  <1>6. CASE routeFrame
    <2> DEFINE f == Head(rbuf)
    <2>1. /\ rbuf # << >> /\ UNCHANGED worldVars
          /\ listCtx' = contextAfter(listCtx, f)
          /\ loggedIn' = ((loggedIn \/ logsIn(f)) /\ ~ logsOut(f))
      BY <1>6 DEF routeFrame, contextAfter
    <2>2. CASE disconnect
      BY <2>2, <1>b
    <2>3. CASE ~ logsOut(f) /\ rbuf' = Tail(rbuf) /\ UNCHANGED << phase, outVars, toClient >>
      <3>1. stream # << >> /\ Head(stream) = f /\ Tail(stream) = Tail(rbuf) \o toClient
        BY <2>1, <1>0, TailOfConcat DEF stream
      <3>2. stream' = Tail(rbuf) \o toClient
        BY <2>3 DEF stream
      <3>3. loggedIn' = (loggedIn \/ logsIn(f))
        BY <2>1, <2>3
      <3> HIDE DEF f
      <3>4. loggedIn' = (loggedIn \/ logsIn(Head(stream)))
        BY <3>1, <3>3
      <3> QED BY <2>1, <2>3, <3>1, <3>2, <3>4 DEF StreamRouted, worldVars
    <2> QED BY <1>6, <2>2, <2>3 DEF routeFrame
  <1>7. CASE \E l \in Typed : Type(l)
    BY <1>7, <1>d DEF Type
  <1>8. CASE CloseStdin
    BY <1>8, <1>d DEF CloseStdin
  <1>15. CASE BeginLine
    BY <1>15, <1>d DEF BeginLine
  <1>9. CASE ServerAnswers
    <2> DEFINE cmd == Head(toServer)
    <2>1. toServer \in Seq(ServerCommands) /\ toServer # << >> /\ server = "up"
      BY <1>9 DEF ServerAnswers, ClientTypeOK
    <2>2. cmd \in ServerCommands
      BY <2>1, HeadTailProperties
    <2>3. PICK a \in answersNow(cmd) :
             toClient' = IF phase = "running" THEN toClient \o a ELSE toClient
      BY <1>9 DEF ServerAnswers, answersNow
    <2>4. session' = CASE cmd = "/login" -> TRUE [] cmd = "/logout" -> FALSE
                       [] OTHER -> session
      BY <1>9 DEF ServerAnswers
    <2>5. rbuf' = rbuf /\ UNCHANGED << listCtx, loggedIn, server, phase >>
      BY <1>9 DEF ServerAnswers, routerVars
    <2> HIDE DEF cmd
    <2>6. /\ a \in Seq(Frame) /\ SelfContained(a)
          /\ ~ session /\ cmd = "/login" => Announced(a)
      BY <2>2, AnswersNow
    <2>7. session' = TRUE => session = TRUE \/ Announced(a)
      BY <2>4, <2>6, <1>0
    <2>8. CASE phase = "running"
      <3>1. stream' = rbuf \o (toClient \o a)
        BY <2>3, <2>5, <2>8 DEF stream
      <3>2. stream' = stream \o a
        BY <3>1, <2>6, <1>0, ConcatAssociative, SMTT(30) DEF stream
      <3> QED BY <2>5, <2>6, <2>7, <3>2 DEF StreamGrows
    <2>9. CASE phase # "running"
      <3>1. toClient' = toClient /\ phase' # "running"
        BY <2>3, <2>5, <2>9
      <3>2. stream' = stream
        BY <3>1, <2>5 DEF stream
      <3> QED BY <2>5, <3>1, <3>2 DEF StreamDropped
    <2> QED BY <2>8, <2>9
  <1>10. CASE ServerEvent
    <2> DEFINE f == frame("SHOW", "")
    <2>1. f \in Frame /\ f.kind # "210"
      BY FrameOf DEF Kinds
    <2>2. /\ toClient' = Append(toClient, f) /\ rbuf' = rbuf
          /\ UNCHANGED << listCtx, loggedIn, server, phase, session >>
      BY <1>10 DEF ServerEvent, routerVars
    <2> HIDE DEF f
    <2>3. << f >> \in Seq(Frame) /\ SelfContained(<< f >>)
      BY <2>1, ShortAnswer
    <2>4. toClient' = toClient \o << f >>
      BY <2>1, <2>2, <1>0, AppendIsConcat
    <2>5. stream' = stream \o << f >>
      BY <2>2, <2>3, <2>4, <1>0, ConcatAssociative DEF stream
    <2> QED BY <2>2, <2>3, <2>5 DEF StreamGrows
  <1>11. CASE ServerStops
    <2>1. session' = FALSE /\ rbuf' = rbuf /\ listCtx' = listCtx
      BY <1>11 DEF ServerStops, routerVars
    <2>2. CASE toClient' = toClient
      <3>1. stream = stream' \o << >>
        BY <2>1, <2>2, <1>a, ConcatEmptySeq DEF stream
      <3>2. << >> \in Seq(Frame)
        OBVIOUS
      <3> QED BY <2>1, <3>1, <3>2 DEF StreamCut
    <2>3. CASE toClient' = << >>
      <3>1. stream' = rbuf
        BY <2>1, <2>3, <1>0, ConcatEmptySeq DEF stream
      <3>2. stream = stream' \o toClient
        BY <3>1 DEF stream
      <3> QED BY <2>1, <3>2, <1>0 DEF StreamCut
    <2> QED BY <1>11, <2>2, <2>3 DEF ServerStops
  <1>12. CASE MakeRoom
    BY <1>12, <1>d DEF MakeRoom
  <1>13. CASE UNCHANGED clientVars
    BY <1>13, <1>d DEF clientVars, routerVars, inVars, worldVars
  <1> QED BY <1>1, <1>2, <1>3, <1>4, <1>5, <1>6, <1>7, <1>8, <1>9, <1>10, <1>11,
             <1>12, <1>13, <1>14, <1>15 DEF ClientNext, Process, World

-------------------------------------------------------------------------------
(* The invariants *)

\* Every 210 line on its way stays in its list.
LEMMA ListedStep ==
    ASSUME ClientInv, [ClientNext]_clientVars
    PROVE  Listed(listCtx', stream')
  <1>1. /\ ClientTypeOK /\ NothingBeforeConnection
        /\ Listed(listCtx, stream)
    BY DEF ClientInv
  <1>2. stream \in Seq(Frame)
    BY <1>1, ConcatProperties DEF stream, ClientTypeOK
  <1>3. stream' \in Seq(Frame)
    <2>1. ClientTypeOK'
      BY <1>1, ClientTypesStep
    <2>2. rbuf' \in Seq(Frame) /\ toClient' \in Seq(Frame)
      BY <2>1 DEF ClientTypeOK
    <2> QED BY <2>2, ConcatProperties DEF stream
  <1>4. CASE StreamKept
    BY <1>1, <1>4 DEF StreamKept
  <1>5. CASE StreamDropped
    BY <1>1, <1>5, ListedEmpty DEF StreamDropped
  <1>6. CASE StreamRouted
    BY <1>1, <1>2, <1>6, ListedTail DEF StreamRouted
  <1>7. CASE StreamGrows
    BY <1>1, <1>2, <1>7, ListedConcat DEF StreamGrows
  <1>8. CASE StreamCut
    BY <1>1, <1>3, <1>8, ListedPrefix DEF StreamCut
  <1> QED BY <1>1, <1>4, <1>5, <1>6, <1>7, <1>8, StreamSteps

\* The answer to /login stays on its way until it is routed.
LEMMA LoginStep ==
    ASSUME ClientInv, [ClientNext]_clientVars
    PROVE  LoginIsOnItsWay'
  <1> SUFFICES ASSUME phase' = "running", server' = "up", session' = TRUE
               PROVE  loggedIn' = TRUE \/ Announced(stream')
    BY DEF LoginIsOnItsWay
  <1>1. ClientTypeOK /\ NothingBeforeConnection /\ LoginIsOnItsWay
    BY DEF ClientInv
  <1>2. stream \in Seq(Frame)
    BY <1>1, ConcatProperties DEF stream, ClientTypeOK
  <1>3. CASE StreamKept
    <2>1. session = TRUE /\ server = "up" /\ phase = "running"
      BY <1>3 DEF StreamKept
    <2>2. loggedIn = TRUE \/ Announced(stream)
      BY <1>1, <2>1 DEF LoginIsOnItsWay
    <2>3. loggedIn' = loggedIn /\ stream' = stream
      BY <1>3 DEF StreamKept
    <2> QED BY <2>2, <2>3
  <1>4. CASE StreamDropped
    BY <1>4 DEF StreamDropped
  <1>5. CASE StreamRouted
    <2>1. session = TRUE /\ server = "up" /\ phase = "running"
      BY <1>5 DEF StreamRouted
    <2>2. loggedIn = TRUE \/ Announced(stream)
      BY <1>1, <2>1 DEF LoginIsOnItsWay
    <2>3. /\ stream # << >> /\ stream' = Tail(stream)
          /\ loggedIn' = (loggedIn \/ logsIn(Head(stream)))
      BY <1>5 DEF StreamRouted
    <2>4. CASE loggedIn = TRUE
      BY <2>3, <2>4
    <2>5. CASE Head(stream).kind = "LOGIN"
      <3>1. logsIn(Head(stream))
        BY <2>5 DEF logsIn
      <3> QED BY <2>3, <3>1
    <2>6. CASE Announced(stream) /\ Head(stream).kind # "LOGIN"
      BY <1>2, <2>3, <2>6, AnnouncedTail
    <2> QED BY <2>2, <2>4, <2>5, <2>6
  <1>6. CASE StreamGrows
    <2>1. PICK a \in Seq(Frame) :
             /\ stream' = stream \o a
             /\ UNCHANGED << listCtx, loggedIn, server, phase >>
             /\ session' = TRUE => session = TRUE \/ Announced(a)
      BY <1>6 DEF StreamGrows
    <2>2. loggedIn = TRUE \/ Announced(stream) \/ Announced(a)
      BY <1>1, <2>1 DEF LoginIsOnItsWay
    <2> QED BY <1>2, <2>1, <2>2, AnnouncedConcat
  <1>7. CASE StreamCut
    BY <1>7 DEF StreamCut
  <1> QED BY <1>1, <1>3, <1>4, <1>5, <1>6, <1>7, StreamSteps

LEMMA ClientInitially == ClientInit => ClientInv
  <1> SUFFICES ASSUME ClientInit PROVE ClientInv
    OBVIOUS
  <1>0. phase = "connecting" /\ addresses \in 1..MaxAddresses
    BY DEF ClientInit
  <1>1. ClientTypeOK /\ NothingBeforeConnection
    <2>a. << >> \in Seq(Typed) /\ << >> \in Seq(ServerCommands) /\ << >> \in Seq(Frame)
      OBVIOUS
    <2>b. 0 \in 0..MaxTyped /\ 0 \in 0..MaxEvents
      BY ClientBoundsAssumption
    <2>1. InputOK
      <3>1. cin = << >> /\ tty = << >> /\ stdinPolled = FALSE /\ stdin \in {"pipe", "file"}
            /\ typed = 0 /\ partial = "none" /\ reading = FALSE
        BY DEF ClientInit
      <3> QED BY <3>1, <2>a, <2>b DEF InputOK
    <2>2. RouterOK /\ WorldOK
      <3>1. pending = "" /\ loggedIn = FALSE /\ listCtx = "" /\ server = "up"
            /\ session = FALSE /\ events = 0
        BY DEF ClientInit
      <3> QED BY <3>1, <2>b DEF RouterOK, WorldOK
    <2>3. OutOK /\ InOK
      <3>1. writes = << >> /\ pollOut = FALSE /\ toServer = << >> /\ room = TRUE
            /\ toClient = << >> /\ rbuf = << >>
        BY DEF ClientInit
      <3> QED BY <3>1, <2>a DEF OutOK, InOK
    <2>4. NothingBeforeConnection
      <3>1. toServer = << >> /\ session = FALSE
        BY DEF ClientInit
      <3> QED BY <1>0, <3>1, ClientBoundsAssumption DEF NothingBeforeConnection
    <2>5. PhaseOK
      BY <1>0, <2>4, ClientBoundsAssumption DEF PhaseOK
    <2> QED BY <2>1, <2>2, <2>3, <2>5, Groups
  <1>2. stream = << >>
    <2>1. << >> \o << >> = << >>
      OBVIOUS
    <2> QED BY <2>1 DEF ClientInit, stream
  <1>3. Listed(listCtx, stream)
    BY <1>2, ListedEmpty
  <1>4. LoginIsOnItsWay
    BY <1>0 DEF LoginIsOnItsWay
  <1> QED BY <1>1, <1>3, <1>4 DEF ClientInv

\* The inductive invariant holds in every reachable state of the client.
THEOREM ClientInvariant == ClientSpec => []ClientInv
  <1>1. ClientInv /\ [ClientNext]_clientVars => ClientInv'
    <2> SUFFICES ASSUME ClientInv, [ClientNext]_clientVars PROVE ClientInv'
      OBVIOUS
    <2>1. ClientTypeOK' /\ NothingBeforeConnection'
      BY ClientTypesStep DEF ClientInv
    <2>2. Listed(listCtx', stream')
      BY ListedStep
    <2>3. LoginIsOnItsWay'
      BY LoginStep
    <2> QED BY <2>1, <2>2, <2>3 DEF ClientInv, Listed
  <1> QED BY <1>1, ClientInitially, PTL DEF ClientSpec

\* The client's state is well typed in every reachable state, and nothing is
\* queued for a socket that is closed.
THEOREM ClientTypeCorrect == ClientSpec => []ClientTypeOK
  <1>1. ClientInv => ClientTypeOK
    BY DEF ClientInv
  <1> QED BY <1>1, ClientInvariant, PTL

\* ServerMessageRouter hands every line of a list to the handler of its own
\* list, for any answers and events, however they are cut into reads.
THEOREM ListLinesStayInTheirList == ClientSpec => []ListLinesKeepTheirKind
  <1>1. ClientInv => ListLinesKeepTheirKind
    <2> SUFFICES ASSUME ClientInv, rbuf # << >>, Head(rbuf).kind = "210"
                 PROVE  listCtx = Head(rbuf).list
      BY DEF ListLinesKeepTheirKind
    <2>1. rbuf \in Seq(Frame) /\ toClient \in Seq(Frame) /\ Listed(listCtx, stream)
      BY DEF ClientInv, ClientTypeOK
    <2>2. Listed(listCtx, rbuf)
      BY <2>1, ListedPrefix DEF stream
    <2>3. 1 \in 1..Len(rbuf) /\ Head(rbuf) = rbuf[1]
      BY <2>1
    <2> QED BY <2>2, <2>3 DEF Listed
  <1> QED BY <1>1, ClientInvariant, PTL

\* When nothing is on its way, a client on whose connection the server has a
\* user knows that it is logged in.
THEOREM LoginsAreNoticed == ClientSpec => []LoginIsNoticed
  <1>1. ClientInv => LoginIsNoticed
    <2> SUFFICES ASSUME ClientInv, phase = "running", rbuf = << >>, server = "up", session,
                        toClient = << >>
                 PROVE  loggedIn
      BY DEF LoginIsNoticed
    <2>1. ClientTypeOK /\ LoginIsOnItsWay
      BY DEF ClientInv
    <2>2. session = TRUE
      BY <2>1 DEF ClientTypeOK
    <2>3. ~ Announced(stream)
      <3>1. << >> \o << >> = << >>
        OBVIOUS
      <3>2. stream = << >>
        BY <3>1 DEF stream
      <3> QED BY <3>2 DEF Announced
    <2>4. loggedIn = TRUE
      BY <2>1, <2>2, <2>3 DEF LoginIsOnItsWay
    <2> QED BY <2>4
  <1> QED BY <1>1, ClientInvariant, PTL
===============================================================================
