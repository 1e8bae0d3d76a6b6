------------------------------ MODULE TextProofs ------------------------------
(***************************************************************************)
(* What the loops of module Text compute, for every text. A loop over a    *)
(* text is a fold; its two equations (nothing, and one more item) come     *)
(* first, and the rest is induction on the text.                           *)
(*                                                                         *)
(* The induction principle is derived from WFMin, which speaks of a set:   *)
(* the least length at which a property fails.                             *)
(***************************************************************************)
EXTENDS Text, Integers, WellFoundedInduction, SequenceTheorems, FiniteSetTheorems, TLAPS

-------------------------------------------------------------------------------
(* Induction *)

\* A set of numbers has a least one.
LEMMA LeastNumber ==
    ASSUME NEW T, T \subseteq Nat, T # {}
    PROVE  \E x \in T : \A y \in T : x <= y
<1> DEFINE R == OpToRel(<, Nat)
<1>1. IsWellFoundedOn(R, Nat)
    BY NatLessThanWellFounded
<1>2. \A x, y \in Nat : << y, x >> \in R <=> y < x
    BY DEF OpToRel
<1> HIDE DEF R
<1>3. PICK x \in T : \A y \in T : ~ (<< y, x >> \in R)
    BY <1>1, WFMin
<1>4. \A y \in T : x \in Nat /\ y \in Nat /\ ~ (y < x)
    BY <1>2, <1>3
<1>5. \A y \in T : x <= y
    BY <1>4
<1> QED
    BY <1>5

\* Induction on the numbers up to n.
LEMMA Induction ==
    ASSUME NEW n \in Nat, NEW S, 0 \in S, \A i \in 0..n - 1 : i \in S => i + 1 \in S
    PROVE  \A i \in 0..n : i \in S
<1> DEFINE T == (0..n) \ S
<1> SUFFICES ASSUME T # {} PROVE FALSE
    OBVIOUS
<1>1. T \subseteq Nat
    OBVIOUS
<1>2. \E x \in T : \A y \in T : x <= y
  <2> HIDE DEF T
  <2> QED BY <1>1, LeastNumber
<1>3. PICK x \in T : \A y \in T : x <= y
    BY <1>2
<1>4. x # 0
    OBVIOUS
<1>5. x - 1 \in 0..n - 1 /\ x - 1 \in S
    BY <1>3, <1>4
<1> QED
    BY <1>5

\* A text with one more item, and without its last one.
LEMMA Appended ==
    ASSUME NEW C, NEW s \in Seq(C), NEW c \in C
    PROVE  /\ Append(s, c) \in Seq(C)
           /\ Append(s, c) # << >>
           /\ Len(Append(s, c)) = Len(s) + 1
           /\ Append(s, c)[Len(s) + 1] = c
           /\ \A i \in 1..Len(s) : Append(s, c)[i] = s[i]
           /\ Front(Append(s, c)) = s
           /\ Last(Append(s, c)) = c
           /\ Append(s, c) = s \o << c >>
    BY DEF Front, Last

LEMMA AppendedEnds ==
    ASSUME NEW C, NEW s \in Seq(C), NEW c \in C
    PROVE  /\ Append(s, c) \in Seq(C) /\ Append(s, c) # << >>
           /\ Front(Append(s, c)) = s /\ Last(Append(s, c)) = c
    BY DEF Front, Last

LEMMA Unappended ==
    ASSUME NEW C, NEW s \in Seq(C), s # << >>
    PROVE  /\ Front(s) \in Seq(C)
           /\ Last(s) \in C
           /\ s = Append(Front(s), Last(s))
           /\ Len(Front(s)) = Len(s) - 1
           /\ \A i \in 1..Len(s) - 1 : Front(s)[i] = s[i]
<1>1. Len(s) \in Nat /\ Len(s) >= 1
    OBVIOUS
<1>2. Front(s) \in Seq(C) /\ Len(Front(s)) = Len(s) - 1
  <2> DEFINE n == Len(s) - 1
  <2>1. \A i \in 1..n : s[i] \in C
      BY <1>1
  <2>2. n \in Int /\ n >= 0
      BY <1>1
  <2> HIDE DEF n
  <2>3. SubSeq(s, 1, n) \in Seq(C) /\ Len(SubSeq(s, 1, n)) = IF 1 <= n THEN n - 1 + 1 ELSE 0
      BY <2>1, <2>2, SubSeqProperties
  <2>4. Len(SubSeq(s, 1, n)) = n
      BY <2>2, <2>3
  <2>5. Front(s) = SubSeq(s, 1, n)
      BY DEF Front, n
  <2> QED
      BY <2>3, <2>4, <2>5 DEF n
<1>3. \A i \in 1..Len(s) - 1 : Front(s)[i] = s[i]
    BY <1>1 DEF Front
<1>4. Last(s) \in C
    BY <1>1 DEF Last
<1>5. s = Append(Front(s), Last(s))
  <2> DEFINE t == Append(Front(s), Last(s))
  <2>1. t \in Seq(C) /\ Len(t) = Len(s)
      BY <1>1, <1>2, <1>4
  <2>2. ASSUME NEW i \in 1..Len(s) PROVE t[i] = s[i]
      BY <1>1, <1>2, <1>3, <1>4 DEF Last
  <2> QED
      BY <2>1, <2>2, SeqEqual
<1> QED
    BY <1>2, <1>3, <1>4, <1>5

\* Induction on texts: what holds of the empty one and with one more item
\* holds of all.
LEMMA TextInduction ==
    ASSUME NEW C, NEW S, << >> \in S, \A s \in Seq(C), c \in C : s \in S => Append(s, c) \in S
    PROVE  Seq(C) \subseteq S
<1> DEFINE T == {Len(s) : s \in Seq(C) \ S}
<1> SUFFICES ASSUME NEW r \in Seq(C), r \notin S PROVE FALSE
    OBVIOUS
<1>1. T \subseteq Nat /\ Len(r) \in T
    OBVIOUS
<1>2. \E x \in T : \A y \in T : x <= y
  <2> HIDE DEF T
  <2> QED BY <1>1, LeastNumber
<1>3. PICK s \in Seq(C) \ S : \A y \in T : Len(s) <= y
    BY <1>2
<1>4. s # << >>
    OBVIOUS
<1>5. Front(s) \in Seq(C) /\ Last(s) \in C /\ s = Append(Front(s), Last(s))
      /\ Len(Front(s)) = Len(s) - 1
    BY <1>4, Unappended
<1>6. Front(s) \in S
    BY <1>3, <1>5
<1> QED
    BY <1>5, <1>6

-------------------------------------------------------------------------------
(* Folds: F is the step as a function, from the states X and the items C *)

\* The state that follows the state a behind the item c.
step(F, a, c) == F[a][c]

\* The first state and all that follow are in X.
Closed(X, C, base, F) == base \in X /\ \A a \in X, c \in C : step(F, a, c) \in X

\* f has the state behind each item of s.
Run(F, base, s, f) ==
    f = [i \in 0..Len(s) |-> IF i = 0 THEN base ELSE step(F, f[i - 1], s[i])]

\* The state behind the last item.
RunEnd(F, base, s) == (CHOOSE f : Run(F, base, s, f))[Len(s)]

LEMMA RunValues ==
    ASSUME NEW X, NEW C, NEW base, NEW F, Closed(X, C, base, F), NEW s \in Seq(C),
           NEW f, Run(F, base, s, f)
    PROVE  /\ f[0] = base
           /\ \A i \in 1..Len(s) : f[i] = step(F, f[i - 1], s[i])
           /\ \A i \in 0..Len(s) : f[i] \in X
<1>1. f[0] = base /\ \A i \in 1..Len(s) : f[i] = step(F, f[i - 1], s[i])
    BY DEF Run
<1> DEFINE S == {i \in 0..Len(s) : f[i] \in X}
<1>2. 0 \in S
    BY <1>1 DEF Closed
<1>3. ASSUME NEW i \in 0..Len(s) - 1, i \in S PROVE i + 1 \in S
  <2>1. f[i + 1] = step(F, f[i], s[i + 1])
      BY <1>1
  <2>2. f[i] \in X /\ s[i + 1] \in C
      BY <1>3
  <2> QED
      BY <2>1, <2>2 DEF Closed
<1>4. \A i \in 0..Len(s) : i \in S
  <2> HIDE DEF S
  <2> QED BY <1>2, <1>3, Induction
<1> QED
    BY <1>1, <1>4

LEMMA RunExists ==
    ASSUME NEW X, NEW C, NEW base, NEW F, Closed(X, C, base, F), NEW s \in Seq(C)
    PROVE  \E f : Run(F, base, s, f)
<1> DEFINE n == Len(s)
           Good(f, m) == f[0] = base /\ \A i \in 1..m : f[i] = step(F, f[i - 1], s[i])
           S == {m \in 0..n : \E f \in [0..n -> X] : Good(f, m)}
<1>1. 0 \in S
  <2> DEFINE f == [i \in 0..n |-> base]
  <2>1. f \in [0..n -> X] /\ Good(f, 0)
      BY DEF Closed
  <2> QED
      BY <2>1
<1>2. ASSUME NEW m \in 0..n - 1, m \in S PROVE m + 1 \in S
  <2>1. PICK f \in [0..n -> X] : Good(f, m)
      BY <1>2
  <2> DEFINE g == [f EXCEPT ![m + 1] = step(F, f[m], s[m + 1])]
  <2>2. f[m] \in X /\ s[m + 1] \in C
      OBVIOUS
  <2>3. g \in [0..n -> X]
      BY <2>2 DEF Closed
  <2>4. Good(g, m + 1)
      BY <2>1
  <2> QED
      BY <2>3, <2>4
<1>3. \A m \in 0..n : m \in S
  <2>1. n \in Nat
      OBVIOUS
  <2> HIDE DEF S, n
  <2> QED BY <1>1, <1>2, <2>1, Induction
<1>4. PICK f \in [0..n -> X] : Good(f, n)
    BY <1>3
<1>5. \A i \in 0..n : f[i] = IF i = 0 THEN base ELSE step(F, f[i - 1], s[i])
    BY <1>4
<1>6. f = [i \in 0..n |-> IF i = 0 THEN base ELSE step(F, f[i - 1], s[i])]
    BY <1>5
<1> QED
    BY <1>6 DEF Run

LEMMA RunUnique ==
    ASSUME NEW X, NEW C, NEW base, NEW F, Closed(X, C, base, F), NEW s \in Seq(C),
           NEW f, Run(F, base, s, f), NEW g, g[0] = base,
           NEW n \in 0..Len(s), \A i \in 1..n : g[i] = step(F, g[i - 1], s[i])
    PROVE  g[n] = f[n]
<1> DEFINE S == {i \in 0..n : g[i] = f[i]}
<1>0. n \in Nat /\ f[0] = base /\ \A i \in 1..Len(s) : f[i] = step(F, f[i - 1], s[i])
    BY RunValues
<1>1. 0 \in S
    BY <1>0
<1>2. ASSUME NEW i \in 0..n - 1, i \in S PROVE i + 1 \in S
  <2>1. i + 1 \in 1..n /\ i + 1 \in 1..Len(s) /\ (i + 1) - 1 = i /\ i + 1 \in 0..n
      BY <1>0
  <2>2. g[i + 1] = step(F, g[i], s[i + 1]) /\ f[i + 1] = step(F, f[i], s[i + 1])
      BY <1>0, <2>1
  <2> QED
      BY <1>2, <2>1, <2>2
<1>3. \A i \in 0..n : i \in S
  <2> HIDE DEF S
  <2> QED BY <1>0, <1>1, <1>2, Induction
<1> QED
    BY <1>3

\* The two equations of a fold.
LEMMA FoldEquations ==
    ASSUME NEW X, NEW C, NEW base, NEW F, Closed(X, C, base, F)
    PROVE  /\ RunEnd(F, base, << >>) = base
           /\ \A s \in Seq(C) : RunEnd(F, base, s) \in X
           /\ \A s \in Seq(C), c \in C :
                 RunEnd(F, base, Append(s, c)) = step(F, RunEnd(F, base, s), c)
<1>1. ASSUME NEW s \in Seq(C)
      PROVE  \E f : Run(F, base, s, f) /\ RunEnd(F, base, s) = f[Len(s)]
  <2>1. \E f : Run(F, base, s, f)
      BY RunExists
  <2>2. Run(F, base, s, CHOOSE f : Run(F, base, s, f))
      BY <2>1, Zenon
  <2> QED
      BY <2>2 DEF RunEnd
<1>2. RunEnd(F, base, << >>) = base
  <2> DEFINE s == << >>
  <2>1. s \in Seq(C) /\ Len(s) = 0
      OBVIOUS
  <2> HIDE DEF s
  <2>2. PICK f : Run(F, base, s, f) /\ RunEnd(F, base, s) = f[Len(s)]
      BY <1>1, <2>1
  <2>3. f[0] = base
      BY <2>1, <2>2 DEF Run
  <2> QED
      BY <2>1, <2>2, <2>3 DEF s
<1>3. \A s \in Seq(C) : RunEnd(F, base, s) \in X
  <2> SUFFICES ASSUME NEW s \in Seq(C) PROVE RunEnd(F, base, s) \in X
      OBVIOUS
  <2>1. PICK f : Run(F, base, s, f) /\ RunEnd(F, base, s) = f[Len(s)]
      BY <1>1
  <2>2. Len(s) \in 0..Len(s)
      OBVIOUS
  <2> QED
      BY <2>1, <2>2, RunValues
<1>4. ASSUME NEW s \in Seq(C), NEW c \in C
      PROVE  RunEnd(F, base, Append(s, c)) = step(F, RunEnd(F, base, s), c)
  <2> DEFINE t == Append(s, c)
  <2>1. /\ t \in Seq(C) /\ Len(s) \in Nat /\ Len(t) = Len(s) + 1 /\ t[Len(s) + 1] = c
        /\ \A i \in 1..Len(s) : t[i] = s[i]
      BY Appended
  <2> HIDE DEF t
  <2>2. PICK f : Run(F, base, s, f) /\ RunEnd(F, base, s) = f[Len(s)]
      BY <1>1
  <2>3. PICK g : Run(F, base, t, g) /\ RunEnd(F, base, t) = g[Len(t)]
      BY <1>1, <2>1
  <2>4. g[0] = base /\ \A i \in 1..Len(t) : g[i] = step(F, g[i - 1], t[i])
      BY <2>1, <2>3, RunValues
  <2>5. \A i \in 1..Len(s) : g[i] = step(F, g[i - 1], s[i])
      BY <2>1, <2>4
  <2>6. g[Len(s)] = f[Len(s)]
    <3>1. Len(s) \in 0..Len(s)
        BY <2>1
    <3> QED
        BY <2>2, <2>4, <2>5, <3>1, RunUnique
  <2>7. g[Len(t)] = step(F, g[Len(s)], c)
      BY <2>1, <2>4
  <2> QED
      BY <2>2, <2>3, <2>6, <2>7 DEF t
<1> QED
    BY <1>2, <1>3, <1>4

\* A function that takes the same steps ends in the same state.
LEMMA SameEnd ==
    ASSUME NEW X, NEW C, NEW base, NEW F, Closed(X, C, base, F), NEW s \in Seq(C),
           NEW g, g[0] = base,
           \A i \in 1..Len(s) : g[i - 1] \in X => g[i] = step(F, g[i - 1], s[i])
    PROVE  g[Len(s)] = RunEnd(F, base, s)
<1>1. Len(s) \in Nat
    OBVIOUS
<1> DEFINE S == {i \in 0..Len(s) : g[i] \in X}
<1>2. 0 \in S
    BY <1>1 DEF Closed
<1>3. ASSUME NEW i \in 0..Len(s) - 1, i \in S PROVE i + 1 \in S
  <2>1. i + 1 \in 1..Len(s) /\ (i + 1) - 1 = i /\ i + 1 \in 0..Len(s)
      BY <1>1
  <2>2. g[i] \in X /\ s[i + 1] \in C
      BY <1>3, <2>1
  <2>3. g[i + 1] = step(F, g[i], s[i + 1])
      BY <2>1, <2>2
  <2> QED
      BY <2>1, <2>2, <2>3 DEF Closed
<1>4. \A i \in 0..Len(s) : i \in S
  <2> HIDE DEF S
  <2> QED BY <1>1, <1>2, <1>3, Induction
<1>5. \A i \in 1..Len(s) : g[i] = step(F, g[i - 1], s[i])
  <2> SUFFICES ASSUME NEW i \in 1..Len(s) PROVE g[i] = step(F, g[i - 1], s[i])
      OBVIOUS
  <2>1. i - 1 \in 0..Len(s)
      BY <1>1
  <2> QED
      BY <1>4, <2>1
<1>6. Run(F, base, s, CHOOSE f : Run(F, base, s, f))
    BY RunExists, Zenon
<1>7. Len(s) \in 0..Len(s)
    BY <1>1
<1> QED
    BY <1>5, <1>6, <1>7, RunUnique DEF RunEnd

LEMMA The == ASSUME NEW v PROVE the({v}) = v
    BY DEF the

-------------------------------------------------------------------------------
(* The words of a text *)

Word(C) == Seq(C \ Spaces) \ {<< >>}

WordStates(C) == {a \in [ws : Seq(Word(C)), in : BOOLEAN] : a.in => a.ws # << >>}

NoWords == [ws |-> << >>, in |-> FALSE]

wordNext(a, c) == the({wordStep(b, c) : b \in {a}})

WordRun(s, f) ==
    f = [i \in 0..Len(s) |-> IF i = 0 THEN NoWords ELSE wordNext(f[i - 1], s[i])]

LEMMA WordStepType ==
    ASSUME NEW C, NEW a \in WordStates(C), NEW c \in C
    PROVE  wordStep(a, c) \in WordStates(C)
<1>1. a.ws \in Seq(Word(C)) /\ a.in \in BOOLEAN /\ (a.in => a.ws # << >>)
    BY DEF WordStates
<1>2. CASE c \in Spaces
    BY <1>1, <1>2 DEF WordStates, wordStep
<1>3. CASE c \notin Spaces /\ a.in
  <2>1. Front(a.ws) \in Seq(Word(C)) /\ Last(a.ws) \in Word(C)
      BY <1>1, <1>3, Unappended
  <2>2. c \in C \ Spaces /\ Last(a.ws) \in Seq(C \ Spaces)
      BY <1>3, <2>1 DEF Word
  <2>3. Append(Last(a.ws), c) \in Word(C)
      BY <2>2, Appended DEF Word
  <2> DEFINE w == Append(Last(a.ws), c)
  <2> HIDE DEF w
  <2>4. w \in Word(C)
      BY <2>3 DEF w
  <2>5. Append(Front(a.ws), w) \in Seq(Word(C)) /\ Append(Front(a.ws), w) # << >>
      BY <2>1, <2>4, Appended
  <2> QED
      BY <1>3, <2>5 DEF WordStates, wordStep, w
<1>4. CASE c \notin Spaces /\ ~ a.in
  <2>1. << c >> \in Word(C)
      BY <1>4 DEF Word
  <2>2. Append(a.ws, << c >>) \in Seq(Word(C)) /\ Append(a.ws, << c >>) # << >>
      BY <1>1, <2>1, Appended
  <2> QED
      BY <1>4, <2>2 DEF WordStates, wordStep
<1> QED
    BY <1>1, <1>2, <1>3, <1>4

\* The equations of wordState.
LEMMA WordEquations ==
    ASSUME NEW C
    PROVE  /\ wordState(<< >>) = NoWords
           /\ \A s \in Seq(C) : wordState(s) \in WordStates(C)
           /\ \A s \in Seq(C), c \in C :
                 wordState(Append(s, c)) = wordStep(wordState(s), c)
<1> DEFINE X == WordStates(C)
           F == [a \in X |-> [c \in C |-> wordStep(a, c)]]
<1>1. \A a \in X, c \in C : step(F, a, c) = wordStep(a, c)
    BY DEF step
<1>2. Closed(X, C, NoWords, F)
  <2>1. NoWords \in X
      BY DEF WordStates, NoWords
  <2> QED
      BY <1>1, <2>1, WordStepType DEF Closed
<1> HIDE DEF F, X
<1>3. \A a, c : wordNext(a, c) = wordStep(a, c)
  <2> SUFFICES ASSUME NEW a, NEW c PROVE wordNext(a, c) = wordStep(a, c)
      OBVIOUS
  <2>1. {wordStep(b, c) : b \in {a}} = {wordStep(a, c)}
      OBVIOUS
  <2> QED
      BY <2>1, The DEF wordNext
<1>4. ASSUME NEW s \in Seq(C) PROVE wordState(s) = RunEnd(F, NoWords, s)
  <2> DEFINE run(t) == CHOOSE f : WordRun(t, f)
  <2>1. wordState(s) = the({run(t)[Len(t)] : t \in {s}})
      BY DEF wordState, fold, with, WordRun, NoWords, wordNext
  <2>2. PICK f : Run(F, NoWords, s, f)
      BY <1>2, RunExists
  <2>3. WordRun(s, f)
    <3>1. ASSUME NEW i \in 1..Len(s) PROVE step(F, f[i - 1], s[i]) = wordNext(f[i - 1], s[i])
      <4>1. i - 1 \in 0..Len(s) /\ s[i] \in C
          OBVIOUS
      <4>2. f[i - 1] \in X
          BY <1>2, <2>2, <4>1, RunValues
      <4> QED
          BY <1>1, <1>3, <4>1, <4>2
    <3>2. \A i \in 0..Len(s) : (IF i = 0 THEN NoWords ELSE step(F, f[i - 1], s[i]))
                             = (IF i = 0 THEN NoWords ELSE wordNext(f[i - 1], s[i]))
        BY <3>1
    <3> QED
        BY <2>2, <3>2 DEF Run, WordRun
  <2>4. WordRun(s, run(s))
      BY <2>3, Zenon
  <2> HIDE DEF run
  <2>5. wordState(s) = run(s)[Len(s)]
    <3>1. {run(t)[Len(t)] : t \in {s}} = {run(s)[Len(s)]}
        OBVIOUS
    <3> QED
        BY <2>1, <3>1, The
  <2>6. run(s)[0] = NoWords /\ \A i \in 1..Len(s) : run(s)[i] = wordNext(run(s)[i - 1], s[i])
      BY <2>4 DEF WordRun
  <2>7. \A i \in 1..Len(s) : run(s)[i - 1] \in X => run(s)[i] = step(F, run(s)[i - 1], s[i])
    <3>1. \A i \in 1..Len(s) : s[i] \in C
        OBVIOUS
    <3> QED
        BY <1>1, <1>3, <2>6, <3>1
  <2> QED
      BY <1>2, <2>5, <2>6, <2>7, SameEnd
<1>5. /\ RunEnd(F, NoWords, << >>) = NoWords
      /\ \A s \in Seq(C) : RunEnd(F, NoWords, s) \in X
      /\ \A s \in Seq(C), c \in C :
            RunEnd(F, NoWords, Append(s, c)) = step(F, RunEnd(F, NoWords, s), c)
    BY <1>2, FoldEquations
<1>6. << >> \in Seq(C) /\ \A s \in Seq(C), c \in C : Append(s, c) \in Seq(C)
    OBVIOUS
<1>7. wordState(<< >>) = NoWords /\ \A s \in Seq(C) : wordState(s) \in WordStates(C)
    BY <1>4, <1>5, <1>6 DEF X
<1>8. ASSUME NEW s \in Seq(C), NEW c \in C
      PROVE  wordState(Append(s, c)) = wordStep(wordState(s), c)
  <2>1. wordState(Append(s, c)) = RunEnd(F, NoWords, Append(s, c))
      BY <1>4, <1>6
  <2>2. wordState(s) = RunEnd(F, NoWords, s) /\ RunEnd(F, NoWords, s) \in X
      BY <1>4, <1>5
  <2>3. RunEnd(F, NoWords, Append(s, c)) = step(F, RunEnd(F, NoWords, s), c)
      BY <1>5
  <2> QED
      BY <1>1, <2>1, <2>2, <2>3
<1> QED
    BY <1>7, <1>8

-------------------------------------------------------------------------------
(* The arguments that words are split into *)

\* The characters of an argument.
ArgChars(C) == (C \ Spaces) \cup {Blank}
Arg(C) == Seq(ArgChars(C))

SplitStates(C) == [args : Seq(Arg(C)), open : BOOLEAN, arg : Arg(C), bare : BOOLEAN]

NoArgs == [args |-> << >>, open |-> FALSE, arg |-> << >>, bare |-> FALSE]

\* A word is an argument, also without its first or its last character.
LEMMA WordIsArg ==
    ASSUME NEW C, NEW w \in Word(C)
    PROVE  w \in Arg(C) /\ Tail(w) \in Arg(C) /\ Front(w) \in Arg(C)
           /\ (Len(w) > 1 => Front(Tail(w)) \in Arg(C))
<1>1. w \in Arg(C) /\ w # << >>
    BY DEF Word, Arg, ArgChars
<1>2. Tail(w) \in Arg(C) /\ Len(Tail(w)) = Len(w) - 1
    BY <1>1, HeadTailProperties DEF Arg
<1>3. Front(w) \in Arg(C)
    BY <1>1, Unappended DEF Arg
<1>4. Len(w) > 1 => Tail(w) # << >>
  <2>1. Len(w) \in Nat /\ Len(<< >>) = 0
      BY <1>1 DEF Arg
  <2> QED
      BY <1>2, <2>1
<1>5. Len(w) > 1 => Front(Tail(w)) \in Arg(C)
    BY <1>2, <1>4, Unappended DEF Arg
<1> QED
    BY <1>1, <1>2, <1>3, <1>5

\* An open argument goes on with a word.
Joined(a, w) == a \o << Blank >> \o w

LEMMA JoinedType ==
    ASSUME NEW C, NEW a \in Arg(C), NEW w \in Word(C)
    PROVE  /\ Joined(a, w) \in Arg(C) /\ Joined(a, w) # << >>
           /\ Last(Joined(a, w)) = Last(w)
           /\ Front(Joined(a, w)) = Joined(a, Front(w))
           /\ Joined(a, Front(w)) \in Arg(C)
<1>1. w \in Seq(ArgChars(C)) /\ w # << >> /\ a \in Seq(ArgChars(C)) /\ << Blank >> \in Seq(ArgChars(C))
    BY WordIsArg DEF Word, Arg, ArgChars
<1> DEFINE D == ArgChars(C)
           b == a \o << Blank >>
           v == Front(w)
           x == Last(w)
<1>2. v \in Seq(D) /\ x \in D /\ w = Append(v, x)
    BY <1>1, Unappended
<1>3. b \in Seq(D)
    BY <1>1
<1> HIDE DEF D, b, v, x
<1>4. b \o w = Append(b \o v, x) /\ b \o v \in Seq(D)
  <2>1. w = v \o << x >> /\ << x >> \in Seq(D)
      BY <1>2, Appended
  <2>2. b \o (v \o << x >>) = (b \o v) \o << x >> /\ b \o v \in Seq(D)
      BY <1>2, <1>3, <2>1, ConcatAssociative, ConcatProperties
  <2> QED
      BY <1>2, <2>1, <2>2, Appended
<1> DEFINE y == b \o v
<1>5. y \in Seq(D) /\ x \in D
    BY <1>2, <1>4
<1> HIDE DEF y
<1>6. Append(y, x) \in Seq(D) /\ Append(y, x) # << >>
      /\ Last(Append(y, x)) = x /\ Front(Append(y, x)) = y
    BY <1>5, AppendedEnds, Zenon
<1>7. Joined(a, w) = Append(y, x) /\ Joined(a, v) = y
    BY <1>4 DEF y, b, Joined
<1> QED
    BY <1>5, <1>6, <1>7 DEF Arg, v, x, D

LEMMA SplitWordType ==
    ASSUME NEW C, NEW a \in SplitStates(C), NEW w \in Word(C)
    PROVE  splitWord(a, w) \in SplitStates(C)
<1>1. a.args \in Seq(Arg(C)) /\ a.open \in BOOLEAN /\ a.arg \in Arg(C) /\ a.bare \in BOOLEAN
    BY DEF SplitStates
<1> DEFINE j == Joined(a.arg, w)
<1>2. j \in Arg(C) /\ Front(j) \in Arg(C) /\ << >> \in Arg(C)
  <2>1. << >> \in Arg(C)
      BY DEF Arg
  <2> QED
      BY <1>1, <2>1, JoinedType
<1>3. w \in Arg(C) /\ Tail(w) \in Arg(C) /\ (Len(w) > 1 => Front(Tail(w)) \in Arg(C))
    BY WordIsArg
<1>4. /\ Append(a.args, Front(j)) \in Seq(Arg(C))
      /\ Append(a.args, w) \in Seq(Arg(C))
      /\ Len(w) > 1 => Append(a.args, Front(Tail(w))) \in Seq(Arg(C))
  <2> HIDE DEF j
  <2> QED
      BY <1>1, <1>2, <1>3, AppendProperties
<1> HIDE DEF j
<1>5. CASE a.open /\ Last(w) = Quote
    BY <1>1, <1>2, <1>4, <1>5 DEF SplitStates, splitWord, j, Joined
<1>6. CASE a.open /\ Last(w) # Quote
    BY <1>1, <1>2, <1>4, <1>6 DEF SplitStates, splitWord, j, Joined
<1>7. CASE ~ a.open
    BY <1>1, <1>3, <1>4, <1>7 DEF SplitStates, splitWord
<1> QED
    BY <1>1, <1>5, <1>6, <1>7

splitNext(a, c) == the({splitWord(b, c) : b \in {a}})

SplitRun(s, f) ==
    f = [i \in 0..Len(s) |-> IF i = 0 THEN NoArgs ELSE splitNext(f[i - 1], s[i])]

\* The equations of splitWords.
LEMMA SplitEquations ==
    ASSUME NEW C
    PROVE  /\ splitWords(<< >>) = NoArgs
           /\ \A s \in Seq(Word(C)) : splitWords(s) \in SplitStates(C)
           /\ \A s \in Seq(Word(C)), c \in Word(C) :
                 splitWords(Append(s, c)) = splitWord(splitWords(s), c)
<1> DEFINE X == SplitStates(C)
           I == Word(C)
           F == [a \in X |-> [c \in I |-> splitWord(a, c)]]
<1>1. \A a \in X, c \in I : step(F, a, c) = splitWord(a, c)
  <2> HIDE DEF X, I
  <2> QED BY DEF step
<1>2. Closed(X, I, NoArgs, F)
  <2>1. NoArgs \in X
      BY DEF SplitStates, NoArgs, Arg
  <2>2. \A a \in X, c \in I : splitWord(a, c) \in X
      BY SplitWordType
  <2> QED
      BY <1>1, <2>1, <2>2 DEF Closed
<1> HIDE DEF F, X, I
<1>3. \A a, c : splitNext(a, c) = splitWord(a, c)
  <2> SUFFICES ASSUME NEW a, NEW c PROVE splitNext(a, c) = splitWord(a, c)
      OBVIOUS
  <2>1. {splitWord(b, c) : b \in {a}} = {splitWord(a, c)}
      OBVIOUS
  <2> QED
      BY <2>1, The DEF splitNext
<1>4. ASSUME NEW s \in Seq(I) PROVE splitWords(s) = RunEnd(F, NoArgs, s)
  <2> DEFINE run(t) == CHOOSE f : SplitRun(t, f)
  <2>1. splitWords(s) = the({run(t)[Len(t)] : t \in {s}})
      BY DEF splitWords, fold, with, SplitRun, splitNext, NoArgs
  <2>2. PICK f : Run(F, NoArgs, s, f)
      BY <1>2, RunExists
  <2>3. SplitRun(s, f)
    <3>1. ASSUME NEW i \in 1..Len(s) PROVE step(F, f[i - 1], s[i]) = splitNext(f[i - 1], s[i])
      <4>1. i - 1 \in 0..Len(s) /\ s[i] \in I
          OBVIOUS
      <4>2. f[i - 1] \in X
          BY <1>2, <2>2, <4>1, RunValues
      <4> QED
          BY <1>1, <1>3, <4>1, <4>2
    <3>2. \A i \in 0..Len(s) : (IF i = 0 THEN NoArgs ELSE step(F, f[i - 1], s[i]))
                             = (IF i = 0 THEN NoArgs ELSE splitNext(f[i - 1], s[i]))
        BY <3>1
    <3> QED
        BY <2>2, <3>2 DEF Run, SplitRun
  <2>4. SplitRun(s, run(s))
      BY <2>3, Zenon
  <2> HIDE DEF run
  <2>5. splitWords(s) = run(s)[Len(s)]
    <3>1. {run(t)[Len(t)] : t \in {s}} = {run(s)[Len(s)]}
        OBVIOUS
    <3> QED
        BY <2>1, <3>1, The
  <2>6. run(s)[0] = NoArgs /\ \A i \in 1..Len(s) : run(s)[i] = splitNext(run(s)[i - 1], s[i])
      BY <2>4 DEF SplitRun
  <2>7. \A i \in 1..Len(s) : run(s)[i - 1] \in X => run(s)[i] = step(F, run(s)[i - 1], s[i])
    <3>1. \A i \in 1..Len(s) : s[i] \in I
        OBVIOUS
    <3> QED
        BY <1>1, <1>3, <2>6, <3>1
  <2> QED
      BY <1>2, <2>5, <2>6, <2>7, SameEnd
<1>5. /\ RunEnd(F, NoArgs, << >>) = NoArgs
      /\ \A s \in Seq(I) : RunEnd(F, NoArgs, s) \in X
      /\ \A s \in Seq(I), c \in I :
            RunEnd(F, NoArgs, Append(s, c)) = step(F, RunEnd(F, NoArgs, s), c)
    BY <1>2, FoldEquations
<1>6. << >> \in Seq(I) /\ \A s \in Seq(I), c \in I : Append(s, c) \in Seq(I)
    OBVIOUS
<1>7. splitWords(<< >>) = NoArgs /\ \A s \in Seq(I) : splitWords(s) \in X
    BY <1>4, <1>5, <1>6
<1>8. ASSUME NEW s \in Seq(I), NEW c \in I
      PROVE  splitWords(Append(s, c)) = splitWord(splitWords(s), c)
  <2>1. splitWords(Append(s, c)) = RunEnd(F, NoArgs, Append(s, c))
      BY <1>4, <1>6
  <2>2. splitWords(s) = RunEnd(F, NoArgs, s) /\ RunEnd(F, NoArgs, s) \in X
      BY <1>4, <1>5
  <2>3. RunEnd(F, NoArgs, Append(s, c)) = step(F, RunEnd(F, NoArgs, s), c)
      BY <1>5
  <2> QED
      BY <1>1, <2>1, <2>2, <2>3
<1> QED
    BY <1>7, <1>8 DEF X, I

-------------------------------------------------------------------------------
(* The loop of hasUnquotedArgs *)

QuoteStates == {"between", "inside", "unquoted"}

quoteNext(a, c) == the({quoteStep(b, c) : b \in {a}})

QuoteRun(s, f) ==
    f = [i \in 0..Len(s) |-> IF i = 0 THEN "between" ELSE quoteNext(f[i - 1], s[i])]

\* The equations of quoteState.
LEMMA QuoteEquations ==
    ASSUME NEW C
    PROVE  /\ quoteState(<< >>) = "between"
           /\ \A s \in Seq(C) : quoteState(s) \in QuoteStates
           /\ \A s \in Seq(C), c \in C :
                 quoteState(Append(s, c)) = quoteStep(quoteState(s), c)
<1> DEFINE X == QuoteStates
           I == C
           F == [a \in X |-> [c \in I |-> quoteStep(a, c)]]
<1>1. \A a \in X, c \in I : step(F, a, c) = quoteStep(a, c)
  <2> HIDE DEF X, I
  <2> QED BY DEF step
<1>2. Closed(X, I, "between", F)
  <2>1. "between" \in X
      BY DEF QuoteStates
  <2>2. \A a \in X, c \in I : quoteStep(a, c) \in X
      BY DEF QuoteStates, quoteStep
  <2> QED
      BY <1>1, <2>1, <2>2 DEF Closed
<1> HIDE DEF F, X, I
<1>3. \A a, c : quoteNext(a, c) = quoteStep(a, c)
  <2> SUFFICES ASSUME NEW a, NEW c PROVE quoteNext(a, c) = quoteStep(a, c)
      OBVIOUS
  <2>1. {quoteStep(b, c) : b \in {a}} = {quoteStep(a, c)}
      OBVIOUS
  <2> QED
      BY <2>1, The DEF quoteNext
<1>4. ASSUME NEW s \in Seq(I) PROVE quoteState(s) = RunEnd(F, "between", s)
  <2> DEFINE run(t) == CHOOSE f : QuoteRun(t, f)
  <2>1. quoteState(s) = the({run(t)[Len(t)] : t \in {s}})
      BY DEF quoteState, fold, with, QuoteRun, quoteNext
  <2>2. PICK f : Run(F, "between", s, f)
      BY <1>2, RunExists
  <2>3. QuoteRun(s, f)
    <3>1. ASSUME NEW i \in 1..Len(s) PROVE step(F, f[i - 1], s[i]) = quoteNext(f[i - 1], s[i])
      <4>1. i - 1 \in 0..Len(s) /\ s[i] \in I
          OBVIOUS
      <4>2. f[i - 1] \in X
          BY <1>2, <2>2, <4>1, RunValues
      <4> QED
          BY <1>1, <1>3, <4>1, <4>2
    <3>2. \A i \in 0..Len(s) : (IF i = 0 THEN "between" ELSE step(F, f[i - 1], s[i]))
                             = (IF i = 0 THEN "between" ELSE quoteNext(f[i - 1], s[i]))
        BY <3>1
    <3> QED
        BY <2>2, <3>2 DEF Run, QuoteRun
  <2>4. QuoteRun(s, run(s))
      BY <2>3, Zenon
  <2> HIDE DEF run
  <2>5. quoteState(s) = run(s)[Len(s)]
    <3>1. {run(t)[Len(t)] : t \in {s}} = {run(s)[Len(s)]}
        OBVIOUS
    <3> QED
        BY <2>1, <3>1, The
  <2>6. run(s)[0] = "between" /\ \A i \in 1..Len(s) : run(s)[i] = quoteNext(run(s)[i - 1], s[i])
      BY <2>4 DEF QuoteRun
  <2>7. \A i \in 1..Len(s) : run(s)[i - 1] \in X => run(s)[i] = step(F, run(s)[i - 1], s[i])
    <3>1. \A i \in 1..Len(s) : s[i] \in I
        OBVIOUS
    <3> QED
        BY <1>1, <1>3, <2>6, <3>1
  <2> QED
      BY <1>2, <2>5, <2>6, <2>7, SameEnd
<1>5. /\ RunEnd(F, "between", << >>) = "between"
      /\ \A s \in Seq(I) : RunEnd(F, "between", s) \in X
      /\ \A s \in Seq(I), c \in I :
            RunEnd(F, "between", Append(s, c)) = step(F, RunEnd(F, "between", s), c)
    BY <1>2, FoldEquations
<1>6. << >> \in Seq(I) /\ \A s \in Seq(I), c \in I : Append(s, c) \in Seq(I)
    OBVIOUS
<1>7. quoteState(<< >>) = "between" /\ \A s \in Seq(I) : quoteState(s) \in X
    BY <1>4, <1>5, <1>6
<1>8. ASSUME NEW s \in Seq(I), NEW c \in I
      PROVE  quoteState(Append(s, c)) = quoteStep(quoteState(s), c)
  <2>1. quoteState(Append(s, c)) = RunEnd(F, "between", Append(s, c))
      BY <1>4, <1>6
  <2>2. quoteState(s) = RunEnd(F, "between", s) /\ RunEnd(F, "between", s) \in X
      BY <1>4, <1>5
  <2>3. RunEnd(F, "between", Append(s, c)) = step(F, RunEnd(F, "between", s), c)
      BY <1>5
  <2> QED
      BY <1>1, <2>1, <2>2, <2>3
<1> QED
    BY <1>7, <1>8 DEF X, I

-------------------------------------------------------------------------------
(* Escapes *)

EscapeStates(C) == Seq(C \cup {Backslash})

LEMMA EscapeStepType ==
    ASSUME NEW C, NEW t \in EscapeStates(C), NEW c \in C
    PROVE  escapeStep(t, c) \in EscapeStates(C)
<1>1. << Backslash, c >> \in EscapeStates(C) /\ << c >> \in EscapeStates(C)
    BY DEF EscapeStates
<1> QED
    BY <1>1, ConcatProperties DEF EscapeStates, escapeStep

escapeNext(a, c) == the({escapeStep(b, c) : b \in {a}})

EscapeRun(s, f) ==
    f = [i \in 0..Len(s) |-> IF i = 0 THEN << >> ELSE escapeNext(f[i - 1], s[i])]

\* The equations of escape.
LEMMA EscapeEquations ==
    ASSUME NEW C
    PROVE  /\ escape(<< >>) = << >>
           /\ \A s \in Seq(C) : escape(s) \in EscapeStates(C)
           /\ \A s \in Seq(C), c \in C :
                 escape(Append(s, c)) = escapeStep(escape(s), c)
<1> DEFINE X == EscapeStates(C)
           I == C
           F == [a \in X |-> [c \in I |-> escapeStep(a, c)]]
<1>1. \A a \in X, c \in I : step(F, a, c) = escapeStep(a, c)
  <2> HIDE DEF X, I
  <2> QED BY DEF step
<1>2. Closed(X, I, << >>, F)
  <2>1. << >> \in X
      BY DEF EscapeStates
  <2>2. \A a \in X, c \in I : escapeStep(a, c) \in X
      BY EscapeStepType
  <2> QED
      BY <1>1, <2>1, <2>2 DEF Closed
<1> HIDE DEF F, X, I
<1>3. \A a, c : escapeNext(a, c) = escapeStep(a, c)
  <2> SUFFICES ASSUME NEW a, NEW c PROVE escapeNext(a, c) = escapeStep(a, c)
      OBVIOUS
  <2>1. {escapeStep(b, c) : b \in {a}} = {escapeStep(a, c)}
      OBVIOUS
  <2> QED
      BY <2>1, The DEF escapeNext
<1>4. ASSUME NEW s \in Seq(I) PROVE escape(s) = RunEnd(F, << >>, s)
  <2> DEFINE run(t) == CHOOSE f : EscapeRun(t, f)
  <2>1. escape(s) = the({run(t)[Len(t)] : t \in {s}})
      BY DEF escape, fold, with, EscapeRun, escapeNext
  <2>2. PICK f : Run(F, << >>, s, f)
      BY <1>2, RunExists
  <2>3. EscapeRun(s, f)
    <3>1. ASSUME NEW i \in 1..Len(s) PROVE step(F, f[i - 1], s[i]) = escapeNext(f[i - 1], s[i])
      <4>1. i - 1 \in 0..Len(s) /\ s[i] \in I
          OBVIOUS
      <4>2. f[i - 1] \in X
          BY <1>2, <2>2, <4>1, RunValues
      <4> QED
          BY <1>1, <1>3, <4>1, <4>2
    <3>2. \A i \in 0..Len(s) : (IF i = 0 THEN << >> ELSE step(F, f[i - 1], s[i]))
                             = (IF i = 0 THEN << >> ELSE escapeNext(f[i - 1], s[i]))
        BY <3>1
    <3> QED
        BY <2>2, <3>2 DEF Run, EscapeRun
  <2>4. EscapeRun(s, run(s))
      BY <2>3, Zenon
  <2> HIDE DEF run
  <2>5. escape(s) = run(s)[Len(s)]
    <3>1. {run(t)[Len(t)] : t \in {s}} = {run(s)[Len(s)]}
        OBVIOUS
    <3> QED
        BY <2>1, <3>1, The
  <2>6. run(s)[0] = << >> /\ \A i \in 1..Len(s) : run(s)[i] = escapeNext(run(s)[i - 1], s[i])
      BY <2>4 DEF EscapeRun
  <2>7. \A i \in 1..Len(s) : run(s)[i - 1] \in X => run(s)[i] = step(F, run(s)[i - 1], s[i])
    <3>1. \A i \in 1..Len(s) : s[i] \in I
        OBVIOUS
    <3> QED
        BY <1>1, <1>3, <2>6, <3>1
  <2> QED
      BY <1>2, <2>5, <2>6, <2>7, SameEnd
<1>5. /\ RunEnd(F, << >>, << >>) = << >>
      /\ \A s \in Seq(I) : RunEnd(F, << >>, s) \in X
      /\ \A s \in Seq(I), c \in I :
            RunEnd(F, << >>, Append(s, c)) = step(F, RunEnd(F, << >>, s), c)
    BY <1>2, FoldEquations
<1>6. << >> \in Seq(I) /\ \A s \in Seq(I), c \in I : Append(s, c) \in Seq(I)
    OBVIOUS
<1>7. escape(<< >>) = << >> /\ \A s \in Seq(I) : escape(s) \in X
    BY <1>4, <1>5, <1>6
<1>8. ASSUME NEW s \in Seq(I), NEW c \in I
      PROVE  escape(Append(s, c)) = escapeStep(escape(s), c)
  <2>1. escape(Append(s, c)) = RunEnd(F, << >>, Append(s, c))
      BY <1>4, <1>6
  <2>2. escape(s) = RunEnd(F, << >>, s) /\ RunEnd(F, << >>, s) \in X
      BY <1>4, <1>5
  <2>3. RunEnd(F, << >>, Append(s, c)) = step(F, RunEnd(F, << >>, s), c)
      BY <1>5
  <2> QED
      BY <1>1, <2>1, <2>2, <2>3
<1> QED
    BY <1>7, <1>8 DEF X, I

-------------------------------------------------------------------------------
(* Concatenations *)

LEMMA Associative ==
    ASSUME NEW C, NEW a \in Seq(C), NEW b \in Seq(C), NEW c \in Seq(C)
    PROVE  a \o (b \o c) = (a \o b) \o c
<1> DEFINE P(x, y, z) == (x \o y) \o z = x \o (y \o z)
<1>1. \A S : \A x, y, z \in Seq(S) : P(x, y, z)
    BY ConcatAssociative, Zenon
<1> HIDE DEF P
<1>2. P(a, b, c)
    BY <1>1, Zenon
<1> QED
    BY <1>2, Zenon DEF P

\* The same law under a name of its own, for the steps that use it once.
Regroups(a, b, c) == a \o (b \o c) = (a \o b) \o c

LEMMA Regrouping ==
    ASSUME NEW C, NEW a \in Seq(C), NEW b \in Seq(C), NEW c \in Seq(C)
    PROVE  Regroups(a, b, c)
    BY Associative DEF Regroups

LEMMA ConcatAppend ==
    ASSUME NEW C, NEW a \in Seq(C), NEW b \in Seq(C), NEW c \in C
    PROVE  a \o Append(b, c) = Append(a \o b, c)
<1>1. << c >> \in Seq(C) /\ Append(b, c) = b \o << c >>
    BY Appended
<1>2. a \o b \in Seq(C)
    BY ConcatProperties
<1>3. Append(a \o b, c) = (a \o b) \o << c >>
    BY <1>2, Appended
<1> QED
    BY <1>1, <1>3, ConcatAssociative

LEMMA ConcatFrontLast ==
    ASSUME NEW C, NEW a \in Seq(C), NEW b \in Seq(C), b # << >>
    PROVE  /\ a \o b \in Seq(C) /\ a \o b # << >>
           /\ Front(a \o b) = a \o Front(b)
           /\ Last(a \o b) = Last(b)
<1> DEFINE v == Front(b)
           x == Last(b)
           y == a \o v
<1>1. v \in Seq(C) /\ x \in C /\ b = Append(v, x)
    BY Unappended
<1> HIDE DEF v, x
<1>2. y \in Seq(C)
    BY <1>1, ConcatProperties
<1>3. a \o b = Append(y, x)
    BY <1>1, ConcatAppend
<1> HIDE DEF y
<1>4. Append(y, x) \in Seq(C) /\ Append(y, x) # << >>
      /\ Front(Append(y, x)) = y /\ Last(Append(y, x)) = x
    BY <1>1, <1>2, AppendedEnds, Zenon
<1> QED
    BY <1>3, <1>4 DEF v, x, y

LEMMA WordStepIs ==
    ASSUME NEW a, NEW c
    PROVE  /\ wordStep(a, c).in <=> c \notin Spaces
           /\ c \in Spaces => wordStep(a, c).ws = a.ws
           /\ c \notin Spaces /\ a.in =>
                 wordStep(a, c).ws = Append(Front(a.ws), Append(Last(a.ws), c))
           /\ c \notin Spaces /\ ~ a.in => wordStep(a, c).ws = Append(a.ws, << c >>)
    BY DEF wordStep

\* A step behind other words.
LEMMA WordStepConcat ==
    ASSUME NEW C, NEW A \in Seq(Word(C)), NEW a \in WordStates(C), NEW c \in C,
           NEW b, b.ws = A \o a.ws, b.in <=> a.in
    PROVE  /\ wordStep(b, c).ws = A \o wordStep(a, c).ws
           /\ wordStep(b, c).in <=> wordStep(a, c).in
<1>1. a.ws \in Seq(Word(C)) /\ (a.in => a.ws # << >>)
    BY DEF WordStates
<1>2. wordStep(b, c).in <=> wordStep(a, c).in
    BY WordStepIs
<1>3. CASE c \in Spaces
    BY <1>2, <1>3, WordStepIs
<1>4. CASE c \notin Spaces /\ a.in
  <2> DEFINE f == Front(a.ws)
             w == Append(Last(a.ws), c)
  <2>1. Front(A \o a.ws) = A \o f /\ Last(A \o a.ws) = Last(a.ws)
      BY <1>1, <1>4, ConcatFrontLast
  <2>2. f \in Seq(Word(C)) /\ Last(a.ws) \in Word(C)
      BY <1>1, <1>4, Unappended
  <2>3. w \in Word(C)
    <3>1. Last(a.ws) \in Seq(C \ Spaces) /\ c \in C \ Spaces
        BY <1>4, <2>2 DEF Word
    <3>2. Append(Last(a.ws), c) \in Seq(C \ Spaces) /\ Append(Last(a.ws), c) # << >>
        BY <3>1, Appended
    <3> QED
        BY <3>2 DEF Word
  <2>4. wordStep(a, c).ws = Append(f, w) /\ wordStep(b, c).ws = Append(A \o f, w)
    <3>1. wordStep(a, c).ws = Append(f, w)
        BY <1>4, WordStepIs
    <3>2. Front(b.ws) = A \o f /\ Last(b.ws) = Last(a.ws) /\ b.in
        BY <1>4, <2>1
    <3>3. wordStep(b, c).ws = Append(Front(b.ws), Append(Last(b.ws), c))
        BY <1>4, <3>2, WordStepIs
    <3>4. Append(Front(b.ws), Append(Last(b.ws), c)) = Append(A \o f, w)
        BY <3>2
    <3> QED
        BY <3>1, <3>3, <3>4
  <2> HIDE DEF f, w
  <2>5. A \o Append(f, w) = Append(A \o f, w)
      BY <2>2, <2>3, ConcatAppend
  <2> QED
      BY <1>2, <2>4, <2>5
<1>5. CASE c \notin Spaces /\ ~ a.in
  <2> DEFINE w == << c >>
  <2>1. w \in Word(C)
      BY <1>5 DEF Word
  <2>2. wordStep(a, c).ws = Append(a.ws, w) /\ wordStep(b, c).ws = Append(A \o a.ws, w)
      BY <1>5, WordStepIs
  <2> HIDE DEF w
  <2>3. A \o Append(a.ws, w) = Append(A \o a.ws, w)
      BY <1>1, <2>1, ConcatAppend
  <2> QED
      BY <1>2, <2>2, <2>3
<1> QED
    BY <1>3, <1>4, <1>5

\* White space separates words: what is before it and what is behind it are
\* cut into words independently.
LEMMA WordsOfConcat ==
    ASSUME NEW C, NEW p \in Seq(C), NEW sp \in C, sp \in Spaces, NEW r \in Seq(C)
    PROVE  /\ words(Append(p, sp) \o r) = words(p) \o words(r)
           /\ wordState(Append(p, sp) \o r).in <=> wordState(r).in
<1> DEFINE q == Append(p, sp)
           A == words(p)
           S == {t \in Seq(C) : /\ wordState(q \o t).ws = A \o wordState(t).ws
                                /\ wordState(q \o t).in <=> wordState(t).in}
<1>1. q \in Seq(C)
    BY Appended
<1>2. A \in Seq(Word(C))
    BY WordEquations DEF WordStates, words
<1>3. wordState(q).ws = A /\ ~ wordState(q).in
  <2>1. wordState(q) = wordStep(wordState(p), sp)
      BY WordEquations
  <2> QED
      BY <2>1, WordStepIs DEF words
<1> HIDE DEF q, A
<1>4. << >> \in S
  <2>1. q \o << >> = q /\ A \o << >> = A
      BY <1>1, <1>2, ConcatEmptySeq
  <2>2. wordState(<< >>) = NoWords
      BY WordEquations
  <2>3. wordState(<< >>).ws = << >> /\ ~ wordState(<< >>).in /\ << >> \in Seq(C)
      BY <2>2 DEF NoWords
  <2> QED
      BY <1>3, <2>1, <2>3
<1>5. ASSUME NEW t \in Seq(C), NEW c \in C, t \in S PROVE Append(t, c) \in S
  <2>1. q \o Append(t, c) = Append(q \o t, c) /\ q \o t \in Seq(C)
      BY <1>1, ConcatAppend, ConcatProperties
  <2>2. wordState(Append(q \o t, c)) = wordStep(wordState(q \o t), c)
      BY <2>1, WordEquations
  <2>3. wordState(Append(t, c)) = wordStep(wordState(t), c) /\ wordState(t) \in WordStates(C)
      BY WordEquations
  <2>4. wordState(q \o t).ws = A \o wordState(t).ws /\ (wordState(q \o t).in <=> wordState(t).in)
      BY <1>5
  <2>5. /\ wordStep(wordState(q \o t), c).ws = A \o wordStep(wordState(t), c).ws
        /\ wordStep(wordState(q \o t), c).in <=> wordStep(wordState(t), c).in
      BY <1>2, <2>3, <2>4, WordStepConcat
  <2>6. Append(t, c) \in Seq(C)
      BY Appended
  <2> QED
      BY <2>1, <2>2, <2>3, <2>5, <2>6
<1>6. Seq(C) \subseteq S
  <2> HIDE DEF S
  <2> QED BY <1>4, <1>5, TextInduction
<1> QED
    BY <1>6 DEF q, A, words

\* The words of a text that has a space in it, one text of the lemma at a time.
SplitsAt(p, sp, r) == words(Append(p, sp) \o r) = words(p) \o words(r)

LEMMA SpaceSplits ==
    ASSUME NEW C, NEW p \in Seq(C), NEW sp \in C, sp \in Spaces, NEW r \in Seq(C)
    PROVE  SplitsAt(p, sp, r)
    BY WordsOfConcat DEF SplitsAt

\* A text without white space is one word.
LEMMA OneWord ==
    ASSUME NEW C, NEW w \in Word(C)
    PROVE  words(w) = << w >> /\ wordState(w).in
<1> DEFINE D == C \ Spaces
           S == {t \in Seq(D) : t # << >> => wordState(t).ws = << t >> /\ wordState(t).in}
<1>1. << >> \in S
    OBVIOUS
<1>2. ASSUME NEW t \in Seq(D), NEW c \in D, t \in S PROVE Append(t, c) \in S
  <2>1. wordState(Append(t, c)) = wordStep(wordState(t), c)
      BY WordEquations
  <2>2. Append(t, c) \in Seq(D) /\ c \notin Spaces
      BY Appended
  <2>3. CASE t = << >>
    <3>1. wordState(t).ws = << >> /\ ~ wordState(t).in
        BY <2>3, WordEquations DEF NoWords
    <3>2. wordState(Append(t, c)).ws = Append(<< >>, << c >>) /\ wordState(Append(t, c)).in
        BY <2>1, <2>2, <3>1, WordStepIs
    <3>3. Append(t, c) = << c >> /\ Append(<< >>, << c >>) = << << c >> >>
        BY <2>3
    <3> QED
        BY <2>2, <3>2, <3>3
  <2>4. CASE t # << >>
    <3>1. wordState(t).ws = << t >> /\ wordState(t).in
        BY <1>2, <2>4
    <3>2. Front(<< t >>) = << >> /\ Last(<< t >>) = t
        BY DEF Front, Last
    <3>3. wordState(Append(t, c)).ws = Append(<< >>, Append(t, c)) /\ wordState(Append(t, c)).in
      <4>1. Front(wordState(t).ws) = << >> /\ Last(wordState(t).ws) = t
          BY <3>1, <3>2
      <4>2. /\ wordStep(wordState(t), c).ws
                  = Append(Front(wordState(t).ws), Append(Last(wordState(t).ws), c))
            /\ wordStep(wordState(t), c).in
          BY <2>2, <3>1, WordStepIs
      <4> QED
          BY <2>1, <4>1, <4>2
    <3>4. Append(<< >>, Append(t, c)) = << Append(t, c) >>
        OBVIOUS
    <3> QED
        BY <2>2, <3>3, <3>4
  <2> QED
      BY <2>3, <2>4
<1>3. Seq(D) \subseteq S
  <2> HIDE DEF S, D
  <2> QED BY <1>1, <1>2, TextInduction
<1>4. wordState(w).ws = << w >> /\ wordState(w).in
    BY <1>3 DEF Word
<1> QED
    BY <1>4 DEF words

-------------------------------------------------------------------------------
(* Arguments of a concatenation *)

\* splitWord, case by case.
LEMMA SplitWordIs ==
    ASSUME NEW C, NEW a \in SplitStates(C), NEW w \in Word(C)
    PROVE  /\ a.open /\ Last(w) = Quote =>
                 /\ splitWord(a, w).args = Append(a.args, Joined(a.arg, Front(w)))
                 /\ ~ splitWord(a, w).open /\ splitWord(a, w).arg = << >>
           /\ a.open /\ Last(w) # Quote =>
                 /\ splitWord(a, w).args = a.args
                 /\ splitWord(a, w).open /\ splitWord(a, w).arg = Joined(a.arg, w)
           /\ ~ a.open /\ Head(w) # Quote =>
                 /\ splitWord(a, w).args = Append(a.args, w)
                 /\ ~ splitWord(a, w).open /\ splitWord(a, w).arg = a.arg
           /\ ~ a.open /\ Head(w) = Quote /\ Len(w) > 1 /\ Last(w) = Quote =>
                 /\ splitWord(a, w).args = Append(a.args, Front(Tail(w)))
                 /\ ~ splitWord(a, w).open /\ splitWord(a, w).arg = a.arg
           /\ ~ a.open /\ Head(w) = Quote /\ ~ (Len(w) > 1 /\ Last(w) = Quote) =>
                 /\ splitWord(a, w).args = a.args
                 /\ splitWord(a, w).open /\ splitWord(a, w).arg = Tail(w)
<1>1. a.open \in BOOLEAN /\ a.arg \in Arg(C) /\ DOMAIN a = {"args", "open", "arg", "bare"}
      /\ a = [args |-> a.args, open |-> a.open, arg |-> a.arg, bare |-> a.bare]
    BY DEF SplitStates
<1>2. Front(Joined(a.arg, w)) = Joined(a.arg, Front(w))
    BY <1>1, JoinedType
<1>3. CASE a.open /\ Last(w) = Quote
  <2>1. splitWord(a, w)
          = [a EXCEPT !.args = Append(@, Front(Joined(a.arg, w))), !.open = FALSE, !.arg = << >>]
      BY <1>3 DEF splitWord, Joined
  <2> QED
      BY <1>1, <1>2, <1>3, <2>1
<1>4. CASE a.open /\ Last(w) # Quote
  <2>1. splitWord(a, w) = [a EXCEPT !.arg = Joined(a.arg, w)]
      BY <1>4 DEF splitWord, Joined
  <2> QED
      BY <1>1, <1>4, <2>1
<1>5. CASE ~ a.open /\ Head(w) # Quote
  <2>1. splitWord(a, w) = [a EXCEPT !.args = Append(@, w)]
      BY <1>5 DEF splitWord
  <2> QED
      BY <1>1, <1>5, <2>1
<1>6. CASE ~ a.open /\ Head(w) = Quote /\ Len(w) > 1 /\ Last(w) = Quote
  <2>1. splitWord(a, w) = [a EXCEPT !.args = Append(@, Front(Tail(w)))]
      BY <1>6 DEF splitWord
  <2> QED
      BY <1>1, <1>6, <2>1
<1>7. CASE ~ a.open /\ Head(w) = Quote /\ ~ (Len(w) > 1 /\ Last(w) = Quote)
  <2>1. splitWord(a, w)
          = [a EXCEPT !.open = TRUE, !.arg = Tail(w), !.bare = @ \/ Len(w) = 1]
      BY <1>7 DEF splitWord
  <2> QED
      BY <1>1, <1>7, <2>1
<1> QED
    BY <1>3, <1>4, <1>5, <1>6, <1>7

\* Between two arguments nothing is held back.
LEMMA ClosedHoldsNothing ==
    ASSUME NEW C, NEW ws \in Seq(Word(C)), ~ splitWords(ws).open
    PROVE  splitWords(ws).arg = << >>
<1> DEFINE W == Word(C)
           S == {v \in Seq(W) : ~ splitWords(v).open => splitWords(v).arg = << >>}
<1>1. << >> \in S
    BY SplitEquations DEF NoArgs
<1>2. ASSUME NEW v \in Seq(W), NEW w \in W, v \in S PROVE Append(v, w) \in S
  <2>1. splitWords(Append(v, w)) = splitWord(splitWords(v), w)
        /\ splitWords(v) \in SplitStates(C) /\ Append(v, w) \in Seq(W)
      BY SplitEquations, Appended
  <2>2. ~ splitWords(v).open => splitWords(v).arg = << >>
      BY <1>2
  <2>3. ~ splitWord(splitWords(v), w).open => splitWord(splitWords(v), w).arg = << >>
      BY <2>1, <2>2, SplitWordIs
  <2> QED
      BY <2>1, <2>3
<1>3. Seq(W) \subseteq S
  <2> HIDE DEF S, W
  <2> QED BY <1>1, <1>2, TextInduction
<1> QED
    BY <1>3

\* The state b is the state a behind the arguments A.
Behind(A, a, b) == b.args = A \o a.args /\ (b.open <=> a.open) /\ b.arg = a.arg

LEMMA SplitStepConcat ==
    ASSUME NEW C, NEW A \in Seq(Arg(C)), NEW a \in SplitStates(C), NEW w \in Word(C),
           NEW b \in SplitStates(C), Behind(A, a, b)
    PROVE  Behind(A, splitWord(a, w), splitWord(b, w))
<1>1. a.args \in Seq(Arg(C)) /\ a.arg \in Arg(C)
    BY DEF SplitStates
<1>2. \A x \in Arg(C) : A \o Append(a.args, x) = Append(b.args, x)
    BY <1>1, ConcatAppend DEF Behind
<1>3. /\ w \in Arg(C) /\ Joined(a.arg, Front(w)) \in Arg(C)
      /\ Len(w) > 1 => Front(Tail(w)) \in Arg(C)
    BY <1>1, WordIsArg, JoinedType
<1>4. CASE a.open /\ Last(w) = Quote
  <2>1. b.open
      BY <1>4 DEF Behind
  <2>2. /\ splitWord(a, w).args = Append(a.args, Joined(a.arg, Front(w)))
        /\ ~ splitWord(a, w).open /\ splitWord(a, w).arg = << >>
      BY <1>4, SplitWordIs
  <2>3. /\ splitWord(b, w).args = Append(b.args, Joined(b.arg, Front(w)))
        /\ ~ splitWord(b, w).open /\ splitWord(b, w).arg = << >>
      BY <1>4, <2>1, SplitWordIs
  <2>4. A \o Append(a.args, Joined(a.arg, Front(w))) = Append(b.args, Joined(b.arg, Front(w)))
      BY <1>2, <1>3, <1>4 DEF Behind
  <2> QED
      BY <2>2, <2>3, <2>4 DEF Behind
<1>5. CASE a.open /\ Last(w) # Quote
  <2>1. b.open
      BY <1>5 DEF Behind
  <2>2. /\ splitWord(a, w).args = a.args
        /\ splitWord(a, w).open /\ splitWord(a, w).arg = Joined(a.arg, w)
      BY <1>5, SplitWordIs
  <2>3. /\ splitWord(b, w).args = b.args
        /\ splitWord(b, w).open /\ splitWord(b, w).arg = Joined(b.arg, w)
      BY <1>5, <2>1, SplitWordIs
  <2> QED
      BY <2>2, <2>3 DEF Behind
<1>6. CASE ~ a.open /\ Head(w) # Quote
  <2>1. ~ b.open
      BY <1>6 DEF Behind
  <2>2. /\ splitWord(a, w).args = Append(a.args, w)
        /\ ~ splitWord(a, w).open /\ splitWord(a, w).arg = a.arg
      BY <1>6, SplitWordIs
  <2>3. /\ splitWord(b, w).args = Append(b.args, w)
        /\ ~ splitWord(b, w).open /\ splitWord(b, w).arg = b.arg
      BY <1>6, <2>1, SplitWordIs
  <2>4. A \o Append(a.args, w) = Append(b.args, w)
      BY <1>2, <1>3, <1>6 DEF Behind
  <2> QED
      BY <2>2, <2>3, <2>4 DEF Behind
<1>7. CASE ~ a.open /\ Head(w) = Quote /\ Len(w) > 1 /\ Last(w) = Quote
  <2>1. ~ b.open
      BY <1>7 DEF Behind
  <2>2. /\ splitWord(a, w).args = Append(a.args, Front(Tail(w)))
        /\ ~ splitWord(a, w).open /\ splitWord(a, w).arg = a.arg
      BY <1>7, SplitWordIs
  <2>3. /\ splitWord(b, w).args = Append(b.args, Front(Tail(w)))
        /\ ~ splitWord(b, w).open /\ splitWord(b, w).arg = b.arg
      BY <1>7, <2>1, SplitWordIs
  <2>4. A \o Append(a.args, Front(Tail(w))) = Append(b.args, Front(Tail(w)))
      BY <1>2, <1>3, <1>7 DEF Behind
  <2> QED
      BY <2>2, <2>3, <2>4 DEF Behind
<1>8. CASE ~ a.open /\ Head(w) = Quote /\ ~ (Len(w) > 1 /\ Last(w) = Quote)
  <2>1. ~ b.open
      BY <1>8 DEF Behind
  <2>2. /\ splitWord(a, w).args = a.args
        /\ splitWord(a, w).open /\ splitWord(a, w).arg = Tail(w)
      BY <1>8, SplitWordIs
  <2>3. /\ splitWord(b, w).args = b.args
        /\ splitWord(b, w).open /\ splitWord(b, w).arg = Tail(w)
      BY <1>8, <2>1, SplitWordIs
  <2> QED
      BY <2>2, <2>3 DEF Behind
<1> QED
    BY <1>4, <1>5, <1>6, <1>7, <1>8

\* Behind closed arguments, words are split as if they came first.
LEMMA SplitOfConcat ==
    ASSUME NEW C, NEW us \in Seq(Word(C)), ~ splitWords(us).open, NEW vs \in Seq(Word(C))
    PROVE  Behind(splitWords(us).args, splitWords(vs), splitWords(us \o vs))
<1> DEFINE W == Word(C)
           A == splitWords(us).args
           S == {v \in Seq(W) : Behind(A, splitWords(v), splitWords(us \o v))}
<1>1. A \in Seq(Arg(C)) /\ splitWords(us).arg = << >>
    BY SplitEquations, ClosedHoldsNothing DEF SplitStates
<1>2. << >> \in S
  <2>1. us \o << >> = us /\ A \o << >> = A
      BY <1>1, ConcatEmptySeq
  <2>2. splitWords(<< >>).args = << >> /\ ~ splitWords(<< >>).open
        /\ splitWords(<< >>).arg = << >> /\ << >> \in Seq(W)
      BY SplitEquations DEF NoArgs
  <2> QED
      BY <1>1, <2>1, <2>2 DEF Behind
<1> HIDE DEF A
<1>3. ASSUME NEW v \in Seq(W), NEW w \in W, v \in S PROVE Append(v, w) \in S
  <2>1. us \o Append(v, w) = Append(us \o v, w) /\ us \o v \in Seq(W)
      BY ConcatAppend, ConcatProperties
  <2>2. splitWords(Append(us \o v, w)) = splitWord(splitWords(us \o v), w)
        /\ splitWords(us \o v) \in SplitStates(C)
      BY <2>1, SplitEquations
  <2>3. splitWords(Append(v, w)) = splitWord(splitWords(v), w)
        /\ splitWords(v) \in SplitStates(C) /\ Append(v, w) \in Seq(W)
      BY SplitEquations, Appended
  <2>4. Behind(A, splitWords(v), splitWords(us \o v))
      BY <1>3
  <2>5. Behind(A, splitWord(splitWords(v), w), splitWord(splitWords(us \o v), w))
      BY <1>1, <2>2, <2>3, <2>4, SplitStepConcat
  <2> QED
      BY <2>1, <2>2, <2>3, <2>5
<1>4. Seq(W) \subseteq S
  <2> HIDE DEF S, W
  <2> QED BY <1>2, <1>3, TextInduction
<1> QED
    BY <1>4 DEF A

-------------------------------------------------------------------------------
(* Pieces of a text *)

\* A concatenation, item by item.
LEMMA Concat ==
    ASSUME NEW C, NEW a \in Seq(C), NEW b \in Seq(C)
    PROVE  /\ a \o b \in Seq(C) /\ Len(a \o b) = Len(a) + Len(b)
           /\ \A i \in 1..Len(a) : (a \o b)[i] = a[i]
           /\ \A i \in 1..Len(b) : (a \o b)[Len(a) + i] = b[i]
<1>1. a \o b \in Seq(C) /\ Len(a \o b) = Len(a) + Len(b) /\ Len(a) \in Nat /\ Len(b) \in Nat
    BY ConcatProperties
<1>2. \A i \in 1..Len(a) : i \in 1..Len(a) + Len(b) /\ i <= Len(a)
    BY <1>1
<1>3. \A i \in 1..Len(b) : Len(a) + i \in 1..Len(a) + Len(b) /\ Len(a) + i > Len(a)
                           /\ (Len(a) + i) - Len(a) = i
    BY <1>1
<1>4. \A i \in 1..Len(a) : (a \o b)[i] = a[i]
    BY <1>1, <1>2, ConcatProperties
<1>5. \A i \in 1..Len(b) : (a \o b)[Len(a) + i] = b[i]
    BY <1>1, <1>3, ConcatProperties
<1> QED
    BY <1>1, <1>4, <1>5

LEMMA IsConcat ==
    ASSUME NEW C, NEW a \in Seq(C), NEW b \in Seq(C), NEW s \in Seq(C),
           Len(s) = Len(a) + Len(b), \A i \in 1..Len(a) : s[i] = a[i],
           \A i \in 1..Len(b) : s[Len(a) + i] = b[i]
    PROVE  s = a \o b
<1>1. a \o b \in Seq(C) /\ Len(a \o b) = Len(s) /\ Len(a) \in Nat /\ Len(b) \in Nat
    BY Concat
<1>2. ASSUME NEW i \in 1..Len(s) PROVE (a \o b)[i] = s[i]
  <2>1. CASE i <= Len(a)
    <3>1. i \in 1..Len(a)
        BY <1>1, <2>1
    <3> QED
        BY <3>1, Concat
  <2>2. CASE i > Len(a)
    <3> DEFINE j == i - Len(a)
    <3>1. j \in 1..Len(b) /\ Len(a) + j = i
        BY <1>1, <2>2
    <3> HIDE DEF j
    <3>2. (a \o b)[Len(a) + j] = b[j] /\ s[Len(a) + j] = b[j]
        BY <3>1, Concat
    <3> QED
        BY <3>1, <3>2
  <2> QED
      BY <1>1, <2>1, <2>2
<1> QED
    BY <1>1, <1>2, SeqEqual

\* A text, cut behind its first n items.
LEMMA Cut ==
    ASSUME NEW C, NEW s \in Seq(C), NEW n \in 0..Len(s)
    PROVE  /\ SubSeq(s, 1, n) \in Seq(C) /\ Len(SubSeq(s, 1, n)) = n
           /\ \A i \in 1..n : SubSeq(s, 1, n)[i] = s[i]
           /\ SubSeq(s, n + 1, Len(s)) \in Seq(C) /\ Len(SubSeq(s, n + 1, Len(s))) = Len(s) - n
           /\ \A i \in 1..Len(s) - n : SubSeq(s, n + 1, Len(s))[i] = s[n + i]
           /\ s = SubSeq(s, 1, n) \o SubSeq(s, n + 1, Len(s))
<1>1. Len(s) \in Nat /\ n \in Nat /\ n <= Len(s)
    OBVIOUS
<1>2. SubSeq(s, 1, n) \in Seq(C) /\ Len(SubSeq(s, 1, n)) = n
      /\ \A i \in 1..n : SubSeq(s, 1, n)[i] = s[i]
  <2>1. \A i \in 1..n : s[i] \in C
      BY <1>1
  <2>2. SubSeq(s, 1, n) \in Seq(C) /\ Len(SubSeq(s, 1, n)) = IF 1 <= n THEN n - 1 + 1 ELSE 0
      BY <1>1, <2>1, SubSeqProperties
  <2>3. Len(SubSeq(s, 1, n)) = n
      BY <1>1, <2>2
  <2> QED
      BY <1>1, <2>2, <2>3
<1>3. SubSeq(s, n + 1, Len(s)) \in Seq(C) /\ Len(SubSeq(s, n + 1, Len(s))) = Len(s) - n
      /\ \A i \in 1..Len(s) - n : SubSeq(s, n + 1, Len(s))[i] = s[n + i]
  <2> DEFINE m == n + 1
             k == Len(s)
  <2>1. \A i \in m..k : s[i] \in C
      BY <1>1
  <2>2. m \in Int /\ k \in Int /\ m \in Nat /\ k = Len(s) /\ m = n + 1
      BY <1>1
  <2> HIDE DEF m, k
  <2>3. SubSeq(s, m, k) \in Seq(C) /\ Len(SubSeq(s, m, k)) = IF m <= k THEN k - m + 1 ELSE 0
      BY <2>1, <2>2, SubSeqProperties
  <2>4. Len(SubSeq(s, m, k)) = Len(s) - n
      BY <1>1, <2>2, <2>3
  <2>5. \A i \in 1..Len(s) - n : SubSeq(s, m, k)[i] = s[m + i - 1]
      BY <1>1, <2>2, <2>3, <2>4, SubSeqProperties
  <2>6. \A i \in 1..Len(s) - n : m + i - 1 = n + i
      BY <1>1, <2>2
  <2> QED
      BY <2>3, <2>4, <2>5, <2>6 DEF m, k
<1> DEFINE a == SubSeq(s, 1, n)
           b == SubSeq(s, n + 1, Len(s))
<1>4. s = a \o b
  <2>1. a \in Seq(C) /\ b \in Seq(C) /\ Len(a) = n /\ Len(b) = Len(s) - n
      BY <1>2, <1>3
  <2>2. \A i \in 1..n : a[i] = s[i]
      BY <1>2
  <2>3. \A i \in 1..Len(s) - n : b[i] = s[n + i]
      BY <1>3
  <2> HIDE DEF a, b
  <2>4. Len(s) = Len(a) + Len(b)
      BY <1>1, <2>1
  <2>5. \A i \in 1..Len(a) : s[i] = a[i]
      BY <2>1, <2>2, Zenon
  <2>6. \A i \in 1..Len(b) : s[Len(a) + i] = b[i]
      BY <2>1, <2>3, Zenon
  <2> QED
      BY <2>1, <2>4, <2>5, <2>6, IsConcat, Zenon
<1> QED
    BY <1>2, <1>3, <1>4

\* What Cut says of one text and one place.
CutAt(C, s, n) ==
    /\ SubSeq(s, 1, n) \in Seq(C) /\ Len(SubSeq(s, 1, n)) = n
    /\ \A i \in 1..n : SubSeq(s, 1, n)[i] = s[i]
    /\ SubSeq(s, n + 1, Len(s)) \in Seq(C) /\ Len(SubSeq(s, n + 1, Len(s))) = Len(s) - n
    /\ \A i \in 1..Len(s) - n : SubSeq(s, n + 1, Len(s))[i] = s[n + i]
    /\ s = SubSeq(s, 1, n) \o SubSeq(s, n + 1, Len(s))

LEMMA CutIsCut ==
    ASSUME NEW C, NEW s \in Seq(C), NEW n \in 0..Len(s)
    PROVE  CutAt(C, s, n)
    BY Cut, Zenon DEF CutAt

\* A text with one more item in front.
LEMMA InFront ==
    ASSUME NEW C, NEW x \in C, NEW u \in Seq(C)
    PROVE  /\ << x >> \o u \in Seq(C) /\ << x >> \o u # << >>
           /\ Len(<< x >> \o u) = Len(u) + 1
           /\ (<< x >> \o u)[1] = x /\ Head(<< x >> \o u) = x
           /\ \A i \in 1..Len(u) : (<< x >> \o u)[i + 1] = u[i]
           /\ Tail(<< x >> \o u) = u
           /\ u # << >> => Last(<< x >> \o u) = Last(u)
           /\ u # << >> => Front(<< x >> \o u) = << x >> \o Front(u)
<1>1. << x >> \in Seq(C) /\ Len(<< x >>) = 1 /\ << x >>[1] = x
    OBVIOUS
<1> DEFINE t == << x >> \o u
<1>2. t \in Seq(C) /\ Len(t) = Len(u) + 1 /\ t[1] = x /\ \A i \in 1..Len(u) : t[i + 1] = u[i]
  <2>1. t \in Seq(C) /\ Len(t) = 1 + Len(u)
      BY <1>1, ConcatProperties
  <2>2. Len(u) \in Nat
      OBVIOUS
  <2>3. \A i \in 1..Len(u) : i + 1 \in 1..Len(t) /\ i + 1 > Len(<< x >>) /\ (i + 1) - Len(<< x >>) = i
      BY <1>1, <2>1, <2>2
  <2> QED
      BY <1>1, <2>1, <2>2, <2>3, ConcatProperties
<1>3. u # << >> => Last(t) = Last(u) /\ Front(t) = << x >> \o Front(u)
    BY <1>1, ConcatFrontLast
<1>4. t # << >> /\ Head(t) = x
    BY <1>2
<1>5. Tail(t) = u
    BY <1>1, <1>2
<1> QED
    BY <1>2, <1>3, <1>4, <1>5

\* A text is free of the characters K, or it is cut at the first of them.
CutsAtFirst(C, K, s) ==
    \/ s \in Seq(C \ K)
    \/ \E p \in Seq(C \ K), c \in C \cap K, r \in Seq(C) : s = Append(p, c) \o r

LEMMA CutAtFirst ==
    ASSUME NEW C, NEW K, NEW s \in Seq(C)
    PROVE  CutsAtFirst(C, K, s)
<1> DEFINE T == {i \in 1..Len(s) : s[i] \in K}
<1> SUFFICES ASSUME T # {}
             PROVE  \E p \in Seq(C \ K), c \in C \cap K, r \in Seq(C) : s = Append(p, c) \o r
  <2>1. T = {} => \A i \in 1..Len(s) : s[i] \in C \ K
      OBVIOUS
  <2>2. T = {} => s \in Seq(C \ K)
      BY <2>1
  <2> QED
      BY <2>2 DEF CutsAtFirst
<1>1. T \subseteq Nat
    OBVIOUS
<1>2. \E x \in T : \A y \in T : x <= y
  <2> HIDE DEF T
  <2> QED BY <1>1, LeastNumber
<1>3. PICK k \in T : \A y \in T : k <= y
    BY <1>2
<1> DEFINE n == k - 1
           p == SubSeq(s, 1, n)
           q == SubSeq(s, 1, k)
           r == SubSeq(s, k + 1, Len(s))
           c == s[k]
<1>4. k \in 0..Len(s) /\ n \in 0..Len(s) /\ n + 1 = k /\ n \in Nat /\ c \in C \cap K
    OBVIOUS
<1>5. q \in Seq(C) /\ Len(q) = k /\ (\A i \in 1..k : q[i] = s[i]) /\ r \in Seq(C) /\ s = q \o r
    BY <1>4, Cut
<1>6. p \in Seq(C) /\ Len(p) = n /\ \A i \in 1..n : p[i] = s[i]
  <2> HIDE DEF n
  <2> QED BY <1>4, Cut
<1>7. \A i \in 1..n : s[i] \notin K
    BY <1>3, <1>4
<1>8. p \in Seq(C \ K)
  <2>1. \A i \in 1..Len(p) : p[i] \in C \ K
      BY <1>6, <1>7
  <2> HIDE DEF p
  <2> QED BY <1>6, <2>1
<1> HIDE DEF p, q, r, c, n
<1>9. q = Append(p, c)
  <2>1. q = p \o << c >>
    <3>1. << c >> \in Seq(C) /\ Len(<< c >>) = 1 /\ << c >>[1] = c
        BY <1>4
    <3>2. \A i \in 1..Len(<< c >>) : q[Len(p) + i] = << c >>[i]
      <4>1. q[n + 1] = c
          BY <1>4, <1>5 DEF c
      <4> QED
          BY <1>6, <3>1, <4>1
    <3>3. \A i \in 1..Len(p) : q[i] = p[i]
        BY <1>4, <1>5, <1>6
    <3>4. Len(q) = Len(p) + Len(<< c >>)
        BY <1>4, <1>5, <1>6, <3>1
    <3> QED
        BY <1>5, <1>6, <3>1, <3>2, <3>3, <3>4, IsConcat
  <2> QED
      BY <1>4, <1>6, <2>1, Appended
<1> QED
    BY <1>4, <1>5, <1>8, <1>9

\* White space in front of a text separates nothing.
LEMMA SpaceInFront ==
    ASSUME NEW C, NEW sp \in C, sp \in Spaces, NEW r \in Seq(C)
    PROVE  words(<< sp >> \o r) = words(r)
<1>1. << >> \in Seq(C) /\ Append(<< >>, sp) = << sp >>
    OBVIOUS
<1>2. words(Append(<< >>, sp) \o r) = words(<< >>) \o words(r)
    BY <1>1, WordsOfConcat
<1>3. words(<< >>) = << >> /\ words(r) \in Seq(Word(C))
    BY WordEquations DEF words, NoWords, WordStates
<1> QED
    BY <1>1, <1>2, <1>3, ConcatEmptySeq

\* The first word of a text that does not start with white space: its first
\* character, and those behind it up to white space.
LEMMA FirstWord ==
    ASSUME NEW C, NEW x \in C, x \notin Spaces, NEW u \in Seq(C)
    PROVE  \E w \in Seq(C \ Spaces), vs \in Seq(Word(C)) :
              /\ words(<< x >> \o u) = << << x >> \o w >> \o vs
              /\ << x >> \o w \in Word(C)
              /\ w = << >> <=> (u = << >> \/ u[1] \in Spaces)
              /\ w # << >> => w[1] = u[1]
<1> DEFINE D == C \ Spaces
<1>1. \A w \in Seq(D) : << x >> \o w \in Word(C)
  <2> TAKE w \in Seq(D)
  <2>1. x \in D
      OBVIOUS
  <2>2. << x >> \o w \in Seq(D) /\ << x >> \o w # << >>
    <3> HIDE DEF D
    <3> QED BY <2>1, InFront
  <2> QED
      BY <2>2 DEF Word
<1>2. CASE u \in Seq(D)
  <2>1. words(<< x >> \o u) = << << x >> \o u >> /\ << x >> \o u \in Word(C)
      BY <1>1, <1>2, OneWord
  <2>2. << << x >> \o u >> \o << >> = << << x >> \o u >>
    <3> DEFINE z == << x >> \o u
    <3> HIDE DEF z
    <3>1. << z >> \o << >> = << z >>
        OBVIOUS
    <3> QED
        BY <3>1 DEF z
  <2>3. u = << >> <=> (u = << >> \/ u[1] \in Spaces)
      BY <1>2
  <2>4. << >> \in Seq(Word(C))
      OBVIOUS
  <2> QED
      BY <1>2, <2>1, <2>2, <2>3, <2>4
<1>3. ASSUME NEW p \in Seq(C \ Spaces), NEW sp \in C \cap Spaces, NEW r \in Seq(C),
             u = Append(p, sp) \o r
      PROVE  \E w \in Seq(C \ Spaces), vs \in Seq(Word(C)) :
              /\ words(<< x >> \o u) = << << x >> \o w >> \o vs
              /\ << x >> \o w \in Word(C)
              /\ w = << >> <=> (u = << >> \/ u[1] \in Spaces)
              /\ w # << >> => w[1] = u[1]
  <2> DEFINE z == << x >> \o p
             q == Append(p, sp)
  <2>1. p \in Seq(C) /\ << x >> \in Seq(C) /\ sp \in C /\ sp \in Spaces
      OBVIOUS
  <2>2. q \in Seq(C) /\ Len(q) = Len(p) + 1 /\ q[Len(p) + 1] = sp /\ \A i \in 1..Len(p) : q[i] = p[i]
      BY <2>1, Appended
  <2>3. z \in Word(C) /\ z \in Seq(C)
      BY <1>1, <2>1, ConcatProperties
  <2>4. << x >> \o q = Append(z, sp)
      BY <2>1, ConcatAppend
  <2>5. words(Append(z, sp) \o r) = words(z) \o words(r)
    <3> HIDE DEF z
    <3>1. SplitsAt(z, sp, r)
        BY <2>1, <2>3, SpaceSplits
    <3> QED
        BY <3>1 DEF SplitsAt
  <2>6. << x >> \o u = Append(z, sp) \o r
    <3> DEFINE h == << x >>
    <3>1. h \in Seq(C) /\ q \in Seq(C) /\ r \in Seq(C)
        BY <2>1, <2>2
    <3> HIDE DEF q, h
    <3>2. h \o (q \o r) = (h \o q) \o r
      <4>1. Regroups(h, q, r)
          BY <3>1, Regrouping
      <4> QED
          BY <4>1 DEF Regroups
    <3> QED
        BY <1>3, <2>4, <3>2 DEF q, h
  <2>7. words(z) = << z >>
      BY <2>3, OneWord
  <2>8. words(r) \in Seq(Word(C))
      BY WordEquations DEF words, WordStates
  <2>9. u # << >> /\ u[1] = q[1]
    <3> HIDE DEF q
    <3>1. u \in Seq(C) /\ Len(u) = Len(q) + Len(r) /\ \A i \in 1..Len(q) : u[i] = q[i]
        BY <1>3, <2>2, Concat DEF q
    <3>2. Len(q) >= 1 /\ Len(r) \in Nat /\ Len(q) \in Nat
        BY <2>1, <2>2
    <3> QED
        BY <3>1, <3>2
  <2>10. p = << >> <=> u[1] \in Spaces
    <3>1. CASE p = << >>
        BY <2>1, <2>2, <2>9, <3>1
    <3>2. CASE p # << >>
      <4>1. 1 \in 1..Len(p) /\ p[1] \in C \ Spaces
          BY <3>2
      <4> QED
          BY <2>2, <2>9, <3>2, <4>1
    <3> QED
        BY <3>1, <3>2
  <2>11. p # << >> => p[1] = u[1]
    <3>1. p # << >> => 1 \in 1..Len(p)
        OBVIOUS
    <3> QED
        BY <2>2, <2>9, <3>1
  <2> QED
      BY <2>3, <2>5, <2>6, <2>7, <2>8, <2>9, <2>10, <2>11
<1>4. CASE u \notin Seq(D)
  <2>1. CutsAtFirst(C, Spaces, u)
      BY CutAtFirst
  <2>2. PICK p \in Seq(C \ Spaces), sp \in C \cap Spaces, r \in Seq(C) : u = Append(p, sp) \o r
      BY <1>4, <2>1 DEF CutsAtFirst
  <2> QED
      BY <1>3, <2>2
<1> QED
    BY <1>2, <1>4

-------------------------------------------------------------------------------
(* Quotes *)

\* What is outside of quotes stays an error.
LEMMA UnquotedStays ==
    ASSUME NEW C, NEW x \in C, x \notin Spaces, x # Quote, NEW u \in Seq(C)
    PROVE  quoteState(<< x >> \o u) = "unquoted"
<1> DEFINE h == << x >>
           S == {t \in Seq(C) : quoteState(h \o t) = "unquoted"}
<1>1. h \in Seq(C)
    OBVIOUS
<1>2. << >> \in S
  <2>1. << >> \in Seq(C) /\ Append(<< >>, x) = h
      OBVIOUS
  <2>2. quoteState(Append(<< >>, x)) = quoteStep(quoteState(<< >>), x)
        /\ quoteState(<< >>) = "between"
      BY <2>1, QuoteEquations
  <2>3. quoteState(h) = "unquoted"
      BY <2>1, <2>2 DEF quoteStep
  <2>4. h \o << >> = h
      OBVIOUS
  <2> QED
      BY <2>1, <2>3, <2>4
<1> HIDE DEF h
<1>3. ASSUME NEW t \in Seq(C), NEW c \in C, t \in S PROVE Append(t, c) \in S
  <2>1. h \o Append(t, c) = Append(h \o t, c) /\ h \o t \in Seq(C) /\ Append(t, c) \in Seq(C)
      BY <1>1, ConcatAppend, ConcatProperties, Appended
  <2>2. quoteState(Append(h \o t, c)) = quoteStep(quoteState(h \o t), c)
      BY <2>1, QuoteEquations
  <2>3. quoteState(Append(h \o t, c)) = "unquoted"
      BY <1>3, <2>2 DEF quoteStep
  <2> QED
      BY <2>1, <2>3
<1>4. Seq(C) \subseteq S
  <2> HIDE DEF S
  <2> QED BY <1>2, <1>3, TextInduction
<1> QED
    BY <1>4 DEF h

\* How many quotes a text holds.
QuoteCount(s) == Cardinality({i \in DOMAIN s : s[i] = Quote})

LEMMA QuoteCountEquations ==
    ASSUME NEW C
    PROVE  /\ QuoteCount(<< >>) = 0
           /\ \A s \in Seq(C) : QuoteCount(s) \in Nat
           /\ \A s \in Seq(C), c \in C :
                 QuoteCount(Append(s, c)) = IF c = Quote THEN QuoteCount(s) + 1 ELSE QuoteCount(s)
<1> DEFINE Q(s) == {i \in DOMAIN s : s[i] = Quote}
<1>1. ASSUME NEW s \in Seq(C) PROVE IsFiniteSet(Q(s)) /\ Cardinality(Q(s)) \in Nat
  <2>1. Q(s) \subseteq 1..Len(s) /\ Len(s) \in Nat
      OBVIOUS
  <2>2. IsFiniteSet(1..Len(s))
      BY <2>1, FS_Interval
  <2> HIDE DEF Q
  <2> QED
      BY <2>1, <2>2, FS_Subset, FS_CardinalityType
<1>2. QuoteCount(<< >>) = 0
  <2>1. Q(<< >>) = {}
      OBVIOUS
  <2> HIDE DEF Q
  <2>2. Cardinality(Q(<< >>)) = 0
      BY <2>1, FS_EmptySet
  <2> QED
      BY <2>2 DEF QuoteCount, Q
<1>3. ASSUME NEW s \in Seq(C), NEW c \in C
      PROVE  QuoteCount(Append(s, c)) = IF c = Quote THEN QuoteCount(s) + 1 ELSE QuoteCount(s)
  <2>1. Q(Append(s, c)) = IF c = Quote THEN Q(s) \cup {Len(s) + 1} ELSE Q(s)
    <3>1. DOMAIN Append(s, c) = DOMAIN s \cup {Len(s) + 1} /\ Len(s) + 1 \notin DOMAIN s
        OBVIOUS
    <3>2. Append(s, c)[Len(s) + 1] = c /\ \A i \in DOMAIN s : Append(s, c)[i] = s[i]
        OBVIOUS
    <3> QED
        BY <3>1, <3>2
  <2>2. Len(s) + 1 \notin Q(s)
      OBVIOUS
  <2>3. IsFiniteSet(Q(s))
      BY <1>1
  <2> HIDE DEF Q
  <2>4. Cardinality(Q(s) \cup {Len(s) + 1}) = Cardinality(Q(s)) + 1
      BY <2>2, <2>3, FS_AddElement
  <2>5. Cardinality(Q(Append(s, c))) = IF c = Quote THEN Cardinality(Q(s)) + 1 ELSE Cardinality(Q(s))
      BY <2>1, <2>4
  <2> QED
      BY <2>5 DEF QuoteCount, Q
<1> QED
    BY <1>1, <1>2, <1>3 DEF QuoteCount

\* hasUnquotedArgs accepts only an even number of quotes.
LEMMA QuoteParity ==
    ASSUME NEW C, NEW s \in Seq(C), ~ hasUnquotedArgs(s)
    PROVE  QuoteCount(s) % 2 = 0
<1> DEFINE S == {t \in Seq(C) : /\ quoteState(t) = "between" => QuoteCount(t) % 2 = 0
                                /\ quoteState(t) = "inside" => QuoteCount(t) % 2 = 1}
<1>1. << >> \in S
    BY QuoteEquations, QuoteCountEquations
<1>2. ASSUME NEW t \in Seq(C), NEW c \in C, t \in S PROVE Append(t, c) \in S
  <2>1. quoteState(Append(t, c)) = quoteStep(quoteState(t), c) /\ quoteState(t) \in QuoteStates
        /\ Append(t, c) \in Seq(C)
      BY QuoteEquations, Appended
  <2>2. QuoteCount(Append(t, c)) = (IF c = Quote THEN QuoteCount(t) + 1 ELSE QuoteCount(t))
        /\ QuoteCount(t) \in Nat
      BY QuoteCountEquations
  <2>3. \A n \in Nat : /\ n % 2 = 0 => (n + 1) % 2 = 1
                       /\ n % 2 = 1 => (n + 1) % 2 = 0
      OBVIOUS
  <2>4. quoteState(t) = "between" => QuoteCount(t) % 2 = 0
      BY <1>2
  <2>5. quoteState(t) = "inside" => QuoteCount(t) % 2 = 1
      BY <1>2
  <2>6. quoteStep(quoteState(t), c) = "between" =>
           \/ quoteState(t) = "between" /\ c # Quote
           \/ quoteState(t) = "inside" /\ c = Quote
      BY <2>1 DEF quoteStep, QuoteStates, Quote, Spaces, Blank, CR, LF
  <2>7. quoteStep(quoteState(t), c) = "inside" =>
           \/ quoteState(t) = "inside" /\ c # Quote
           \/ quoteState(t) = "between" /\ c = Quote
      BY <2>1 DEF quoteStep, QuoteStates, Quote, Spaces, Blank, CR, LF
  <2>8. quoteStep(quoteState(t), c) = "between" => QuoteCount(Append(t, c)) % 2 = 0
      BY <2>2, <2>3, <2>4, <2>5, <2>6
  <2>9. quoteStep(quoteState(t), c) = "inside" => QuoteCount(Append(t, c)) % 2 = 1
      BY <2>2, <2>3, <2>4, <2>5, <2>7
  <2> QED
      BY <2>1, <2>8, <2>9
<1>3. Seq(C) \subseteq S
  <2> HIDE DEF S
  <2> QED BY <1>1, <1>2, TextInduction
<1> QED
    BY <1>3 DEF hasUnquotedArgs

\* A text without quotes in front adds none.
LEMMA QuoteCountBehind ==
    ASSUME NEW C, NEW p \in Seq(C \ {Quote}), NEW s \in Seq(C)
    PROVE  QuoteCount(p \o s) = QuoteCount(s)
<1> DEFINE S == {t \in Seq(C) : QuoteCount(p \o t) = QuoteCount(t)}
<1>1. p \in Seq(C)
    OBVIOUS
<1>2. << >> \in S
  <2> DEFINE D == C \ {Quote}
             R == {t \in Seq(D) : QuoteCount(t) = 0}
  <2>1. << >> \in R
      BY QuoteCountEquations
  <2>2. ASSUME NEW t \in Seq(D), NEW c \in D, t \in R PROVE Append(t, c) \in R
    <3>1. Append(t, c) \in Seq(D) /\ c # Quote
      <4> HIDE DEF D
      <4>1. Append(t, c) \in Seq(D)
          BY Appended
      <4> QED
          BY <4>1 DEF D
    <3>2. QuoteCount(Append(t, c)) = QuoteCount(t)
        BY <3>1, QuoteCountEquations
    <3> QED
        BY <2>2, <3>1, <3>2
  <2>3. Seq(D) \subseteq R
    <3> HIDE DEF R, D
    <3> QED BY <2>1, <2>2, TextInduction
  <2>4. QuoteCount(p) = 0 /\ p \o << >> = p
      BY <1>1, <2>3, ConcatEmptySeq
  <2> QED
      BY <2>4, QuoteCountEquations
<1>3. ASSUME NEW t \in Seq(C), NEW c \in C, t \in S PROVE Append(t, c) \in S
  <2>1. p \o Append(t, c) = Append(p \o t, c) /\ p \o t \in Seq(C) /\ Append(t, c) \in Seq(C)
      BY <1>1, ConcatAppend, ConcatProperties, Appended
  <2>2. QuoteCount(Append(p \o t, c))
          = IF c = Quote THEN QuoteCount(p \o t) + 1 ELSE QuoteCount(p \o t)
      BY <2>1, QuoteCountEquations
  <2>3. QuoteCount(Append(t, c)) = IF c = Quote THEN QuoteCount(t) + 1 ELSE QuoteCount(t)
      BY QuoteCountEquations
  <2>4. QuoteCount(p \o t) = QuoteCount(t)
      BY <1>3
  <2>5. QuoteCount(Append(p \o t, c)) = QuoteCount(Append(t, c))
      BY <2>2, <2>3, <2>4
  <2> QED
      BY <2>1, <2>5
<1>4. Seq(C) \subseteq S
  <2> HIDE DEF S
  <2> QED BY <1>2, <1>3, TextInduction
<1> QED
    BY <1>4

-------------------------------------------------------------------------------
(* The command of a line *)

\* A text with one character in front, as it is cut behind that character.
LEMMA CutFirst ==
    ASSUME NEW C, NEW s \in Seq(C), s # << >>
    PROVE  /\ s[1] \in C /\ SubSeq(s, 2, Len(s)) \in Seq(C)
           /\ s = << s[1] >> \o SubSeq(s, 2, Len(s))
<1>1. 1 \in 0..Len(s) /\ s[1] \in C
    OBVIOUS
<1>2. /\ SubSeq(s, 1, 1) \in Seq(C) /\ Len(SubSeq(s, 1, 1)) = 1 /\ SubSeq(s, 1, 1)[1] = s[1]
      /\ SubSeq(s, 1 + 1, Len(s)) \in Seq(C)
      /\ s = SubSeq(s, 1, 1) \o SubSeq(s, 1 + 1, Len(s))
    BY <1>1, Cut
<1>3. SubSeq(s, 1, 1) = << s[1] >>
  <2> DEFINE a == SubSeq(s, 1, 1)
             b == << s[1] >>
  <2>1. a \in Seq(C) /\ b \in Seq(C) /\ Len(a) = 1 /\ Len(b) = 1 /\ a[1] = s[1] /\ b[1] = s[1]
      BY <1>1, <1>2
  <2> HIDE DEF a, b
  <2>2. \A i \in 1..Len(a) : a[i] = b[i]
      BY <2>1
  <2> QED
      BY <2>1, <2>2, SeqEqual DEF a, b
<1> QED
    BY <1>1, <1>2, <1>3

\* trimLeft cuts off white space, up to the first other character.
Trimmed(C, s) ==
    \/ trimLeft(s) = << >>
    \/ \E p \in Seq(C \cap Spaces), x \in C \ Spaces, u \in Seq(C) :
          s = p \o (<< x >> \o u) /\ trimLeft(s) = << x >> \o u

LEMMA TrimLeft ==
    ASSUME NEW C, NEW s \in Seq(C)
    PROVE  Trimmed(C, s)
<1> DEFINE T == {i \in 1..Len(s) : s[i] \notin Spaces}
<1>1. T \subseteq Nat
    OBVIOUS
<1>2. CASE T = {}
  <2>1. SelectInSeq(s, LAMBDA c : c \notin Spaces) = 0
      BY <1>2 DEF SelectInSeq
  <2> QED
      BY <2>1 DEF trimLeft, Trimmed
<1>3. CASE T # {}
  <2> DEFINE k == Min(T)
  <2>1. \E x \in T : \A y \in T : x <= y
    <3> HIDE DEF T
    <3> QED BY <1>1, <1>3, LeastNumber
  <2>2. k \in T /\ \A y \in T : k <= y
    <3> HIDE DEF T
    <3> QED BY <2>1 DEF Min
  <2>3. SelectInSeq(s, LAMBDA c : c \notin Spaces) = k
      BY <1>3 DEF SelectInSeq
  <2> HIDE DEF k
  <2> DEFINE n == k - 1
             p == SubSeq(s, 1, n)
             q == SubSeq(s, k, Len(s))
  <2>4. k \in 1..Len(s) /\ s[k] \notin Spaces
      BY <2>2
  <2>5. n \in 0..Len(s) /\ n \in Nat /\ n + 1 = k /\ k # 0
      BY <2>4
  <2>6. trimLeft(s) = q
      BY <2>3, <2>5 DEF trimLeft
  <2>7. \A i \in 1..n : s[i] \in C \cap Spaces
    <3>1. \A i \in 1..n : i \in 1..Len(s) /\ ~ (k <= i)
        BY <2>4, <2>5
    <3> QED
        BY <2>2, <3>1
  <2>8. p \in Seq(C) /\ Len(p) = n /\ (\A i \in 1..n : p[i] = s[i])
        /\ q \in Seq(C) /\ Len(q) = Len(s) - n /\ (\A i \in 1..Len(s) - n : q[i] = s[n + i])
        /\ s = p \o q
    <3> HIDE DEF n
    <3>1. n \in 0..Len(s) /\ q = SubSeq(s, n + 1, Len(s))
        BY <2>5
    <3>2. CutAt(C, s, n)
        BY <3>1, CutIsCut
    <3> HIDE DEF q
    <3> QED
        BY <3>1, <3>2 DEF CutAt
  <2>9. p \in Seq(C \cap Spaces)
    <3> HIDE DEF p, n
    <3>1. \A i \in 1..Len(p) : p[i] \in C \cap Spaces
        BY <2>7, <2>8
    <3> QED
        BY <2>8, <3>1
  <2>10. q # << >> /\ q[1] = s[k]
    <3>1. 1 \in 1..Len(s) - n
        BY <2>4, <2>5
    <3> HIDE DEF q, n
    <3> QED
        BY <2>5, <2>8, <3>1
  <2> DEFINE u == SubSeq(q, 2, Len(q))
  <2> HIDE DEF p, q
  <2>11. q[1] \in C \ Spaces /\ u \in Seq(C) /\ q = << q[1] >> \o u
      BY <2>4, <2>8, <2>10, CutFirst
  <2> HIDE DEF u
  <2>12. s = p \o (<< q[1] >> \o u) /\ trimLeft(s) = << q[1] >> \o u
      BY <2>6, <2>8, <2>11
  <2> QED
      BY <2>9, <2>11, <2>12 DEF Trimmed
<1> QED
    BY <1>2, <1>3

\* A command that is not quoted is an argument of its own.
LEMMA PlainWordFirst ==
    ASSUME NEW C, NEW w \in Word(C), Head(w) # Quote, NEW vs \in Seq(Word(C))
    PROVE  /\ splitWords(<< w >> \o vs).args = << w >> \o splitWords(vs).args
           /\ splitWords(<< w >> \o vs).open <=> splitWords(vs).open
<1> DEFINE us == << w >>
<1>1. us \in Seq(Word(C)) /\ us = Append(<< >>, w) /\ << >> \in Seq(Word(C))
    OBVIOUS
<1>2. splitWords(us) = splitWord(NoArgs, w) /\ NoArgs \in SplitStates(C)
    BY <1>1, SplitEquations
<1>3. NoArgs.args = << >> /\ ~ NoArgs.open
    BY DEF NoArgs
<1>4. splitWords(us).args = Append(<< >>, w) /\ ~ splitWords(us).open
    BY <1>2, <1>3, SplitWordIs
<1>5. splitWords(us).args = << w >>
    BY <1>4
<1>6. us \in Seq(Word(C)) /\ ~ splitWords(us).open
    BY <1>1, <1>4
<1> HIDE DEF us
<1>7. Behind(splitWords(us).args, splitWords(vs), splitWords(us \o vs))
    BY <1>6, SplitOfConcat
<1> QED
    BY <1>5, <1>7 DEF us, Behind

\* A text that is empty or does not start as a command does.
NoCommand(z) == z # << >> => z[1] \in {Blank, Quote}

LEMMA JoinedNoCommand ==
    ASSUME NEW C, NEW a \in Arg(C), NEW w \in Arg(C), NoCommand(a)
    PROVE  NoCommand(Joined(a, w))
<1> DEFINE D == ArgChars(C)
           b == a \o << Blank >>
<1>1. a \in Seq(D) /\ << Blank >> \in Seq(D) /\ w \in Seq(D) /\ Len(<< Blank >>) = 1
      /\ << Blank >>[1] = Blank
    BY DEF Arg, ArgChars
<1>2. b \in Seq(D) /\ Len(b) = Len(a) + 1 /\ (\A i \in 1..Len(a) : b[i] = a[i])
      /\ b[Len(a) + 1] = Blank
    BY <1>1, Concat
<1> HIDE DEF D, b
<1>3. \A i \in 1..Len(b) : (b \o w)[i] = b[i]
    BY <1>1, <1>2, Concat
<1>4. 1 \in 1..Len(b)
    BY <1>1, <1>2
<1>5. b[1] \in {Blank, Quote}
  <2>1. CASE a = << >>
    <3>1. Len(a) = 0
        BY <2>1
    <3> QED
        BY <1>2, <3>1
  <2>2. CASE a # << >>
    <3>1. 1 \in 1..Len(a)
        BY <1>1, <2>2
    <3> QED
        BY <1>2, <2>2, <3>1 DEF NoCommand
  <2> QED
      BY <2>1, <2>2
<1> QED
    BY <1>3, <1>4, <1>5 DEF NoCommand, Joined, b

\* The first argument, when the first word is a quote alone or starts with two.
QuotedState(a) ==
    /\ a.args = << >> => a.open /\ NoCommand(a.arg)
    /\ a.args # << >> => NoCommand(a.args[1])

LEMMA QuotedStep ==
    ASSUME NEW C, NEW a \in SplitStates(C), NEW w \in Word(C), QuotedState(a)
    PROVE  QuotedState(splitWord(a, w))
<1>1. a.args \in Seq(Arg(C)) /\ a.arg \in Arg(C)
    BY DEF SplitStates
<1>2. w \in Arg(C) /\ Front(w) \in Arg(C)
    BY WordIsArg
<1>3. CASE a.args = << >>
  <2>1. a.open /\ NoCommand(a.arg)
      BY <1>3 DEF QuotedState
  <2>2. NoCommand(Joined(a.arg, w)) /\ NoCommand(Joined(a.arg, Front(w)))
      BY <1>1, <1>2, <2>1, JoinedNoCommand
  <2>3. CASE Last(w) = Quote
    <3> DEFINE z == Joined(a.arg, Front(w))
    <3> HIDE DEF z
    <3>1. splitWord(a, w).args = Append(a.args, z)
        BY <2>1, <2>3, SplitWordIs DEF z
    <3>2. Append(<< >>, z) # << >> /\ Append(<< >>, z)[1] = z
        OBVIOUS
    <3> QED
        BY <1>3, <2>2, <3>1, <3>2 DEF QuotedState, z
  <2>4. CASE Last(w) # Quote
    <3>1. splitWord(a, w).args = a.args /\ splitWord(a, w).open
          /\ splitWord(a, w).arg = Joined(a.arg, w)
        BY <2>1, <2>4, SplitWordIs
    <3> QED
        BY <1>3, <2>2, <3>1 DEF QuotedState
  <2> QED
      BY <2>3, <2>4
<1>4. CASE a.args # << >>
  <2>1. NoCommand(a.args[1])
      BY <1>4 DEF QuotedState
  <2>2. \/ splitWord(a, w).args = a.args
        \/ \E x : splitWord(a, w).args = Append(a.args, x)
    <3> DEFINE j == Joined(a.arg, Front(w))
               f == Front(Tail(w))
    <3> HIDE DEF j, f
    <3>1. \/ splitWord(a, w).args = a.args
          \/ splitWord(a, w).args = Append(a.args, j)
          \/ splitWord(a, w).args = Append(a.args, w)
          \/ splitWord(a, w).args = Append(a.args, f)
        BY SplitWordIs DEF j, f
    <3> QED
        BY <3>1
  <2>3. \A x : Append(a.args, x) # << >> /\ Append(a.args, x)[1] = a.args[1]
      BY <1>1, <1>4
  <2> QED
      BY <1>4, <2>1, <2>2, <2>3 DEF QuotedState
<1> QED
    BY <1>3, <1>4

LEMMA QuotedWordFirst ==
    ASSUME NEW C, Quote \in C, NEW z \in Seq(C \ Spaces), z # << >> => z[1] = Quote,
           NEW vs \in Seq(Word(C))
    PROVE  QuotedState(splitWords(<< << Quote >> \o z >> \o vs))
<1> DEFINE w == << Quote >> \o z
           us == << w >>
           W == Word(C)
           S == {v \in Seq(W) : QuotedState(splitWords(us \o v))}
<1>1. Quote \in C \ Spaces
    BY DEF Quote, Spaces, Blank, CR, LF
<1>2. w \in Seq(C \ Spaces) /\ w # << >> /\ Head(w) = Quote /\ Tail(w) = z /\ Len(w) = Len(z) + 1
      /\ (z # << >> => Last(w) = Last(z))
  <2> DEFINE D == C \ Spaces
  <2>1. Quote \in D /\ z \in Seq(D)
      BY <1>1
  <2> HIDE DEF D
  <2>2. << Quote >> \o z \in Seq(D) /\ << Quote >> \o z # << >> /\ Head(<< Quote >> \o z) = Quote
        /\ Tail(<< Quote >> \o z) = z /\ Len(<< Quote >> \o z) = Len(z) + 1
        /\ (z # << >> => Last(<< Quote >> \o z) = Last(z))
      BY <2>1, InFront
  <2> QED
      BY <2>2 DEF D
<1> HIDE DEF w
<1>3. w \in W /\ us \in Seq(W) /\ us = Append(<< >>, w) /\ << >> \in Seq(W)
    BY <1>2 DEF Word
<1>4. splitWords(us) = splitWord(NoArgs, w) /\ NoArgs \in SplitStates(C)
    BY <1>3, SplitEquations
<1>5. NoArgs.args = << >> /\ ~ NoArgs.open /\ w \in Word(C) /\ Head(w) = Quote
    BY <1>2, <1>3 DEF NoArgs
<1>6. QuotedState(splitWords(us))
  <2>1. CASE Len(w) > 1 /\ Last(w) = Quote
    <3> DEFINE f == Front(z)
    <3>1. z # << >> /\ z \in Seq(C \ Spaces)
        BY <1>2, <2>1
    <3>2. f \in Seq(C \ Spaces) /\ Len(f) = Len(z) - 1 /\ \A i \in 1..Len(z) - 1 : f[i] = z[i]
        BY <3>1, Unappended
    <3>3. splitWords(us).args = Append(<< >>, f)
      <4>1. splitWord(NoArgs, w).args = Append(NoArgs.args, Front(Tail(w)))
          BY <1>4, <1>5, <2>1, SplitWordIs
      <4> QED
          BY <1>2, <1>4, <1>5, <4>1
    <3> HIDE DEF f
    <3>4. f # << >> => 1 \in 1..Len(z) - 1
      <4>1. Len(z) \in Nat
          OBVIOUS
      <4>2. f # << >> => Len(f) >= 1
          BY <3>2
      <4> QED
          BY <3>2, <4>1, <4>2
    <3>5. NoCommand(f)
        BY <3>1, <3>2, <3>4 DEF NoCommand
    <3>6. Append(<< >>, f) # << >> /\ Append(<< >>, f)[1] = f
        OBVIOUS
    <3> QED
        BY <3>3, <3>5, <3>6 DEF QuotedState
  <2>2. CASE ~ (Len(w) > 1 /\ Last(w) = Quote)
    <3>1. splitWords(us).args = << >> /\ splitWords(us).open /\ splitWords(us).arg = z
      <4>1. splitWord(NoArgs, w).args = NoArgs.args /\ splitWord(NoArgs, w).open
            /\ splitWord(NoArgs, w).arg = Tail(w)
          BY <1>4, <1>5, <2>2, SplitWordIs
      <4> QED
          BY <1>2, <1>4, <1>5, <4>1
    <3>2. NoCommand(z)
        BY DEF NoCommand
    <3> QED
        BY <3>1, <3>2 DEF QuotedState
  <2> QED
      BY <2>1, <2>2
<1>7. us \in Seq(W)
    BY <1>3
<1> HIDE DEF us
<1>8. << >> \in S
    BY <1>3, <1>6, <1>7, ConcatEmptySeq
<1>9. ASSUME NEW v \in Seq(W), NEW x \in W, v \in S PROVE Append(v, x) \in S
  <2>1. us \o Append(v, x) = Append(us \o v, x) /\ us \o v \in Seq(W) /\ Append(v, x) \in Seq(W)
    <3> HIDE DEF W
    <3> QED BY <1>7, ConcatAppend, ConcatProperties, Appended
  <2>2. splitWords(Append(us \o v, x)) = splitWord(splitWords(us \o v), x)
        /\ splitWords(us \o v) \in SplitStates(C)
      BY <2>1, SplitEquations
  <2>3. QuotedState(splitWords(us \o v))
      BY <1>9
  <2>4. QuotedState(splitWord(splitWords(us \o v), x))
      BY <2>2, <2>3, QuotedStep
  <2> QED
      BY <2>1, <2>2, <2>4
<1>10. Seq(W) \subseteq S
  <2> HIDE DEF S, W
  <2> QED BY <1>8, <1>9, TextInduction
<1> QED
    BY <1>10 DEF us, w

\* What parse and extractCommand return.
LEMMA ParseIs ==
    ASSUME NEW s, NEW args
    PROVE  args \in parse(s) <=> args = split(s).args /\ ~ split(s).open
    BY DEF parse

\* When what is behind the first character passes hasUnquotedArgs, then a
\* command that was extracted is that first character, and a word of its own.
IsCommand(x, u, name) == x = name /\ words(<< x >> \o u) = << << x >> >> \o words(u)

LEMMA CommandIsFirst ==
    ASSUME NEW C, NEW x \in C \ Spaces, NEW u \in Seq(C), ~ hasUnquotedArgs(u),
           NEW name, name \notin Spaces, name # Quote,
           NEW args \in parse(<< x >> \o u), args # << >>, Head(args) = << name >>
    PROVE  IsCommand(x, u, name)
<1> USE DEF IsCommand
<1> DEFINE t == << x >> \o u
<1>1. args = splitWords(words(t)).args /\ ~ splitWords(words(t)).open
    BY ParseIs DEF split
<1>2. PICK w \in Seq(C \ Spaces), vs \in Seq(Word(C)) :
              /\ words(t) = << << x >> \o w >> \o vs
              /\ << x >> \o w \in Word(C)
              /\ w = << >> <=> (u = << >> \/ u[1] \in Spaces)
              /\ w # << >> => w[1] = u[1]
    BY FirstWord
<1>3. u # << >> => u[1] \in Spaces \cup {Quote}
  <2> SUFFICES ASSUME u # << >>, u[1] \notin Spaces, u[1] # Quote PROVE FALSE
      OBVIOUS
  <2> DEFINE r == SubSeq(u, 2, Len(u))
  <2>1. u[1] \in C /\ r \in Seq(C) /\ u = << u[1] >> \o r
      BY CutFirst
  <2> HIDE DEF r
  <2>2. quoteState(<< u[1] >> \o r) = "unquoted"
      BY <2>1, UnquotedStays
  <2> QED
      BY <2>1, <2>2 DEF hasUnquotedArgs
<1> HIDE DEF t
<1>4. x # Quote
  <2> SUFFICES ASSUME x = Quote PROVE FALSE
      OBVIOUS
  <2>1. w # << >> => w[1] = Quote
      BY <1>2, <1>3
  <2>2. QuotedState(splitWords(<< << Quote >> \o w >> \o vs))
      BY <2>1, QuotedWordFirst
  <2>3. QuotedState(splitWords(words(t)))
      BY <1>2, <2>2
  <2>4. NoCommand(args[1])
      BY <1>1, <2>3 DEF QuotedState
  <2>5. args[1] = << name >>
    <3>1. args \in Seq(Arg(C))
      <4>1. words(t) \in Seq(Word(C))
        <5>1. t \in Seq(C)
          <6>1. x \in C
              OBVIOUS
          <6> QED
              BY <6>1, InFront DEF t
        <5> QED
            BY <5>1, WordEquations DEF words, WordStates
      <4>2. splitWords(words(t)) \in SplitStates(C)
          BY <4>1, SplitEquations
      <4> QED
          BY <1>1, <4>2 DEF SplitStates
    <3> QED
        BY <3>1
  <2>6. << name >> # << >> /\ << name >>[1] = name
      OBVIOUS
  <2> QED
      BY <2>4, <2>5, <2>6 DEF NoCommand, Spaces
<1>5. x = name /\ w = << >>
  <2> DEFINE z == << x >> \o w
  <2>1. Head(z) = x /\ z[1] = x /\ Len(z) = Len(w) + 1
    <3> DEFINE D == C \ Spaces
    <3>1. x \in D /\ w \in Seq(D)
        OBVIOUS
    <3> HIDE DEF D
    <3> QED
        BY <3>1, InFront
  <2>2. z \in Word(C)
      BY <1>2
  <2>3. words(t) = << z >> \o vs
      BY <1>2
  <2> HIDE DEF z
  <2>4. splitWords(<< z >> \o vs).args = << z >> \o splitWords(vs).args
      BY <1>4, <2>1, <2>2, PlainWordFirst
  <2> DEFINE B == splitWords(vs).args
  <2>5. B \in Seq(Arg(C)) /\ z \in Arg(C)
      BY <2>2, SplitEquations, WordIsArg DEF SplitStates
  <2> HIDE DEF B
  <2>6. Head(<< z >> \o B) = z
      BY <2>5, InFront
  <2>7. z = << name >>
      BY <1>1, <2>3, <2>4, <2>6 DEF B
  <2>8. Len(<< name >>) = 1 /\ << name >>[1] = name /\ Len(w) \in Nat
      OBVIOUS
  <2>9. Len(w) = 0 /\ x = name
      BY <2>1, <2>7, <2>8
  <2> QED
      BY <2>9
<1>6. << x >> \in Word(C) /\ << x >> \in Seq(C)
    BY DEF Word
<1>7. words(<< x >>) = << << x >> >>
    BY <1>6, OneWord
<1>8. CASE u = << >>
  <2>1. words(u) = << >>
      BY <1>8, WordEquations DEF words, NoWords
  <2>2. t = << x >>
      BY <1>8 DEF t
  <2> DEFINE h == << x >>
  <2> HIDE DEF h
  <2>3. << h >> \o << >> = << h >>
      OBVIOUS
  <2>4. << << x >> >> \o << >> = << << x >> >>
      BY <2>3 DEF h
  <2> QED
      BY <1>5, <1>7, <2>1, <2>2, <2>4 DEF t
<1>9. CASE u # << >>
  <2> DEFINE r == SubSeq(u, 2, Len(u))
             sp == u[1]
             h == << x >>
             g == << sp >>
  <2>1. sp \in C /\ sp \in Spaces /\ r \in Seq(C) /\ u = g \o r
      BY <1>2, <1>5, <1>9, CutFirst
  <2> HIDE DEF r, sp
  <2>2. words(u) = words(r)
      BY <2>1, SpaceInFront
  <2>3. h \in Seq(C) /\ g \in Seq(C) /\ Append(h, sp) = h \o g
      BY <1>6, <2>1, Appended
  <2>4. words(h) = << h >>
      BY <1>7
  <2> HIDE DEF h, g
  <2>5. h \o (g \o r) = (h \o g) \o r
    <3>1. Regroups(h, g, r)
        BY <2>1, <2>3, Regrouping
    <3> QED
        BY <3>1 DEF Regroups
  <2>6. words(Append(h, sp) \o r) = words(h) \o words(r)
    <3>1. SplitsAt(h, sp, r)
        BY <2>1, <2>3, SpaceSplits
    <3> QED
        BY <3>1 DEF SplitsAt
  <2>7. words(h \o u) = << h >> \o words(u)
    <3>1. h \o u = Append(h, sp) \o r
        BY <2>1, <2>3, <2>5, Zenon
    <3> QED
        BY <2>2, <2>4, <2>6, <3>1, Zenon
  <2> QED
      BY <1>5, <2>7 DEF h
<1> QED
    BY <1>8, <1>9

\* The name of a command is one character, and neither space nor quote.
LEMMA SchemaNames ==
    ASSUME NEW sc \in schemas
    PROVE  \E name : sc.name = << name >> /\ name \notin Spaces /\ name # Quote
<1>1. PICK name, min, args : sc = schema(name, min, args) /\ name \notin Spaces /\ name # Quote
  <2>1. \/ sc = schema("/login", 1, << MaxName >>) \/ sc = schema("/logout", 0, << >>)
        \/ sc = schema("/users", 0, << >>) \/ sc = schema("/user", 1, << MaxUuid >>)
        \/ sc = schema("/send", 2, << MaxUuid, MaxBody >>)
        \/ sc = schema("/messages", 1, << MaxUuid >>)
        \/ sc = schema("/subscribe", 1, << MaxUuid >>)
        \/ sc = schema("/subscribed", 0, << MaxUuid >>)
        \/ sc = schema("/unsubscribe", 1, << MaxUuid >>)
        \/ sc = schema("/use", 0, << MaxUuid, MaxUuid, MaxUuid >>)
        \/ sc = schema("/create", 1, << MaxBody >>)
        \/ sc = schema("/create", 2, << MaxName, MaxBody >>)
        \/ sc = schema("/list", 0, << >>) \/ sc = schema("/info", 0, << >>)
      BY Zenon DEF schemas
  <2>2. \A name \in {"/login", "/logout", "/users", "/user", "/send", "/messages", "/subscribe",
                     "/subscribed", "/unsubscribe", "/use", "/create", "/list", "/info"} :
           name \notin Spaces /\ name # Quote
      BY DEF Spaces, Quote, Blank, CR, LF
  <2> QED
      BY <2>1, <2>2
<1> QED
    BY <1>1 DEF schema

\* What ClientApplication::dispatchCommandLine has made sure of when it sends
\* the line s as a: the server splits the frame into the same arguments.
Sound(C, s, a) ==
    /\ a.frame \in Seq(C)
    /\ parseArgs(a.frame) = << a.command >> \o a.args
    /\ a.args \in Seq(Arg(C))
    /\ \E sc \in schemas : /\ sc.name = a.command
                           /\ sc.min <= Len(a.args) /\ Len(a.args) <= Len(sc.args)
    /\ QuoteCount(s) % 2 = 0

LEMMA AcceptedIsSound ==
    ASSUME NEW C, NEW s \in Seq(C), NEW a \in accepted(s)
    PROVE  Sound(C, s, a)
<1> DEFINE t == trimLeft(s)
           rest(command) == SubSeq(t, Len(command) + 1, Len(t))
<1>1. PICK c, g :
         /\ c \in extractCommand(t)
         /\ isSupportedServerCommand(c) /\ g \in validateArgs(c, rest(c))
         /\ a = [command |-> c, args |-> g, frame |-> c \o rest(c)]
    BY DEF accepted
<1>2. PICK name : c = << name >> /\ name \notin Spaces /\ name # Quote
    BY <1>1, SchemaNames DEF isSupportedServerCommand
<1> DEFINE u == rest(c)
<1>3. /\ g \in parse(u) /\ ~ hasUnquotedArgs(u)
      /\ \E sc \in schemas : sc.name = c /\ sc.min <= Len(g) /\ Len(g) <= Len(sc.args)
    BY <1>1 DEF validateArgs, findSchema
<1>4. PICK args \in parse(t) : args # << >> /\ Head(args) = c
    BY <1>1 DEF extractCommand
<1>5. t # << >>
  <2> SUFFICES ASSUME t = << >> PROVE FALSE
      OBVIOUS
  <2>1. words(t) = << >>
      BY WordEquations DEF words, NoWords
  <2>2. split(t).args = << >>
      BY <2>1, SplitEquations DEF split, NoArgs
  <2> QED
      BY <1>4, <2>2, ParseIs
<1>6. PICK p \in Seq(C \cap Spaces), x \in C \ Spaces, v \in Seq(C) :
         s = p \o (<< x >> \o v) /\ t = << x >> \o v
  <2>1. Trimmed(C, s)
      BY TrimLeft
  <2> QED
      BY <1>5, <2>1 DEF Trimmed
<1>7. u = v
  <2>1. Len(c) = 1
      BY <1>2
  <2>2. u = SubSeq(t, 2, Len(t))
      BY <2>1
  <2>3. Tail(<< x >> \o v) = v /\ << x >> \o v \in Seq(C)
    <3>1. x \in C
        OBVIOUS
    <3> QED
        BY <3>1, InFront
  <2>4. Tail(t) = SubSeq(t, 2, Len(t))
      BY <1>6, <2>3
  <2> QED
      BY <1>6, <2>2, <2>3, <2>4
<1>8. c \o u = << name >> \o v
    BY <1>2, <1>7
<1> HIDE DEF t, u
<1>9. x = name /\ words(<< x >> \o v) = << << x >> >> \o words(v)
  <2>1. args \in parse(<< x >> \o v) /\ ~ hasUnquotedArgs(v) /\ Head(args) = << name >>
      BY <1>2, <1>3, <1>4, <1>6, <1>7
  <2>2. IsCommand(x, v, name)
      BY <1>2, <1>4, <2>1, CommandIsFirst
  <2> QED
      BY <2>2 DEF IsCommand
<1>10. x \in C /\ x \notin Spaces /\ x # Quote
    BY <1>2, <1>9
<1>11. words(v) \in Seq(Word(C))
    BY WordEquations DEF words, WordStates
<1>12. g = splitWords(words(v)).args /\ g \in Seq(Arg(C))
  <2>1. g = splitWords(words(v)).args
      BY <1>3, <1>7, ParseIs DEF split
  <2> QED
      BY <1>11, <2>1, SplitEquations DEF SplitStates
<1>13. parseArgs(<< x >> \o v) = << << x >> >> \o g
  <2> DEFINE h == << x >>
             vs == words(v)
  <2>1. h \in Word(C) /\ Head(h) # Quote
      BY <1>10 DEF Word
  <2> HIDE DEF h, vs
  <2>2. splitWords(<< h >> \o vs).args = << h >> \o splitWords(vs).args
      BY <1>11, <2>1, PlainWordFirst DEF vs
  <2> QED
      BY <1>9, <1>12, <2>2 DEF parseArgs, split, h, vs
<1>14. << x >> \o v \in Seq(C)
    BY <1>10, InFront
<1>15. QuoteCount(s) % 2 = 0
  <2> DEFINE h == << x >>
             q == p \o h
             D == C \ {Quote}
  <2>1. h \in Seq(D)
      BY <1>10
  <2>2. p \in Seq(D)
    <3>1. C \cap Spaces \subseteq D
        BY DEF Quote, Spaces, Blank, CR, LF
    <3> QED
        BY <3>1
  <2>3. p \in Seq(C) /\ h \in Seq(C)
      BY <2>1, <2>2
  <2> HIDE DEF h
  <2>4. q \in Seq(D)
      BY <2>1, <2>2, ConcatProperties
  <2>5. p \o (h \o v) = q \o v
    <3>1. v \in Seq(C)
        BY <1>10
    <3>2. Regroups(p, h, v)
        BY <2>3, <3>1, Regrouping
    <3> QED
        BY <3>2 DEF Regroups
  <2> HIDE DEF q
  <2>6. QuoteCount(q \o v) = QuoteCount(v)
      BY <2>4, QuoteCountBehind
  <2>7. QuoteCount(v) % 2 = 0
      BY <1>3, <1>7, QuoteParity
  <2> QED
      BY <1>6, <2>5, <2>6, <2>7 DEF h
<1>16. a.command = << x >> /\ a.args = g /\ a.frame = << x >> \o v
    BY <1>1, <1>2, <1>8, <1>9 DEF u
<1>17. \E sc \in schemas : sc.name = a.command /\ sc.min <= Len(a.args) /\ Len(a.args) <= Len(sc.args)
    BY <1>2, <1>3, <1>9, <1>16
<1> QED
    BY <1>12, <1>13, <1>14, <1>15, <1>16, <1>17 DEF Sound

\* The arguments of a text without line ends hold none.
LEMMA ParseArgsType ==
    ASSUME NEW C, NEW s \in Seq(C)
    PROVE  parseArgs(s) \in Seq(Arg(C))
<1>1. words(s) \in Seq(Word(C))
    BY WordEquations DEF words, WordStates
<1> QED
    BY <1>1, SplitEquations DEF parseArgs, split, SplitStates

-------------------------------------------------------------------------------
(* Lines *)

CRLF == << CR, LF >>

LEMMA LineWithCR ==
    ASSUME NEW C, CR \in C, NEW s \in Seq(C)
    PROVE  /\ Append(s, CR) \in Seq(C) /\ Append(s, CR) # << >>
           /\ Len(Append(s, CR)) = Len(s) + 1 /\ Append(s, CR)[Len(s) + 1] = CR
           /\ \A i \in 1..Len(s) : Append(s, CR)[i] = s[i]
           /\ Front(Append(s, CR)) = s /\ Last(Append(s, CR)) = CR
    BY DEF Front, Last

LEMMA LineWithEnd ==
    ASSUME NEW C, CR \in C, LF \in C, NEW s \in Seq(C)
    PROVE  /\ s \o CRLF \in Seq(C) /\ Len(s \o CRLF) = Len(s) + 2
           /\ \A i \in 1..Len(s) : (s \o CRLF)[i] = s[i]
           /\ (s \o CRLF)[Len(s) + 1] = CR /\ (s \o CRLF)[Len(s) + 2] = LF
<1>1. CRLF \in Seq(C) /\ Len(CRLF) = 2 /\ CRLF[1] = CR /\ CRLF[2] = LF
    BY DEF CRLF
<1>2. s \o CRLF \in Seq(C) /\ Len(s \o CRLF) = Len(s) + Len(CRLF)
      /\ (\A i \in 1..Len(s) : (s \o CRLF)[i] = s[i])
      /\ \A i \in 1..Len(CRLF) : (s \o CRLF)[Len(s) + i] = CRLF[i]
  <2>1. CRLF \in Seq(C)
      BY <1>1
  <2> QED
      BY <2>1, Concat
<1>3. 1 \in 1..Len(CRLF) /\ 2 \in 1..Len(CRLF)
    BY <1>1
<1> DEFINE e == s \o CRLF
<1> HIDE DEF e
<1>4. e \in Seq(C) /\ Len(e) = Len(s) + 2 /\ (\A i \in 1..Len(s) : e[i] = s[i])
      /\ e[Len(s) + 1] = CR /\ e[Len(s) + 2] = LF
    BY <1>1, <1>2, <1>3 DEF e
<1> QED
    BY <1>4 DEF e

\* What was read from a connection (rb) and what was not yet (u) are a line,
\* its end and more.
Holds(rb, u, fr, r) == rb \o u = fr \o CRLF \o r

\* The line that is then read first.
LEMMA LineCut ==
    ASSUME NEW C, CR \in C, LF \in C, NEW fr \in Seq(C), ~ hasLine(fr), NEW r \in Seq(C),
           NEW rb \in Seq(C), NEW u \in Seq(C), Holds(rb, u, fr, r), hasLine(rb)
    PROVE  firstLine(rb) = fr /\ afterLine(rb) \in Seq(C) /\ afterLine(rb) \o u = r
<1> DEFINE b == rb \o u
           e == fr \o CRLF
           T == {i \in 1..Len(rb) : rb[i] = LF}
           k == Min(T)
           n == Len(fr) + 2
<1>2. Len(fr) \in Nat /\ Len(rb) \in Nat /\ Len(u) \in Nat /\ Len(r) \in Nat
    OBVIOUS
<1>3. e \in Seq(C) /\ Len(e) = n /\ (\A i \in 1..Len(fr) : e[i] = fr[i])
      /\ e[Len(fr) + 1] = CR /\ e[Len(fr) + 2] = LF
    BY LineWithEnd
<1> HIDE DEF e
<1>4. b = e \o r
    BY DEF e, Holds
<1>5. b \in Seq(C) /\ Len(b) = n + Len(r) /\ (\A i \in 1..n : b[i] = e[i])
      /\ \A i \in 1..Len(r) : b[n + i] = r[i]
  <2>1. e \in Seq(C)
      BY <1>3
  <2>2. e \o r \in Seq(C) /\ Len(e \o r) = Len(e) + Len(r)
        /\ (\A i \in 1..Len(e) : (e \o r)[i] = e[i])
        /\ \A i \in 1..Len(r) : (e \o r)[Len(e) + i] = r[i]
      BY <2>1, Concat
  <2>3. Len(e) = n
      BY <1>3
  <2> HIDE DEF b, n
  <2> QED
      BY <1>4, <2>2, <2>3
<1>6. Len(b) = Len(rb) + Len(u) /\ (\A i \in 1..Len(rb) : b[i] = rb[i])
      /\ \A i \in 1..Len(u) : b[Len(rb) + i] = u[i]
    BY Concat
<1> HIDE DEF b
<1>7. T \subseteq Nat /\ T # {}
  <2>1. T # {}
      BY DEF hasLine, Contains
  <2> QED
      BY <2>1
<1>8. k \in T /\ \A y \in T : k <= y
  <2> HIDE DEF T
  <2> QED BY <1>7, LeastNumber DEF Min
<1>9. lineEnd(rb) = k
    BY <1>7 DEF lineEnd, SelectInSeq
<1> HIDE DEF k
<1>10. k = n
  <2>1. k \in 1..Len(rb) /\ rb[k] = LF /\ b[k] = LF
      BY <1>6, <1>8
  <2>2. \A i \in 1..Len(fr) + 1 : b[i] # LF
    <3>1. \A i \in 1..Len(fr) : fr[i] # LF
        BY DEF hasLine, Contains
    <3>2. CR # LF
        BY DEF CR, LF
    <3>3. \A i \in 1..Len(fr) + 1 : i \in 1..n /\ (i \in 1..Len(fr) \/ i = Len(fr) + 1)
        BY <1>2
    <3> QED
        BY <1>3, <1>5, <3>1, <3>2, <3>3
  <2>3. k >= n
    <3>1. k \notin 1..Len(fr) + 1
        BY <2>1, <2>2
    <3> QED
        BY <1>2, <2>1, <3>1
  <2>4. n \in T
    <3>1. n \in 1..n /\ n \in 1..Len(rb)
        BY <1>2, <2>1, <2>3
    <3>2. rb[n] = LF
        BY <1>3, <1>5, <1>6, <3>1
    <3> QED
        BY <3>1, <3>2
  <2> QED
      BY <1>2, <1>8, <2>1, <2>3, <2>4
<1>11. n \in 1..Len(rb)
    BY <1>8, <1>10
<1>12. firstLine(rb) = fr
  <2> DEFINE m == n - 1
             s == SubSeq(rb, 1, m)
             a == Append(fr, CR)
  <2>1. m \in 0..Len(rb) /\ m = Len(fr) + 1
      BY <1>2, <1>11
  <2>2. s \in Seq(C) /\ Len(s) = m /\ \A i \in 1..m : s[i] = rb[i]
    <3> HIDE DEF m
    <3> QED BY <2>1, Cut
  <2>3. a \in Seq(C) /\ a # << >> /\ Len(a) = Len(fr) + 1 /\ a[Len(fr) + 1] = CR
        /\ (\A i \in 1..Len(fr) : a[i] = fr[i]) /\ Front(a) = fr /\ Last(a) = CR
      BY LineWithCR
  <2> HIDE DEF s, a
  <2>4. \A i \in 1..m : i \in 1..n /\ i \in 1..Len(rb) /\ (i \in 1..Len(fr) \/ i = Len(fr) + 1)
      BY <1>2, <1>11
  <2>5. \A i \in 1..m : s[i] = a[i]
    <3> SUFFICES ASSUME NEW i \in 1..m PROVE s[i] = a[i]
        OBVIOUS
    <3>1. s[i] = e[i]
        BY <1>5, <1>6, <2>2, <2>4
    <3> QED
        BY <1>3, <2>3, <2>4, <3>1
  <2>6. s = a
      BY <2>1, <2>2, <2>3, <2>5, SeqEqual
  <2>7. s = SubSeq(rb, 1, lineEnd(rb) - 1)
      BY <1>9, <1>10 DEF s
  <2> QED
      BY <2>3, <2>6, <2>7 DEF firstLine
<1>13. afterLine(rb) \in Seq(C) /\ afterLine(rb) \o u = r
  <2> DEFINE s == SubSeq(rb, n + 1, Len(rb))
  <2>1. s \in Seq(C) /\ Len(s) = Len(rb) - n /\ \A i \in 1..Len(rb) - n : s[i] = rb[n + i]
    <3>1. n \in 0..Len(rb)
        BY <1>11
    <3> HIDE DEF n
    <3> QED
        BY <3>1, Cut
  <2>2. afterLine(rb) = s
      BY <1>9, <1>10 DEF afterLine
  <2> HIDE DEF s
  <2>3. Len(r) = Len(s) + Len(u)
    <3>1. n \in Nat
        BY <1>2
    <3>2. Len(b) = n + Len(r) /\ Len(b) = Len(rb) + Len(u) /\ Len(s) = Len(rb) - n
      <4> HIDE DEF n
      <4> QED BY <1>5, <1>6, <2>1
    <3> HIDE DEF n
    <3>3. \A x, y, z, w \in Nat : x + y = w + z => z = (x - w) + y
        OBVIOUS
    <3>4. Len(rb) + Len(u) = n + Len(r)
        BY <3>2
    <3> QED
        BY <1>2, <3>1, <3>2, <3>3, <3>4
  <2>4. ASSUME NEW i \in 1..Len(s) PROVE r[i] = s[i]
    <3>1. i \in 1..Len(r) /\ n + i \in 1..Len(rb) /\ i \in 1..Len(rb) - n
        BY <1>2, <1>11, <2>1, <2>3
    <3>2. r[i] = b[n + i] /\ s[i] = rb[n + i] /\ b[n + i] = rb[n + i]
        BY <1>5, <1>6, <2>1, <3>1
    <3> QED
        BY <3>2
  <2>5. ASSUME NEW i \in 1..Len(u) PROVE r[Len(s) + i] = u[i]
    <3> DEFINE j == Len(s) + i
    <3>1. j \in 1..Len(r) /\ n + j = Len(rb) + i
        BY <1>2, <1>11, <2>1, <2>3
    <3> HIDE DEF j
    <3>2. r[j] = b[n + j] /\ b[Len(rb) + i] = u[i]
        BY <1>5, <1>6, <3>1
    <3> QED
        BY <3>1, <3>2 DEF j
  <2>6. r = s \o u
      BY <2>1, <2>3, <2>4, <2>5, IsConcat
  <2> QED
      BY <2>1, <2>2, <2>6
<1> QED
    BY <1>12, <1>13

-------------------------------------------------------------------------------
(* The texts that the server stores *)

LEMMA Marks == {Quote, Backslash} \cap Spaces = {} /\ Quote # Backslash /\ Blank \in Spaces
    BY DEF Quote, Backslash, Spaces, Blank, CR, LF

\* In front of a blank there is neither a quote nor another blank, and a blank
\* may follow.
Tidy(t) == \A i \in 1..Len(t) : i > 1 /\ t[i] = Blank => t[i - 1] \notin {Quote, Blank}
TakesBlank(t) == t # << >> => Last(t) \notin {Quote, Blank}

LEMMA TidyAppend ==
    ASSUME NEW C, NEW s \in Seq(C), NEW c \in C
    PROVE  Tidy(Append(s, c)) <=> Tidy(s) /\ (c = Blank => TakesBlank(s))
<1> DEFINE t == Append(s, c)
           n == Len(s)
<1>1. n \in Nat /\ Len(t) = n + 1 /\ t[n + 1] = c /\ (\A i \in 1..n : t[i] = s[i])
      /\ (s # << >> => n > 0 /\ Last(s) = s[n]) /\ (s = << >> => n = 0)
    BY DEF Last
<1> HIDE DEF t, n
<1>2. \A i \in 1..n + 1 : i \in 1..n \/ i = n + 1
    BY <1>1
<1>3. \A i \in 1..n : i \in 1..n + 1 /\ (i > 1 => i - 1 \in 1..n)
    BY <1>1
<1>4. n + 1 \in 1..n + 1 /\ (n > 0 => n \in 1..n /\ n + 1 > 1) /\ (n + 1) - 1 = n /\ (n = 0 => ~ (n + 1 > 1))
    BY <1>1
<1>5. ASSUME Tidy(t) PROVE Tidy(s) /\ (c = Blank => TakesBlank(s))
  <2>1. ASSUME NEW i \in 1..n, i > 1, s[i] = Blank PROVE s[i - 1] \notin {Quote, Blank}
      BY <1>1, <1>3, <1>5, <2>1 DEF Tidy
  <2>2. ASSUME c = Blank, s # << >> PROVE Last(s) \notin {Quote, Blank}
      BY <1>1, <1>4, <1>5, <2>2 DEF Tidy
  <2> QED
      BY <2>1, <2>2 DEF Tidy, TakesBlank, n
<1>6. ASSUME Tidy(s), c = Blank => TakesBlank(s) PROVE Tidy(t)
  <2>1. ASSUME NEW i \in 1..n + 1, i > 1, t[i] = Blank PROVE t[i - 1] \notin {Quote, Blank}
    <3>1. CASE i \in 1..n
        BY <1>1, <1>3, <1>6, <2>1, <3>1 DEF Tidy, n
    <3>2. CASE i = n + 1
      <4>1. n > 0
          BY <1>1, <2>1, <3>2
      <4>2. s # << >> /\ TakesBlank(s)
          BY <1>1, <1>6, <2>1, <3>2, <4>1
      <4> QED
          BY <1>1, <1>4, <3>2, <4>1, <4>2 DEF TakesBlank
    <3> QED
        BY <1>2, <3>1, <3>2
  <2> QED
      BY <1>1, <2>1 DEF Tidy
<1> QED
    BY <1>5, <1>6 DEF t

LEMMA TidyWord ==
    ASSUME NEW C, NEW w \in Seq(C \ Spaces)
    PROVE  Tidy(w) /\ (w # << >> /\ Last(w) # Quote => TakesBlank(w)) /\ (w = << >> => TakesBlank(w))
<1>1. \A i \in 1..Len(w) : w[i] # Blank
    BY DEF Spaces
<1>2. w # << >> => Last(w) # Blank
    BY <1>1, Unappended DEF Spaces
<1> QED
    BY <1>1, <1>2 DEF Tidy, TakesBlank

\* An open argument goes on with a word.
LEMMA TidyJoined ==
    ASSUME NEW C, NEW a \in Arg(C), Tidy(a), TakesBlank(a), NEW w \in Seq(C \ Spaces)
    PROVE  Tidy(Joined(a, w)) /\ (w # << >> /\ Last(w) # Quote => TakesBlank(Joined(a, w)))
<1> DEFINE D == ArgChars(C)
           b == Append(a, Blank)
           j == b \o w
<1>1. a \in Seq(D) /\ Blank \in D /\ w \in Seq(D) /\ (\A i \in 1..Len(w) : w[i] # Blank)
    BY DEF Arg, ArgChars, Spaces
<1> HIDE DEF D
<1>2. b \in Seq(D) /\ Joined(a, w) = j
    BY <1>1, Appended DEF Joined
<1>3. Tidy(b)
    BY <1>1, TidyAppend
<1> HIDE DEF b
<1>4. j \in Seq(D) /\ Len(j) = Len(b) + Len(w) /\ (\A i \in 1..Len(b) : j[i] = b[i])
      /\ (\A i \in 1..Len(w) : j[Len(b) + i] = w[i])
    BY <1>1, <1>2, Concat
<1>5. Len(b) \in Nat /\ Len(w) \in Nat
    BY <1>1, <1>2
<1>6. w # << >> => Last(j) = Last(w) /\ Last(w) # Blank
  <2>1. w # << >> => Last(w) \in C \ Spaces
      BY Unappended
  <2> QED
      BY <1>1, <1>2, <2>1, ConcatFrontLast DEF Spaces
<1> HIDE DEF j
<1>7. ASSUME NEW i \in 1..Len(j), i > 1, j[i] = Blank PROVE j[i - 1] \notin {Quote, Blank}
  <2>1. CASE i \in 1..Len(b)
    <3>1. i - 1 \in 1..Len(b)
        BY <1>5, <1>7, <2>1
    <3> QED
        BY <1>3, <1>4, <1>7, <2>1, <3>1 DEF Tidy
  <2>2. CASE i \notin 1..Len(b)
    <3>1. i - Len(b) \in 1..Len(w) /\ Len(b) + (i - Len(b)) = i
        BY <1>4, <1>5, <1>7, <2>2
    <3>2. j[Len(b) + (i - Len(b))] = w[i - Len(b)]
        BY <1>4, <3>1
    <3> QED
        BY <1>1, <1>7, <3>1, <3>2
  <2> QED
      BY <2>1, <2>2
<1> QED
    BY <1>2, <1>6, <1>7 DEF Tidy, TakesBlank

\* Every argument is tidy.
TidyState(a) ==
    /\ \A i \in 1..Len(a.args) : Tidy(a.args[i])
    /\ Tidy(a.arg)
    /\ a.open => TakesBlank(a.arg)

LEMMA TidyStep ==
    ASSUME NEW C, NEW a \in SplitStates(C), NEW w \in Word(C), TidyState(a)
    PROVE  TidyState(splitWord(a, w))
<1> DEFINE b == splitWord(a, w)
<1>1. a.args \in Seq(Arg(C)) /\ a.arg \in Arg(C)
    BY DEF SplitStates
<1>2. w \in Seq(C \ Spaces) /\ w # << >>
    BY DEF Word
<1>3. ASSUME NEW x \in Arg(C), Tidy(x), b.args = Append(a.args, x)
      PROVE  \A i \in 1..Len(b.args) : Tidy(b.args[i])
  <2>1. Len(b.args) = Len(a.args) + 1 /\ b.args[Len(a.args) + 1] = x
        /\ (\A i \in 1..Len(a.args) : b.args[i] = a.args[i])
      BY <1>1, <1>3, Appended
  <2>2. \A i \in 1..Len(a.args) + 1 : i \in 1..Len(a.args) \/ i = Len(a.args) + 1
      BY <1>1
  <2> QED
      BY <1>3, <2>1, <2>2 DEF TidyState
<1>4. w \in Arg(C) /\ Front(w) \in Seq(C \ Spaces) /\ Front(w) \in Arg(C)
      /\ Tail(w) \in Seq(C \ Spaces) /\ Tail(w) \in Arg(C)
      /\ (Len(w) > 1 => Front(Tail(w)) \in Arg(C) /\ Front(Tail(w)) \in Seq(C \ Spaces)
                        /\ Last(Tail(w)) = Last(w))
  <2>1. Front(w) \in Seq(C \ Spaces)
      BY <1>2, Unappended
  <2>2. Tail(w) \in Seq(C \ Spaces) /\ Len(Tail(w)) = Len(w) - 1
      BY <1>2, HeadTailProperties
  <2>3. ASSUME Len(w) > 1 PROVE Front(Tail(w)) \in Seq(C \ Spaces) /\ Last(Tail(w)) = Last(w)
    <3>1. Len(Tail(w)) # 0 /\ Len(w) \in Nat /\ Len(<< >>) = 0
        BY <1>2, <2>2, <2>3
    <3>2. Tail(w) # << >>
        BY <3>1, Zenon
    <3>3. Front(Tail(w)) \in Seq(C \ Spaces)
        BY <2>2, <3>2, Unappended
    <3>4. \A i \in 1..Len(w) - 1 : Tail(w)[i] = w[i + 1]
        BY <1>2, HeadTailProperties
    <3>5. Last(Tail(w)) = Tail(w)[Len(w) - 1] /\ Len(w) - 1 \in 1..Len(w) - 1 /\ (Len(w) - 1) + 1 = Len(w)
        BY <2>2, <2>3, <3>1 DEF Last
    <3> QED
        BY <3>3, <3>4, <3>5 DEF Last
  <2> QED
      BY <2>1, <2>2, <2>3, WordIsArg
<1>5. CASE a.open /\ Last(w) = Quote
  <2>1. b.args = Append(a.args, Joined(a.arg, Front(w))) /\ ~ b.open /\ b.arg = << >>
      BY <1>5, SplitWordIs
  <2>2. Joined(a.arg, Front(w)) \in Arg(C)
      BY <1>1, JoinedType
  <2>3. Tidy(Joined(a.arg, Front(w)))
      BY <1>1, <1>4, <1>5, TidyJoined DEF TidyState
  <2>4. Tidy(<< >>)
      BY DEF Tidy
  <2> QED
      BY <1>3, <2>1, <2>2, <2>3, <2>4 DEF TidyState
<1>6. CASE a.open /\ Last(w) # Quote
  <2>1. b.args = a.args /\ b.open /\ b.arg = Joined(a.arg, w)
      BY <1>6, SplitWordIs
  <2>2. Tidy(Joined(a.arg, w)) /\ TakesBlank(Joined(a.arg, w))
      BY <1>1, <1>2, <1>6, TidyJoined DEF TidyState
  <2> QED
      BY <2>1, <2>2 DEF TidyState
<1>7. CASE ~ a.open /\ Head(w) # Quote
  <2>1. b.args = Append(a.args, w) /\ ~ b.open /\ b.arg = a.arg
      BY <1>7, SplitWordIs
  <2>2. Tidy(w)
      BY <1>2, TidyWord
  <2> QED
      BY <1>3, <1>4, <2>1, <2>2 DEF TidyState
<1>8. CASE ~ a.open /\ Head(w) = Quote /\ Len(w) > 1 /\ Last(w) = Quote
  <2>1. b.args = Append(a.args, Front(Tail(w))) /\ ~ b.open /\ b.arg = a.arg
      BY <1>8, SplitWordIs
  <2>2. Tidy(Front(Tail(w)))
      BY <1>4, <1>8, TidyWord
  <2> QED
      BY <1>3, <1>4, <1>8, <2>1, <2>2 DEF TidyState
<1>9. CASE ~ a.open /\ Head(w) = Quote /\ ~ (Len(w) > 1 /\ Last(w) = Quote)
  <2>1. b.args = a.args /\ b.open /\ b.arg = Tail(w)
      BY <1>9, SplitWordIs
  <2>2. Tidy(Tail(w)) /\ TakesBlank(Tail(w))
    <3>1. CASE Len(w) > 1
        BY <1>4, <1>9, <3>1, TidyWord
    <3>2. CASE ~ (Len(w) > 1)
      <4>1. Tail(w) = << >>
          BY <1>2, <3>2
      <4> QED
          BY <1>4, <4>1, TidyWord
    <3> QED
        BY <3>1, <3>2
  <2> QED
      BY <2>1, <2>2 DEF TidyState
<1> QED
    BY <1>5, <1>6, <1>7, <1>8, <1>9

LEMMA ArgsAreTidy ==
    ASSUME NEW C, NEW s \in Seq(C)
    PROVE  \A i \in 1..Len(parseArgs(s)) : Tidy(parseArgs(s)[i])
<1> DEFINE W == Word(C)
           S == {v \in Seq(W) : TidyState(splitWords(v))}
<1>1. << >> \in S
    BY SplitEquations DEF NoArgs, TidyState, Tidy
<1>2. ASSUME NEW v \in Seq(W), NEW w \in W, v \in S PROVE Append(v, w) \in S
  <2>1. splitWords(Append(v, w)) = splitWord(splitWords(v), w)
        /\ splitWords(v) \in SplitStates(C) /\ Append(v, w) \in Seq(W)
      BY SplitEquations, Appended
  <2>2. TidyState(splitWords(v))
      BY <1>2
  <2>3. TidyState(splitWord(splitWords(v), w))
      BY <2>1, <2>2, TidyStep
  <2> QED
      BY <2>1, <2>3
<1>3. Seq(W) \subseteq S
  <2> HIDE DEF S, W
  <2> QED BY <1>1, <1>2, TextInduction
<1>4. words(s) \in Seq(W)
    BY WordEquations DEF words, WordStates
<1> QED
    BY <1>3, <1>4 DEF parseArgs, split, TidyState

-------------------------------------------------------------------------------
(* Reading back what the server has quoted *)

\* The client splits the line s into the tokens t.
Reads(s, t) == split(s).args = t /\ ~ split(s).open

LEMMA ReadsParse ==
    ASSUME NEW s, NEW t, Reads(s, t)
    PROVE  parse(s) = {t}
<1>1. \A args : args \in parse(s) <=> args = t
    BY ParseIs DEF Reads
<1> QED
    BY <1>1

\* Two pieces with a blank between them.
LEMMA ReadsConcat ==
    ASSUME NEW C, Blank \in C, NEW p \in Seq(C), NEW q \in Seq(C), NEW s, NEW t,
           Reads(p, s), Reads(q, t)
    PROVE  Reads(p \o << Blank >> \o q, s \o t)
<1> DEFINE us == words(p)
           vs == words(q)
           x == p \o << Blank >> \o q
<1>1. Append(p, Blank) = p \o << Blank >> /\ Blank \in Spaces
    BY DEF Spaces
<1>2. words(x) = us \o vs
  <2>1. words(Append(p, Blank) \o q) = words(p) \o words(q)
      BY <1>1, WordsOfConcat
  <2> QED
      BY <1>1, <2>1
<1>3. us \in Seq(Word(C)) /\ vs \in Seq(Word(C))
    BY WordEquations DEF words, WordStates
<1>4. splitWords(us).args = s /\ ~ splitWords(us).open /\ splitWords(vs).args = t
      /\ ~ splitWords(vs).open
    BY DEF Reads, split
<1> HIDE DEF us, vs
<1>5. Behind(splitWords(us).args, splitWords(vs), splitWords(us \o vs))
    BY <1>3, <1>4, SplitOfConcat
<1> QED
    BY <1>2, <1>4, <1>5 DEF Behind, Reads, split

\* A word that does not start with a quote.
LEMMA ReadsWord ==
    ASSUME NEW C, NEW w \in Word(C), Head(w) # Quote
    PROVE  Reads(w, << w >>)
<1>1. words(w) = << w >>
    BY OneWord
<1>2. << w >> = Append(<< >>, w) /\ << >> \in Seq(Word(C))
    OBVIOUS
<1>3. splitWords(<< w >>) = splitWord(NoArgs, w) /\ NoArgs \in SplitStates(C)
    BY <1>2, SplitEquations
<1>4. NoArgs.args = << >> /\ ~ NoArgs.open
    BY DEF NoArgs
<1>5. splitWords(<< w >>).args = Append(<< >>, w) /\ ~ splitWords(<< w >>).open
    BY <1>3, <1>4, SplitWordIs
<1> QED
    BY <1>1, <1>2, <1>5 DEF Reads, split

\* Behind a quote and the text x: the word that is not finished yet is the
\* first, or it goes on with an open argument, or there is none.
IsOpen(us, a) == splitWords(us).open /\ splitWords(us).args = << >> /\ splitWords(us).arg = a

InFirst(C, x) ==
    /\ << Quote >> \o x \in Word(C)
    /\ wordState(<< Quote >> \o x).ws = << << Quote >> \o x >>
    /\ wordState(<< Quote >> \o x).in

InLater(C, x) ==
    /\ wordState(<< Quote >> \o x).in
    /\ \E us \in Seq(Word(C)), w \in Word(C), a \in Arg(C) :
          /\ wordState(<< Quote >> \o x).ws = Append(us, w)
          /\ IsOpen(us, a)
          /\ x = Joined(a, w)

Between(C, x) ==
    /\ ~ wordState(<< Quote >> \o x).in
    /\ \E us \in Seq(Word(C)), a \in Arg(C) :
          /\ wordState(<< Quote >> \o x).ws = us
          /\ IsOpen(us, a)
          /\ x = Append(a, Blank)

Quoting(C, x) == InFirst(C, x) \/ InLater(C, x) \/ Between(C, x)

\* The first word opens an argument.
LEMMA FirstOpens ==
    ASSUME NEW C, NEW x \in Arg(C), InFirst(C, x), TakesBlank(x)
    PROVE  << << Quote >> \o x >> \in Seq(Word(C)) /\ IsOpen(<< << Quote >> \o x >>, x)
<1> DEFINE w == << Quote >> \o x
           D == ArgChars(C) \cup {Quote}
<1>1. w \in Word(C)
    BY DEF InFirst
<1>2. x \in Seq(D) /\ Quote \in D
    BY DEF Arg
<1> HIDE DEF D
<1>3. Head(w) = Quote /\ Tail(w) = x /\ Len(w) = Len(x) + 1 /\ (x # << >> => Last(w) = Last(x))
    BY <1>2, InFront
<1> HIDE DEF w
<1>4. ~ (Len(w) > 1 /\ Last(w) = Quote)
  <2>1. CASE x = << >>
    <3>1. Len(x) = 0
        BY <2>1
    <3> QED
        BY <1>3, <3>1
  <2>2. CASE x # << >>
      BY <1>3, <2>2 DEF TakesBlank
  <2> QED
      BY <2>1, <2>2
<1>5. << w >> = Append(<< >>, w) /\ << >> \in Seq(Word(C)) /\ << w >> \in Seq(Word(C))
    BY <1>1
<1>6. splitWords(<< w >>) = splitWord(NoArgs, w) /\ NoArgs \in SplitStates(C)
    BY <1>1, <1>5, SplitEquations
<1>7. NoArgs.args = << >> /\ ~ NoArgs.open
    BY DEF NoArgs
<1>8. splitWords(<< w >>).args = << >> /\ splitWords(<< w >>).open
      /\ splitWords(<< w >>).arg = Tail(w)
    BY <1>1, <1>3, <1>4, <1>6, <1>7, SplitWordIs
<1> QED
    BY <1>3, <1>5, <1>8 DEF IsOpen, w

\* A later word goes on with it.
LEMMA LaterStaysOpen ==
    ASSUME NEW C, NEW us \in Seq(Word(C)), NEW w \in Word(C), NEW a \in Arg(C), IsOpen(us, a),
           TakesBlank(Joined(a, w))
    PROVE  Append(us, w) \in Seq(Word(C)) /\ IsOpen(Append(us, w), Joined(a, w))
<1>1. Last(Joined(a, w)) = Last(w) /\ Joined(a, w) # << >>
    BY JoinedType
<1>2. Last(w) # Quote
    BY <1>1 DEF TakesBlank
<1>3. Append(us, w) \in Seq(Word(C)) /\ splitWords(Append(us, w)) = splitWord(splitWords(us), w)
      /\ splitWords(us) \in SplitStates(C)
    BY SplitEquations, Appended
<1> QED
    BY <1>2, <1>3, SplitWordIs DEF IsOpen

\* Both hold for one more character.
LEMMA QuotingStep ==
    ASSUME NEW C, Quote \in C, Blank \in C, NEW x \in Arg(C), NEW c \in ArgChars(C),
           Quoting(C, x), c = Blank => TakesBlank(x)
    PROVE  Quoting(C, Append(x, c))
<1> DEFINE q == << Quote >> \o x
           a0 == wordState(q)
           y == Append(x, c)
           r == << Quote >> \o y
<1>1. x \in Seq(C) /\ c \in C /\ << Quote >> \in Seq(C) /\ Append(x, c) \in Seq(C)
    BY DEF Arg, ArgChars
<1>2. q \in Seq(C) /\ r = Append(q, c)
    BY <1>1, ConcatAppend, ConcatProperties
<1>3. wordState(r) = wordStep(a0, c) /\ a0 \in WordStates(C)
    BY <1>1, <1>2, WordEquations
<1>4. y \in Arg(C)
    BY DEF Arg
<1> HIDE DEF q, r, y, a0
<1>5. CASE c = Blank
  <2>1. c \in Spaces /\ TakesBlank(x)
      BY <1>5 DEF Spaces
  <2>2. ~ wordState(r).in /\ wordState(r).ws = a0.ws
      BY <1>3, <2>1, WordStepIs
  <2>3. SUFFICES \E us \in Seq(Word(C)) : a0.ws = us /\ IsOpen(us, x)
      BY <1>5, <2>2 DEF Quoting, Between, r, y
  <2>4. CASE InFirst(C, x)
      BY <2>1, <2>4, FirstOpens DEF InFirst, a0, q
  <2>5. CASE InLater(C, x)
    <3>1. PICK us \in Seq(Word(C)), w \in Word(C), a \in Arg(C) :
             a0.ws = Append(us, w) /\ IsOpen(us, a) /\ x = Joined(a, w)
        BY <2>5 DEF InLater, a0, q
    <3>2. Append(us, w) \in Seq(Word(C)) /\ IsOpen(Append(us, w), Joined(a, w))
        BY <2>1, <3>1, LaterStaysOpen
    <3> QED
        BY <3>1, <3>2
  <2>6. CASE Between(C, x)
    <3>1. PICK a \in Arg(C) : x = Append(a, Blank)
        BY <2>6 DEF Between
    <3>2. Blank \in ArgChars(C) /\ a \in Seq(ArgChars(C))
        BY DEF ArgChars, Arg
    <3> DEFINE D == ArgChars(C)
               z == Blank
    <3>3. a \in Seq(D) /\ z \in D
        BY <3>2
    <3> HIDE DEF D, z
    <3>4. Append(a, z) # << >> /\ Last(Append(a, z)) = z
        BY <3>3 DEF Last
    <3>5. x # << >> /\ Last(x) = Blank
        BY <3>1, <3>4 DEF z
    <3> QED
        BY <2>1, <3>5 DEF TakesBlank
  <2> QED
      BY <2>4, <2>5, <2>6 DEF Quoting
<1>6. CASE c # Blank
  <2>1. c \in C \ Spaces /\ c \notin Spaces
      BY <1>6 DEF ArgChars
  <2>2. /\ wordState(r).in
        /\ a0.in => wordState(r).ws = Append(Front(a0.ws), Append(Last(a0.ws), c))
        /\ ~ a0.in => wordState(r).ws = Append(a0.ws, << c >>)
      BY <1>3, <2>1, WordStepIs
  <2>3. CASE InFirst(C, x)
    <3>1. q \in Word(C) /\ a0.ws = << q >> /\ a0.in
        BY <2>3 DEF InFirst, a0, q
    <3>2. Front(<< q >>) = << >> /\ Last(<< q >>) = q
        BY DEF Front, Last
    <3>3. wordState(r).ws = << r >>
      <4>1. wordState(r).ws = Append(<< >>, r)
          BY <1>2, <2>2, <3>1, <3>2
      <4>2. Append(<< >>, r) = << r >>
          OBVIOUS
      <4> QED
          BY <4>1, <4>2
    <3>4. r \in Word(C)
      <4>1. q \in Seq(C \ Spaces)
          BY <3>1 DEF Word
      <4>2. Append(q, c) \in Seq(C \ Spaces) /\ Append(q, c) # << >>
          BY <2>1, <4>1, Appended
      <4> QED
          BY <1>2, <4>2 DEF Word
    <3> QED
        BY <2>2, <3>3, <3>4 DEF Quoting, InFirst, r, y
  <2>4. CASE InLater(C, x)
    <3>1. PICK us \in Seq(Word(C)), w \in Word(C), a \in Arg(C) :
             a0.ws = Append(us, w) /\ IsOpen(us, a) /\ x = Joined(a, w)
        BY <2>4 DEF InLater, a0, q
    <3>2. a0.in
        BY <2>4 DEF InLater, a0, q
    <3>3. Front(Append(us, w)) = us /\ Last(Append(us, w)) = w
        BY AppendedEnds, Zenon
    <3> DEFINE v == Append(w, c)
    <3>4. wordState(r).ws = Append(us, v)
        BY <2>2, <3>1, <3>2, <3>3
    <3>5. v \in Word(C)
      <4>1. w \in Seq(C \ Spaces)
          BY DEF Word
      <4>2. Append(w, c) \in Seq(C \ Spaces) /\ Append(w, c) # << >>
          BY <2>1, <4>1, Appended
      <4> QED
          BY <4>2 DEF Word
    <3>6. y = Joined(a, v)
      <4> DEFINE D == ArgChars(C)
                 b == a \o << Blank >>
      <4>1. b \in Seq(D) /\ w \in Seq(D) /\ c \in D
        <5>1. w \in Arg(C)
            BY WordIsArg
        <5> QED
            BY <5>1 DEF Arg, ArgChars
      <4> HIDE DEF b, D
      <4>2. b \o Append(w, c) = Append(b \o w, c)
          BY <4>1, ConcatAppend
      <4> QED
          BY <3>1, <4>2 DEF Joined, b, y
    <3> HIDE DEF v
    <3> QED
        BY <2>2, <3>1, <3>4, <3>5, <3>6 DEF Quoting, InLater, r, y
  <2>5. CASE Between(C, x)
    <3>1. PICK us \in Seq(Word(C)), a \in Arg(C) :
             a0.ws = us /\ IsOpen(us, a) /\ x = Append(a, Blank)
        BY <2>5 DEF Between, a0, q
    <3>2. ~ a0.in
        BY <2>5 DEF Between, a0, q
    <3> DEFINE v == << c >>
    <3>3. wordState(r).ws = Append(us, v)
        BY <2>2, <3>1, <3>2
    <3>4. v \in Word(C)
        BY <2>1 DEF Word
    <3>5. y = Joined(a, v)
      <4> DEFINE D == ArgChars(C)
                 b == Append(a, Blank)
      <4>1. b \in Seq(D) /\ c \in D /\ b = a \o << Blank >>
          BY DEF Arg, ArgChars
      <4> HIDE DEF b, D
      <4>2. b \o << c >> = Append(b, c)
          BY <4>1, Appended
      <4> QED
          BY <3>1, <4>1, <4>2 DEF Joined, b, y
    <3> HIDE DEF v
    <3> QED
        BY <2>2, <3>1, <3>3, <3>4, <3>5 DEF Quoting, InLater, r, y
  <2> QED
      BY <2>3, <2>4, <2>5 DEF Quoting
<1> QED
    BY <1>5, <1>6 DEF y

\* What is between two quotes is one token.
LEMMA ReadsQuoted ==
    ASSUME NEW C, Quote \in C, Blank \in C, NEW x \in Arg(C), Tidy(x)
    PROVE  Reads(<< Quote >> \o x \o << Quote >>, << x >>)
<1> DEFINE D == ArgChars(C)
           S == {t \in Seq(D) : Tidy(t) => Quoting(C, t)}
           y == Append(x, Quote)
           r == << Quote >> \o y
<1>1. x \in Seq(D) /\ Quote \in D /\ << Quote >> \in Seq(D)
    BY Marks DEF Arg, ArgChars
<1>2. << >> \in S
  <2>1. << Quote >> \o << >> = << Quote >>
      OBVIOUS
  <2>2. << Quote >> \in Word(C)
      BY Marks DEF Word
  <2>3. wordState(<< Quote >>).ws = << << Quote >> >> /\ wordState(<< Quote >>).in
      BY <2>2, OneWord DEF words
  <2>4. InFirst(C, << >>)
      BY <2>1, <2>2, <2>3 DEF InFirst
  <2> QED
      BY <2>4 DEF Quoting
<1>3. ASSUME NEW t \in Seq(D), NEW c \in D, t \in S PROVE Append(t, c) \in S
  <2>1. Append(t, c) \in Seq(D)
      BY Appended
  <2> SUFFICES ASSUME Tidy(Append(t, c)) PROVE Quoting(C, Append(t, c))
      BY <2>1
  <2>2. Tidy(t) /\ (c = Blank => TakesBlank(t))
      BY TidyAppend
  <2>3. t \in Arg(C) /\ c \in ArgChars(C) /\ Quoting(C, t)
      BY <1>3, <2>2 DEF Arg
  <2> QED
      BY <2>2, <2>3, QuotingStep
<1>4. Seq(D) \subseteq S
  <2> HIDE DEF S, D
  <2> QED BY <1>2, <1>3, TextInduction
<1>5. Tidy(y) /\ y \in Seq(D) /\ y # << >> /\ Last(y) = Quote /\ Front(y) = x
  <2>1. Quote # Blank
      BY DEF Quote, Blank
  <2> HIDE DEF D
  <2>2. Tidy(y)
      BY <1>1, <2>1, TidyAppend, Zenon
  <2> QED
      BY <1>1, <2>2, AppendedEnds, Zenon
<1>6. Quoting(C, y)
    BY <1>4, <1>5
<1>7. << Quote >> \o x \o << Quote >> = r
  <2> HIDE DEF D
  <2>1. << Quote >> \o Append(x, Quote) = Append(<< Quote >> \o x, Quote)
      BY <1>1, ConcatAppend
  <2>2. << Quote >> \o x \in Seq(D)
      BY <1>1, ConcatProperties
  <2>3. Append(<< Quote >> \o x, Quote) = (<< Quote >> \o x) \o << Quote >>
      BY <1>1, <2>2, Appended
  <2> QED
      BY <2>1, <2>3
<1> SUFFICES Reads(r, << x >>)
    BY <1>7
<1>8. ~ Between(C, y)
  <2> SUFFICES ASSUME Between(C, y) PROVE FALSE
      OBVIOUS
  <2>1. PICK a \in Arg(C) : y = Append(a, Blank)
      BY DEF Between
  <2> DEFINE z == Blank
  <2>2. a \in Seq(D) /\ z \in D /\ z # Quote
      BY DEF Arg, ArgChars, Blank, Quote
  <2> HIDE DEF D, z
  <2>3. Last(Append(a, z)) = z
      BY <2>2, Appended
  <2> QED
      BY <1>5, <2>1, <2>2, <2>3 DEF z
<1>9. words(r) = wordState(r).ws
    BY DEF words
<1> HIDE DEF y, r, D
<1>10. CASE InFirst(C, y)
  <2>1. r \in Word(C) /\ words(r) = << r >>
      BY <1>9, <1>10 DEF InFirst, r
  <2>2. Head(r) = Quote /\ Tail(r) = y /\ Last(r) = Quote /\ Len(r) = Len(y) + 1 /\ Len(y) > 0
    <3>1. Head(r) = Quote /\ Tail(r) = y /\ Last(r) = Last(y) /\ Len(r) = Len(y) + 1
        BY <1>1, <1>5, InFront DEF r
    <3>2. Len(y) > 0
        BY <1>5
    <3> QED
        BY <1>5, <3>1, <3>2
  <2>3. Len(r) > 1
    <3>1. Len(y) \in Nat
        BY <1>5
    <3> QED
        BY <2>2, <3>1
  <2>4. << r >> = Append(<< >>, r) /\ << >> \in Seq(Word(C))
      OBVIOUS
  <2>5. splitWords(<< r >>) = splitWord(NoArgs, r) /\ NoArgs \in SplitStates(C)
      BY <2>1, <2>4, SplitEquations
  <2>6. NoArgs.args = << >> /\ ~ NoArgs.open
      BY DEF NoArgs
  <2>7. splitWords(<< r >>).args = Append(<< >>, Front(Tail(r))) /\ ~ splitWords(<< r >>).open
      BY <2>1, <2>2, <2>3, <2>5, <2>6, SplitWordIs
  <2>8. Front(Tail(r)) = x
      BY <1>5, <2>2
  <2>9. Append(<< >>, x) = << x >>
      OBVIOUS
  <2> QED
      BY <2>1, <2>7, <2>8, <2>9 DEF Reads, split
<1>11. CASE InLater(C, y)
  <2>1. PICK us \in Seq(Word(C)), w \in Word(C), a \in Arg(C) :
           words(r) = Append(us, w) /\ IsOpen(us, a) /\ y = Joined(a, w)
      BY <1>9, <1>11 DEF InLater, r
  <2>2. Last(w) = Quote /\ x = Joined(a, Front(w))
      BY <1>5, <2>1, JoinedType
  <2>3. splitWords(Append(us, w)) = splitWord(splitWords(us), w)
        /\ splitWords(us) \in SplitStates(C)
      BY SplitEquations
  <2>4. splitWords(us).open /\ splitWords(us).args = << >> /\ splitWords(us).arg = a
      BY <2>1 DEF IsOpen
  <2>5. /\ splitWords(Append(us, w)).args = Append(<< >>, x)
        /\ ~ splitWords(Append(us, w)).open
      BY <2>2, <2>3, <2>4, SplitWordIs
  <2>6. Append(<< >>, x) = << x >>
      OBVIOUS
  <2> QED
      BY <2>1, <2>5, <2>6 DEF Reads, split
<1> QED
    BY <1>6, <1>8, <1>10, <1>11 DEF Quoting

\* The escapes keep a text tidy.
LEMMA EscapeIsTidy ==
    ASSUME NEW C, Quote \in C, Backslash \in C, NEW x \in Arg(C), Tidy(x)
    PROVE  escape(x) \in Arg(C) /\ Tidy(escape(x))
<1> DEFINE D == ArgChars(C)
           OK(t) == Tidy(escape(t)) /\ (TakesBlank(t) => TakesBlank(escape(t)))
           S == {t \in Seq(D) : Tidy(t) => OK(t)}
<1>1. Backslash \in D /\ D \cup {Backslash} = D /\ Backslash \notin {Quote, Blank}
    BY DEF ArgChars, Spaces, Backslash, Blank, CR, LF, Quote
<1>2. << >> \in S
    BY EscapeEquations DEF Tidy
<1>3. ASSUME NEW t \in Seq(D), NEW c \in D, t \in S PROVE Append(t, c) \in S
  <2>1. Append(t, c) \in Seq(D) /\ Append(t, c) # << >> /\ Last(Append(t, c)) = c
    <3> HIDE DEF D
    <3> QED BY DEF Last
  <2> SUFFICES ASSUME Tidy(Append(t, c)) PROVE OK(Append(t, c))
      BY <2>1
  <2>2. Tidy(t) /\ (c = Blank => TakesBlank(t))
      BY TidyAppend
  <2>3. Tidy(escape(t)) /\ (TakesBlank(t) => TakesBlank(escape(t)))
      BY <1>3, <2>2
  <2> DEFINE e == escape(t)
             f == escape(Append(t, c))
  <2>4. e \in Seq(D) /\ f = escapeStep(e, c)
      BY <1>1, EscapeEquations DEF EscapeStates
  <2> HIDE DEF e, f, D
  <2>5. CASE c \in {Quote, Backslash}
    <3>1. f = e \o << Backslash, c >>
        BY <2>4, <2>5 DEF escapeStep
    <3>2. << Backslash, c >> = Append(<< Backslash >>, c) /\ << Backslash >> \in Seq(D)
        BY <1>1
    <3>3. e \o Append(<< Backslash >>, c) = Append(e \o << Backslash >>, c)
        BY <2>4, <3>2, ConcatAppend
    <3>4. e \o << Backslash >> = Append(e, Backslash)
        BY <1>1, <2>4, Appended
    <3>5. f = Append(Append(e, Backslash), c)
        BY <3>1, <3>2, <3>3, <3>4
    <3> DEFINE g == Append(e, Backslash)
    <3>6. g \in Seq(D) /\ Tidy(g)
        BY <1>1, <2>3, <2>4, Appended, TidyAppend DEF e
    <3>7. c # Blank
        BY <2>5 DEF Quote, Backslash, Blank
    <3> HIDE DEF g
    <3>8. f = Append(g, c)
        BY <3>5 DEF g
    <3>9. Tidy(f)
        BY <3>6, <3>7, <3>8, TidyAppend
    <3>10. f # << >> /\ Last(f) = c
        BY <3>6, <3>8 DEF Last
    <3> QED
        BY <2>1, <3>9, <3>10 DEF TakesBlank, f
  <2>6. CASE c \notin {Quote, Backslash}
    <3>1. f = e \o << c >>
        BY <2>4, <2>6 DEF escapeStep
    <3>2. f = Append(e, c)
        BY <2>4, <3>1, Appended
    <3>3. Tidy(f)
        BY <2>2, <2>3, <2>4, <3>2, TidyAppend DEF e
    <3>4. f # << >> /\ Last(f) = c
        BY <2>4, <3>2 DEF Last
    <3> QED
        BY <2>1, <3>3, <3>4 DEF TakesBlank, f
  <2> QED
      BY <2>5, <2>6
<1>4. Seq(D) \subseteq S
  <2> HIDE DEF S, D
  <2> QED BY <1>2, <1>3, TextInduction
<1>5. x \in Seq(D)
    BY DEF Arg
<1>6. escape(x) \in Seq(D)
    BY <1>1, <1>5, EscapeEquations DEF EscapeStates
<1> QED
    BY <1>4, <1>5, <1>6 DEF Arg
===============================================================================
