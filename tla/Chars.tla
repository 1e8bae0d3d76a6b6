-------------------------------- MODULE Chars ---------------------------------
(***************************************************************************)
(* Texts, as the protocol and the save file hold them. A text is a         *)
(* sequence of characters. A word whose spelling never matters (a command, *)
(* a status, a uuid, a key of the save file) is ONE character; the quote,  *)
(* the backslash, white space and line ends are characters of their own.   *)
(***************************************************************************)
EXTENDS Naturals, Sequences, SequencesExt

Quote == "\""
Backslash == "\\"
Blank == " "
CR == "\r"
LF == "\n"

\* What std::isspace and operator>> take for white space.
Spaces == {Blank, CR, LF}

\* The member of a set that has one.
the(A) == CHOOSE r \in A : TRUE

\* op(x). (The set around x makes TLC evaluate it once, not as often as op
\* mentions it.)
with(x, op(_)) == the({op(y) : y \in {x}})

\* op(...op(op(base, s[1]), s[2])..., s[n]): a loop over the characters, the
\* words or the items of s (FoldLeft of SequencesExt, with with).
fold(op(_, _), base, s) ==
    LET over(t) ==
            LET upTo[i \in 0..Len(t)] ==
                    IF i = 0 THEN base ELSE with(upTo[i - 1], LAMBDA a : op(a, t[i]))
            IN  upTo[Len(t)]
    IN  with(s, over)

\* What op makes of each item of the sequence s.
each(s, op(_)) == [i \in DOMAIN s |-> op(s[i])]
===============================================================================
