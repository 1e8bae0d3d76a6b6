----------------------------- MODULE MCWorkspace ------------------------------
(* Workspace for TLC. All ids and names are model values; permuting those of *)
(* one kind is a symmetry.                                                   *)
EXTENDS Workspace, TLC

CONSTANT MaxContent     \* bound on the channels and threads of a single user

\* The permutations of the sets that have two members or more in a run.
MCSymmetry ==
    UNION {Permutations(S) : S \in {T \in {Conns, UserIds, Names, TeamIds, ChannelIds,
                                           ThreadIds} : Cardinality(T) > 1}}

\* No step depends on out, the output of the step before, so states that
\* differ in it alone are explored once. The properties about the output are
\* action properties: TLC evaluates them on every step, also on one that leads
\* to a state that is not new.
MCView == << clients, userOf, name, count, contentVars, ctx >>

\* The states that TLC goes on from: two users who share one channel and one
\* thread at most, in either of the teams, or a single user with more of both.
\* The steps that lead out of these states are still checked.
MCBound ==
    LET channels == {ch \in ChannelIds : chanTeam[ch] # None}
        threads  == {th \in ThreadIds : thrChan[th] # None}
    IN  IF Cardinality(Registered) > 1
        THEN Cardinality(channels) <= 1 /\ Cardinality(threads) <= 1
        ELSE Cardinality(channels) + Cardinality(threads) <= MaxContent
===============================================================================
