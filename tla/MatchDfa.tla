------------------------------ MODULE MatchDfa ------------------------------
(***************************************************************************)
(* From a pattern to the automaton that scans: the parser's reductions     *)
(* (RegexParser), then RuntimeExpression::constructDFA on the finished     *)
(* pattern, then a run of the merged automaton over a text, one character  *)
(* at a time.  The run is what the vectorised executor must be equivalent  *)
(* to, so what is checked here is that the merged automaton finds matches. *)
(***************************************************************************)
EXTENDS RegexParser, DfaMerge

CONSTANT MaxText    \* bound: length of the texts read

VARIABLES
    dfa,    \* the merged automaton; <<>> before it is built
    state,  \* its current state
    text,   \* what has been read, for checking
    live,   \* for checking: the states of the NFA of ".*p" after text
    ended   \* for checking: the lengths of the prefixes of text that end in a match

matchVars == <<dfa, state, text, live, ended>>
allVars   == <<vars, matchVars>>

MatchInit ==
    /\ Init
    /\ dfa = <<>> /\ state = INIT_STATE
    /\ text = <<>> /\ live = {} /\ ended = {}

Parse == Next /\ UNCHANGED matchVars

\* CommandExecutor runs the pattern p of a table with ".*p" beside it.
Construct ==
    /\ done /\ dfa = <<>>
    /\ <<>> \notin Top.ref          \* patterns that match the empty string are left out
    /\ dfa' = ConstructDfa(Top.nfa)
    /\ live' = EpsClosure(SearchNfa(Top.nfa), {SearchNfa(Top.nfa).init})
    /\ UNCHANGED <<vars, state, text, ended>>

Read(c) ==
    /\ dfa # <<>> /\ state # INV_STATE /\ Len(text) < MaxText
    /\ state' = dfa.trans[state][c]
    /\ text' = Append(text, c)
    /\ live' = Move(SearchNfa(Top.nfa), live, c)
    /\ ended' = IF SearchNfa(Top.nfa).accept \in live' THEN ended \cup {Len(text')} ELSE ended
    /\ UNCHANGED <<vars, dfa>>

MatchNext == Parse \/ Construct \/ (\E c \in Chars : Read(c))

MatchSpec == MatchInit /\ [][MatchNext]_allVars

-----------------------------------------------------------------------------
(* Properties. *)

Running   == dfa # <<>>
Accepting == Running /\ state \in dfa.accept

\* No match has ended before the last character read.
NoEarlierMatch == ended \subseteq {Len(text)}

\* Up to the first match the merged automaton is exact: it never dies, and it
\* accepts after precisely the texts that end in the first match.  Neither
\* the merging of states, nor cutting the transitions back to the initial
\* state, nor the sticky copies may lose or invent a first match.
FirstMatchExact ==
    Running /\ NoEarlierMatch =>
        /\ state # INV_STATE
        /\ Accepting <=> ended # {}

\* Up to the first match a group starts in exactly the states whose NFA states
\* hold the first state of the group: merging equal rows and pairing plain
\* with sticky copies keeps the group starts apart.
GroupStartExact ==
    Running /\ NoEarlierMatch =>
        \A k \in 1..Len(dfa.subms) :
            state \in dfa.subms[k].start <=> SearchNfa(Top.nfa).subms[k].start \in live

\* Likewise a group is open in exactly the states that hold an NFA state of
\* its range; the states that are merged agree on the ends of the range only.
GroupOpenExact ==
    Running /\ NoEarlierMatch =>
        \A k \in 1..Len(dfa.subms) :
            LET sm == SearchNfa(Top.nfa).subms[k]
            IN state \in dfa.subms[k].states <=> (sm.start..sm.end) \cap live # {}
=============================================================================
