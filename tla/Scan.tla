-------------------------------- MODULE Scan --------------------------------
(***************************************************************************)
(* A query on one file: the automaton that the patterns of a table and a   *)
(* sample of the file give (RegexNfa, DfaGen, DfaMerge, MergeKeys, Pfa,    *)
(* Vfa), loaded into the executor (Executor::setFA), which scans the       *)
(* buffer (Executor).                                                      *)
(*                                                                         *)
(* Beside it runs a second executor on the same merged automaton with      *)
(* every state labelled C, that is one byte at a time and with no chain    *)
(* removed.  The vector labels are an acceleration: both must emit the     *)
(* same rows.                                                              *)
(***************************************************************************)
EXTENDS Compile

VARIABLES
    keys, fa, data, pc, i, currentState, recentAcceptState, recentAcceptIndex,
    startSMS, subMatches, rows,
    plain, pc0, i0, currentState0, recentAcceptState0, recentAcceptIndex0,
    startSMS0, subMatches0, rows0

\* Both begin where Init says, so they need no inputs of their own.
V == INSTANCE Executor WITH Bytes <- Chars, Inputs <- {}
P == INSTANCE Executor WITH Bytes <- Chars, Inputs <- {}, fa <- plain,
        pc <- pc0, i <- i0, currentState <- currentState0,
        recentAcceptState <- recentAcceptState0, recentAcceptIndex <- recentAcceptIndex0,
        startSMS <- startSMS0, subMatches <- subMatches0, rows <- rows0

vvars == <<pc, i, currentState, recentAcceptState, recentAcceptIndex,
           startSMS, subMatches, rows>>
pvars == <<pc0, i0, currentState0, recentAcceptState0, recentAcceptIndex0,
           startSMS0, subMatches0, rows0>>
vars  == <<keys, fa, data, plain, vvars, pvars>>

Init ==
    /\ \E s \in Scans : keys = s.keys /\ fa = s.fa /\ plain = s.plain /\ data = s.data
    /\ pc = "switch" /\ i = 0 /\ currentState = INIT_STATE
    /\ recentAcceptState = INV_STATE /\ recentAcceptIndex = 0
    /\ startSMS = V!NoGroup /\ subMatches = V!NoMatches /\ rows = <<>>
    /\ pc0 = "switch" /\ i0 = 0 /\ currentState0 = INIT_STATE
    /\ recentAcceptState0 = INV_STATE /\ recentAcceptIndex0 = 0
    /\ startSMS0 = P!NoGroup /\ subMatches0 = P!NoMatches /\ rows0 = <<>>

\* The byte-by-byte scan goes first, so that the rows are known.
ByteScan == P!Next /\ UNCHANGED <<keys, fa, vvars>>

VectorScan == pc0 = "done" /\ V!Next /\ UNCHANGED <<keys, plain, pvars>>

Next == ByteScan \/ VectorScan

Spec == Init /\ [][Next]_vars /\ WF_vars(Next)

-----------------------------------------------------------------------------
\* The byte-by-byte scan has ended, the vector scan not begun; it has ended.
PlainDone == pc0 = "done"
JustDone  == PlainDone /\ pc = "switch" /\ i = 0
Done      == pc = "done"

\* The vector scan emits the rows of the byte-by-byte scan, in their order,
\* and has emitted them all when it ends.
SameRows ==
    PlainDone => /\ Len(rows) <= Len(rows0) /\ rows = SubSeq(rows0, 1, Len(rows))
                 /\ Done => rows = rows0

\* The labelling kept what it must keep: no group starts inside a chain that
\* disappeared, and needles were not cut.
GroupsKept   == fa.start[INV_STATE] = 0
NeedlesWhole == \A q \in fa.states : fa.back[q] = <<>>

\* constructQstars goes on where no character leads on: it appends NUL, and the
\* dead state.  Such a needle is found in the padding of the buffer.
NeedlesPlain ==
    \A q \in fa.states : fa.kind[q] = "ORDERED" =>
        \A j \in 1..Len(fa.str[q]) : fa.str[q][j] # V!NUL

\* No group starts in a state that loops: one byte at a time it would be started
\* again with every byte, with a vector label it is started once.
StartsOnce == \A q \in plain.states, c \in Chars : plain.start[q] # 0 => plain.next[q][c] # q

\* With the groups kept and whole needles, none of which ends in NUL, the vector
\* scan emits the rows of the byte-by-byte scan.
VectorExact == GroupsKept /\ NeedlesWhole /\ NeedlesPlain /\ StartsOnce => SameRows

\* Text from from to end is in the language of an automaton.
In(nfa, from, end) ==
    nfa.accept \in FoldLeft(LAMBDA S, c : Move(nfa, S, c), EpsClosure(nfa, {nfa.init}),
                            SubSeq(data, from + 1, end))

\* The text from from to end is a match of the k-th key, cut into its parts.
IsCut(k, cut, from, end) ==
    /\ cut[0] >= from /\ cut[Len(keys[k])] = end
    /\ \A p \in 1..Len(keys[k]) :
        cut[p - 1] <= cut[p] /\ In(keys[k][p].nfa, cut[p - 1], cut[p])

Groups(k) == {p \in 1..Len(keys[k]) : keys[k][p].name # NoName}

\* Each group of the row has the range of its part.
HasRanges(k, cut, row) ==
    \A p \in Groups(k) :
        row.subs[KeyId(TableKeys(keys), keys[k][p].name)] = [start |-> cut[p - 1], end |-> cut[p]]

\* Behind the place where it begins, a group could begin again, had the match
\* begun later.
Reopened(k, cut, from) ==
    \E p \in Groups(k) \ {1}, m \in from..cut[Len(keys[k])] :
        /\ cut[p - 1] < m
        /\ \E f \in from..m : In(PatternNfa(SubSeq(keys[k], 1, p - 1)), f, m)

\* A row is read as a match of every key, one behind the other in the order of
\* the keys, at least a byte apart; it ends with the match of the last key.
IsRead(row, How(_, _, _)) ==
    \E end \in [1..Len(keys) -> 0..row.end] :
        /\ end[Len(keys)] = row.end
        /\ \A k \in 1..Len(keys) :
            LET from == IF k = 1 THEN 0 ELSE end[k - 1] + 1
            IN  /\ from <= end[k]
                /\ \E cut \in [0..Len(keys[k]) -> from..end[k]] :
                    IsCut(k, cut, from, end[k]) /\ How(k, cut, from)

\* Every row is a match, and its groups are cut out of it: no key's match
\* reaches into the next one's and no group is left to another key.  A group
\* that could begin again inside itself is begun again, and loses its head.
RowsExtract ==
    JustDone => \A r \in 1..Len(rows0) :
        /\ IsRead(rows0[r], LAMBDA k, cut, from : TRUE)
        /\ IsRead(rows0[r], LAMBDA k, cut, from : ~Reopened(k, cut, from))
            => IsRead(rows0[r], LAMBDA k, cut, from : HasRanges(k, cut, rows0[r]))

\* A match is not forgotten: if the data holds one of a single pattern, a row
\* was emitted, or the scan reached the end of the data with a match it could
\* still lengthen.
HasMatch == \E f, e \in 0..Len(data) : f <= e /\ In(PatternNfa(keys[1]), f, e)

MatchKept ==
    JustDone /\ Len(keys) = 1 /\ HasMatch => rows0 # <<>> \/ recentAcceptState0 # INV_STATE

\* Of a needle longer than the register the head alone is found, at byte i: the
\* index is beyond where a whole needle fits, and the loop returns to byte i.
Stuck == /\ pc = "window" /\ i < V!size /\ V!Kind = "ORDERED"
         /\ Len(V!Needle) > VecBytes /\ V!IsOrdIndex(0, V!Needle, i)

\* A scan ends, or stands for ever before the head of such a needle: jumps back
\* and windows keep it from the end in no other case.
Terminates == <>Done \/ <>[]Stuck
=============================================================================
