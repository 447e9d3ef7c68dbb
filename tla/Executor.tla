------------------------------ MODULE Executor ------------------------------
(***************************************************************************)
(* The scan loop of Executor::exec and Executor::execWithSpark             *)
(* (src/executor.cpp) over one buffer: it runs a labelled automaton over   *)
(* the data, VecBytes bytes at a time where a state allows it, keeps the   *)
(* most recent accepting position and the sub-matches, and emits a row     *)
(* when the automaton dies after having accepted.                          *)
(*                                                                         *)
(* Each call of a cmpestri* function is a step of entering it ("enter")    *)
(* and one step per window of its "goto loop"; every other case of the     *)
(* switch is one step.  rows is what queryExec (or storeToDataFrame) was   *)
(* handed, in order.                                                       *)
(***************************************************************************)
EXTENDS Integers, Sequences

CONSTANTS
    VecBytes,   \* 16: bytes compared by one cmpestri
    Bytes,      \* the codes a byte of the data can have
    Inputs      \* the scans: records [fa, data] of an automaton and a buffer

INV_STATE  == 0
INIT_STATE == 1
NUL        == 0
Kinds      == {"ORDERED", "ANY", "RANGES", "C", "INV"}

\* An automaton as Executor::setFA holds it.  groups is the number of
\* sub-matches; start[q] is the group a state opens (0: none, startTable),
\* open[q] the groups a state keeps open (endTable).
IsAutomaton(a) ==
    /\ a.states \subseteq Nat /\ {INV_STATE, INIT_STATE} \subseteq a.states
    /\ a.groups \in Nat
    /\ a.kind \in [a.states -> Kinds]
    /\ \A q \in a.states : a.kind[q] = "INV" <=> q = INV_STATE
    /\ a.next \in [a.states -> [Bytes -> a.states]]
    /\ a.leave \in [a.states -> SUBSET Bytes]
    /\ a.str \in [a.states -> Seq(Bytes)]
    /\ \A q \in a.states : a.kind[q] = "ORDERED" => a.str[q] # <<>>
    /\ a.sink \in [a.states -> a.states]
    /\ a.accept \subseteq a.states \ {INV_STATE}
    /\ a.start \in [a.states -> 0..a.groups]
    /\ a.open \in [a.states -> SUBSET (1..a.groups)]

ASSUME ExecutorAssumption ==
    /\ VecBytes \in Nat \ {0}
    /\ NUL \in Bytes
    /\ \A in \in Inputs : IsAutomaton(in.fa) /\ in.data \in Seq(Bytes)

VARIABLES
    fa, data,           \* the automaton and the buffer: set once
    pc,                 \* "switch", "window" (inside a cmpestri*), "done"
    i,                  \* the next byte
    currentState, recentAcceptState, recentAcceptIndex,     \* ctx
    startSMS,           \* the open group: [id, index], id 0 for none
    subMatches,         \* for each group its [start, end]
    rows                \* the rows emitted: [subs, end]

ctx  == <<currentState, recentAcceptState, recentAcceptIndex>>
vars == <<fa, data, pc, i, ctx, startSMS, subMatches, rows>>

size == Len(data)

Unset == -1     \* UINT64_MAX

NoMatch   == [start |-> Unset, end |-> Unset]
NoMatches == [g \in 1..fa.groups |-> NoMatch]
NoGroup   == [id |-> 0, index |-> 0]

\* The buffer is followed by VecBytes zero bytes.
Byte(k) == IF k < size THEN data[k + 1] ELSE NUL

Kind   == fa.kind[currentState]
Needle == fa.str[currentState]

-----------------------------------------------------------------------------
(* _mm_cmpestri on the window that begins at byte k returns the first       *)
(* position that fits, VecBytes if none does.                               *)

IsFirst(r, Fit(_)) ==
    /\ r < VecBytes => Fit(r)
    /\ \A t \in 0..(r - 1) : ~Fit(t)

\* EQUAL_ORDERED: a needle cut off by the end of the window fits there.
IsOrdIndex(r, needle, k) ==
    LET fits(t) == \A j \in 1..Len(needle) : t + j <= VecBytes => Byte(k + t + j - 1) = needle[j]
    IN  IsFirst(r, fits)

\* EQUAL_ANY and RANGES: the first byte of a set.
IsSetIndex(r, S, k) ==
    LET fits(t) == Byte(k + t) \in S
    IN  IsFirst(r, fits)

-----------------------------------------------------------------------------
Init ==
    /\ \E in \in Inputs : fa = in.fa /\ data = in.data
    /\ pc = "switch" /\ i = 0
    /\ currentState = INIT_STATE /\ recentAcceptState = INV_STATE /\ recentAcceptIndex = 0
    /\ startSMS = NoGroup /\ subMatches = NoMatches
    /\ rows = <<>>

\* The end of every turn of the main loop: note an accepting state.
\* q is the new state, a and x the recent accepting state and index before.
NoteAccept(q, k, a, x) ==
    /\ currentState' = q
    /\ i' = k
    /\ recentAcceptState' = IF q \in fa.accept THEN q ELSE a
    /\ recentAcceptIndex' = IF q \in fa.accept THEN k ELSE x

\* Mutant: the recent match is forgotten in every state.
KeptStateNever == INV_STATE

\* resetContext, where the state is the initial one; it leaves the state.
Reset == currentState = INIT_STATE

KeptState  == IF Reset THEN INV_STATE ELSE recentAcceptState
KeptIndex  == IF Reset THEN 0 ELSE recentAcceptIndex
KeptSubs   == IF Reset THEN NoMatches ELSE subMatches
KeptGroup  == IF Reset THEN [startSMS EXCEPT !.id = 0] ELSE startSMS

\* Mutant: the end of a group counts the byte that ended it.
EndSubMatchLate(subs, g, q, k) ==
    IF g.id > 0 /\ g.id \notin fa.open[q]
    THEN /\ subMatches' = [subs EXCEPT ![g.id] = [start |-> g.index, end |-> k + 1]]
         /\ startSMS' = [g EXCEPT !.id = 0]
    ELSE subMatches' = subs /\ startSMS' = g

\* endSubMatch, if the open group g does not stay open in state q; the group
\* ends before the byte just read, at k.
EndSubMatch(subs, g, q, k) ==
    IF g.id > 0 /\ g.id \notin fa.open[q]
    THEN /\ subMatches' = [subs EXCEPT ![g.id] = [start |-> g.index, end |-> k]]
         /\ startSMS' = [g EXCEPT !.id = 0]
    ELSE subMatches' = subs /\ startSMS' = g

\* startSubMatch, if the state opens a group.
StartSubMatch(g) ==
    IF fa.start[currentState] > 0 THEN [id |-> fa.start[currentState], index |-> i] ELSE g

\* charTable on byte k, while g is the open group.
Step(k, g) ==
    LET q == fa.next[currentState][Byte(k)]
    IN  /\ NoteAccept(q, k + 1, KeptState, KeptIndex)
        /\ EndSubMatch(KeptSubs, g, q, k)

\* case ORDERED, ANY, RANGES: call cmpestriOrd, cmpestriAny, cmpestriRanges.
Enter ==
    /\ pc = "switch" /\ i < size
    /\ Kind \in {"ORDERED", "ANY", "RANGES"}
    /\ pc' = "window"
    /\ startSMS' = IF Kind = "ORDERED" THEN startSMS ELSE StartSubMatch(startSMS)
    /\ UNCHANGED <<fa, data, i, ctx, subMatches, rows>>

\* The function returns in the same state, at byte k.
Return(k) ==
    /\ NoteAccept(currentState, k, recentAcceptState, recentAcceptIndex)
    /\ pc' = "switch"
    /\ UNCHANGED <<fa, data, startSMS, subMatches, rows>>

\* goto loop, at byte k.
Loop(k) ==
    /\ i' = k
    /\ UNCHANGED <<fa, data, pc, ctx, startSMS, subMatches, rows>>

\* The window is past the data.
WindowEnd == pc = "window" /\ i >= size /\ Return(i)

\* Mutant: a needle cut off by the end of the window counts as found.
WindowOrdPartial(r) ==
    /\ pc = "window" /\ i < size /\ Kind = "ORDERED"
    /\ IsOrdIndex(r, Needle, i)
    /\ \/ r = VecBytes /\ Loop(i + VecBytes)
       \/ /\ r < VecBytes
          /\ NoteAccept(fa.sink[currentState], i + r + Len(Needle), KeptState, KeptIndex)
          /\ startSMS' = KeptGroup /\ subMatches' = KeptSubs
          /\ pc' = "switch"
          /\ UNCHANGED <<fa, data, rows>>

\* cmpestriOrd, one window.  r is the index found: none, too near the end of
\* the window to be sure of, or a needle.
WindowOrd(r) ==
    /\ pc = "window" /\ i < size /\ Kind = "ORDERED"
    /\ IsOrdIndex(r, Needle, i)
    /\ \/ r = VecBytes /\ Loop(i + VecBytes)
       \/ r < VecBytes /\ r > VecBytes - Len(Needle) /\ Loop(i + r)
       \/ /\ r < VecBytes /\ r <= VecBytes - Len(Needle)
          /\ NoteAccept(fa.sink[currentState], i + r + Len(Needle), KeptState, KeptIndex)
          /\ startSMS' = KeptGroup /\ subMatches' = KeptSubs
          /\ pc' = "switch"
          /\ UNCHANGED <<fa, data, rows>>

\* Mutant: the loop over the windows does not stop behind the data.
WindowSetPastEnd(r) ==
    /\ pc = "window" /\ Kind \in {"ANY", "RANGES"}
    /\ IsSetIndex(r, fa.leave[currentState], i)
    /\ r = VecBytes /\ Loop(i + VecBytes)

\* cmpestriAny and cmpestriRanges, one window.  The reset comes after the
\* group of the initial state was opened, and closes it again.
WindowSet(r) ==
    /\ pc = "window" /\ i < size /\ Kind \in {"ANY", "RANGES"}
    /\ IsSetIndex(r, fa.leave[currentState], i)
    /\ \/ r = VecBytes /\ Loop(i + VecBytes)
       \/ /\ r < VecBytes /\ i + r >= size
          /\ NoteAccept(currentState, i + r, KeptState, KeptIndex)
          /\ startSMS' = KeptGroup /\ subMatches' = KeptSubs
          /\ pc' = "switch"
          /\ UNCHANGED <<fa, data, rows>>
       \/ /\ r < VecBytes /\ i + r < size
          /\ Step(i + r, KeptGroup)
          /\ pc' = "switch"
          /\ UNCHANGED <<fa, data, rows>>

\* case C
StepC ==
    /\ pc = "switch" /\ i < size /\ Kind = "C"
    /\ Step(i, StartSubMatch(KeptGroup))
    /\ UNCHANGED <<fa, data, pc, rows>>

\* Mutants of the next action: the row may be emitted behind the data; the
\* context is not reset; the sub-matches are not reset.
EmitAtEnd ==
    /\ pc = "switch" /\ Kind = "INV" /\ recentAcceptState # INV_STATE
    /\ rows' = Append(rows, [subs |-> subMatches, end |-> recentAcceptIndex])
    /\ NoteAccept(INIT_STATE, recentAcceptIndex + 1, INV_STATE, 0)
    /\ startSMS' = [startSMS EXCEPT !.id = 0] /\ subMatches' = NoMatches
    /\ UNCHANGED <<fa, data, pc>>

EmitNoReset ==
    /\ pc = "switch" /\ i < size /\ Kind = "INV" /\ recentAcceptState # INV_STATE
    /\ rows' = Append(rows, [subs |-> subMatches, end |-> recentAcceptIndex])
    /\ i' = recentAcceptIndex + 1 /\ Len(rows) < 2
    /\ UNCHANGED <<fa, data, pc, ctx, startSMS, subMatches>>

EmitKeepsSubs ==
    /\ pc = "switch" /\ i < size /\ Kind = "INV" /\ recentAcceptState # INV_STATE
    /\ rows' = Append(rows, [subs |-> subMatches, end |-> recentAcceptIndex])
    /\ NoteAccept(INIT_STATE, recentAcceptIndex + 1, INV_STATE, 0)
    /\ UNCHANGED <<fa, data, pc, startSMS, subMatches>>

\* default, with a match: emit the row, go on one byte behind the match.
Emit ==
    /\ pc = "switch" /\ i < size /\ Kind = "INV"
    /\ recentAcceptState # INV_STATE
    /\ LET subs == IF startSMS.id > 0
                   THEN [subMatches EXCEPT ![startSMS.id] = [start |-> startSMS.index, end |-> i - 1]]
                   ELSE subMatches
       IN  rows' = Append(rows, [subs |-> subs, end |-> recentAcceptIndex])
    /\ NoteAccept(INIT_STATE, recentAcceptIndex + 1, INV_STATE, 0)
    /\ startSMS' = [startSMS EXCEPT !.id = 0] /\ subMatches' = NoMatches
    /\ UNCHANGED <<fa, data, pc>>

\* Mutant of the next action: the dead state is kept.
AbandonStuck ==
    /\ pc = "switch" /\ i < size /\ Kind = "INV"
    /\ recentAcceptState = INV_STATE
    /\ NoteAccept(currentState, i, INV_STATE, 0)
    /\ startSMS' = [startSMS EXCEPT !.id = 0] /\ subMatches' = NoMatches
    /\ UNCHANGED <<fa, data, pc, rows>>

\* default, without a match.
Abandon ==
    /\ pc = "switch" /\ i < size /\ Kind = "INV"
    /\ recentAcceptState = INV_STATE
    /\ NoteAccept(INIT_STATE, i, INV_STATE, 0)
    /\ startSMS' = [startSMS EXCEPT !.id = 0] /\ subMatches' = NoMatches
    /\ UNCHANGED <<fa, data, pc, rows>>

\* The loop ends; queryEndExec.
Finish ==
    /\ pc = "switch" /\ i >= size
    /\ pc' = "done"
    /\ UNCHANGED <<fa, data, i, ctx, startSMS, subMatches, rows>>

Next ==
    \/ Enter \/ WindowEnd
    \/ \E r \in 0..VecBytes : WindowOrd(r) \/ WindowSet(r)
    \/ StepC \/ Emit \/ Abandon \/ Finish

\* The scan is one thread that is never blocked.
Spec == Init /\ [][Next]_vars /\ WF_vars(Next)

-----------------------------------------------------------------------------
(* Properties. *)

Index   == 0..(size + VecBytes - 1)
Range0  == [start : Nat \cup {Unset}, end : Nat \cup {Unset}]
Matches == [1..fa.groups -> Range0]

\* Every variable has its type.  i overshoots the data by less than a vector,
\* so a load never reaches past the padding of the buffer.
TypeOK ==
    /\ IsAutomaton(fa) /\ data \in Seq(Bytes)
    /\ pc \in {"switch", "window", "done"}
    /\ i \in Index
    /\ currentState \in fa.states
    /\ recentAcceptState \in fa.states
    /\ recentAcceptIndex \in Index
    /\ startSMS \in [id : 0..fa.groups, index : Index]
    /\ subMatches \in Matches
    /\ rows \in Seq([subs : Matches, end : Nat])

\* A range of bytes from from on, before to.
Within(s, from, to) == from <= s.start /\ s.start <= s.end /\ s.end < to

\* queryExec is handed ranges inside the data only, and the row's match ends
\* before the byte that killed the automaton.
RowsInBuffer ==
    \A k \in 1..Len(rows) :
        /\ rows[k].end < size - 1
        /\ \A g \in 1..fa.groups :
            rows[k].subs[g] # NoMatch => Within(rows[k].subs[g], 0, size)

\* Rows come in the order of the data: each ends behind the row before it, and
\* its groups start behind the end of that row, although the scan goes back
\* after every row and keeps sub-matches over several turns of the loop.
RowsInOrder ==
    \A k \in 2..Len(rows) :
        /\ rows[k - 1].end < rows[k].end
        /\ \A g \in 1..fa.groups :
            rows[k].subs[g] # NoMatch => rows[k - 1].end < rows[k].subs[g].start

\* Where the scan was resumed last: one byte behind the last row's match.
Resumed == IF rows = <<>> THEN 0 ELSE rows[Len(rows)].end + 1

\* What the context remembers was seen before this byte: reading a byte is
\* what leads to the dead state, so there it is the byte just read.
Limit == IF currentState = INV_STATE THEN i ELSE i + 1

\* The inductive core: what the context remembers lies between the place the
\* scan was resumed at and Limit.
ContextInv ==
    /\ pc = "window" => Kind \in {"ORDERED", "ANY", "RANGES"}
    /\ Resumed <= i
    /\ recentAcceptState # INV_STATE => Resumed <= recentAcceptIndex /\ recentAcceptIndex < Limit
    /\ startSMS.id > 0 => Resumed <= startSMS.index /\ startSMS.index < Limit
    /\ \A g \in 1..fa.groups : subMatches[g] # NoMatch => Within(subMatches[g], Resumed, i)

IInv == TypeOK /\ ContextInv /\ RowsInBuffer /\ RowsInOrder
=============================================================================
