--------------------------- MODULE ExecutorProofs ---------------------------
(***************************************************************************)
(* For every automaton, buffer and register width: the scan keeps its      *)
(* indices inside the buffer and its padding, and the rows it emits lie    *)
(* inside the data, in the order of the data.  Proved from the inductive   *)
(* invariant IInv of Executor.                                             *)
(***************************************************************************)
EXTENDS Executor, SequenceTheorems, TLAPS

-----------------------------------------------------------------------------
(* What the conjuncts of IInv say of the pieces a step computes before they *)
(* become the next state.                                                   *)

\* The recent accepting state a and its index x, seen before byte k.
AcceptOK(a, x, k) ==
    /\ a \in fa.states /\ x \in Index
    /\ a # INV_STATE => Resumed <= x /\ x < k

\* The open group g, opened before byte k.
GroupOK(g, k) ==
    /\ g \in [id : 0..fa.groups, index : Index]
    /\ g.id > 0 => Resumed <= g.index /\ g.index < k

\* The sub-matches, ended before byte k.
SubsOK(subs, k) ==
    /\ subs \in Matches
    /\ \A g \in 1..fa.groups : subs[g] # NoMatch => Within(subs[g], Resumed, k)

\* The context of the scan.
ScanOK ==
    /\ IsAutomaton(fa) /\ data \in Seq(Bytes)
    /\ pc \in {"switch", "window", "done"}
    /\ pc = "window" => Kind \in {"ORDERED", "ANY", "RANGES"}
    /\ i \in Index /\ Resumed <= i
    /\ currentState \in fa.states
    /\ AcceptOK(recentAcceptState, recentAcceptIndex, Limit)
    /\ GroupOK(startSMS, Limit)
    /\ SubsOK(subMatches, i)

\* The rows.
RowsOK ==
    /\ rows \in Seq([subs : Matches, end : Nat])
    /\ RowsInBuffer /\ RowsInOrder

\* IInv is the state of the scan and the rows, each by itself.
LEMMA Parts == IInv <=> ScanOK /\ RowsOK
BY DEF IInv, TypeOK, ContextInv, ScanOK, RowsOK, AcceptOK, GroupOK, SubsOK

\* The same of the next state: the provers do not prime a defined operator.
LEMMA Primed == IInv' <=> ScanOK' /\ RowsOK'
BY DEF IInv, TypeOK, ContextInv, ScanOK, RowsOK, AcceptOK, GroupOK, SubsOK

-----------------------------------------------------------------------------
(* The automaton, the buffer and the place the scan was resumed at. *)

\* The sizes are numbers, and every byte, padding included, is a code.
LEMMA Sizes ==
    ASSUME data \in Seq(Bytes)
    PROVE  /\ size \in Nat /\ VecBytes \in Nat \ {0}
           /\ \A k \in Nat : Byte(k) \in Bytes
BY ExecutorAssumption DEF size, Byte

\* What each table of the automaton Executor::setFA loaded holds.
LEMMA Tables ==
    ASSUME IsAutomaton(fa)
    PROVE  /\ INV_STATE \in fa.states /\ INIT_STATE \in fa.states
           /\ INV_STATE # INIT_STATE
           /\ fa.groups \in Nat
           /\ \A q \in fa.states : fa.kind[q] = "INV" <=> q = INV_STATE
           /\ \A q \in fa.states, b \in Bytes : fa.next[q][b] \in fa.states
           /\ \A q \in fa.states : fa.kind[q] = "ORDERED" => Len(fa.str[q]) \in Nat \ {0}
           /\ \A q \in fa.states : fa.sink[q] \in fa.states
           /\ \A q \in fa.accept : q \in fa.states /\ q # INV_STATE
           /\ \A q \in fa.states : fa.start[q] \in 0..fa.groups
BY DEF IsAutomaton, INV_STATE, INIT_STATE

\* The scan is resumed at a place in the data.
LEMMA ResumedNat ==
    ASSUME rows \in Seq([subs : Matches, end : Nat])
    PROVE  Resumed \in Nat
<1>1. CASE rows = <<>>
    BY <1>1 DEF Resumed
<1>2. CASE rows # <<>>
    <2>1. Len(rows) \in 1..Len(rows)
        BY <1>2
    <2>2. \A k \in 1..Len(rows) : rows[k] \in [subs : Matches, end : Nat]
        BY ElementOfSeq
    <2>3. rows[Len(rows)].end \in Nat
        BY <2>1, <2>2
    <2> QED BY <1>2, <2>3 DEF Resumed
<1> QED BY <1>1, <1>2

\* A step that emits no row leaves the definitions that depend on the rest.
LEMMA SameData ==
    ASSUME UNCHANGED <<fa, data, rows>>
    PROVE  /\ size' = size /\ Index' = Index /\ Matches' = Matches
           /\ NoMatches' = NoMatches /\ Resumed' = Resumed
           /\ RowsOK => RowsOK'
<1>1. size' = size
    BY DEF size
<1>2. Index' = Index /\ Matches' = Matches /\ NoMatches' = NoMatches /\ Resumed' = Resumed
    BY <1>1 DEF Index, Matches, Range0, NoMatches, NoMatch, Resumed
<1>3. RowsOK => RowsOK'
    BY <1>1, <1>2 DEF RowsOK, RowsInBuffer, RowsInOrder, NoMatch, Within
<1> QED BY <1>1, <1>2, <1>3

-----------------------------------------------------------------------------
(* The pieces of a step. *)

\* resetContext keeps or clears what the context remembers.
LEMMA KeptOK ==
    ASSUME ScanOK, rows \in Seq([subs : Matches, end : Nat])
    PROVE  /\ AcceptOK(KeptState, KeptIndex, Limit)
           /\ GroupOK(KeptGroup, Limit)
           /\ SubsOK(KeptSubs, i)
<1>1. fa.groups \in Nat /\ INV_STATE \in fa.states /\ 0 \in Index
    BY Tables, Sizes DEF ScanOK, Index
<1>2. AcceptOK(KeptState, KeptIndex, Limit)
    BY <1>1 DEF ScanOK, KeptState, KeptIndex, AcceptOK
<1>3. GroupOK(KeptGroup, Limit)
    BY <1>1 DEF ScanOK, KeptGroup, GroupOK
<1>4. NoMatches \in Matches
    BY DEF NoMatches, NoMatch, Matches, Range0
<1>5. SubsOK(KeptSubs, i)
    BY <1>4 DEF ScanOK, KeptSubs, SubsOK, NoMatches
<1> QED BY <1>2, <1>3, <1>5

\* The end of a turn of the loop, at byte k in state q.
LEMMA NoteAcceptOK ==
    ASSUME IsAutomaton(fa), data \in Seq(Bytes),
           UNCHANGED <<fa, data, rows>>,
           NEW q \in fa.states, NEW k \in Index, NEW a, NEW x,
           Resumed <= k, Resumed \in Nat,
           AcceptOK(a, x, IF q = INV_STATE THEN k ELSE k + 1),
           NoteAccept(q, k, a, x)
    PROVE  /\ IsAutomaton(fa)' /\ (data \in Seq(Bytes))'
           /\ (i \in Index)' /\ (Resumed <= i)' /\ (currentState \in fa.states)'
           /\ AcceptOK(recentAcceptState, recentAcceptIndex, Limit)'
           /\ i' = k /\ Limit' = IF q = INV_STATE THEN k ELSE k + 1
<1>1. k \in Nat
    BY Sizes DEF Index
<1>2. Limit' = IF q = INV_STATE THEN k ELSE k + 1
    BY DEF NoteAccept, Limit
<1>3. AcceptOK(recentAcceptState, recentAcceptIndex, Limit)'
    <2>1. CASE q \in fa.accept
        BY <1>1, <1>2, <2>1, SameData, Tables DEF NoteAccept, AcceptOK
    <2>2. CASE q \notin fa.accept
        BY <1>2, <2>2, SameData DEF NoteAccept, AcceptOK
    <2> QED BY <2>1, <2>2
<1>4. IsAutomaton(fa)'
    BY DEF IsAutomaton
<1> QED BY <1>2, <1>3, <1>4, SameData DEF NoteAccept

\* What ended before byte k ended before a later byte.
LEMMA WithinLater ==
    ASSUME NEW s \in Range0, s # NoMatch, NEW from \in Nat, NEW k \in Nat, NEW l \in Nat, k <= l,
           Within(s, from, k)
    PROVE  Within(s, from, l)
<1>1. s.end \in Nat \/ s.end = -1
    BY DEF Range0, Unset
<1> QED BY <1>1 DEF Within

\* Likewise for all the sub-matches.
LEMMA SubsOKLater ==
    ASSUME Resumed \in Nat, NEW k \in Nat, NEW l \in Nat, k <= l,
           NEW subs, SubsOK(subs, k)
    PROVE  SubsOK(subs, l)
<1>1. subs \in Matches /\ \A g \in 1..fa.groups : subs[g] \in Range0
    BY DEF SubsOK, Matches
<1>2. ASSUME NEW g \in 1..fa.groups, subs[g] # NoMatch
      PROVE  Within(subs[g], Resumed, l)
    <2>1. Within(subs[g], Resumed, k)
        BY <1>2 DEF SubsOK
    <2> QED BY <1>1, <1>2, <2>1, WithinLater
<1> QED BY <1>1, <1>2 DEF SubsOK

\* The end of a group, at byte k in state q.
LEMMA EndSubMatchOK ==
    ASSUME IsAutomaton(fa), data \in Seq(Bytes),
           UNCHANGED <<fa, data, rows>>, Resumed \in Nat,
           NEW q, NEW k \in Index, NEW g, NEW subs,
           GroupOK(g, k + 1), SubsOK(subs, k),
           EndSubMatch(subs, g, q, k)
    PROVE  /\ GroupOK(startSMS', k + 1) /\ SubsOK(subMatches', k + 1)
<1>1. k \in Nat /\ fa.groups \in Nat /\ Index \subseteq Nat
    BY Sizes, Tables DEF Index
<1>2. CASE ~(g.id > 0 /\ g.id \notin fa.open[q])
    <2>1. subMatches' = subs /\ startSMS' = g
        BY <1>2 DEF EndSubMatch
    <2>2. SubsOK(subs, k + 1)
        BY <1>1, SubsOKLater
    <2> QED BY <2>1, <2>2
<1>3. CASE g.id > 0 /\ g.id \notin fa.open[q]
    <2>1. GroupOK(startSMS', k + 1)
        BY <1>1, <1>3 DEF EndSubMatch, GroupOK
    <2>2. subMatches' = [subs EXCEPT ![g.id] = [start |-> g.index, end |-> k]]
        BY <1>3 DEF EndSubMatch
    <2>3. g.id \in 1..fa.groups /\ g.index \in Nat /\ Resumed <= g.index /\ g.index <= k
        <3>1. g.id \in 0..fa.groups /\ g.index \in Index
            BY DEF GroupOK
        <3>2. Resumed <= g.index /\ g.index < k + 1
            BY <1>3 DEF GroupOK
        <3>3. g.index \in Nat
            BY <1>1, <3>1
        <3>4. g.id \in 1..fa.groups
            BY <1>1, <1>3, <3>1
        <3>5. g.index <= k
            BY <1>1, <3>2, <3>3
        <3> QED BY <3>2, <3>3, <3>4, <3>5
    <2>4. SubsOK(subs, k + 1) /\ subs \in [1..fa.groups -> Range0]
        BY <1>1, SubsOKLater DEF SubsOK, Matches
    <2> DEFINE ended == [start |-> g.index, end |-> k]
    <2>5. ended \in Range0 /\ Within(ended, Resumed, k + 1)
        BY <1>1, <2>3 DEF Range0, Within
    <2>6. subMatches' \in Matches
        BY <2>2, <2>4, <2>5 DEF Matches
    <2>7. \A h \in 1..fa.groups : subMatches'[h] = IF h = g.id THEN ended ELSE subs[h]
        BY <2>2, <2>4
    <2> HIDE DEF ended
    <2>8. SubsOK(subMatches', k + 1)
        BY <2>4, <2>5, <2>6, <2>7 DEF SubsOK
    <2> QED BY <2>1, <2>8
<1> QED BY <1>2, <1>3

\* An accepting state seen before byte k was seen before a later byte.
LEMMA AcceptOKLater ==
    ASSUME NEW k \in Nat, NEW l \in Nat, k <= l, NEW a, NEW x, AcceptOK(a, x, k), Index \subseteq Nat
    PROVE  AcceptOK(a, x, l)
<1>1. x \in Nat
    BY DEF AcceptOK
<1> QED BY <1>1 DEF AcceptOK

\* A group opened before byte k was opened before a later byte.
LEMMA GroupOKLater ==
    ASSUME NEW k \in Nat, NEW l \in Nat, k <= l, NEW g, GroupOK(g, k), Index \subseteq Nat
    PROVE  GroupOK(g, l)
<1>1. g.index \in Nat
    BY DEF GroupOK
<1> QED BY <1>1 DEF GroupOK

\* The pieces make the next state, when no row is emitted.
LEMMA PiecesOK ==
    ASSUME UNCHANGED <<fa, data, rows>>,
           IsAutomaton(fa)', (data \in Seq(Bytes))',
           (i \in Index)', (Resumed <= i)', (currentState \in fa.states)',
           AcceptOK(recentAcceptState, recentAcceptIndex, Limit)',
           GroupOK(startSMS', Limit'), SubsOK(subMatches', i'),
           pc' \in {"switch", "done"}
    PROVE  ScanOK'
<1>1. GroupOK(startSMS, Limit)'
    BY SameData DEF GroupOK
<1>2. SubsOK(subMatches, i)'
    BY SameData DEF SubsOK, NoMatch, Within
<1> QED BY <1>1, <1>2 DEF ScanOK

\* Indices are numbers, and up to the size of the data every number is one.
LEMMA IndexNat ==
    ASSUME data \in Seq(Bytes)
    PROVE  Index \subseteq Nat /\ \A k \in Nat : k <= size => k \in Index
BY Sizes DEF Index

-----------------------------------------------------------------------------
(* The steps. *)

\* Reading byte k by a table.
LEMMA StepOK ==
    ASSUME ScanOK, RowsOK, UNCHANGED <<fa, data, rows>>, currentState # INV_STATE,
           NEW k \in Nat, i <= k, k < size,
           NEW g, GroupOK(g, k + 1), Step(k, g), pc' = "switch"
    PROVE  ScanOK'
<1> DEFINE q == fa.next[currentState][Byte(k)]
<1>1. /\ IsAutomaton(fa) /\ data \in Seq(Bytes) /\ Resumed \in Nat
      /\ i \in Nat /\ size \in Nat /\ Resumed <= i /\ Index \subseteq Nat
      /\ Limit = i + 1
    BY Sizes, ResumedNat, IndexNat DEF ScanOK, RowsOK, Limit
<1>2. q \in fa.states
    BY <1>1, Tables, Sizes DEF ScanOK
<1>3. k \in Index /\ k + 1 \in Index
    BY <1>1, IndexNat
<1>4. NoteAccept(q, k + 1, KeptState, KeptIndex) /\ EndSubMatch(KeptSubs, g, q, k)
    BY DEF Step
<1> HIDE DEF q
<1>5. AcceptOK(KeptState, KeptIndex, i + 1) /\ SubsOK(KeptSubs, i)
    BY <1>1, KeptOK DEF RowsOK
<1>6. AcceptOK(KeptState, KeptIndex, IF q = INV_STATE THEN k + 1 ELSE k + 1 + 1)
    BY <1>1, <1>5, AcceptOKLater
<1>7. SubsOK(KeptSubs, k)
    BY <1>1, <1>5, SubsOKLater
<1>8. /\ IsAutomaton(fa)' /\ (data \in Seq(Bytes))'
      /\ (i \in Index)' /\ (Resumed <= i)' /\ (currentState \in fa.states)'
      /\ AcceptOK(recentAcceptState, recentAcceptIndex, Limit)'
      /\ i' = k + 1 /\ Limit' = IF q = INV_STATE THEN k + 1 ELSE k + 1 + 1
    BY <1>1, <1>2, <1>3, <1>4, <1>6, NoteAcceptOK
<1>9. GroupOK(startSMS', k + 1) /\ SubsOK(subMatches', k + 1)
    BY <1>1, <1>3, <1>4, <1>7, EndSubMatchOK
<1>10. GroupOK(startSMS', Limit')
    BY <1>1, <1>8, <1>9, GroupOKLater
<1> QED BY <1>8, <1>9, <1>10, PiecesOK

\* What every step may use of the state before it.
LEMMA Before ==
    ASSUME ScanOK, RowsOK
    PROVE  /\ IsAutomaton(fa) /\ data \in Seq(Bytes) /\ Resumed \in Nat
           /\ i \in Nat /\ size \in Nat /\ VecBytes \in Nat \ {0} /\ Index \subseteq Nat
           /\ Resumed <= i /\ i \in Index /\ currentState \in fa.states
           /\ currentState # INV_STATE <=> Kind # "INV"
           /\ currentState # INV_STATE => Limit = i + 1
           /\ 0 \in Index /\ i <= size + VecBytes - 1
           /\ \A k \in Nat : k <= size + VecBytes - 1 => k \in Index
<1>1. /\ IsAutomaton(fa) /\ data \in Seq(Bytes) /\ Resumed \in Nat
      /\ Resumed <= i /\ i \in Index /\ currentState \in fa.states
    BY ResumedNat DEF ScanOK, RowsOK
<1>2. size \in Nat /\ VecBytes \in Nat \ {0} /\ Index \subseteq Nat
    BY <1>1, Sizes, IndexNat
<1>3. i \in Nat
    BY <1>1, <1>2
<1>4. 0 \in Index /\ i <= size + VecBytes - 1 /\ \A k \in Nat : k <= size + VecBytes - 1 => k \in Index
    BY <1>1, <1>2 DEF Index
<1>5. currentState # INV_STATE <=> Kind # "INV"
    BY <1>1, Tables DEF Kind
<1>6. currentState # INV_STATE => Limit = i + 1
    BY DEF Limit
<1> QED BY <1>1, <1>2, <1>3, <1>4, <1>5, <1>6

\* Going on to byte k in the same state and window.
LEMMA LoopOK ==
    ASSUME ScanOK, RowsOK, pc = "window", NEW k \in Index, i <= k, Loop(k)
    PROVE  ScanOK' /\ RowsOK'
<1>1. /\ IsAutomaton(fa) /\ data \in Seq(Bytes) /\ Resumed \in Nat
      /\ i \in Nat /\ k \in Nat /\ Index \subseteq Nat /\ Resumed <= i
      /\ currentState # INV_STATE /\ Limit = i + 1
    BY Before DEF ScanOK
<1>2. i' = k /\ UNCHANGED <<fa, data, pc, rows, startSMS, subMatches>>
    BY DEF Loop
<1>3. Limit' = k + 1
    BY <1>1, <1>2 DEF Limit, Loop, ctx
<1>4. AcceptOK(recentAcceptState, recentAcceptIndex, i + 1) /\ GroupOK(startSMS, i + 1) /\ SubsOK(subMatches, i)
    BY <1>1 DEF ScanOK
<1>5. /\ AcceptOK(recentAcceptState, recentAcceptIndex, k + 1)
      /\ GroupOK(startSMS, k + 1) /\ SubsOK(subMatches, k)
    <2>1. i + 1 \in Nat /\ k + 1 \in Nat /\ i + 1 <= k + 1
        BY <1>1
    <2>2. AcceptOK(recentAcceptState, recentAcceptIndex, k + 1)
        BY <1>1, <1>4, <2>1, AcceptOKLater
    <2>3. GroupOK(startSMS, k + 1)
        BY <1>1, <1>4, <2>1, GroupOKLater
    <2>4. SubsOK(subMatches, k)
        BY <1>1, <1>4, SubsOKLater
    <2> QED BY <2>2, <2>3, <2>4
<1>6. AcceptOK(recentAcceptState, recentAcceptIndex, Limit)'
    BY <1>2, <1>3, <1>5, SameData DEF AcceptOK, Loop, ctx
<1>7. GroupOK(startSMS, Limit)' /\ SubsOK(subMatches, i)'
    BY <1>2, <1>3, <1>5, SameData DEF GroupOK, SubsOK, NoMatch, Within
<1>8. (i \in Index)' /\ (Resumed <= i)' /\ RowsOK'
    BY <1>1, <1>2, SameData
<1>9. IsAutomaton(fa)' /\ (data \in Seq(Bytes))' /\ (currentState \in fa.states)'
      /\ (pc = "window" => Kind \in {"ORDERED", "ANY", "RANGES"})'
      /\ (pc \in {"switch", "window", "done"})'
    BY <1>2 DEF ScanOK, Loop, ctx, IsAutomaton, Kind
<1> QED BY <1>6, <1>7, <1>8, <1>9 DEF ScanOK

\* Noting an accepting state at byte k, in a live state, with the sub-matches
\* kept or cleared.
LEMMA TurnOK ==
    ASSUME ScanOK, RowsOK, UNCHANGED <<fa, data, rows>>,
           NEW q \in fa.states, NEW k \in Index, i <= k, NEW l \in Nat,
           l = IF q = INV_STATE THEN k ELSE k + 1,
           NEW a, NEW x, AcceptOK(a, x, l), NoteAccept(q, k, a, x),
           GroupOK(startSMS', l), SubsOK(subMatches', k),
           pc' \in {"switch", "done"}
    PROVE  ScanOK' /\ RowsOK'
<1>1. RowsOK'
    BY SameData
<1>2. /\ IsAutomaton(fa)' /\ (data \in Seq(Bytes))'
      /\ (i \in Index)' /\ (Resumed <= i)' /\ (currentState \in fa.states)'
      /\ AcceptOK(recentAcceptState, recentAcceptIndex, Limit)'
      /\ i' = k /\ Limit' = l
    BY Before, NoteAcceptOK
<1> QED BY <1>1, <1>2, PiecesOK

\* The group a state opens.
LEMMA StartSubMatchOK ==
    ASSUME ScanOK, RowsOK, NEW g, GroupOK(g, i + 1)
    PROVE  GroupOK(StartSubMatch(g), i + 1)
BY Before, Tables DEF StartSubMatch, GroupOK

\* A call of a cmpestri function opens at most the group of its state.
LEMMA EnterOK ==
    ASSUME ScanOK, RowsOK, Enter
    PROVE  ScanOK' /\ RowsOK'
<1>1. UNCHANGED <<fa, data, rows, i, subMatches>> /\ ctx' = ctx
    BY DEF Enter
<1>2. currentState # INV_STATE /\ Limit = i + 1
    BY Before DEF Enter
<1>3. GroupOK(startSMS', i + 1)
    BY <1>2, StartSubMatchOK DEF Enter, ScanOK
<1>4. Limit' = Limit /\ i' = i /\ Kind' = Kind
    BY <1>1 DEF Limit, ctx, Kind
<1>5. GroupOK(startSMS, Limit)'
    BY <1>1, <1>2, <1>3, <1>4, SameData DEF GroupOK
<1>6. AcceptOK(recentAcceptState, recentAcceptIndex, Limit)'
    BY <1>1, <1>4, SameData DEF ScanOK, AcceptOK, ctx
<1>7. SubsOK(subMatches, i)'
    BY <1>1, SameData DEF ScanOK, SubsOK, NoMatch, Within
<1>8. IsAutomaton(fa)' /\ (data \in Seq(Bytes))' /\ (currentState \in fa.states)'
    BY <1>1 DEF ScanOK, IsAutomaton, ctx
<1>9. (i \in Index)' /\ (Resumed <= i)' /\ RowsOK'
    BY <1>1, SameData DEF ScanOK
<1>10. pc' = "window" /\ Kind' \in {"ORDERED", "ANY", "RANGES"}
    BY <1>4 DEF Enter
<1> QED BY <1>5, <1>6, <1>7, <1>8, <1>9, <1>10 DEF ScanOK

\* A cmpestri function that ran out of data returns as it was called.
LEMMA WindowEndOK ==
    ASSUME ScanOK, RowsOK, WindowEnd
    PROVE  ScanOK' /\ RowsOK'
<1>1. currentState # INV_STATE /\ Limit = i + 1 /\ i \in Nat
    BY Before DEF WindowEnd, ScanOK
<1>2. /\ NoteAccept(currentState, i, recentAcceptState, recentAcceptIndex)
      /\ pc' = "switch" /\ UNCHANGED <<fa, data, startSMS, subMatches, rows>>
    BY DEF WindowEnd, Return
<1>3. GroupOK(startSMS', i + 1) /\ SubsOK(subMatches', i)
    BY <1>1, <1>2 DEF ScanOK
<1> QED BY <1>1, <1>2, <1>3, TurnOK, Before DEF ScanOK

\* A window of cmpestriOrd goes on, or lands behind a needle: the needle fits in
\* the window, so the overshoot stays within the padding.
LEMMA WindowOrdOK ==
    ASSUME ScanOK, RowsOK, NEW r \in 0..VecBytes, WindowOrd(r)
    PROVE  ScanOK' /\ RowsOK'
<1>1. /\ IsAutomaton(fa) /\ i \in Nat /\ size \in Nat /\ VecBytes \in Nat \ {0}
      /\ currentState \in fa.states /\ currentState # INV_STATE /\ Limit = i + 1
      /\ i < size /\ Kind = "ORDERED" /\ pc = "window"
      /\ \A k \in Nat : k <= size + VecBytes - 1 => k \in Index
    BY Before DEF WindowOrd
<1>2. r \in Nat /\ Len(Needle) \in Nat \ {0} /\ fa.sink[currentState] \in fa.states
    BY <1>1, Tables DEF Kind, Needle
<1>3. CASE r = VecBytes /\ Loop(i + VecBytes)
    <2>1. i + VecBytes \in Index /\ i <= i + VecBytes
        BY <1>1
    <2> QED BY <1>1, <1>3, <2>1, LoopOK
<1>4. CASE r < VecBytes /\ Loop(i + r)
    <2>1. i + r \in Index /\ i <= i + r
        BY <1>1, <1>2, <1>4
    <2> QED BY <1>1, <1>4, <2>1, LoopOK
<1>5. CASE /\ r < VecBytes /\ r <= VecBytes - Len(Needle)
           /\ NoteAccept(fa.sink[currentState], i + r + Len(Needle), KeptState, KeptIndex)
           /\ startSMS' = KeptGroup /\ subMatches' = KeptSubs
           /\ pc' = "switch"
           /\ UNCHANGED <<fa, data, rows>>
    <2> DEFINE k == i + r + Len(Needle)
               q == fa.sink[currentState]
               l == IF q = INV_STATE THEN k ELSE k + 1
    <2>1. k \in Nat /\ l \in Nat /\ k \in Index /\ i + 1 <= k /\ i + 1 <= l
        BY <1>1, <1>2, <1>5
    <2>2. AcceptOK(KeptState, KeptIndex, i + 1) /\ GroupOK(KeptGroup, i + 1) /\ SubsOK(KeptSubs, i)
        BY <1>1, KeptOK DEF RowsOK
    <2> HIDE DEF k
    <2>3. AcceptOK(KeptState, KeptIndex, l) /\ GroupOK(KeptGroup, l) /\ SubsOK(KeptSubs, k)
        <3>1. Index \subseteq Nat /\ Resumed \in Nat /\ i + 1 \in Nat /\ i <= k
            BY <1>1, <2>1, Before
        <3> HIDE DEF l
        <3>2. AcceptOK(KeptState, KeptIndex, l)
            BY <2>1, <2>2, <3>1, AcceptOKLater
        <3>3. GroupOK(KeptGroup, l)
            BY <2>1, <2>2, <3>1, GroupOKLater
        <3>4. SubsOK(KeptSubs, k)
            BY <1>1, <2>1, <2>2, <3>1, SubsOKLater
        <3> QED BY <3>2, <3>3, <3>4
    <2>4. NoteAccept(q, k, KeptState, KeptIndex)
        BY <1>5 DEF k
    <2>5. i <= k
        BY <1>1, <2>1
    <2> QED BY <1>2, <1>5, <2>1, <2>3, <2>4, <2>5, TurnOK
<1> QED BY <1>3, <1>4, <1>5 DEF WindowOrd

\* A window of cmpestriAny or cmpestriRanges goes on, stops in the padding, or
\* reads one byte by the table.
LEMMA WindowSetOK ==
    ASSUME ScanOK, RowsOK, NEW r \in 0..VecBytes, WindowSet(r)
    PROVE  ScanOK' /\ RowsOK'
<1>1. /\ i \in Nat /\ size \in Nat /\ VecBytes \in Nat \ {0} /\ r \in Nat
      /\ Index \subseteq Nat /\ Resumed \in Nat
      /\ currentState \in fa.states /\ currentState # INV_STATE /\ Limit = i + 1
      /\ i < size /\ pc = "window"
      /\ \A k \in Nat : k <= size + VecBytes - 1 => k \in Index
    BY Before DEF WindowSet
<1>2. AcceptOK(KeptState, KeptIndex, i + 1) /\ GroupOK(KeptGroup, i + 1) /\ SubsOK(KeptSubs, i)
    BY <1>1, KeptOK DEF RowsOK
<1>3. i + r \in Nat /\ i <= i + r /\ i + 1 <= i + r + 1
    BY <1>1
<1>4. AcceptOK(KeptState, KeptIndex, i + r + 1) /\ GroupOK(KeptGroup, i + r + 1) /\ SubsOK(KeptSubs, i + r)
    <2>1. AcceptOK(KeptState, KeptIndex, i + r + 1)
        BY <1>1, <1>2, <1>3, AcceptOKLater
    <2>2. GroupOK(KeptGroup, i + r + 1)
        BY <1>1, <1>2, <1>3, GroupOKLater
    <2>3. SubsOK(KeptSubs, i + r)
        BY <1>1, <1>2, <1>3, SubsOKLater
    <2> QED BY <2>1, <2>2, <2>3
<1>5. CASE r = VecBytes /\ Loop(i + VecBytes)
    <2>1. i + VecBytes \in Index /\ i <= i + VecBytes
        BY <1>1
    <2> QED BY <1>1, <1>5, <2>1, LoopOK
<1>6. CASE /\ r < VecBytes /\ i + r >= size
           /\ NoteAccept(currentState, i + r, KeptState, KeptIndex)
           /\ startSMS' = KeptGroup /\ subMatches' = KeptSubs
           /\ pc' = "switch"
           /\ UNCHANGED <<fa, data, rows>>
    <2>1. i + r \in Index
        BY <1>1, <1>3, <1>6
    <2>2. i + r + 1 = IF currentState = INV_STATE THEN i + r ELSE i + r + 1
        BY <1>1
    <2>3. i + r + 1 \in Nat
        BY <1>3
    <2> QED BY <1>1, <1>3, <1>4, <1>6, <2>1, <2>2, <2>3, TurnOK
<1>7. CASE /\ i + r < size /\ Step(i + r, KeptGroup) /\ pc' = "switch"
           /\ UNCHANGED <<fa, data, rows>>
    <2>1. ScanOK'
        BY <1>1, <1>3, <1>4, <1>7, StepOK
    <2> QED BY <1>7, <2>1, SameData
<1> QED BY <1>5, <1>6, <1>7 DEF WindowSet

\* Case C reads one byte by the table.
LEMMA StepCOK ==
    ASSUME ScanOK, RowsOK, StepC
    PROVE  ScanOK' /\ RowsOK'
<1>1. /\ i \in Nat /\ currentState # INV_STATE /\ Limit = i + 1 /\ i <= i
      /\ i < size /\ pc' = "switch" /\ UNCHANGED <<fa, data, rows>>
    BY Before DEF StepC
<1>2. GroupOK(KeptGroup, i + 1)
    BY <1>1, KeptOK DEF RowsOK
<1>3. GroupOK(StartSubMatch(KeptGroup), i + 1)
    BY <1>2, StartSubMatchOK
<1>4. Step(i, StartSubMatch(KeptGroup))
    BY DEF StepC
<1>5. ScanOK'
    BY <1>1, <1>3, <1>4, StepOK
<1> QED BY <1>1, <1>5, SameData

\* The end of the loop changes nothing the invariant speaks of.
LEMMA FinishOK ==
    ASSUME ScanOK, RowsOK, Finish
    PROVE  ScanOK' /\ RowsOK'
<1>1. UNCHANGED <<fa, data, i, ctx, startSMS, subMatches, rows>> /\ pc' = "done"
    BY DEF Finish
<1>2. Limit' = Limit /\ RowsOK'
    BY <1>1, SameData DEF Limit, ctx
<1>3. AcceptOK(recentAcceptState, recentAcceptIndex, Limit)' /\ GroupOK(startSMS, Limit)'
    BY <1>1, <1>2, SameData DEF ScanOK, AcceptOK, GroupOK, ctx
<1>4. SubsOK(subMatches, i)'
    BY <1>1, SameData DEF ScanOK, SubsOK, NoMatch, Within
<1>5. IsAutomaton(fa)' /\ (data \in Seq(Bytes))' /\ (currentState \in fa.states)'
    BY <1>1 DEF ScanOK, IsAutomaton, ctx
<1>6. (i \in Index)' /\ (Resumed <= i)'
    BY <1>1, SameData DEF ScanOK
<1> QED BY <1>1, <1>2, <1>3, <1>4, <1>5, <1>6 DEF ScanOK

\* A group closed.
LEMMA ClosedOK ==
    ASSUME fa.groups \in Nat, NEW g \in [id : 0..fa.groups, index : Index], NEW k
    PROVE  GroupOK([g EXCEPT !.id = 0], k)
BY DEF GroupOK

\* The dead state without a match: the scan starts anew at the same byte.
LEMMA AbandonOK ==
    ASSUME ScanOK, RowsOK, Abandon
    PROVE  ScanOK' /\ RowsOK'
<1>1. /\ i \in Nat /\ i \in Index /\ i <= i /\ 0 \in Index /\ i + 1 \in Nat
      /\ INIT_STATE \in fa.states /\ INV_STATE \in fa.states
      /\ i + 1 = IF INIT_STATE = INV_STATE THEN i ELSE i + 1
    BY Before, Tables
<1>2. /\ NoteAccept(INIT_STATE, i, INV_STATE, 0)
      /\ startSMS' = [startSMS EXCEPT !.id = 0] /\ subMatches' = NoMatches
      /\ UNCHANGED <<fa, data, pc, rows>> /\ pc' = "switch"
    BY DEF Abandon
<1>3. AcceptOK(INV_STATE, 0, i + 1)
    BY <1>1 DEF AcceptOK
<1>4. GroupOK(startSMS', i + 1)
    <2>1. startSMS \in [id : 0..fa.groups, index : Index]
        BY DEF ScanOK, GroupOK
    <2>2. fa.groups \in Nat
        BY Tables DEF ScanOK
    <2> QED BY <1>2, <2>1, <2>2, ClosedOK
<1>5. SubsOK(subMatches', i)
    BY <1>2 DEF SubsOK, NoMatches, NoMatch, Matches, Range0
<1> QED BY <1>1, <1>2, <1>3, <1>4, <1>5, TurnOK

\* The sub-matches of the row, with the open group ended.
EmittedSubs ==
    IF startSMS.id > 0
    THEN [subMatches EXCEPT ![startSMS.id] = [start |-> startSMS.index, end |-> i - 1]]
    ELSE subMatches

\* They end before the byte the scan stands at in the dead state.
LEMMA EmittedSubsOK ==
    ASSUME ScanOK, RowsOK, currentState = INV_STATE
    PROVE  SubsOK(EmittedSubs, i)
<1>1. /\ i \in Nat /\ Resumed \in Nat /\ Index \subseteq Nat /\ Limit = i
      /\ fa.groups \in Nat
    BY Before, Tables DEF Limit
<1>2. SubsOK(subMatches, i) /\ subMatches \in [1..fa.groups -> Range0]
    BY DEF ScanOK, SubsOK, Matches
<1>3. CASE startSMS.id > 0
    <2> DEFINE ended == [start |-> startSMS.index, end |-> i - 1]
    <2>1. startSMS.index \in Index /\ startSMS.id \in 0..fa.groups
        BY DEF ScanOK, GroupOK
    <2>2. Resumed <= startSMS.index /\ startSMS.index < i
        BY <1>1, <1>3 DEF ScanOK, GroupOK
    <2>3. startSMS.index \in Nat /\ startSMS.id \in 1..fa.groups
        <3>1. startSMS.index \in Nat
            BY <1>1, <2>1
        <3>2. startSMS.id \in 1..fa.groups
            BY <1>1, <1>3, <2>1
        <3> QED BY <3>1, <3>2
    <2>4. i - 1 \in Nat /\ startSMS.index <= i - 1
        BY <1>1, <2>2, <2>3
    <2>5. ended \in Range0 /\ Within(ended, Resumed, i)
        BY <1>1, <2>2, <2>3, <2>4 DEF Range0, Within
    <2>6. EmittedSubs = [subMatches EXCEPT ![startSMS.id] = ended]
        BY <1>3 DEF EmittedSubs
    <2> HIDE DEF ended
    <2>7. EmittedSubs \in Matches
        BY <1>2, <2>5, <2>6 DEF Matches
    <2>8. \A h \in 1..fa.groups : EmittedSubs[h] = IF h = startSMS.id THEN ended ELSE subMatches[h]
        BY <1>2, <2>6
    <2> QED BY <1>2, <2>5, <2>7, <2>8 DEF SubsOK
<1>4. CASE ~(startSMS.id > 0)
    BY <1>2, <1>4 DEF EmittedSubs
<1> QED BY <1>3, <1>4

\* The dead state with a match: the new row lies in the data, behind the row
\* before it, and the scan goes back to one byte behind its end.
LEMMA EmitOK ==
    ASSUME ScanOK, RowsOK, Emit
    PROVE  ScanOK' /\ RowsOK'
<1> DEFINE row == [subs |-> EmittedSubs, end |-> recentAcceptIndex]
           k   == recentAcceptIndex + 1
<1>1. /\ i \in Nat /\ size \in Nat /\ VecBytes \in Nat \ {0} /\ Resumed \in Nat
      /\ Index \subseteq Nat /\ 0 \in Index /\ i < size
      /\ \A j \in Nat : j <= size + VecBytes - 1 => j \in Index
      /\ INIT_STATE \in fa.states /\ INV_STATE \in fa.states /\ INIT_STATE # INV_STATE
      /\ fa.groups \in Nat
    BY Before, Tables DEF Emit
<1>2. currentState = INV_STATE /\ Limit = i
    BY Before DEF Emit, Limit
<1>3. Resumed <= recentAcceptIndex /\ recentAcceptIndex < i /\ recentAcceptIndex \in Nat
    BY <1>1, <1>2 DEF Emit, ScanOK, AcceptOK
<1>4. /\ rows' = Append(rows, row)
      /\ NoteAccept(INIT_STATE, k, INV_STATE, 0)
      /\ startSMS' = [startSMS EXCEPT !.id = 0] /\ subMatches' = NoMatches
      /\ UNCHANGED <<fa, data, pc>> /\ pc' = "switch"
    BY DEF Emit, EmittedSubs
<1>5. SubsOK(EmittedSubs, i)
    BY <1>2, EmittedSubsOK
<1> DEFINE S == [subs : Matches, end : Nat]
<1>6. row \in S /\ rows \in Seq(S)
    BY <1>3, <1>5 DEF SubsOK, RowsOK
<1>7. size' = size /\ Index' = Index /\ Matches' = Matches
    BY <1>4 DEF size, Index, Matches, Range0
<1> HIDE DEF row, S
<1>8. /\ rows' \in Seq(S) /\ Len(rows) \in Nat /\ Len(rows') = Len(rows) + 1
      /\ rows'[Len(rows) + 1] = row
      /\ \A j \in 1..Len(rows) : rows'[j] = rows[j]
    BY <1>4, <1>6
<1>9. Resumed' = k
    <2>1. rows' # <<>> /\ rows'[Len(rows')].end = recentAcceptIndex
        BY <1>8 DEF row
    <2> QED BY <2>1 DEF Resumed
<1>10. RowsInBuffer'
    <2>1. row.end < size - 1
        BY <1>1, <1>3 DEF row
    <2>2. ASSUME NEW g \in 1..fa.groups, EmittedSubs[g] # NoMatch
          PROVE  Within(EmittedSubs[g], 0, size)
        <3>1. EmittedSubs[g] \in Range0 /\ Within(EmittedSubs[g], Resumed, i)
            BY <1>5, <2>2 DEF SubsOK, Matches
        <3> DEFINE s == EmittedSubs[g]
        <3>2. s.start \in Int /\ s.end \in Int
            BY <3>1 DEF Range0, Unset
        <3>3. Resumed <= s.start /\ s.start <= s.end /\ s.end < i
            BY <3>1 DEF Within
        <3> HIDE DEF s
        <3>4. Within(s, 0, size)
            BY <1>1, <3>2, <3>3 DEF Within
        <3> QED BY <3>4 DEF s
    <2>3. \A g \in 1..fa.groups : row.subs[g] # NoMatch => Within(row.subs[g], 0, size)
        BY <2>2 DEF row
    <2>4. ASSUME NEW j \in 1..Len(rows')
          PROVE  /\ rows'[j].end < size - 1
                 /\ \A g \in 1..fa.groups : rows'[j].subs[g] # NoMatch => Within(rows'[j].subs[g], 0, size)
        <3>1. CASE j = Len(rows) + 1
            BY <1>8, <2>1, <2>3, <3>1
        <3>2. CASE j \in 1..Len(rows)
            BY <1>8, <3>2 DEF RowsOK, RowsInBuffer
        <3> QED BY <1>8, <3>1, <3>2
    <2> QED BY <1>4, <1>7, <2>4 DEF RowsInBuffer, NoMatch, Within
<1>11. RowsInOrder'
    <2>1. ASSUME rows # <<>>
          PROVE  /\ rows[Len(rows)].end < row.end
                 /\ \A g \in 1..fa.groups : row.subs[g] # NoMatch => rows[Len(rows)].end < row.subs[g].start
        <3>1. Resumed = rows[Len(rows)].end + 1
            BY <2>1 DEF Resumed
        <3>2. Len(rows) \in 1..Len(rows) /\ \A j \in 1..Len(rows) : rows[j] \in S
            BY <1>6, <1>8, <2>1, ElementOfSeq
        <3>3. rows[Len(rows)].end \in Nat
            BY <3>2 DEF S
        <3>4. rows[Len(rows)].end < row.end
            BY <1>3, <3>1, <3>3 DEF row
        <3>5. ASSUME NEW g \in 1..fa.groups, EmittedSubs[g] # NoMatch
              PROVE  rows[Len(rows)].end < EmittedSubs[g].start
            <4>1. Resumed <= EmittedSubs[g].start /\ EmittedSubs[g].start \in Int
                BY <1>5, <3>5 DEF SubsOK, Matches, Range0, Unset, Within
            <4> QED BY <3>1, <3>3, <4>1
        <3> QED BY <3>4, <3>5 DEF row
    <2>2. ASSUME NEW j \in 2..Len(rows')
          PROVE  /\ rows'[j - 1].end < rows'[j].end
                 /\ \A g \in 1..fa.groups :
                        rows'[j].subs[g] # NoMatch => rows'[j - 1].end < rows'[j].subs[g].start
        <3>1. CASE j = Len(rows) + 1
            <4>1. rows # <<>> /\ j - 1 = Len(rows) /\ Len(rows) \in 1..Len(rows)
                BY <1>8, <3>1
            <4> QED BY <1>8, <2>1, <3>1, <4>1
        <3>2. CASE j \in 2..Len(rows)
            <4>1. j - 1 \in 1..Len(rows) /\ j \in 1..Len(rows)
                BY <1>8, <3>2
            <4> QED BY <1>8, <3>2, <4>1 DEF RowsOK, RowsInOrder
        <3> QED BY <1>8, <3>1, <3>2
    <2> QED BY <1>4, <2>2 DEF RowsInOrder, NoMatch
<1>12. ScanOK'
    <2>1. k \in Nat /\ k \in Index /\ k + 1 \in Nat
        BY <1>1, <1>3
    <2> HIDE DEF k
    <2>2. i' = k /\ currentState' = INIT_STATE /\ Limit' = k + 1
        BY <1>1, <1>4 DEF NoteAccept, Limit
    <2>3. AcceptOK(recentAcceptState, recentAcceptIndex, Limit)'
        BY <1>1, <1>4, <1>7, <1>9, <2>1, <2>2 DEF AcceptOK, NoteAccept
    <2>4. GroupOK(startSMS, Limit)'
        <3>1. startSMS \in [id : 0..fa.groups, index : Index]
            BY DEF ScanOK, GroupOK
        <3>2. startSMS' \in [id : 0..fa.groups, index : Index] /\ startSMS'.id = 0
            BY <1>1, <1>4, <3>1
        <3> QED BY <1>4, <1>7, <3>2 DEF GroupOK
    <2>5. SubsOK(subMatches, i)'
        BY <1>4, <1>7 DEF SubsOK, NoMatches, NoMatch, Matches, Range0
    <2>6. IsAutomaton(fa)' /\ (data \in Seq(Bytes))'
        BY <1>4 DEF ScanOK, IsAutomaton
    <2> QED BY <1>1, <1>4, <1>7, <1>9, <2>1, <2>2, <2>3, <2>4, <2>5, <2>6 DEF ScanOK
<1> QED BY <1>7, <1>8, <1>10, <1>11, <1>12 DEF RowsOK, S

-----------------------------------------------------------------------------
(* The theorems. *)

\* A scan starts in the inductive invariant.
LEMMA InitOK == Init => IInv
<1> SUFFICES ASSUME Init PROVE ScanOK /\ RowsOK
    BY Parts
<1>1. IsAutomaton(fa) /\ data \in Seq(Bytes)
    BY ExecutorAssumption DEF Init
<1>2. /\ INV_STATE \in fa.states /\ INIT_STATE \in fa.states /\ INV_STATE # INIT_STATE
      /\ fa.groups \in Nat /\ 0 \in Index
    BY <1>1, Tables, Sizes DEF Index
<1>3. rows = <<>> /\ Resumed = 0 /\ i = 0
    BY DEF Init, Resumed
<1>4. AcceptOK(recentAcceptState, recentAcceptIndex, Limit)
    BY <1>2 DEF Init, AcceptOK
<1>5. GroupOK(startSMS, Limit)
    BY <1>2 DEF Init, GroupOK, NoGroup
<1>6. SubsOK(subMatches, i)
    BY DEF Init, SubsOK, NoMatches, NoMatch, Matches, Range0
<1>7. RowsOK
    BY <1>3 DEF RowsOK, RowsInBuffer, RowsInOrder
<1>8. pc = "switch" /\ currentState = INIT_STATE
    BY DEF Init
<1> QED BY <1>1, <1>2, <1>3, <1>4, <1>5, <1>6, <1>7, <1>8 DEF ScanOK

\* A stuttering step keeps the two parts of the invariant.
LEMMA StutterOK ==
    ASSUME ScanOK, RowsOK, UNCHANGED vars
    PROVE  ScanOK' /\ RowsOK'
<1>1. UNCHANGED <<fa, data, pc, i, ctx, startSMS, subMatches, rows>>
    BY DEF vars
<1>2. Limit' = Limit /\ Kind' = Kind /\ RowsOK'
    BY <1>1, SameData DEF Limit, Kind, ctx
<1>3. AcceptOK(recentAcceptState, recentAcceptIndex, Limit)' /\ GroupOK(startSMS, Limit)'
    BY <1>1, <1>2, SameData DEF ScanOK, AcceptOK, GroupOK, ctx
<1>4. SubsOK(subMatches, i)'
    BY <1>1, SameData DEF ScanOK, SubsOK, NoMatch, Within
<1>5. IsAutomaton(fa)' /\ (data \in Seq(Bytes))' /\ (currentState \in fa.states)'
    BY <1>1 DEF ScanOK, IsAutomaton, ctx
<1>6. (i \in Index)' /\ (Resumed <= i)'
    BY <1>1, SameData DEF ScanOK
<1> QED BY <1>1, <1>2, <1>3, <1>4, <1>5, <1>6 DEF ScanOK

\* Every step keeps the inductive invariant.
LEMMA NextOK == IInv /\ [Next]_vars => IInv'
<1> SUFFICES ASSUME IInv, [Next]_vars PROVE ScanOK' /\ RowsOK'
    BY Primed
<1>1. ScanOK /\ RowsOK
    BY Parts
<1>2. CASE Enter                                BY <1>1, <1>2, EnterOK
<1>3. CASE WindowEnd                            BY <1>1, <1>3, WindowEndOK
<1>4. CASE \E r \in 0..VecBytes : WindowOrd(r)  BY <1>1, <1>4, WindowOrdOK
<1>5. CASE \E r \in 0..VecBytes : WindowSet(r)  BY <1>1, <1>5, WindowSetOK
<1>6. CASE StepC                                BY <1>1, <1>6, StepCOK
<1>7. CASE Emit                                 BY <1>1, <1>7, EmitOK
<1>8. CASE Abandon                              BY <1>1, <1>8, AbandonOK
<1>9. CASE Finish                               BY <1>1, <1>9, FinishOK
<1>10. CASE UNCHANGED vars                      BY <1>1, <1>10, StutterOK
<1> QED BY <1>2, <1>3, <1>4, <1>5, <1>6, <1>7, <1>8, <1>9, <1>10 DEF Next

\* The inductive invariant holds: whatever the context of the scan remembers
\* lies between the place it was resumed at and the byte it stands at.
THEOREM Invariance == Spec => []IInv
<1> QED BY InitOK, NextOK, PTL DEF Spec

\* Every variable keeps its type, and the scan's index stays within the data
\* and the padding behind it: Executor::exec never loads beyond the buffer.
THEOREM TypeCorrect == Spec => []TypeOK
<1>1. IInv => TypeOK
    BY DEF IInv
<1> QED BY <1>1, Invariance, PTL

\* queryExec is only handed ranges inside the data.
THEOREM RowsCorrect == Spec => []RowsInBuffer
<1>1. IInv => RowsInBuffer
    BY DEF IInv
<1> QED BY <1>1, Invariance, PTL

\* Rows come in the order of the data: each ends behind the one before it, and
\* its groups start behind the end of the one before it.
THEOREM RowsOrdered == Spec => []RowsInOrder
<1>1. IInv => RowsInOrder
    BY DEF IInv
<1> QED BY <1>1, Invariance, PTL

\* What the context remembers of the scan belongs to the current attempt: an
\* accepting position and the groups lie behind the end of the last row and no
\* later than the byte the scan stands at, so no row is cut from what an
\* abandoned match has left there.
THEOREM ContextCorrect == Spec => []ContextInv
<1>1. IInv => ContextInv
    BY DEF IInv
<1> QED BY <1>1, Invariance, PTL
=============================================================================
