----------------------------- MODULE SparkScan -----------------------------
(***************************************************************************)
(* RuntimeBase::iexecWithSpark (runtime.cpp): a file is read (IoStream)    *)
(* and scanned (Executor) partition by partition, and each match becomes a *)
(* row of a data frame (SparkRows).  The context of the scan, the open     *)
(* group and the sub-matches are carried from one partition to the next,   *)
(* with indices into the old one; postExec and preExec are meant to finish *)
(* a match that is cut.                                                    *)
(*                                                                         *)
(* Beside it runs RuntimeBase::execWithSpark on the whole file, which is   *)
(* what the partitions are meant to give: the same rows.  It goes first.   *)
(***************************************************************************)
EXTENDS RegexNfa

CONSTANTS
    VecBytes,       \* 16: bytes in a vector register
    PartitionSize,  \* PARTITION_SIZE: 1 GB
    StringSize, NumberSize,
    Garbage,        \* what a fresh subMatches may hold as the start of a group
    Inputs          \* the scans: records [fa, types, file, sample] of an automaton, the
                    \* pattern types of its groups, a file and the length of its sample

VARIABLES
    file, pos, offset, buf,                     \* ioStream
    keyTypes, fa, data, pc, i, currentState, recentAcceptState, recentAcceptIndex,
    startSMS, subMatches, rows,                 \* Executor; rows: as the scan found them
    phase,                                      \* where the runtime is
    sample,                                     \* lsize: the sample for constructVFA
    part,                                       \* i of iexecWithSpark, from 0
    prevStart,                                  \* NoPrev if prevData is NULL
    junk,                                       \* what lies behind the buffer
    frame, count,                               \* the data frame, sctx->count
    whole,                                      \* history: no boundary cut a match so far
    pc0, i0, currentState0, recentAcceptState0, recentAcceptIndex0,
    startSMS0, subMatches0, rows0               \* the scan of the whole file

Io == INSTANCE IoStream
R  == INSTANCE SparkRows WITH Types <- {"INT", "DOUBLE", "TEXT"}

\* The buffer of the next rsize bytes as the scan sees it: the bytes read, the
\* padding, and what happens to lie behind.  A deleted buffer holds anything.
Seen(rsize) ==
    LET read == IF buf.state = "live" THEN buf.bytes ELSE <<>>
        pad  == IF buf.state = "live" THEN VecBytes ELSE 0
    IN  [t \in 1..rsize |-> CASE t <= Len(read)       -> read[t]
                              [] t > Len(read) + pad  -> junk
                              [] OTHER                -> 0]

\* readFile(0, size): the last byte is not read.
WholeFile == IF file = <<>> THEN <<>> ELSE Append(Front(file), 0)

E == INSTANCE Executor WITH Bytes <- Chars, Inputs <- {}
P == INSTANCE Executor WITH Bytes <- Chars, Inputs <- {}, data <- WholeFile,
        pc <- pc0, i <- i0, currentState <- currentState0,
        recentAcceptState <- recentAcceptState0, recentAcceptIndex <- recentAcceptIndex0,
        startSMS <- startSMS0, subMatches <- subMatches0, rows <- rows0

ASSUME SparkAssumption ==
    /\ VecBytes \in Nat \ {0} /\ E!NUL \in Chars
    /\ PartitionSize \in Nat \ {0} /\ StringSize \in Nat \ {0} /\ NumberSize \in Nat \ {0}
    /\ Garbage \subseteq Nat
    /\ \A in \in Inputs :
        /\ E!IsAutomaton(in.fa)
        /\ in.types \in Seq(PatternTypes) /\ Len(in.types) = in.fa.groups
        /\ in.file \in Seq(Chars) /\ in.sample \in Nat

fixed == <<file, keyTypes, fa, sample>>
io    == <<pos, offset, buf>>
scan  == <<data, pc, i, currentState, recentAcceptState, recentAcceptIndex, startSMS, subMatches, rows>>
df    == <<frame, count>>
run   == <<phase, part, prevStart, junk, whole>>
pvars == <<pc0, i0, currentState0, recentAcceptState0, recentAcceptIndex0,
           startSMS0, subMatches0, rows0>>
vars  == <<fixed, io, scan, df, run, pvars>>

NoPrev == -1

KeyType(pt) == CASE pt = IntPT    -> "INT"
                 [] pt = DoublePT -> "DOUBLE"
                 [] pt = TextPT   -> "TEXT"

\* makePartitions: where each partition begins, and where the last one ends.
Partitions(size) ==
    LET n == (size + PartitionSize - 1) \div PartitionSize
    IN  [k \in 0..n |-> IF k < n THEN PartitionSize * k ELSE size]

NumPartitions == (Len(file) + PartitionSize - 1) \div PartitionSize

PartSize == Partitions(Len(file))[part + 1] - Partitions(Len(file))[part]

\* The files are not empty (isInterleaved), and the sample is a small part.
Init ==
    /\ \E in \in Inputs :
        /\ in.sample < Len(in.file)
        /\ fa = in.fa /\ file = in.file /\ sample = in.sample
        /\ keyTypes = [g \in 1..Len(in.types) |-> KeyType(in.types[g])]
    /\ Io!Init
    /\ data = <<>> /\ pc = "switch" /\ i = 0
    /\ currentState = E!INIT_STATE /\ recentAcceptState = E!INV_STATE /\ recentAcceptIndex = 0
    /\ startSMS = E!NoGroup /\ rows = <<>>
    /\ \E g \in Garbage : subMatches = [k \in 1..fa.groups |-> [start |-> g, end |-> g]]
    /\ phase = "sample" /\ part = 0 /\ prevStart = NoPrev /\ junk = 0 /\ whole = TRUE
    /\ frame = <<>> /\ count = 0
    /\ pc0 = "switch" /\ i0 = 0 /\ currentState0 = E!INIT_STATE
    /\ recentAcceptState0 = E!INV_STATE /\ recentAcceptIndex0 = 0
    /\ startSMS0 = P!NoGroup /\ subMatches0 = P!NoMatches /\ rows0 = <<>>

WholeScan == UNCHANGED <<fixed, io, scan, df, run>> /\ P!Next

-----------------------------------------------------------------------------
\* constructVFA: read the sample, then seek(0).
ReadSample ==
    /\ phase = "sample" /\ pc0 = "done" /\ Io!ReadFile(sample)
    /\ phase' = "seek"
    /\ UNCHANGED <<fixed, scan, df, part, prevStart, junk, whole, pvars>>

SeekStart ==
    /\ phase = "seek" /\ Io!Seek(0)
    /\ phase' = "read"
    /\ UNCHANGED <<fixed, scan, df, part, prevStart, junk, whole, pvars>>

\* The loop of iexecWithSpark: read the partition.  Without any buffer the
\* scan runs into a null pointer.
ReadPartition ==
    /\ phase = "read" /\ part < NumPartitions
    /\ Io!ReadFile(PartSize)
    /\ junk' \in IF buf'.state = "live" /\ Len(data) <= Len(buf'.bytes) + VecBytes
                 THEN {0} ELSE Chars
    /\ phase' = IF buf'.state = "null" THEN "fault"
                ELSE IF prevStart = NoPrev THEN "load" ELSE "preload"
    /\ UNCHANGED <<fixed, scan, df, part, prevStart, whole, pvars>>

\* The loop ends.
Finish ==
    /\ phase = "read" /\ part = NumPartitions
    /\ phase' = "done"
    /\ UNCHANGED <<fixed, io, scan, df, part, prevStart, junk, whole, pvars>>

\* preExec takes the new buffer, but the size of the one before.
PreLoad ==
    /\ phase = "preload"
    /\ data' = Seen(Len(data)) /\ i' = 0 /\ pc' = "switch"
    /\ phase' = "pre"
    /\ UNCHANGED <<fixed, io, currentState, recentAcceptState, recentAcceptIndex, startSMS,
                   subMatches, rows, df, part, prevStart, junk, whole, pvars>>

\* preExec: the loop goes on with the match that was cut.
PreScan ==
    /\ phase = "pre"
    /\ \/ E!Enter \/ E!WindowEnd \/ E!StepC
       \/ \E r \in 0..VecBytes : E!WindowOrd(r) \/ E!WindowSet(r)
    /\ UNCHANGED <<fixed, io, df, run, pvars>>

\* execWithSpark begins at start, with the size of the partition.
ExecFrom(start) ==
    /\ data' = Seen(PartSize) /\ i' = start /\ pc' = "switch"
    /\ phase' = "exec"
    /\ UNCHANGED <<fixed, io, rows, df, part, prevStart, junk, whole, pvars>>

\* Mutant: every partition starts afresh.
ExecLoadReset ==
    /\ phase = "load"
    /\ ExecFrom(0)
    /\ currentState' = E!INIT_STATE /\ recentAcceptState' = E!INV_STATE /\ recentAcceptIndex' = 0
    /\ startSMS' = E!NoGroup /\ subMatches' = E!NoMatches

\* prevData is NULL: preExec returns at once.  The context is kept.
ExecLoad ==
    /\ phase = "load"
    /\ ExecFrom(0)
    /\ UNCHANGED <<currentState, recentAcceptState, recentAcceptIndex, startSMS, subMatches>>

PreDead == phase = "pre" /\ pc = "switch" /\ i < E!size /\ E!Kind = "INV"

\* preExec, a match: it is left to execWithSpark, which finds the context as
\* it is, the automaton dead.
PreMatch ==
    /\ PreDead /\ recentAcceptState # E!INV_STATE
    /\ ExecFrom(IF recentAcceptIndex > prevStart THEN 0 ELSE recentAcceptIndex + 1)
    /\ subMatches' = IF startSMS.id > 0
                     THEN [subMatches EXCEPT ![startSMS.id] = [start |-> startSMS.index, end |-> i - 1]]
                     ELSE subMatches
    /\ startSMS' = [startSMS EXCEPT !.id = 0]
    /\ UNCHANGED <<currentState, recentAcceptState, recentAcceptIndex>>

\* Mutant: the loop is not left.
PreAbandonStuck ==
    /\ PreDead /\ recentAcceptState = E!INV_STATE
    /\ UNCHANGED vars

\* preExec, no match: the partition is scanned from its start.
PreAbandon ==
    /\ PreDead /\ recentAcceptState = E!INV_STATE
    /\ ExecFrom(0)
    /\ currentState' = E!INIT_STATE /\ recentAcceptState' = E!INV_STATE /\ recentAcceptIndex' = 0
    /\ startSMS' = [startSMS EXCEPT !.id = 0] /\ subMatches' = E!NoMatches

\* preExec reached the end.
PreEnd ==
    /\ phase = "pre" /\ pc = "switch" /\ i >= E!size
    /\ ExecFrom(E!size)
    /\ UNCHANGED <<currentState, recentAcceptState, recentAcceptIndex, startSMS, subMatches>>

\* execWithSpark: the loop of the scan.  A row that is emitted is stored.
ExecScan ==
    /\ phase = "exec" /\ pc # "done" /\ E!Next
    /\ IF Len(rows') = Len(rows)
       THEN UNCHANGED <<frame, phase>>
       ELSE LET subs == rows'[Len(rows')].subs
            IN  IF R!StoreFaults(keyTypes, subs)
                THEN phase' = "fault" /\ UNCHANGED frame
                ELSE /\ frame' = Append(frame, R!StoreToDataFrame(keyTypes, subs, data))
                     /\ UNCHANGED phase
    /\ UNCHANGED <<fixed, io, count, part, prevStart, junk, whole, pvars>>

\* The end of a partition in the middle of a needle.
NeedleCut ==
    /\ E!Kind = "ORDERED"
    /\ \E n \in 1..(Len(E!Needle) - 1) :
        n <= E!size /\ SubSeq(data, E!size - n + 1, E!size) = SubSeq(E!Needle, 1, n)

\* Nothing of a match is left over but the state of the automaton.
Clean ==
    /\ recentAcceptState = E!INV_STATE /\ startSMS.id = 0
    /\ subMatches = E!NoMatches /\ ~NeedleCut

Starts == {subMatches[g].start : g \in 1..fa.groups} \ {E!Unset}

\* Mutant: the number of rows of this partition only.
RowsStoredHere == Len(frame) - count

\* execWithSpark returns rowCount, which is never reset.
RowsStored == Len(frame)

\* postExec: keep the data from the first group on.  A group that starts
\* behind the partition makes prevSize wrap, and there is no such memory.
PostExec ==
    /\ phase = "exec" /\ pc = "done"
    /\ count' = RowsStored
    /\ prevStart' = IF Starts = {} THEN NoPrev ELSE CHOOSE s \in Starts : \A t \in Starts : s <= t
    /\ phase' = IF prevStart' > E!size THEN "fault" ELSE "read"
    /\ part' = part + 1
    /\ whole' = (whole /\ (Clean \/ part + 1 = NumPartitions))
    /\ UNCHANGED <<fixed, io, scan, frame, junk, pvars>>

Iexec ==
    \/ ReadSample \/ SeekStart \/ ReadPartition
    \/ PreLoad \/ PreScan \/ ExecLoad \/ PreMatch \/ PreAbandon \/ PreEnd
    \/ ExecScan \/ PostExec \/ Finish

Next == WholeScan \/ Iexec

\* One thread that is never blocked.
Spec == Init /\ [][Next]_vars /\ WF_vars(Next)

-----------------------------------------------------------------------------
(* Properties. *)

\* The last partition is a single byte, which is the one that is never read.
LastByteAlone == (Len(file) - 1) % PartitionSize = 0

\* The buffers are the pieces of the file, one after the other; only the last
\* byte of the file is missing, and no buffer is deleted twice, although the
\* sample was read before and the count and the descriptor are kept apart.
BuffersExact ==
    /\ buf.state # "freed twice"
    /\ phase \in {"load", "preload"} /\ ~LastByteAlone =>
        Seen(PartSize) = SubSeq(WholeFile, PartitionSize * part + 1, PartitionSize * part + PartSize)

\* What Spark is to see in column c of a row of the whole scan.
Expected(row, c) ==
    LET sub  == row.subs[c]
        text == SubSeq(WholeFile, sub.start + 1, sub.end)
    IN  IF keyTypes[c] # "TEXT" THEN R!Number(keyTypes[c], text)
        ELSE SubSeq(text, 1, IF Len(text) < StringSize THEN Len(text) ELSE StringSize)

AllTook(row) == \A g \in 1..fa.groups : R!Took(row.subs[g])

\* constructQstars goes on where no character leads on: it appends NUL, and the
\* dead state.  Such a needle is found in the padding of a buffer.
NeedlesPlain ==
    \A q \in fa.states : fa.kind[q] = "ORDERED" =>
        \A j \in 1..Len(fa.str[q]) : fa.str[q][j] # E!NUL

\* Where no match and no needle lies across a boundary, and no needle ends in
\* NUL, Spark sees every match of the file once, in order, and in each column the
\* text or the number of its group, if all groups took part: the state of the
\* automaton is carried over.
FrameExact ==
    phase = "done" /\ whole /\ ~LastByteAlone /\ NeedlesPlain =>
        /\ count = Len(rows0) /\ Len(frame) = count
        /\ \A k \in 1..count : AllTook(rows0[k]) =>
                \A c \in 1..fa.groups : R!ReadColumn(keyTypes, frame[k], c) = Expected(rows0[k], c)

\* A row stays inside its record.
RowsFit ==
    \A k \in 1..Len(frame) :
        \A o \in DOMAIN frame[k].texts :
            /\ o >= 8 + 8 * Len(keyTypes)
            /\ o + Len(frame[k].texts[o]) <= R!SizeInRow(keyTypes)

\* A number longer than the buffer it is copied to.
LongNumber ==
    \E k \in 1..Len(rows0) : \E g \in 1..fa.groups :
        keyTypes[g] # "TEXT" /\ R!Took(rows0[k].subs[g])
            /\ rows0[k].subs[g].end - rows0[k].subs[g].start >= NumberSize

\* The scan does not crash where no match was cut, no number is too long, the
\* last byte is not alone, no needle ends in NUL and the memory of the groups
\* was clean.
Faultless ==
    phase = "fault" =>
        \/ ~whole \/ LastByteAlone \/ ~NeedlesPlain \/ LongNumber
        \/ \E g \in 1..fa.groups : subMatches[g].start > Len(file)

NeedlesFit == \A q \in fa.states : Len(fa.str[q]) <= VecBytes

\* However partitions and stale indices make the scan go back, it ends.
IexecEnds == NeedlesFit => <>(phase \in {"done", "fault"})
=============================================================================
