-------------------------------- MODULE Pfa --------------------------------
(***************************************************************************)
(* PFA of src/pfa.cpp: on a sample of the file, how rare is each of the    *)
(* first positions of a needle?  A search for a needle then looks for the  *)
(* part from the rarest position on.  (PFA::scan, whose counts are used    *)
(* only when PFA_ANY is defined, is left out: no build defines it.)        *)
(***************************************************************************)
EXTENDS Integers, Sequences, FiniteSets

CONSTANT Positions  \* 4: positions of a needle the search may begin at

NUL == 0

\* std::string and the zeroed tail of the buffer: one past the end reads NUL.
At(s, k) == IF k < Len(s) THEN s[k + 1] ELSE NUL

\* The sample ends at its first NUL.
SampleEnd(sample) ==
    IF \E k \in 1..Len(sample) : sample[k] = NUL
    THEN (CHOOSE k \in 1..Len(sample) : sample[k] = NUL /\ \A j \in 1..(k - 1) : sample[j] # NUL) - 1
    ELSE Len(sample)

\* scanSubString: a byte counts for the first of the positions it fits,
\* once alone and once more if the next byte fits too.
Fits(p, b) == {j \in 0..(Positions - 1) : b = At(p, j) /\ \A h \in 0..(j - 1) : b # At(p, h)}

CountOrd(p, sample, j) ==
    LET hits == {k \in 0..(SampleEnd(sample) - 1) : j \in Fits(p, At(sample, k))}
    IN  Cardinality(hits) + Cardinality({k \in hits : At(sample, k + 1) = At(p, j + 1)})

\* calcSubString: a position is taken when its count is below every count
\* looked at before, those of the earlier needles included (the running
\* minimum is not reset between needles).  needles[s] is the needle of state s.
Improves(needles, sample, s, j) ==
    \A t \in DOMAIN needles : \A h \in 0..(Positions - 1) :
        t < s \/ (t = s /\ h < j) =>
            CountOrd(needles[s], sample, j) < CountOrd(needles[t], sample, h)

CalcSubString(needles, sample) ==
    [s \in DOMAIN needles |->
        LET better == {j \in 0..(Positions - 1) : Improves(needles, sample, s, j)}
        IN  IF better = {} THEN 0
            ELSE CHOOSE j \in better : \A h \in better : h <= j]
=============================================================================
