------------------------------ MODULE IoStream ------------------------------
(***************************************************************************)
(* ioStream (ios.cpp): reads a file piece by piece into a buffer of its    *)
(* own.  It counts the bytes it has read in pos; the place the next read   *)
(* starts at is kept by the file descriptor.  Every caller ignores the     *)
(* number of bytes that readFile returns and takes the buffer it finds.    *)
(***************************************************************************)
EXTENDS Integers, Sequences

VARIABLES
    file,       \* the bytes of the file: set once
    pos,        \* bytes read so far, as readFile counts
    offset,     \* the file offset of the descriptor
    buf         \* what data points to: [state, bytes]

ioVars == <<pos, offset, buf>>

fileSize == Len(file)

NoBuffer == [state |-> "null", bytes |-> <<>>]

\* open: nothing is read yet.
Init == pos = 0 /\ offset = 0 /\ buf = NoBuffer

\* Mutant: the descriptor is moved, the count is not.
SeekDescriptor(start) == offset' = start /\ UNCHANGED <<file, pos, buf>>

\* seek
Seek(start) == offset' = start /\ pos' = start /\ UNCHANGED <<file, buf>>

\* Mutant: a piece that is not there as a whole is not read.
NothingToReadShort(rsize) == rsize = 0 \/ pos + rsize >= fileSize

\* There is nothing to read; the subtraction wraps for an empty file.
NothingToRead(rsize) == rsize = 0 \/ (fileSize > 0 /\ pos >= fileSize - 1)

\* Mutant: the piece at the end is not shortened.
ReadSizeWhole(rsize) == rsize

\* The piece that reaches the end of the file lacks its last byte.
ReadSize(rsize) == IF pos + rsize >= fileSize THEN fileSize - pos - 1 ELSE rsize

\* delete data; data may be NULL, and must not be deleted twice.
Deleted(state) == CASE state = "null"  -> "null"
                    [] state = "live"  -> "freed"
                    [] state = "freed" -> "freed twice"

\* readFile returns early: the old buffer is gone, data still points to it.
ReadNothing(rsize) ==
    /\ NothingToRead(rsize)
    /\ buf' = [buf EXCEPT !.state = Deleted(@)]
    /\ UNCHANGED <<file, pos, offset>>

\* readFile reads from where the descriptor stands.
ReadPiece(rsize) ==
    /\ ~NothingToRead(rsize)
    /\ LET end == offset + ReadSize(rsize)
       IN  /\ buf' = [state |-> IF buf.state = "freed" THEN "freed twice" ELSE "live",
                      bytes |-> SubSeq(file, offset + 1, IF end < fileSize THEN end ELSE fileSize)]
           /\ offset' = IF end < fileSize THEN end ELSE fileSize
    /\ pos' = pos + ReadSize(rsize)
    /\ UNCHANGED file

ReadFile(rsize) == ReadNothing(rsize) \/ ReadPiece(rsize)
=============================================================================
