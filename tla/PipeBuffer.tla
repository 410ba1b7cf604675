------------------------------- MODULE PipeBuffer -------------------------------
(***************************************************************************)
(* PipeBuffer, the streambuf of a request on Windows: underflow refills the*)
(* get area with one ReadFile.  A reader takes bytes as istream::read does *)
(* (uflow), or looks at one and then steps over it as the iterators of     *)
(* readUntilEof do (underflow, then uflow).  The pipe hands over one write *)
(* of the server at a time; a write may be empty.                          *)
(***************************************************************************)
EXTENDS Naturals, Sequences

CONSTANTS
  Size,      \* of m_buffer: 1024 * 1024 in the code
  MaxWrite,  \* bound: the longest write, longer than Size
  MaxSent,   \* bound: bytes the server sends
  MaxEmpty,  \* bound: empty writes among them
  Junk       \* what m_buffer holds before the first ReadFile

ASSUME BufferConstants ==
  /\ Size \in Nat \ {0}
  /\ MaxWrite \in Nat /\ MaxSent \in Nat /\ MaxEmpty \in Nat
  /\ Junk \notin Nat

VARIABLES
  sent,     \* bytes the server has sent; byte i of its answer is number i
  writes,   \* the writes not yet read, each a sequence of bytes
  closed,   \* the server has closed its end
  buffer,   \* m_buffer
  next,     \* gptr, as a number of bytes from the start of m_buffer
  end,      \* egptr
  peeked,   \* an iterator has looked at a byte it has not stepped over
  got,      \* the bytes the reader was given
  atEof,    \* underflow has returned eof
  iterates, \* whether the reader is readUntilEof
  empties   \* history: empty writes read

sentVars == <<sent, writes, closed>>
bufferVars == <<buffer, next, end, empties>>
pipeBufferVars == <<sentVars, bufferVars, peeked, got, atEof, iterates>>

BufferInit ==
  /\ sent = 0 /\ writes = << >> /\ closed = FALSE
  /\ buffer = [i \in 1..Size |-> Junk] /\ next = 0 /\ end = 0 /\ empties = 0
  /\ peeked = FALSE /\ got = << >> /\ atEof = FALSE
  /\ iterates \in BOOLEAN

\* The server writes n bytes, possibly none, or closes the pipe.
Write(n) ==
  /\ ~closed /\ sent + n <= MaxSent
  /\ n = 0 => Len(SelectSeq(writes, LAMBDA w : w = << >>)) + empties < MaxEmpty
  /\ writes' = Append(writes, [i \in 1..n |-> sent + i])
  /\ sent' = sent + n
  /\ UNCHANGED <<closed, bufferVars, peeked, got, atEof, iterates>>
Disconnect ==
  /\ ~closed /\ closed' = TRUE
  /\ UNCHANGED <<sent, writes, bufferVars, peeked, got, atEof, iterates>>

\* ReadFile fails when the pipe is closed and empty; with ERROR_MORE_DATA it
\* leaves the rest of a long write in the pipe.
SkipsOne(write) == SubSeq(write, Size + 2, Len(write))   \* mutant: off by one
Rest(write) == SubSeq(write, Size + 1, Len(write))
NeverFails == FALSE   \* mutants: its result is not looked at; nothing is the end
NothingIsEof == IF writes = << >> THEN closed ELSE Head(writes) = << >>
ReadFileFails == writes = << >> /\ closed
BytesRead(write) == IF Len(write) < Size THEN Len(write) ELSE Size
ReadFile ==
  /\ writes # << >>
  /\ LET write == Head(writes)
         n == BytesRead(write)
     IN /\ buffer' = [i \in 1..Size |-> IF i <= n THEN write[i] ELSE buffer[i]]
        /\ end' = n
        /\ writes' = IF n < Len(write) THEN <<Rest(write)>> \o Tail(writes) ELSE Tail(writes)
        /\ empties' = IF n = 0 THEN empties + 1 ELSE empties
  /\ UNCHANGED <<sent, closed>>

Eof == ReadFileFails /\ atEof' = TRUE /\ UNCHANGED <<sentVars, bufferVars>>

\* uflow: the byte at gptr, or the first of m_buffer after underflow, which
\* returns it also when ReadFile read nothing; gptr then moves on regardless.
Uflow ==
  \/ /\ next < end
     /\ got' = Append(got, buffer[next + 1])
     /\ next' = next + 1
     /\ UNCHANGED <<sentVars, buffer, end, empties, atEof>>
  \/ /\ next >= end /\ ReadFile
     /\ got' = Append(got, buffer'[1])
     /\ next' = 1
     /\ UNCHANGED atEof
  \/ next >= end /\ Eof /\ UNCHANGED got

Read == ~iterates /\ ~atEof /\ Uflow /\ UNCHANGED <<peeked, iterates>>

\* The iterator looks at the byte at gptr; underflow leaves it there.
Peek ==
  /\ iterates /\ ~atEof /\ ~peeked
  /\ \/ /\ next < end
        /\ got' = Append(got, buffer[next + 1]) /\ peeked' = TRUE
        /\ UNCHANGED <<sentVars, bufferVars, atEof>>
     \/ /\ next >= end /\ ReadFile
        /\ next' = 0
        /\ got' = Append(got, buffer'[1]) /\ peeked' = TRUE
        /\ UNCHANGED atEof
     \/ next >= end /\ Eof /\ UNCHANGED <<got, peeked>>
  /\ UNCHANGED iterates

\* It steps over a byte: the one it saw, or after an empty read another.
Step ==
  /\ iterates /\ peeked
  /\ \/ /\ next < end
        /\ next' = next + 1 /\ peeked' = FALSE
        /\ UNCHANGED <<sentVars, buffer, end, empties, atEof>>
     \/ /\ next >= end /\ ReadFile
        /\ next' = 1 /\ peeked' = FALSE
        /\ UNCHANGED atEof
     \/ next >= end /\ Eof /\ peeked' = FALSE
  /\ UNCHANGED <<got, iterates>>

BufferNext ==
  \/ \E n \in 0..MaxWrite : Write(n)
  \/ Disconnect \/ Read \/ Peek \/ Step

\* The reader reads on whenever there is something to read, or the end.
BufferSpec ==
  BufferInit /\ [][BufferNext]_pipeBufferVars /\ WF_pipeBufferVars(Read \/ Peek \/ Step)

-----------------------------------------------------------------------------
\* As long as the server makes no empty write, the reader is given the bytes
\* of the answer in their order, each once, however the server splits them
\* and whether or not a write is longer than m_buffer.
DeliversAnswer ==
  empties = 0 => \A i \in 1..Len(got) : got[i] = i

\* At the end of the stream istream::read was given every byte of the answer,
\* and in addition one byte for each empty write; readUntilEof, which steps
\* over a byte it has not seen when it meets another write after an empty one,
\* was given one more for at most every second of them.
CountsAtEof ==
  atEof => IF iterates
           THEN Len(got) >= sent /\ 2 * (Len(got) - sent) <= empties + 1
           ELSE Len(got) = sent + empties

\* A byte an empty write puts into the stream is an old one: underflow never
\* hands out a byte ahead of its place, and junk only before any answer.
NothingAhead ==
  \A i \in 1..Len(got) :
    /\ got[i] \in Nat => got[i] <= i
    /\ got[i] = Junk => \A j \in 1..i : got[j] = Junk

\* What a reader is given, at any time and at the end of the file, for any way
\* the server splits its answer into writes (PipeBuffer::underflow).
BytesOfAnswer == DeliversAnswer /\ CountsAtEof /\ NothingAhead

\* Once the server has closed its end the reader comes to the end of file.
ReachesEof == closed ~> atEof
=============================================================================
