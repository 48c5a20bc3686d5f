----------------------------- MODULE LineReader -----------------------------
(***************************************************************************)
(* Reading a file of /proc by lines with a buffer of a fixed size and      *)
(* without the heap (client/linux/minidump_writer/line_reader.h), as       *)
(* EnumerateMappings, GetThreadInfoByIndex and SuspendThread's callers do: *)
(* GetNextLine until it fails, and PopLine after every line.               *)
(*                                                                         *)
(* A byte is End, which is a line feed or the NUL that takes its place, or *)
(* another character.                                                      *)
(***************************************************************************)
EXTENDS Naturals, SequencesExt

CONSTANTS
  End, Char,    \* the bytes
  kMaxLineLen,  \* sizeof(buf_)
  MaxFile       \* bytes in the file: a bound

VARIABLES
  text,      \* the file
  rest,      \* what of it has not been read yet
  buf,       \* buf_, up to buf_used_
  hit_eof,   \* hit_eof_
  line,      \* the length of the line that is to be popped, or NoLine
  lines,     \* the lines that were popped
  reading    \* "reads", "failed" after a read error, or "ended"

lineVars == <<text, rest, buf, hit_eof, line, lines, reading>>

NoLine == MaxFile + 1

Init ==
  /\ text \in UNION {[1..n -> {End, Char}] : n \in 0..MaxFile}
  /\ rest = text
  /\ buf = <<>>
  /\ hit_eof = FALSE
  /\ line = NoLine
  /\ lines = <<>>
  /\ reading = "reads"

Ends == {i \in DOMAIN buf : buf[i] = End}
NoEnd == Ends = {}
Full == Len(buf) = kMaxLineLen

(***************************************************************************)
(* GetNextLine.                                                            *)
(***************************************************************************)

\* It reaches the first end of a line in the buffer.
FindLine ==
  /\ ~NoEnd
  /\ line' = Min(Ends) - 1
  /\ UNCHANGED <<rest, buf, hit_eof, reading>>

\* The end of the file, or a line that is too long for the buffer: false.
NoMoreLines ==
  /\ (buf = <<>> /\ hit_eof) \/ (NoEnd /\ Full)
  /\ reading' = "ended"
  /\ UNCHANGED <<rest, buf, hit_eof, line>>

\* The last line need not end, and gets a NUL in the buffer.
LastLine ==
  /\ NoEnd /\ ~Full
  /\ hit_eof /\ buf # <<>>
  /\ buf' = Append(buf, End)
  /\ line' = Len(buf)
  /\ UNCHANGED <<rest, hit_eof, reading>>

Read ==
  /\ NoEnd /\ ~Full
  /\ ~hit_eof
  /\ \/ \E n \in 1..Len(rest) :
          /\ Len(buf) + n <= kMaxLineLen
          /\ buf' = buf \o SubSeq(rest, 1, n)
          /\ rest' = SubSeq(rest, n + 1, Len(rest))
          /\ UNCHANGED <<hit_eof, reading>>
     \/ rest = <<>> /\ hit_eof' = TRUE /\ UNCHANGED <<rest, buf, reading>>
     \/ reading' = "failed" /\ UNCHANGED <<rest, buf, hit_eof>>
  /\ UNCHANGED line

GetNextLine ==
  /\ reading = "reads"
  /\ line = NoLine
  /\ FindLine \/ NoMoreLines \/ LastLine \/ Read
  /\ UNCHANGED <<text, lines>>

\* PopLine: the line and its end are gone, what follows moves to the front.
PopLine ==
  /\ line # NoLine
  /\ lines' = Append(lines, SubSeq(buf, 1, line))
  /\ buf' = SubSeq(buf, line + 2, Len(buf))
  /\ line' = NoLine
  /\ UNCHANGED <<text, rest, hit_eof, reading>>

Step == GetNextLine \/ PopLine
Over == reading # "reads"
Spec == Init /\ [][Step \/ (Over /\ UNCHANGED lineVars)]_lineVars

(***************************************************************************)
(* Properties.                                                             *)
(***************************************************************************)

TypeOK ==
  /\ Len(buf) <= kMaxLineLen
  /\ hit_eof \in BOOLEAN
  /\ line \in 0..(kMaxLineLen - 1) \cup {NoLine}
  /\ reading \in {"reads", "failed", "ended"}

Delivered == FlattenSeq([i \in DOMAIN lines |-> Append(lines[i], End)])

\* However the file comes in pieces, the lines are those of the file, whole and
\* in order, and none is skipped: when GetNextLine says that there are no more,
\* without an error, that is so, or the next one is too long for the buffer.
LinesAreWhole ==
  /\ Delivered \o buf \o rest \in {text, Append(text, End)}
  /\ \A i \in DOMAIN lines : End \notin Range(lines[i])
  /\ reading = "ended" =>
       \/ buf = <<>> /\ rest = <<>>
       \/ Full /\ NoEnd

=============================================================================
