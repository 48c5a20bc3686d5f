------------------------- MODULE MinidumpFileWriter -------------------------
(***************************************************************************)
(* The file that a minidump goes to: MinidumpFileWriter and the MDRVA      *)
(* objects that MinidumpWriter allocates in it (minidump_file_writer.cc,   *)
(* .h, -inl.h).  Space is handed out in order and never given back; data   *)
(* is copied to it out of order: elements when they are known, the head of *)
(* an object when its MDRVA goes out of scope, which is the reverse of the *)
(* order of allocation.                                                    *)
(*                                                                         *)
(* One process uses it, so the hard part is not concurrency: it is which   *)
(* byte belongs to whom when allocations, copies and ftruncate fail, and   *)
(* when strings change their length on the way from UTF-8 to UTF-16.       *)
(*                                                                         *)
(* The file is counted in bytes, and a byte is who wrote it last: the      *)
(* number of an object, or 0.                                              *)
(*                                                                         *)
(* The variants beside a definition, which nothing refers to, are seeded   *)
(* faults, each of which must break a property.                            *)
(***************************************************************************)
EXTENDS Integers, Sequences

CONSTANTS
  Requests,    \* what the client allocates: kind, head, element size, count
  Characters,  \* the characters in strings, by their bytes in UTF-8: 1..4
  Strings,     \* the lengths of strings, in bytes
  MaxObjects,  \* objects allocated in one dump: a bound
  Bound,       \* bytes allocated in one dump: a bound
  Page,        \* getpagesize()
  Modulus      \* MDRVA and size_t count modulo this: 2^32 on armeabi-v7a

Align == 8
Unit == 2              \* sizeof(uint16_t)
StringHead == 4        \* minidump_size<MDString>
Invalid == Modulus - 1 \* kInvalidMDRVA

ASSUME FileAssumption ==
  /\ \A r \in Requests :
       /\ r.kind \in {"object", "array", "objectArray"}
       /\ r.head \in Nat /\ r.elem \in Nat /\ r.count \in Nat
       /\ r.kind = "array" <=> r.head = 0
       /\ r.head + r.elem * r.count > 0
  /\ Characters \subseteq 1..4
  /\ Strings \subseteq Nat /\ MaxObjects \in Nat /\ Bound \in Nat
  /\ Page \in Nat \ {0}
  /\ Modulus \in Nat /\ Modulus > 4 * (Bound + Page)

VARIABLES
  file,        \* "open", "retry" after a failed Close, "closed" or "leaked"
  owned,       \* was it opened by path, not given as a descriptor
  workaround,  \* is ftruncate not to be used
  position,    \* position_
  size,        \* size_
  length,      \* the length of the file
  offset,      \* the file offset of the kernel
  content,     \* who wrote each byte
  objects,     \* the MDRVA objects, in the order of their allocation
  live,        \* the numbers of those in scope, the innermost last
  failed,      \* has a step failed and is the client on its way out of it
  lost         \* has a failure been ignored

vars == <<file, owned, workaround, position, size, length, offset, content,
          objects, live, failed, lost>>

Bytes == 0..(Bound - 1)
Larger(a, b) == IF a >= b THEN a ELSE b

\* The bytes of an object are a head and an array, either of which may be empty.
SizeOf(o) == o.head + o.elem * o.count
Region(o) == o.pos..(o.pos + SizeOf(o) - 1)
Innermost == live[Len(live)]
Current == objects[Innermost]

\* A file given as a descriptor may need the workaround.
Init ==
  /\ file = "open"
  /\ owned \in BOOLEAN
  /\ workaround \in IF owned THEN {FALSE} ELSE BOOLEAN
  /\ position = 0
  /\ size = 0
  /\ length = 0
  /\ offset = 0
  /\ content = [b \in Bytes |-> 0]
  /\ objects = <<>>
  /\ live = <<>>
  /\ failed = FALSE
  /\ lost = FALSE

(***************************************************************************)
(* MinidumpFileWriter::Allocate.                                           *)
(***************************************************************************)

Aligned(n) == ((n + Align - 1) \div Align) * Align

\* The file grows by a page at least, and by no less than what is asked for.
GrowthByPages(n) == Page
Growth(n) == Larger(Aligned(n), Page)

\* The file grows by ftruncate, which may fail.  With the workaround it grows
\* by being written to.
Allocate(object) ==
  LET n == SizeOf(object)
      at(p) == objects' = Append(objects, [object EXCEPT !.pos = p])
  IN \/ /\ workaround
        /\ at(position)
        /\ position' = position + n
        /\ size' = size + n
        /\ UNCHANGED <<length, failed>>
     \/ /\ ~workaround
        /\ position + Aligned(n) <= size
        /\ at(position)
        /\ position' = position + Aligned(n)
        /\ UNCHANGED <<size, length, failed>>
     \/ /\ ~workaround
        /\ position + Aligned(n) > size
        /\ \/ /\ at(position)
              /\ size' = size + Growth(n)
              /\ length' = size'
              /\ position' = position + Aligned(n)
              /\ UNCHANGED failed
           \/ /\ at(Invalid)
              /\ failed' = TRUE
              /\ UNCHANGED <<size, length, position>>

\* The client allocates an object and keeps it in scope, or leaves at once.
NewObject(object) ==
  /\ file = "open"
  /\ ~failed
  /\ Len(objects) < MaxObjects
  /\ position + SizeOf(object) <= Bound
  /\ live # <<>> => Current.kind # "string"
  /\ Allocate(object)
  /\ live' = Append(live, Len(objects) + 1)
  /\ UNCHANGED <<file, owned, workaround, offset, content, lost>>

\* TypedMDRVA::Allocate, AllocateArray, AllocateObjectAndArray; an UntypedMDRVA
\* is an array of one element.
NewTyped(r) ==
  NewObject([kind |-> r.kind, pos |-> 0, head |-> r.head, elem |-> r.elem,
             count |-> r.count, next |-> 0, left |-> 0, ended |-> TRUE])

\* WriteString allocates a unit for every byte of the source, and the NUL.
NewString(n) ==
  NewObject([kind |-> "string", pos |-> 0, head |-> StringHead, elem |-> Unit,
             count |-> n + 1, next |-> 0, left |-> n, ended |-> FALSE])

(***************************************************************************)
(* MinidumpFileWriter::Copy.                                               *)
(***************************************************************************)

\* Does the data fit in the allocated space: the sum is taken modulo 2^32.
Fits(p, n) == (p + n) % Modulus <= size

\* lseek to the invalid position fails and moves nothing, but its result, -1,
\* is just the position asked for.
Start(p) == IF p = Invalid THEN offset ELSE p

Copied(i, p, n) ==
  /\ Fits(p, n)
  /\ content' = [b \in Bytes |-> IF b \in Start(p)..(Start(p) + n - 1)
                                 THEN i ELSE content[b]]
  /\ offset' = Start(p) + n
  /\ length' = Larger(length, Start(p) + n)

\* It does not fit, or write fails.
NotCopied(p, n) ==
  /\ offset' = IF Fits(p, n) THEN Start(p) ELSE offset
  /\ UNCHANGED <<content, length>>

\* CopyIndexAfterObject, and CopyIndex, where there is no head.
Place(o, index, n) == o.pos + o.head + index * n

WriteElementPastTheEnd(i) ==
  LET o == objects[i]
      p == Place(o, o.next, o.elem)
  IN /\ ~failed
     /\ o.kind \in {"array", "objectArray"}
     /\ o.next <= o.count
     /\ \/ Copied(i, p, o.elem) /\ UNCHANGED lost
        \/ NotCopied(p, o.elem) /\ lost' = TRUE
     /\ objects' = [objects EXCEPT ![i].next = @ + 1]
     /\ UNCHANGED <<file, owned, workaround, position, size, live, failed>>

\* The client copies the next element of an array; whether that worked is not
\* looked at.
WriteElement(i) ==
  LET o == objects[i]
      p == Place(o, o.next, o.elem)
  IN /\ ~failed
     /\ o.kind \in {"array", "objectArray"}
     /\ o.next < o.count
     /\ \/ Copied(i, p, o.elem) /\ UNCHANGED lost
        \/ NotCopied(p, o.elem) /\ lost' = TRUE
     /\ objects' = [objects EXCEPT ![i].next = @ + 1]
     /\ UNCHANGED <<file, owned, workaround, position, size, live, failed>>

(***************************************************************************)
(* CopyStringToMDString and the end of WriteStringCore.                    *)
(***************************************************************************)

\* A character of four bytes in UTF-8 is a surrogate pair in UTF-16.
UnitsOf(c) == IF c = 4 THEN 2 ELSE 1

\* The place of a character: its index times the bytes copied for it.
AppendCharacter(c) ==
  LET n == Unit * UnitsOf(c)
      p == Place(Current, Current.next, n)
  IN /\ c <= Current.left
     /\ \/ /\ Copied(Innermost, p, n)
           /\ objects' = [objects EXCEPT ![Innermost].next = @ + UnitsOf(c),
                                         ![Innermost].left = @ - c]
           /\ UNCHANGED failed
        \/ NotCopied(p, n) /\ failed' = TRUE /\ UNCHANGED objects

\* UTF8ToUTF16Char makes nothing of what is left.
NotACharacter ==
  /\ Current.left > 0
  /\ failed' = TRUE
  /\ UNCHANGED <<content, offset, length, objects>>

\* The NUL goes to the end of the space, wherever the last character went.
Terminate ==
  LET p == Place(Current, Current.count - 1, Unit)
  IN /\ Current.left = 0
     /\ \/ Copied(Innermost, p, Unit) /\ UNCHANGED failed
        \/ NotCopied(p, Unit) /\ failed' = TRUE
     /\ objects' = [objects EXCEPT ![Innermost].ended = TRUE]

WriteString ==
  /\ ~failed
  /\ live # <<>>
  /\ ~Current.ended
  /\ (\E c \in Characters : AppendCharacter(c)) \/ NotACharacter \/ Terminate
  /\ UNCHANGED <<file, owned, workaround, position, size, live, lost>>

(***************************************************************************)
(* The destructors, and MinidumpFileWriter::Close.                         *)
(***************************************************************************)

FlushesSingle(o) == o.kind = "object"
Flushes(o) == o.kind # "array"

\* ~TypedMDRVA writes the head, even of an object that has no space.
Destroy ==
  /\ live # <<>>
  /\ \/ failed
     \/ Current.kind = "string" /\ Current.ended
     \/ Current.kind # "string" /\ Current.next = Current.count
  /\ live' = SubSeq(live, 1, Len(live) - 1)
  /\ IF Flushes(Current)
     THEN \/ Copied(Innermost, Current.pos, Current.head) /\ UNCHANGED lost
          \/ NotCopied(Current.pos, Current.head) /\ lost' = TRUE
     ELSE UNCHANGED <<content, offset, length, lost>>
  /\ UNCHANGED <<file, owned, workaround, position, size, objects, failed>>

\* When the failure was in a stream that the dump can do without, its entry in
\* the directory, the only object left in scope, is emptied and the dump goes on.
CarryOn ==
  /\ failed
  /\ file = "open"
  /\ \/ live = <<>>
     \/ Len(live) = 1 /\ Current.kind = "array" /\ Current.pos # Invalid
  /\ failed' = FALSE
  /\ lost' = TRUE
  /\ UNCHANGED <<file, owned, workaround, position, size, length, offset,
                 content, objects, live>>

\* ~MinidumpWriter closes a file that it opened; when ftruncate fails,
\* ~MinidumpFileWriter tries once more.
Close ==
  /\ owned
  /\ live = <<>>
  /\ \/ /\ file \in {"open", "retry"}
        /\ length' = position
        /\ file' = "closed"
     \/ /\ file = "open"
        /\ file' = "retry"
        /\ UNCHANGED length
     \/ /\ file = "retry"
        /\ file' = "leaked"
        /\ UNCHANGED length
  /\ UNCHANGED <<owned, workaround, position, size, offset, content, objects,
                 live, failed, lost>>

\* A descriptor that was given to it is left as it is.
Leave ==
  /\ ~owned
  /\ live = <<>>
  /\ file = "open"
  /\ file' = "closed"
  /\ UNCHANGED <<owned, workaround, position, size, length, offset, content,
                 objects, live, failed, lost>>

Over == file \in {"closed", "leaked"} /\ UNCHANGED vars

Next ==
  \/ \E r \in Requests : NewTyped(r)
  \/ \E n \in Strings : NewString(n)
  \/ \E j \in 1..Len(live) : WriteElement(live[j])
  \/ WriteString
  \/ Destroy
  \/ CarryOn
  \/ Close
  \/ Leave
  \/ Over

Spec == Init /\ [][Next]_vars

(***************************************************************************)
(* Properties.                                                             *)
(***************************************************************************)

Kinds == {"object", "array", "objectArray", "string"}

\* Every variable has its type: the only type invariant of the module.
TypeOK ==
  /\ file \in {"open", "retry", "closed", "leaked"}
  /\ owned \in BOOLEAN
  /\ workaround \in BOOLEAN
  /\ position \in Nat
  /\ size \in Nat
  /\ length \in Nat
  /\ offset \in Nat
  /\ content \in [Bytes -> 0..Len(objects)]
  /\ \A i \in 1..Len(objects) :
       /\ objects[i].kind \in Kinds
       /\ objects[i].pos \in Bytes \cup {Invalid}
       /\ objects[i].next \in 0..objects[i].count
       /\ objects[i].left \in Nat
  /\ live \in Seq(1..Len(objects))
  /\ failed \in BOOLEAN
  /\ lost \in BOOLEAN

\* What Allocate hands out lies inside the space that the file has been grown
\* to, and behind everything that it handed out before.
RegionsAreApart ==
  \A j \in 1..Len(objects) : objects[j].pos # Invalid =>
    /\ objects[j].pos + SizeOf(objects[j]) <= size
    /\ \A i \in 1..(j - 1) : objects[i].pos # Invalid =>
         objects[i].pos + SizeOf(objects[i]) <= objects[j].pos

NoAllocationFailed == \A i \in 1..Len(objects) : objects[i].pos # Invalid

\* The regions of the file are apart, and as long as no allocation has failed
\* every byte of the file was written by the object that it was allocated to, in
\* whatever order elements, strings and destructors wrote and whichever of those
\* writes failed.
OwnWritesOnly ==
  /\ RegionsAreApart
  /\ NoAllocationFailed =>
       \A b \in Bytes : content[b] # 0 => b \in Region(objects[content[b]])

\* The UTF-16 units of a string follow each other without a gap, as a reader of
\* the MDString expects ("Append the one or two UTF-16 characters").
StringsAreContiguous ==
  NoAllocationFailed => \A i \in 1..Len(objects) :
    LET o == objects[i]
        first == o.pos + o.head
    IN o.kind = "string" =>
         \A b \in first..(first + o.next * Unit - 1) : content[b] = i

\* In the file of a dump in which nothing failed, the head and every element of
\* every object are there, and the closing ftruncate has cut none of them off.
\* At any time the characters of a string that are written are all there.
EverythingWritten ==
  /\ StringsAreContiguous
  /\ file = "closed" /\ ~failed /\ ~lost =>
       \A i \in 1..Len(objects) :
         LET o == objects[i]
         IN /\ \A b \in o.pos..(o.pos + o.head - 1) : content[b] = i
            /\ o.kind # "string" => \A b \in Region(o) : content[b] = i
            /\ \A b \in Region(o) : content[b] = i => b < length

=============================================================================
