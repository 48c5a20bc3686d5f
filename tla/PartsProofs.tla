---------------------------- MODULE PartsProofs ----------------------------
(***************************************************************************)
(* Theorems about the other parts that one thread runs alone.              *)
(***************************************************************************)
EXTENDS SequentialParts, SequentialProofs, FiniteSetTheorems, SequenceTheorems,
        WellFoundedInduction

(***************************************************************************)
(* The types of the file of a dump, for characters of any length.          *)
(***************************************************************************)

\* What an object has been given, and how far it is written: a string has a unit for
\* every byte that is still to be converted, and one for the NUL.
ObjectShape(o) ==
  /\ o.pos \in Bytes \cup {Invalid}
  /\ o.kind = "string" => o.next + o.left + 1 <= o.count
  /\ o.kind # "string" => o.ended /\ o.next <= o.count

FileShape ==
  /\ file \in {"open", "retry", "closed", "leaked"}
  /\ owned \in BOOLEAN /\ workaround \in BOOLEAN
  /\ failed \in BOOLEAN /\ lost \in BOOLEAN
  /\ position \in Nat /\ size \in Nat /\ length \in Nat /\ offset \in Nat
  /\ content \in [Bytes -> 0..Count]
  /\ objects \in Seq(Object)
  /\ \A i \in 1..Count : ObjectShape(objects[i])
  /\ live \in Seq(1..Count)

\* A sequence of some is one of more.
LEMMA MoreElements ==
  ASSUME NEW S, NEW T, S \subseteq T, NEW s \in Seq(S)
  PROVE  s \in Seq(T)
<1>1. Len(s) \in Nat /\ s = [i \in 1..Len(s) |-> s[i]]
  OBVIOUS
<1>2. \A i \in 1..Len(s) : s[i] \in T
  BY Element
<1>3. [i \in 1..Len(s) |-> s[i]] \in Seq(T)
  BY <1>1, <1>2
<1> QED BY <1>1, <1>3

\* The data that is copied is of an object, wherever it goes.
LEMMA CopyTypes ==
  ASSUME FileShape, NEW i \in 1..Count, NEW p \in Nat, NEW n \in Nat,
         Copied(i, p, n) \/ NotCopied(p, n)
  PROVE  content' \in [Bytes -> 0..Count] /\ offset' \in Nat /\ length' \in Nat
<1>1. Start(p) \in Nat /\ Count \in Nat
  BY DEF Start, FileShape, Count
<1>2. CASE NotCopied(p, n)
  BY <1>1, <1>2 DEF NotCopied, FileShape
<1>3. CASE Copied(i, p, n)
  <2>1. /\ content' = [b \in Bytes |-> IF b \in Start(p)..(Start(p) + n - 1)
                                       THEN i ELSE content[b]]
        /\ offset' = Start(p) + n
        /\ length' = IF length >= Start(p) + n THEN length ELSE Start(p) + n
    BY <1>3 DEF Copied, Larger
  <2>2. i \in 0..Count
    BY <1>1
  <2>3. \A b \in Bytes : content[b] \in 0..Count
    BY DEF FileShape
  <2>4. content' \in [Bytes -> 0..Count]
    BY <2>1, <2>2, <2>3
  <2>5. offset' \in Nat
    BY <1>1, <2>1
  <2>6. length' \in Nat
    BY <1>1, <2>1 DEF FileShape
  <2> QED BY <2>4, <2>5, <2>6
<1> QED BY <1>2, <1>3

\* One of the objects has more written of it.
LEMMA ObjectChanged ==
  ASSUME FileShape, NEW i \in 1..Count, NEW c \in Object, ObjectShape(c),
         objects' = [objects EXCEPT ![i] = c]
  PROVE  /\ objects' \in Seq(Object) /\ Count' = Count
         /\ \A k \in 1..Count : ObjectShape(objects'[k])
<1>1. objects \in Seq(Object) /\ i \in 1..Len(objects)
  BY DEF FileShape, Count
<1>2. objects' \in Seq(Object) /\ Len(objects') = Len(objects)
  BY <1>1
<1>3. \A k \in 1..Len(objects) : objects'[k] = IF k = i THEN c ELSE objects[k]
  BY <1>1
<1> QED BY <1>2, <1>3 DEF FileShape, Count

\* An object of the file, and the innermost of those in scope.
LEMMA ObjectTypes ==
  ASSUME FileShape, NEW i \in 1..Count
  PROVE  /\ objects[i] \in Object /\ ObjectShape(objects[i])
         /\ objects[i].pos \in Nat /\ objects[i].head \in Nat /\ objects[i].elem \in Nat
         /\ objects[i].count \in Nat /\ objects[i].next \in Nat /\ objects[i].left \in Nat
<1>1. objects[i] \in Object /\ ObjectShape(objects[i])
  BY DEF FileShape, Count
<1> QED BY <1>1 DEF Object

LEMMA InnermostTypes ==
  ASSUME FileShape, live # <<>>
  PROVE  Innermost \in 1..Count /\ Current = objects[Innermost] /\ Len(live) \in Nat \ {0}
<1>1. live \in Seq(1..Count)
  BY DEF FileShape
<1>2. Len(live) \in Nat \ {0}
  BY <1>1
<1>3. live[Len(live)] \in 1..Count
  <2>1. Len(live) \in 1..Len(live)
    BY <1>2
  <2> QED BY <1>1, <2>1, Element
<1> QED BY <1>2, <1>3 DEF Innermost, Current

\* What Allocate hands out lies in the file, or is nothing.
LEMMA AllocateTypes ==
  ASSUME FileShape, NEW object \in Object, SizeOf(object) \in Nat, SizeOf(object) > 0,
         position + SizeOf(object) <= Bound, Allocate(object)
  PROVE  /\ position' \in Nat /\ size' \in Nat /\ length' \in Nat /\ failed' \in BOOLEAN
         /\ \E p \in Bytes \cup {Invalid} :
              objects' = Append(objects, [object EXCEPT !.pos = p])
<1> DEFINE n == SizeOf(object)
<1>1. n \in Nat /\ Aligned(n) \in Nat /\ Growth(n) \in Nat
  BY AlignedHolds
<1>2. position \in Bytes
  BY FileConstants DEF FileShape, Bytes
<1>3. CASE /\ workaround
           /\ objects' = Append(objects, [object EXCEPT !.pos = position])
           /\ position' = position + n
           /\ size' = size + n
           /\ UNCHANGED <<length, failed>>
  <2>1. position' \in Nat /\ size' \in Nat
    BY <1>1, <1>3 DEF FileShape
  <2> QED BY <1>2, <1>3, <2>1 DEF FileShape
<1>4. CASE /\ objects' = Append(objects, [object EXCEPT !.pos = position])
           /\ position' = position + Aligned(n)
           /\ UNCHANGED <<size, length, failed>>
  <2>1. position' \in Nat
    BY <1>1, <1>4 DEF FileShape
  <2> QED BY <1>2, <1>4, <2>1 DEF FileShape
<1>5. CASE /\ objects' = Append(objects, [object EXCEPT !.pos = position])
           /\ size' = size + Growth(n)
           /\ length' = size'
           /\ position' = position + Aligned(n)
           /\ UNCHANGED failed
  <2>1. position' \in Nat /\ size' \in Nat
    BY <1>1, <1>5 DEF FileShape
  <2> QED BY <1>2, <1>5, <2>1 DEF FileShape
<1>6. CASE /\ objects' = Append(objects, [object EXCEPT !.pos = Invalid])
           /\ failed' = TRUE
           /\ UNCHANGED <<size, length, position>>
  BY <1>6 DEF FileShape
<1> QED BY <1>3, <1>4, <1>5, <1>6 DEF Allocate

LEMMA NewObjectTypes ==
  ASSUME FileShape, NEW object \in Object, object.next = 0,
         object.kind = "string" => object.left + 1 <= object.count,
         object.kind # "string" => object.ended,
         SizeOf(object) \in Nat, SizeOf(object) > 0, NewObject(object)
  PROVE  FileShape'
<1>1. /\ position + SizeOf(object) <= Bound /\ Allocate(object)
      /\ live' = Append(live, Len(objects) + 1)
      /\ UNCHANGED <<file, owned, workaround, offset, content, lost>>
  BY DEF NewObject
<1>2. /\ position' \in Nat /\ size' \in Nat /\ length' \in Nat /\ failed' \in BOOLEAN
      /\ \E p \in Bytes \cup {Invalid} :
           objects' = Append(objects, [object EXCEPT !.pos = p])
  BY <1>1, AllocateTypes
<1>3. PICK p \in Bytes \cup {Invalid} : objects' = Append(objects, [object EXCEPT !.pos = p])
  BY <1>2
<1> DEFINE c == [object EXCEPT !.pos = p]
<1>4. p \in Nat
  BY FileConstants DEF Bytes
<1>5. /\ c \in Object /\ c.pos = p /\ c.next = 0 /\ c.kind = object.kind
      /\ c.left = object.left /\ c.count = object.count /\ c.ended = object.ended
  BY <1>4 DEF Object
<1>6. object.count \in Nat /\ object.left \in Nat
  BY DEF Object
<1>7. ObjectShape(c)
  BY <1>5, <1>6 DEF ObjectShape
<1>8. objects \in Seq(Object) /\ objects' = Append(objects, c)
  BY <1>3 DEF FileShape
<1> HIDE DEF c
<1>9. /\ objects' \in Seq(Object) /\ Count' = Count + 1 /\ Count \in Nat
      /\ \A k \in 1..Count : objects'[k] = objects[k]
      /\ objects'[Count + 1] = c
  BY <1>5, <1>8 DEF Count
<1>10. \A k \in 1..Count' : ObjectShape(objects'[k])
  <2> SUFFICES ASSUME NEW k \in 1..Count' PROVE ObjectShape(objects'[k])
    OBVIOUS
  <2>1. k \in 1..Count \/ k = Count + 1
    BY <1>9
  <2>2. ASSUME k \in 1..Count PROVE ObjectShape(objects'[k])
    BY <1>9, <2>2 DEF FileShape
  <2> QED BY <1>7, <1>9, <2>1, <2>2
<1>11. content' \in [Bytes -> 0..Count']
  BY <1>1, <1>9 DEF FileShape
<1>12. live' \in Seq(1..Count')
  <2>1. live \in Seq(1..Count) /\ live' = Append(live, Count + 1)
    BY <1>1 DEF FileShape, Count
  <2>2. 1..Count \subseteq 1..Count'
    BY <1>9
  <2>3. live \in Seq(1..Count')
    BY <2>1, <2>2, MoreElements
  <2>4. Count + 1 \in 1..Count'
    BY <1>9
  <2> QED BY <2>1, <2>3, <2>4
<1> QED
  BY <1>1, <1>2, <1>9, <1>10, <1>11, <1>12 DEF FileShape, ObjectShape

LEMMA WriteElementTypes ==
  ASSUME FileShape, NEW i \in 1..Count, WriteElement(i)
  PROVE  FileShape'
<1> DEFINE o == objects[i]
           p == Place(o, o.next, o.elem)
           c == [o EXCEPT !.next = o.next + 1]
<1>1. /\ o \in Object /\ ObjectShape(o) /\ o.pos \in Nat /\ o.head \in Nat /\ o.elem \in Nat
      /\ o.count \in Nat /\ o.next \in Nat
  BY ObjectTypes
<1>2. /\ o.kind # "string" /\ o.next < o.count
      /\ \/ Copied(i, p, o.elem) /\ UNCHANGED lost
         \/ NotCopied(p, o.elem) /\ lost' = TRUE
      /\ objects' = [objects EXCEPT ![i] = c]
      /\ UNCHANGED <<file, owned, workaround, position, size, live, failed>>
  BY DEF WriteElement
<1>3. p \in Nat
  <2>1. o.next * o.elem \in Nat
    BY <1>1, Elements
  <2> QED BY <1>1, <2>1 DEF Place
<1>4. content' \in [Bytes -> 0..Count] /\ offset' \in Nat /\ length' \in Nat
  BY <1>1, <1>2, <1>3, CopyTypes
<1>5. /\ c \in Object /\ c.pos = o.pos /\ c.kind = o.kind /\ c.next = o.next + 1
      /\ c.count = o.count /\ c.ended = o.ended
  BY <1>1 DEF Object
<1>6. ObjectShape(c)
  BY <1>1, <1>2, <1>5 DEF ObjectShape
<1> HIDE DEF c, p
<1>7. /\ objects' \in Seq(Object) /\ Count' = Count
      /\ \A k \in 1..Count : ObjectShape(objects'[k])
  BY <1>2, <1>5, <1>6, ObjectChanged
<1>8. lost' \in BOOLEAN
  BY <1>2 DEF FileShape
<1> QED BY <1>2, <1>4, <1>7, <1>8 DEF FileShape, ObjectShape

\* A character takes as many units as it has bytes, or fewer.
LEMMA UnitsTypes ==
  ASSUME NEW c \in Characters
  PROVE  c \in Nat /\ UnitsOf(c) \in Nat /\ UnitsOf(c) <= c
<1>1. c \in 1..4
  BY FileAssumption
<1> QED BY <1>1 DEF UnitsOf

LEMMA WriteStringTypes ==
  ASSUME FileShape, WriteString
  PROVE  FileShape'
<1>1. /\ live # <<>> /\ ~Current.ended
      /\ UNCHANGED <<file, owned, workaround, position, size, live, lost>>
  BY DEF WriteString
<1>2. Innermost \in 1..Count /\ Current = objects[Innermost]
  BY <1>1, InnermostTypes
<1> DEFINE i == Innermost
           o == objects[i]
<1>3. /\ o \in Object /\ ObjectShape(o) /\ o.pos \in Nat /\ o.head \in Nat /\ o.elem \in Nat
      /\ o.count \in Nat /\ o.next \in Nat /\ o.left \in Nat
  BY <1>2, ObjectTypes
<1>4. ASSUME NEW d \in Characters, AppendCharacter(d) PROVE FileShape'
  <2> DEFINE n == Unit * UnitsOf(d)
             p == Place(o, o.next, n)
             c == [o EXCEPT !.next = o.next + UnitsOf(d), !.left = o.left - d]
  <2>1. d \in Nat /\ UnitsOf(d) \in Nat /\ UnitsOf(d) <= d
    BY UnitsTypes
  <2>2. /\ d <= o.left
        /\ \/ Copied(i, p, n) /\ objects' = [objects EXCEPT ![i] = c] /\ UNCHANGED failed
           \/ NotCopied(p, n) /\ failed' = TRUE /\ UNCHANGED objects
    BY <1>2, <1>4 DEF AppendCharacter
  <2>3. n \in Nat
    BY <2>1 DEF Unit
  <2>4. p \in Nat
    <3> HIDE DEF n
    <3>1. o.next * n \in Nat
      BY <1>3, <2>3, Elements
    <3> QED BY <1>3, <3>1 DEF Place
  <2> HIDE DEF n, p
  <2>5. content' \in [Bytes -> 0..Count] /\ offset' \in Nat /\ length' \in Nat
    BY <1>2, <2>2, <2>3, <2>4, CopyTypes
  <2>6. failed' \in BOOLEAN
    BY <2>2 DEF FileShape
  <2>7. o.left - d \in Nat /\ o.next + UnitsOf(d) \in Nat
    BY <1>3, <2>1, <2>2
  <2>8. /\ c \in Object /\ c.pos = o.pos /\ c.kind = o.kind /\ c.count = o.count
        /\ c.next = o.next + UnitsOf(d) /\ c.left = o.left - d
    BY <1>3, <2>7 DEF Object
  <2>9. ASSUME objects' = [objects EXCEPT ![i] = c] PROVE FileShape'
    <3>1. o.kind = "string"
      BY <1>1, <1>2, <1>3 DEF ObjectShape
    <3>2. ObjectShape(c)
      BY <1>3, <2>1, <2>7, <2>8, <3>1 DEF ObjectShape
    <3> HIDE DEF c
    <3>3. /\ objects' \in Seq(Object) /\ Count' = Count
          /\ \A k \in 1..Count : ObjectShape(objects'[k])
      BY <1>2, <2>8, <2>9, <3>2, ObjectChanged
    <3> QED BY <1>1, <2>5, <2>6, <3>3 DEF FileShape, ObjectShape
  <2>10. ASSUME UNCHANGED objects PROVE FileShape'
    BY <1>1, <2>5, <2>6, <2>10 DEF FileShape, ObjectShape, Count
  <2> QED BY <2>2, <2>9, <2>10
<1>5. CASE NotACharacter
  BY <1>1, <1>5 DEF NotACharacter, FileShape, ObjectShape, Count
<1>6. CASE Terminate
  <2> DEFINE p == Place(o, o.count - 1, Unit)
             c == [o EXCEPT !.ended = TRUE]
  <2>1. /\ objects' = [objects EXCEPT ![i] = c]
        /\ \/ Copied(i, p, Unit) /\ UNCHANGED failed
           \/ NotCopied(p, Unit) /\ failed' = TRUE
    BY <1>2, <1>6 DEF Terminate
  <2>2. o.kind = "string"
    BY <1>1, <1>2, <1>3 DEF ObjectShape
  <2>3. o.count - 1 \in Nat
    BY <1>3, <2>2 DEF ObjectShape
  <2>4. p \in Nat /\ Unit \in Nat
    BY <1>3, <2>3 DEF Place, Unit
  <2>5. c \in Object /\ ObjectShape(c)
    BY <1>3 DEF Object, ObjectShape
  <2> HIDE DEF p, c
  <2>6. content' \in [Bytes -> 0..Count] /\ offset' \in Nat /\ length' \in Nat
    BY <1>2, <2>1, <2>4, CopyTypes
  <2>7. failed' \in BOOLEAN
    BY <2>1 DEF FileShape
  <2>8. /\ objects' \in Seq(Object) /\ Count' = Count
        /\ \A k \in 1..Count : ObjectShape(objects'[k])
    BY <1>2, <2>1, <2>5, ObjectChanged
  <2> QED BY <1>1, <2>6, <2>7, <2>8 DEF FileShape, ObjectShape
<1> QED BY <1>4, <1>5, <1>6 DEF WriteString

LEMMA DestroyTypes ==
  ASSUME FileShape, Destroy
  PROVE  FileShape'
<1>1. /\ live # <<>>
      /\ live' = SubSeq(live, 1, Len(live) - 1)
      /\ \/ Copied(Innermost, Current.pos, Current.head) /\ UNCHANGED lost
         \/ NotCopied(Current.pos, Current.head) /\ lost' = TRUE
         \/ UNCHANGED <<content, offset, length, lost>>
      /\ UNCHANGED <<file, owned, workaround, position, size, objects, failed>>
  BY DEF Destroy
<1>2. Innermost \in 1..Count /\ Current = objects[Innermost] /\ Len(live) \in Nat \ {0}
  BY <1>1, InnermostTypes
<1>3. Current.pos \in Nat /\ Current.head \in Nat
  BY <1>2, ObjectTypes
<1>4. content' \in [Bytes -> 0..Count] /\ offset' \in Nat /\ length' \in Nat
  <2>1. CASE UNCHANGED <<content, offset, length, lost>>
    BY <2>1 DEF FileShape
  <2> QED BY <1>1, <1>2, <1>3, <2>1, CopyTypes
<1>5. lost' \in BOOLEAN
  BY <1>1 DEF FileShape
<1>6. live' \in Seq(1..Count)
  <2>1. live \in Seq(1..Count)
    BY DEF FileShape
  <2>2. \A j \in 1..(Len(live) - 1) : live[j] \in 1..Count
    <3>1. \A j \in 1..(Len(live) - 1) : j \in 1..Len(live)
      BY <1>2
    <3> QED BY <2>1, <3>1, Element
  <2> QED BY <1>1, <1>2, <2>1, <2>2
<1>7. Count' = Count
  BY <1>1 DEF Count
<1> QED BY <1>1, <1>4, <1>5, <1>6, <1>7 DEF FileShape, ObjectShape

LEMMA FileInitShape == Init => FileShape
<1> SUFFICES ASSUME Init PROVE FileShape
  OBVIOUS
<1>1. /\ file = "open" /\ owned \in BOOLEAN /\ position = 0 /\ size = 0 /\ length = 0
      /\ offset = 0 /\ content = [b \in Bytes |-> 0] /\ objects = <<>> /\ live = <<>>
      /\ failed = FALSE /\ lost = FALSE
  BY DEF Init
<1>2. workaround \in BOOLEAN
  BY DEF Init
<1>3. Count = 0 /\ objects \in Seq(Object) /\ live \in Seq(1..Count)
  BY <1>1 DEF Count
<1>4. content \in [Bytes -> 0..Count]
  BY <1>1, <1>3
<1>5. \A i \in 1..Count : ObjectShape(objects[i])
  BY <1>3
<1> QED BY <1>1, <1>2, <1>3, <1>4, <1>5 DEF FileShape

LEMMA FileStepShape == FileShape /\ [Next]_vars => FileShape'
<1> SUFFICES ASSUME FileShape, [Next]_vars PROVE FileShape'
  OBVIOUS
<1>1. ASSUME NEW r \in Requests, NewTyped(r) PROVE FileShape'
  <2> DEFINE o == [kind |-> r.kind, pos |-> 0, head |-> r.head, elem |-> r.elem,
                   count |-> r.count, next |-> 0, left |-> 0, ended |-> TRUE]
  <2>1. /\ r.kind \in {"object", "array", "objectArray"}
        /\ r.head \in Nat /\ r.elem \in Nat /\ r.count \in Nat
        /\ r.head + r.elem * r.count > 0
    BY FileAssumption
  <2>2. r.elem * r.count \in Nat
    BY <2>1, Elements
  <2>3. o \in Object /\ o.next = 0 /\ o.kind # "string" /\ o.ended
    BY <2>1 DEF Object, Kinds
  <2>4. SizeOf(o) = r.head + r.elem * r.count
    BY DEF SizeOf
  <2> HIDE DEF o
  <2>5. SizeOf(o) \in Nat /\ SizeOf(o) > 0
    BY <2>1, <2>2, <2>4
  <2>6. NewObject(o)
    BY <1>1 DEF NewTyped, o
  <2> QED BY <2>3, <2>5, <2>6, NewObjectTypes
<1>2. ASSUME NEW n \in Strings, NewString(n) PROVE FileShape'
  <2> DEFINE o == [kind |-> "string", pos |-> 0, head |-> StringHead, elem |-> Unit,
                   count |-> n + 1, next |-> 0, left |-> n, ended |-> FALSE]
  <2>1. n \in Nat
    BY FileAssumption
  <2>2. /\ o \in Object /\ o.next = 0 /\ o.kind = "string" /\ o.left + 1 <= o.count
    BY <2>1 DEF Object, Kinds, StringHead, Unit
  <2>3. SizeOf(o) = 4 + 2 * (n + 1)
    BY DEF SizeOf, StringHead, Unit
  <2> HIDE DEF o
  <2>4. SizeOf(o) \in Nat /\ SizeOf(o) > 0
    BY <2>1, <2>3
  <2>5. NewObject(o)
    BY <1>2 DEF NewString, o
  <2> QED BY <2>2, <2>4, <2>5, NewObjectTypes
<1>3. ASSUME NEW j \in 1..Len(live), WriteElement(live[j]) PROVE FileShape'
  <2>1. live[j] \in 1..Count
    BY Element DEF FileShape
  <2> QED BY <1>3, <2>1, WriteElementTypes
<1>4. CASE WriteString
  BY <1>4, WriteStringTypes
<1>5. CASE Destroy
  BY <1>5, DestroyTypes
<1>6. CASE CarryOn
  BY <1>6 DEF CarryOn, FileShape, ObjectShape, Count
<1>7. CASE Close
  <2>1. /\ UNCHANGED <<owned, workaround, position, size, offset, content, objects, live,
                       failed, lost>>
        /\ file' \in {"open", "retry", "closed", "leaked"}
        /\ length' \in {position, length}
    BY <1>7 DEF Close, FileShape
  <2>2. length' \in Nat
    BY <2>1 DEF FileShape
  <2> QED BY <2>1, <2>2 DEF FileShape, ObjectShape, Count
<1>8. CASE Leave
  BY <1>8 DEF Leave, FileShape, ObjectShape, Count
<1>9. CASE UNCHANGED vars
  BY <1>9 DEF vars, FileShape, ObjectShape, Count
<1>10. CASE Over
  BY <1>9, <1>10 DEF Over
<1> QED
  BY <1>1, <1>2, <1>3, <1>4, <1>5, <1>6, <1>7, <1>8, <1>9, <1>10 DEF Next

LEMMA FileShapeSuffices == FileShape => TypeOK
<1> SUFFICES ASSUME FileShape PROVE TypeOK
  OBVIOUS
<1>1. ASSUME NEW i \in 1..Count
      PROVE  /\ objects[i].kind \in Kinds
             /\ objects[i].pos \in Bytes \cup {Invalid}
             /\ objects[i].next \in 0..objects[i].count
             /\ objects[i].left \in Nat
  <2>1. /\ objects[i] \in Object /\ ObjectShape(objects[i])
        /\ objects[i].count \in Nat /\ objects[i].next \in Nat /\ objects[i].left \in Nat
    BY ObjectTypes
  <2>2. objects[i].kind \in Kinds
    BY <2>1 DEF Object
  <2>3. objects[i].next <= objects[i].count
    BY <2>1 DEF ObjectShape
  <2> QED BY <2>1, <2>2, <2>3 DEF ObjectShape
<1> QED BY <1>1 DEF FileShape, TypeOK, Count

\* For all requests and characters, whatever of the file fails: objects, the bytes that
\* they have, and those in scope have their types.
THEOREM FileTypesHold == Spec => []TypeOK
BY FileInitShape, FileStepShape, FileShapeSuffices, PTL DEF Spec

(***************************************************************************)
(* The highest frequency.                                                  *)
(***************************************************************************)

\* The cores are counted as sets are.
LEMMA CoresCardinality == \A S : Cpu!Cardinality(S) = Cardinality(S)
BY DEF Cpu!Cardinality, Cardinality

CoresInv ==
  /\ Cpu!TypeOK
  /\ IsFiniteSet(directories) /\ freq \in [directories -> Frequencies]
  /\ directories \ online \subseteq been_offline
  /\ max_freq # -1 => \E c \in directories : freq[c] = max_freq
  /\ \A c \in directories \ been_offline : c < core => freq[c] <= max_freq
  /\ counting = "returned" => core >= Cardinality(directories)

\* At first no core has been looked at.
LEMMA CoresInitInv == Cpu!Init => CoresInv
<1> SUFFICES ASSUME Cpu!Init PROVE CoresInv
  OBVIOUS
<1>1. directories \subseteq 0..(MaxCores - 1) /\ core = 0 /\ max_freq = -1 /\ counting = "cores"
  BY DEF Cpu!Init, Cpu!Cores
<1>2. IsFiniteSet(directories)
  <2>1. IsFiniteSet(0..(MaxCores - 1))
    BY CoresAssumption, FS_Interval
  <2> QED BY <1>1, <2>1, FS_Subset
<1> QED
  BY <1>1, <1>2, CoresAssumption DEF Cpu!Init, Cpu!Cores, CoresInv, Cpu!TypeOK

\* There are no more directories than cores.
LEMMA CoresAreCounted ==
  ASSUME CoresInv
  PROVE  Cardinality(directories) \in Nat /\ Cardinality(directories) <= MaxCores
<1>1. directories \subseteq 0..(MaxCores - 1)
  BY DEF CoresInv, Cpu!TypeOK, Cpu!Cores
<1>2. IsFiniteSet(0..(MaxCores - 1)) /\ Cardinality(0..(MaxCores - 1)) = MaxCores
  BY CoresAssumption, FS_Interval
<1>3. Cardinality(directories) <= Cardinality(0..(MaxCores - 1))
  BY <1>1, <1>2, FS_Subset
<1>4. Cardinality(directories) \in Nat
  BY FS_CardinalityType DEF CoresInv
<1> QED BY <1>2, <1>3, <1>4

\* Every step keeps what has been found.
LEMMA CoresStepInv == CoresInv /\ [Cpu!Step]_cpuVars => CoresInv'
<1> SUFFICES ASSUME CoresInv, [Cpu!Step]_cpuVars PROVE CoresInv'
  OBVIOUS
<1>1. /\ directories \subseteq 0..(MaxCores - 1) /\ online \subseteq directories
      /\ core \in Nat /\ max_freq \in Frequencies \cup {-1} /\ Frequencies \subseteq Nat
      /\ MaxCores \in Nat
  BY CoresAssumption DEF CoresInv, Cpu!TypeOK, Cpu!Cores
<1>2. CASE Cpu!ReadFrequency
  <2> DEFINE m == IF core \in online THEN Cpu!Greater(freq[core]) ELSE max_freq
  <2>1. /\ max_freq' = m /\ core' = core + 1 /\ counting = "cores"
        /\ UNCHANGED <<directories, freq, online, been_offline, counting>>
        /\ core < Cardinality(directories)
    BY <1>2, CoresCardinality DEF Cpu!ReadFrequency, Cpu!getNumberOfCPUCores
  <2>2. core' \in 0..MaxCores
    BY <1>1, <2>1, CoresAreCounted
  <2>3. ASSUME core \in online
        PROVE  /\ core \in directories /\ freq[core] \in Frequencies /\ freq[core] \in Nat
               /\ m = IF freq[core] > max_freq THEN freq[core] ELSE max_freq
    BY <1>1, <2>3 DEF CoresInv, Cpu!Greater
  <2>4. /\ m \in Frequencies \cup {-1} /\ max_freq <= m
        /\ core \in online => freq[core] <= m
        /\ m = max_freq \/ (core \in directories /\ m = freq[core])
    BY <1>1, <2>3
  <2> HIDE DEF m
  <2>5. m # -1 => \E c \in directories : freq[c] = m
    BY <2>4 DEF CoresInv
  <2>6. ASSUME NEW c, c \in directories \ been_offline, c < core + 1
        PROVE  freq[c] <= m
    <3>1. c \in directories /\ freq[c] \in Nat /\ c \in Nat
      <4>1. c \in directories /\ freq[c] \in Frequencies
        BY <2>6 DEF CoresInv
      <4>2. c \in 0..(MaxCores - 1)
        BY <1>1, <4>1
      <4>3. c \in Nat
        BY <1>1, <4>2
      <4>4. freq[c] \in Nat
        BY <1>1, <4>1
      <4> QED BY <4>1, <4>3, <4>4
    <3>2. c \in online
      BY <2>6, <3>1 DEF CoresInv
    <3>3. CASE c = core
      BY <2>4, <3>1, <3>2, <3>3
    <3>4. CASE c < core
      <4>1. freq[c] <= max_freq
        BY <2>6, <3>4 DEF CoresInv
      <4> QED BY <1>1, <2>4, <3>1, <4>1
    <3> QED BY <1>1, <2>6, <3>1, <3>3, <3>4
  <2> QED BY <2>1, <2>2, <2>4, <2>5, <2>6 DEF CoresInv, Cpu!TypeOK
<1>3. CASE Cpu!Return
  BY <1>3, CoresCardinality DEF Cpu!Return, Cpu!getNumberOfCPUCores, CoresInv, Cpu!TypeOK
<1>4. ASSUME NEW c \in directories, Cpu!Hotplug(c)
      PROVE  CoresInv'
  BY <1>1, <1>4 DEF Cpu!Hotplug, CoresInv, Cpu!TypeOK
<1>5. CASE UNCHANGED cpuVars
  BY <1>5 DEF cpuVars, CoresInv, Cpu!TypeOK
<1> QED BY <1>2, <1>3, <1>4, <1>5 DEF Cpu!Step

\* All cores below the number of cores have been looked at.
LEMMA CoresInvSuffices == CoresInv => Cpu!MaximumIsFound
<1> SUFFICES ASSUME CoresInv PROVE Cpu!MaximumIsFound
  OBVIOUS
<1>1. ASSUME counting = "returned", directories = 0..(Cardinality(directories) - 1),
             NEW c \in directories \ been_offline
      PROVE  freq[c] <= max_freq
  <2>1. c \in 0..(Cardinality(directories) - 1) /\ Cardinality(directories) \in Nat
    BY <1>1, CoresAreCounted
  <2>2. core \in Nat /\ Cardinality(directories) <= core
    BY <1>1, <2>1, CoresAssumption DEF CoresInv, Cpu!TypeOK
  <2>3. c < core
    BY <2>1, <2>2
  <2> QED BY <2>3 DEF CoresInv
<1> QED BY <1>1, CoresCardinality DEF CoresInv, Cpu!MaximumIsFound

\* For every number of cores and all frequencies, what is returned is the frequency of
\* a core, and the highest of those that stayed online.
THEOREM MaximumIsFoundHolds == Cpu!Spec => []Cpu!MaximumIsFound
<1>1. [Cpu!Step \/ (Cpu!Over /\ UNCHANGED Cpu!cpuVars)]_Cpu!cpuVars => [Cpu!Step]_cpuVars
  BY DEF Cpu!cpuVars, cpuVars
<1> QED BY CoresInitInv, CoresStepInv, CoresInvSuffices, <1>1, PTL DEF Cpu!Spec

(***************************************************************************)
(* The stacks that a dump takes.                                           *)
(***************************************************************************)

Copies == [start : Threads!AnyAddress, length : 0..Capture, around : Threads!AnyAddress]
Blocks == {b \in [start : Threads!AnyAddress, length : 1..Capture, around : Threads!AnyAddress] :
             b.start..(b.start + b.length - 1) \subseteq Threads!Mapped}
CopyOK(i, copy) ==
  copy.length > 0 =>
    IF Threads!IsLimited(i)
    THEN copy.length <= MaxExtra
    ELSE \A a \in Threads!Mapped : copy.around <= a /\ a <= copy.around + Capture - StackPage
                                   => Threads!Holds(copy, a)

StacksInv ==
  /\ exceeds \in BOOLEAN
  /\ crash_thread \in 1..NumThreads
  /\ memory_blocks \in Seq(Blocks)
  /\ stacks \in Seq(Copies) /\ Len(stacks) <= NumThreads
  /\ dumping \in {"threads", "done", "failed"}
  /\ \A i \in 1..Len(stacks) : CopyOK(i, stacks[i])

\* A multiple of a number that is lower than another one is lower by it.
LEMMA Multiples ==
  ASSUME NEW n \in Int, NEW k \in Int, NEW m \in Nat, k * m < n * m
  PROVE  k * m + m <= n * m
<1>1. k < n
  <2>1. ASSUME n <= k PROVE FALSE
    <3>1. (k - n) \in Nat
      BY <2>1
    <3>2. (k - n) * m >= 0 /\ (k - n) * m = k * m - n * m
      BY <3>1
    <3> QED BY <3>2
  <2> QED BY <2>1
<1>2. (n - k - 1) \in Nat
  BY <1>1
<1>3. (n - k - 1) * m >= 0 /\ (n - k - 1) * m = n * m - k * m - m
  BY <1>2
<1>4. n * m \in Int /\ k * m \in Int
  OBVIOUS
<1> QED BY <1>3, <1>4

\* Division with a remainder.
LEMMA Divided ==
  ASSUME NEW a \in Nat, NEW b \in Nat, b > 0
  PROVE  /\ a \div b \in Nat /\ (a \div b) * b \in Nat
         /\ (a \div b) * b <= a /\ a < (a \div b) * b + b
<1>1. a \div b \in Nat
  OBVIOUS
<1>2. a = b * (a \div b) + (a % b) /\ a % b \in 0..(b - 1)
  OBVIOUS
<1>3. b * (a \div b) = (a \div b) * b /\ (a \div b) * b \in Nat
  BY <1>1
<1> QED BY <1>1, <1>2, <1>3

LEMMA StackConstants ==
  /\ StackPage \in Nat /\ StackPage > 0 /\ MaxExtra \in Nat /\ MaxExtra > 0
  /\ AroundIP \in Nat /\ AroundIP > 0 /\ Capture \in Nat /\ 2 * AroundIP <= Capture
  /\ FirstPage \in Nat /\ EndPage \in Nat /\ NumThreads \in Nat /\ BaseThreads \in Nat
  /\ FirstPage * StackPage \in Nat /\ EndPage * StackPage \in Nat
  /\ (EndPage + 1) * StackPage = EndPage * StackPage + StackPage
  /\ Threads!AnyAddress = 0..(EndPage * StackPage + StackPage - 1)
  /\ Threads!Mapped = (FirstPage * StackPage)..(EndPage * StackPage - 1)
  /\ Threads!Mapped \subseteq Threads!AnyAddress
  /\ \E c \in Nat : StackPage = c * MaxExtra
<1>1. /\ StackPage \in Nat /\ StackPage > 0 /\ MaxExtra \in Nat /\ MaxExtra > 0
      /\ AroundIP \in Nat /\ AroundIP > 0 /\ Capture \in Nat /\ 2 * AroundIP <= Capture
      /\ FirstPage \in Nat /\ EndPage \in Nat /\ NumThreads \in Nat /\ BaseThreads \in Nat
  BY StacksAssumption
<1>2. /\ FirstPage * StackPage \in Nat /\ EndPage * StackPage \in Nat
      /\ (EndPage + 1) * StackPage = EndPage * StackPage + StackPage
  BY <1>1
<1>3. /\ Threads!AnyAddress = 0..(EndPage * StackPage + StackPage - 1)
      /\ Threads!Mapped = (FirstPage * StackPage)..(EndPage * StackPage - 1)
  <2>1. Threads!AnyAddress = 0..((EndPage + 1) * StackPage - 1)
    BY DEF Threads!AnyAddress
  <2>2. Threads!Mapped = (FirstPage * StackPage)..(EndPage * StackPage - 1)
    BY DEF Threads!Mapped
  <2>3. (EndPage + 1) * StackPage - 1 = EndPage * StackPage + StackPage - 1
    BY <1>1, <1>2
  <2> QED BY Zenon, <2>1, <2>2, <2>3
<1>4. Threads!Mapped \subseteq Threads!AnyAddress
  BY <1>1, <1>2, <1>3
<1>5. \E c \in Nat : StackPage = c * MaxExtra
  <2>1. StackPage = MaxExtra * (StackPage \div MaxExtra) + (StackPage % MaxExtra)
    BY <1>1
  <2>2. StackPage % MaxExtra = 0
    BY StacksAssumption
  <2>3. StackPage \div MaxExtra \in Nat
    BY <1>1
  <2> QED BY <1>1, <2>1, <2>2, <2>3
<1> QED BY <1>1, <1>2, <1>3, <1>4, <1>5

\* What GetStackInfo says is memory of the mapping, from at most a page below the stack
\* pointer, and there are so many pieces from there to the end of the mapping.
LEMMA StackInfoIsMapped ==
  ASSUME NEW sp \in Threads!AnyAddress, Threads!HasStackInfo(sp)
  PROVE  LET info == Threads!StackInfo(sp)
         IN /\ info.start \in Threads!Mapped /\ info.start \in Nat
            /\ info.length \in Nat /\ info.around = sp /\ sp \in Nat
            /\ info = [start |-> info.start, length |-> info.length, around |-> sp]
            /\ info.start <= sp /\ sp < info.start + StackPage
            /\ info.start + info.length <= EndPage * StackPage
            /\ info.length = Capture \/ info.start + info.length = EndPage * StackPage
            /\ info.length <= Capture
            /\ Capture > 0 => info.length > 0
            /\ \E n \in Int : n * MaxExtra = EndPage * StackPage - info.start
<1> DEFINE start == Threads!PageOf(sp)
           len == Threads!Smaller(Capture, EndPage * StackPage - start)
<1>1. /\ sp \in Nat /\ start = (sp \div StackPage) * StackPage
      /\ sp \div StackPage \in Nat
      /\ start \in Nat /\ start <= sp /\ sp < start + StackPage
  BY StackConstants, Divided DEF Threads!PageOf
<1>2. start \in Threads!Mapped /\ start < EndPage * StackPage
  BY <1>1, StackConstants DEF Threads!HasStackInfo
<1> HIDE DEF start
<1>3. /\ len \in Nat /\ len <= Capture /\ start + len <= EndPage * StackPage
      /\ len = Capture \/ start + len = EndPage * StackPage
      /\ Capture > 0 => len > 0
  BY <1>1, <1>2, StackConstants DEF Threads!Smaller
<1>4. \E n \in Int : n * MaxExtra = EndPage * StackPage - start
  <2>1. PICK c \in Nat : StackPage = c * MaxExtra
    BY StackConstants
  <2> DEFINE q == sp \div StackPage
  <2>2. q \in Nat /\ start = q * StackPage
    BY <1>1
  <2> HIDE DEF q
  <2>3. EndPage * StackPage - start = (EndPage - q) * StackPage
    BY <2>2, StackConstants
  <2>4. (EndPage - q) * StackPage = ((EndPage - q) * c) * MaxExtra
    BY <2>1, <2>2, StackConstants
  <2>5. (EndPage - q) * c \in Int
    BY <2>1, <2>2, StackConstants
  <2> QED BY <2>3, <2>4, <2>5
<1>5. Threads!StackInfo(sp) = [start |-> start, length |-> len, around |-> sp]
  BY DEF Threads!StackInfo, start
<1> HIDE DEF len
<1> QED BY <1>1, <1>2, <1>3, <1>4, <1>5

\* The loop that skips chunks ends in the page of the stack pointer, at a chunk that is
\* the first or begins below it.
LEMMA SkippedIs ==
  ASSUME NEW start \in Nat, NEW sp \in Nat, start <= sp, sp < start + StackPage
  PROVE  \E k \in Nat : /\ Threads!Skipped(start, sp) = start + k * MaxExtra
                        /\ k = 0 \/ start + k * MaxExtra < sp
<1> DEFINE S == {start + k * MaxExtra : k \in 0..StackPage}
           P(s) == s + MaxExtra >= sp /\ (s = start \/ s < sp)
<1>1. StackPage \in Nat /\ StackPage > 0 /\ MaxExtra \in Nat /\ MaxExtra > 0
  BY StackConstants
<1>2. \E s \in S : P(s)
  <2>1. CASE sp = start
    <3>1. start = start + 0 * MaxExtra /\ 0 \in 0..StackPage
      BY <1>1
    <3> QED BY <1>1, <2>1, <3>1
  <2>2. CASE sp > start
    <3> DEFINE d == sp - start - 1
               k == d \div MaxExtra
    <3>1. d \in Nat /\ d < StackPage
      BY <1>1, <2>2
    <3>2. d = sp - start - 1
      OBVIOUS
    <3> HIDE DEF d
    <3>3. k \in Nat /\ k * MaxExtra \in Nat /\ k * MaxExtra <= d /\ d < k * MaxExtra + MaxExtra
      BY <1>1, <3>1, Divided
    <3> HIDE DEF k
    <3>4. k <= k * MaxExtra
      <4>1. k * (MaxExtra - 1) >= 0 /\ k * (MaxExtra - 1) = k * MaxExtra - k
        BY <1>1, <3>3
      <4> QED BY <3>3, <4>1
    <3>5. k \in 0..StackPage
      BY <1>1, <3>1, <3>3, <3>4
    <3>6. P(start + k * MaxExtra)
      BY <1>1, <3>1, <3>2, <3>3
    <3> QED BY <3>5, <3>6
  <2> QED BY <2>1, <2>2
<1>3. Threads!Skipped(start, sp) = CHOOSE s \in S : P(s)
  BY DEF Threads!Skipped
<1>4. Threads!Skipped(start, sp) \in S /\ P(Threads!Skipped(start, sp))
  <2> HIDE DEF S, P
  <2> QED BY <1>2, <1>3
<1> HIDE DEF P
<1>5. PICK k \in 0..StackPage : Threads!Skipped(start, sp) = start + k * MaxExtra
  BY <1>4
<1>6. k = 0 \/ start + k * MaxExtra < sp
  <2>1. start + k * MaxExtra = start \/ start + k * MaxExtra < sp
    BY <1>4, <1>5 DEF P
  <2>2. k \in Nat /\ k * MaxExtra \in Nat
    BY <1>1
  <2>3. k * MaxExtra = 0 => k = 0
    BY <1>1, <2>2
  <2> QED BY <2>1, <2>2, <2>3
<1> QED BY <1>1, <1>5, <1>6

\* A copy of a stack is memory of the mapping: all of it that is wanted, or a piece.
LEMMA StackCopyIs ==
  ASSUME NEW i \in Nat, NEW sp \in Threads!AnyAddress, Threads!HasStackInfo(sp)
  PROVE  LET copy == Threads!StackCopy(i, sp)
         IN copy \in Copies /\ (Capture > 0 => copy \in Blocks) /\ CopyOK(i, copy)
<1> DEFINE info == Threads!StackInfo(sp)
           copy == Threads!StackCopy(i, sp)
<1> DEFINE Lo == FirstPage * StackPage
           Hi == EndPage * StackPage
<1>0. /\ Lo \in Nat /\ Hi \in Nat /\ StackPage \in Nat /\ StackPage > 0
      /\ MaxExtra \in Nat /\ MaxExtra > 0 /\ Capture \in Nat
      /\ Threads!Mapped = Lo..(Hi - 1) /\ Threads!AnyAddress = 0..(Hi + StackPage - 1)
  BY StackConstants
<1>1. /\ info.start \in Threads!Mapped /\ info.start \in Nat
      /\ info.length \in Nat /\ info.around = sp /\ sp \in Nat
      /\ info = [start |-> info.start, length |-> info.length, around |-> sp]
      /\ info.start <= sp /\ sp < info.start + StackPage
      /\ info.start + info.length <= Hi
      /\ info.length = Capture \/ info.start + info.length = Hi
      /\ info.length <= Capture
      /\ Capture > 0 => info.length > 0
  BY StackInfoIsMapped
<1>4. \E n \in Int : n * MaxExtra = Hi - info.start
  BY StackInfoIsMapped
<1> HIDE DEF info, Lo, Hi
<1>5. Lo <= info.start /\ info.start < Hi /\ info.start \in Nat
  BY <1>0, <1>1
<1>2. CASE Threads!IsLimited(i) /\ info.length > MaxExtra
  <2> DEFINE s == Threads!Skipped(info.start, sp)
  <2>1. copy = [start |-> s, length |-> MaxExtra, around |-> sp]
    BY <1>1, <1>2 DEF Threads!StackCopy, Threads!ShortStack, info
  <2>2. PICK k \in Nat : s = info.start + k * MaxExtra /\ (k = 0 \/ s < sp)
    BY <1>1, SkippedIs
  <2> HIDE DEF s
  <2>3. s \in Nat /\ info.start <= s
    <3>1. k * MaxExtra \in Nat
      BY <1>0
    <3> QED BY <1>1, <2>2, <3>1
  <2>4. s + MaxExtra <= Hi
    <3>1. CASE k = 0
      BY <1>1, <1>2, <2>2, <3>1, <1>0
    <3>2. CASE s < sp
      <4>1. PICK n \in Int : n * MaxExtra = Hi - info.start
        BY <1>4
      <4>2. sp < Hi
        <5>1. PICK q \in Nat : info.start = q * StackPage
          <6>1. info.start = (sp \div StackPage) * StackPage
            BY DEF info, Threads!StackInfo, Threads!PageOf
          <6>2. sp \div StackPage \in Nat
            BY <1>1, <1>0, Divided
          <6> QED BY <6>1, <6>2
        <5>2. info.start < Hi /\ Hi = EndPage * StackPage
          BY <1>5 DEF Hi
        <5>3. q * StackPage < EndPage * StackPage
          BY <5>1, <5>2
        <5>4. q * StackPage + StackPage <= EndPage * StackPage
          BY <5>3, StackConstants, Multiples
        <5>5. info.start + StackPage <= Hi
          BY <5>1, <5>2, <5>4
        <5>6. sp \in Nat /\ sp < info.start + StackPage /\ info.start \in Nat
          BY <1>1
        <5> QED BY <1>0, <5>5, <5>6
      <4>3. k * MaxExtra < n * MaxExtra
        <5> DEFINE x == k * MaxExtra
                   y == n * MaxExtra
        <5>1. s = info.start + x /\ y = Hi - info.start
          BY <2>2, <4>1
        <5>2. k \in Nat /\ MaxExtra \in Nat
          BY <1>0
        <5>3. x \in Nat
          BY <5>2
        <5> HIDE DEF x, y
        <5>4. info.start \in Nat /\ Hi \in Nat /\ sp \in Nat
          BY <1>0, <1>1
        <5>5. x < y
          BY <3>2, <4>2, <5>1, <5>3, <5>4
        <5> QED BY <5>5 DEF x, y
      <4>4. k * MaxExtra + MaxExtra <= n * MaxExtra
        BY <4>3, <1>0, Multiples
      <4> DEFINE x == k * MaxExtra
                 y == n * MaxExtra
      <4>5. x \in Nat /\ y = Hi - info.start /\ x + MaxExtra <= y /\ s = info.start + x
        BY <1>0, <2>2, <4>1, <4>4
      <4> HIDE DEF x, y
      <4>6. info.start \in Nat /\ Hi \in Nat /\ MaxExtra \in Nat
        BY <1>0, <1>1
      <4> QED BY <4>5, <4>6
    <3> QED BY <2>2, <3>1, <3>2
  <2>5. MaxExtra \in 1..Capture
    BY <1>1, <1>2, <1>0
  <2>6. s \in Threads!AnyAddress
    BY <2>3, <2>4, <1>0
  <2>7. copy \in [start : Threads!AnyAddress, length : 1..Capture, around : Threads!AnyAddress]
        /\ copy \in Copies
    BY <2>1, <2>5, <2>6 DEF Copies
  <2>8. s..(s + MaxExtra - 1) \subseteq Threads!Mapped
    <3> SUFFICES ASSUME NEW a \in s..(s + MaxExtra - 1) PROVE a \in Lo..(Hi - 1)
      BY <1>0
    <3>1. a \in Int /\ s <= a /\ a < s + MaxExtra
      BY <1>0, <2>3
    <3>2. Lo <= a
        BY <1>0, <1>5, <2>3, <3>1
    <3>3. a < Hi
      BY <1>0, <2>3, <2>4, <3>1
    <3> QED BY <3>1, <3>2, <3>3, <1>0
  <2> HIDE DEF copy
  <2>9. copy.start = s /\ copy.length = MaxExtra /\ copy.around = sp
    BY <2>1
  <2>10. copy \in Blocks
    BY <2>7, <2>8, <2>9 DEF Blocks
  <2>11. CopyOK(i, copy)
    BY <1>0, <1>2, <2>9 DEF CopyOK
  <2> QED BY <2>7, <2>10, <2>11 DEF copy
<1>3. CASE ~(Threads!IsLimited(i) /\ info.length > MaxExtra)
  <2>1. copy = info
    BY <1>3 DEF Threads!StackCopy, info
  <2>2. info.start \in Threads!AnyAddress
    BY <1>1, <1>0
  <2>3. info.length \in 0..Capture /\ (Capture > 0 => info.length \in 1..Capture)
    BY <1>1, <1>0
  <2>4. /\ info \in Copies
        /\ Capture > 0 => info \in [start : Threads!AnyAddress, length : 1..Capture,
                                    around : Threads!AnyAddress]
    BY <1>1, <2>2, <2>3 DEF Copies
  <2>5. info.start..(info.start + info.length - 1) \subseteq Threads!Mapped
    <3> SUFFICES ASSUME NEW a \in info.start..(info.start + info.length - 1)
                 PROVE  a \in Lo..(Hi - 1)
      BY <1>0
    <3>1. a \in Int /\ info.start <= a /\ a < info.start + info.length
      BY <1>1
    <3>2. Lo <= a /\ a < Hi
      BY <1>0, <1>1, <1>5, <3>1
    <3> QED BY <1>0, <3>1, <3>2
  <2>6. ASSUME NEW a \in Threads!Mapped, sp <= a, a <= sp + Capture - StackPage
        PROVE  Threads!Holds(info, a)
    <3>1. a \in Nat /\ a < Hi
      BY <1>0
    <3>2. a < info.start + Capture
      BY <1>1, <2>6, <3>1, <1>0
    <3>3. info.start <= a
      <4>1. info.start \in Nat /\ sp \in Nat /\ info.start <= sp
        BY <1>1
      <4> QED BY <2>6, <3>1, <4>1
    <3>4. a < info.start + info.length
      BY <1>0, <1>1, <3>1, <3>2
    <3> QED BY <3>3, <3>4 DEF Threads!Holds
  <2> HIDE DEF copy
  <2>7. Threads!IsLimited(i) => info.length <= MaxExtra
    BY <1>1, <1>3, <1>0
  <2>8. Capture > 0 => info \in Blocks
    BY <2>4, <2>5 DEF Blocks
  <2>9. CopyOK(i, info)
    BY <1>1, <2>6, <2>7 DEF CopyOK
  <2> QED BY <2>1, <2>4, <2>8, <2>9 DEF copy
<1> QED BY <1>2, <1>3

\* The memory around the instruction that crashed.
LEMMA IPMemoryIs ==
  ASSUME NEW ip \in Threads!Mapped
  PROVE  Threads!IPMemory(ip) \in Blocks
<1> DEFINE Lo == FirstPage * StackPage
           Hi == EndPage * StackPage
           first == Threads!Greater(Lo, ip - AroundIP)
           last == Threads!Smaller(ip + AroundIP, Hi)
<1>0. /\ Lo \in Nat /\ Hi \in Nat /\ StackPage \in Nat /\ StackPage > 0
      /\ Capture \in Nat /\ AroundIP \in Nat /\ AroundIP > 0 /\ 2 * AroundIP <= Capture
      /\ Threads!Mapped = Lo..(Hi - 1) /\ Threads!AnyAddress = 0..(Hi + StackPage - 1)
  BY StackConstants
<1>1. Threads!IPMemory(ip) = [start |-> first, length |-> last - first, around |-> ip]
  BY DEF Threads!IPMemory
<1> HIDE DEF Lo, Hi
<1>2. ip \in Nat /\ Lo <= ip /\ ip < Hi
  BY <1>0
<1>3. /\ first \in Nat /\ Lo <= first /\ first <= ip /\ ip - AroundIP <= first
      /\ last \in Nat /\ ip < last /\ last <= Hi /\ last <= ip + AroundIP
  BY <1>0, <1>2 DEF Threads!Greater, Threads!Smaller
<1> HIDE DEF first, last
<1>4. /\ first \in Threads!AnyAddress /\ ip \in Threads!AnyAddress
      /\ last - first \in 1..Capture
  BY <1>0, <1>2, <1>3
<1>5. first..(first + (last - first) - 1) \subseteq Threads!Mapped
  <2> SUFFICES ASSUME NEW a \in first..(first + (last - first) - 1)
               PROVE  a \in Lo..(Hi - 1)
    BY <1>0
  <2>1. a \in Int /\ first <= a /\ a < last
    BY <1>3
  <2> QED BY <1>0, <1>3, <2>1
<1> QED BY <1>1, <1>4, <1>5 DEF Blocks

LEMMA StacksInitInv == Threads!MemoryInit => StacksInv
<1>1. <<>> \in Seq(Blocks) /\ <<>> \in Seq(Copies) /\ Len(<<>>) = 0
  OBVIOUS
<1> QED
  BY <1>1, StackConstants DEF Threads!MemoryInit, Threads!Init, StacksInv

\* A thread more.
LEMMA ThreadIsWritten ==
  ASSUME StacksInv, NEW sp \in Threads!AnyAddress, NEW ip, NEW skips \in BOOLEAN,
         Threads!WriteThread(sp, ip, skips)
  PROVE  StacksInv'
<1> DEFINE i == Len(stacks) + 1
           stack == IF Threads!HasStackInfo(sp) /\ ~skips
                    THEN <<Threads!StackCopy(i, sp)>> ELSE <<>>
           code == IF i = crash_thread /\ ip \in Threads!Mapped
                   THEN <<Threads!IPMemory(ip)>> ELSE <<>>
           copy == IF stack = <<>> THEN [Threads!Nowhere EXCEPT !.start = sp] ELSE stack[1]
<1>1. /\ dumping = "threads" /\ i <= NumThreads
      /\ memory_blocks' = (memory_blocks \o stack) \o code
      /\ stacks' = Append(stacks, copy)
      /\ UNCHANGED <<exceeds, crash_thread, dumping>>
  BY DEF Threads!WriteThread
<1>2. /\ memory_blocks \in Seq(Blocks) /\ stacks \in Seq(Copies) /\ i \in Nat
      /\ Capture > 0
  BY StackConstants DEF StacksInv
<1>3. stack \in Seq(Blocks) /\ copy \in Copies /\ CopyOK(i, copy)
  <2>1. CASE Threads!HasStackInfo(sp) /\ ~skips
    <3> DEFINE b == Threads!StackCopy(i, sp)
    <3>1. b \in Copies /\ b \in Blocks /\ CopyOK(i, b)
      BY <1>2, <2>1, StackCopyIs
    <3>2. stack = <<b>> /\ copy = b
      BY <2>1
    <3> HIDE DEF b, stack, copy
    <3> QED BY <3>1, <3>2
  <2>2. CASE ~(Threads!HasStackInfo(sp) /\ ~skips)
    <3>1. stack = <<>> /\ copy = [start |-> sp, length |-> 0, around |-> 0]
      BY <2>2 DEF Threads!Nowhere
    <3>2. 0 \in Threads!AnyAddress /\ 0 \in 0..Capture
      BY StackConstants
    <3> HIDE DEF stack, copy
    <3>3. copy \in Copies
      BY <3>1, <3>2 DEF Copies
    <3>4. CopyOK(i, copy)
      BY <3>1 DEF CopyOK
    <3> QED BY <3>1, <3>3, <3>4
  <2> QED BY <2>1, <2>2
<1>4. code \in Seq(Blocks)
  BY IPMemoryIs
<1> HIDE DEF stack, code, copy
<1>5. memory_blocks' \in Seq(Blocks)
  BY <1>1, <1>2, <1>3, <1>4
<1>6. /\ stacks' \in Seq(Copies) /\ Len(stacks') = i /\ stacks'[i] = copy
      /\ \A j \in 1..Len(stacks) : stacks'[j] = stacks[j]
      /\ 1..i = 1..Len(stacks) \cup {i}
  BY <1>1, <1>2, <1>3
<1>7. \A j, c : CopyOK(j, c)' = CopyOK(j, c)
  BY <1>1 DEF CopyOK, Threads!IsLimited, Threads!Holds
<1>8. \A j \in 1..Len(stacks') : CopyOK(j, stacks'[j])
  <2> HIDE DEF i
  <2> QED BY <1>3, <1>6 DEF StacksInv
<1> QED
  BY <1>1, <1>5, <1>6, <1>7, <1>8 DEF StacksInv

\* Every step of the writer keeps what it has taken.
LEMMA StacksStepInv == StacksInv /\ [Threads!Step]_(Threads!stackVars) => StacksInv'
<1> SUFFICES ASSUME StacksInv, [Threads!Step]_(Threads!stackVars) PROVE StacksInv'
  OBVIOUS
<1>1. ASSUME NEW sp \in Threads!StackPointers, NEW ip \in Threads!InstructionPointers,
             NEW skips \in BOOLEAN, Threads!WriteThread(sp, ip, skips)
      PROVE  StacksInv'
  <2>1. sp \in Threads!AnyAddress
    BY DEF Threads!StackPointers
  <2> QED BY <1>1, <2>1, ThreadIsWritten
<1>2. CASE \/ Threads!WriteFails \/ Threads!ThreadsAreWritten \/ UNCHANGED Threads!stackVars
  <2>1. /\ UNCHANGED <<exceeds, crash_thread, memory_blocks, stacks>>
        /\ dumping' \in {"failed", "done", dumping}
    BY <1>2 DEF Threads!WriteFails, Threads!ThreadsAreWritten, Threads!stackVars
  <2>2. \A j, c : CopyOK(j, c)' = CopyOK(j, c)
    BY <2>1 DEF CopyOK, Threads!IsLimited, Threads!Holds
  <2> QED BY <2>1, <2>2 DEF StacksInv
<1> QED BY <1>1, <1>2 DEF Threads!Step

\* What is said of each block and each copy is what was promised of them all.
LEMMA StacksInvSuffices == StacksInv => Threads!TakesWhatIsThere
<1> SUFFICES ASSUME StacksInv PROVE Threads!TakesWhatIsThere
  OBVIOUS
<1>1. /\ memory_blocks \in Seq(Blocks) /\ stacks \in Seq(Copies)
      /\ \A i \in 1..Len(stacks) : CopyOK(i, stacks[i])
  BY DEF StacksInv
<1>2. ASSUME NEW i \in DOMAIN memory_blocks
      PROVE  LET b == memory_blocks[i] IN b.start..(b.start + b.length - 1) \subseteq Threads!Mapped
  <2>1. memory_blocks[i] \in Blocks
    BY <1>1
  <2> QED BY <2>1 DEF Blocks
<1>3. DOMAIN stacks = 1..Len(stacks)
  BY <1>1
<1> QED BY <1>1, <1>2, <1>3 DEF Threads!TakesWhatIsThere, CopyOK

\* For every number and size of the threads, and all limits, what is taken is there.
THEOREM TakesWhatIsThereHolds ==
  Threads!MemoryInit /\ [][Threads!Step]_(Threads!stackVars) => []Threads!TakesWhatIsThere
BY StacksInitInv, StacksStepInv, StacksInvSuffices, PTL

(***************************************************************************)
(* The symbols for the frames of a dump.                                   *)
(***************************************************************************)

\* The sets of the processor are counted as sets are.
LEMMA ProcessorCardinality == \A S : Processor!Cardinality(S) = Cardinality(S)
BY DEF Processor!Cardinality, Cardinality

\* What the supplier and the resolver know: a module has symbols or none.
HasBoth == has = {"supplier", "resolver"}
FetchedInv ==
  /\ has \subseteq {"supplier", "resolver"} /\ fast \in BOOLEAN
  /\ no_symbol_modules \cup loaded \cup corrupt_modules \subseteq CodeFiles
  /\ answered \in [CodeFiles -> 0..1]
  /\ \A f \in CodeFiles : answered[f] = 1 => f \in no_symbol_modules \cup loaded
  /\ \A f \in no_symbol_modules : answered[f] = 1
  /\ no_symbol_modules \cap loaded = {}
  /\ HasBoth \/ loaded = {}
  /\ memory_buffers = IF fast THEN loaded ELSE {}
  /\ IsFiniteSet(memory_buffers)
  /\ allocated = Cardinality(memory_buffers)

\* What a report says of the modules of its frames.
ReportInv ==
  /\ without \cup corrupt \cup seen \subseteq CodeFiles
  /\ HasBoth => without \subseteq no_symbol_modules
  /\ without \cap loaded = {}
  /\ corrupt \subseteq loaded
  /\ interrupted \in BOOLEAN
  /\ ~interrupted => seen \subseteq without \cup loaded
  /\ processing = "ok" => ~interrupted

SymbolsInv == FetchedInv /\ ReportInv

LEMMA SymbolsInitInv == Processor!ProcessorInit => SymbolsInv
<1> SUFFICES ASSUME Processor!ProcessorInit PROVE SymbolsInv
  OBVIOUS
<1>1. /\ has \in SUBSET {"supplier", "resolver"} /\ fast \in BOOLEAN /\ interrupted = FALSE
      /\ without = {} /\ corrupt = {} /\ no_symbol_modules = {} /\ loaded = {}
      /\ corrupt_modules = {} /\ memory_buffers = {} /\ allocated = 0
      /\ processing = "idle" /\ seen = {} /\ answered = [f \in CodeFiles |-> 0]
  BY DEF Processor!ProcessorInit
<1>2. IsFiniteSet({}) /\ Cardinality({}) = 0
  BY FS_EmptySet
<1>3. FetchedInv
  BY <1>1, <1>2 DEF FetchedInv
<1>4. ReportInv
  BY <1>1 DEF ReportInv
<1> QED BY <1>3, <1>4 DEF SymbolsInv

\* However the search for the symbols of a module ends.
Fetched(f) ==
  \/ Processor!KnownMissing(f) \/ Processor!HasModule(f)
  \/ Processor!Found(f) \/ Processor!NotFound(f) \/ Processor!Interrupts(f)

LEMMA FetchedStepInv ==
  ASSUME FetchedInv, UNCHANGED <<has, fast>>, NEW f \in CodeFiles, Fetched(f)
  PROVE  /\ FetchedInv'
         /\ loaded \subseteq loaded' /\ no_symbol_modules \subseteq no_symbol_modules'
         /\ loaded' \subseteq loaded \cup {f}
         /\ f \in loaded' \ loaded => Processor!Found(f) /\ f \notin no_symbol_modules
         /\ Processor!KnownMissing(f) \/ Processor!NotFound(f) =>
              f \notin loaded' /\ (HasBoth => f \in no_symbol_modules')
         /\ Processor!HasModule(f) \/ Processor!Found(f) => f \in loaded'
<1>1. CASE Processor!KnownMissing(f) \/ Processor!HasModule(f) \/ Processor!Interrupts(f)
  <2>1. UNCHANGED <<no_symbol_modules, loaded, corrupt_modules, memory_buffers, allocated, answered>>
    BY <1>1 DEF Processor!KnownMissing, Processor!HasModule, Processor!Interrupts,
                Processor!symbolVars
  <2>2. FetchedInv'
    <3>1. HasBoth' = HasBoth
      BY DEF HasBoth
    <3> QED BY <2>1, <3>1 DEF FetchedInv
  <2>3. Processor!KnownMissing(f) => f \notin loaded' /\ (HasBoth => f \in no_symbol_modules')
    BY <2>1 DEF Processor!KnownMissing, Processor!MustFetch, FetchedInv, HasBoth
  <2>4. Processor!HasModule(f) => f \in loaded'
    BY <2>1 DEF Processor!HasModule
  <2>5. ASSUME Processor!NotFound(f) PROVE FALSE
    BY <2>1, <2>5 DEF Processor!NotFound, Processor!Asks, Processor!MustFetch
  <2>6. ASSUME Processor!Found(f) PROVE FALSE
    BY <2>1, <2>6 DEF Processor!Found, Processor!Asks, Processor!MustFetch,
                      Processor!LoadModuleUsingMemoryBuffer
  <2> QED BY <2>1, <2>2, <2>3, <2>4, <2>5, <2>6
<1>2. CASE Processor!Found(f) \/ Processor!NotFound(f)
  <2>1. /\ f \notin no_symbol_modules /\ f \notin loaded /\ HasBoth
        /\ answered' = [answered EXCEPT ![f] = answered[f] + 1]
    BY <1>2 DEF Processor!Found, Processor!NotFound, Processor!Asks, Processor!MustFetch,
                Processor!Answers, FetchedInv, HasBoth
  <2>2. answered[f] = 0
    BY <2>1 DEF FetchedInv
  <2>3. /\ answered' \in [CodeFiles -> 0..1] /\ answered'[f] = 1
        /\ \A g \in CodeFiles \ {f} : answered'[g] = answered[g]
    BY <2>1, <2>2 DEF FetchedInv
  <2>4. HasBoth'
    BY <2>1 DEF HasBoth
  <2>5. CASE Processor!NotFound(f)
    <3>1. /\ no_symbol_modules' = no_symbol_modules \cup {f}
          /\ UNCHANGED <<loaded, corrupt_modules, memory_buffers, allocated>>
      BY <2>5 DEF Processor!NotFound
    <3>2. FetchedInv'
      BY <2>1, <2>3, <2>4, <3>1 DEF FetchedInv
    <3>3. ~Processor!HasModule(f) /\ ~Processor!Found(f)
      BY <2>1, <3>1 DEF Processor!HasModule, Processor!Found,
                        Processor!LoadModuleUsingMemoryBuffer
    <3> QED BY <2>1, <3>1, <3>2, <3>3
  <2>6. CASE Processor!Found(f)
    <3>1. /\ loaded' = loaded \cup {f} /\ UNCHANGED no_symbol_modules
          /\ corrupt_modules' \in {corrupt_modules, corrupt_modules \cup {f}}
          /\ IF fast
             THEN memory_buffers' = memory_buffers \cup {f} /\ allocated' = allocated + 1
             ELSE memory_buffers' = memory_buffers \ {f} /\ UNCHANGED allocated
      BY <2>6 DEF Processor!Found, Processor!LoadModuleUsingMemoryBuffer, Processor!SymbolData
    <3>2. memory_buffers' = IF fast THEN loaded' ELSE {}
      BY <3>1 DEF FetchedInv
    <3>3. IsFiniteSet(memory_buffers') /\ allocated' = Cardinality(memory_buffers')
      <4>1. CASE fast
        <5>1. f \notin memory_buffers
          BY <2>1, <4>1 DEF FetchedInv
        <5>2. /\ IsFiniteSet(memory_buffers \cup {f})
              /\ Cardinality(memory_buffers \cup {f}) = Cardinality(memory_buffers) + 1
          BY <5>1, FS_AddElement DEF FetchedInv
        <5> QED BY <3>1, <4>1, <5>2 DEF FetchedInv
      <4>2. CASE ~fast
        <5>1. memory_buffers' = memory_buffers /\ allocated' = allocated
          BY <3>1, <4>2 DEF FetchedInv
        <5> QED BY <5>1 DEF FetchedInv
      <4> QED BY <4>1, <4>2
    <3>4. FetchedInv'
      BY <2>1, <2>3, <2>4, <3>1, <3>2, <3>3 DEF FetchedInv
    <3>5. ~Processor!KnownMissing(f) /\ ~Processor!NotFound(f)
      BY <2>1, <3>1 DEF Processor!KnownMissing, Processor!NotFound, Processor!symbolVars
    <3> QED BY <2>1, <2>6, <3>1, <3>4, <3>5
  <2> QED BY <1>2, <2>5, <2>6
<1> QED BY <1>1, <1>2 DEF Fetched

\* A frame more, or a word that may be a return address.
LEMMA FrameStepInv ==
  ASSUME SymbolsInv, NEW f \in CodeFiles,
         Processor!AddFrame(f) \/ Processor!InstructionAddressSeemsValid(f)
  PROVE  SymbolsInv'
<1>1. UNCHANGED <<has, fast>> /\ FetchedInv /\ ReportInv
  BY DEF Processor!AddFrame, Processor!InstructionAddressSeemsValid, SymbolsInv
<1>2. Fetched(f)
  BY DEF Processor!AddFrame, Processor!InstructionAddressSeemsValid, Fetched
<1>3. /\ FetchedInv'
      /\ loaded \subseteq loaded' /\ no_symbol_modules \subseteq no_symbol_modules'
      /\ loaded' \subseteq loaded \cup {f}
      /\ f \in loaded' \ loaded => Processor!Found(f) /\ f \notin no_symbol_modules
      /\ Processor!KnownMissing(f) \/ Processor!NotFound(f) =>
           f \notin loaded' /\ (HasBoth => f \in no_symbol_modules')
      /\ Processor!HasModule(f) \/ Processor!Found(f) => f \in loaded'
  BY <1>1, <1>2, FetchedStepInv
<1>4. HasBoth' = HasBoth
  BY <1>1 DEF HasBoth
<1>5. HasBoth \/ loaded' = {}
  BY <1>3, <1>4 DEF FetchedInv
<1>6. without \cap loaded' = {}
  <2>1. CASE HasBoth
    BY <1>1, <1>3, <2>1 DEF ReportInv
  <2> QED BY <1>5, <2>1
<1>7. CASE Processor!InstructionAddressSeemsValid(f)
  <2>1. UNCHANGED <<without, corrupt, seen, interrupted, processing>>
    BY <1>7 DEF Processor!InstructionAddressSeemsValid, Processor!GoesOn
  <2> QED BY <1>1, <1>3, <1>4, <1>6, <2>1 DEF ReportInv, SymbolsInv
<1>8. CASE Processor!AddFrame(f)
  <2>1. seen' = seen \cup {f} /\ processing = "walk"
    BY <1>8 DEF Processor!AddFrame
  <2>2. CASE /\ Processor!KnownMissing(f) \/ Processor!NotFound(f)
             /\ without' = without \cup {f}
             /\ Processor!GoesOn /\ UNCHANGED corrupt
    <3>1. interrupted' = interrupted /\ processing' = processing
      BY <2>2 DEF Processor!GoesOn
    <3> QED BY <1>1, <1>3, <1>4, <1>6, <2>1, <2>2, <3>1 DEF ReportInv, SymbolsInv
  <2>3. CASE /\ Processor!HasModule(f) \/ Processor!Found(f)
             /\ corrupt' = corrupt \cup ({f} \cap corrupt_modules')
             /\ Processor!GoesOn /\ UNCHANGED without
    <3>1. interrupted' = interrupted /\ processing' = processing
      BY <2>3 DEF Processor!GoesOn
    <3> QED BY <1>1, <1>3, <1>4, <1>6, <2>1, <2>3, <3>1 DEF ReportInv, SymbolsInv
  <2>4. CASE /\ Processor!Interrupts(f)
             /\ interrupted' = TRUE
             /\ Processor!KeepThread /\ UNCHANGED <<without, corrupt>>
    <3>1. processing' = "threads"
      BY <2>4 DEF Processor!KeepThread
    <3> QED BY <1>1, <1>3, <1>4, <1>6, <2>1, <2>4, <3>1 DEF ReportInv, SymbolsInv
  <2> QED BY <1>8, <2>2, <2>3, <2>4 DEF Processor!AddFrame
<1> QED BY <1>7, <1>8

\* Every step keeps what is known and what is reported.
LEMMA SymbolsStepInv ==
  SymbolsInv /\ [Processor!ProcessStep]_(Processor!processorVars) => SymbolsInv'
<1> SUFFICES ASSUME SymbolsInv, [Processor!ProcessStep]_(Processor!processorVars)
             PROVE  SymbolsInv'
  OBVIOUS
<1>1. ASSUME NEW d \in Processor!Dumps, Processor!Process(d) PROVE SymbolsInv'
  <2>1. /\ interrupted' = FALSE /\ without' = {} /\ corrupt' = {} /\ no_symbol_modules' = {}
        /\ processing' = "threads" /\ seen' = {} /\ answered' = [f \in CodeFiles |-> 0]
        /\ UNCHANGED <<has, fast, loaded, corrupt_modules, memory_buffers, allocated>>
    BY <1>1 DEF Processor!Process, Processor!ClearState
  <2>2. HasBoth' = HasBoth
    BY <2>1 DEF HasBoth
  <2>3. FetchedInv'
    BY <2>1, <2>2 DEF SymbolsInv, FetchedInv
  <2>4. ReportInv'
    BY <2>1 DEF ReportInv
  <2> QED BY <2>3, <2>4 DEF SymbolsInv
<1>2. CASE \/ Processor!LookAtThread \/ Processor!EndWalk \/ Processor!Finish
           \/ UNCHANGED Processor!processorVars
  <2>1. /\ UNCHANGED <<has, fast, without, corrupt, no_symbol_modules, loaded, corrupt_modules,
                       memory_buffers, allocated, seen, answered, interrupted>>
        /\ processing' = "ok" => ~interrupted \/ processing = "ok"
    BY <1>2 DEF Processor!LookAtThread, Processor!PassOver, Processor!Duplicate,
         Processor!BeginWalk, Processor!EndWalk, Processor!KeepThread, Processor!Finish,
         Processor!symbolVars, Processor!stateVars, Processor!processorVars
  <2> QED BY <2>1 DEF SymbolsInv, FetchedInv, ReportInv, HasBoth
<1>3. ASSUME NEW f \in CodeFiles,
             Processor!AddFrame(f) \/ Processor!InstructionAddressSeemsValid(f)
      PROVE  SymbolsInv'
  BY <1>3, FrameStepInv
<1> QED BY <1>1, <1>2, <1>3 DEF Processor!ProcessStep

LEMMA SymbolsInvSuffices ==
  SymbolsInv => Processor!SymbolsAreReported /\ Processor!SymbolsAreFetchedOnce
<1> SUFFICES ASSUME SymbolsInv
             PROVE  Processor!SymbolsAreReported /\ Processor!SymbolsAreFetchedOnce
  OBVIOUS
<1>1. Processor!SymbolsAreReported
  BY DEF SymbolsInv, ReportInv, Processor!SymbolsAreReported
<1>2. \A f \in CodeFiles : answered[f] <= 1
  BY DEF SymbolsInv, FetchedInv
<1>3. HasBoth => \A f \in without : answered[f] = 1
  BY DEF SymbolsInv, FetchedInv, ReportInv
<1>4. Processor!SymbolsAreFetchedOnce
  BY <1>2, <1>3, ProcessorCardinality
     DEF SymbolsInv, FetchedInv, HasBoth, Processor!SymbolsAreFetchedOnce
<1> QED BY <1>1, <1>4

(***************************************************************************)
(* The threads of a report.                                                *)
(***************************************************************************)

\* The threads that a report has so far, the one that is walked included.
Reported ==
  IF processing = "walk" THEN Append(threads, Processor!ThreadId) ELSE threads
Looked == IF processing = "walk" THEN thread_index ELSE thread_index - 1

KeptInv ==
  /\ dump.threads \in Seq(ThreadIds) /\ Len(dump.threads) <= MaxThreads
  /\ thread_index \in 1..(Len(dump.threads) + 1)
  /\ threads \in Seq(ThreadIds)
  /\ processing = "walk" =>
       thread_index <= Len(dump.threads) /\ Processor!Keeps(thread_index)
  /\ processing \in {"ok", "interrupted"} => thread_index = Len(dump.threads) + 1
  /\ Len(Reported) = Processor!Place(Looked)
  /\ \A i \in 1..Looked :
       Processor!Keeps(i) => Reported[Processor!Place(i)] = dump.threads[i]
  /\ found_requesting_thread <=> requesting_thread # -1
  /\ {i \in 1..Len(Reported) : Reported[i] = dump.requesting} =
       IF requesting_thread = -1 THEN {} ELSE {requesting_thread + 1}

\* The places of the threads: one that is kept has the next one.
LEMMA ThreadPlaces ==
  ASSUME NEW n \in Nat
  PROVE  /\ Processor!Place(0) = 0
         /\ Processor!Place(n) \in Nat /\ Processor!Place(n) <= n
         /\ Processor!Place(n + 1) =
              IF Processor!Keeps(n + 1) THEN Processor!Place(n) + 1 ELSE Processor!Place(n)
<1> DEFINE K(m) == {j \in 1..m : Processor!Keeps(j)}
<1>1. \A m : Processor!Place(m) = Cardinality(K(m))
  BY ProcessorCardinality DEF Processor!Place
<1>2. K(0) = {}
  OBVIOUS
<1>3. IsFiniteSet(1..n) /\ Cardinality(1..n) = n
  <2>1. 1 \in Int /\ n \in Int
    OBVIOUS
  <2> QED BY <2>1, FS_Interval
<1>4. IsFiniteSet(K(n)) /\ Cardinality(K(n)) <= n
  BY <1>3, FS_Subset
<1>5. n + 1 \notin K(n)
  OBVIOUS
<1>6. K(n + 1) = IF Processor!Keeps(n + 1) THEN K(n) \cup {n + 1} ELSE K(n)
  OBVIOUS
<1> HIDE DEF K
<1>7. Cardinality(K(n)) \in Nat
  BY <1>4, FS_CardinalityType
<1>8. Cardinality(K(n) \cup {n + 1}) = Cardinality(K(n)) + 1
  BY <1>4, <1>5, FS_AddElement
<1>9. Cardinality({}) = 0
  BY FS_EmptySet
<1> QED BY <1>1, <1>2, <1>4, <1>6, <1>7, <1>8, <1>9

\* A thread that is kept has a place, and those after it have no lower one.
LEMMA PlacesGrow ==
  ASSUME NEW n \in Nat, NEW i \in 1..n, Processor!Keeps(i)
  PROVE  Processor!Place(i) \in 1..Processor!Place(n)
<1> DEFINE K(m) == {j \in 1..m : Processor!Keeps(j)}
<1>1. Processor!Place(i) = Cardinality(K(i)) /\ Processor!Place(n) = Cardinality(K(n))
  BY ProcessorCardinality DEF Processor!Place
<1>2. IsFiniteSet(1..n)
  <2>1. 1 \in Int /\ n \in Int
    OBVIOUS
  <2> QED BY <2>1, FS_Interval
<1>3. IsFiniteSet(K(n)) /\ K(i) \subseteq K(n) /\ i \in K(i)
  BY <1>2, FS_Subset
<1> HIDE DEF K
<1>4. IsFiniteSet(K(i)) /\ Cardinality(K(i)) <= Cardinality(K(n))
  BY <1>3, FS_Subset
<1>5. Cardinality(K(i)) \in Nat /\ Cardinality(K(n)) \in Nat
  BY <1>3, <1>4, FS_CardinalityType
<1>6. Cardinality(K(i)) # 0
  BY <1>3, <1>4, FS_EmptySet
<1> QED BY <1>1, <1>4, <1>5, <1>6

\* Before the first thread of a dump.
Fresh ==
  /\ dump.threads \in Seq(ThreadIds) /\ Len(dump.threads) <= MaxThreads
  /\ thread_index = 1 /\ threads = <<>> /\ processing \in {"idle", "threads"}
  /\ found_requesting_thread = FALSE /\ requesting_thread = -1

LEMMA FreshInv == Fresh => KeptInv
<1> SUFFICES ASSUME Fresh PROVE KeptInv
  OBVIOUS
<1>1. Reported = <<>> /\ Looked = 0
  BY DEF Fresh, Reported, Looked
<1>2. Processor!Place(0) = 0
  BY ThreadPlaces
<1>3. Len(<<>>) = 0 /\ <<>> \in Seq(ThreadIds)
  OBVIOUS
<1>4. thread_index \in 1..(Len(dump.threads) + 1)
  BY DEF Fresh
<1>5. {i \in 1..Len(Reported) : Reported[i] = dump.requesting} = {}
  BY <1>1, <1>3
<1>6. \A i \in 1..Looked : FALSE
  BY <1>1
<1>7. found_requesting_thread <=> requesting_thread # -1
  BY DEF Fresh
<1>8. Len(Reported) = Processor!Place(Looked)
  BY <1>1, <1>2, <1>3
<1> QED BY <1>3, <1>4, <1>5, <1>6, <1>7, <1>8 DEF Fresh, KeptInv

LEMMA KeptInitInv == Processor!ProcessorInit => KeptInv
<1>1. Processor!ProcessorInit => Fresh
  BY ProcessorAssumption DEF Processor!ProcessorInit, Processor!Blank, Fresh
<1> QED BY <1>1, FreshInv

\* What is kept of a dump depends on the dump alone.
LEMMA SameKept ==
  ASSUME UNCHANGED dump
  PROVE  \A i : Processor!Keeps(i)' = Processor!Keeps(i) /\ Processor!Place(i)' = Processor!Place(i)
BY DEF Processor!Keeps, Processor!Place

\* A thread that is kept is walked, and is the requesting one if it has its id.
LEMMA BeginWalkInv ==
  ASSUME KeptInv, Processor!LookAtThread, Processor!BeginWalk
  PROVE  KeptInv'
<1> DEFINE id == dump.threads[thread_index]
<1>1. /\ processing = "threads" /\ processing' = "walk" /\ thread_index <= Len(dump.threads)
      /\ UNCHANGED <<dump, threads, thread_index>>
      /\ found_requesting_thread' = (found_requesting_thread \/ Processor!IsRequesting)
      /\ requesting_thread' = IF Processor!IsRequesting THEN Len(threads) ELSE requesting_thread
      /\ ~Processor!IsDumpThread /\ ~(Processor!IsRequesting /\ found_requesting_thread)
  BY DEF Processor!LookAtThread, Processor!BeginWalk
<1>2. /\ dump.threads \in Seq(ThreadIds) /\ thread_index \in Nat /\ thread_index > 0
      /\ threads \in Seq(ThreadIds) /\ id \in ThreadIds /\ id # 0
      /\ thread_index - 1 \in Nat /\ Len(threads) \in Nat
  BY <1>1, ProcessorAssumption, Element DEF KeptInv
<1>3. /\ Processor!ThreadId = id /\ Processor!Keeps(thread_index)
      /\ Processor!IsRequesting <=> id = dump.requesting
  BY <1>1, <1>2 DEF Processor!ThreadId, Processor!IsDumpThread, Processor!IsRequesting,
                    Processor!Keeps, Processor!NoId
<1>4. Reported = threads /\ Looked = thread_index - 1
  BY <1>1 DEF Reported, Looked
<1>5. Reported' = Append(threads, id) /\ Looked' = thread_index
  BY <1>1 DEF Reported, Looked, Processor!ThreadId
<1>6. Processor!Place(thread_index) = Processor!Place(Looked) + 1
  BY <1>2, <1>3, <1>4, ThreadPlaces
<1> HIDE DEF id
<1>7. /\ Len(Reported') = Len(threads) + 1 /\ Reported'[Len(threads) + 1] = id
      /\ \A i \in 1..Len(threads) : Reported'[i] = threads[i]
  BY <1>2, <1>5
<1>8. Len(Reported') = Processor!Place(thread_index)
  BY <1>4, <1>6, <1>7 DEF KeptInv
<1>9. ASSUME NEW i \in 1..thread_index, Processor!Keeps(i)
      PROVE  Reported'[Processor!Place(i)] = dump.threads[i]
  <2>1. CASE i = thread_index
    BY <1>7, <1>8, <2>1 DEF id
  <2>2. CASE i \in 1..Looked
    <3>1. threads[Processor!Place(i)] = dump.threads[i]
      BY <1>4, <1>9, <2>2 DEF KeptInv
    <3>2. Processor!Place(i) \in 1..Len(threads)
      BY <1>2, <1>4, <1>9, <2>2, PlacesGrow DEF KeptInv
    <3> QED BY <1>7, <3>1, <3>2
  <2> QED BY <1>2, <1>4, <2>1, <2>2
<1>10. {i \in 1..Len(Reported') : Reported'[i] = dump.requesting} =
         IF requesting_thread' = -1 THEN {} ELSE {requesting_thread' + 1}
  <2>1. {i \in 1..Len(threads) : threads[i] = dump.requesting} =
          IF requesting_thread = -1 THEN {} ELSE {requesting_thread + 1}
    BY <1>4 DEF KeptInv
  <2>2. 1..Len(Reported') = 1..Len(threads) \cup {Len(threads) + 1}
    BY <1>2, <1>7
  <2>3. CASE Processor!IsRequesting
    <3>1. ~found_requesting_thread
      BY <1>1, <2>3
    <3>2. requesting_thread = -1
      BY <3>1 DEF KeptInv
    <3>3. requesting_thread' = Len(threads) /\ Len(threads) # -1
      BY <1>1, <1>2, <2>3
    <3> QED BY <1>3, <1>7, <2>1, <2>2, <2>3, <3>2, <3>3
  <2>4. CASE ~Processor!IsRequesting
    BY <1>1, <1>3, <1>7, <2>1, <2>2, <2>4
  <2> QED BY <2>3, <2>4
<1>11. found_requesting_thread' <=> requesting_thread' # -1
  <2>1. CASE Processor!IsRequesting
    <3>1. requesting_thread' = Len(threads) /\ Len(threads) # -1
      BY <1>1, <1>2, <2>1
    <3>2. found_requesting_thread'
      BY <1>1, <2>1
    <3> QED BY <3>1, <3>2
  <2>2. CASE ~Processor!IsRequesting
    <3>1. requesting_thread' = requesting_thread
      BY <1>1, <2>2
    <3>2. found_requesting_thread' <=> found_requesting_thread
      BY <1>1, <2>2
    <3>3. found_requesting_thread <=> requesting_thread # -1
      BY DEF KeptInv
    <3> QED BY <3>1, <3>2, <3>3
  <2> QED BY <2>1, <2>2
<1> QED
  BY <1>1, <1>2, <1>3, <1>5, <1>8, <1>9, <1>10, <1>11, SameKept DEF KeptInv

\* Anything that looks at no other thread.
LEMMA KeptAgain ==
  ASSUME KeptInv, UNCHANGED <<dump, found_requesting_thread, requesting_thread>>,
         threads' \in Seq(ThreadIds), thread_index' \in 1..(Len(dump.threads) + 1),
         Reported' = Reported, Looked' = Looked,
         processing' = "walk" =>
           thread_index' <= Len(dump.threads) /\ Processor!Keeps(thread_index'),
         processing' \in {"ok", "interrupted"} => thread_index' = Len(dump.threads) + 1
  PROVE  KeptInv'
BY SameKept DEF KeptInv

\* The thread that took the dump has no place.
LEMMA PassOverInv ==
  ASSUME KeptInv, Processor!LookAtThread, Processor!PassOver
  PROVE  KeptInv'
<1>1. /\ processing = "threads" /\ processing' = "threads"
      /\ thread_index <= Len(dump.threads) /\ thread_index' = thread_index + 1
      /\ UNCHANGED <<dump, threads, found_requesting_thread, requesting_thread>>
      /\ Processor!IsDumpThread
  BY DEF Processor!LookAtThread, Processor!PassOver
<1>2. thread_index \in Nat /\ thread_index > 0 /\ Len(dump.threads) \in Nat
  BY <1>1 DEF KeptInv
<1>3. ~Processor!Keeps(thread_index)
  BY <1>1 DEF Processor!IsDumpThread, Processor!ThreadId, Processor!Keeps
<1>4. Reported' = Reported /\ Looked = thread_index - 1 /\ Looked' = thread_index
  BY <1>1, <1>2 DEF Reported, Looked
<1>5. Processor!Place(Looked') = Processor!Place(Looked)
  BY <1>2, <1>3, <1>4, ThreadPlaces
<1>6. 1..Looked' = 1..Looked \cup {thread_index}
  BY <1>2, <1>4
<1>7. \A i \in 1..Looked' :
        Processor!Keeps(i) => Reported[Processor!Place(i)] = dump.threads[i]
  BY <1>3, <1>6 DEF KeptInv
<1>8. thread_index' \in 1..(Len(dump.threads) + 1)
  BY <1>1, <1>2
<1> QED BY <1>1, <1>4, <1>5, <1>7, <1>8, SameKept DEF KeptInv

\* A thread whose walk is over is kept.
LEMMA KeepThreadInv ==
  ASSUME KeptInv, processing = "walk", Processor!KeepThread,
         UNCHANGED <<dump, found_requesting_thread, requesting_thread>>
  PROVE  KeptInv'
<1>1. /\ threads' = Append(threads, Processor!ThreadId)
      /\ thread_index' = thread_index + 1 /\ processing' = "threads"
  BY DEF Processor!KeepThread
<1>2. /\ thread_index \in Nat /\ thread_index > 0 /\ thread_index <= Len(dump.threads)
      /\ dump.threads \in Seq(ThreadIds) /\ threads \in Seq(ThreadIds)
  BY DEF KeptInv
<1>3. Processor!ThreadId \in ThreadIds
  BY <1>2, Element DEF Processor!ThreadId
<1>4. threads' \in Seq(ThreadIds)
  BY <1>1, <1>2, <1>3
<1>5. thread_index' \in 1..(Len(dump.threads) + 1)
  BY <1>1, <1>2
<1>6. Reported' = Reported /\ Looked' = Looked
  BY <1>1, <1>2 DEF Reported, Looked
<1> QED BY <1>1, <1>4, <1>5, <1>6, KeptAgain

LEMMA GoesOnInv ==
  ASSUME KeptInv, Processor!GoesOn,
         UNCHANGED <<dump, found_requesting_thread, requesting_thread>>
  PROVE  KeptInv'
<1>1. UNCHANGED <<thread_index, threads, processing>>
  BY DEF Processor!GoesOn
<1>2. Reported' = Reported /\ Looked' = Looked
  BY <1>1 DEF Reported, Looked, Processor!ThreadId
<1> QED BY <1>1, <1>2, KeptAgain DEF KeptInv

\* The threads of a dump are a sequence.
LEMMA DumpThreads ==
  ASSUME NEW d \in Processor!Dumps
  PROVE  d.threads \in Seq(ThreadIds) /\ Len(d.threads) <= MaxThreads
<1>1. PICK n \in 0..MaxThreads : d.threads \in [1..n -> ThreadIds]
  BY DEF Processor!Dumps
<1>2. n \in Nat /\ n <= MaxThreads
  BY ProcessorAssumption
<1>3. d.threads \in Seq(ThreadIds)
  BY <1>1, <1>2
<1>4. Len(d.threads) = n
  BY <1>1, <1>2, <1>3
<1> QED BY <1>2, <1>3, <1>4

LEMMA KeptStepInv ==
  KeptInv /\ [Processor!ProcessStep]_(Processor!processorVars) => KeptInv'
<1> SUFFICES ASSUME KeptInv, [Processor!ProcessStep]_(Processor!processorVars)
             PROVE  KeptInv'
  OBVIOUS
<1>1. ASSUME NEW d \in Processor!Dumps, Processor!Process(d) PROVE KeptInv'
  <2>1. Fresh'
    BY <1>1, DumpThreads DEF Processor!Process, Processor!ClearState, Fresh
  <2>2. (Fresh => KeptInv)'
    BY FreshInv, PTL
  <2> QED BY <2>1, <2>2
<1>2. CASE Processor!LookAtThread
  <2>1. CASE Processor!Duplicate
    <3>1. /\ processing = "threads" /\ processing' = "duplicate"
          /\ UNCHANGED <<dump, threads, thread_index, found_requesting_thread,
                         requesting_thread>>
      BY <1>2, <2>1 DEF Processor!LookAtThread, Processor!Duplicate
    <3>2. Reported' = Reported /\ Looked' = Looked
      BY <3>1 DEF Reported, Looked
    <3> QED BY <3>1, <3>2, KeptAgain DEF KeptInv
  <2> QED BY <1>2, <2>1, PassOverInv, BeginWalkInv DEF Processor!LookAtThread
<1>3. CASE Processor!EndWalk
  BY <1>3, KeepThreadInv DEF Processor!EndWalk
<1>4. CASE Processor!Finish
  <2>1. /\ processing = "threads" /\ processing' \in {"ok", "interrupted"}
        /\ thread_index > Len(dump.threads)
        /\ UNCHANGED <<dump, threads, thread_index, found_requesting_thread>>
    BY <1>4 DEF Processor!Finish
  <2>2. requesting_thread' = requesting_thread
    BY <1>4 DEF Processor!Finish, KeptInv
  <2>3. thread_index = Len(dump.threads) + 1
    BY <2>1 DEF KeptInv
  <2>4. Reported' = Reported /\ Looked' = Looked
    BY <2>1 DEF Reported, Looked
  <2> QED BY <2>1, <2>2, <2>3, <2>4, KeptAgain DEF KeptInv
<1>5. ASSUME NEW f \in CodeFiles, Processor!AddFrame(f) PROVE KeptInv'
  <2>1. /\ processing = "walk"
        /\ UNCHANGED <<dump, found_requesting_thread, requesting_thread>>
        /\ Processor!GoesOn \/ Processor!KeepThread
    BY <1>5 DEF Processor!AddFrame
  <2> QED BY <2>1, KeepThreadInv, GoesOnInv
<1>6. ASSUME NEW f \in CodeFiles, Processor!InstructionAddressSeemsValid(f) PROVE KeptInv'
  BY <1>6, GoesOnInv DEF Processor!InstructionAddressSeemsValid
<1>7. CASE UNCHANGED Processor!processorVars
  <2>1. UNCHANGED <<dump, found_requesting_thread, requesting_thread>> /\ Processor!GoesOn
    BY <1>7 DEF Processor!processorVars, Processor!stateVars, Processor!GoesOn
  <2> QED BY <2>1, GoesOnInv
<1> QED BY <1>1, <1>2, <1>3, <1>4, <1>5, <1>6, <1>7 DEF Processor!ProcessStep

LEMMA KeptInvSuffices == KeptInv => Processor!ThreadsAreKept
<1> SUFFICES ASSUME KeptInv, processing \in {"ok", "interrupted"}
             PROVE  /\ Len(threads) = Processor!Place(Len(dump.threads))
                    /\ \A i \in DOMAIN dump.threads : Processor!Keeps(i) =>
                          threads[Processor!Place(i)] = dump.threads[i]
                    /\ {i \in DOMAIN threads : threads[i] = dump.requesting} =
                         IF requesting_thread = -1 THEN {} ELSE {requesting_thread + 1}
  BY DEF Processor!ThreadsAreKept
<1>1. Len(dump.threads) \in Nat /\ thread_index = Len(dump.threads) + 1
  BY DEF KeptInv
<1>2. Reported = threads /\ Looked = Len(dump.threads)
  BY <1>1 DEF Reported, Looked
<1>3. DOMAIN threads = 1..Len(threads) /\ DOMAIN dump.threads = 1..Len(dump.threads)
  BY DEF KeptInv
<1> QED BY <1>2, <1>3 DEF KeptInv

(***************************************************************************)
(* The reports of a processor.                                             *)
(***************************************************************************)

\* For all dumps, and whatever a supplier answers and where it interrupts, a report
\* has each thread of the dump in its place, with the requesting one where it says.
THEOREM ThreadsAreKeptHolds ==
  Processor!ProcessorInit /\ [][Processor!ProcessStep]_(Processor!processorVars)
    => []Processor!ThreadsAreKept
BY KeptInitInv, KeptStepInv, KeptInvSuffices, PTL

\* For all code files and every order of the frames, each module has its symbols or is
\* reported without, and is asked for once.
THEOREM SymbolsAreRightHolds ==
  Processor!ProcessorInit /\ [][Processor!ProcessStep]_(Processor!processorVars)
    => [](Processor!SymbolsAreReported /\ Processor!SymbolsAreFetchedOnce)
BY SymbolsInitInv, SymbolsStepInv, SymbolsInvSuffices, PTL

\* The rest of what the processor keeps: the dump it reads and where it is.
ProcessorTypes ==
  /\ dump \in Processor!Dumps /\ dumps \in 0..MaxDumps
  /\ found_requesting_thread \in BOOLEAN
  /\ requesting_thread \in Int
  /\ processing \in {"idle", "threads", "walk"} \cup Processor!Results

LEMMA ProcessorInitTypes == Processor!ProcessorInit => ProcessorTypes
<1> SUFFICES ASSUME Processor!ProcessorInit PROVE ProcessorTypes
  OBVIOUS
<1>1. dump = Processor!Blank /\ dumps = 0 /\ found_requesting_thread = FALSE
      /\ requesting_thread = -1 /\ processing = "idle"
  BY DEF Processor!ProcessorInit
<1>2. 0 \in 0..MaxThreads /\ 0 \in 0..MaxDumps
  BY ProcessorAssumption
<1>3. <<>> \in [1..0 -> ThreadIds]
  OBVIOUS
<1>4. <<>> \in UNION {[1..n -> ThreadIds] : n \in 0..MaxThreads}
  BY <1>2, <1>3
<1>5. Processor!Blank \in Processor!Dumps
  BY <1>4 DEF Processor!Blank, Processor!Dumps, Processor!Ids, Processor!NoId
<1>6. dump \in Processor!Dumps /\ dumps \in 0..MaxDumps
  BY <1>1, <1>2, <1>5
<1>7. requesting_thread \in Int
  BY <1>1
<1>8. found_requesting_thread \in BOOLEAN
  BY <1>1
<1>9. processing \in {"idle", "threads", "walk"} \cup Processor!Results
  BY <1>1
<1> QED BY <1>6, <1>7, <1>8, <1>9 DEF ProcessorTypes

LEMMA ProcessorStepTypes ==
  KeptInv /\ ProcessorTypes /\ [Processor!ProcessStep]_(Processor!processorVars)
    => ProcessorTypes'
<1> SUFFICES ASSUME KeptInv, ProcessorTypes,
                    [Processor!ProcessStep]_(Processor!processorVars)
             PROVE  ProcessorTypes'
  OBVIOUS
<1> USE DEF ProcessorTypes, Processor!Results
<1>1. ASSUME NEW d \in Processor!Dumps, Processor!Process(d) PROVE ProcessorTypes'
  <2>1. /\ dumps < MaxDumps /\ dumps' = dumps + 1 /\ dump' = d
        /\ found_requesting_thread' = FALSE /\ processing' = "threads"
        /\ requesting_thread' = -1
    BY <1>1 DEF Processor!Process, Processor!ClearState
  <2>2. dumps' \in 0..MaxDumps
    BY <2>1, ProcessorAssumption
  <2>3. requesting_thread' \in Int
    BY <2>1
  <2> QED BY <2>1, <2>2, <2>3
<1>2. CASE Processor!LookAtThread
  <2>1. UNCHANGED <<dump, dumps>>
    BY <1>2 DEF Processor!LookAtThread
  <2>2. CASE Processor!PassOver \/ Processor!Duplicate
    BY <2>1, <2>2 DEF Processor!PassOver, Processor!Duplicate
  <2>3. CASE Processor!BeginWalk
    <3>1. Len(threads) \in Int
      BY DEF KeptInv
    <3>2. requesting_thread' \in Int /\ processing' = "walk"
      BY <2>3, <3>1 DEF Processor!BeginWalk
    <3>3. found_requesting_thread' \in BOOLEAN
      BY <2>3 DEF Processor!BeginWalk, Processor!IsRequesting
    <3> QED BY <2>1, <3>2, <3>3
  <2> QED BY <1>2, <2>2, <2>3 DEF Processor!LookAtThread
<1>3. CASE Processor!EndWalk
  BY <1>3 DEF Processor!EndWalk, Processor!KeepThread
<1>4. CASE Processor!Finish
  BY <1>4 DEF Processor!Finish
<1>5. ASSUME NEW f \in CodeFiles,
             Processor!AddFrame(f) \/ Processor!InstructionAddressSeemsValid(f)
      PROVE  ProcessorTypes'
  <2>1. /\ UNCHANGED <<dump, dumps, found_requesting_thread, requesting_thread>>
        /\ processing' = processing \/ processing' = "threads"
    BY <1>5 DEF Processor!AddFrame, Processor!InstructionAddressSeemsValid,
                Processor!GoesOn, Processor!KeepThread
  <2> QED BY <2>1
<1>6. CASE UNCHANGED Processor!processorVars
  BY <1>6 DEF Processor!processorVars, Processor!stateVars
<1> QED BY <1>1, <1>2, <1>3, <1>4, <1>5, <1>6 DEF Processor!ProcessStep

LEMMA ProcessorTypesSuffice ==
  SymbolsInv /\ KeptInv /\ ProcessorTypes => Processor!ProcessorTypeOK
<1> SUFFICES ASSUME SymbolsInv, KeptInv, ProcessorTypes PROVE Processor!ProcessorTypeOK
  OBVIOUS
<1>1. /\ MaxThreads \in Nat
      /\ thread_index \in Nat /\ 1 <= thread_index /\ thread_index <= Len(dump.threads) + 1
      /\ Len(dump.threads) \in Nat /\ Len(dump.threads) <= MaxThreads
      /\ processing = "walk" => thread_index <= Len(dump.threads)
  BY ProcessorAssumption DEF KeptInv
<1>2. thread_index \in 1..MaxThreads + 1
  BY <1>1
<1>3. Looked \in Nat /\ Looked <= MaxThreads
  BY <1>1 DEF Looked
<1>4. Len(Reported) <= MaxThreads
  <2>1. Processor!Place(Looked) <= Looked /\ Processor!Place(Looked) \in Nat
    BY <1>3, ThreadPlaces
  <2> QED BY <1>1, <1>3, <2>1 DEF KeptInv
<1>5. threads \in Seq(ThreadIds) /\ Len(threads) \in Nat
  BY DEF KeptInv
<1>6. Len(threads) <= Len(Reported) /\ Len(Reported) \in Nat
  <2>1. Len(Append(threads, Processor!ThreadId)) = Len(threads) + 1
    BY <1>5
  <2> QED BY <1>5, <2>1 DEF Reported
<1>7. Len(threads) \in 0..MaxThreads
  BY <1>1, <1>4, <1>5, <1>6
<1>8. threads \in [1..Len(threads) -> ThreadIds]
  BY <1>5
<1>9. threads \in UNION {[1..n -> ThreadIds] : n \in 0..MaxThreads}
  BY <1>7, <1>8
<1>10. requesting_thread \in -1..MaxThreads - 1
  <2>1. CASE requesting_thread = -1
    BY <1>1, <2>1
  <2>2. CASE requesting_thread # -1
    <3>1. requesting_thread + 1 \in 1..Len(Reported)
      BY <2>2 DEF KeptInv
    <3>2. requesting_thread \in Int
      BY DEF ProcessorTypes
    <3> QED BY <1>1, <1>4, <1>6, <3>1, <3>2
  <2> QED BY <2>1, <2>2
<1>11. allocated \in Nat
  BY FS_CardinalityType DEF SymbolsInv, FetchedInv
<1>12. answered \in [CodeFiles -> Nat]
  BY DEF SymbolsInv, FetchedInv
<1>13. /\ without \cup corrupt \cup seen \cup no_symbol_modules \subseteq CodeFiles
       /\ loaded \cup corrupt_modules \cup memory_buffers \subseteq CodeFiles
       /\ has \subseteq {"supplier", "resolver"} /\ fast \in BOOLEAN /\ interrupted \in BOOLEAN
  BY DEF SymbolsInv, FetchedInv, ReportInv
<1> QED
  BY <1>2, <1>9, <1>10, <1>11, <1>12, <1>13 DEF ProcessorTypes, Processor!ProcessorTypeOK

(***************************************************************************)
(* The walk over a stack.                                                  *)
(***************************************************************************)

LEMMA WalkCardinality == \A S : Walk!Cardinality(S) = Cardinality(S)
BY DEF Walk!Cardinality, Cardinality

LEMMA WalkConstants ==
  /\ MaxStack \in Nat /\ StackStart \in Nat /\ StackEnd \in Nat /\ StackStart <= StackEnd
  /\ kRASearchWords \in Nat /\ max_frames \in Nat /\ max_frames_scanned \in Nat
  /\ MaxInlined \in Nat
BY WalkAssumption

Pointers == 0..(StackEnd + 1) \cup 0..MaxStack
WalkFrames ==
  [trust : {"context", "cfi", "fp", "scan", "inline"}, pc : Walk!Words, sp : Pointers,
   lr : Walk!Words, fp : Walk!Words, valid : SUBSET {"lr", "fp"}]

RealCount == Cardinality(Walk!Real)

\* What is so of a frame that is to be the next one.
IsNext(f) ==
  IF frames = <<>>
  THEN f.trust = "context"
  ELSE /\ f.trust \in {"cfi", "fp", "scan"}
       /\ Walk!Last.sp <= f.sp
       /\ f.sp = Walk!Last.sp => RealCount = 1
       /\ f.trust = "scan" =>
            f.sp \in (StackStart + 1)..StackEnd /\ scanned < max_frames_scanned
       /\ f.trust = "fp" =>
            \/ f.sp \in (StackStart + 2)..StackEnd
            \/ RealCount = 1 /\ Walk!Last.fp = 0
       /\ os = "ios" => f.trust # "cfi"

WalkTypeInv ==
  /\ os \in {"ios", "android"}
  /\ memory \in [Walk!Stack -> Walk!Words] \cup {<<>>}
  /\ frame \in WalkFrames
  /\ frames \in Seq(WalkFrames)
  /\ scanned \in 0..max_frames_scanned
  /\ walking \in {"frame", "caller", "ended", "interrupted"}

RealInv ==
  /\ IsFiniteSet(Walk!Real)
  /\ frames # <<>> => Len(frames) \in Walk!Real
  /\ \A i \in Walk!Real : Walk!Number(i) = 1 <=> frames[i].trust = "context"
  /\ \A i \in Walk!Real : Walk!Number(i) = RealCount => i = Len(frames)

UpInv ==
  /\ \A i, j \in Walk!Real : i < j =>
       /\ frames[i].sp <= frames[j].sp
       /\ frames[i].sp = frames[j].sp => Walk!Number(i) = 1 /\ Walk!Number(j) = 2
  /\ \A i \in Walk!Real :
       /\ frames[i].trust = "scan" => frames[i].sp \in (StackStart + 1)..StackEnd
       /\ frames[i].trust = "fp" =>
            \/ frames[i].sp \in (StackStart + 2)..StackEnd
            \/ Walk!Number(i) = 2 /\ \E j \in Walk!Real : Walk!Number(j) = 1 /\ frames[j].fp = 0
  /\ os = "ios" =>
       \/ RealCount <= 2
       \/ /\ Walk!Last.sp \in (StackStart + 1)..StackEnd
          /\ RealCount <= Walk!Last.sp - StackStart + 2

LimitsInv ==
  /\ walking \in {"frame", "caller"} => Len(frames) <= max_frames
  /\ Len(frames) <= max_frames + 1 + MaxInlined
  /\ IsFiniteSet(Walk!Guessed) /\ scanned = Cardinality(Walk!Guessed)
  /\ walking = "frame" => IsNext(frame)
  /\ walking = "caller" => frames # <<>>

WalkInv == WalkTypeInv /\ RealInv /\ UpInv /\ LimitsInv

LEMMA WalkInitInv == Walk!Init => WalkInv
<1> SUFFICES ASSUME Walk!Init PROVE WalkInv
  OBVIOUS
<1>1. /\ os \in {"ios", "android"}
      /\ memory \in [Walk!Stack -> Walk!Words] \cup {<<>>}
      /\ frames = <<>> /\ scanned = 0 /\ walking = "frame"
  <2>1. {0, Walk!Code} \subseteq Walk!Words
    BY WalkConstants DEF Walk!Words, Walk!Code
  <2>2. [Walk!Stack -> IF os = "ios" THEN Walk!Words ELSE {0, Walk!Code}]
          \subseteq [Walk!Stack -> Walk!Words]
    BY <2>1
  <2> QED BY <2>2 DEF Walk!Init
<1>2. PICK sp \in 0..MaxStack, lr \in {0, Walk!Code}, fp \in 0..MaxStack :
        frame = Walk!Frame("context", Walk!Code, sp, lr, fp, {"lr", "fp"})
  BY DEF Walk!Init
<1>3. frame \in WalkFrames /\ frame.trust = "context"
  BY <1>2, WalkConstants DEF Walk!Frame, WalkFrames, Pointers, Walk!Words, Walk!Code
<1>4. Walk!Real = {} /\ Walk!Guessed = {} /\ Len(frames) = 0
  BY <1>1 DEF Walk!Real, Walk!Guessed
<1>5. IsFiniteSet({}) /\ Cardinality({}) = 0
  BY FS_EmptySet
<1>6. WalkTypeInv
  BY <1>1, <1>3, WalkConstants DEF WalkTypeInv
<1>7. RealInv
  BY <1>1, <1>4, <1>5 DEF RealInv
<1>8. UpInv
  BY <1>4, <1>5 DEF UpInv, RealCount
<1>9. LimitsInv
  BY <1>1, <1>3, <1>4, <1>5, WalkConstants DEF LimitsInv, IsNext
<1> QED BY <1>6, <1>7, <1>8, <1>9 DEF WalkInv

\* A caller that ends no walk is above its callee.
LEMMA CallerIsNext ==
  ASSUME WalkInv, walking = "caller", NEW caller \in Walk!Callers,
         ~Walk!TerminateWalk(caller)
  PROVE  caller \in WalkFrames /\ IsNext(caller)
<1>1. /\ frames # <<>> /\ frames \in Seq(WalkFrames) /\ Len(frames) \in Walk!Real
      /\ Len(frames) \in Nat /\ Len(frames) # 0
  BY DEF WalkInv, WalkTypeInv, RealInv, LimitsInv
<1>2. Walk!Last \in WalkFrames
  BY <1>1 DEF Walk!Last
<1>3. /\ Walk!Last.sp \in Nat /\ Walk!Last.fp \in Walk!Words /\ Walk!Last.lr \in Walk!Words
      /\ 0 \in Walk!Words /\ Walk!Code \in Walk!Words /\ Walk!Code \in Nat
      /\ \A a \in Walk!Words : a \in Nat
  BY <1>2, WalkConstants DEF WalkFrames, Pointers, Walk!Words, Walk!Code
<1>4. RealCount = 1 <=> Walk!IsContext
  <2>1. Walk!Number(Len(frames)) = RealCount
    <3>1. {j \in Walk!Real : j <= Len(frames)} = Walk!Real
      BY <1>1 DEF Walk!Real
    <3> QED BY <3>1, WalkCardinality DEF Walk!Number, RealCount
  <2> QED BY <1>1, <2>1 DEF WalkInv, RealInv, Walk!IsContext, Walk!Last
<1>5. IF Walk!IsContext THEN ~(caller.sp < Walk!Last.sp) ELSE ~(caller.sp <= Walk!Last.sp)
  BY DEF Walk!TerminateWalk
<1>6. ASSUME caller.sp \in Nat
      PROVE  Walk!Last.sp <= caller.sp /\ (caller.sp = Walk!Last.sp => RealCount = 1)
  BY <1>3, <1>4, <1>5, <1>6
<1>7. CASE caller \in Walk!ByCFI
  <2>1. os # "ios"
    BY <1>7 DEF Walk!ByCFI
  <2>2. PICK pc \in {0, Walk!Code}, sp \in 0..MaxStack :
          caller = Walk!Frame("cfi", pc, sp, 0, 0, {})
    BY <1>7, <2>1 DEF Walk!ByCFI
  <2>3. caller \in WalkFrames /\ caller.trust = "cfi" /\ caller.sp \in Nat
    BY <1>3, <2>2, WalkConstants DEF Walk!Frame, WalkFrames, Pointers
  <2> QED BY <1>1, <1>6, <2>1, <2>3 DEF IsNext
<1>8. CASE caller \in Walk!ByFramePointer
  <2>1. CASE Walk!Last.fp = 0
    <3>1. caller = Walk!Frame("fp", Walk!Last.lr, Walk!Last.sp, 0, 0, {"lr", "fp"})
      BY <1>8, <2>1 DEF Walk!ByFramePointer
    <3>2. /\ caller \in WalkFrames /\ caller.trust = "fp" /\ caller.sp \in Nat
          /\ caller.sp = Walk!Last.sp
      BY <1>2, <1>3, <3>1 DEF Walk!Frame, WalkFrames
    <3> QED BY <1>1, <1>6, <2>1, <3>2 DEF IsNext
  <2>2. CASE Walk!Last.fp # 0
    <3>1. /\ Walk!Last.fp \in DOMAIN memory /\ Walk!Last.fp + 1 \in DOMAIN memory
          /\ caller = Walk!Frame("fp", Walk!Last.lr, Walk!Last.fp + 2,
                                 memory[Walk!Last.fp + 1], memory[Walk!Last.fp], {"lr", "fp"})
      BY <1>8, <2>2 DEF Walk!ByFramePointer, Walk!Readable
    <3>2. memory \in [Walk!Stack -> Walk!Words]
      BY <3>1 DEF WalkInv, WalkTypeInv
    <3>3. /\ Walk!Last.fp + 1 \in StackStart..(StackEnd - 1)
          /\ Walk!Last.fp \in StackStart..(StackEnd - 1)
          /\ memory[Walk!Last.fp + 1] \in Walk!Words /\ memory[Walk!Last.fp] \in Walk!Words
      BY <3>1, <3>2 DEF Walk!Stack
    <3>4. Walk!Last.fp + 2 \in (StackStart + 2)..StackEnd /\ Walk!Last.fp + 2 \in Pointers
      BY <3>3, WalkConstants DEF Pointers
    <3>5. caller \in WalkFrames /\ caller.trust = "fp" /\ caller.sp = Walk!Last.fp + 2
      BY <1>3, <3>1, <3>3, <3>4 DEF Walk!Frame, WalkFrames
    <3>6. caller.sp \in Nat
      BY <3>4, <3>5, WalkConstants
    <3> QED BY <1>1, <1>6, <3>4, <3>5, <3>6 DEF IsNext
  <2> QED BY <2>1, <2>2
<1>9. CASE caller \in Walk!ByStackScan
  <2>1. scanned < max_frames_scanned
    BY <1>9 DEF Walk!ByStackScan
  <2>2. PICK at \in Walk!Found :
          caller = Walk!Frame("scan", Walk!Code, at + 1, Walk!Last.lr, Walk!Last.fp, {})
    BY <1>9, <2>1 DEF Walk!ByStackScan
  <2>3. at \in Walk!Last.sp..(Walk!Last.sp + Walk!SearchWords) /\ at \in DOMAIN memory
    <3>1. at \in Walk!Last.sp..(Walk!Last.sp + Walk!SearchWords)
      BY <2>2 DEF Walk!Found
    <3>2. at \in Walk!Last.sp..at
      BY <1>3, <3>1
    <3> QED BY <2>2, <3>1, <3>2 DEF Walk!Found, Walk!Readable
  <2>4. at \in StackStart..(StackEnd - 1)
    <3>1. memory \in [Walk!Stack -> Walk!Words]
      BY <2>3 DEF WalkInv, WalkTypeInv
    <3> QED BY <2>3, <3>1 DEF Walk!Stack
  <2>5. at + 1 \in (StackStart + 1)..StackEnd /\ at + 1 \in Pointers
    BY <2>4, WalkConstants DEF Pointers
  <2>6. caller \in WalkFrames /\ caller.trust = "scan" /\ caller.sp = at + 1
    BY <1>3, <2>2, <2>5 DEF Walk!Frame, WalkFrames
  <2>7. caller.sp \in Nat
    BY <2>5, <2>6, WalkConstants
  <2> QED BY <1>1, <1>6, <2>1, <2>5, <2>6, <2>7 DEF IsNext
<1> QED BY <1>7, <1>8, <1>9 DEF Walk!Callers, Walk!FirstOf

\* The frames before a frame that is added stay what they are, and have the numbers
\* they had; the new one has the next number.
LEMMA NewFrames ==
  ASSUME WalkInv, NEW n \in 0..MaxInlined,
         frames' = Append(frames \o [i \in 1..n |-> [frame EXCEPT !.trust = "inline"]], frame),
         Walk!IsReal(frame)
  PROVE  /\ frames' \in Seq(WalkFrames) /\ Len(frames') = Len(frames) + n + 1
         /\ frames'[Len(frames')] = frame
         /\ \A i \in 1..Len(frames) : frames'[i] = frames[i]
         /\ Walk!Real' = Walk!Real \cup {Len(frames')}
         /\ \A i \in Walk!Real : i \in Nat /\ i <= Len(frames)
         /\ Walk!Guessed' = IF Walk!IsGuess(frame) THEN Walk!Guessed \cup {Len(frames')}
                            ELSE Walk!Guessed
         /\ Len(frames') \notin Walk!Real /\ Len(frames') \notin Walk!Guessed
<1> DEFINE inlined == [i \in 1..n |-> [frame EXCEPT !.trust = "inline"]]
           long    == frames \o inlined
<1>1. n \in Nat /\ frames \in Seq(WalkFrames) /\ frame \in WalkFrames /\ Len(frames) \in Nat
  BY WalkConstants DEF WalkInv, WalkTypeInv
<1>2. [frame EXCEPT !.trust = "inline"] \in WalkFrames
  BY <1>1 DEF WalkFrames
<1>3. inlined \in Seq(WalkFrames) /\ Len(inlined) = n
  BY <1>1, <1>2
<1>4. \A i \in 1..n : inlined[i].trust = "inline"
  BY <1>1 DEF WalkFrames
<1> HIDE DEF inlined
<1>5. /\ long \in Seq(WalkFrames) /\ Len(long) = Len(frames) + n
      /\ \A i \in 1..Len(frames) : long[i] = frames[i]
      /\ \A i \in (Len(frames) + 1)..(Len(frames) + n) : long[i] = inlined[i - Len(frames)]
  <2>1. /\ long \in Seq(WalkFrames) /\ Len(long) = Len(frames) + n
        /\ \A i \in 1..(Len(frames) + n) :
             long[i] = IF i <= Len(frames) THEN frames[i] ELSE inlined[i - Len(frames)]
    BY <1>1, <1>3, ConcatProperties
  <2> HIDE DEF long
  <2> QED BY <1>1, <2>1
<1>6. \A i \in (Len(frames) + 1)..(Len(frames) + n) : long[i].trust = "inline"
  <2> TAKE i \in (Len(frames) + 1)..(Len(frames) + n)
  <2>1. i - Len(frames) \in 1..n
    BY <1>1
  <2> QED BY <1>4, <1>5, <2>1
<1>7. frames' = Append(long, frame)
  BY DEF inlined
<1> HIDE DEF long
<1>8. /\ frames' \in Seq(WalkFrames) /\ Len(frames') = Len(frames) + n + 1
      /\ frames'[Len(frames')] = frame
      /\ \A i \in 1..Len(frames) : frames'[i] = frames[i]
      /\ \A i \in (Len(frames) + 1)..(Len(frames) + n) : frames'[i].trust = "inline"
  <2>1. /\ frames' \in Seq(WalkFrames) /\ Len(frames') = Len(long) + 1
        /\ frames'[Len(long) + 1] = frame /\ \A i \in 1..Len(long) : frames'[i] = long[i]
    <3>1. long \in Seq(WalkFrames) /\ frame \in WalkFrames
      BY <1>1, <1>5
    <3> DEFINE all == Append(long, frame)
    <3>2. /\ all \in Seq(WalkFrames) /\ Len(all) = Len(long) + 1
          /\ all[Len(long) + 1] = frame /\ \A i \in 1..Len(long) : all[i] = long[i]
      BY <3>1, AppendProperties
    <3>3. frames' = all
      BY <1>7
    <3> HIDE DEF all
    <3> QED BY <3>2, <3>3
  <2>2. Len(frames') = Len(frames) + n + 1 /\ frames'[Len(frames')] = frame
    BY <1>1, <1>5, <2>1
  <2>3. ASSUME NEW i \in 1..Len(frames) PROVE frames'[i] = frames[i]
    BY <1>1, <1>5, <2>1
  <2>4. ASSUME NEW i \in (Len(frames) + 1)..(Len(frames) + n) PROVE frames'[i].trust = "inline"
    BY <1>1, <1>5, <1>6, <2>1
  <2> QED BY <2>1, <2>2, <2>3, <2>4
<1>9. /\ DOMAIN frames = 1..Len(frames) /\ DOMAIN frames' = 1..Len(frames')
  BY <1>1, <1>8
<1>10. \A i \in DOMAIN frames' : \/ i \in DOMAIN frames
                                 \/ i \in (Len(frames) + 1)..(Len(frames) + n)
                                 \/ i = Len(frames')
  BY <1>1, <1>8, <1>9
<1>11. DOMAIN frames \subseteq DOMAIN frames' /\ Len(frames') \in DOMAIN frames'
  BY <1>1, <1>8, <1>9
<1>12. Walk!Real' = Walk!Real \cup {Len(frames')}
  BY <1>8, <1>9, <1>10, <1>11 DEF Walk!Real, Walk!IsReal
<1>13. Walk!Guessed' = IF Walk!IsGuess(frame) THEN Walk!Guessed \cup {Len(frames')}
                       ELSE Walk!Guessed
  BY <1>8, <1>9, <1>10, <1>11 DEF Walk!Guessed, Walk!IsGuess
<1>14. Len(frames') \notin 1..Len(frames)
  BY <1>1, <1>8
<1>15. Walk!Real \subseteq 1..Len(frames) /\ Walk!Guessed \subseteq 1..Len(frames)
  BY <1>9 DEF Walk!Real, Walk!Guessed
<1>16. \A i \in Walk!Real : i \in Nat /\ i <= Len(frames)
  BY <1>1, <1>15
<1> QED BY <1>8, <1>12, <1>13, <1>14, <1>15, <1>16

\* A frame is added, with what is inlined in it.
LEMMA AddFrameInv ==
  ASSUME WalkInv, Walk!AddFrame
  PROVE  WalkInv'
<1>1. PICK n \in 0..MaxInlined :
        frames' = Append(frames \o [i \in 1..n |-> [frame EXCEPT !.trust = "inline"]], frame)
  BY DEF Walk!AddFrame
<1>2. /\ walking = "frame" /\ UNCHANGED <<os, memory, frame>>
      /\ scanned' = IF Walk!IsGuess(frame) THEN scanned + 1 ELSE scanned
      /\ walking' = IF Len(frames') > max_frames THEN "ended" ELSE "caller"
  BY DEF Walk!AddFrame
<1>3. WalkTypeInv /\ RealInv /\ UpInv /\ LimitsInv /\ IsNext(frame)
  BY <1>2 DEF WalkInv, LimitsInv
<1>4. Walk!IsReal(frame) /\ frame.sp \in Nat
  BY <1>3, WalkConstants DEF IsNext, Walk!IsReal, WalkTypeInv, WalkFrames, Pointers
<1>5. PICK last :
        /\ last = Len(frames')
        /\ frames' \in Seq(WalkFrames) /\ Len(frames') = Len(frames) + n + 1
        /\ frames'[last] = frame
        /\ \A i \in 1..Len(frames) : frames'[i] = frames[i]
        /\ Walk!Real' = Walk!Real \cup {last}
        /\ \A i \in Walk!Real : i \in Nat /\ i <= Len(frames)
        /\ Walk!Guessed' = IF Walk!IsGuess(frame) THEN Walk!Guessed \cup {last} ELSE Walk!Guessed
        /\ last \notin Walk!Real /\ last \notin Walk!Guessed
  BY <1>1, <1>3, <1>4, NewFrames
<1>6. Len(frames) \in Nat /\ n \in Nat /\ n <= MaxInlined /\ last \in Nat /\ Len(frames) < last
  BY <1>3, <1>5, WalkConstants DEF WalkTypeInv
<1>7. \A i \in Walk!Real : i \in 1..Len(frames) /\ frames'[i] = frames[i] /\ i < last
  <2>1. Walk!Real \subseteq 1..Len(frames)
    BY <1>3 DEF WalkTypeInv, Walk!Real
  <2> QED BY <1>5, <1>6, <2>1
<1>8. /\ RealCount \in Nat /\ RealCount' = RealCount + 1
      /\ IsFiniteSet(Walk!Real')
      /\ frames = <<>> => RealCount = 0
      /\ frames # <<>> => RealCount # 0
  <2>1. IsFiniteSet(Walk!Real)
    BY <1>3 DEF RealInv
  <2>2. RealCount \in Nat /\ RealCount' = RealCount + 1 /\ IsFiniteSet(Walk!Real')
    BY <1>5, <2>1, FS_AddElement, FS_CardinalityType DEF RealCount
  <2>3. frames = <<>> => Walk!Real = {}
    BY DEF Walk!Real
  <2>4. frames # <<>> => Walk!Real # {}
    BY <1>3 DEF RealInv
  <2> QED BY <2>1, <2>2, <2>3, <2>4, FS_EmptySet DEF RealCount
<1>9. ASSUME NEW i \in Walk!Real PROVE Walk!Number(i)' = Walk!Number(i)
  <2>1. {j \in Walk!Real' : j <= i} = {j \in Walk!Real : j <= i}
    <3>1. i \in Nat /\ i < last
      BY <1>5, <1>7
    <3>2. ~(last <= i)
      BY <1>6, <3>1
    <3> QED BY <1>5, <3>2
  <2> QED BY <2>1, WalkCardinality DEF Walk!Number
<1>10. Walk!Number(last)' = RealCount + 1
  <2>1. \A j \in Walk!Real' : j <= last
    BY <1>5, <1>6
  <2>2. {j \in Walk!Real' : j <= last} = Walk!Real'
    BY <2>1
  <2> QED BY <1>8, <2>2, WalkCardinality DEF Walk!Number, RealCount
<1>11. Walk!Last' = frame /\ frames' # <<>>
  BY <1>5, <1>6 DEF Walk!Last
<1>12. \A i \in Walk!Real : Walk!Number(i) \in 1..RealCount
  <2> TAKE i \in Walk!Real
  <2>1. {j \in Walk!Real : j <= i} \subseteq Walk!Real /\ IsFiniteSet(Walk!Real)
    BY <1>3 DEF RealInv
  <2>2. Walk!Number(i) = Cardinality({j \in Walk!Real : j <= i})
    BY WalkCardinality DEF Walk!Number
  <2>3. i \in {j \in Walk!Real : j <= i}
    BY <1>7
  <2> DEFINE upTo == {j \in Walk!Real : j <= i}
  <2>4. IsFiniteSet(upTo) /\ Cardinality(upTo) <= RealCount
    BY <2>1, FS_Subset DEF RealCount
  <2>5. Cardinality(upTo) \in Nat /\ Cardinality(upTo) # 0
    BY <2>3, <2>4, FS_EmptySet, FS_CardinalityType
  <2> QED BY <1>8, <2>2, <2>4, <2>5
<1>13. WalkTypeInv'
  <2>1. scanned' \in 0..max_frames_scanned
    BY <1>2, <1>3, WalkConstants DEF WalkTypeInv, IsNext, Walk!IsGuess
  <2> QED BY <1>2, <1>3, <1>5, <2>1 DEF WalkTypeInv
<1>14. RealInv'
  <2>1. frame.trust = "context" <=> RealCount = 0
    BY <1>3, <1>8 DEF IsNext
  <2>2. ASSUME NEW i \in Walk!Real'
        PROVE  Walk!Number(i)' = 1 <=> frames'[i].trust = "context"
    BY <1>3, <1>5, <1>7, <1>8, <1>9, <1>10, <2>1 DEF RealInv
  <2>3. ASSUME NEW i \in Walk!Real', Walk!Number(i)' = RealCount'
        PROVE  i = last
    BY <1>5, <1>8, <1>9, <1>12, <2>3
  <2> QED BY <1>5, <1>8, <2>2, <2>3 DEF RealInv
<1>15. UpInv'
  <2>0. ASSUME frames # <<>>
        PROVE  /\ Len(frames) \in Walk!Real /\ Walk!Last = frames[Len(frames)]
               /\ Walk!Last.sp \in Nat
    <3>1. Len(frames) \in 1..Len(frames)
      BY <1>6, <2>0, <1>3 DEF WalkTypeInv
    <3>2. Walk!Last = frames[Len(frames)] /\ Len(frames) \in Walk!Real
      BY <1>3, <2>0 DEF Walk!Last, RealInv
    <3>3. Walk!Last \in WalkFrames
      BY <1>3, <3>1, <3>2, Element DEF WalkTypeInv
    <3>4. Walk!Last.sp \in Pointers
      BY <3>3 DEF WalkFrames
    <3> QED BY <3>2, <3>4, WalkConstants DEF Pointers
  <2>1. ASSUME NEW i \in Walk!Real, NEW j \in Walk!Real, i < j
        PROVE  /\ frames'[i].sp <= frames'[j].sp
               /\ frames'[i].sp = frames'[j].sp => Walk!Number(i)' = 1 /\ Walk!Number(j)' = 2
    BY <1>3, <1>7, <1>9, <2>1 DEF UpInv
  <2>2. ASSUME NEW i \in Walk!Real
        PROVE  /\ frames'[i].sp <= frames'[last].sp
               /\ frames'[i].sp = frames'[last].sp =>
                    Walk!Number(i)' = 1 /\ Walk!Number(last)' = 2
    <3>1. frames # <<>>
      BY <1>7 DEF Walk!Real
    <3>2. frames[i].sp \in Nat
      <4>1. frames[i] \in WalkFrames
        BY <1>3, <1>7, Element DEF WalkTypeInv
      <4>2. frames[i].sp \in Pointers
        BY <4>1 DEF WalkFrames
      <4> QED BY <4>2, WalkConstants DEF Pointers
    <3>3. Walk!Last.sp <= frame.sp /\ (frame.sp = Walk!Last.sp => RealCount = 1)
      BY <1>3, <3>1 DEF IsNext
    <3>4. frames[i].sp <= Walk!Last.sp
      BY <1>3, <1>7, <2>0, <3>1, <3>2 DEF UpInv
    <3>5. ASSUME frames[i].sp = frame.sp PROVE Walk!Number(i) = 1 /\ RealCount = 1
      <4>1. RealCount = 1
        BY <1>4, <2>0, <3>1, <3>2, <3>3, <3>4, <3>5
      <4>2. Walk!Number(i) \in 1..1
        BY <1>12, <4>1
      <4> QED BY <4>1, <4>2
    <3> QED BY <1>4, <1>5, <1>7, <1>8, <1>9, <1>10, <2>0, <3>1, <3>2, <3>3, <3>4, <3>5
  <2>3. ASSUME NEW i \in Walk!Real', NEW j \in Walk!Real', i < j
        PROVE  /\ frames'[i].sp <= frames'[j].sp
               /\ frames'[i].sp = frames'[j].sp => Walk!Number(i)' = 1 /\ Walk!Number(j)' = 2
    <3>1. i \in Walk!Real
      BY <1>5, <1>6, <2>3
    <3>2. CASE j \in Walk!Real
      BY <2>1, <2>3, <3>1, <3>2
    <3>3. CASE j = last
      BY <2>2, <3>1, <3>3
    <3> QED BY <1>5, <3>2, <3>3
  <2>4. ASSUME NEW i \in Walk!Real', frames'[i].trust = "scan"
        PROVE  frames'[i].sp \in (StackStart + 1)..StackEnd
    BY <1>3, <1>5, <1>7, <2>4 DEF UpInv, IsNext
  <2>5. ASSUME NEW i \in Walk!Real', frames'[i].trust = "fp"
        PROVE  \/ frames'[i].sp \in (StackStart + 2)..StackEnd
               \/ /\ Walk!Number(i)' = 2
                  /\ \E j \in Walk!Real' : Walk!Number(j)' = 1 /\ frames'[j].fp = 0
    <3>1. CASE i \in Walk!Real
      <4>1. CASE frames[i].sp \in (StackStart + 2)..StackEnd
        BY <1>7, <3>1, <4>1
      <4>2. CASE /\ Walk!Number(i) = 2
                 /\ \E j \in Walk!Real : Walk!Number(j) = 1 /\ frames[j].fp = 0
        BY <1>5, <1>7, <1>9, <3>1, <4>2
      <4> QED BY <1>3, <1>7, <2>5, <3>1, <4>1, <4>2 DEF UpInv
    <3>2. CASE i = last
      <4>1. frame.trust = "fp" /\ frames # <<>>
        BY <1>3, <1>5, <2>5, <3>2 DEF IsNext
      <4>2. CASE RealCount = 1 /\ Walk!Last.fp = 0
        <5>1. Len(frames) \in Walk!Real /\ Walk!Number(Len(frames)) = 1
          BY <1>12, <2>0, <4>1, <4>2
        <5> QED BY <1>5, <1>7, <1>9, <1>10, <2>0, <3>2, <4>1, <4>2, <5>1
      <4> QED BY <1>3, <1>5, <3>2, <4>1, <4>2 DEF IsNext
    <3> QED BY <1>5, <3>1, <3>2
  <2>6. ASSUME os = "ios"
        PROVE  \/ RealCount' <= 2
               \/ /\ frame.sp \in (StackStart + 1)..StackEnd
                  /\ RealCount' <= frame.sp - StackStart + 2
    <3>1. CASE RealCount <= 1
      BY <1>8, <3>1
    <3>2. CASE RealCount > 1
      <4>1. frames # <<>> /\ RealCount # 1
        BY <1>8, <3>2
      <4>2. /\ frame.trust \in {"fp", "scan"} /\ Walk!Last.sp <= frame.sp
            /\ frame.sp # Walk!Last.sp
        BY <1>3, <2>6, <4>1 DEF IsNext
      <4>3. frame.sp \in (StackStart + 1)..StackEnd
        BY <1>3, <4>1, <4>2, WalkConstants DEF IsNext
      <4>4. RealCount <= 2 \/ RealCount <= Walk!Last.sp - StackStart + 2
        BY <1>3, <2>6 DEF UpInv
      <4>5. Walk!Last.sp \in Int /\ frame.sp \in Int /\ Walk!Last.sp + 1 <= frame.sp
        BY <2>0, <4>1, <4>2, <4>3, WalkConstants
      <4>6. RealCount \in Nat /\ RealCount' = RealCount + 1 /\ StackStart \in Nat
        BY <1>8, WalkConstants
      <4>7. CASE RealCount <= Walk!Last.sp - StackStart + 2
        <5>1. RealCount' <= frame.sp - StackStart + 2
          BY <4>5, <4>6, <4>7
        <5> QED BY <4>3, <5>1
      <4>8. CASE RealCount <= 2
        <5>1. frame.sp - StackStart >= 1
          BY <4>3, <4>5, <4>6, WalkConstants
        <5>2. RealCount' <= frame.sp - StackStart + 2
          BY <4>5, <4>6, <4>8, <5>1
        <5> QED BY <4>3, <5>2
      <4> QED BY <4>4, <4>7, <4>8
    <3> QED BY <1>8, <3>1, <3>2
  <2> QED BY <1>2, <1>11, <2>3, <2>4, <2>5, <2>6 DEF UpInv
<1>16. LimitsInv'
  <2>1. Len(frames') <= max_frames + 1 + MaxInlined
    BY <1>2, <1>3, <1>5, <1>6, WalkConstants DEF LimitsInv
  <2>2. IsFiniteSet(Walk!Guessed') /\ scanned' = Cardinality(Walk!Guessed')
    BY <1>2, <1>3, <1>5, FS_AddElement DEF LimitsInv
  <2>3. walking' \in {"caller", "ended"} /\ (walking' = "caller" => Len(frames') <= max_frames)
    BY <1>2, <1>5, <1>6, WalkConstants
  <2> QED BY <1>11, <2>1, <2>2, <2>3 DEF LimitsInv
<1> QED BY <1>13, <1>14, <1>15, <1>16 DEF WalkInv

\* What is so of the frames depends on no other variable.
LEMMA SameFrames ==
  ASSUME UNCHANGED <<os, frames>>
  PROVE  /\ RealInv' = RealInv /\ UpInv' = UpInv
         /\ RealCount' = RealCount /\ Walk!Last' = Walk!Last
         /\ Walk!Guessed' = Walk!Guessed /\ Walk!Real' = Walk!Real
<1>1. Walk!Real' = Walk!Real /\ Walk!Guessed' = Walk!Guessed /\ Walk!Last' = Walk!Last
  BY DEF Walk!Real, Walk!Guessed, Walk!Last
<1>2. RealCount' = RealCount
  BY <1>1 DEF RealCount
<1>3. \A i : Walk!Number(i)' = Walk!Number(i)
  BY <1>1 DEF Walk!Number
<1> QED BY <1>1, <1>2, <1>3 DEF RealInv, UpInv

LEMMA WalkStepInv == WalkInv /\ [Walk!WalkStep]_(Walk!walkVars) => WalkInv'
<1> SUFFICES ASSUME WalkInv, [Walk!WalkStep]_(Walk!walkVars) PROVE WalkInv'
  OBVIOUS
<1>1. CASE Walk!AddFrame
  BY <1>1, AddFrameInv
<1>2. CASE Walk!Interrupt
  <2>1. UNCHANGED <<os, memory, frame, frames, scanned>> /\ walking' = "interrupted"
    BY <1>2 DEF Walk!Interrupt
  <2> QED BY <2>1, SameFrames DEF WalkInv, WalkTypeInv, LimitsInv
<1>3. CASE Walk!GetCallerFrame
  <2>1. UNCHANGED <<os, memory, frames, scanned>> /\ walking = "caller"
    BY <1>3 DEF Walk!GetCallerFrame
  <2>2. CASE walking' = "ended" /\ UNCHANGED frame
    BY <2>1, <2>2, SameFrames DEF WalkInv, WalkTypeInv, LimitsInv
  <2>3. CASE \E caller \in Walk!Callers :
               ~Walk!TerminateWalk(caller) /\ walking' = "frame" /\ frame' = caller
    <3>1. frame' \in WalkFrames /\ IsNext(frame') /\ walking' = "frame"
      BY <2>1, <2>3, CallerIsNext
    <3>2. IsNext(frame)'
      BY <2>1, <3>1, SameFrames DEF IsNext
    <3> QED BY <2>1, <3>1, <3>2, SameFrames DEF WalkInv, WalkTypeInv, LimitsInv
  <2> QED BY <1>3, <2>2, <2>3 DEF Walk!GetCallerFrame
<1>4. CASE UNCHANGED Walk!walkVars
  <2>1. UNCHANGED <<os, memory, frame, frames, scanned, walking>>
    BY <1>4 DEF Walk!walkVars
  <2>2. IsNext(frame)' = IsNext(frame)
    BY <2>1, SameFrames DEF IsNext
  <2> QED BY <2>1, <2>2, SameFrames DEF WalkInv, WalkTypeInv, LimitsInv
<1> QED BY <1>1, <1>2, <1>3, <1>4 DEF Walk!WalkStep

LEMMA WalkInvSuffices == WalkInv => Walk!TypeOK /\ Walk!WalkGoesUp
<1> SUFFICES ASSUME WalkInv PROVE Walk!TypeOK /\ Walk!WalkGoesUp
  OBVIOUS
<1>1. Walk!TypeOK
  <2>1. \A i \in DOMAIN frames : frames[i] \in WalkFrames
    BY DEF WalkInv, WalkTypeInv
  <2> QED BY <2>1 DEF WalkInv, WalkTypeInv, WalkFrames, Pointers, Walk!TypeOK
<1>2. os = "ios" => Cardinality(Walk!Real) <= StackEnd - StackStart + 2
  <2> SUFFICES ASSUME os = "ios" PROVE RealCount <= StackEnd - StackStart + 2
    BY DEF RealCount
  <2>1. RealCount \in Nat
    BY FS_CardinalityType DEF WalkInv, RealInv, RealCount
  <2> QED BY <2>1, WalkConstants DEF WalkInv, UpInv
<1>3. Cardinality(Walk!Guessed) <= max_frames_scanned
  BY WalkConstants DEF WalkInv, LimitsInv, WalkTypeInv
<1> QED
  BY <1>1, <1>2, <1>3, WalkCardinality DEF WalkInv, UpInv, LimitsInv, Walk!WalkGoesUp

\* For every size of the memory, whatever it holds and all limits, a walk goes up the
\* stack and keeps the limits.
THEOREM WalkGoesUpHolds ==
  Walk!Init /\ [][Walk!WalkStep]_(Walk!walkVars) => []Walk!WalkGoesUp
BY WalkInitInv, WalkStepInv, WalkInvSuffices, PTL

(***************************************************************************)
(* The lines of a file.                                                    *)
(***************************************************************************)

\* A set of numbers that is not empty has a least one.
LEMMA Least ==
  ASSUME NEW N \in SUBSET Nat, N # {}
  PROVE  \E x \in N : \A y \in N : x <= y
<1> DEFINE Less == {p \in Nat \X Nat : p[1] < p[2]}
<1>1. IsWellFoundedOn(Less, Nat)
  BY NatLessThanWellFounded, Zenon DEF OpToRel
<1> HIDE DEF Less
<1>2. PICK x \in N : \A y \in N : ~(<<y, x>> \in Less)
  BY <1>1, WFMin
<1>3. ASSUME NEW y \in N PROVE x <= y
  <2>1. x \in Nat /\ y \in Nat
    OBVIOUS
  <2> DEFINE p == <<y, x>>
  <2>2. p \in Nat \X Nat /\ p[1] = y /\ p[2] = x
    BY <2>1
  <2>3. p \notin Less
    BY <1>2
  <2> HIDE DEF p
  <2>4. ~(y < x)
    BY <2>2, <2>3 DEF Less
  <2> QED BY <2>1, <2>4
<1> QED BY <1>3

\* The function whose last value is the concatenation of the first n sequences of s.
IsFlatten(f, s, n) == f = [i \in 1..n |-> IF i = 1 THEN s[i] ELSE f[i - 1] \o s[i]]

LEMMA FlattenIs ==
  ASSUME NEW s
  PROVE  Reader!FlattenSeq(s) =
           IF Len(s) = 0 THEN s ELSE (CHOOSE f : IsFlatten(f, s, Len(s)))[Len(s)]
BY DEF Reader!FlattenSeq, IsFlatten

LEMMA FlattenExists ==
  ASSUME NEW s, NEW n \in Nat
  PROVE  \E f : IsFlatten(f, s, n)
<1> DEFINE Bad == {m \in Nat : ~\E f : IsFlatten(f, s, m)}
<1> SUFFICES ASSUME Bad # {} PROVE FALSE
  OBVIOUS
<1>1. PICK m \in Bad : \A k \in Bad : m <= k
  BY Least
<1>2. m \in Nat /\ ~\E f : IsFlatten(f, s, m)
  OBVIOUS
<1>3. CASE m = 0
  <2> DEFINE f == [i \in 1..0 |-> 0]
  <2>1. IsFlatten(f, s, 0)
    BY DEF IsFlatten
  <2> QED BY <1>2, <1>3, <2>1
<1>4. CASE m # 0
  <2>1. m - 1 \in Nat /\ m - 1 \notin Bad
    BY <1>1, <1>2, <1>4
  <2>2. PICK f : IsFlatten(f, s, m - 1)
    BY <2>1
  <2> DEFINE Value(h, i) == IF i = 1 THEN s[i] ELSE h[i - 1] \o s[i]
             g == [i \in 1..m |-> IF i < m THEN f[i] ELSE Value(f, m)]
  <2>3. \A i \in 1..(m - 1) : f[i] = Value(f, i)
    BY <2>2 DEF IsFlatten
  <2>4. \A i \in 1..m : i # 1 => i - 1 \in 1..m /\ i - 1 < m /\ g[i - 1] = f[i - 1]
    BY <1>2
  <2>5. \A i \in 1..m : Value(g, i) = Value(f, i)
    BY <2>4
  <2>6. \A i \in 1..m : g[i] = Value(f, i)
    BY <1>2, <2>3
  <2>7. g = [i \in 1..m |-> g[i]]
    OBVIOUS
  <2> HIDE DEF Value, g
  <2>8. g = [i \in 1..m |-> Value(g, i)]
    BY <2>5, <2>6, <2>7
  <2>9. IsFlatten(g, s, m)
    BY <2>8 DEF IsFlatten, Value
  <2> QED BY <1>2, <2>9
<1> QED BY <1>3, <1>4

\* It has sequences as values, which do not depend on what follows in s.
LEMMA FlattenType ==
  ASSUME NEW S, NEW s \in Seq(Seq(S)), NEW f, IsFlatten(f, s, Len(s))
  PROVE  \A i \in 1..Len(s) : f[i] \in Seq(S)
<1> DEFINE Bad == {i \in 1..Len(s) : f[i] \notin Seq(S)}
<1> SUFFICES ASSUME Bad # {} PROVE FALSE
  OBVIOUS
<1>0. Bad \in SUBSET Nat
  OBVIOUS
<1>1. PICK m \in Bad : \A k \in Bad : m <= k
  BY <1>0, Least
<1>2. m \in 1..Len(s) /\ f[m] \notin Seq(S) /\ m \in Nat /\ s[m] \in Seq(S)
  OBVIOUS
<1>3. f[m] = IF m = 1 THEN s[m] ELSE f[m - 1] \o s[m]
  BY <1>2 DEF IsFlatten
<1>4. CASE m # 1
  <2>1. m - 1 \in 1..Len(s) /\ ~(m <= m - 1)
    BY <1>2, <1>4
  <2>2. f[m - 1] \in Seq(S)
    BY <1>1, <2>1
  <2>3. f[m - 1] \o s[m] \in Seq(S)
    BY <1>2, <2>2, ConcatProperties
  <2> QED BY <1>2, <1>3, <1>4, <2>3
<1> QED BY <1>2, <1>3, <1>4

Begins(s, t, n) == \A i \in 1..n : t[i] = s[i]

LEMMA FlattenSame ==
  ASSUME NEW s, NEW t, NEW n \in Nat, NEW m \in Nat, n <= m, Begins(s, t, n),
         NEW f, IsFlatten(f, s, n), NEW g, IsFlatten(g, t, m)
  PROVE  \A i \in 1..n : f[i] = g[i]
<1> DEFINE Bad == {i \in 1..n : f[i] # g[i]}
<1> SUFFICES ASSUME Bad # {} PROVE FALSE
  OBVIOUS
<1>0. Bad \in SUBSET Nat
  OBVIOUS
<1>1. PICK k \in Bad : \A i \in Bad : k <= i
  BY <1>0, Least
<1>2. k \in 1..n /\ k \in 1..m /\ f[k] # g[k] /\ k \in Nat /\ t[k] = s[k]
  BY DEF Begins
<1>3. f[k] = IF k = 1 THEN s[k] ELSE f[k - 1] \o s[k]
  BY <1>2 DEF IsFlatten
<1>4. g[k] = IF k = 1 THEN t[k] ELSE g[k - 1] \o t[k]
  BY <1>2 DEF IsFlatten
<1>5. CASE k # 1
  <2>1. k - 1 \in 1..n /\ ~(k <= k - 1)
    BY <1>2, <1>5
  <2>2. f[k - 1] = g[k - 1]
    BY <1>1, <2>1
  <2> QED BY <1>2, <1>3, <1>4, <1>5, <2>2
<1> QED BY <1>2, <1>3, <1>4, <1>5

\* A sequence more.
LEMMA FlattenMore ==
  ASSUME NEW S, NEW s \in Seq(Seq(S)), NEW e \in Seq(S)
  PROVE  /\ Reader!FlattenSeq(s) \in Seq(S)
         /\ Reader!FlattenSeq(Append(s, e)) = Reader!FlattenSeq(s) \o e
<1> DEFINE n == Len(s)
           t == Append(s, e)
           F == CHOOSE f : IsFlatten(f, s, n)
           G == CHOOSE f : IsFlatten(f, t, n + 1)
<1>1. n \in Nat /\ t \in Seq(Seq(S)) /\ Len(t) = n + 1 /\ t[n + 1] = e
  BY AppendProperties
<1>2. Begins(s, t, n)
  BY AppendProperties DEF Begins
<1>3. IsFlatten(F, s, n)
  BY <1>1, FlattenExists
<1>4. IsFlatten(G, t, n + 1)
  <2>1. n + 1 \in Nat
    BY <1>1
  <2> QED BY <2>1, FlattenExists
<1>5. Reader!FlattenSeq(s) = IF n = 0 THEN s ELSE F[n]
  BY FlattenIs
<1>6. Reader!FlattenSeq(t) = G[n + 1]
  <2>1. Len(t) # 0
    BY <1>1
  <2> QED BY <1>1, <2>1, FlattenIs
<1> HIDE DEF n, t, F, G
<1>7. n + 1 \in 1..(n + 1)
  BY <1>1
<1>8. G[n + 1] = IF n + 1 = 1 THEN t[n + 1] ELSE G[(n + 1) - 1] \o t[n + 1]
  BY <1>4, <1>7 DEF IsFlatten
<1>9. CASE n = 0
  <2>1. s = <<>> /\ s \in Seq(S)
    BY <1>9 DEF n
  <2>2. G[n + 1] = e
    BY <1>1, <1>8, <1>9
  <2> QED BY <1>5, <1>6, <1>9, <2>1, <2>2, ConcatEmptySeq DEF t
<1>10. CASE n # 0
  <2>1. n \in 1..n /\ n <= n + 1 /\ n + 1 \in Nat /\ n + 1 # 1 /\ (n + 1) - 1 = n
    BY <1>1, <1>10
  <2>2. F[n] \in Seq(S)
    BY <1>3, <2>1, FlattenType DEF n
  <2>3. F[n] = G[n]
    <3>1. \A i \in 1..n : F[i] = G[i]
      <4>1. n \in Nat /\ n + 1 \in Nat /\ n <= n + 1
        BY <1>1, <2>1
      <4> QED BY <1>2, <1>3, <1>4, <4>1, FlattenSame
    <3> QED BY <2>1, <3>1
  <2>4. G[n + 1] = F[n] \o e
    BY <1>1, <1>8, <2>1, <2>3
  <2> QED BY <1>5, <1>6, <1>10, <2>2, <2>4 DEF t
<1> QED BY <1>9, <1>10

LineBytes == {LineFeed, Char}
HasAll(whole) == Reader!Delivered \o buf \o rest = whole

LinesInv ==
  /\ text \in Seq(LineBytes) /\ rest \in Seq(LineBytes) /\ buf \in Seq(LineBytes)
  /\ lines \in Seq(Seq(LineBytes))
  /\ Len(buf) <= kMaxLineLen
  /\ hit_eof \in BOOLEAN /\ (hit_eof => rest = <<>>)
  /\ line # Reader!NoLine =>
       /\ line \in Nat /\ line + 1 \in Reader!Ends /\ \A e \in Reader!Ends : line + 1 <= e
       /\ reading = "reads"
  /\ reading \in {"reads", "failed", "ended"}
  /\ \A i \in DOMAIN lines : LineFeed \notin Reader!Range(lines[i])
  /\ HasAll(text) \/ (hit_eof /\ HasAll(Append(text, LineFeed)))
  /\ reading = "ended" =>
       \/ buf = <<>> /\ rest = <<>>
       \/ Reader!Full /\ Reader!NoEnd

LEMMA LinesInitInv == Reader!Init => LinesInv
<1> SUFFICES ASSUME Reader!Init PROVE LinesInv
  OBVIOUS
<1>1. /\ rest = text /\ buf = <<>> /\ hit_eof = FALSE /\ line = Reader!NoLine /\ lines = <<>>
      /\ reading = "reads"
  BY DEF Reader!Init
<1>2. text \in Seq(LineBytes)
  <2>1. PICK n \in 0..MaxFile : text \in [1..n -> LineBytes]
    BY DEF Reader!Init, LineBytes
  <2>2. n \in Nat
    BY LinesAssumption
  <2> QED BY <2>1, <2>2
<1>3. <<>> \in Seq(LineBytes) /\ <<>> \in Seq(Seq(LineBytes)) /\ Len(<<>>) = 0
  OBVIOUS
<1>4. HasAll(text)
  <2>1. Len([i \in DOMAIN lines |-> Append(lines[i], LineFeed)]) = 0
        /\ [i \in DOMAIN lines |-> Append(lines[i], LineFeed)] = <<>>
    BY <1>1
  <2>2. Reader!Delivered = <<>>
    BY <2>1, FlattenIs DEF Reader!Delivered
  <2> QED BY <1>1, <1>2, <1>3, <2>2, ConcatEmptySeq DEF HasAll
<1>5. \A i \in DOMAIN lines : FALSE
  BY <1>1
<1>6. Len(buf) <= kMaxLineLen
  BY <1>1, <1>3, LinesAssumption
<1> QED BY <1>1, <1>2, <1>3, <1>4, <1>5, <1>6 DEF LinesInv

\* What has been delivered: a line more has its end behind it.
LEMMA DeliveredIs ==
  ASSUME lines \in Seq(Seq(LineBytes))
  PROVE  /\ Reader!Delivered \in Seq(LineBytes)
         /\ \A l \in Seq(LineBytes) : lines' = Append(lines, l) =>
              Reader!Delivered' = Reader!Delivered \o Append(l, LineFeed)
<1> DEFINE ended == [i \in DOMAIN lines |-> Append(lines[i], LineFeed)]
<1>1. ended \in Seq(Seq(LineBytes)) /\ Len(ended) = Len(lines) /\ Len(lines) \in Nat
  <2>1. \A i \in 1..Len(lines) : lines[i] \in Seq(LineBytes)
    OBVIOUS
  <2>2. \A i \in 1..Len(lines) : Append(lines[i], LineFeed) \in Seq(LineBytes)
    BY <2>1, AppendProperties DEF LineBytes
  <2>3. DOMAIN lines = 1..Len(lines) /\ Len(lines) \in Nat
    OBVIOUS
  <2>4. ended \in [1..Len(lines) -> Seq(LineBytes)]
    BY <2>2, <2>3
  <2> HIDE DEF ended
  <2> QED BY <2>3, <2>4
<1>2. Reader!Delivered = Reader!FlattenSeq(ended)
  BY DEF Reader!Delivered
<1>3. <<>> \in Seq(LineBytes)
  OBVIOUS
<1>4. Reader!Delivered \in Seq(LineBytes)
  BY <1>1, <1>2, <1>3, FlattenMore
<1>5. ASSUME NEW l \in Seq(LineBytes), lines' = Append(lines, l)
      PROVE  Reader!Delivered' = Reader!Delivered \o Append(l, LineFeed)
  <2> DEFINE e == Append(l, LineFeed)
             more == [i \in DOMAIN lines' |-> Append(lines'[i], LineFeed)]
  <2>1. e \in Seq(LineBytes)
    BY AppendProperties DEF LineBytes
  <2>2. /\ Len(lines') = Len(lines) + 1 /\ lines' \in Seq(Seq(LineBytes))
        /\ lines'[Len(lines) + 1] = l /\ \A i \in 1..Len(lines) : lines'[i] = lines[i]
    <3> DEFINE all == Append(lines, l)
    <3>1. /\ Len(all) = Len(lines) + 1 /\ all \in Seq(Seq(LineBytes))
          /\ all[Len(lines) + 1] = l /\ \A i \in 1..Len(lines) : all[i] = lines[i]
      BY AppendProperties
    <3>2. lines' = all
      BY <1>5
    <3> HIDE DEF all
    <3> QED BY <3>1, <3>2
  <2>3. /\ Len(Append(ended, e)) = Len(lines) + 1 /\ Append(ended, e) \in Seq(Seq(LineBytes))
        /\ Append(ended, e)[Len(lines) + 1] = e
        /\ \A i \in 1..Len(lines) : Append(ended, e)[i] = ended[i]
    BY <1>1, <2>1, AppendProperties
  <2>4. \A i \in 1..Len(lines) : ended[i] = Append(lines[i], LineFeed)
    OBVIOUS
  <2>5. DOMAIN lines' = 1..(Len(lines) + 1)
    BY <2>2
  <2>6. \A i \in 1..(Len(lines) + 1) : Append(lines'[i], LineFeed) = Append(ended, e)[i]
    <3> HIDE DEF ended, e
    <3> TAKE i \in 1..(Len(lines) + 1)
    <3>1. CASE i = Len(lines) + 1
      BY <2>2, <2>3, <3>1 DEF e
    <3>2. CASE i \in 1..Len(lines)
      BY <2>2, <2>3, <2>4, <3>2
    <3>3. i = Len(lines) + 1 \/ i \in 1..Len(lines)
      BY <1>1
    <3> QED BY <3>1, <3>2, <3>3
  <2>7. more = [i \in 1..(Len(lines) + 1) |-> Append(ended, e)[i]]
    BY <2>5, <2>6
  <2>8. Append(ended, e) = [i \in 1..(Len(lines) + 1) |-> Append(ended, e)[i]]
    <3> DEFINE all == Append(ended, e)
    <3>1. all \in Seq(Seq(LineBytes)) /\ Len(all) = Len(lines) + 1
      BY <2>3
    <3> HIDE DEF all
    <3>2. all = [i \in 1..(Len(lines) + 1) |-> all[i]]
      BY <3>1
    <3> QED BY <3>2 DEF all
  <2>9. more = Append(ended, e)
    BY <2>7, <2>8
  <2>10. Reader!Delivered' = Reader!FlattenSeq(more)
    BY DEF Reader!Delivered
  <2> QED BY <1>1, <1>2, <2>1, <2>9, <2>10, FlattenMore
<1> QED BY <1>4, <1>5

\* What a call of GetNextLine does not change.
LEMMA SameText ==
  ASSUME UNCHANGED <<text, lines, rest, buf>>
  PROVE  /\ HasAll(text)' = HasAll(text)
         /\ HasAll(Append(text, LineFeed))' = HasAll(Append(text, LineFeed))
         /\ Reader!Ends' = Reader!Ends /\ Reader!Full' = Reader!Full
BY DEF HasAll, Reader!Delivered, Reader!Ends, Reader!Full

LEMMA FindLineInv ==
  ASSUME LinesInv, Reader!GetNextLine, Reader!FindLine
  PROVE  LinesInv'
<1>1. /\ reading = "reads" /\ UNCHANGED <<text, lines, rest, buf, hit_eof, reading>>
      /\ Reader!Ends # {} /\ line' = Reader!Min(Reader!Ends) - 1
  BY DEF Reader!GetNextLine, Reader!FindLine, Reader!NoEnd
<1>2. buf \in Seq(LineBytes) /\ DOMAIN buf = 1..Len(buf) /\ Len(buf) \in Nat
  BY DEF LinesInv
<1>3. Reader!Ends \subseteq 1..Len(buf) /\ Reader!Ends' = Reader!Ends
  BY <1>1, <1>2 DEF Reader!Ends
<1>4. Reader!Ends \in SUBSET Nat
  BY <1>2, <1>3
<1>5. PICK x \in Reader!Ends : \A y \in Reader!Ends : x <= y
  BY <1>1, <1>4, Least
<1>6. Reader!Min(Reader!Ends) \in Reader!Ends /\ \A y \in Reader!Ends : Reader!Min(Reader!Ends) <= y
  BY <1>5 DEF Reader!Min
<1> DEFINE m == Reader!Min(Reader!Ends)
<1> HIDE DEF m
<1>7. m \in 1..Len(buf) /\ m \in Nat /\ line' = m - 1 /\ m \in Reader!Ends
  <2>1. m \in Reader!Ends /\ line' = m - 1
    BY <1>1, <1>6 DEF m
  <2> QED BY <1>2, <1>3, <2>1
<1>8. /\ line' \in Nat /\ line' + 1 \in Reader!Ends
      /\ \A e \in Reader!Ends : line' + 1 <= e
  BY <1>6, <1>7 DEF m
<1> QED BY <1>1, <1>3, <1>8, SameText DEF LinesInv

LEMMA LastLineInv ==
  ASSUME LinesInv, Reader!GetNextLine, Reader!LastLine
  PROVE  LinesInv'
<1>1. /\ reading = "reads" /\ UNCHANGED <<text, lines, rest, hit_eof, reading>>
      /\ Reader!Ends = {} /\ ~Reader!Full /\ hit_eof /\ buf # <<>>
      /\ buf' = Append(buf, LineFeed) /\ line' = Len(buf)
  BY DEF Reader!GetNextLine, Reader!LastLine, Reader!NoEnd
<1>2. /\ buf \in Seq(LineBytes) /\ DOMAIN buf = 1..Len(buf) /\ Len(buf) \in Nat
      /\ Len(buf) <= kMaxLineLen /\ rest = <<>> /\ rest \in Seq(LineBytes)
      /\ text \in Seq(LineBytes) /\ lines \in Seq(Seq(LineBytes)) /\ LineFeed \in LineBytes
  BY <1>1 DEF LinesInv, LineBytes
<1> DEFINE more == Append(buf, LineFeed)
<1>3. /\ more \in Seq(LineBytes) /\ Len(more) = Len(buf) + 1 /\ more[Len(buf) + 1] = LineFeed
      /\ \A i \in 1..Len(buf) : more[i] = buf[i]
  BY <1>2, AppendProperties
<1>4. buf' = more
  BY <1>1
<1> HIDE DEF more
<1>5. \A i \in 1..Len(buf) : buf[i] # LineFeed
  BY <1>1, <1>2 DEF Reader!Ends
<1>6. DOMAIN more = 1..(Len(buf) + 1)
  BY <1>2, <1>3
<1>7. Reader!Ends' = {Len(buf) + 1}
  <2>1. \A i \in 1..(Len(buf) + 1) : more[i] = LineFeed <=> i = Len(buf) + 1
    BY <1>2, <1>3, <1>5
  <2>2. Reader!Ends' = {i \in DOMAIN more : more[i] = LineFeed}
    BY <1>4 DEF Reader!Ends
  <2>3. Len(buf) + 1 \in 1..(Len(buf) + 1)
    BY <1>2
  <2> QED BY <1>6, <2>1, <2>2, <2>3
<1>8. Len(more) <= kMaxLineLen
  BY <1>1, <1>2, <1>3, LinesAssumption DEF Reader!Full
<1>9. Reader!Delivered \in Seq(LineBytes) /\ Reader!Delivered' = Reader!Delivered
  BY <1>1, <1>2, DeliveredIs DEF Reader!Delivered
<1> DEFINE D == Reader!Delivered
<1>10. D \in Seq(LineBytes)
  BY <1>9
<1>11. HasAll(text)
  <2> SUFFICES ASSUME HasAll(Append(text, LineFeed)) PROVE FALSE
    BY DEF LinesInv
  <2> DEFINE all == D \o buf
             whole == Append(text, LineFeed)
  <2>1. all \in Seq(LineBytes) /\ Len(all) = Len(D) + Len(buf)
        /\ \A i \in 1..(Len(D) + Len(buf)) :
             all[i] = IF i <= Len(D) THEN D[i] ELSE buf[i - Len(D)]
    BY <1>2, <1>10, ConcatProperties
  <2>2. all = whole
    BY <1>2, <2>1, ConcatEmptySeq DEF HasAll
  <2>3. whole[Len(whole)] = LineFeed
    BY <1>2, AppendProperties
  <2> HIDE DEF D, all, whole
  <2>4. Len(D) \in Nat /\ Len(buf) # 0
    BY <1>1, <1>2, <1>10
  <2>5. Len(D) + Len(buf) \in 1..(Len(D) + Len(buf)) /\ ~(Len(D) + Len(buf) <= Len(D))
        /\ Len(D) + Len(buf) - Len(D) = Len(buf) /\ Len(buf) \in 1..Len(buf)
    BY <1>2, <2>4
  <2>6. all[Len(D) + Len(buf)] = buf[Len(buf)]
    BY <2>1, <2>5
  <2> QED BY <1>5, <2>1, <2>2, <2>3, <2>5, <2>6
<1>12. HasAll(Append(text, LineFeed))'
  <2>1. D \o buf = text
    <3>1. D \o buf \in Seq(LineBytes)
      BY <1>2, <1>10, ConcatProperties
    <3> QED BY <1>2, <1>11, <3>1, ConcatEmptySeq DEF HasAll
  <2>2. D \o more = Append(text, LineFeed)
    <3>1. more = buf \o <<LineFeed>>
      BY <1>2, AppendIsConcat DEF more
    <3>2. Append(text, LineFeed) = text \o <<LineFeed>>
      BY <1>2, AppendIsConcat
    <3>3. <<LineFeed>> \in Seq(LineBytes)
      BY <1>2
    <3>4. (D \o buf) \o <<LineFeed>> = D \o (buf \o <<LineFeed>>)
      BY <1>2, <1>10, <3>3, ConcatAssociative
    <3> QED BY <2>1, <3>1, <3>2, <3>4
  <2>3. D \o more \in Seq(LineBytes)
    BY <1>3, <1>10, ConcatProperties
  <2>4. D \o more \o rest = D \o more
    BY <1>2, <2>3, ConcatEmptySeq
  <2> QED BY <1>1, <1>4, <1>9, <2>2, <2>4 DEF HasAll
<1>13. /\ line' \in Nat /\ line' + 1 \in Reader!Ends'
       /\ \A e \in Reader!Ends' : line' + 1 <= e
  BY <1>1, <1>2, <1>7
<1>14. \A i \in DOMAIN lines' : LineFeed \notin Reader!Range(lines'[i])
  BY <1>1 DEF LinesInv
<1> QED BY <1>1, <1>2, <1>3, <1>4, <1>8, <1>12, <1>13, <1>14 DEF LinesInv

LEMMA ReadInv ==
  ASSUME LinesInv, Reader!GetNextLine, Reader!Read
  PROVE  LinesInv'
<1>1. /\ reading = "reads" /\ line = Reader!NoLine /\ ~hit_eof
      /\ UNCHANGED <<text, lines, line>>
  BY DEF Reader!GetNextLine, Reader!Read
<1>0. hit_eof = FALSE
  BY <1>1 DEF LinesInv
<1>2. CASE \/ rest = <<>> /\ hit_eof' = TRUE /\ UNCHANGED <<rest, buf, reading>>
           \/ reading' = "failed" /\ UNCHANGED <<rest, buf, hit_eof>>
  <2>1. UNCHANGED <<text, lines, rest, buf>>
    BY <1>1, <1>2
  <2>2. hit_eof' \in BOOLEAN /\ (hit_eof' => rest' = <<>>) /\ reading' \in {"reads", "failed"}
    BY <1>0, <1>1, <1>2
  <2>3. HasAll(text)
    BY <1>1 DEF LinesInv
  <2>4. line' = Reader!NoLine /\ Reader!NoLine' = Reader!NoLine
    BY <1>1 DEF Reader!NoLine
  <2> QED BY <2>1, <2>2, <2>3, <2>4, SameText DEF LinesInv
<1>3. ASSUME NEW n \in 1..Len(rest), Len(buf) + n <= kMaxLineLen,
             buf' = buf \o SubSeq(rest, 1, n),
             rest' = SubSeq(rest, n + 1, Len(rest)),
             UNCHANGED <<hit_eof, reading>>
      PROVE  LinesInv'
  <2>1. /\ buf \in Seq(LineBytes) /\ rest \in Seq(LineBytes) /\ lines \in Seq(Seq(LineBytes))
        /\ Len(rest) \in Nat /\ Len(buf) \in Nat /\ n \in Nat
        /\ HasAll(text) /\ kMaxLineLen \in Nat
    BY <1>1, LinesAssumption DEF LinesInv
  <2> DEFINE D == Reader!Delivered
             a == SubSeq(rest, 1, n)
             b == SubSeq(rest, n + 1, Len(rest))
  <2>2. D \in Seq(LineBytes)
    BY <2>1, DeliveredIs
  <2>3. Reader!Delivered' = D
    BY <1>1 DEF Reader!Delivered
  <2>4. \A i \in 1..Len(rest) : rest[i] \in LineBytes
    BY <2>1, ElementOfSeq
  <2>5. a \in Seq(LineBytes) /\ Len(a) = n
    <3>1. 1 \in Int /\ n \in Int /\ 1 <= n /\ n - 1 + 1 = n /\ \A i \in 1..n : rest[i] \in LineBytes
      BY <2>1, <2>4
    <3> QED BY <3>1, SubSeqProperties
  <2>6. b \in Seq(LineBytes)
    <3>1. n + 1 \in Int /\ Len(rest) \in Int /\ \A i \in (n + 1)..Len(rest) : rest[i] \in LineBytes
      BY <2>1, <2>4
    <3> QED BY <3>1, SubSeqProperties
  <2>7. a \o b = rest
    <3>1. /\ 1 \in 1..(Len(rest) + 1) /\ n \in (1 - 1)..Len(rest)
          /\ Len(rest) \in n..Len(rest)
      BY <2>1
    <3>2. a \o b = SubSeq(rest, 1, Len(rest))
      BY <2>1, <3>1, ConcatAdjacentSubSeq
    <3> QED BY <2>1, <3>2, SubSeqFull
  <2> HIDE DEF D, a, b
  <2>8. buf \o a \in Seq(LineBytes) /\ Len(buf \o a) = Len(buf) + n
    BY <2>1, <2>5, ConcatProperties
  <2>9. D \o (buf \o a) \o b = D \o buf \o rest
    <3>1. D \o buf \in Seq(LineBytes)
      BY <2>1, <2>2, ConcatProperties
    <3>2. (D \o buf) \o a = D \o (buf \o a)
      <4>1. D \in Seq(LineBytes) /\ buf \in Seq(LineBytes) /\ a \in Seq(LineBytes)
        BY <2>1, <2>2, <2>5
      <4> QED BY <4>1, ConcatAssociative
    <3>3. ((D \o buf) \o a) \o b = (D \o buf) \o (a \o b)
      <4>1. a \in Seq(LineBytes) /\ b \in Seq(LineBytes)
        BY <2>5, <2>6
      <4> QED BY <3>1, <4>1, ConcatAssociative
    <3> QED BY <2>7, <3>2, <3>3
  <2>10. buf' = buf \o a /\ rest' = b
    BY <1>3 DEF a, b
  <2>11. HasAll(text)'
    BY <1>1, <2>1, <2>3, <2>9, <2>10 DEF HasAll, D
  <2>12. Len(buf') <= kMaxLineLen /\ buf' \in Seq(LineBytes) /\ rest' \in Seq(LineBytes)
    BY <1>3, <2>1, <2>6, <2>8, <2>10
  <2>13. line' = Reader!NoLine /\ Reader!NoLine' = Reader!NoLine /\ ~hit_eof' /\ reading' = "reads"
    BY <1>1, <1>3 DEF Reader!NoLine
  <2>14. /\ text' \in Seq(LineBytes) /\ lines' \in Seq(Seq(LineBytes)) /\ hit_eof' \in BOOLEAN
         /\ \A i \in DOMAIN lines' : LineFeed \notin Reader!Range(lines'[i])
    BY <1>0, <1>1, <1>3 DEF LinesInv
  <2> QED BY <2>11, <2>12, <2>13, <2>14 DEF LinesInv
<1> QED BY <1>2, <1>3 DEF Reader!Read

LEMMA PopLineInv ==
  ASSUME LinesInv, Reader!PopLine
  PROVE  LinesInv'
<1>1. /\ line # Reader!NoLine /\ line' = Reader!NoLine
      /\ UNCHANGED <<text, rest, hit_eof, reading>>
      /\ lines' = Append(lines, SubSeq(buf, 1, line))
      /\ buf' = SubSeq(buf, line + 2, Len(buf))
  BY DEF Reader!PopLine
<1>2. /\ buf \in Seq(LineBytes) /\ rest \in Seq(LineBytes) /\ lines \in Seq(Seq(LineBytes))
      /\ Len(buf) \in Nat /\ Len(buf) <= kMaxLineLen /\ kMaxLineLen \in Nat
      /\ line \in Nat /\ line + 1 \in Reader!Ends /\ \A e \in Reader!Ends : line + 1 <= e
      /\ reading = "reads"
  BY <1>1, LinesAssumption DEF LinesInv
<1>3. line + 1 \in 1..Len(buf) /\ buf[line + 1] = LineFeed
  BY <1>2 DEF Reader!Ends
<1> DEFINE D == Reader!Delivered
           l == SubSeq(buf, 1, line)
           b == SubSeq(buf, line + 2, Len(buf))
<1>4. D \in Seq(LineBytes)
  BY <1>2, DeliveredIs
<1>5. \A i \in 1..Len(buf) : buf[i] \in LineBytes
  BY <1>2, ElementOfSeq
<1>6. l \in Seq(LineBytes) /\ Len(l) = line /\ \A i \in 1..line : l[i] = buf[i]
  <2>1. 1 \in Int /\ line \in Int /\ \A i \in 1..line : buf[i] \in LineBytes
    BY <1>2, <1>3, <1>5
  <2>2. /\ l \in Seq(LineBytes) /\ Len(l) = IF 1 <= line THEN line - 1 + 1 ELSE 0
        /\ \A i \in 1..(line - 1 + 1) : l[i] = buf[1 + i - 1]
    BY <2>1, SubSeqProperties
  <2> HIDE DEF l
  <2> QED BY <1>2, <2>2
<1>7. b \in Seq(LineBytes) /\ Len(b) <= Len(buf)
  <2>1. line + 2 \in Int /\ Len(buf) \in Int /\ \A i \in (line + 2)..Len(buf) : buf[i] \in LineBytes
    BY <1>2, <1>5
  <2>2. b \in Seq(LineBytes) /\ Len(b) = IF line + 2 <= Len(buf) THEN Len(buf) - (line + 2) + 1 ELSE 0
    BY <2>1, SubSeqProperties
  <2> HIDE DEF b
  <2> QED BY <1>2, <2>2
<1>8. Append(l, LineFeed) \o b = buf
  <2>1. 1 \in 1..(Len(buf) + 1) /\ line \in (1 - 1)..Len(buf) /\ Len(buf) \in line..Len(buf)
        /\ line + 1 \in 1..Len(buf) /\ Len(buf) \in (line + 1)..Len(buf)
        /\ line + 1 \in (1 - 1)..Len(buf) /\ line + 1 \in 1..(line + 1)
        /\ (line + 1) - 1 = line /\ (line + 1) + 1 = line + 2
    BY <1>2, <1>3
  <2>2. SubSeq(buf, 1, line + 1) \o SubSeq(buf, (line + 1) + 1, Len(buf)) = SubSeq(buf, 1, Len(buf))
    BY <1>2, <2>1, ConcatAdjacentSubSeq
  <2>3. SubSeq(buf, 1, line + 1) = SubSeq(buf, 1, (line + 1) - 1) \o <<buf[line + 1]>>
    <3>1. 1 \in 1..Len(buf) /\ line + 1 \in 1..Len(buf)
      BY <1>2, <1>3
    <3> QED BY <1>2, <3>1, SubSeqRecursiveSecond
  <2>4. LineFeed \in LineBytes
    BY DEF LineBytes
  <2>5. Append(l, LineFeed) = l \o <<LineFeed>>
    BY <1>6, <2>4, AppendIsConcat
  <2>6. SubSeq(buf, 1, Len(buf)) = buf
    BY <1>2, SubSeqFull
  <2> QED BY <1>3, <2>1, <2>2, <2>3, <2>5, <2>6
<1>9. Reader!Delivered' = D \o Append(l, LineFeed)
  BY <1>1, <1>2, <1>6, DeliveredIs
<1> DEFINE e == Append(l, LineFeed)
<1>10. e \in Seq(LineBytes)
  BY <1>6, AppendProperties DEF LineBytes
<1>11. lines' = Append(lines, l) /\ buf' = b
  BY <1>1
<1>13. /\ lines' \in Seq(Seq(LineBytes)) /\ Len(lines') = Len(lines) + 1
       /\ lines'[Len(lines) + 1] = l /\ \A i \in 1..Len(lines) : lines'[i] = lines[i]
  <2> DEFINE all == Append(lines, l)
  <2>1. /\ all \in Seq(Seq(LineBytes)) /\ Len(all) = Len(lines) + 1
        /\ all[Len(lines) + 1] = l /\ \A i \in 1..Len(lines) : all[i] = lines[i]
    BY <1>2, <1>6, AppendProperties
  <2>2. lines' = all
    BY <1>11
  <2> HIDE DEF all
  <2> QED BY <2>1, <2>2
<1> HIDE DEF l, b, e, D
<1>12. (D \o e) \o b = D \o buf
  <2>1. (D \o e) \o b = D \o (e \o b)
    BY <1>4, <1>7, <1>10, ConcatAssociative
  <2>2. e \o b = buf
    BY <1>8 DEF e
  <2> QED BY <2>1, <2>2
<1>14. LineFeed \notin Reader!Range(l)
  <2> SUFFICES ASSUME NEW i \in DOMAIN l, l[i] = LineFeed PROVE FALSE
    BY DEF Reader!Range
  <2>1. i \in 1..line /\ buf[i] = LineFeed
    BY <1>6
  <2>2. i \in Reader!Ends /\ ~(line + 1 <= i)
    BY <1>2, <1>3, <2>1 DEF Reader!Ends
  <2> QED BY <1>2, <2>2
<1>15. \A i \in DOMAIN lines' : LineFeed \notin Reader!Range(lines'[i])
  <2>1. DOMAIN lines = 1..Len(lines) /\ DOMAIN lines' = 1..(Len(lines) + 1) /\ Len(lines) \in Nat
    BY <1>2, <1>13
  <2>2. \A i \in 1..Len(lines) : LineFeed \notin Reader!Range(lines[i])
    BY <2>1 DEF LinesInv
  <2> TAKE i \in DOMAIN lines'
  <2>3. i \in 1..Len(lines) \/ i = Len(lines) + 1
    BY <2>1
  <2> QED BY <1>13, <1>14, <2>2, <2>3
<1>16. HasAll(text)' = HasAll(text)
       /\ HasAll(Append(text, LineFeed))' = HasAll(Append(text, LineFeed))
  <2>1. Reader!Delivered' \o buf' \o rest' = D \o buf \o rest
    BY <1>1, <1>9, <1>11, <1>12 DEF e
  <2> QED BY <1>1, <2>1 DEF HasAll, D
<1>17. Len(buf') <= kMaxLineLen
  <2>1. Len(b) \in Nat
    BY <1>7
  <2> QED BY <1>2, <1>7, <1>11, <2>1
<1>18. Reader!NoLine' = Reader!NoLine
  BY DEF Reader!NoLine
<1> QED BY <1>1, <1>2, <1>7, <1>11, <1>13, <1>15, <1>16, <1>17, <1>18 DEF LinesInv

LEMMA LinesStepInv == LinesInv /\ [Reader!Step]_(Reader!lineVars) => LinesInv'
<1> SUFFICES ASSUME LinesInv, [Reader!Step]_(Reader!lineVars) PROVE LinesInv'
  OBVIOUS
<1>1. CASE Reader!GetNextLine /\ Reader!NoMoreLines
  <2>1. /\ reading' = "ended" /\ line = Reader!NoLine
        /\ UNCHANGED <<text, lines, rest, buf, hit_eof, line>>
        /\ (buf = <<>> /\ hit_eof) \/ (Reader!NoEnd /\ Reader!Full)
    BY <1>1 DEF Reader!GetNextLine, Reader!NoMoreLines
  <2>2. Reader!NoEnd' = Reader!NoEnd
    BY <2>1 DEF Reader!NoEnd, Reader!Ends
  <2>3. (buf' = <<>> /\ rest' = <<>>) \/ (Reader!Full' /\ Reader!NoEnd')
    BY <2>1, <2>2, SameText DEF LinesInv
  <2>4. line' = Reader!NoLine /\ Reader!NoLine' = Reader!NoLine
    BY <2>1 DEF Reader!NoLine
  <2> QED BY <2>1, <2>3, <2>4, SameText DEF LinesInv
<1>2. CASE Reader!GetNextLine /\ ~Reader!NoMoreLines
  BY <1>2, FindLineInv, LastLineInv, ReadInv DEF Reader!GetNextLine
<1>3. CASE Reader!PopLine
  BY <1>3, PopLineInv
<1>4. CASE UNCHANGED Reader!lineVars
  <2>1. UNCHANGED <<text, rest, buf, hit_eof, line, lines, reading>>
    BY <1>4 DEF Reader!lineVars
  <2>2. Reader!NoEnd' = Reader!NoEnd /\ Reader!NoLine' = Reader!NoLine
    BY <2>1 DEF Reader!NoEnd, Reader!Ends, Reader!NoLine
  <2> QED BY <2>1, <2>2, SameText DEF LinesInv
<1> QED BY <1>1, <1>2, <1>3, <1>4 DEF Reader!Step

LEMMA LinesInvSuffices == LinesInv => Reader!TypeOK /\ Reader!LinesAreWhole
<1> SUFFICES ASSUME LinesInv PROVE Reader!TypeOK /\ Reader!LinesAreWhole
  OBVIOUS
<1>1. line \in 0..(kMaxLineLen - 1) \cup {Reader!NoLine}
  <2> SUFFICES ASSUME line # Reader!NoLine PROVE line \in 0..(kMaxLineLen - 1)
    OBVIOUS
  <2>1. /\ line \in Nat /\ line + 1 \in DOMAIN buf /\ buf \in Seq(LineBytes)
        /\ Len(buf) <= kMaxLineLen /\ kMaxLineLen \in Nat
    BY LinesAssumption DEF LinesInv, Reader!Ends
  <2>2. line + 1 \in 1..Len(buf) /\ Len(buf) \in Nat
    BY <2>1
  <2> QED BY <2>1, <2>2
<1>2. Reader!TypeOK
  BY <1>1 DEF LinesInv, Reader!TypeOK
<1>3. Reader!LinesAreWhole
  BY DEF LinesInv, HasAll, Reader!LinesAreWhole
<1> QED BY <1>2, <1>3

\* For every file and every size of the buffer, the lines are read whole, in order, and
\* all that fit.
THEOREM LinesAreWholeHolds ==
  Reader!Init /\ [][Reader!Step]_(Reader!lineVars) => []Reader!LinesAreWhole
BY LinesInitInv, LinesStepInv, LinesInvSuffices, PTL

(***************************************************************************)
(* The way of a stack to who walks it: what is known of any map of ranges  *)
(* is known of the map of the reader.                                      *)
(***************************************************************************)

StackRanges == INSTANCE SequentialProofs
  WITH MaxAddress <- (EndPage + 1) * StackPage, MaxStores <- 2 * NumThreads

\* The addresses of the stacks are an address space, as the map needs it.
LEMMA StackSpace ==
  /\ (EndPage + 1) * StackPage \in Nat /\ 2 * NumThreads \in Nat
  /\ StackRanges!RangeAssumption
<1>1. (EndPage + 1) * StackPage \in Nat /\ 2 * NumThreads \in Nat
  BY StacksAssumption
<1> QED BY <1>1, RangeAssumption DEF StackRanges!RangeAssumption

\* A call of StoreRange goes on in the one as in the other.
LEMMA StackRefuse ==
  ASSUME NEW h, Threads!Ranges!Refuse(h)
  PROVE  StackRanges!Refuse(h)
BY DEF Threads!Ranges!Refuse, StackRanges!Refuse, Threads!Ranges!InTheWay, StackRanges!InTheWay,
       Threads!Ranges!LowerBound, StackRanges!LowerBound, Threads!Ranges!High, StackRanges!High,
       Threads!Ranges!ReturnFalse, StackRanges!ReturnFalse

LEMMA StackCutThis ==
  ASSUME NEW h, Threads!Ranges!CutThisAbove(h) \/ Threads!Ranges!CutThisBelow(h)
  PROVE  StackRanges!CutThisAbove(h) \/ StackRanges!CutThisBelow(h)
BY DEF Threads!Ranges!CutThisAbove, StackRanges!CutThisAbove,
       Threads!Ranges!CutThisBelow, StackRanges!CutThisBelow,
       Threads!Ranges!InTheWay, StackRanges!InTheWay, Threads!Ranges!LowerBound,
       StackRanges!LowerBound, Threads!Ranges!High, StackRanges!High

LEMMA StackCutOther ==
  ASSUME NEW h, Threads!Ranges!CutOtherAbove(h) \/ Threads!Ranges!CutOtherBelow(h)
  PROVE  StackRanges!CutOtherAbove(h) \/ StackRanges!CutOtherBelow(h)
BY DEF Threads!Ranges!CutOtherAbove, StackRanges!CutOtherAbove,
       Threads!Ranges!CutOtherBelow, StackRanges!CutOtherBelow,
       Threads!Ranges!InTheWay, StackRanges!InTheWay, Threads!Ranges!LowerBound,
       StackRanges!LowerBound, Threads!Ranges!High, StackRanges!High,
       Threads!Ranges!With, StackRanges!With, Threads!Ranges!Minus, StackRanges!Minus,
       Threads!Ranges!MakeRange, StackRanges!MakeRange

LEMMA StackInsert ==
  ASSUME Threads!Ranges!Insert
  PROVE  StackRanges!Insert
BY DEF Threads!Ranges!Insert, StackRanges!Insert, Threads!Ranges!IsFree, StackRanges!IsFree,
       Threads!Ranges!LowerBound, StackRanges!LowerBound, Threads!Ranges!High, StackRanges!High,
       Threads!Ranges!With, StackRanges!With, Threads!Ranges!MakeRange, StackRanges!MakeRange

LEMMA StackBounds ==
  /\ Threads!Ranges!InBounds <=> StackRanges!InBounds
  /\ Threads!Ranges!OutOfBounds <=> StackRanges!OutOfBounds
BY DEF Threads!Ranges!InBounds, StackRanges!InBounds, Threads!Ranges!OutOfBounds,
       StackRanges!OutOfBounds, Threads!Ranges!High, StackRanges!High,
       Threads!Ranges!ReturnFalse, StackRanges!ReturnFalse

LEMMA StackCallGoesOn == Threads!Ranges!StoreRangeInternal => StackRanges!StoreRangeInternal
BY StackRefuse, StackCutThis, StackCutOther, StackInsert, StackBounds
   DEF Threads!Ranges!StoreRangeInternal, StackRanges!StoreRangeInternal

\* What such a call leaves as it is, and what it says when it returns.
LEMMA StackCallKeeps ==
  ASSUME Threads!Ranges!StoreRangeInternal
  PROVE  /\ UNCHANGED <<merge_strategy, asked>> /\ call # NoCall
         /\ \/ stored' = stored
            \/ call' = NoCall /\ stored' = stored \cup {call.entry}
BY DEF Threads!Ranges!StoreRangeInternal, Threads!Ranges!Refuse, Threads!Ranges!CutThisAbove,
       Threads!Ranges!CutThisBelow, Threads!Ranges!CutOtherAbove, Threads!Ranges!CutOtherBelow,
       Threads!Ranges!Insert, Threads!Ranges!OutOfBounds, Threads!Ranges!ReturnFalse

\* The invariant of a map holds of this one.
LEMMA StackMapBegins ==
  ASSUME Threads!RangesInit
  PROVE  StackRanges!StrategyInv /\ merge_strategy = "exclusive"
<1>1. StackRanges!RangeInit /\ merge_strategy = "exclusive"
  BY DEF Threads!RangesInit, Threads!Ranges!RangeInit, StackRanges!RangeInit
<1> QED
  BY <1>1, StackRanges!StrategyInitInv, StackSpace, FileAssumption, AllocatorAssumption

LEMMA StackMapGoesOn ==
  ASSUME StackRanges!StrategyInv,
         \/ Threads!Ranges!StoreRangeInternal
         \/ UNCHANGED rangeVars
         \/ \E base \in 0..((EndPage + 1) * StackPage), bytes \in 0..((EndPage + 1) * StackPage + 1) :
              Threads!Ranges!StoreRange(base, bytes)
  PROVE  (StackRanges!StrategyInv)'
<1>1. [StackRanges!RangeStep]_(StackRanges!rangeVars)
  <2>1. CASE Threads!Ranges!StoreRangeInternal
    BY <2>1, StackCallGoesOn DEF StackRanges!RangeStep
  <2>2. CASE UNCHANGED rangeVars
    BY <2>2 DEF rangeVars, StackRanges!rangeVars
  <2>3. ASSUME NEW base \in 0..((EndPage + 1) * StackPage),
               NEW bytes \in 0..((EndPage + 1) * StackPage + 1),
               Threads!Ranges!StoreRange(base, bytes)
        PROVE  StackRanges!RangeStep
    <3>1. StackRanges!StoreRange(base, bytes)
      BY <2>3 DEF Threads!Ranges!StoreRange, StackRanges!StoreRange
    <3> QED BY <3>1 DEF StackRanges!RangeStep, StackRanges!Addresses
  <2> QED BY <2>1, <2>2, <2>3
<1> QED
  BY <1>1, StackRanges!StrategyStepInv, StackSpace, FileAssumption, AllocatorAssumption

\* What StoreRange was called with, and whether each region was stored.
StackEntry(e) == [base |-> memory_blocks[e].start, size |-> memory_blocks[e].length]
ListOK ==
  /\ region_index \in 1..(Len(memory_blocks) + 1)
  /\ memory_list \in {"unread", "reading", "valid", "refused"}
  /\ Len(asked) = IF memory_list \in {"reading", "refused"} THEN region_index ELSE region_index - 1
  /\ Len(asked) <= Len(memory_blocks)
  /\ \A e \in 1..Len(asked) : asked[e] = StackEntry(e)
  /\ \A e \in 1..(region_index - 1) : e \in stored
  /\ memory_list # "reading" => call = NoCall
  /\ memory_list = "refused" => region_index \notin stored
  /\ memory_list = "valid" => region_index = Len(memory_blocks) + 1
  /\ dumping # "done" => asked = <<>> /\ memory_list = "unread"

MemoryInv ==
  /\ StacksInv
  /\ Len(memory_blocks) <= 2 * Len(stacks)
  /\ StackRanges!StrategyInv /\ merge_strategy = "exclusive"
  /\ ListOK

LEMMA MemoryInitInv ==
  ASSUME Threads!MemoryInit, Threads!RangesInit
  PROVE  MemoryInv
<1>1. /\ memory_blocks = <<>> /\ stacks = <<>> /\ dumping = "threads"
      /\ region_index = 1 /\ memory_list = "unread"
      /\ asked = <<>> /\ call = NoCall /\ stored = {}
  BY DEF Threads!MemoryInit, Threads!Init, Threads!RangesInit, Threads!Ranges!RangeInit
<1>2. Len(memory_blocks) = 0 /\ Len(stacks) = 0 /\ Len(asked) = 0
  BY <1>1
<1>3. ListOK
  BY <1>1, <1>2 DEF ListOK
<1>4. StacksInv /\ StackRanges!StrategyInv /\ merge_strategy = "exclusive"
  BY StacksInitInv, StackMapBegins
<1> QED BY <1>2, <1>3, <1>4 DEF MemoryInv

\* A block is of the mapping, so its range is one that the map can have.
LEMMA BlockTypes ==
  ASSUME StacksInv, NEW e \in 1..Len(memory_blocks)
  PROVE  /\ memory_blocks[e].start \in 0..((EndPage + 1) * StackPage)
         /\ memory_blocks[e].length \in 1..((EndPage + 1) * StackPage)
         /\ 0 < memory_blocks[e].start
         /\ memory_blocks[e].start + memory_blocks[e].length - 1 <= (EndPage + 1) * StackPage
<1>1. memory_blocks[e] \in Blocks
  <2>1. memory_blocks \in Seq(Blocks)
    BY DEF StacksInv
  <2> HIDE DEF Blocks
  <2> QED BY <2>1, Element
<1> DEFINE s == memory_blocks[e].start
           n == memory_blocks[e].length
           top == (EndPage + 1) * StackPage
           low == FirstPage * StackPage
           high == EndPage * StackPage
<1>2. s \in Threads!AnyAddress /\ n \in 1..Capture /\ s..(s + n - 1) \subseteq Threads!Mapped
  BY <1>1 DEF Blocks
<1>3. top \in Nat /\ low \in Nat /\ high \in Nat /\ 0 < low /\ top = high + StackPage
  <2>1. FirstPage \in Nat /\ FirstPage > 0 /\ StackPage \in Nat /\ StackPage > 0 /\ EndPage \in Nat
    BY StacksAssumption
  <2>2. low >= 1
    BY <2>1
  <2> QED BY <2>1, <2>2
<1>4. Threads!AnyAddress = 0..(top - 1) /\ Threads!Mapped = low..(high - 1)
  BY DEF Threads!AnyAddress, Threads!Mapped
<1>5. Capture \in Nat /\ StackPage \in Nat
  BY StackConstants
<1> HIDE DEF s, n, top, low, high
<1>6. s \in Nat /\ n \in Nat /\ n > 0
  BY <1>2, <1>3, <1>4, <1>5
<1>7. s \in s..(s + n - 1) /\ s + n - 1 \in s..(s + n - 1)
  BY <1>6
<1>8. low <= s /\ s + n - 1 <= high - 1
  BY <1>2, <1>4, <1>7
<1>9. /\ s \in 0..top /\ n \in 1..top /\ 0 < s /\ s + n - 1 <= top
  BY <1>3, <1>5, <1>6, <1>8
<1> QED BY <1>9 DEF s, n, top

\* The memory of the threads changes before there is a list, and it grows by two blocks
\* for a thread.
LEMMA ThreadStepMemory ==
  ASSUME MemoryInv, [Threads!Step]_(Threads!stackVars),
         UNCHANGED <<region_index, memory_list, rangeVars>>
  PROVE  MemoryInv'
<1>1. StacksInv'
  BY StacksStepInv DEF MemoryInv
<1>2. (StackRanges!StrategyInv)' /\ merge_strategy' = "exclusive"
  BY StackMapGoesOn DEF MemoryInv, rangeVars
<1>3. /\ memory_blocks \in Seq(Blocks) /\ stacks \in Seq(Copies)
      /\ Len(memory_blocks) \in Nat /\ Len(stacks) \in Nat
  BY DEF MemoryInv, StacksInv
<1>4. \/ /\ UNCHANGED <<memory_blocks, stacks>>
         /\ dumping' = dumping \/ dumping = "threads"
      \/ /\ dumping = "threads" /\ dumping' = "threads"
         /\ Len(memory_blocks) <= Len(memory_blocks') /\ Len(memory_blocks') \in Nat
         /\ Len(memory_blocks') <= Len(memory_blocks) + 2
         /\ Len(stacks') = Len(stacks) + 1
  <2>1. ASSUME NEW sp \in Threads!StackPointers, NEW ip \in Threads!InstructionPointers,
               NEW skips \in BOOLEAN, Threads!WriteThread(sp, ip, skips)
        PROVE  /\ dumping = "threads" /\ dumping' = "threads"
               /\ Len(memory_blocks) <= Len(memory_blocks') /\ Len(memory_blocks') \in Nat
               /\ Len(memory_blocks') <= Len(memory_blocks) + 2
               /\ Len(stacks') = Len(stacks) + 1
    <3> DEFINE i == Len(stacks) + 1
               stack == IF Threads!HasStackInfo(sp) /\ ~skips
                        THEN <<Threads!StackCopy(i, sp)>> ELSE <<>>
               code == IF i = crash_thread /\ ip \in Threads!Mapped
                       THEN <<Threads!IPMemory(ip)>> ELSE <<>>
               copy == IF stack = <<>> THEN [Threads!Nowhere EXCEPT !.start = sp] ELSE stack[1]
               Any == Blocks \cup {Threads!StackCopy(i, sp), Threads!IPMemory(ip)}
    <3>1. /\ dumping = "threads" /\ dumping' = dumping
          /\ memory_blocks' = (memory_blocks \o stack) \o code
          /\ stacks' = Append(stacks, copy)
      BY <2>1 DEF Threads!WriteThread
    <3>2. stack \in Seq(Any) /\ code \in Seq(Any) /\ Len(stack) \in {0, 1} /\ Len(code) \in {0, 1}
      <4>1. ASSUME NEW x \in Any
            PROVE  /\ <<x>> \in Seq(Any) /\ Len(<<x>>) = 1
                   /\ <<>> \in Seq(Any) /\ Len(<<>>) = 0
        <5> HIDE DEF Any
        <5> QED BY <4>1
      <4>2. Threads!StackCopy(i, sp) \in Any /\ Threads!IPMemory(ip) \in Any
        OBVIOUS
      <4> HIDE DEF Any, i
      <4> QED BY <4>1, <4>2
    <3>3. memory_blocks \in Seq(Any)
      BY <1>3, SeqMonotonic
    <3> HIDE DEF stack, code, copy, Any, i
    <3>4. Len(memory_blocks') = Len(memory_blocks) + Len(stack) + Len(code)
      BY <3>1, <3>2, <3>3
    <3>5. Len(stacks') = Len(stacks) + 1
      BY <1>3, <3>1
    <3>6. ASSUME NEW n \in Nat, NEW a \in {0, 1}, NEW b \in {0, 1}
          PROVE  n <= n + a + b /\ n + a + b \in Nat /\ n + a + b <= n + 2
      OBVIOUS
    <3>7. /\ Len(memory_blocks) <= Len(memory_blocks') /\ Len(memory_blocks') \in Nat
          /\ Len(memory_blocks') <= Len(memory_blocks) + 2
      BY <1>3, <3>2, <3>4, <3>6
    <3> QED BY <3>1, <3>5, <3>7
  <2>2. CASE Threads!WriteFails \/ Threads!ThreadsAreWritten \/ UNCHANGED Threads!stackVars
    BY <2>2 DEF Threads!WriteFails, Threads!ThreadsAreWritten, Threads!stackVars
  <2> QED BY <2>1, <2>2 DEF Threads!Step
<1>5. Len(memory_blocks') <= 2 * Len(stacks')
  BY <1>3, <1>4 DEF MemoryInv
<1>6. ListOK'
  <2>1. UNCHANGED <<region_index, memory_list, call, asked, stored>>
    BY DEF rangeVars
  <2>2. CASE UNCHANGED <<memory_blocks, stacks>> /\ (dumping' = dumping \/ dumping = "threads")
    BY <2>1, <2>2 DEF MemoryInv, ListOK, StackEntry
  <2>3. CASE /\ dumping = "threads" /\ dumping' = "threads"
             /\ Len(memory_blocks) <= Len(memory_blocks') /\ Len(memory_blocks') \in Nat
    <3>1. asked = <<>> /\ Len(asked) = 0 /\ memory_list = "unread" /\ region_index = 1
      BY <1>3, <2>3 DEF MemoryInv, ListOK
    <3> QED BY <1>3, <2>1, <2>3, <3>1 DEF MemoryInv, ListOK
  <2> QED BY <1>4, <2>2, <2>3
<1> QED BY <1>1, <1>2, <1>5, <1>6 DEF MemoryInv

\* The reader takes the regions one by one, and stops at one that it cannot store.
LEMMA ListStepMemory ==
  ASSUME MemoryInv,
         \/ Threads!ReadRegion \/ Threads!RegionIsStored \/ Threads!RefuseRegion
         \/ Threads!ListIsRead \/ Threads!InStoreRange
  PROVE  MemoryInv'
<1>1. /\ StacksInv /\ StackRanges!StrategyInv /\ ListOK /\ merge_strategy = "exclusive"
      /\ Len(memory_blocks) <= 2 * Len(stacks) /\ Len(memory_blocks) \in Nat
      /\ region_index \in Nat /\ asked \in Seq([base : StackRanges!Addresses, size : Nat])
      /\ Len(asked) \in Nat
  BY DEF MemoryInv, ListOK, StacksInv, StackRanges!StrategyInv, StackRanges!RangesInv, StackRanges!CallOK
<1>2. UNCHANGED Threads!stackVars /\ [Threads!Step]_(Threads!stackVars)
      /\ UNCHANGED <<memory_blocks, stacks, dumping>>
  BY DEF Threads!ReadRegion, Threads!RegionIsStored, Threads!RefuseRegion, Threads!ListIsRead,
         Threads!InStoreRange, Threads!stackVars
<1>3. StacksInv'
  BY <1>1, <1>2, StacksStepInv
<1>4. CASE Threads!ReadRegion
  <2> DEFINE r == region_index
             b == memory_blocks[r]
             a == [base |-> b.start, size |-> b.length]
  <2>1. /\ memory_list = "unread" /\ memory_list' = "reading" /\ dumping = "done"
        /\ r <= Len(memory_blocks) /\ Threads!Ranges!StoreRange(b.start, b.length)
        /\ UNCHANGED region_index
    BY <1>4 DEF Threads!ReadRegion
  <2>2. /\ asked' = Append(asked, a) /\ UNCHANGED <<merge_strategy, map, stored>>
        /\ call = NoCall
    BY <2>1 DEF Threads!Ranges!StoreRange
  <2>3. r \in 1..Len(memory_blocks)
    BY <1>1, <2>1 DEF ListOK
  <2>4. (StackRanges!StrategyInv)'
    <3>1. b.start \in 0..((EndPage + 1) * StackPage) /\ b.length \in 0..((EndPage + 1) * StackPage + 1)
      BY <1>1, <2>3, BlockTypes, StackSpace
    <3> HIDE DEF b
    <3> QED BY <1>1, <2>1, <3>1, StackMapGoesOn
  <2>5. Len(asked) = r - 1 /\ \A e \in 1..Len(asked) : asked[e] = StackEntry(e)
    BY <1>1, <2>1 DEF ListOK
  <2>6. /\ Len(asked') = r /\ asked'[r] = a
        /\ \A e \in 1..(r - 1) : asked'[e] = asked[e]
    <3> DEFINE R == [base : StackRanges!Addresses, size : Nat]
    <3>1. a \in R
      <4>1. b.start \in StackRanges!Addresses /\ b.length \in Nat
        BY <1>1, <2>3, BlockTypes, StackSpace DEF StackRanges!Addresses
      <4> HIDE DEF b
      <4> QED BY <4>1
    <3>2. asked \in Seq(R)
      BY <1>1
    <3> HIDE DEF a, R
    <3>3. Len(asked') = Len(asked) + 1 /\ asked'[Len(asked) + 1] = a
          /\ \A e \in 1..Len(asked) : asked'[e] = asked[e]
      BY <2>2, <3>1, <3>2, AppendProperties
    <3> QED BY <1>1, <2>5, <3>3
  <2>7. \A e : StackEntry(e)' = StackEntry(e)
    BY <1>2 DEF StackEntry
  <2>8. \A e \in 1..r : asked'[e] = StackEntry(e)'
    <3>1. asked'[r] = StackEntry(r)
      BY <2>6 DEF StackEntry
    <3> HIDE DEF r, a
    <3>2. \A e \in 1..r : e \in 1..(r - 1) \/ e = r
      BY <1>1, <2>3
    <3> QED BY <2>5, <2>6, <2>7, <3>1, <3>2
  <2>9. ListOK'
    <3> HIDE DEF a, b
    <3> QED BY <1>1, <1>2, <2>1, <2>2, <2>3, <2>6, <2>8 DEF ListOK
  <2> QED BY <1>1, <1>2, <1>3, <2>2, <2>4, <2>9 DEF MemoryInv
<1>5. CASE Threads!InStoreRange
  <2>1. Threads!Ranges!StoreRangeInternal /\ UNCHANGED <<region_index, memory_list>>
    BY <1>5 DEF Threads!InStoreRange, Threads!memoryVars
  <2>2. /\ UNCHANGED <<merge_strategy, asked>> /\ call # NoCall
        /\ stored \subseteq stored'
    BY <2>1, StackCallKeeps
  <2>3. (StackRanges!StrategyInv)'
    BY <1>1, <2>1, StackMapGoesOn
  <2>4. memory_list = "reading"
    BY <1>1, <2>2 DEF ListOK
  <2>5. ListOK'
    BY <1>1, <1>2, <2>1, <2>2, <2>4 DEF ListOK, StackEntry
  <2> QED BY <1>1, <1>2, <1>3, <2>2, <2>3, <2>5 DEF MemoryInv
<1>6. CASE Threads!RegionIsStored \/ Threads!RefuseRegion \/ Threads!ListIsRead
  <2>1. UNCHANGED rangeVars /\ UNCHANGED <<merge_strategy, map, call, asked, stored>>
    BY <1>6 DEF Threads!RegionIsStored, Threads!RefuseRegion, Threads!ListIsRead, Threads!rangeVars,
                rangeVars
  <2>2. (StackRanges!StrategyInv)'
    BY <1>1, <2>1, StackMapGoesOn
  <2>3. \A e : StackEntry(e)' = StackEntry(e)
    BY <1>2 DEF StackEntry
  <2>4. CASE Threads!RegionIsStored
    <3>1. /\ memory_list = "reading" /\ memory_list' = "unread" /\ call = NoCall
          /\ Len(asked) \in stored /\ region_index' = region_index + 1
      BY <2>4 DEF Threads!RegionIsStored, Threads!Stored
    <3>2. Len(asked) = region_index
      BY <1>1, <3>1 DEF ListOK
    <3>3. \A e \in 1..(region_index' - 1) : e \in 1..(region_index - 1) \/ e = region_index
      BY <1>1, <3>1
    <3>4. ListOK'
      BY <1>1, <1>2, <2>1, <2>3, <3>1, <3>2, <3>3 DEF ListOK
    <3> QED BY <1>1, <1>2, <1>3, <2>1, <2>2, <3>4 DEF MemoryInv
  <2>5. CASE Threads!RefuseRegion
    <3>1. /\ memory_list = "reading" /\ memory_list' = "refused" /\ call = NoCall
          /\ (asked # <<>> => Len(asked) \notin stored) /\ UNCHANGED region_index
      BY <2>5 DEF Threads!RefuseRegion, Threads!Stored
    <3>2. Len(asked) = region_index /\ asked # <<>>
      BY <1>1, <3>1 DEF ListOK
    <3>3. ListOK'
      BY <1>1, <1>2, <2>1, <2>3, <3>1, <3>2 DEF ListOK
    <3> QED BY <1>1, <1>2, <1>3, <2>1, <2>2, <3>3 DEF MemoryInv
  <2>6. CASE Threads!ListIsRead
    <3>1. /\ memory_list = "unread" /\ memory_list' = "valid" /\ dumping = "done"
          /\ region_index > Len(memory_blocks) /\ UNCHANGED region_index
      BY <2>6 DEF Threads!ListIsRead
    <3>2. ListOK'
      BY <1>1, <1>2, <2>1, <2>3, <3>1 DEF ListOK
    <3> QED BY <1>1, <1>2, <1>3, <2>1, <2>2, <3>2 DEF MemoryInv
  <2> QED BY <1>6, <2>4, <2>5, <2>6
<1> QED BY <1>4, <1>5, <1>6

LEMMA MemoryStepInv ==
  MemoryInv /\ [Threads!MemoryStep]_<<Threads!stackVars, rangeVars, Threads!memoryVars>> => MemoryInv'
<1>1. ASSUME MemoryInv, Threads!Step, UNCHANGED <<Threads!rangeVars, Threads!memoryVars>>
      PROVE  MemoryInv'
  BY <1>1, ThreadStepMemory DEF Threads!memoryVars, Threads!rangeVars, rangeVars
<1>2. ASSUME MemoryInv, UNCHANGED <<Threads!stackVars, rangeVars, Threads!memoryVars>>
      PROVE  MemoryInv'
  BY <1>2, ThreadStepMemory DEF Threads!memoryVars
<1> QED BY <1>1, <1>2, ListStepMemory DEF Threads!MemoryStep

\* The region that is found for an address is the one that has it.
LEMMA RegionIsFound ==
  ASSUME MemoryInv, memory_list = "valid", NEW address \in 0..((EndPage + 1) * StackPage)
  PROVE  Threads!RegionForAddress(address) =
           {r \in 1..Len(memory_blocks) : address \in Threads!Words(memory_blocks[r])}
<1>1. /\ StacksInv /\ StackRanges!StrategyInv /\ merge_strategy = "exclusive"
      /\ call = NoCall /\ Len(asked) = Len(memory_blocks) /\ Len(memory_blocks) \in Nat
      /\ \A e \in 1..Len(asked) : e \in stored /\ asked[e] = StackEntry(e)
  BY DEF MemoryInv, ListOK, StacksInv
<1>2. StackRanges!FollowsStrategy
  BY <1>1, StackRanges!StrategyInvSuffices, StackSpace, FileAssumption, AllocatorAssumption
<1>3. /\ address \in StackRanges!Addresses
      /\ Threads!RegionForAddress(address) = {map[h].entry : h \in StackRanges!Retrieved(address)}
  BY DEF StackRanges!Addresses, Threads!RegionForAddress, StackRanges!Retrieved,
         Threads!Ranges!Retrieved, StackRanges!LowerBound, Threads!Ranges!LowerBound
<1>4. Threads!RegionForAddress(address) = StackRanges!AskedFor(address)
  BY <1>1, <1>2, <1>3 DEF StackRanges!FollowsStrategy
<1>5. stored = 1..Len(memory_blocks)
  BY <1>1, StackRanges!EntryTypes, StackSpace, FileAssumption, AllocatorAssumption
<1>6. ASSUME NEW r \in 1..Len(memory_blocks)
      PROVE  address \in Threads!Words(memory_blocks[r]) <=>
               asked[r].base <= address /\ address <= StackRanges!AskedHigh(r)
  <2>1. asked[r].base = memory_blocks[r].start /\ asked[r].size = memory_blocks[r].length
    <3>1. asked[r] = StackEntry(r)
      BY <1>1
    <3> QED BY <3>1 DEF StackEntry
  <2>2. memory_blocks[r].start \in Nat /\ memory_blocks[r].length \in Nat
    BY <1>1, BlockTypes
  <2> QED BY <2>1, <2>2, StackSpace DEF Threads!Words, StackRanges!AskedHigh
<1> QED BY <1>4, <1>5, <1>6 DEF StackRanges!AskedFor

\* No two regions of a list that was read have an address in common.
LEMMA RegionsApart ==
  ASSUME MemoryInv, memory_list = "valid",
         NEW a \in 1..Len(memory_blocks), NEW b \in 1..Len(memory_blocks), a # b
  PROVE  ~Threads!Overlap(a, b)
<1>1. StacksInv /\ StackRanges!StrategyInv /\ merge_strategy = "exclusive" /\ call = NoCall
  BY DEF MemoryInv, ListOK
<1>2. SUFFICES ASSUME NEW x \in Threads!Words(memory_blocks[a]), x \in Threads!Words(memory_blocks[b])
               PROVE  FALSE
  BY DEF Threads!Overlap
<1>3. x \in 0..((EndPage + 1) * StackPage)
  <2>1. /\ memory_blocks[a].start \in 0..((EndPage + 1) * StackPage)
        /\ memory_blocks[a].length \in Nat
        /\ memory_blocks[a].start + memory_blocks[a].length - 1 <= (EndPage + 1) * StackPage
    BY <1>1, BlockTypes, StackSpace
  <2> QED BY <1>2, <2>1, StackSpace DEF Threads!Words
<1>4. {a, b} \subseteq Threads!RegionForAddress(x)
  BY <1>2, <1>3, RegionIsFound
<1>5. PICK h \in Threads!Ranges!Retrieved(x), k \in Threads!Ranges!Retrieved(x) :
        map[h].entry = a /\ map[k].entry = b
  BY <1>4 DEF Threads!RegionForAddress
<1>6. h = k
  <2>1. h \in Nat /\ k \in Nat /\ h <= k /\ k <= h
    BY <1>1, <1>5 DEF Threads!Ranges!Retrieved, Threads!Ranges!LowerBound, StackRanges!StrategyInv,
                      StackRanges!RangesInv, StackRanges!MapOK
  <2> QED BY <2>1
<1> QED BY <1>5, <1>6

\* The walker has the stack of its thread, and the reader refuses no list but one with
\* an overlap.
LEMMA MemoryInvSuffices == MemoryInv => Threads!StacksAreFound
<1> SUFFICES ASSUME MemoryInv PROVE Threads!StacksAreFound
  OBVIOUS
<1>1. /\ StacksInv /\ StackRanges!StrategyInv /\ merge_strategy = "exclusive" /\ ListOK
      /\ Len(memory_blocks) \in Nat /\ DOMAIN memory_blocks = 1..Len(memory_blocks)
      /\ Len(stacks) \in Nat /\ DOMAIN stacks = 1..Len(stacks)
  BY DEF MemoryInv, StacksInv
<1>2. ASSUME memory_list = "refused"
      PROVE  \E a, b \in DOMAIN memory_blocks : a # b /\ Threads!Overlap(a, b)
  <2> DEFINE r == region_index
  <2>1. /\ r = Len(asked) /\ r \in 1..Len(memory_blocks) /\ r \notin stored /\ call = NoCall
        /\ \A e \in 1..r : asked[e] = StackEntry(e)
    BY <1>1, <1>2 DEF ListOK
  <2>2. \A e \in 1..r : /\ asked[e].base = memory_blocks[e].start
                        /\ asked[e].size = memory_blocks[e].length
    <3>1. ASSUME NEW e \in 1..r
          PROVE  /\ asked[e].base = memory_blocks[e].start
                 /\ asked[e].size = memory_blocks[e].length
      <4>1. asked[e] = StackEntry(e)
        BY <2>1
      <4> QED BY <4>1 DEF StackEntry
    <3> QED BY <3>1
  <2>3. \A e \in 1..r : /\ asked[e].base \in Nat /\ asked[e].size \in Nat /\ asked[e].size > 0
                        /\ StackRanges!AskedHigh(e) \in Nat
                        /\ StackRanges!AskedHigh(e) <= (EndPage + 1) * StackPage
                        /\ Threads!Words(memory_blocks[e]) = asked[e].base..StackRanges!AskedHigh(e)
    <3>1. ASSUME NEW e \in 1..r
          PROVE  /\ asked[e].base \in Nat /\ asked[e].size \in Nat /\ asked[e].size > 0
                 /\ StackRanges!AskedHigh(e) \in Nat
                 /\ StackRanges!AskedHigh(e) <= (EndPage + 1) * StackPage
                 /\ Threads!Words(memory_blocks[e]) = asked[e].base..StackRanges!AskedHigh(e)
      <4>1. e \in 1..Len(memory_blocks)
        BY <1>1, <2>1
      <4>2. /\ memory_blocks[e].start \in Nat /\ memory_blocks[e].length \in Nat
            /\ memory_blocks[e].length > 0
            /\ memory_blocks[e].start + memory_blocks[e].length - 1 <= (EndPage + 1) * StackPage
        BY <1>1, <4>1, BlockTypes, StackSpace
      <4> QED BY <2>2, <4>2 DEF Threads!Words, StackRanges!AskedHigh
    <3> QED BY <3>1
  <2>4. ~StackRanges!NoRange(r)
    BY <2>1, <2>3, StackSpace DEF StackRanges!NoRange
  <2>5. PICK o \in stored : StackRanges!Meets(r, o)
    BY <1>1, <2>1, <2>4 DEF StackRanges!StrategyInv, StackRanges!ExclusiveOK
  <2>6. o \in 1..r /\ o # r
    BY <1>1, <2>1, <2>5 DEF StackRanges!StrategyInv, StackRanges!EntriesOK
  <2>7. Threads!Overlap(r, o)
    <3>1. /\ asked[o].base <= StackRanges!AskedHigh(r)
          /\ asked[r].base <= StackRanges!AskedHigh(o)
      BY <2>5 DEF StackRanges!Meets
    <3> DEFINE p == asked[o].base
               q == asked[r].base
               P == StackRanges!AskedHigh(o)
               Q == StackRanges!AskedHigh(r)
    <3>2. p \in Nat /\ q \in Nat /\ P \in Nat /\ Q \in Nat /\ p <= P /\ q <= Q /\ p <= Q /\ q <= P
      BY <2>1, <2>3, <2>6, <3>1 DEF StackRanges!AskedHigh
    <3>3. Threads!Words(memory_blocks[o]) = p..P /\ Threads!Words(memory_blocks[r]) = q..Q
      BY <2>1, <2>3, <2>6
    <3> HIDE DEF p, q, P, Q
    <3>4. (p \in q..Q /\ p \in p..P) \/ (q \in q..Q /\ q \in p..P)
      BY <3>2
    <3> QED BY <3>3, <3>4 DEF Threads!Overlap
  <2>8. r \in DOMAIN memory_blocks /\ o \in DOMAIN memory_blocks
    BY <1>1, <2>1, <2>6
  <2> QED BY <2>6, <2>7, <2>8
<1>3. ASSUME memory_list = "valid", NEW r \in DOMAIN memory_blocks,
             NEW address \in Threads!Words(memory_blocks[r])
      PROVE  Threads!RegionForAddress(address) = {r}
  <2>1. address \in 0..((EndPage + 1) * StackPage)
    <3>1. /\ memory_blocks[r].start \in 0..((EndPage + 1) * StackPage)
          /\ memory_blocks[r].length \in Nat
          /\ memory_blocks[r].start + memory_blocks[r].length - 1 <= (EndPage + 1) * StackPage
      BY <1>1, BlockTypes, StackSpace
    <3> QED BY <1>3, <3>1, StackSpace DEF Threads!Words
  <2>2. \A q \in 1..Len(memory_blocks) : address \in Threads!Words(memory_blocks[q]) => q = r
    BY <1>1, <1>3, RegionsApart DEF Threads!Overlap
  <2> QED BY <1>1, <1>3, <2>1, <2>2, RegionIsFound
<1>4. ASSUME memory_list \in {"valid", "refused"}, NEW i \in DOMAIN stacks
      PROVE  /\ \A block \in Threads!ThreadMemory(i) : stacks[i].start \in Threads!Words(block)
             /\ Threads!ThreadMemory(i) = {} =>
                  memory_list = "refused" \/ \A r \in DOMAIN memory_blocks :
                    stacks[i].start \notin Threads!Words(memory_blocks[r])
  <2> DEFINE s == stacks[i].start
             top == (EndPage + 1) * StackPage
  <2>1. s \in 0..top /\ stacks[i].length \in Nat
    <3>1. stacks[i] \in Copies
      <4>1. stacks \in Seq(Copies) /\ i \in 1..Len(stacks)
        BY <1>1, <1>4 DEF StacksInv
      <4> HIDE DEF Copies
      <4> QED BY <4>1, Element
    <3>2. Threads!AnyAddress = 0..(top - 1) /\ Capture \in Nat /\ top \in Nat
      BY StackConstants, StackSpace DEF Threads!AnyAddress
    <3>3. s \in Threads!AnyAddress /\ stacks[i].length \in 0..Capture
      BY <3>1 DEF Copies
    <3> HIDE DEF s, top
    <3> QED BY <3>2, <3>3
  <2>2. CASE Threads!HasOwn(i)
    <3>1. Threads!ThreadMemory(i) = {stacks[i]} /\ stacks[i].length > 0
      BY <2>1, <2>2 DEF Threads!ThreadMemory, Threads!HasOwn
    <3>2. s \in Threads!Words(stacks[i])
      BY <2>1, <3>1, StackSpace DEF Threads!Words
    <3> QED BY <3>1, <3>2
  <2>3. CASE ~Threads!HasOwn(i)
    <3>1. Threads!ThreadMemory(i) =
            {memory_blocks[r] : r \in {r \in Threads!RegionForAddress(s) : s # 0}}
      BY <2>3 DEF Threads!ThreadMemory
    <3>2. CASE memory_list = "refused"
      BY <3>1, <3>2 DEF Threads!RegionForAddress
    <3>3. CASE memory_list = "valid"
      <4>1. Threads!RegionForAddress(s) =
              {r \in 1..Len(memory_blocks) : s \in Threads!Words(memory_blocks[r])}
        BY <2>1, <3>3, RegionIsFound
      <4>2. ASSUME NEW r \in 1..Len(memory_blocks), s \in Threads!Words(memory_blocks[r])
            PROVE  s # 0
        <5>1. memory_blocks[r].start \in Nat /\ memory_blocks[r].start > 0 /\ memory_blocks[r].length \in Nat
          BY <1>1, BlockTypes, StackSpace
        <5> QED BY <4>2, <5>1 DEF Threads!Words
      <4> HIDE DEF s
      <4>3. \A block \in Threads!ThreadMemory(i) : s \in Threads!Words(block)
        BY <3>1, <4>1
      <4>4. ASSUME NEW r \in 1..Len(memory_blocks), s \in Threads!Words(memory_blocks[r])
            PROVE  Threads!ThreadMemory(i) # {}
        BY <3>1, <4>1, <4>2, <4>4
      <4> QED BY <1>1, <4>3, <4>4 DEF s
    <3> QED BY <1>4, <3>2, <3>3
  <2> QED BY <2>2, <2>3
<1>5. memory_list = "valid" =>
        \A a, b \in DOMAIN memory_blocks : a # b => ~Threads!Overlap(a, b)
  BY <1>1, RegionsApart
<1> QED BY <1>2, <1>3, <1>4, <1>5 DEF Threads!StacksAreFound

\* The variables of the reader of the memory have their types.
LEMMA MemoryTypes == MemoryInv => Threads!MemoryTypeOK
<1> SUFFICES ASSUME MemoryInv PROVE Threads!MemoryTypeOK
  OBVIOUS
<1>1. /\ StacksInv /\ StackRanges!StrategyInv /\ ListOK /\ merge_strategy = "exclusive"
      /\ Len(memory_blocks) <= 2 * Len(stacks)
      /\ memory_blocks \in Seq(Blocks) /\ Len(stacks) <= NumThreads /\ Len(stacks) \in Nat
      /\ Len(memory_blocks) \in Nat /\ DOMAIN memory_blocks = 1..Len(memory_blocks)
  BY DEF MemoryInv, StacksInv
<1>2. Threads!TypeOK
  <2>1. ASSUME NEW i \in DOMAIN memory_blocks
        PROVE  memory_blocks[i] \in [start : Threads!AnyAddress, length : 1..Capture,
                                     around : Threads!AnyAddress]
    <3>1. memory_blocks[i] \in Blocks
      <4> HIDE DEF Blocks
      <4> QED BY <1>1, Element
    <3> QED BY <3>1 DEF Blocks
  <2> QED BY <1>1, <2>1 DEF Threads!TypeOK, StacksInv
<1>3. StackRanges!RangeTypeOK
  BY <1>1, StackRanges!StrategyTypes, StackSpace, FileAssumption, AllocatorAssumption
<1>4. Threads!Ranges!RangeTypeOK
  BY <1>3 DEF StackRanges!RangeTypeOK, Threads!Ranges!RangeTypeOK, StackRanges!Addresses,
              Threads!Ranges!Addresses, StackRanges!Ranges, Threads!Ranges!Ranges,
              StackRanges!Calls, Threads!Ranges!Calls
<1>5. region_index \in 1..(2 * NumThreads + 1)
  BY <1>1, StackConstants DEF ListOK
<1> QED BY <1>1, <1>2, <1>4, <1>5 DEF Threads!MemoryTypeOK, ListOK

\* Whatever the threads of a process and the limits on its dump, who walks a thread is
\* given the memory that was taken for it.
THEOREM StacksAreFoundHolds == Threads!MemorySpec => []Threads!StacksAreFound
<1> DEFINE v == <<Threads!stackVars, rangeVars, Threads!memoryVars>>
<1>1. [Threads!MemoryStep \/ (Threads!MemoryIsOver /\ UNCHANGED <<Threads!stackVars,
        Threads!rangeVars, Threads!memoryVars>>)]_<<Threads!stackVars, Threads!rangeVars,
        Threads!memoryVars>> => [Threads!MemoryStep]_v
  BY DEF Threads!rangeVars, rangeVars
<1>2. MemoryInv /\ [Threads!MemoryStep]_v => MemoryInv'
  BY MemoryStepInv
<1>3. Threads!MemoryInit /\ Threads!RangesInit => MemoryInv
  BY MemoryInitInv
<1> QED BY <1>1, <1>2, <1>3, MemoryInvSuffices, PTL DEF Threads!MemorySpec

(***************************************************************************)
(* The mappings of a process.                                              *)
(***************************************************************************)

Places ==
  [system : [start_addr : Nat, end_addr : Nat], start_addr : Nat, size : Nat,
   exec : BOOLEAN, name : Files \cup {NoName}]
On(l, a) == l.start <= a /\ a < l.end
Has(m, a) == m.system.start_addr <= a /\ a < m.system.end_addr
Below(m, o) == m.system.end_addr <= o.system.start_addr

\* A mapping is not empty, and only what was moved begins below where the kernel has it.
PlaceOK(m) ==
  /\ m.system.start_addr < m.system.end_addr /\ m.system.end_addr <= LastPage
  /\ m.start_addr <= m.system.start_addr
  /\ m.start_addr + m.size = m.system.end_addr

\* Mappings are in order, except for the program, which may be the first.
PlacesOK ==
  /\ \A j \in 1..Len(mappings) :
       /\ PlaceOK(mappings[j])
       /\ stage # "ready" => mappings[j].start_addr = mappings[j].system.start_addr
  /\ \A j, k \in 1..Len(mappings) :
       j < k /\ (j # 1 \/ stage = "lines" \/ entry_point = 0) => Below(mappings[j], mappings[k])
  /\ \A k \in 2..Len(mappings) : Below(mappings[1], mappings[k]) \/ Below(mappings[k], mappings[1])

\* A line is in a mapping of its name, and a mapping has no address but of a line.
IsPartOf(l, m) ==
  /\ m.system.start_addr <= l.start /\ l.end <= m.system.end_addr
  /\ m.name = l.name /\ (l.exec => m.exec)
LinesOK ==
  /\ \A i \in 1..Len(maps) : \E j \in 1..Len(mappings) : IsPartOf(maps[i], mappings[j])
  /\ \A j \in 1..Len(mappings) : \A a \in Nat :
       Has(mappings[j], a) => \E i \in 1..Len(maps) : On(maps[i], a)

MappingsInv ==
  /\ maps \in Seq(List!Lines) /\ Len(maps) <= MaxLines
  /\ mappings \in Seq(Places) /\ Len(mappings) <= Len(maps)
  /\ entry_point \in 0..LastPage
  /\ stage \in {"lines", "late", "ready"}
  /\ PlacesOK
  /\ LinesOK
  /\ stage = "lines" /\ Len(maps) > 0 =>
       /\ Len(mappings) > 0
       /\ mappings[Len(mappings)].system.end_addr = maps[Len(maps)].end
  /\ stage # "lines" /\ entry_point # 0 =>
       \A j \in 1..Len(mappings) : Has(mappings[j], entry_point) => j = 1

LEMMA MappingsInitInv == List!Init => MappingsInv
<1> SUFFICES ASSUME List!Init PROVE MappingsInv
  OBVIOUS
<1>1. /\ maps = <<>> /\ mappings = <<>> /\ entry_point \in 0..LastPage /\ stage = "lines"
      /\ Len(maps) = 0 /\ Len(mappings) = 0
  BY ModulesAssumption DEF List!Init
<1>2. <<>> \in Seq(List!Lines) /\ <<>> \in Seq(Places) /\ MaxLines \in Nat
  BY ModulesAssumption
<1> QED BY <1>1, <1>2 DEF MappingsInv, PlacesOK, LinesOK

\* A line is of addresses that there are.
LEMMA LineIs ==
  ASSUME NEW l \in List!Lines
  PROVE  /\ l.start \in Nat /\ l.end \in Nat /\ l.start < l.end /\ l.end <= LastPage
         /\ l.exec \in BOOLEAN /\ l.name \in Files \cup {NoName}
BY ModulesAssumption DEF List!Lines

LEMMA PlaceIs ==
  ASSUME NEW m \in Places
  PROVE  /\ m.system.start_addr \in Nat /\ m.system.end_addr \in Nat
         /\ m.start_addr \in Nat /\ m.size \in Nat
         /\ m.exec \in BOOLEAN /\ m.name \in Files \cup {NoName}
BY DEF Places

\* The kinds of the lines and the mappings, for the provers.
LEMMA MappingTypes ==
  ASSUME MappingsInv
  PROVE  /\ LastPage \in Nat /\ MaxLines \in Nat
         /\ Len(maps) \in Nat /\ Len(mappings) \in Nat
         /\ DOMAIN maps = 1..Len(maps) /\ DOMAIN mappings = 1..Len(mappings)
         /\ \A i \in 1..Len(maps) :
              /\ maps[i] \in List!Lines
              /\ maps[i].start \in Nat /\ maps[i].end \in Nat /\ maps[i].start < maps[i].end
         /\ \A j \in 1..Len(mappings) :
              /\ mappings[j] \in Places /\ PlaceOK(mappings[j])
              /\ mappings[j].system.start_addr \in Nat /\ mappings[j].system.end_addr \in Nat
              /\ mappings[j].start_addr \in Nat /\ mappings[j].size \in Nat
<1>1. LastPage \in Nat /\ MaxLines \in Nat
  BY ModulesAssumption
<1>2. maps \in Seq(List!Lines) /\ mappings \in Seq(Places) /\ PlacesOK
  BY DEF MappingsInv
<1>3. /\ Len(maps) \in Nat /\ Len(mappings) \in Nat
      /\ DOMAIN maps = 1..Len(maps) /\ DOMAIN mappings = 1..Len(mappings)
  BY <1>2
<1>4. \A i \in 1..Len(maps) : maps[i] \in List!Lines
  BY <1>2, Element
<1>5. \A j \in 1..Len(mappings) : mappings[j] \in Places
  <2> HIDE DEF Places
  <2> QED BY <1>2, Element
<1> QED BY <1>1, <1>2, <1>3, <1>4, <1>5, LineIs, PlaceIs DEF PlacesOK

\* Two mappings have no address in common.
LEMMA PlacesApart ==
  ASSUME MappingsInv, NEW j \in 1..Len(mappings), NEW k \in 1..Len(mappings), j # k
  PROVE  Below(mappings[j], mappings[k]) \/ Below(mappings[k], mappings[j])
<1>1. /\ PlacesOK /\ Len(mappings) \in Nat
  BY MappingTypes DEF MappingsInv
<1>2. CASE j = 1 \/ k = 1
  BY <1>1, <1>2 DEF PlacesOK
<1>3. CASE j # 1 /\ k # 1
  <2>1. j < k \/ k < j
    BY <1>1
  <2> QED BY <1>1, <1>3, <2>1 DEF PlacesOK
<1> QED BY <1>2, <1>3

LEMMA OneHas ==
  ASSUME MappingsInv, NEW j \in 1..Len(mappings), NEW k \in 1..Len(mappings), NEW a \in Int,
         Has(mappings[j], a), Has(mappings[k], a)
  PROVE  j = k
<1> DEFINE p == mappings[j].system
           q == mappings[k].system
<1>1. p.start_addr \in Nat /\ p.end_addr \in Nat /\ q.start_addr \in Nat /\ q.end_addr \in Nat
  BY MappingTypes
<1>2. p.start_addr <= a /\ a < p.end_addr /\ q.start_addr <= a /\ a < q.end_addr
  BY DEF Has
<1>3. j # k => p.end_addr <= q.start_addr \/ q.end_addr <= p.start_addr
  BY PlacesApart DEF Below
<1> HIDE DEF p, q
<1> QED BY <1>1, <1>2, <1>3

\* What is found for an address, with the bias of a library and without.
LEMMA FindMappingIs ==
  ASSUME NEW a
  PROVE  /\ List!FindMapping(a) =
              {j \in DOMAIN mappings : /\ List!Contains(mappings[j], a)
                                       /\ \A k \in 1..(j - 1) : ~List!Contains(mappings[k], a)}
         /\ List!FindMappingNoBias(a) =
              {j \in DOMAIN mappings : /\ Has(mappings[j], a)
                                       /\ \A k \in 1..(j - 1) : ~Has(mappings[k], a)}
BY DEF List!FindMapping, List!FindMappingNoBias, List!First, Has

LEMMA ReadLineIs ==
  ASSUME MappingsInv, NEW l \in List!Lines, List!ReadLine(l)
  PROVE  MappingsInv'
<1> DEFINE n == Len(mappings)
           last == mappings[n]
<1>1. /\ stage = "lines" /\ Len(maps) < MaxLines /\ maps' = Append(maps, l)
      /\ (maps # <<>> => maps[Len(maps)].end <= l.start)
      /\ UNCHANGED <<entry_point, stage>>
  BY DEF List!ReadLine
<1>2. /\ maps \in Seq(List!Lines) /\ mappings \in Seq(Places) /\ n \in Nat /\ n <= Len(maps)
      /\ Len(maps) \in Nat /\ MaxLines \in Nat /\ LinesOK /\ PlacesOK
  BY MappingTypes DEF MappingsInv
<1>3. /\ Len(maps') = Len(maps) + 1 /\ maps'[Len(maps) + 1] = l /\ maps' \in Seq(List!Lines)
      /\ \A i \in 1..Len(maps) : maps'[i] = maps[i]
      /\ Len(maps') <= MaxLines
  BY <1>1, <1>2
<1>4. /\ l.start \in Nat /\ l.end \in Nat /\ l.start < l.end /\ l.end <= LastPage
      /\ l.exec \in BOOLEAN /\ l.name \in Files \cup {NoName}
  BY LineIs
<1>5. \A j \in 1..n : mappings[j].system.end_addr <= l.start
  <2> SUFFICES ASSUME NEW j \in 1..n PROVE mappings[j].system.end_addr <= l.start
    OBVIOUS
  <2>1. /\ n \in 1..n /\ Len(maps) > 0 /\ maps # <<>>
        /\ last.system.end_addr = maps[Len(maps)].end
    BY <1>1, <1>2 DEF MappingsInv
  <2>2. last.system.end_addr <= l.start
    BY <1>1, <2>1
  <2>3. mappings[j].system.end_addr <= last.system.end_addr
    <3>0. CASE j = n
      BY <2>1, <3>0, MappingTypes
    <3>1. ASSUME j # n PROVE Below(mappings[j], last) /\ PlaceOK(last)
      <4>1. j < n
        BY <1>2, <3>1
      <4> QED BY <1>1, <1>2, <2>1, <4>1 DEF PlacesOK
    <3>2. /\ mappings[j].system.end_addr \in Nat /\ last.system.start_addr \in Nat
          /\ last.system.end_addr \in Nat
      BY <2>1, MappingTypes
    <3> HIDE DEF last
    <3>3. CASE j # n
      BY <3>1, <3>2, <3>3 DEF Below, PlaceOK
    <3> QED BY <3>0, <3>3
  <2>4. /\ mappings[j].system.end_addr \in Nat /\ last.system.end_addr \in Nat
    BY <2>1, MappingTypes
  <2> HIDE DEF last
  <2> QED BY <1>4, <2>2, <2>3, <2>4
<1>6. \A a \in Nat : On(l, a) \/ ~On(l, a)
  OBVIOUS
<1>7. \A j \in 1..n : PlaceOK(mappings[j]) /\ mappings[j].start_addr = mappings[j].system.start_addr
  BY <1>1, <1>2 DEF PlacesOK
<1>8. CASE List!Joins(l)
  <2> DEFINE m == List!Joined(last, l)
  <2>1. /\ n > 0 /\ n \in 1..n /\ last \in Places /\ PlaceOK(last)
        /\ l.start = last.start_addr + last.size /\ l.name = last.name
    <3>1. mappings # <<>> /\ l.start = last.start_addr + last.size /\ l.name = last.name
      BY <1>8 DEF List!Joins, List!Last
    <3>2. n \in 1..n
      BY <1>2, <3>1
    <3> QED BY <1>2, <3>1, <3>2, MappingTypes
  <2>2. last.system.end_addr = l.start /\ last.start_addr = last.system.start_addr
        /\ last.system.start_addr \in Nat
        /\ last.system.start_addr < l.start /\ last.exec \in BOOLEAN
        /\ last.name \in Files \cup {NoName}
    BY <1>1, <1>7, <2>1, PlaceIs DEF PlaceOK
  <2>3. /\ m \in Places
        /\ m.system.start_addr = last.system.start_addr /\ m.system.end_addr = l.end
        /\ m.start_addr = last.start_addr /\ m.size = l.end - last.start_addr
        /\ m.name = last.name /\ m.exec = (last.exec \/ l.exec)
    <3>1. l.end - last.start_addr \in Nat /\ last \in Places
      BY <1>4, <2>1, <2>2
    <3> HIDE DEF last
    <3> QED BY <1>4, <3>1 DEF Places, List!Joined
  <2>4. mappings' = [mappings EXCEPT ![n] = m]
    BY <1>8, <2>1 DEF List!ReadLine
  <2> HIDE DEF m
  <2>5. /\ mappings' \in Seq(Places) /\ Len(mappings') = n /\ mappings'[n] = m
        /\ \A j \in 1..n : j # n => mappings'[j] = mappings[j]
    <3> HIDE DEF Places
    <3> QED BY <1>2, <2>1, <2>3, <2>4
  <2>6. /\ m.system.start_addr = last.system.start_addr /\ m.system.end_addr = l.end
        /\ m.start_addr = last.start_addr /\ m.start_addr + m.size = l.end
        /\ m.name = last.name /\ (last.exec => m.exec) /\ (l.exec => m.exec)
    BY <1>4, <2>2, <2>3
  <2>7. PlacesOK'
    <3>1. PlaceOK(m)
      BY <1>1, <1>4, <2>2, <2>6 DEF PlaceOK
    <3>2. \A j \in 1..n : /\ PlaceOK(mappings'[j])
                           /\ mappings'[j].start_addr = mappings'[j].system.start_addr
      BY <1>7, <2>2, <2>5, <2>6, <3>1
    <3>3. ASSUME NEW j \in 1..n, NEW k \in 1..n, j < k
          PROVE  Below(mappings'[j], mappings'[k])
      <4>1. j # n /\ Below(mappings[j], mappings[k])
        BY <1>1, <1>2, <3>3 DEF PlacesOK
      <4>2. mappings'[j] = mappings[j] /\ mappings'[k].system.start_addr = mappings[k].system.start_addr
        BY <2>5, <2>6, <4>1
      <4> QED BY <4>1, <4>2 DEF Below
    <3>4. \A k \in 2..n : Below(mappings'[1], mappings'[k])
      BY <1>2, <3>3
    <3> QED BY <2>5, <3>2, <3>3, <3>4 DEF PlacesOK
  <2>8. LinesOK'
    <3>1. \A i \in 1..Len(maps) : \E j \in 1..n : IsPartOf(maps[i], mappings'[j])
      <4> SUFFICES ASSUME NEW i \in 1..Len(maps)
                   PROVE  \E j \in 1..n : IsPartOf(maps[i], mappings'[j])
        OBVIOUS
      <4>1. PICK j \in 1..n : IsPartOf(maps[i], mappings[j])
        BY <1>2 DEF LinesOK
      <4>2. CASE j # n
        BY <2>5, <4>1, <4>2
      <4>3. CASE j = n
        <5>1. maps[i].end <= last.system.end_addr /\ maps[i].end \in Nat
          BY <4>1, <4>3, MappingTypes DEF IsPartOf
        <5>2. maps[i].end <= l.end
          BY <1>4, <2>2, <5>1
        <5> QED BY <2>1, <2>5, <2>6, <4>1, <4>3, <5>2 DEF IsPartOf
      <4> QED BY <4>2, <4>3
    <3>2. IsPartOf(l, m)
      BY <1>4, <2>1, <2>2, <2>6 DEF IsPartOf
    <3>3. ASSUME NEW j \in 1..n, NEW a \in Nat, Has(mappings'[j], a)
          PROVE  \E i \in 1..Len(maps') : On(maps'[i], a)
      <4>1. CASE Has(mappings[j], a)
        BY <1>2, <1>3, <4>1 DEF LinesOK
      <4>2. CASE ~Has(mappings[j], a)
        <5>1. j = n
          BY <2>5, <3>3, <4>2
        <5>2. On(l, a)
          BY <1>4, <2>2, <2>5, <2>6, <3>3, <4>2, <5>1 DEF Has, On
        <5> QED BY <1>2, <1>3, <5>2
      <4> QED BY <4>1, <4>2
    <3>4. \A i \in 1..Len(maps') : i \in 1..Len(maps) \/ i = Len(maps) + 1
      BY <1>2, <1>3
    <3> QED BY <1>3, <2>1, <2>5, <3>1, <3>2, <3>3, <3>4 DEF LinesOK
  <2> QED BY <1>1, <1>2, <1>3, <2>1, <2>5, <2>6, <2>7, <2>8 DEF MappingsInv
<1>9. CASE ~List!Joins(l)
  <2> DEFINE m == [system |-> [start_addr |-> l.start, end_addr |-> l.end], start_addr |-> l.start,
                   size |-> l.end - l.start, exec |-> l.exec, name |-> l.name]
  <2>1. mappings' = Append(mappings, m)
    BY <1>9 DEF List!ReadLine, List!MappingInfo
  <2>2. m \in Places
    <3>1. l.end - l.start \in Nat
      BY <1>4
    <3> QED BY <1>4, <3>1 DEF Places
  <2>3. /\ m.system.start_addr = l.start /\ m.system.end_addr = l.end
        /\ m.start_addr = l.start /\ m.start_addr + m.size = l.end
        /\ m.name = l.name /\ (l.exec => m.exec)
    BY <1>4
  <2> HIDE DEF m
  <2>4. /\ mappings' \in Seq(Places) /\ Len(mappings') = n + 1 /\ mappings'[n + 1] = m
        /\ \A j \in 1..n : mappings'[j] = mappings[j]
    <3> HIDE DEF Places
    <3> QED BY <1>2, <2>1, <2>2
  <2>5. \A j \in 1..(n + 1) : j \in 1..n \/ j = n + 1
    BY <1>2
  <2>6. PlacesOK'
    <3>1. PlaceOK(m)
      BY <1>1, <1>4, <2>3 DEF PlaceOK
    <3>2. \A j \in 1..(n + 1) : /\ PlaceOK(mappings'[j])
                                 /\ mappings'[j].start_addr = mappings'[j].system.start_addr
      BY <1>7, <2>3, <2>4, <2>5, <3>1
    <3>3. ASSUME NEW j \in 1..(n + 1), NEW k \in 1..(n + 1), j < k
          PROVE  Below(mappings'[j], mappings'[k])
      <4>1. j \in 1..n
        BY <1>2, <3>3
      <4>2. CASE k \in 1..n
        BY <1>1, <1>2, <2>4, <3>3, <4>1, <4>2 DEF PlacesOK
      <4>3. CASE k = n + 1
        BY <1>5, <2>3, <2>4, <4>1, <4>3 DEF Below
      <4> QED BY <2>5, <4>2, <4>3
    <3>4. \A k \in 2..(n + 1) : Below(mappings'[1], mappings'[k])
      BY <1>2, <3>3
    <3> QED BY <2>4, <3>2, <3>3, <3>4 DEF PlacesOK
  <2>7. LinesOK'
    <3>1. \A i \in 1..Len(maps) : \E j \in 1..(n + 1) : IsPartOf(maps[i], mappings'[j])
      BY <1>2, <2>4 DEF LinesOK
    <3>2. IsPartOf(l, m)
      BY <1>4, <2>3 DEF IsPartOf
    <3>3. ASSUME NEW j \in 1..(n + 1), NEW a \in Nat, Has(mappings'[j], a)
          PROVE  \E i \in 1..Len(maps') : On(maps'[i], a)
      <4>1. CASE j \in 1..n
        <5>1. \E i \in 1..Len(maps) : On(maps[i], a)
          BY <1>2, <2>4, <3>3, <4>1 DEF LinesOK
        <5> QED BY <1>2, <1>3, <5>1
      <4>2. CASE j = n + 1
        <5>1. On(l, a)
          BY <2>3, <2>4, <3>3, <4>2 DEF Has, On
        <5> QED BY <1>2, <1>3, <5>1
      <4> QED BY <2>5, <4>1, <4>2
    <3>4. \A i \in 1..Len(maps') : i \in 1..Len(maps) \/ i = Len(maps) + 1
      BY <1>2, <1>3
    <3>5. n + 1 \in 1..(n + 1)
      BY <1>2
    <3> QED BY <1>3, <2>4, <3>1, <3>2, <3>3, <3>4, <3>5 DEF LinesOK
  <2> QED BY <1>1, <1>2, <1>3, <2>3, <2>4, <2>6, <2>7 DEF MappingsInv
<1> QED BY <1>8, <1>9

\* The program goes to the front: where a mapping was before.
WasAt(i, j) == IF j = 1 THEN i ELSE IF j <= i THEN j - 1 ELSE j
LEMMA PlacesMove ==
  ASSUME NEW n \in Nat, NEW i \in 1..n
  PROVE  /\ \A j \in 1..n : WasAt(i, j) \in 1..n
         /\ \A j \in 1..n : \E k \in 1..n : WasAt(i, k) = j
         /\ \A j, k \in 1..n : j # k => WasAt(i, j) # WasAt(i, k)
         /\ \A j, k \in 1..n : j < k /\ j # 1 => WasAt(i, j) < WasAt(i, k)
         /\ \A j \in 1..n : WasAt(i, j) = 1 => j # 1 \/ i = 1
<1>1. ASSUME NEW j \in 1..n PROVE \E k \in 1..n : WasAt(i, k) = j
  <2>1. CASE j = i
    <3>1. 1 \in 1..n /\ WasAt(i, 1) = j
      BY <2>1 DEF WasAt
    <3> QED BY <3>1
  <2>2. CASE j < i
    <3>1. j + 1 \in 1..n /\ WasAt(i, j + 1) = j
      BY <2>2 DEF WasAt
    <3> QED BY <3>1
  <2>3. CASE i < j
    <3>1. WasAt(i, j) = j
      BY <2>3 DEF WasAt
    <3> QED BY <3>1
  <2> QED BY <2>1, <2>2, <2>3
<1> QED BY <1>1 DEF WasAt

LEMMA ProgramIsFirst ==
  ASSUME MappingsInv, List!PutProgramFirst
  PROVE  MappingsInv'
<1> DEFINE n == Len(mappings)
           IsProgram(m) == entry_point # 0 /\ List!Contains(m, entry_point)
<1>1. /\ stage = "lines" /\ stage' = "late" /\ UNCHANGED <<maps, entry_point>>
  BY DEF List!PutProgramFirst
<1>2. /\ maps \in Seq(List!Lines) /\ mappings \in Seq(Places) /\ n \in Nat
      /\ LinesOK /\ PlacesOK /\ DOMAIN mappings = 1..n /\ entry_point \in Nat
  BY MappingTypes DEF MappingsInv
<1>3. ASSUME NEW j \in 1..n
      PROVE  Has(mappings[j], entry_point) <=> List!Contains(mappings[j], entry_point)
  <2>1. /\ mappings[j].start_addr = mappings[j].system.start_addr
        /\ mappings[j].start_addr + mappings[j].size = mappings[j].system.end_addr
    BY <1>1, <1>2 DEF PlacesOK, PlaceOK
  <2> QED BY <2>1 DEF Has, List!Contains
<1>4. \/ \E i \in 1..n : IsProgram(mappings[i]) /\ mappings' = List!MovedToFront(i)
      \/ /\ ~\E i \in 1..n : IsProgram(mappings[i]) /\ \A j \in 1..(i - 1) : ~IsProgram(mappings[j])
         /\ mappings' = mappings
  BY <1>2 DEF List!PutProgramFirst, List!First
<1>5. ASSUME NEW i \in 1..n, IsProgram(mappings[i]), mappings' = List!MovedToFront(i)
      PROVE  MappingsInv'
  <2>1. /\ DOMAIN mappings' = 1..n /\ \A j \in 1..n : mappings'[j] = mappings[WasAt(i, j)]
    BY <1>2, <1>5 DEF List!MovedToFront, WasAt
  <2>2. mappings' \in Seq(Places) /\ Len(mappings') = n
    <3>1. \A j \in 1..n : mappings'[j] \in Places
      <4> HIDE DEF Places
      <4> QED BY <1>2, <2>1, PlacesMove, Element
    <3> DEFINE s == mappings'
    <3>2. s = [j \in 1..n |-> s[j]]
      BY <1>2, <1>5 DEF List!MovedToFront
    <3> HIDE DEF Places, s
    <3>3. s \in [1..n -> Places]
      BY <2>1, <3>1, <3>2 DEF s
    <3> QED BY <1>2, <3>3 DEF s
  <2>3. \A j \in 1..n : WasAt(i, j) \in 1..n
    BY <1>2, PlacesMove
  <2>4. PlacesOK'
    <3>1. \A j \in 1..n : PlaceOK(mappings'[j]) /\ mappings'[j].start_addr = mappings'[j].system.start_addr
      BY <1>1, <1>2, <2>1, <2>3 DEF PlacesOK
    <3>2. entry_point' # 0 /\ stage' # "lines"
      BY <1>1, <1>5
    <3>3. ASSUME NEW j \in 1..n, NEW k \in 1..n, j < k, j # 1
          PROVE  Below(mappings'[j], mappings'[k])
      <4>1. WasAt(i, j) < WasAt(i, k)
        BY <1>2, <3>3, PlacesMove
      <4> QED BY <1>1, <1>2, <2>1, <2>3, <4>1 DEF PlacesOK
    <3>4. ASSUME NEW k \in 2..n
          PROVE  Below(mappings'[1], mappings'[k]) \/ Below(mappings'[k], mappings'[1])
      <4>1. 1 \in 1..n /\ k \in 1..n /\ k # 1
        BY <1>2
      <4>2. WasAt(i, 1) # WasAt(i, k)
        BY <1>2, <4>1, PlacesMove
      <4> QED BY <2>1, <2>3, <4>1, <4>2, PlacesApart
    <3> QED BY <2>2, <3>1, <3>2, <3>3, <3>4 DEF PlacesOK
  <2>5. LinesOK'
    <3>1. ASSUME NEW l \in 1..Len(maps)
          PROVE  \E j \in 1..n : IsPartOf(maps[l], mappings'[j])
      <4>1. PICK j \in 1..n : IsPartOf(maps[l], mappings[j])
        BY <1>2 DEF LinesOK
      <4>2. \A m \in 1..n : \E k \in 1..n : WasAt(i, k) = m
        BY <1>2, PlacesMove
      <4>3. PICK k \in 1..n : WasAt(i, k) = j
        BY <4>2
      <4> QED BY <2>1, <4>1, <4>3
    <3>2. ASSUME NEW j \in 1..n, NEW a \in Nat, Has(mappings'[j], a)
          PROVE  \E l \in 1..Len(maps) : On(maps[l], a)
      BY <1>2, <2>1, <2>3, <3>2 DEF LinesOK
    <3> QED BY <1>1, <2>2, <3>1, <3>2 DEF LinesOK
  <2>6. \A j \in 1..n : Has(mappings'[j], entry_point) => j = 1
    <3> SUFFICES ASSUME NEW j \in 1..n, Has(mappings'[j], entry_point) PROVE j = 1
      OBVIOUS
    <3>1. Has(mappings[i], entry_point)
      BY <1>3, <1>5
    <3>2. WasAt(i, j) = i
      BY <1>2, <2>1, <2>3, <3>1, OneHas
    <3>3. 1 \in 1..n /\ WasAt(i, 1) = i
      BY <1>2 DEF WasAt
    <3> QED BY <1>2, <3>2, <3>3, PlacesMove
  <2> QED BY <1>1, <2>2, <2>4, <2>5, <2>6 DEF MappingsInv
<1>6. ASSUME ~\E i \in 1..n : IsProgram(mappings[i]) /\ \A j \in 1..(i - 1) : ~IsProgram(mappings[j]),
             mappings' = mappings
      PROVE  MappingsInv'
  <2>1. ASSUME entry_point # 0, NEW i \in 1..n, Has(mappings[i], entry_point)
        PROVE  FALSE
    <3>1. IsProgram(mappings[i])
      BY <1>3, <2>1
    <3>2. PICK j \in 1..(i - 1) : IsProgram(mappings[j])
      BY <1>6, <3>1
    <3>3. j \in 1..n /\ j # i
      BY <1>2
    <3>4. Has(mappings[j], entry_point)
      BY <1>3, <3>2, <3>3
    <3> QED BY <1>2, <2>1, <3>3, <3>4, OneHas
  <2>2. PlacesOK' /\ LinesOK'
    BY <1>1, <1>2, <1>6 DEF PlacesOK, LinesOK
  <2> QED BY <1>1, <1>6, <2>1, <2>2 DEF MappingsInv
<1> QED BY <1>4, <1>5, <1>6

\* Libraries are moved down, but not where the kernel has them.
LEMMA BiasIsTaken ==
  ASSUME MappingsInv, List!LatePostprocessMappings
  PROVE  MappingsInv'
<1> DEFINE n == Len(mappings)
<1>1. /\ stage = "late" /\ stage' = "ready" /\ UNCHANGED <<maps, entry_point>>
  BY DEF List!LatePostprocessMappings
<1>2. /\ mappings \in Seq(Places) /\ n \in Nat
      /\ LinesOK /\ PlacesOK /\ DOMAIN mappings = 1..n /\ LastPage \in Nat
      /\ \A j \in 1..n : mappings[j] \in Places
  BY MappingTypes DEF MappingsInv
<1>3. PICK bias \in [1..n -> 0..LastPage] :
        /\ \A i \in 1..n : bias[i] <= mappings[i].start_addr
        /\ mappings' = [i \in 1..n |-> List!Biased(mappings[i], bias[i])]
  BY <1>2 DEF List!LatePostprocessMappings
<1>4. ASSUME NEW j \in 1..n
      PROVE  /\ mappings'[j] \in Places /\ PlaceOK(mappings'[j])
             /\ mappings'[j].system = mappings[j].system
             /\ mappings'[j].name = mappings[j].name /\ mappings'[j].exec = mappings[j].exec
  <2> DEFINE m == mappings[j]
             o == List!Biased(m, bias[j])
  <2>1. m \in Places /\ PlaceOK(m) /\ bias[j] \in Nat /\ bias[j] <= m.start_addr
        /\ mappings'[j] = o
    BY <1>2, <1>3 DEF PlacesOK
  <2> HIDE DEF m
  <2>2. m.start_addr - bias[j] \in Nat /\ m.size + bias[j] \in Nat
    BY <2>1, PlaceIs
  <2>3. /\ o \in Places /\ o.system = m.system /\ o.name = m.name /\ o.exec = m.exec
        /\ o.start_addr = m.start_addr - bias[j] /\ o.size = m.size + bias[j]
    BY <2>1, <2>2 DEF List!Biased, Places
  <2> HIDE DEF o
  <2>4. PlaceOK(o)
    <3>1. m.start_addr \in Nat /\ m.size \in Nat /\ m.system.start_addr \in Nat
      BY <2>1, PlaceIs
    <3> QED BY <2>1, <2>3, <3>1 DEF PlaceOK
  <2> QED BY <2>1, <2>3, <2>4 DEF m
<1>5. mappings' \in Seq(Places) /\ Len(mappings') = n
  <2> DEFINE s == mappings'
  <2>1. s = [j \in 1..n |-> s[j]]
    BY <1>3
  <2> HIDE DEF Places, s
  <2>2. s \in [1..n -> Places]
    BY <1>4, <2>1 DEF s
  <2> QED BY <1>2, <2>2 DEF s
<1>6. /\ \A j \in 1..n : \A a : Has(mappings'[j], a) <=> Has(mappings[j], a)
      /\ \A j, k \in 1..n : Below(mappings'[j], mappings'[k]) <=> Below(mappings[j], mappings[k])
      /\ \A j \in 1..n : \A l : IsPartOf(l, mappings'[j]) <=> IsPartOf(l, mappings[j])
  BY <1>4 DEF Has, Below, IsPartOf
<1>7. PlacesOK'
  <2>1. \A k \in 2..n : 1 \in 1..n /\ k \in 1..n
    BY <1>2
  <2> QED BY <1>1, <1>2, <1>4, <1>5, <1>6, <2>1 DEF PlacesOK
<1>8. LinesOK'
  BY <1>1, <1>2, <1>5, <1>6 DEF LinesOK
<1> QED BY <1>1, <1>5, <1>6, <1>7, <1>8 DEF MappingsInv

LEMMA MappingsStepInv == MappingsInv /\ [List!Step]_(List!mappingVars) => MappingsInv'
<1> SUFFICES ASSUME MappingsInv, [List!Step]_(List!mappingVars) PROVE MappingsInv'
  OBVIOUS
<1>1. CASE UNCHANGED List!mappingVars
  BY <1>1 DEF List!mappingVars, MappingsInv, PlacesOK, LinesOK
<1> QED BY <1>1, ReadLineIs, ProgramIsFirst, BiasIsTaken DEF List!Step

\* Each address is found where the kernel has it.
LEMMA MappingsInvSuffices == MappingsInv => List!LookupsMatchMaps
<1> SUFFICES ASSUME MappingsInv PROVE List!LookupsMatchMaps
  OBVIOUS
<1> DEFINE n == Len(mappings)
<1>1. /\ LinesOK /\ PlacesOK /\ n \in Nat /\ Len(maps) \in Nat /\ LastPage \in Nat
      /\ DOMAIN mappings = 1..n /\ DOMAIN maps = 1..Len(maps) /\ entry_point \in Nat
  BY MappingTypes DEF MappingsInv
<1>2. ASSUME NEW a \in Nat
      PROVE  List!FindMappingNoBias(a) = {j \in 1..n : Has(mappings[j], a)}
  <2>1. ASSUME NEW j \in 1..n, Has(mappings[j], a), NEW k \in 1..(j - 1), Has(mappings[k], a)
        PROVE  FALSE
    <3>1. k \in 1..n /\ k # j
      BY <1>1
    <3> QED BY <1>2, <2>1, <3>1, OneHas
  <2> QED BY <1>1, <2>1, FindMappingIs
<1>3. ASSUME NEW a \in Nat, NEW i \in 1..Len(maps), On(maps[i], a)
      PROVE  \E j \in 1..n : Has(mappings[j], a) /\ IsPartOf(maps[i], mappings[j])
  <2>1. PICK j \in 1..n : IsPartOf(maps[i], mappings[j])
    BY <1>1 DEF LinesOK
  <2>2. Has(mappings[j], a)
    <3> DEFINE p == mappings[j].system.start_addr
               q == mappings[j].system.end_addr
               s == maps[i].start
               e == maps[i].end
    <3>1. p \in Nat /\ q \in Nat /\ s \in Nat /\ e \in Nat /\ p <= s /\ e <= q /\ s <= a /\ a < e
      BY <1>3, <2>1, MappingTypes DEF IsPartOf, On
    <3>2. p <= a /\ a < q
      <4> HIDE DEF p, q, s, e
      <4> QED BY <3>1
    <3> QED BY <3>2 DEF Has
  <2> QED BY <2>1, <2>2
<1>4. ASSUME NEW a \in Nat, NEW j \in 1..n, Has(mappings[j], a)
      PROVE  \/ List!FindMapping(a) = {j}
             \/ stage = "ready" /\ List!FindMapping(a) = {1} /\ entry_point # 0
  <2>1. ASSUME NEW k \in 1..n
        PROVE  List!Contains(mappings[k], a) <=>
                 mappings[k].start_addr <= a /\ a < mappings[k].system.end_addr
    <3>1. mappings[k].start_addr + mappings[k].size = mappings[k].system.end_addr
      BY <1>1 DEF PlacesOK, PlaceOK
    <3> QED BY <3>1 DEF List!Contains
  <2>2. List!Contains(mappings[j], a)
    <3>1. /\ mappings[j].start_addr <= mappings[j].system.start_addr
          /\ mappings[j].start_addr \in Nat /\ mappings[j].system.start_addr \in Nat
      BY <1>1, MappingTypes DEF PlacesOK, PlaceOK
    <3> QED BY <1>4, <2>1, <3>1 DEF Has
  <2>3. ASSUME NEW k \in 1..n, k < j, List!Contains(mappings[k], a)
        PROVE  k = 1 /\ stage = "ready" /\ entry_point # 0
    <3>1. ~Below(mappings[k], mappings[j])
      <4>1. /\ a < mappings[k].system.end_addr /\ mappings[j].system.start_addr <= a
            /\ mappings[k].system.end_addr \in Nat /\ mappings[j].system.start_addr \in Nat
        BY <1>4, <2>1, <2>3, MappingTypes DEF Has
      <4> QED BY <4>1 DEF Below
    <3>2. k = 1 /\ stage # "lines" /\ entry_point # 0
      BY <1>1, <2>3, <3>1 DEF PlacesOK
    <3>3. stage # "ready" => Has(mappings[k], a)
      <4>1. stage # "ready" => mappings[k].start_addr = mappings[k].system.start_addr
        BY <1>1 DEF PlacesOK
      <4> QED BY <2>1, <2>3, <4>1 DEF Has
    <3>4. stage = "ready"
      BY <1>1, <1>4, <2>3, <3>3, OneHas
    <3> QED BY <3>2, <3>4
  <2>4. List!FindMapping(a) = {i \in 1..n : /\ List!Contains(mappings[i], a)
                                            /\ \A k \in 1..(i - 1) : ~List!Contains(mappings[k], a)}
    BY <1>1, FindMappingIs
  <2>5. CASE \E k \in 1..n : k < j /\ List!Contains(mappings[k], a)
    <3>1. 1 \in 1..n /\ List!Contains(mappings[1], a) /\ stage = "ready" /\ entry_point # 0
      BY <2>3, <2>5
    <3>2. \A i \in 1..n : i # 1 => 1 \in 1..(i - 1)
      BY <1>1
    <3>3. List!FindMapping(a) = {1}
      BY <2>4, <3>1, <3>2
    <3> QED BY <3>1, <3>3
  <2>6. CASE ~\E k \in 1..n : k < j /\ List!Contains(mappings[k], a)
    <3>1. \A k \in 1..(j - 1) : k \in 1..n /\ k < j
      BY <1>1
    <3>2. j \in List!FindMapping(a)
      BY <2>2, <2>4, <2>6, <3>1
    <3>3. \A i \in 1..n : i < j => ~List!Contains(mappings[i], a)
      BY <2>6
    <3>4. \A i \in 1..n : j < i => j \in 1..(i - 1)
      BY <1>1
    <3>5. List!FindMapping(a) \subseteq {j}
      <4>1. ASSUME NEW i \in 1..n, i \in List!FindMapping(a), i # j PROVE FALSE
        <5>1. i < j \/ j < i
          BY <1>1, <4>1
        <5> QED BY <2>2, <2>4, <3>3, <3>4, <4>1, <5>1
      <4> QED BY <2>4, <4>1
    <3> QED BY <3>2, <3>5
  <2> QED BY <2>5, <2>6
<1>5. ASSUME NEW a \in 0..(LastPage - 1)
      PROVE  LET on == {i \in DOMAIN maps : maps[i].start <= a /\ a < maps[i].end}
             IN /\ (on = {}) = (List!FindMappingNoBias(a) = {})
                /\ \A i \in on, j \in List!FindMappingNoBias(a) :
                     /\ mappings[j].name = maps[i].name
                     /\ maps[i].exec => mappings[j].exec
                     /\ \/ List!FindMapping(a) = {j}
                        \/ stage = "ready" /\ List!FindMapping(a) = {1} /\ entry_point # 0
  <2> DEFINE on == {i \in DOMAIN maps : maps[i].start <= a /\ a < maps[i].end}
             found == List!FindMappingNoBias(a)
  <2>1. on = {i \in 1..Len(maps) : On(maps[i], a)} /\ found = {j \in 1..n : Has(mappings[j], a)}
        /\ a \in Nat
    BY <1>1, <1>2 DEF On
  <2> HIDE DEF on, found
  <2>2. on # {} => found # {}
    BY <1>3, <2>1
  <2>3. found # {} => on # {}
    BY <1>1, <2>1 DEF LinesOK
  <2>4. ASSUME NEW i \in on, NEW j \in found
        PROVE  /\ mappings[j].name = maps[i].name
               /\ maps[i].exec => mappings[j].exec
               /\ \/ List!FindMapping(a) = {j}
                  \/ stage = "ready" /\ List!FindMapping(a) = {1} /\ entry_point # 0
    <3>1. PICK k \in 1..n : Has(mappings[k], a) /\ IsPartOf(maps[i], mappings[k])
      BY <1>3, <2>1
    <3>2. j \in 1..n /\ Has(mappings[j], a) /\ k = j
      BY <2>1, <3>1, OneHas
    <3> QED BY <1>4, <2>1, <3>1, <3>2 DEF IsPartOf
  <2> QED BY <2>2, <2>3, <2>4 DEF on, found
<1>6. ASSUME stage # "lines", entry_point # 0, List!FindMappingNoBias(entry_point) # {}
      PROVE  List!FindMappingNoBias(entry_point) = {1}
  BY <1>1, <1>2, <1>6 DEF MappingsInv
<1> QED BY <1>5, <1>6 DEF List!LookupsMatchMaps

\* Whatever the lines of maps and the biases of the libraries, each address is found in
\* the mapping of its line, but for what the program is in the way of.
THEOREM LookupsMatchMapsHolds ==
  List!Init /\ [][List!Step]_(List!mappingVars) => []List!LookupsMatchMaps
BY MappingsInitInv, MappingsStepInv, MappingsInvSuffices, PTL

(***************************************************************************)
(* The modules from the list of a dump to who asks for one.                *)
(***************************************************************************)

ListRanges == INSTANCE SequentialProofs WITH MaxStores <- 2 * MaxLines

LEMMA ListSpace ==
  MaxAddress \in Nat /\ 2 * MaxLines \in Nat /\ ListRanges!RangeAssumption
<1>1. MaxAddress \in Nat /\ 2 * MaxLines \in Nat
  BY RangeAssumption, ModulesAssumption
<1> QED BY <1>1, RangeAssumption DEF ListRanges!RangeAssumption

\* A call of StoreRange goes on in the one as in the other.
LEMMA ListRefuse ==
  ASSUME NEW h, List!Ranges!Refuse(h)
  PROVE  ListRanges!Refuse(h)
BY DEF List!Ranges!Refuse, ListRanges!Refuse, List!Ranges!InTheWay, ListRanges!InTheWay,
       List!Ranges!LowerBound, ListRanges!LowerBound, List!Ranges!High, ListRanges!High,
       List!Ranges!ReturnFalse, ListRanges!ReturnFalse

LEMMA ListCutThis ==
  ASSUME NEW h, List!Ranges!CutThisAbove(h) \/ List!Ranges!CutThisBelow(h)
  PROVE  ListRanges!CutThisAbove(h) \/ ListRanges!CutThisBelow(h)
BY DEF List!Ranges!CutThisAbove, ListRanges!CutThisAbove,
       List!Ranges!CutThisBelow, ListRanges!CutThisBelow,
       List!Ranges!InTheWay, ListRanges!InTheWay, List!Ranges!LowerBound,
       ListRanges!LowerBound, List!Ranges!High, ListRanges!High

LEMMA ListCutOther ==
  ASSUME NEW h, List!Ranges!CutOtherAbove(h) \/ List!Ranges!CutOtherBelow(h)
  PROVE  ListRanges!CutOtherAbove(h) \/ ListRanges!CutOtherBelow(h)
BY DEF List!Ranges!CutOtherAbove, ListRanges!CutOtherAbove,
       List!Ranges!CutOtherBelow, ListRanges!CutOtherBelow,
       List!Ranges!InTheWay, ListRanges!InTheWay, List!Ranges!LowerBound,
       ListRanges!LowerBound, List!Ranges!High, ListRanges!High,
       List!Ranges!With, ListRanges!With, List!Ranges!Minus, ListRanges!Minus,
       List!Ranges!MakeRange, ListRanges!MakeRange

LEMMA ListInsert ==
  ASSUME List!Ranges!Insert
  PROVE  ListRanges!Insert
BY DEF List!Ranges!Insert, ListRanges!Insert, List!Ranges!IsFree, ListRanges!IsFree,
       List!Ranges!LowerBound, ListRanges!LowerBound, List!Ranges!High, ListRanges!High,
       List!Ranges!With, ListRanges!With, List!Ranges!MakeRange, ListRanges!MakeRange

LEMMA ListBounds ==
  /\ List!Ranges!InBounds <=> ListRanges!InBounds
  /\ List!Ranges!OutOfBounds <=> ListRanges!OutOfBounds
BY DEF List!Ranges!InBounds, ListRanges!InBounds, List!Ranges!OutOfBounds,
       ListRanges!OutOfBounds, List!Ranges!High, ListRanges!High,
       List!Ranges!ReturnFalse, ListRanges!ReturnFalse

LEMMA ListCallGoesOn == List!Ranges!StoreRangeInternal => ListRanges!StoreRangeInternal
BY ListRefuse, ListCutThis, ListCutOther, ListInsert, ListBounds
   DEF List!Ranges!StoreRangeInternal, ListRanges!StoreRangeInternal

\* What such a call leaves as it is, and what it says when it returns.
LEMMA ListCallKeeps ==
  ASSUME List!Ranges!StoreRangeInternal
  PROVE  /\ UNCHANGED <<merge_strategy, asked>> /\ call # NoCall
         /\ \/ stored' = stored
            \/ call' = NoCall /\ stored' = stored \cup {call.entry}
BY DEF List!Ranges!StoreRangeInternal, List!Ranges!Refuse, List!Ranges!CutThisAbove,
       List!Ranges!CutThisBelow, List!Ranges!CutOtherAbove, List!Ranges!CutOtherBelow,
       List!Ranges!Insert, List!Ranges!OutOfBounds, List!Ranges!ReturnFalse

\* The invariant of a map holds of this one.
LEMMA ListMapBegins ==
  ASSUME List!RangesInit
  PROVE  ListRanges!StrategyInv /\ merge_strategy = "truncateLower"
<1>1. ListRanges!RangeInit /\ merge_strategy = "truncateLower"
  BY DEF List!RangesInit, List!Ranges!RangeInit, ListRanges!RangeInit
<1> QED
  BY <1>1, ListRanges!StrategyInitInv, ListSpace, FileAssumption, AllocatorAssumption

LEMMA ListMapGoesOn ==
  ASSUME ListRanges!StrategyInv,
         \/ List!Ranges!StoreRangeInternal
         \/ List!Ranges!Clear
         \/ UNCHANGED rangeVars
         \/ \E base \in 0..MaxAddress, bytes \in 0..(MaxAddress + 1) :
              List!Ranges!StoreRange(base, bytes)
  PROVE  (ListRanges!StrategyInv)'
<1>1. [ListRanges!RangeStep]_(ListRanges!rangeVars)
  <2>1. CASE List!Ranges!StoreRangeInternal
    BY <2>1, ListCallGoesOn DEF ListRanges!RangeStep
  <2>2. CASE UNCHANGED rangeVars
    BY <2>2 DEF rangeVars, ListRanges!rangeVars
  <2>4. CASE List!Ranges!Clear
    BY <2>4 DEF List!Ranges!Clear, ListRanges!Clear, ListRanges!RangeStep
  <2>3. ASSUME NEW base \in 0..MaxAddress,
               NEW bytes \in 0..(MaxAddress + 1),
               List!Ranges!StoreRange(base, bytes)
        PROVE  ListRanges!RangeStep
    <3>1. ListRanges!StoreRange(base, bytes)
      BY <2>3 DEF List!Ranges!StoreRange, ListRanges!StoreRange
    <3> QED BY <3>1 DEF ListRanges!RangeStep, ListRanges!Addresses
  <2> QED BY <2>1, <2>2, <2>3, <2>4
<1> QED
  BY <1>1, ListRanges!StrategyStepInv, ListSpace, FileAssumption, AllocatorAssumption


ModuleStart(k) == List!Module(k).start_addr
ModuleEnd(k) == List!Module(k).start_addr + List!Module(k).size

\* What StoreRange was asked for a module: all that it has in the list, or what is left of it
\* when the correction has been backed out, which may be no range at all.
AsInList(e) ==
  asked[e].base = ModuleStart(module_of[e]) /\ asked[e].size = List!Module(module_of[e]).size
BackedOut(e) ==
  \/ ListRanges!NoRange(e)
  \/ (ModuleStart(module_of[e]) <= asked[e].base /\ ListRanges!AskedHigh(e) = ModuleEnd(module_of[e]) - 1)

\* A range that nothing can be in the way of.
Sure(e) == List!Alone(module_of[e]) \/ e = 1

ModulesOK ==
  /\ modules \in Seq(1..Len(mappings)) /\ Len(modules) <= Len(mappings)
  /\ \A j, k \in 1..Len(modules) : j < k => modules[j] < modules[k]
  /\ reading_list # "unwritten" => stage = "ready"
  /\ module_index \in 1..(Len(modules) + 1)
  /\ last_end_address \in 0..LastPage

AskedOK ==
  /\ module_of \in Seq(1..Len(modules)) /\ Len(module_of) = Len(asked)
  /\ \A e \in 1..Len(asked) : AsInList(e) \/ (~Sure(e) /\ BackedOut(e))
  /\ \A e \in 1..Len(asked) : Sure(e) => e \in stored \/ (call # NoCall /\ e = Len(asked))
  /\ \A e \in stored : ~ListRanges!NoRange(e)
  /\ \A e, o \in 1..Len(asked) :
       List!Alone(module_of[e]) /\ module_of[o] = module_of[e] => o = e
  /\ call # NoCall /\ (Sure(Len(asked)) \/ ListRanges!NoRange(Len(asked))) =>
       call.size = asked[Len(asked)].size

\* Where the reading is, and the copying.
ReadingOK ==
  /\ \A k \in 1..(module_index - 1) : \E e \in 1..Len(asked) : module_of[e] = k
  /\ reading_list \in {"unwritten", "module", "stored", "adjusted", "refused",
                       "valid", "copying", "copied"}
  /\ reading_list \in {"unwritten", "module", "refused", "valid", "copied"} => call = NoCall
  /\ reading_list = "unwritten" =>
       asked = <<>> /\ modules = <<>> /\ module_index = 1 /\ last_end_address = 0
  /\ reading_list = "module" => \A e \in 1..Len(asked) : module_of[e] < module_index
  /\ reading_list = "stored" =>
       /\ Len(asked) > 0 /\ module_index <= Len(modules) /\ module_of[Len(asked)] = module_index
       /\ \A e \in 1..(Len(asked) - 1) : module_of[e] < module_index
  /\ reading_list = "adjusted" =>
       /\ Len(asked) > 0 /\ module_index <= Len(modules) /\ module_of[Len(asked)] = module_index
       /\ ~List!Alone(module_index) /\ asked[Len(asked)].base = last_end_address
       /\ \A e \in 1..Len(asked) : module_of[e] <= module_index
  /\ reading_list = "refused" => \E k \in 1..Len(modules) : ~List!Alone(k)
  /\ reading_list \in {"valid", "copied"} => module_index = Len(modules) + 1
  /\ reading_list \in {"copying", "copied"} =>
       /\ Len(asked) = module_index - 1
       /\ \A e \in 1..Len(asked) : module_of[e] = e

ListInv ==
  /\ MappingsInv
  /\ ListRanges!StrategyInv
  /\ merge_strategy = "truncateLower"
  /\ ModulesOK
  /\ AskedOK
  /\ ReadingOK

\* A module has at least a page, and lies below the last one.
LEMMA ModuleIs ==
  ASSUME MappingsInv, ModulesOK, NEW k \in 1..Len(modules)
  PROVE  /\ modules[k] \in 1..Len(mappings)
         /\ ModuleStart(k) \in Nat /\ List!Module(k).size \in Nat
         /\ ModuleEnd(k) \in Nat /\ ModuleStart(k) < ModuleEnd(k)
         /\ ModuleEnd(k) <= LastPage /\ LastPage <= MaxAddress /\ MaxAddress \in Nat /\ LastPage \in Nat
         /\ List!Pages(k) = ModuleStart(k)..(ModuleEnd(k) - 1)
<1>1. modules[k] \in 1..Len(mappings)
  BY Element DEF ModulesOK
<1> DEFINE m == mappings[modules[k]]
<1>2. /\ PlaceOK(m) /\ m.system.start_addr \in Nat /\ m.system.end_addr \in Nat
      /\ m.start_addr \in Nat /\ m.size \in Nat
  BY <1>1, MappingTypes
<1>3. ModuleStart(k) = m.start_addr /\ ModuleEnd(k) = m.start_addr + m.size
      /\ List!Module(k).size = m.size
      /\ List!Pages(k) = m.start_addr..(m.start_addr + m.size - 1)
  BY DEF ModuleStart, ModuleEnd, List!Module, List!Pages
<1> HIDE DEF m
<1>4. LastPage <= MaxAddress /\ MaxAddress \in Nat /\ LastPage \in Nat
  BY ModulesAssumption, ListSpace
<1>5. m.system.start_addr < m.system.end_addr /\ m.system.end_addr <= LastPage
      /\ m.start_addr <= m.system.start_addr /\ m.start_addr + m.size = m.system.end_addr
  BY <1>2 DEF PlaceOK
<1>6. m.start_addr < m.start_addr + m.size /\ m.start_addr + m.size <= LastPage
      /\ m.start_addr + m.size \in Nat
  BY <1>2, <1>4, <1>5
<1>7. /\ ModuleStart(k) \in Nat /\ ModuleEnd(k) \in Nat /\ ModuleStart(k) < ModuleEnd(k)
      /\ ModuleEnd(k) <= LastPage
  BY <1>2, <1>3, <1>6
<1>8. List!Pages(k) = ModuleStart(k)..(ModuleEnd(k) - 1)
  <2>1. m.start_addr + m.size - 1 = (m.start_addr + m.size) - 1
    BY <1>2
  <2>2. ModuleEnd(k) - 1 = m.start_addr + m.size - 1
    BY <1>3, <2>1
  <2>3. List!Pages(k) = m.start_addr..(m.start_addr + m.size - 1)
    BY <1>3
  <2>4. ModuleStart(k) = m.start_addr
    BY <1>3
  <2> QED BY <2>2, <2>3, <2>4
<1>9. List!Module(k).size \in Nat
  BY <1>2, <1>3
<1> QED BY <1>1, <1>4, <1>7, <1>8, <1>9

\* The kinds of what was asked for, for the provers.
LEMMA AskedTypes ==
  ASSUME ListInv
  PROVE  /\ ListRanges!RangesInv /\ ListRanges!EntriesOK /\ ListRanges!LowerOK
         /\ Len(asked) \in Nat /\ Len(modules) \in Nat /\ module_index \in Nat
         /\ stored \subseteq 1..Len(asked)
         /\ DOMAIN modules = 1..Len(modules)
         /\ \A e \in 1..Len(asked) :
              /\ module_of[e] \in 1..Len(modules)
              /\ asked[e].base \in Nat /\ asked[e].size \in Nat
              /\ ListRanges!AskedHigh(e) \in Int
              /\ ListRanges!AskedHigh(e) = asked[e].base + asked[e].size - 1
         /\ call # NoCall =>
              /\ call.base \in Nat /\ call.size \in Nat /\ ListRanges!High \in Int
              /\ ListRanges!High = call.base + call.size - 1
              /\ call.entry = Len(asked) /\ Len(asked) > 0 /\ Len(asked) \notin stored
              /\ call.base = asked[Len(asked)].base
<1>1. /\ ListRanges!StrategyInv /\ merge_strategy = "truncateLower" /\ ModulesOK /\ AskedOK
  BY DEF ListInv
<1>2. ListRanges!RangesInv /\ ListRanges!EntriesOK /\ ListRanges!LowerOK
  BY <1>1 DEF ListRanges!StrategyInv
<1>3. /\ Len(asked) \in Nat
      /\ \A e \in 1..Len(asked) : /\ asked[e].base \in Nat /\ asked[e].size \in Nat
                                  /\ ListRanges!AskedHigh(e) \in Int
      /\ call # NoCall => /\ call.base \in Nat /\ call.size \in Nat /\ ListRanges!High \in Int
  BY <1>2, ListRanges!RangeTypes, ListSpace, FileAssumption, AllocatorAssumption
<1>4. \A e \in 1..Len(asked) : module_of[e] \in 1..Len(modules)
  BY <1>1, Element DEF AskedOK
<1>5. call # NoCall => call.base = asked[call.entry].base
  BY <1>1, ListRanges!EntryTypes, ListSpace, FileAssumption, AllocatorAssumption
<1>6. Len(modules) \in Nat /\ module_index \in Nat /\ DOMAIN modules = 1..Len(modules)
  BY <1>1 DEF ModulesOK
<1>7. /\ stored \subseteq 1..Len(asked)
      /\ call # NoCall => Len(asked) > 0 /\ call.entry = Len(asked) /\ call.entry \notin stored
  BY <1>2 DEF ListRanges!EntriesOK
<1>8. call # NoCall => /\ call.entry = Len(asked) /\ Len(asked) > 0 /\ Len(asked) \notin stored
                       /\ call.base = asked[Len(asked)].base
  BY <1>5, <1>7
<1> QED BY <1>2, <1>3, <1>4, <1>6, <1>7, <1>8 DEF ListRanges!AskedHigh, ListRanges!High

\* A range that was stored is of its module.
LEMMA StoredIsInModule ==
  ASSUME ListInv, NEW e \in stored
  PROVE  /\ e \in 1..Len(asked) /\ module_of[e] \in 1..Len(modules)
         /\ ModuleStart(module_of[e]) <= asked[e].base
         /\ asked[e].base <= ListRanges!AskedHigh(e)
         /\ ListRanges!AskedHigh(e) = ModuleEnd(module_of[e]) - 1
<1> DEFINE m == module_of[e]
<1>1. /\ e \in 1..Len(asked) /\ m \in 1..Len(modules)
      /\ asked[e].base \in Nat /\ asked[e].size \in Nat
      /\ ListRanges!AskedHigh(e) = asked[e].base + asked[e].size - 1
  BY AskedTypes
<1>2. /\ ~ListRanges!NoRange(e) /\ (AsInList(e) \/ BackedOut(e))
  BY <1>1 DEF ListInv, AskedOK
<1>3. /\ ModuleStart(m) \in Nat /\ List!Module(m).size \in Nat
      /\ ModuleEnd(m) = ModuleStart(m) + List!Module(m).size
  BY <1>1, ModuleIs DEF ListInv, ModuleStart, ModuleEnd
<1>4. asked[e].size # 0
  BY <1>2 DEF ListRanges!NoRange
<1>5. CASE AsInList(e)
  <2>1. asked[e].base = ModuleStart(m) /\ asked[e].size = List!Module(m).size
    BY <1>5 DEF AsInList
  <2> HIDE DEF m
  <2> QED BY <1>1, <1>3, <1>4, <2>1 DEF m
<1>6. CASE BackedOut(e)
  <2>1. ModuleStart(m) <= asked[e].base /\ ListRanges!AskedHigh(e) = ModuleEnd(m) - 1
    BY <1>2, <1>6 DEF BackedOut
  <2> HIDE DEF m
  <2> QED BY <1>1, <1>3, <1>4, <2>1 DEF m
<1> QED BY <1>2, <1>5, <1>6

\* Nothing is in the way of a range that is the first, or of a module that is alone.
LEMMA SureIsFree ==
  ASSUME ListInv, call # NoCall, Sure(Len(asked)), NEW h \in DOMAIN map
  PROVE  ListRanges!InBounds /\ ~ListRanges!InTheWay(h)
<1> DEFINE n == Len(asked)
           k == module_of[n]
           e == map[h].entry
           o == module_of[e]
<1>1. /\ n \in 1..n /\ call.base = asked[n].base /\ call.size = asked[n].size
      /\ call.base \in Nat /\ call.size \in Nat
      /\ ListRanges!High = call.base + call.size - 1
      /\ k \in 1..Len(modules) /\ AsInList(n) /\ n \notin stored
  <2>1. /\ n \in 1..n /\ call.base = asked[n].base /\ call.base \in Nat /\ call.size \in Nat
        /\ ListRanges!High = call.base + call.size - 1
        /\ k \in 1..Len(modules) /\ n \notin stored
    BY AskedTypes
  <2>2. call.size = asked[n].size /\ AsInList(n)
    BY <2>1 DEF ListInv, AskedOK
  <2> QED BY <2>1, <2>2
<1>2. /\ ModuleStart(k) \in Nat /\ ModuleEnd(k) \in Nat /\ ModuleStart(k) < ModuleEnd(k)
      /\ ModuleEnd(k) <= MaxAddress /\ MaxAddress \in Nat /\ List!Module(k).size \in Nat
      /\ ModuleEnd(k) = ModuleStart(k) + List!Module(k).size
      /\ List!Pages(k) = ModuleStart(k)..(ModuleEnd(k) - 1)
  <2>1. /\ ModuleStart(k) \in Nat /\ ModuleEnd(k) \in Nat /\ ModuleStart(k) < ModuleEnd(k)
        /\ ModuleEnd(k) <= LastPage /\ LastPage <= MaxAddress /\ MaxAddress \in Nat
        /\ LastPage \in Nat /\ List!Module(k).size \in Nat
        /\ List!Pages(k) = ModuleStart(k)..(ModuleEnd(k) - 1)
    BY <1>1, ModuleIs DEF ListInv
  <2>2. ModuleEnd(k) = ModuleStart(k) + List!Module(k).size
    BY DEF ModuleStart, ModuleEnd
  <2> HIDE DEF k
  <2> QED BY <2>1, <2>2
<1>3. call.base = ModuleStart(k) /\ call.size = List!Module(k).size
  BY <1>1 DEF AsInList
<1>4. ListRanges!InBounds
  <2> HIDE DEF n, k
  <2> QED BY <1>1, <1>2, <1>3 DEF ListRanges!InBounds
<1>5. SUFFICES ASSUME ListRanges!InTheWay(h) PROVE FALSE
  BY <1>4
<1>6. /\ e \in stored /\ e \in 1..n /\ o \in 1..Len(modules)
      /\ map[h].base = asked[e].base /\ h <= ListRanges!AskedHigh(e)
      /\ h \in Nat /\ map[h].base \in Nat /\ map[h].base <= h
      /\ ListRanges!AskedHigh(e) \in Int
  <2>1. /\ e \in stored /\ e \in 1..n /\ map[h].base = asked[e].base
        /\ ListRanges!AskedHigh(e) \in Int
    BY ListRanges!EntryTypes, ListSpace, FileAssumption, AllocatorAssumption DEF ListInv
  <2>2. h <= ListRanges!AskedHigh(e)
    BY AskedTypes DEF ListRanges!LowerOK
  <2>3. h \in Nat /\ map[h].base \in Nat /\ map[h].base <= h
    BY AskedTypes, ListRanges!RangeTypes, ListSpace, FileAssumption, AllocatorAssumption
  <2>4. o \in 1..Len(modules)
    BY <2>1, AskedTypes
  <2> QED BY <2>1, <2>2, <2>3, <2>4
<1>7. /\ ModuleStart(o) <= asked[e].base /\ ListRanges!AskedHigh(e) = ModuleEnd(o) - 1
  BY <1>6, StoredIsInModule
<1>8. /\ ModuleStart(o) \in Nat /\ ModuleEnd(o) \in Nat
      /\ List!Pages(o) = ModuleStart(o)..(ModuleEnd(o) - 1)
  BY <1>6, ModuleIs DEF ListInv
<1>9. List!Alone(k)
  <2>1. n # 1
    BY <1>1, <1>6
  <2> QED BY <2>1 DEF Sure
<1>10. o # k
  <2>1. o = k => e = n
    BY <1>1, <1>6, <1>9 DEF ListInv, AskedOK
  <2> QED BY <1>1, <1>6, <2>1
<1>11. List!Pages(o) \cap List!Pages(k) = {}
  <2>1. DOMAIN modules = 1..Len(modules)
    BY AskedTypes
  <2> QED BY <1>6, <1>9, <1>10, <2>1 DEF List!Alone
<1>12. call.base <= h /\ (h < ListRanges!High \/ map[h].base <= ListRanges!High)
  BY <1>5 DEF ListRanges!InTheWay, ListRanges!LowerBound
<1> HIDE DEF n, k, e, o
<1>13. \/ call.base \in List!Pages(o) \cap List!Pages(k)
       \/ map[h].base \in List!Pages(o) \cap List!Pages(k)
  <2> DEFINE lo == call.base
             hi == ListRanges!High
             b == map[h].base
             first == ModuleStart(o)
             past == ModuleEnd(o)
  <2>1. /\ lo \in Nat /\ hi \in Int /\ b \in Nat /\ h \in Nat
        /\ first \in Nat /\ past \in Nat
        /\ b <= h /\ first <= b /\ h <= past - 1
    BY <1>1, <1>6, <1>7, <1>8
  <2>2. lo <= h /\ (h < hi \/ b <= hi) /\ lo <= hi
    BY <1>1, <1>4, <1>12 DEF ListRanges!InBounds
  <2>3. List!Pages(o) = first..(past - 1) /\ List!Pages(k) = lo..hi
    <3>1. ModuleEnd(k) - 1 = hi
      BY <1>1, <1>2, <1>3
    <3> QED BY <1>2, <1>3, <1>8, <3>1
  <2> HIDE DEF lo, hi, b, first, past
  <2>4. \/ (lo \in first..(past - 1) /\ lo \in lo..hi)
        \/ (b \in first..(past - 1) /\ b \in lo..hi)
    BY <2>1, <2>2
  <2> QED BY <2>3, <2>4 DEF lo, b
<1> QED BY <1>11, <1>13

\* A turn of StoreRangeInternal for a range that is sure or for none returns.
LEMMA CallEnds ==
  ASSUME ListInv, ListRanges!StoreRangeInternal
  PROVE  /\ Sure(Len(asked)) => call' = NoCall /\ stored' = stored \cup {Len(asked)}
         /\ ListRanges!NoRange(Len(asked)) => call' = NoCall /\ stored' = stored
<1> DEFINE n == Len(asked)
<1>1. call # NoCall /\ n \in 1..n
  BY AskedTypes DEF ListRanges!StoreRangeInternal
<1>2. ASSUME Sure(n) PROVE call' = NoCall /\ stored' = stored \cup {n}
  <2>1. \A h \in DOMAIN map : ~ListRanges!InTheWay(h)
    BY <1>1, <1>2, SureIsFree
  <2>2. ~(\E h \in DOMAIN map :
            /\ ListRanges!InBounds
            /\ \/ ListRanges!Refuse(h)
               \/ ListRanges!CutThisAbove(h) \/ ListRanges!CutOtherAbove(h)
               \/ ListRanges!CutThisBelow(h) \/ ListRanges!CutOtherBelow(h))
    BY <2>1 DEF ListRanges!Refuse, ListRanges!CutThisAbove, ListRanges!CutOtherAbove,
                ListRanges!CutThisBelow, ListRanges!CutOtherBelow
  <2>3. ListRanges!InBounds
    <3> DEFINE k == module_of[n]
    <3>1. /\ call.base = asked[n].base /\ call.size = asked[n].size
          /\ ListRanges!High = call.base + call.size - 1 /\ k \in 1..Len(modules)
          /\ AsInList(n)
      BY <1>1, <1>2, AskedTypes DEF ListInv, AskedOK
    <3>2. /\ ModuleStart(k) \in Nat /\ List!Module(k).size \in Nat
          /\ ModuleStart(k) < ModuleEnd(k) /\ ModuleEnd(k) <= LastPage
          /\ LastPage <= MaxAddress /\ MaxAddress \in Nat /\ LastPage \in Nat
          /\ ModuleEnd(k) = ModuleStart(k) + List!Module(k).size
      BY <3>1, ModuleIs DEF ListInv, ModuleStart, ModuleEnd
    <3>3. call.base = ModuleStart(k) /\ call.size = List!Module(k).size
      BY <3>1 DEF AsInList
    <3> HIDE DEF n, k
    <3> QED BY <3>1, <3>2, <3>3 DEF ListRanges!InBounds
  <2>4. ListRanges!Insert
    BY <2>2, <2>3 DEF ListRanges!StoreRangeInternal, ListRanges!OutOfBounds
  <2>5. call.entry = n
    BY <1>1, AskedTypes
  <2> QED BY <2>4, <2>5 DEF ListRanges!Insert
<1>3. ASSUME ListRanges!NoRange(n) PROVE call' = NoCall /\ stored' = stored
  <2>1. /\ call.base = asked[n].base /\ call.size = asked[n].size
        /\ ListRanges!High = call.base + call.size - 1
        /\ ListRanges!AskedHigh(n) = asked[n].base + asked[n].size - 1
    BY <1>1, <1>3, AskedTypes DEF ListInv, AskedOK
  <2>2. ~ListRanges!InBounds
    <3>1. asked[n].size = 0 \/ ListRanges!AskedHigh(n) > MaxAddress
      BY <1>3 DEF ListRanges!NoRange
    <3>2. asked[n].size = 0 => ~(call.size > 0)
      BY <2>1
    <3>3. ListRanges!AskedHigh(n) > MaxAddress => ~(ListRanges!High <= MaxAddress)
      <4>1. ListRanges!High = ListRanges!AskedHigh(n) /\ ListRanges!High \in Int
            /\ MaxAddress \in Nat
        BY <1>1, <2>1, AskedTypes, ListSpace
      <4> HIDE DEF n
      <4> QED BY <4>1
    <3> QED BY <3>1, <3>2, <3>3 DEF ListRanges!InBounds
  <2>3. ListRanges!OutOfBounds
    BY <2>2 DEF ListRanges!StoreRangeInternal
  <2> QED BY <2>3 DEF ListRanges!OutOfBounds, ListRanges!ReturnFalse
<1> QED BY <1>2, <1>3

\* What is said of the modules and the ranges depends on these variables only.
LEMMA SameModules ==
  ASSUME UNCHANGED <<mappings, modules>>
  PROVE  /\ \A k : /\ ModuleStart(k)' = ModuleStart(k) /\ ModuleEnd(k)' = ModuleEnd(k)
                   /\ List!Module(k)' = List!Module(k) /\ List!Pages(k)' = List!Pages(k)
                   /\ List!Alone(k)' = List!Alone(k)
BY DEF ModuleStart, ModuleEnd, List!Module, List!Pages, List!Alone

LEMMA SameAsked ==
  ASSUME UNCHANGED <<mappings, modules, asked, module_of>>
  PROVE  \A e : /\ AsInList(e)' = AsInList(e) /\ BackedOut(e)' = BackedOut(e)
                /\ Sure(e)' = Sure(e) /\ ListRanges!NoRange(e)' = ListRanges!NoRange(e)
BY SameModules DEF AsInList, BackedOut, Sure, ListRanges!NoRange, ListRanges!AskedHigh

LEMMA StoringList ==
  ASSUME ListInv, List!InStoreRange
  PROVE  ListInv'
<1> DEFINE n == Len(asked)
<1>1. /\ List!Ranges!StoreRangeInternal
      /\ UNCHANGED <<maps, mappings, entry_point, stage, modules, module_of, module_index,
                     last_end_address, reading_list>>
  BY DEF List!InStoreRange, List!mappingVars, List!listVars
<1>2. /\ ListRanges!StoreRangeInternal /\ (ListRanges!StrategyInv)'
      /\ UNCHANGED <<merge_strategy, asked>> /\ call # NoCall
      /\ (stored' = stored \/ (call' = NoCall /\ stored' = stored \cup {n}))
  <2>1. call # NoCall => call.entry = n
    BY AskedTypes
  <2> QED BY <1>1, <2>1, ListCallGoesOn, ListCallKeeps, ListMapGoesOn DEF ListInv
<1>3. MappingsInv'
  BY <1>1, MappingsStepInv DEF ListInv, List!mappingVars
<1>4. ModulesOK'
  BY <1>1 DEF ListInv, ModulesOK
<1>5. \A e : /\ AsInList(e)' = AsInList(e) /\ BackedOut(e)' = BackedOut(e)
             /\ Sure(e)' = Sure(e) /\ ListRanges!NoRange(e)' = ListRanges!NoRange(e)
  BY <1>1, <1>2, SameAsked
<1>6. \A k : List!Alone(k)' = List!Alone(k)
  BY <1>1, SameModules
<1>7. AskedOK /\ ReadingOK
  BY DEF ListInv
<1>8. AskedOK'
  <2>1. \A e \in stored' : ~ListRanges!NoRange(e)
    BY <1>2, <1>7, CallEnds, AskedTypes DEF AskedOK
  <2>2. ASSUME NEW e \in 1..n, Sure(e)
        PROVE  e \in stored' \/ (call' # NoCall /\ e = n)
    BY <1>2, <1>7, <2>2, CallEnds DEF AskedOK
  <2>3. ~(call' # NoCall /\ (Sure(n) \/ ListRanges!NoRange(n)))
    BY <1>2, CallEnds
  <2>4. /\ module_of' \in Seq(1..Len(modules)') /\ Len(module_of)' = Len(asked)'
        /\ Len(asked)' = n
    BY <1>1, <1>2, <1>7 DEF AskedOK
  <2>5. \A e \in 1..n : AsInList(e) \/ (~Sure(e) /\ BackedOut(e))
    BY <1>7 DEF AskedOK
  <2>6. \A e, o \in 1..n :
          List!Alone(module_of[e]) /\ module_of[o] = module_of[e] => o = e
    BY <1>7 DEF AskedOK
  <2>7. \A e, o \in 1..n :
          List!Alone(module_of[e])' /\ module_of'[o] = module_of'[e] => o = e
    BY <1>1, <1>6, <2>6
  <2> QED BY <1>5, <2>1, <2>2, <2>3, <2>4, <2>5, <2>7 DEF AskedOK
<1>9. ReadingOK'
  <2>1. reading_list \in {"stored", "adjusted", "copying"}
    BY <1>2, <1>7 DEF ReadingOK
  <2> QED BY <1>1, <1>2, <1>6, <1>7, <2>1 DEF ReadingOK
<1> QED BY <1>2, <1>3, <1>4, <1>8, <1>9 DEF ListInv

\* StoreRange is called for the module whose turn it is.
LEMMA ModuleAsked ==
  ASSUME ListInv, NEW base \in 0..MaxAddress, NEW bytes \in 0..(MaxAddress + 1),
         List!Store(base, bytes), module_index \in 1..Len(modules),
         \/ (base = ModuleStart(module_index) /\ bytes = List!Module(module_index).size)
         \/ /\ ~List!Alone(module_index) /\ Len(asked) > 0
            /\ \/ bytes = 0 \/ base + bytes - 1 > MaxAddress
               \/ (ModuleStart(module_index) <= base /\ base + bytes = ModuleEnd(module_index)),
         \A e \in 1..Len(asked) : module_of[e] = module_index => ~List!Alone(module_index)
  PROVE  /\ MappingsInv' /\ (ListRanges!StrategyInv)' /\ merge_strategy' = merge_strategy
         /\ AskedOK'
         /\ UNCHANGED <<mappings, stage, modules>>
         /\ Len(asked)' = Len(asked) + 1
         /\ module_of'[Len(asked) + 1] = module_index
         /\ \A e \in 1..Len(asked) : module_of'[e] = module_of[e]
         /\ asked'[Len(asked) + 1].base = base
         /\ \A k : List!Alone(k)' = List!Alone(k)
<1> DEFINE n == Len(asked)
           new == [base |-> base, size |-> bytes]
<1>1. /\ List!Ranges!StoreRange(base, bytes)
      /\ module_of' = Append(module_of, module_index)
      /\ UNCHANGED <<maps, mappings, entry_point, stage, modules>>
  BY DEF List!Store, List!mappingVars
<1>2. /\ call = NoCall /\ asked' = Append(asked, new)
      /\ call' = [base |-> base, delta |-> 0, size |-> bytes, entry |-> n + 1]
      /\ UNCHANGED <<merge_strategy, map, stored>>
  BY <1>1 DEF List!Ranges!StoreRange
<1>3. MappingsInv' /\ (ListRanges!StrategyInv)'
  BY <1>1, MappingsStepInv, ListMapGoesOn DEF ListInv, List!mappingVars
<1>4. /\ n \in Nat /\ Len(module_of) = n /\ module_of \in Seq(1..Len(modules))
      /\ stored \subseteq 1..n /\ AskedOK /\ MaxAddress \in Nat
      /\ asked \in Seq([base : 0..MaxAddress, size : Nat])
  <2>1. asked \in Seq([base : 0..MaxAddress, size : Nat])
    BY AskedTypes DEF ListRanges!RangesInv, ListRanges!CallOK, ListRanges!Addresses
  <2> QED BY <2>1, AskedTypes, ListSpace DEF ListInv, AskedOK
<1>5. /\ Len(asked)' = n + 1 /\ asked'[n + 1] = new
      /\ \A e \in 1..n : asked'[e] = asked[e]
  <2> HIDE DEF new
  <2> QED BY <1>2, <1>4
<1>6. /\ module_of' \in Seq(1..Len(modules)) /\ Len(module_of') = n + 1
      /\ module_of'[n + 1] = module_index
      /\ \A e \in 1..n : module_of'[e] = module_of[e]
  BY <1>1, <1>4
<1>7. asked'[n + 1].base = base /\ asked'[n + 1].size = bytes
  BY <1>5
<1>8. \A k : /\ ModuleStart(k)' = ModuleStart(k) /\ ModuleEnd(k)' = ModuleEnd(k)
             /\ List!Module(k)' = List!Module(k) /\ List!Alone(k)' = List!Alone(k)
  BY <1>1, SameModules
<1>9. ASSUME NEW e \in 1..n
      PROVE  /\ AsInList(e)' = AsInList(e) /\ BackedOut(e)' = BackedOut(e)
             /\ Sure(e)' = Sure(e) /\ ListRanges!NoRange(e)' = ListRanges!NoRange(e)
  BY <1>5, <1>6, <1>8
     DEF AsInList, BackedOut, Sure, ListRanges!NoRange, ListRanges!AskedHigh
<1>10. ASSUME NEW i, i = n + 1
       PROVE  AsInList(i)' \/ (~Sure(i)' /\ BackedOut(i)')
  <2>0. module_of'[i] = module_index /\ asked'[i].base = base /\ asked'[i].size = bytes
    BY <1>6, <1>7, <1>10
  <2>1. CASE base = ModuleStart(module_index) /\ bytes = List!Module(module_index).size
    BY <1>8, <2>0, <2>1 DEF AsInList
  <2>2. CASE /\ ~List!Alone(module_index) /\ n > 0
             /\ \/ bytes = 0 \/ base + bytes - 1 > MaxAddress
                \/ (ModuleStart(module_index) <= base /\ base + bytes = ModuleEnd(module_index))
    <3>1. ~Sure(i)'
      <4>1. i # 1
        BY <1>4, <1>10, <2>2
      <4> QED BY <1>8, <2>0, <2>2, <4>1 DEF Sure
    <3>2. ListRanges!AskedHigh(i)' = base + bytes - 1
      BY <2>0 DEF ListRanges!AskedHigh
    <3>3. CASE bytes = 0 \/ base + bytes - 1 > MaxAddress
      BY <2>0, <3>1, <3>2, <3>3 DEF BackedOut, ListRanges!NoRange
    <3>4. CASE ModuleStart(module_index) <= base /\ base + bytes = ModuleEnd(module_index)
      <4>1. base + bytes - 1 = ModuleEnd(module_index) - 1
        BY <3>4
      <4> QED BY <1>8, <2>0, <3>1, <3>2, <3>4, <4>1 DEF BackedOut
    <3> QED BY <2>2, <3>3, <3>4
  <2> QED BY <2>1, <2>2
<1>11. \A e \in 1..(n + 1) : e \in 1..n \/ e = n + 1
  BY <1>4
<1>12. call' # NoCall /\ call'.size = bytes
  <2>1. base \in Nat /\ bytes \in Nat /\ n + 1 \in Nat
    BY <1>4
  <2> QED BY <1>2, <2>1, RangeAssumption
<1>13. \A e \in 1..n : Sure(e) => e \in stored
  BY <1>2, <1>4 DEF AskedOK
<1>14. \A e \in stored : ~ListRanges!NoRange(e)'
  BY <1>4, <1>9 DEF AskedOK
<1>15. ASSUME NEW e \in 1..(n + 1), NEW o \in 1..(n + 1),
              List!Alone(module_of'[e]), module_of'[o] = module_of'[e]
       PROVE  o = e
  <2>1. CASE e \in 1..n /\ o \in 1..n
    BY <1>4, <1>6, <1>15, <2>1 DEF AskedOK
  <2>2. CASE e = n + 1 /\ o \in 1..n
    BY <1>6, <1>15, <2>2
  <2>3. CASE e \in 1..n /\ o = n + 1
    BY <1>6, <1>15, <2>3
  <2> QED BY <1>11, <2>1, <2>2, <2>3
<1>16. AskedOK'
  <2>1. \A e \in 1..(n + 1) : AsInList(e)' \/ (~Sure(e)' /\ BackedOut(e)')
    <3>1. \A e \in 1..n : AsInList(e) \/ (~Sure(e) /\ BackedOut(e))
      BY <1>4 DEF AskedOK
    <3> QED BY <1>9, <1>10, <1>11, <3>1
  <2>2. \A e \in 1..(n + 1) : Sure(e)' => e \in stored' \/ (call' # NoCall /\ e = n + 1)
    BY <1>2, <1>9, <1>11, <1>12, <1>13
  <2>3. \A e, o \in 1..(n + 1) :
          List!Alone(module_of[e])' /\ module_of'[o] = module_of'[e] => o = e
    BY <1>8, <1>15
  <2> QED BY <1>1, <1>2, <1>5, <1>6, <1>7, <1>12, <1>14, <2>1, <2>2, <2>3 DEF AskedOK
<1> QED BY <1>1, <1>2, <1>3, <1>5, <1>6, <1>7, <1>8, <1>16

\* What is asked for a module as it is in the list is in bounds.
LEMMA ModuleFits ==
  ASSUME ListInv, NEW k \in 1..Len(modules)
  PROVE  List!Module(k).start_addr \in 0..MaxAddress /\ List!Module(k).size \in 0..(MaxAddress + 1)
<1> DEFINE s == List!Module(k).size
<1>1. /\ ModuleStart(k) \in Nat /\ s \in Nat
      /\ ModuleStart(k) < ModuleEnd(k) /\ ModuleEnd(k) <= LastPage
      /\ LastPage <= MaxAddress /\ MaxAddress \in Nat /\ LastPage \in Nat
      /\ ModuleEnd(k) = ModuleStart(k) + s
  BY ModuleIs DEF ListInv, ModuleStart, ModuleEnd
<1> HIDE DEF s
<1>2. ModuleStart(k) \in 0..MaxAddress /\ s \in 0..(MaxAddress + 1)
  BY <1>1
<1> QED BY <1>2 DEF s, ModuleStart

LEMMA StoreModuleInv ==
  ASSUME ListInv, List!StoreModule
  PROVE  ListInv'
<1> DEFINE n == Len(asked)
<1>1. /\ reading_list = "module" /\ reading_list' = "stored"
      /\ module_index <= Len(modules)
      /\ List!Store(List!Module(module_index).start_addr, List!Module(module_index).size)
      /\ UNCHANGED <<module_index, last_end_address>>
  BY DEF List!StoreModule
<1>2. /\ module_index \in 1..Len(modules) /\ n \in Nat /\ Len(modules) \in Nat
      /\ ReadingOK /\ ModulesOK /\ merge_strategy = "truncateLower"
      /\ \A e \in 1..n : module_of[e] < module_index /\ module_of[e] # module_index
  <2>1. /\ module_index \in 1..Len(modules) /\ n \in Nat /\ Len(modules) \in Nat
    BY <1>1, AskedTypes DEF ListInv, ModulesOK
  <2>2. \A e \in 1..n : module_of[e] \in Nat /\ module_of[e] < module_index
    BY <1>1, AskedTypes DEF ListInv, ReadingOK
  <2> QED BY <2>1, <2>2 DEF ListInv
<1>3. /\ MappingsInv' /\ (ListRanges!StrategyInv)' /\ merge_strategy' = merge_strategy
      /\ AskedOK' /\ UNCHANGED <<mappings, stage, modules>>
      /\ Len(asked)' = n + 1 /\ module_of'[n + 1] = module_index
      /\ \A e \in 1..n : module_of'[e] = module_of[e]
  BY <1>1, <1>2, ModuleAsked, ModuleFits DEF ModuleStart
<1>4. ModulesOK'
  BY <1>1, <1>2, <1>3 DEF ModulesOK
<1>5. ReadingOK'
  <2>1. ASSUME NEW k \in 1..(module_index - 1)
        PROVE  \E e \in 1..(n + 1) : module_of'[e] = k
    <3>1. PICK e \in 1..n : module_of[e] = k
      BY <1>2 DEF ReadingOK
    <3> QED BY <1>2, <1>3, <3>1
  <2>2. \A e \in 1..((n + 1) - 1) : module_of'[e] < module_index
    BY <1>2, <1>3
  <2>3. /\ n + 1 > 0
    BY <1>2
  <2> QED BY <1>1, <1>2, <1>3, <2>1, <2>2, <2>3 DEF ReadingOK
<1> QED BY <1>2, <1>3, <1>4, <1>5 DEF ListInv

LEMMA CopyModuleInv ==
  ASSUME ListInv, List!CopyModule
  PROVE  ListInv'
<1> DEFINE n == Len(asked)
<1>1. /\ reading_list = "copying" /\ module_index' = module_index + 1
      /\ module_index <= Len(modules)
      /\ List!Store(List!Module(module_index).start_addr, List!Module(module_index).size)
      /\ UNCHANGED <<reading_list, last_end_address>>
  BY DEF List!CopyModule
<1>2. /\ module_index \in 1..Len(modules) /\ n \in Nat /\ Len(modules) \in Nat
      /\ ReadingOK /\ ModulesOK /\ merge_strategy = "truncateLower"
      /\ n = module_index - 1 /\ module_index = n + 1
      /\ \A e \in 1..n : module_of[e] = e /\ module_of[e] # module_index
  <2>1. /\ module_index \in 1..Len(modules) /\ n \in Nat /\ Len(modules) \in Nat
    BY <1>1, AskedTypes DEF ListInv, ModulesOK
  <2>2. n = module_index - 1 /\ \A e \in 1..n : module_of[e] = e
    BY <1>1 DEF ListInv, ReadingOK
  <2> QED BY <2>1, <2>2 DEF ListInv
<1>3. /\ MappingsInv' /\ (ListRanges!StrategyInv)' /\ merge_strategy' = merge_strategy
      /\ AskedOK' /\ UNCHANGED <<mappings, stage, modules>>
      /\ Len(asked)' = n + 1 /\ module_of'[n + 1] = module_index
      /\ \A e \in 1..n : module_of'[e] = module_of[e]
  BY <1>1, <1>2, ModuleAsked, ModuleFits DEF ModuleStart
<1>4. ModulesOK'
  BY <1>1, <1>2, <1>3 DEF ModulesOK
<1>5. ReadingOK'
  <2>1. \A e \in 1..(n + 1) : e \in 1..n \/ e = n + 1
    BY <1>2
  <2>2. \A e \in 1..(n + 1) : module_of'[e] = e
    BY <1>2, <1>3, <2>1
  <2>3. module_index' - 1 = n + 1
    BY <1>1, <1>2
  <2> QED BY <1>1, <1>2, <1>3, <2>2, <2>3 DEF ReadingOK
<1> QED BY <1>2, <1>3, <1>4, <1>5 DEF ListInv

\* What was asked for stays, when only the turn goes to another.
LEMMA AskedStays ==
  ASSUME ListInv,
         UNCHANGED <<maps, mappings, entry_point, stage, merge_strategy, map, call, asked, stored,
                     modules, module_of>>
  PROVE  /\ MappingsInv' /\ (ListRanges!StrategyInv)' /\ merge_strategy' = "truncateLower"
         /\ AskedOK'
         /\ \A k : List!Alone(k)' = List!Alone(k)
<1>1. MappingsInv' /\ (ListRanges!StrategyInv)'
  BY MappingsStepInv, ListMapGoesOn DEF ListInv, List!mappingVars, rangeVars
<1>2. /\ \A e : /\ AsInList(e)' = AsInList(e) /\ BackedOut(e)' = BackedOut(e)
                /\ Sure(e)' = Sure(e) /\ ListRanges!NoRange(e)' = ListRanges!NoRange(e)
      /\ \A k : List!Alone(k)' = List!Alone(k)
  BY SameAsked, SameModules
<1>3. AskedOK
  BY DEF ListInv
<1>4. AskedOK'
  BY <1>2, <1>3 DEF AskedOK
<1> QED BY <1>1, <1>2, <1>4 DEF ListInv

LEMMA WriteMappingsInv ==
  ASSUME ListInv, List!WriteMappings
  PROVE  ListInv'
<1>1. /\ stage = "ready" /\ reading_list = "unwritten" /\ reading_list' = "module"
      /\ modules' \in List!Selections
      /\ UNCHANGED <<maps, mappings, entry_point, stage, merge_strategy, map, call, asked, stored,
                     module_of, module_index, last_end_address>>
  BY DEF List!WriteMappings, List!mappingVars, List!rangeVars
<1>2. /\ asked = <<>> /\ call = NoCall /\ module_index = 1 /\ last_end_address = 0
      /\ Len(asked) = 0 /\ Len(module_of) = 0 /\ stored \subseteq 1..Len(asked)
      /\ module_of \in Seq(1..Len(modules))
      /\ merge_strategy = "truncateLower"
  BY <1>1, AskedTypes DEF ListInv, ReadingOK, AskedOK
<1>3. /\ Len(mappings) \in Nat /\ DOMAIN mappings = 1..Len(mappings)
  BY MappingTypes DEF ListInv
<1>4. /\ modules' \in Seq(1..Len(mappings)) /\ Len(modules') <= Len(mappings)
      /\ Len(modules') \in Nat
      /\ \A j, k \in 1..Len(modules') : j < k => modules'[j] < modules'[k]
  <2>1. PICK n \in 0..Len(mappings) : modules' \in [1..n -> 1..Len(mappings)]
    BY <1>1, <1>3 DEF List!Selections
  <2>2. /\ modules' \in Seq(1..Len(mappings)) /\ Len(modules') = n /\ DOMAIN modules' = 1..n
        /\ n \in Nat
    BY <1>3, <2>1
  <2> QED BY <1>1, <1>3, <2>2 DEF List!Selections
<1>5. MappingsInv' /\ (ListRanges!StrategyInv)'
  BY <1>1, MappingsStepInv, ListMapGoesOn DEF ListInv, List!mappingVars, rangeVars
<1>6. ModulesOK'
  <2>1. last_end_address \in 0..LastPage
    BY DEF ListInv, ModulesOK
  <2> QED BY <1>1, <1>2, <1>4, <2>1 DEF ModulesOK
<1>7. AskedOK'
  <2>1. module_of = <<>>
    BY <1>2
  <2> QED BY <1>1, <1>2, <2>1 DEF AskedOK
<1>8. ReadingOK'
  BY <1>1, <1>2 DEF ReadingOK
<1> QED BY <1>1, <1>2, <1>5, <1>6, <1>7, <1>8 DEF ListInv

\* A mapping changes only before the list is written.
LEMMA MappingsOfList ==
  ASSUME ListInv, List!Step,
         UNCHANGED <<merge_strategy, map, call, asked, stored, modules, module_of, module_index,
                     last_end_address, reading_list>>
  PROVE  ListInv'
<1>1. stage # "ready"
  BY DEF List!Step, List!ReadLine, List!PutProgramFirst, List!LatePostprocessMappings
<1>2. reading_list = "unwritten"
  BY <1>1 DEF ListInv, ModulesOK
<1>3. /\ asked = <<>> /\ call = NoCall /\ modules = <<>> /\ module_index = 1
      /\ last_end_address = 0
      /\ Len(asked) = 0 /\ Len(module_of) = 0 /\ stored \subseteq 1..Len(asked)
      /\ merge_strategy = "truncateLower"
      /\ module_of \in Seq(1..Len(modules))
  BY <1>2, AskedTypes DEF ListInv, ReadingOK, AskedOK
<1>4. MappingsInv' /\ (ListRanges!StrategyInv)'
  BY MappingsStepInv, ListMapGoesOn DEF ListInv, rangeVars
<1>5. ModulesOK'
  <2>1. Len(mappings') \in Nat
    BY <1>4 DEF MappingsInv
  <2>2. last_end_address \in 0..LastPage
    BY DEF ListInv, ModulesOK
  <2> QED BY <1>2, <1>3, <2>1, <2>2 DEF ModulesOK
<1>6. AskedOK'
  <2>1. module_of = <<>>
    BY <1>3
  <2> QED BY <1>3, <2>1 DEF AskedOK
<1>7. ReadingOK'
  BY <1>2, <1>3 DEF ReadingOK
<1> QED BY <1>3, <1>4, <1>5, <1>6, <1>7 DEF ListInv

\* The turn goes to the next module when the one before has its range.
LEMMA NextModule ==
  ASSUME ListInv, reading_list \in {"stored", "adjusted"}, call = NoCall,
         reading_list' = "module", module_index' = module_index + 1,
         last_end_address' \in 0..LastPage,
         UNCHANGED <<maps, mappings, entry_point, stage, merge_strategy, map, call, asked, stored,
                     modules, module_of>>
  PROVE  ListInv'
<1> DEFINE n == Len(asked)
<1>1. /\ MappingsInv' /\ (ListRanges!StrategyInv)' /\ merge_strategy' = "truncateLower"
      /\ AskedOK'
  BY AskedStays
<1>2. /\ ReadingOK /\ ModulesOK /\ n \in Nat /\ n > 0 /\ n \in 1..n /\ Len(modules) \in Nat
      /\ module_index \in 1..Len(modules) /\ module_of[n] = module_index
      /\ \A e \in 1..n : module_of[e] \in Nat
  <2>1. /\ ReadingOK /\ ModulesOK /\ n \in Nat /\ Len(modules) \in Nat /\ module_index \in Nat
        /\ \A e \in 1..n : module_of[e] \in Nat
    BY AskedTypes DEF ListInv
  <2>2. n > 0 /\ module_index <= Len(modules) /\ module_of[n] = module_index
    BY <2>1 DEF ReadingOK
  <2>3. module_index \in 1..Len(modules)
    BY <2>1, <2>2 DEF ModulesOK
  <2> QED BY <2>1, <2>2, <2>3
<1>3. ModulesOK'
  BY <1>2 DEF ModulesOK
<1>4. \A e \in 1..n : module_of[e] < module_index + 1
  <2>1. CASE reading_list = "stored"
    <3>1. \A e \in 1..n : e \in 1..(n - 1) \/ e = n
      BY <1>2
    <3>2. \A e \in 1..(n - 1) : module_of[e] < module_index
      BY <1>2, <2>1 DEF ReadingOK
    <3>3. \A e \in 1..(n - 1) : e \in 1..n
      BY <1>2
    <3> HIDE DEF n
    <3> QED BY <1>2, <3>1, <3>2, <3>3
  <2>2. CASE reading_list = "adjusted"
    <3>1. \A e \in 1..n : module_of[e] <= module_index
      BY <1>2, <2>2 DEF ReadingOK
    <3> QED BY <1>2, <3>1
  <2> QED BY <2>1, <2>2
<1>5. \A k \in 1..((module_index + 1) - 1) : \E e \in 1..n : module_of[e] = k
  <2>1. \A k \in 1..((module_index + 1) - 1) : k \in 1..(module_index - 1) \/ k = module_index
    BY <1>2
  <2> QED BY <1>2, <2>1 DEF ReadingOK
<1>6. ReadingOK'
  BY <1>4, <1>5 DEF ReadingOK
<1> QED BY <1>1, <1>3, <1>6 DEF ListInv

LEMMA ModuleIsStoredInv ==
  ASSUME ListInv, List!ModuleIsStored
  PROVE  ListInv'
<1>1. /\ reading_list = "stored" /\ call = NoCall
      /\ last_end_address' = ModuleEnd(module_index)
      /\ module_index' = module_index + 1 /\ reading_list' = "module"
      /\ UNCHANGED <<maps, mappings, entry_point, stage, merge_strategy, map, call, asked, stored,
                     modules, module_of>>
  BY DEF List!ModuleIsStored, List!Returned, ModuleEnd, List!mappingVars, List!rangeVars
<1>2. module_index \in 1..Len(modules)
  <2>1. module_index <= Len(modules) /\ module_index \in 1..(Len(modules) + 1)
        /\ Len(modules) \in Nat
    BY <1>1, AskedTypes DEF ListInv, ReadingOK, ModulesOK
  <2> QED BY <2>1
<1>3. last_end_address' \in 0..LastPage
  BY <1>1, <1>2, ModuleIs DEF ListInv
<1> QED BY <1>1, <1>3, NextModule

LEMMA AdjustedIsStoredInv ==
  ASSUME ListInv, List!AdjustedIsStored
  PROVE  ListInv'
<1> DEFINE n == Len(asked)
<1>1. /\ reading_list = "adjusted" /\ call = NoCall /\ n \in stored
      /\ last_end_address' = last_end_address + asked[n].size
      /\ module_index' = module_index + 1 /\ reading_list' = "module"
      /\ UNCHANGED <<maps, mappings, entry_point, stage, merge_strategy, map, call, asked, stored,
                     modules, module_of>>
  BY DEF List!AdjustedIsStored, List!Returned, List!WasStored, List!mappingVars, List!rangeVars
<1>2. asked[n].base = last_end_address
  BY <1>1 DEF ListInv, ReadingOK
<1>3. /\ n \in 1..n /\ ListRanges!AskedHigh(n) = ModuleEnd(module_of[n]) - 1
      /\ module_of[n] \in 1..Len(modules)
  BY <1>1, StoredIsInModule
<1>4. /\ ListRanges!AskedHigh(n) = asked[n].base + asked[n].size - 1
      /\ asked[n].base \in Nat /\ asked[n].size \in Nat
  BY <1>3, AskedTypes
<1>5. ModuleEnd(module_of[n]) \in Nat /\ ModuleEnd(module_of[n]) <= LastPage /\ LastPage \in Nat
  BY <1>3, ModuleIs DEF ListInv
<1> HIDE DEF n
<1>6. last_end_address' \in 0..LastPage
  <2>1. last_end_address' = asked[n].base + asked[n].size
    BY <1>1, <1>2
  <2>2. asked[n].base + asked[n].size - 1 = ModuleEnd(module_of[n]) - 1
    BY <1>3, <1>4
  <2>3. ASSUME NEW b \in Nat, NEW s \in Nat, NEW m \in Nat, b + s - 1 = m - 1
        PROVE  b + s = m
    BY <2>3
  <2>4. asked[n].base + asked[n].size = ModuleEnd(module_of[n])
    BY <1>4, <1>5, <2>2, <2>3
  <2> QED BY <1>5, <2>1, <2>4
<1> QED BY <1>1, <1>6, NextModule

\* The last that was asked for, and refused, is of a module that is not alone.
LEMMA RefusedIsNotAlone ==
  ASSUME ListInv, reading_list \in {"stored", "adjusted"}, call = NoCall, Len(asked) \notin stored
  PROVE  /\ module_index \in 1..Len(modules) /\ ~List!Alone(module_index)
         /\ Len(asked) \in Nat /\ Len(asked) > 0 /\ module_of[Len(asked)] = module_index
<1>1. /\ Len(asked) \in Nat /\ Len(asked) > 0 /\ module_of[Len(asked)] = module_index
      /\ module_index <= Len(modules) /\ module_index \in 1..(Len(modules) + 1)
      /\ Len(modules) \in Nat
  BY AskedTypes DEF ListInv, ReadingOK, ModulesOK
<1>2. ~Sure(Len(asked))
  BY <1>1 DEF ListInv, AskedOK
<1> QED BY <1>1, <1>2 DEF Sure

LEMMA RefuseInv ==
  ASSUME ListInv, List!Refuse
  PROVE  ListInv'
<1>1. /\ reading_list \in {"stored", "adjusted"} /\ call = NoCall /\ Len(asked) \notin stored
      /\ reading_list' = "refused"
      /\ UNCHANGED <<maps, mappings, entry_point, stage, merge_strategy, map, call, asked, stored,
                     modules, module_of, module_index, last_end_address>>
  BY DEF List!Refuse, List!NotStored, List!Returned, List!WasStored, List!mappingVars,
         List!rangeVars
<1>2. /\ MappingsInv' /\ (ListRanges!StrategyInv)' /\ merge_strategy' = "truncateLower"
      /\ AskedOK' /\ \A k : List!Alone(k)' = List!Alone(k)
  BY <1>1, AskedStays
<1>3. module_index \in 1..Len(modules) /\ ~List!Alone(module_index)
  BY <1>1, RefusedIsNotAlone
<1>4. ModulesOK'
  BY <1>1 DEF ListInv, ModulesOK
<1>5. ReadingOK'
  BY <1>1, <1>2, <1>3 DEF ListInv, ReadingOK
<1> QED BY <1>2, <1>4, <1>5 DEF ListInv

LEMMA ListEnds ==
  ASSUME ListInv, List!ListIsRead \/ List!ListIsCopied
  PROVE  ListInv'
<1>1. /\ \/ (reading_list = "module" /\ reading_list' = "valid")
         \/ (reading_list = "copying" /\ reading_list' = "copied" /\ call = NoCall)
      /\ module_index > Len(modules)
      /\ UNCHANGED <<maps, mappings, entry_point, stage, merge_strategy, map, call, asked, stored,
                     modules, module_of, module_index, last_end_address>>
  BY DEF List!ListIsRead, List!ListIsCopied, List!Returned, List!mappingVars, List!rangeVars
<1>2. /\ MappingsInv' /\ (ListRanges!StrategyInv)' /\ merge_strategy' = "truncateLower"
      /\ AskedOK'
  BY <1>1, AskedStays
<1>3. module_index = Len(modules) + 1
  BY <1>1, AskedTypes DEF ListInv, ModulesOK
<1>4. ModulesOK'
  BY <1>1 DEF ListInv, ModulesOK
<1>5. ReadingOK'
  BY <1>1, <1>2, <1>3 DEF ListInv, ReadingOK
<1> QED BY <1>2, <1>4, <1>5 DEF ListInv

LEMMA CopyInv ==
  ASSUME ListInv, List!Copy
  PROVE  ListInv'
<1>1. /\ reading_list = "valid" /\ reading_list' = "copying"
      /\ call = NoCall /\ call' = NoCall /\ asked' = <<>> /\ stored' = {} /\ module_of' = <<>>
      /\ module_index' = 1 /\ List!Ranges!Clear
      /\ UNCHANGED <<maps, mappings, entry_point, stage, merge_strategy, modules,
                     last_end_address>>
  BY DEF List!Copy, List!Ranges!Clear, List!mappingVars
<1>2. MappingsInv' /\ (ListRanges!StrategyInv)' /\ merge_strategy' = "truncateLower"
  BY <1>1, MappingsStepInv, ListMapGoesOn DEF ListInv, List!mappingVars
<1>3. ModulesOK'
  <2>1. 1 \in 1..(Len(modules) + 1)
    BY AskedTypes
  <2> QED BY <1>1, <2>1 DEF ListInv, ModulesOK
<1>4. AskedOK'
  BY <1>1 DEF AskedOK
<1>5. ReadingOK'
  BY <1>1 DEF ReadingOK
<1> QED BY <1>2, <1>3, <1>4, <1>5 DEF ListInv

\* What is left of a range that began too low still ends where it did, or is none, for its
\* size has wrapped.
LEMMA BackedOutSize ==
  ASSUME NEW first \in Nat, NEW bytes \in Nat \ {0}, NEW last \in Nat, NEW top \in Nat,
         first + bytes <= top, last <= top, first < last
  PROVE  /\ (bytes - (last - first)) % (top + 1) \in 0..(top + 1)
         /\ \/ (bytes - (last - first)) % (top + 1) = 0
            \/ last + ((bytes - (last - first)) % (top + 1)) - 1 > top
            \/ (first <= last /\ last + ((bytes - (last - first)) % (top + 1)) = first + bytes)
<1> DEFINE d == bytes - (last - first)
<1>1. d \in Int /\ d <= top /\ d >= -top /\ last + d = first + bytes
  OBVIOUS
<1>2. CASE d >= 0
  <2>1. d % (top + 1) = d
    BY <1>1, <1>2
  <2> HIDE DEF d
  <2> QED BY <1>1, <1>2, <2>1 DEF d
<1>3. CASE d < 0
  <2> HIDE DEF d
  <2>1. d % (top + 1) = d + (top + 1)
    BY <1>1, <1>3
  <2>2. d % (top + 1) \in 0..(top + 1)
    BY <1>1, <1>3, <2>1
  <2>3. last + (d % (top + 1)) - 1 = first + bytes + top
    BY <1>1, <2>1
  <2>4. last + (d % (top + 1)) - 1 > top
    BY <2>3
  <2> QED BY <2>2, <2>4 DEF d
<1> QED BY <1>1, <1>2, <1>3

LEMMA BackOutCorrectionInv ==
  ASSUME ListInv, List!BackOutCorrection
  PROVE  ListInv'
<1> DEFINE n == Len(asked)
           bytes == (List!Module(module_index).size
                       - (last_end_address - List!Module(module_index).start_addr))
                      % (MaxAddress + 1)
<1>1. /\ reading_list = "stored" /\ reading_list' = "adjusted"
      /\ call = NoCall /\ n \notin stored
      /\ ModuleStart(module_index) < last_end_address
      /\ List!Store(last_end_address, bytes)
      /\ UNCHANGED <<module_index, last_end_address>>
  BY DEF List!BackOutCorrection, List!NotStored, List!Returned, List!WasStored, ModuleStart
<1>2. /\ module_index \in 1..Len(modules) /\ ~List!Alone(module_index)
      /\ n \in Nat /\ n > 0 /\ module_of[n] = module_index /\ Len(modules) \in Nat
      /\ ReadingOK /\ ModulesOK /\ merge_strategy = "truncateLower"
  BY <1>1, RefusedIsNotAlone, AskedTypes DEF ListInv
<1>3. /\ bytes \in 0..(MaxAddress + 1) /\ last_end_address \in 0..MaxAddress
      /\ \/ bytes = 0 \/ last_end_address + bytes - 1 > MaxAddress
         \/ /\ ModuleStart(module_index) <= last_end_address
            /\ last_end_address + bytes = ModuleEnd(module_index)
  <2> DEFINE first == ModuleStart(module_index)
             all == List!Module(module_index).size
  <2>1. /\ first \in Nat /\ all \in Nat \ {0} /\ ModuleEnd(module_index) \in Nat
        /\ ModuleEnd(module_index) <= LastPage /\ LastPage <= MaxAddress
        /\ MaxAddress \in Nat /\ LastPage \in Nat
        /\ ModuleEnd(module_index) = first + all
    <3>1. /\ first \in Nat /\ all \in Nat /\ ModuleEnd(module_index) \in Nat
          /\ first < ModuleEnd(module_index)
          /\ ModuleEnd(module_index) <= LastPage /\ LastPage <= MaxAddress
          /\ MaxAddress \in Nat /\ LastPage \in Nat
      BY <1>2, ModuleIs DEF ListInv
    <3>2. ModuleEnd(module_index) = first + all
      BY DEF ModuleStart, ModuleEnd
    <3> HIDE DEF first, all
    <3> QED BY <3>1, <3>2
  <2>2. last_end_address \in Nat /\ last_end_address <= MaxAddress /\ first < last_end_address
    BY <1>1, <1>2, <2>1 DEF ModulesOK
  <2>3. bytes = (all - (last_end_address - first)) % (MaxAddress + 1)
    BY DEF ModuleStart
  <2> HIDE DEF first, all, bytes
  <2>4. first + all <= MaxAddress
    BY <2>1
  <2>5. /\ bytes \in 0..(MaxAddress + 1)
        /\ \/ bytes = 0 \/ last_end_address + bytes - 1 > MaxAddress
           \/ (first <= last_end_address /\ last_end_address + bytes = first + all)
    BY <2>1, <2>2, <2>3, <2>4, BackedOutSize
  <2> QED BY <2>1, <2>2, <2>5 DEF first
<1> HIDE DEF bytes
<1>4. /\ MappingsInv' /\ (ListRanges!StrategyInv)' /\ merge_strategy' = merge_strategy
      /\ AskedOK' /\ UNCHANGED <<mappings, stage, modules>>
      /\ Len(asked)' = n + 1 /\ module_of'[n + 1] = module_index
      /\ \A e \in 1..n : module_of'[e] = module_of[e]
      /\ asked'[n + 1].base = last_end_address
      /\ \A k : List!Alone(k)' = List!Alone(k)
  BY <1>1, <1>2, <1>3, ModuleAsked
<1>5. ModulesOK'
  BY <1>1, <1>2, <1>4 DEF ModulesOK
<1>6. ReadingOK'
  <2>1. ASSUME NEW k \in 1..(module_index - 1)
        PROVE  \E e \in 1..(n + 1) : module_of'[e] = k
    <3>1. PICK e \in 1..n : module_of[e] = k
      BY <1>2 DEF ReadingOK
    <3> QED BY <1>2, <1>4, <3>1
  <2>2. ASSUME NEW e \in 1..(n + 1) PROVE module_of'[e] <= module_index
    <3>1. CASE e \in 1..(n - 1)
      <4>1. module_of[e] \in Nat /\ module_of[e] < module_index /\ module_of'[e] = module_of[e]
        BY <1>1, <1>2, <1>4, <3>1, AskedTypes DEF ReadingOK
      <4> QED BY <1>2, <4>1
    <3>2. CASE e = n \/ e = n + 1
      BY <1>2, <1>4, <3>2
    <3> QED BY <1>2, <3>1, <3>2
  <2>3. n + 1 > 0
    BY <1>2
  <2> QED BY <1>1, <1>2, <1>4, <2>1, <2>2, <2>3 DEF ReadingOK
<1> QED BY <1>2, <1>4, <1>5, <1>6 DEF ListInv

LEMMA ListStepInv ==
  ASSUME ListInv, [List!ListStep]_<<List!mappingVars, List!rangeVars, List!listVars>>
  PROVE  ListInv'
<1>1. CASE List!Step /\ UNCHANGED <<List!rangeVars, List!listVars>>
  BY <1>1, MappingsOfList DEF List!rangeVars, List!listVars
<1>2. CASE UNCHANGED <<List!mappingVars, List!rangeVars, List!listVars>>
  <2>1. UNCHANGED <<maps, mappings, entry_point, stage, merge_strategy, map, call, asked, stored,
                    modules, module_of, module_index, last_end_address, reading_list>>
    BY <1>2 DEF List!mappingVars, List!rangeVars, List!listVars
  <2>2. /\ MappingsInv' /\ (ListRanges!StrategyInv)' /\ merge_strategy' = "truncateLower"
        /\ AskedOK' /\ \A k : List!Alone(k)' = List!Alone(k)
    BY <2>1, AskedStays
  <2>3. ModulesOK'
    BY <2>1 DEF ListInv, ModulesOK
  <2>4. ReadingOK'
    BY <2>1, <2>2 DEF ListInv, ReadingOK
  <2> QED BY <2>2, <2>3, <2>4 DEF ListInv
<1> QED
  BY <1>1, <1>2, WriteMappingsInv, StoreModuleInv, ModuleIsStoredInv, BackOutCorrectionInv,
     AdjustedIsStoredInv, RefuseInv, ListEnds, CopyInv, CopyModuleInv, StoringList
     DEF List!ListStep

LEMMA ListInitInv ==
  ASSUME List!ListInit, List!RangesInit
  PROVE  ListInv
<1>1. /\ MappingsInv /\ ListRanges!StrategyInv /\ merge_strategy = "truncateLower"
  BY MappingsInitInv, ListMapBegins DEF List!ListInit
<1>2. /\ mappings = <<>> /\ modules = <<>> /\ module_of = <<>> /\ module_index = 1
      /\ last_end_address = 0 /\ reading_list = "unwritten"
      /\ asked = <<>> /\ call = NoCall /\ stored = {}
  BY DEF List!ListInit, List!Init, List!RangesInit, List!Ranges!RangeInit
<1>3. ModulesOK
  <2>1. <<>> \in Seq(1..0) /\ Len(<<>>) = 0 /\ 0 \in 0..LastPage
    BY ModulesAssumption
  <2> QED BY <1>2, <2>1 DEF ModulesOK
<1>4. AskedOK
  BY <1>2 DEF AskedOK
<1>5. ReadingOK
  BY <1>2 DEF ReadingOK
<1> QED BY <1>1, <1>3, <1>4, <1>5 DEF ListInv

\* What is found for an address was stored for it, and is what the strategy says.
LEMMA FoundInList ==
  ASSUME ListInv, NEW address \in 0..(LastPage - 1)
  PROVE  /\ address \in ListRanges!Addresses
         /\ List!GetModuleForAddress(address) =
              {module_of[map[h].entry] : h \in ListRanges!Retrieved(address)}
         /\ \A h \in ListRanges!Retrieved(address) :
              /\ map[h].entry \in stored /\ module_of[map[h].entry] \in 1..Len(modules)
              /\ address \in List!Pages(module_of[map[h].entry])
<1>1. /\ LastPage <= MaxAddress /\ MaxAddress \in Nat /\ LastPage \in Nat
  BY ModulesAssumption, ListSpace
<1>2. address \in ListRanges!Addresses /\ address \in Nat
  BY <1>1 DEF ListRanges!Addresses
<1>3. List!GetModuleForAddress(address) =
        {module_of[map[h].entry] : h \in ListRanges!Retrieved(address)}
  BY DEF List!GetModuleForAddress, ListRanges!Retrieved, List!Ranges!Retrieved,
         ListRanges!LowerBound, List!Ranges!LowerBound
<1>4. ASSUME NEW h \in ListRanges!Retrieved(address)
      PROVE  /\ map[h].entry \in stored /\ module_of[map[h].entry] \in 1..Len(modules)
             /\ address \in List!Pages(module_of[map[h].entry])
  <2> DEFINE e == map[h].entry
             m == module_of[e]
  <2>1. e \in ListRanges!AskedFor(address)
    BY <1>2, <1>4, ListRanges!FoundIsRight, ListSpace, FileAssumption, AllocatorAssumption
       DEF ListInv
  <2>2. /\ e \in stored /\ asked[e].base <= address /\ address <= ListRanges!AskedHigh(e)
    BY <2>1 DEF ListRanges!AskedFor
  <2>3. /\ m \in 1..Len(modules) /\ ModuleStart(m) <= asked[e].base
        /\ ListRanges!AskedHigh(e) = ModuleEnd(m) - 1
        /\ asked[e].base \in Nat
    BY <2>2, StoredIsInModule, AskedTypes
  <2>4. /\ ModuleStart(m) \in Nat /\ ModuleEnd(m) \in Nat
        /\ List!Pages(m) = ModuleStart(m)..(ModuleEnd(m) - 1)
    BY <2>3, ModuleIs DEF ListInv
  <2> HIDE DEF m, e
  <2>5. address \in List!Pages(m)
    BY <1>2, <2>2, <2>3, <2>4
  <2> QED BY <2>2, <2>3, <2>5 DEF e, m
<1> QED BY <1>2, <1>3, <1>4

\* A range that is sure, and is as in the list, is found where no other begins above it.
LEMMA SureIsFound ==
  ASSUME ListInv, call = NoCall, NEW e \in 1..Len(asked), Sure(e),
         NEW address \in List!Pages(module_of[e]),
         ~ListRanges!Later(e, address)
  PROVE  /\ address \in 0..(LastPage - 1)
         /\ \E h \in ListRanges!Retrieved(address) : map[h].entry = e
<1> DEFINE m == module_of[e]
<1>1. /\ e \in stored /\ AsInList(e) /\ m \in 1..Len(modules)
      /\ asked[e].base \in Nat /\ asked[e].size \in Nat
      /\ ListRanges!AskedHigh(e) = asked[e].base + asked[e].size - 1
      /\ merge_strategy = "truncateLower"
  BY AskedTypes DEF ListInv, AskedOK
<1>2. /\ ModuleStart(m) \in Nat /\ List!Module(m).size \in Nat /\ ModuleEnd(m) \in Nat
      /\ ModuleEnd(m) <= LastPage /\ LastPage <= MaxAddress
      /\ MaxAddress \in Nat /\ LastPage \in Nat
      /\ List!Pages(m) = ModuleStart(m)..(ModuleEnd(m) - 1)
      /\ ModuleEnd(m) = ModuleStart(m) + List!Module(m).size
  BY <1>1, ModuleIs DEF ListInv, ModuleStart, ModuleEnd
<1>3. asked[e].base = ModuleStart(m) /\ asked[e].size = List!Module(m).size
  BY <1>1 DEF AsInList
<1>4. address \in ModuleStart(m)..(ModuleEnd(m) - 1)
  BY <1>2
<1> HIDE DEF m
<1>5. /\ address \in 0..(LastPage - 1) /\ address \in ListRanges!Addresses
      /\ asked[e].base <= address /\ address <= ListRanges!AskedHigh(e)
  BY <1>1, <1>2, <1>3, <1>4 DEF ListRanges!Addresses
<1>6. e \in ListRanges!AskedFor(address)
  BY <1>1, <1>5 DEF ListRanges!AskedFor
<1>7. \E h \in ListRanges!Retrieved(address) : map[h].entry = e
  BY <1>1, <1>5, <1>6, ListRanges!RightIsFound, ListSpace, FileAssumption, AllocatorAssumption
     DEF ListInv
<1> QED BY <1>5, <1>7

LEMMA AloneIsFound ==
  ASSUME ListInv, reading_list \in {"valid", "copied"}, NEW k \in 1..Len(modules),
         List!Alone(k), NEW address \in List!Pages(k)
  PROVE  List!GetModuleForAddress(address) = {k}
<1>1. /\ call = NoCall /\ module_index = Len(modules) + 1 /\ Len(modules) \in Nat
      /\ DOMAIN modules = 1..Len(modules)
  BY AskedTypes DEF ListInv, ReadingOK
<1>2. PICK e \in 1..Len(asked) : module_of[e] = k
  BY <1>1 DEF ListInv, ReadingOK
<1>3. Sure(e) /\ AsInList(e)
  BY <1>2 DEF Sure, ListInv, AskedOK
<1>4. ~ListRanges!Later(e, address)
  <2> SUFFICES ASSUME NEW o \in stored, asked[e].base < asked[o].base, asked[o].base <= address
               PROVE  FALSE
    BY DEF ListRanges!Later
  <2> DEFINE m == module_of[o]
  <2>1. /\ o \in 1..Len(asked) /\ m \in 1..Len(modules)
        /\ ModuleStart(m) <= asked[o].base
        /\ asked[o].base <= ModuleEnd(m) - 1
        /\ asked[o].base \in Nat /\ asked[e].base \in Nat
    BY StoredIsInModule, AskedTypes
  <2>2. /\ ModuleStart(m) \in Nat /\ ModuleEnd(m) \in Nat
        /\ ModuleStart(k) \in Nat /\ ModuleEnd(k) \in Nat
        /\ List!Pages(m) = ModuleStart(m)..(ModuleEnd(m) - 1)
        /\ List!Pages(k) = ModuleStart(k)..(ModuleEnd(k) - 1)
    BY <2>1, ModuleIs DEF ListInv
  <2>3. asked[e].base = ModuleStart(k)
    BY <1>2, <1>3 DEF AsInList
  <2>4. asked[o].base \in List!Pages(m) \cap List!Pages(k)
    <3>1. address \in ModuleStart(k)..(ModuleEnd(k) - 1)
      BY <2>2
    <3> HIDE DEF m
    <3> QED BY <2>1, <2>2, <2>3, <3>1
  <2>5. m = k
    BY <1>1, <2>1, <2>4 DEF List!Alone
  <2>6. o = e
    BY <1>2, <2>1, <2>5 DEF ListInv, AskedOK
  <2> QED BY <2>1, <2>6
<1>5. /\ address \in 0..(LastPage - 1)
      /\ \E h \in ListRanges!Retrieved(address) : map[h].entry = e
  BY <1>1, <1>2, <1>3, <1>4, SureIsFound
<1>6. k \in List!GetModuleForAddress(address)
  BY <1>2, <1>5, FoundInList
<1>7. ASSUME NEW o \in List!GetModuleForAddress(address) PROVE o = k
  <2>1. o \in 1..Len(modules) /\ address \in List!Pages(o)
    BY <1>5, <1>7, FoundInList
  <2> QED BY <1>1, <2>1 DEF List!Alone
<1> QED BY <1>6, <1>7

\* The first module of the copy is found where it begins.
LEMMA MainIsFound ==
  ASSUME ListInv, reading_list = "copied", modules # <<>>
  PROVE  List!GetModuleForAddress(List!Module(1).start_addr) = {1}
<1> DEFINE address == List!Module(1).start_addr
<1>1. /\ call = NoCall /\ Len(modules) \in Nat /\ Len(modules) > 0
      /\ Len(asked) = Len(modules) /\ \A e \in 1..Len(asked) : module_of[e] = e
  <2>1. /\ call = NoCall /\ Len(asked) = module_index - 1 /\ module_index = Len(modules) + 1
        /\ \A e \in 1..Len(asked) : module_of[e] = e
    BY DEF ListInv, ReadingOK
  <2>2. modules \in Seq(1..Len(mappings)) /\ Len(modules) \in Nat
    BY AskedTypes DEF ListInv, ModulesOK
  <2>3. Len(modules) > 0
    BY <2>2
  <2> QED BY <2>1, <2>2, <2>3
<1>2. 1 \in 1..Len(asked) /\ 1 \in 1..Len(modules) /\ module_of[1] = 1
  BY <1>1
<1>3. Sure(1) /\ AsInList(1)
  BY <1>2 DEF Sure, ListInv, AskedOK
<1>4. asked[1].base = address /\ asked[1].base \in Nat
  BY <1>2, <1>3, AskedTypes DEF AsInList, ModuleStart
<1>5. address \in List!Pages(1)
  <2>1. /\ ModuleStart(1) \in Nat /\ ModuleEnd(1) \in Nat /\ ModuleStart(1) < ModuleEnd(1)
        /\ List!Pages(1) = ModuleStart(1)..(ModuleEnd(1) - 1) /\ ModuleStart(1) = address
    BY <1>2, ModuleIs DEF ListInv, ModuleStart
  <2> HIDE DEF address
  <2> QED BY <2>1
<1> HIDE DEF address
<1>6. ~ListRanges!Later(1, address)
  <2>1. \A o \in stored : asked[o].base \in Nat
    BY AskedTypes
  <2> QED BY <1>4, <2>1 DEF ListRanges!Later
<1>7. /\ address \in 0..(LastPage - 1)
      /\ \E h \in ListRanges!Retrieved(address) : map[h].entry = 1
  BY <1>1, <1>2, <1>3, <1>5, <1>6, SureIsFound
<1>8. \A h, k \in ListRanges!Retrieved(address) : h = k
  <2> SUFFICES ASSUME NEW h \in ListRanges!Retrieved(address),
                      NEW k \in ListRanges!Retrieved(address)
               PROVE  h = k
    OBVIOUS
  <2>1. h \in DOMAIN map /\ k \in DOMAIN map /\ h <= k /\ k <= h
    BY DEF ListRanges!Retrieved, ListRanges!LowerBound
  <2>2. h \in Nat /\ k \in Nat
    BY <2>1, AskedTypes, ListRanges!RangeTypes, ListSpace, FileAssumption, AllocatorAssumption
  <2> QED BY <2>1, <2>2
<1>9. List!GetModuleForAddress(address) = {1}
  BY <1>2, <1>7, <1>8, FoundInList
<1> QED BY <1>9 DEF address

LEMMA ListInvSuffices == ListInv => List!ModulesAreFound
<1> SUFFICES ASSUME ListInv PROVE List!ModulesAreFound
  OBVIOUS
<1>1. DOMAIN modules = 1..Len(modules) /\ Len(modules) \in Nat
  BY AskedTypes
<1>2. ASSUME reading_list \in {"valid", "copied"}, NEW address \in 0..(LastPage - 1)
      PROVE  /\ \A k \in List!GetModuleForAddress(address) : address \in List!Pages(k)
             /\ \A k \in DOMAIN modules :
                  List!Alone(k) /\ address \in List!Pages(k) =>
                    List!GetModuleForAddress(address) = {k}
  BY <1>1, <1>2, FoundInList, AloneIsFound
<1>3. reading_list = "refused" => \E k \in DOMAIN modules : ~List!Alone(k)
  BY <1>1 DEF ListInv, ReadingOK
<1>4. ASSUME reading_list # "unwritten", entry_point # 0, NEW k \in DOMAIN modules,
             List!Module(k).system.start_addr <= entry_point,
             entry_point < List!Module(k).system.end_addr
      PROVE  k = 1
  <2>1. stage = "ready" /\ k \in 1..Len(modules) /\ modules[k] \in 1..Len(mappings)
    BY <1>1, <1>4, ModuleIs DEF ListInv, ModulesOK
  <2>2. Has(mappings[modules[k]], entry_point)
    BY <1>4 DEF Has, List!Module
  <2>3. modules[k] = 1
    BY <1>4, <2>1, <2>2 DEF ListInv, MappingsInv
  <2>4. ASSUME k # 1 PROVE FALSE
    <3>1. 1 \in 1..Len(modules) /\ 1 < k
      BY <1>1, <2>1, <2>4
    <3>2. modules[1] < modules[k] /\ modules[1] \in 1..Len(mappings)
      BY <2>1, <3>1, ModuleIs DEF ListInv, ModulesOK
    <3> QED BY <2>3, <3>2
  <2> QED BY <2>4
<1> QED BY <1>2, <1>3, <1>4, MainIsFound DEF List!ModulesAreFound

\* The variables of the list of modules have their types.
LEMMA ListTypes == ListInv => List!ListTypeOK
<1> SUFFICES ASSUME ListInv PROVE List!ListTypeOK
  OBVIOUS
<1>1. /\ MappingsInv /\ ListRanges!StrategyInv /\ ModulesOK /\ AskedOK /\ ReadingOK
  BY DEF ListInv
<1>2. List!TypeOK
  <2>1. ASSUME NEW i \in DOMAIN mappings PROVE mappings[i].size \in 1..LastPage
    <3>1. /\ PlaceOK(mappings[i]) /\ mappings[i].size \in Nat /\ LastPage \in Nat
          /\ mappings[i].start_addr \in Nat
          /\ mappings[i].system.start_addr \in Nat /\ mappings[i].system.end_addr \in Nat
      BY <1>1, <2>1, MappingTypes
    <3> QED BY <3>1 DEF PlaceOK
  <2> QED BY <1>1, <2>1 DEF List!TypeOK, MappingsInv
<1>3. ListRanges!RangeTypeOK
  BY <1>1, ListRanges!StrategyTypes, ListSpace, FileAssumption, AllocatorAssumption
<1>4. List!Ranges!RangeTypeOK
  BY <1>3 DEF ListRanges!RangeTypeOK, List!Ranges!RangeTypeOK, ListRanges!Addresses,
              List!Ranges!Addresses, ListRanges!Ranges, List!Ranges!Ranges,
              ListRanges!Calls, List!Ranges!Calls
<1>5. \A k \in DOMAIN modules : modules[k] \in DOMAIN mappings
  BY <1>1, AskedTypes, MappingTypes, ModuleIs
<1>6. \A e \in DOMAIN module_of : module_of[e] \in DOMAIN modules
  <2>1. DOMAIN module_of = 1..Len(asked)
    BY <1>1 DEF AskedOK
  <2> QED BY <2>1, AskedTypes
<1>7. module_index \in 1..(MaxLines + 1)
  BY <1>1, AskedTypes, MappingTypes DEF ModulesOK, MappingsInv
<1> QED BY <1>1, <1>2, <1>4, <1>5, <1>6, <1>7 DEF List!ListTypeOK, ModulesOK, ReadingOK

\* Whatever the maps of a process and the libraries that have been moved down over others,
\* who asks for the module of an address is told none but one that had it, and the one that
\* had it alone.
THEOREM ModulesAreFoundHolds == List!ListSpec => []List!ModulesAreFound
<1> DEFINE v == <<List!mappingVars, List!rangeVars, List!listVars>>
<1>1. [List!ListStep \/ (List!ListIsOver /\ UNCHANGED <<List!mappingVars, List!rangeVars,
        List!listVars>>)]_<<List!mappingVars, List!rangeVars, List!listVars>>
          => [List!ListStep]_v
  OBVIOUS
<1>2. ListInv /\ [List!ListStep]_v => ListInv'
  BY ListStepInv
<1>3. List!ListInit /\ List!RangesInit => ListInv
  BY ListInitInv
<1> QED BY <1>1, <1>2, <1>3, ListInvSuffices, PTL DEF List!ListSpec

(***************************************************************************)
(* All the parts together.                                                 *)
(***************************************************************************)

\* The other parts stay as they are, and each step of a part is a step of its module.
LEMMA PartsStep ==
  ASSUME [PartStep]_partVars
  PROVE  /\ [Next]_vars
         /\ [Threads!Step]_(Threads!stackVars)
         /\ part' = part
         /\ part = "allocator" => [AllocatorStep]_allocatorVars
         /\ part = "ranges" => [RangeStep]_rangeVars
         /\ part = "lines" => [Reader!Step]_(Reader!lineVars)
         /\ part = "modules" =>
              [List!ListStep]_<<List!mappingVars, List!rangeVars, List!listVars>>
         /\ part = "stacks" =>
              [Threads!MemoryStep]_<<Threads!stackVars, rangeVars, Threads!memoryVars>>
         /\ part = "cores" => [Cpu!Step]_cpuVars
         /\ part = "walk" => [Walk!WalkStep]_(Walk!walkVars)
         /\ part = "symbols" => [Processor!ProcessStep]_(Processor!processorVars)
<1>1. CASE FileSteps
  BY <1>1 DEF FileSteps, threadVars, Threads!stackVars
<1>2. CASE AllocatorSteps
  BY <1>2 DEF AllocatorSteps, threadVars, Threads!stackVars
<1>3. CASE RangeSteps
  BY <1>3 DEF RangeSteps, threadVars, Threads!stackVars
<1>4. CASE ReaderSteps
  BY <1>4 DEF ReaderSteps, threadVars, Threads!stackVars
<1>5. CASE ListSteps
  BY <1>5 DEF ListSteps, threadVars, Threads!stackVars
<1>6. CASE ThreadSteps
  BY <1>6 DEF ThreadSteps, Threads!MemoryStep, Threads!ReadRegion, Threads!RegionIsStored,
              Threads!RefuseRegion, Threads!ListIsRead, Threads!InStoreRange
<1>7. CASE CpuSteps
  BY <1>7 DEF CpuSteps, threadVars, Threads!stackVars
<1>8. CASE WalkSteps
  BY <1>8 DEF WalkSteps, threadVars, Threads!stackVars
<1>9. CASE SymbolSteps
  BY <1>9 DEF SymbolSteps, threadVars, Threads!stackVars
<1>10. CASE PartIsOver \/ UNCHANGED partVars
  BY <1>10 DEF PartIsOver, partVars, threadVars, Threads!stackVars, Threads!memoryVars,
               readerVars, Reader!lineVars, listVars, List!mappingVars, List!rangeVars,
               List!listVars, rangeVars, walkVars, Walk!walkVars, processorVars,
               Processor!processorVars, Processor!stateVars, Processor!symbolVars
<1> QED
  BY <1>1, <1>2, <1>3, <1>4, <1>5, <1>6, <1>7, <1>8, <1>9, <1>10 DEF PartStep

\* The invariant of the part that has steps.
PartsInv ==
  /\ FileShape
  /\ part = "allocator" => BlocksInv
  /\ part = "ranges" => StrategyInv
  /\ part = "lines" => LinesInv
  /\ part = "modules" => ListInv
  /\ part = "stacks" => MemoryInv
  /\ part = "cores" => CoresInv
  /\ part = "walk" => WalkInv
  /\ part = "symbols" => SymbolsInv /\ KeptInv /\ ProcessorTypes

LEMMA PartsInitInv == PartInit => PartsInv
<1> SUFFICES ASSUME PartInit PROVE PartsInv
  OBVIOUS
<1>1. /\ Init /\ AllocatorInit /\ RangeInit /\ Reader!Init /\ List!ListInit /\ Threads!MemoryInit
      /\ Cpu!Init /\ Walk!Init /\ Processor!ProcessorInit
      /\ part = "modules" => List!RangesInit
      /\ part = "stacks" => Threads!RangesInit
  BY DEF PartInit
<1> QED
  BY <1>1, FileInitShape, BlocksInitInv, StrategyInitInv, LinesInitInv, ListInitInv, MemoryInitInv,
     CoresInitInv, WalkInitInv, SymbolsInitInv, KeptInitInv,
     ProcessorInitTypes DEF PartsInv

LEMMA PartsStepInv == PartsInv /\ [PartStep]_partVars => PartsInv'
<1> SUFFICES ASSUME PartsInv, [PartStep]_partVars PROVE PartsInv'
  OBVIOUS
<1>1. part' = part
  BY PartsStep
<1>2. ASSUME part = "allocator" PROVE BlocksInv'
  BY <1>2, PartsStep, BlocksStepInv DEF PartsInv
<1>3. ASSUME part = "ranges" PROVE StrategyInv'
  BY <1>3, PartsStep, StrategyStepInv DEF PartsInv
<1>4. ASSUME part = "lines" PROVE LinesInv'
  BY <1>4, PartsStep, LinesStepInv DEF PartsInv
<1>5. ASSUME part = "modules" PROVE ListInv'
  BY <1>5, PartsStep, ListStepInv DEF PartsInv
<1>6. ASSUME part = "stacks" PROVE MemoryInv'
  BY <1>6, PartsStep, MemoryStepInv DEF PartsInv
<1>7. ASSUME part = "cores" PROVE CoresInv'
  BY <1>7, PartsStep, CoresStepInv DEF PartsInv
<1>8. ASSUME part = "walk" PROVE WalkInv'
  BY <1>8, PartsStep, WalkStepInv DEF PartsInv
<1>9. ASSUME part = "symbols" PROVE SymbolsInv' /\ KeptInv' /\ ProcessorTypes'
  BY <1>9, PartsStep, SymbolsStepInv, KeptStepInv, ProcessorStepTypes DEF PartsInv
<1>10. FileShape'
  BY PartsStep, FileStepShape DEF PartsInv
<1> QED
  BY <1>1, <1>2, <1>3, <1>4, <1>5, <1>6, <1>7, <1>8, <1>9, <1>10
     DEF PartsInv

\* The lists of modules and of ranges find what the same strategy says.
LEMMA ListFollowsStrategy == ListInv => FollowsStrategy
<1>1. ListInv => ListRanges!FollowsStrategy
  BY ListRanges!StrategyInvSuffices, ListSpace, FileAssumption, AllocatorAssumption DEF ListInv
<1>2. ListRanges!FollowsStrategy => FollowsStrategy
  BY DEF FollowsStrategy, ListRanges!FollowsStrategy, Retrieved, ListRanges!Retrieved,
         LowerBound, ListRanges!LowerBound, AskedFor, ListRanges!AskedFor, AskedHigh,
         ListRanges!AskedHigh, Addresses, ListRanges!Addresses
<1> QED BY <1>1, <1>2

LEMMA PartsInvSuffices == PartsInv => LookupsAreRight
<1> SUFFICES ASSUME PartsInv PROVE LookupsAreRight
  OBVIOUS
<1>1. part = "lines" => Reader!LinesAreWhole
  BY LinesInvSuffices DEF PartsInv
<1>2. part = "modules" =>
        List!LookupsMatchMaps /\ List!ModulesAreFound /\ FollowsStrategy
  BY MappingsInvSuffices, ListInvSuffices, ListFollowsStrategy DEF PartsInv, ListInv
<1>3. part = "stacks" => Threads!StacksAreFound
  BY MemoryInvSuffices DEF PartsInv
<1>4. part = "ranges" => FollowsStrategy
  BY StrategyInvSuffices DEF PartsInv
<1>5. part = "walk" => Walk!WalkGoesUp
  BY WalkInvSuffices DEF PartsInv
<1>6. part = "symbols" => /\ Processor!ThreadsAreKept
                          /\ Processor!SymbolsAreReported
                          /\ Processor!SymbolsAreFetchedOnce
  BY KeptInvSuffices, SymbolsInvSuffices DEF PartsInv
<1>7. part = "cores" => Cpu!MaximumIsFound
  BY CoresInvSuffices DEF PartsInv
<1> QED BY <1>1, <1>2, <1>3, <1>4, <1>5, <1>6, <1>7 DEF LookupsAreRight

LEMMA PartsInvTypes == PartsInv => PartsTypeOK
<1> SUFFICES ASSUME PartsInv PROVE PartsTypeOK
  OBVIOUS
<1>1. TypeOK
  BY FileShapeSuffices DEF PartsInv
<1>2. part = "allocator" => AllocatorTypeOK
  BY DEF PartsInv, BlocksInv
<1>3. part = "ranges" => RangeTypeOK
  BY StrategyTypes DEF PartsInv
<1>4. part = "lines" => Reader!TypeOK
  BY LinesInvSuffices DEF PartsInv
<1>5. part = "modules" => List!ListTypeOK
  BY ListTypes DEF PartsInv
<1>6. part = "stacks" => Threads!MemoryTypeOK
  BY MemoryTypes DEF PartsInv
<1>7. part = "cores" => Cpu!TypeOK
  BY DEF PartsInv, CoresInv
<1>8. part = "walk" => Walk!TypeOK
  BY WalkInvSuffices DEF PartsInv
<1>9. part = "symbols" => Processor!ProcessorTypeOK
  BY ProcessorTypesSuffice DEF PartsInv
<1> QED BY <1>1, <1>2, <1>3, <1>4, <1>5, <1>6, <1>7, <1>8, <1>9 DEF PartsTypeOK

\* Every variable keeps its type in every part, for all values of the constants: a string
\* never runs out of units, no thread of a report gets an index beyond the list.
THEOREM PartsTypeOKHolds == PartSpec => []PartsTypeOK
BY PartsInitInv, PartsStepInv, PartsInvTypes, PTL DEF PartSpec

\* Whatever the lines, the maps, the stacks, the symbols and the cores: what is looked up is
\* what was put in, in every part.
THEOREM LookupsAreRightHolds == PartSpec => []LookupsAreRight
BY PartsInitInv, PartsStepInv, PartsInvSuffices, PTL DEF PartSpec

\* For every file without characters of four bytes and every process, a dump has all
\* that was put in its file and took from the stacks.
THEOREM EverythingIsThereHolds ==
  ASSUME Characters \subseteq 1..3
  PROVE  PartSpec => []EverythingIsThere
<1> DEFINE Inv == FileInv /\ StacksInv
<1>1. PartInit => Inv
  BY FileInitInv, StacksInitInv DEF PartInit
<1>2. Inv /\ [PartStep]_partVars => Inv'
  BY PartsStep, FileStepInv, StacksStepInv
<1>3. Inv => EverythingIsThere
  BY FileInvSuffices, StacksInvSuffices DEF EverythingIsThere
<1> HIDE DEF Inv
<1> QED
  BY <1>1, <1>2, <1>3, PTL DEF PartSpec

=============================================================================
