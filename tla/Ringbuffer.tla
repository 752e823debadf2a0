------------------------------ MODULE Ringbuffer ------------------------------
(***************************************************************************)
(* sys/container/ringbuffer.c.  The pointers begin and end are offsets     *)
(* into the buffer, and bufferLimit is Size.  ringbuffer_write() and       *)
(* ringbuffer_read() are loops over single bytes; one action is one turn   *)
(* of the loop, which is what a preempted caller has done atomically.      *)
(***************************************************************************)
EXTENDS Integers, Sequences, SequenceTheorems, TLAPS

CONSTANTS Byte, Size

ASSUME SizeAssumption == Size \in Nat \ {0}

VARIABLES
    buffer,   \* ringbuffer->buffer
    begin,    \* ringbuffer->begin
    end,      \* ringbuffer->end
    count,    \* ringbuffer->count
    out       \* the bytes ringbuffer_read() has delivered

ringVars == <<buffer, begin, end, count>>
vars == <<ringVars, out>>

Init ==
    /\ buffer \in [0..Size - 1 -> Byte]
    /\ begin = 0
    /\ end = 0
    /\ count = 0
    /\ out = <<>>

(* A mutant: an index may reach the size of the buffer. *)
CycleLate(val, lower, upper) ==
    IF val <= lower THEN upper ELSE IF val > upper THEN lower ELSE val

(* ringbuffer_cycle() *)
Cycle(val, lower, upper) ==
    IF val <= lower THEN upper ELSE IF val >= upper THEN lower ELSE val

(* a write to a full buffer drops its oldest byte *)
DropOldest == begin' = IF count' = Size THEN end' ELSE begin

(* one turn of the loop of ringbuffer_write() *)
WriteByte(b) ==
    LET more == count + 1
    IN /\ buffer' = [buffer EXCEPT ![end] = b]
       /\ end' = Cycle(end + 1, 0, Size)
       /\ count' = IF more < Size THEN more ELSE Size
       /\ DropOldest
       /\ UNCHANGED out

(* A mutant: a byte is skipped. *)
NextByteSkipsOne == buffer[Cycle(begin + 1, 0, Size)]

NextByte == buffer[begin]

(* one turn of the loop of ringbuffer_read() *)
ReadByte ==
    /\ count > 0
    /\ out' = Append(out, NextByte)
    /\ begin' = Cycle(begin + 1, 0, Size)
    /\ count' = count - 1
    /\ UNCHANGED <<buffer, end>>

Next == (\E b \in Byte : WriteByte(b)) \/ ReadByte

Spec == Init /\ [][Next]_vars

-----------------------------------------------------------------------------
(* Offsets stay inside the buffer and count inside its size.               *)
TypeOK ==
    /\ buffer \in [0..Size - 1 -> Byte]
    /\ begin \in 0..Size - 1
    /\ end \in 0..Size - 1
    /\ count \in 0..Size
    /\ out \in Seq(Byte)

Wrap(i) == IF i < Size THEN i ELSE i - Size

(* end is always count bytes behind begin, so that begin = end, which      *)
(* holds of the empty and of the full buffer, is never mistaken.           *)
EndFollowsBegin == end = Wrap(begin + count)

RingInv == TypeOK /\ EndFollowsBegin

(* The bytes a reader would get, in the order it would get them *)
ContentOf(bytes, first, n) == [i \in 1..n |-> bytes[Wrap(first + i - 1)]]
Content == ContentOf(buffer, begin, count)

Log == INSTANCE BoundedLog WITH log <- Content

(* The ring buffer is the bounded log: it delivers every byte once, in the *)
(* order they were written, except for the oldest ones of more than Size.  *)
IsBoundedLog == Log!Spec

-----------------------------------------------------------------------------
(* Proofs, for every size of the buffer and every set of bytes.            *)

(* ringbuffer_cycle() of an offset that was just incremented wraps it.     *)
LEMMA CycleWraps ==
    ASSUME NEW i \in 0..Size - 1
    PROVE  Cycle(i + 1, 0, Size) = Wrap(i + 1) /\ Wrap(i + 1) \in 0..Size - 1
BY SizeAssumption DEF Cycle, Wrap

(* No turn of the loops in ringbuffer_write() and ringbuffer_read() takes  *)
(* an offset out of its range or end away from its place behind begin.     *)
LEMMA RingStep ==
    ASSUME RingInv, [Next]_vars
    PROVE  RingInv'
<1> USE SizeAssumption DEF RingInv, TypeOK, EndFollowsBegin
<1>1. CASE \E b \in Byte : WriteByte(b)
  <2>1. PICK b \in Byte : WriteByte(b)
    BY <1>1
  <2>2. end' = Wrap(end + 1) /\ end' \in 0..Size - 1
    BY <2>1, CycleWraps DEF WriteByte, DropOldest
  <2>3. TypeOK'
    BY <2>1, <2>2 DEF WriteByte, DropOldest
  <2>4. EndFollowsBegin'
    BY <2>1, <2>2, <2>3 DEF WriteByte, DropOldest, Wrap
  <2> QED
    BY <2>3, <2>4
<1>2. CASE ReadByte
  <2>1. begin' = Wrap(begin + 1) /\ begin' \in 0..Size - 1
    BY <1>2, CycleWraps DEF ReadByte, NextByte
  <2>2. buffer[begin] \in Byte
    OBVIOUS
  <2>3. out' \in Seq(Byte)
    BY <1>2, <2>2 DEF ReadByte, NextByte
  <2>4. TypeOK'
    BY <1>2, <2>1, <2>3 DEF ReadByte, NextByte
  <2>5. EndFollowsBegin'
    <3>1. count' = count - 1 /\ end' = end /\ count > 0
      BY <1>2 DEF ReadByte, NextByte
    <3>2. begin \in 0..Size - 1 /\ count \in 0..Size /\ end = Wrap(begin + count)
      OBVIOUS
    <3>3. Wrap(Wrap(begin + 1) + (count - 1)) = Wrap(begin + count)
      BY <3>1, <3>2 DEF Wrap
    <3> QED
      BY <2>1, <3>1, <3>2, <3>3
  <2> QED
    BY <2>4, <2>5
<1>3. CASE UNCHANGED vars
  BY <1>3 DEF vars, ringVars, Wrap
<1> QED
  BY <1>1, <1>2, <1>3 DEF Next

(* The offsets and the count stay in their ranges and agree with each      *)
(* other: in every state, end is count bytes behind begin.                 *)
THEOREM RingInvariant == Spec => []RingInv
<1>1. Init => RingInv
  BY SizeAssumption DEF Init, RingInv, TypeOK, EndFollowsBegin, Wrap
<1>2. RingInv /\ [Next]_vars => RingInv'
  BY RingStep
<1> QED
  BY <1>1, <1>2, PTL DEF Spec

(* The content is a sequence of bytes as long as the count, and an element *)
(* of it is where the reader finds it.                                     *)
LEMMA ContentIsSeq ==
    ASSUME NEW bytes \in [0..Size - 1 -> Byte],
           NEW first \in 0..Size - 1, NEW n \in 0..Size
    PROVE  /\ ContentOf(bytes, first, n) \in Seq(Byte)
           /\ Len(ContentOf(bytes, first, n)) = n
           /\ \A i \in 1..n :
                /\ Wrap(first + i - 1) \in 0..Size - 1
                /\ ContentOf(bytes, first, n)[i] = bytes[Wrap(first + i - 1)]
<1> USE SizeAssumption
<1>1. \A i \in 1..n : Wrap(first + i - 1) \in 0..Size - 1
  BY DEF Wrap
<1>2. \A i \in 1..n : bytes[Wrap(first + i - 1)] \in Byte
  BY <1>1
<1>3. ContentOf(bytes, first, n) \in Seq(Byte) /\ Len(ContentOf(bytes, first, n)) = n
  BY <1>2, IsASeq DEF ContentOf
<1> QED
  BY <1>1, <1>3 DEF ContentOf

(* One turn of the loop in ringbuffer_write() appends a byte to the log,   *)
(* whether the buffer has room or forgets its oldest byte.                 *)
LEMMA WriteRefines ==
    ASSUME RingInv, RingInv', NEW b \in Byte, WriteByte(b)
    PROVE  Log!Write(b)
<1> DEFINE kept == IF Len(Content) = Size THEN Tail(Content) ELSE Content
           first == IF count = Size THEN 1 ELSE 0
<1> USE SizeAssumption
<1>1. /\ begin \in 0..Size - 1 /\ end \in 0..Size - 1 /\ count \in 0..Size
      /\ end = Wrap(begin + count)
      /\ buffer \in [0..Size - 1 -> Byte]
  BY DEF RingInv, TypeOK, EndFollowsBegin
<1>2. /\ Content \in Seq(Byte) /\ Len(Content) = count
      /\ \A i \in 1..count : /\ Wrap(begin + i - 1) \in 0..Size - 1
                             /\ Content[i] = buffer[Wrap(begin + i - 1)]
  BY <1>1, ContentIsSeq DEF Content
<1>3. /\ Content' \in Seq(Byte) /\ Len(Content') = count'
      /\ \A i \in 1..count' : /\ Wrap(begin' + i - 1) \in 0..Size - 1
                              /\ Content'[i] = buffer'[Wrap(begin' + i - 1)]
  <2>1. /\ begin' \in 0..Size - 1 /\ count' \in 0..Size
        /\ buffer' \in [0..Size - 1 -> Byte]
    BY DEF RingInv, TypeOK
  <2> QED
    BY <2>1, ContentIsSeq DEF Content
<1>4. /\ buffer' = [buffer EXCEPT ![end] = b]
      /\ count' = count + 1 - first
      /\ begin' = IF count' = Size THEN end' ELSE begin
      /\ end' = Wrap(end + 1)
      /\ out' = out
  BY <1>1, CycleWraps DEF WriteByte, DropOldest
<1>5. /\ kept \in Seq(Byte) /\ Len(kept) = count - first
      /\ \A i \in 1..count - first : kept[i] = Content[i + first]
  BY <1>1, <1>2
<1>6. begin' = Wrap(begin + first)
  BY <1>1, <1>4 DEF Wrap
<1> HIDE DEF kept, first
<1>7. \A i \in 1..count' : Content'[i] = Append(kept, b)[i]
  <2> SUFFICES ASSUME NEW i \in 1..count'
               PROVE  Content'[i] = Append(kept, b)[i]
    OBVIOUS
  <2>1. Content'[i] = buffer'[Wrap(begin' + i - 1)] /\ Wrap(begin' + i - 1) \in 0..Size - 1
    BY <1>3
  <2>2. first \in 0..1 /\ (first = 1 <=> count = Size)
    BY DEF first
  <2>3. Wrap(begin' + i - 1) = Wrap(begin + (i + first) - 1)
    BY <1>1, <1>4, <1>6, <2>2 DEF Wrap
  <2>4. CASE i = count'
    <3>1. Wrap(begin + (i + first) - 1) = end
      BY <1>1, <1>4, <2>2, <2>4 DEF Wrap
    <3>2. Append(kept, b)[i] = b
      BY <1>4, <1>5, <2>2, <2>4, <1>1
    <3> QED
      BY <1>1, <1>4, <2>1, <2>3, <3>1, <3>2
  <2>5. CASE i # count'
    <3>1. i \in 1..count - first /\ i + first \in 1..count
      BY <1>1, <1>4, <2>2, <2>5
    <3>2. Append(kept, b)[i] = Content[i + first]
      BY <1>5, <3>1
    <3>3. Content[i + first] = buffer[Wrap(begin + (i + first) - 1)]
      BY <1>2, <3>1
    <3>4. Wrap(begin + (i + first) - 1) # end
      BY <1>1, <2>2, <3>1 DEF Wrap
    <3> QED
      BY <1>1, <1>4, <2>1, <2>3, <3>2, <3>3, <3>4
  <2> QED
    BY <2>4, <2>5
<1>8. Append(kept, b) \in Seq(Byte) /\ Len(Append(kept, b)) = count'
  BY <1>1, <1>4, <1>5 DEF first
<1>9. Content' = Append(kept, b)
  BY <1>3, <1>7, <1>8, SeqEqual
<1> QED
  BY <1>4, <1>9 DEF Log!Write, kept

(* One turn of the loop in ringbuffer_read() delivers the oldest byte.     *)
LEMMA ReadRefines ==
    ASSUME RingInv, RingInv', ReadByte
    PROVE  Log!Read
<1> USE SizeAssumption
<1>1. /\ begin \in 0..Size - 1 /\ count \in 0..Size /\ count > 0
      /\ buffer \in [0..Size - 1 -> Byte]
  BY DEF RingInv, TypeOK, ReadByte
<1>2. /\ begin' = Wrap(begin + 1) /\ begin' \in 0..Size - 1
      /\ count' = count - 1 /\ buffer' = buffer
      /\ out' = Append(out, buffer[begin])
  BY <1>1, CycleWraps DEF ReadByte, NextByte
<1>3. /\ Content \in Seq(Byte) /\ Len(Content) = count
      /\ \A i \in 1..count : Content[i] = buffer[Wrap(begin + i - 1)]
  BY <1>1, ContentIsSeq DEF Content
<1>4. /\ Content' \in Seq(Byte) /\ Len(Content') = count - 1
      /\ \A i \in 1..count - 1 : Content'[i] = buffer[Wrap(begin' + i - 1)]
  <2>1. count - 1 \in 0..Size
    BY <1>1
  <2> QED
    BY <1>1, <1>2, <2>1, ContentIsSeq DEF Content
<1>5. Content # <<>> /\ Tail(Content) \in Seq(Byte) /\ Len(Tail(Content)) = count - 1
      /\ \A i \in 1..count - 1 : Tail(Content)[i] = Content[i + 1]
  BY <1>1, <1>3
<1>6. \A i \in 1..count - 1 : Wrap(begin' + i - 1) = Wrap(begin + (i + 1) - 1)
  BY <1>1, <1>2 DEF Wrap
<1>7. Content' = Tail(Content)
  <2>1. \A i \in 1..count - 1 : Content'[i] = Tail(Content)[i]
    BY <1>1, <1>3, <1>4, <1>5, <1>6
  <2> QED
    BY <1>4, <1>5, <2>1, SeqEqual
<1>8. Head(Content) = buffer[begin]
  <2>1. Head(Content) = Content[1] /\ Wrap(begin + 1 - 1) = begin
    BY <1>1, <1>3 DEF Wrap
  <2> QED
    BY <1>1, <1>3, <2>1
<1> QED
  BY <1>2, <1>5, <1>7, <1>8 DEF Log!Read

(* ringbuffer.c implements the bounded log, for every size of the buffer:  *)
(* every byte is delivered at most once and in the order of the writes,    *)
(* and only the oldest of more than Size unread bytes are ever lost.       *)
THEOREM RingbufferIsBoundedLog == Spec => IsBoundedLog
<1>1. Init => Log!Init
  <2> SUFFICES ASSUME Init
               PROVE  Log!Init
    OBVIOUS
  <2>1. Content \in Seq(Byte) /\ Len(Content) = 0
    BY SizeAssumption, ContentIsSeq DEF Init, Content
  <2> QED
    BY <2>1 DEF Init, Log!Init
<1>2. RingInv /\ RingInv' /\ [Next]_vars => [Log!Next]_<<Content, out>>
  <2> SUFFICES ASSUME RingInv, RingInv', [Next]_vars
               PROVE  [Log!Next]_<<Content, out>>
    OBVIOUS
  <2>1. CASE \E b \in Byte : WriteByte(b)
    BY <2>1, WriteRefines DEF Log!Next
  <2>2. CASE ReadByte
    BY <2>2, ReadRefines DEF Log!Next
  <2>3. CASE UNCHANGED vars
    BY <2>3 DEF vars, ringVars, Content
  <2> QED
    BY <2>1, <2>2, <2>3 DEF Next
<1> QED
  BY <1>1, <1>2, RingInvariant, PTL DEF Spec, IsBoundedLog, Log!Spec
=============================================================================
