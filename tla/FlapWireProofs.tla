--------------------------- MODULE FlapWireProofs ---------------------------
(***************************************************************************)
(* Theorems about FlapWire for any number of threads and frames, and frames *)
(* of any size over a connection of any capacity.                          *)
(***************************************************************************)
EXTENDS FlapWire, SequenceLemmas

-----------------------------------------------------------------------------
(* Type correctness *)

Sendings == [state : States, frame : Frames, off : Nat, tries : 0 .. MaxTries]

\* A send goes on only while a part of its frame is left.
SendingOK(s) ==
  /\ s \in Sendings
  /\ s.off <= Size(s.frame)
  /\ s.state = "busy" => s.off < Size(s.frame)

SendType == sending \in [Threads -> Sendings] /\ \A t \in Threads : SendingOK(sending[t])

WireType ==
  /\ nextFrame \in 1 .. MaxFrames + 1 /\ network_break_flag \in BOOLEAN
  /\ stream \in Seq(Units) /\ Len(stream) <= Capacity
  /\ written \in Seq(Frames)
  /\ faults \subseteq Faults

ReadType ==
  /\ part \in {"header", "payload"}
  /\ part = "header" => length = HeaderSize
  /\ length \in Nat \ {0} /\ buffer \in Seq(Units) /\ Len(buffer) < length
  /\ header \in Frames
  /\ received \in Seq([frame : Frames, payload : Seq(Units)])

TypeInv == SendType /\ WireType /\ ReadType

\* The constants, in the form the steps need.
LEMMA Sizes ==
  /\ HeaderSize \in Nat /\ HeaderSize >= 2 /\ PayloadSize \in Nat
  /\ Capacity \in Nat /\ Capacity >= 1 /\ MaxTries \in Nat /\ MaxTries >= 1 /\ MaxFrames \in Nat
  BY FlapWireAssumption

LEMMA SizeOf ==
  ASSUME NEW f, f.kind \in Kinds
  PROVE  /\ Size(f) \in Nat /\ Size(f) >= HeaderSize
         /\ Size(f) - HeaderSize \in {0, PayloadSize}
  BY Sizes DEF Size

LEMMA TypeInvType == TypeInv => TypeOK
  <1> SUFFICES ASSUME TypeInv PROVE TypeOK
    OBVIOUS
  <1>1. ASSUME NEW t \in Threads
        PROVE  /\ sending[t].state \in States /\ sending[t].frame \in Frames
               /\ sending[t].off \in 0 .. Size(sending[t].frame)
               /\ sending[t].tries \in 0 .. MaxTries
    <2>1. sending[t] \in Sendings /\ sending[t].off <= Size(sending[t].frame)
      BY DEF TypeInv, SendType, SendingOK
    <2>2. sending[t].frame \in Frames /\ sending[t].off \in Nat
      BY <2>1 DEF Sendings
    <2>3. Size(sending[t].frame) \in Nat
      BY <2>2, SizeOf DEF Frames
    <2> QED
      BY <2>1, <2>2, <2>3 DEF Sendings
  <1> QED
    BY <1>1 DEF TypeInv, WireType, ReadType, TypeOK

LEMMA TypeInit == Init => TypeInv
  <1> SUFFICES ASSUME Init PROVE TypeInv
    OBVIOUS
  <1>1. SendingOK(Idle)
    <2>1. Idle \in Sendings
      BY Sizes DEF Idle, Sendings, States, Frames, Kinds
    <2> QED
      BY <2>1, SizeOf, Sizes DEF SendingOK, Idle, Kinds
  <1>2. SendType
    BY <1>1 DEF Init, SendType, SendingOK
  <1>3. WireType
    <2>1. <<>> \in Seq(Units) /\ <<>> \in Seq(Frames) /\ Len(<<>>) = 0
      BY EmptySeq
    <2>2. nextFrame \in 1 .. MaxFrames + 1 /\ Len(<<>>) <= Capacity
      BY Sizes, <2>1 DEF Init
    <2>3. network_break_flag \in BOOLEAN
      BY DEF Init
    <2> QED
      BY <2>1, <2>2, <2>3 DEF Init, WireType
  <1>4. ReadType
    <2>1. <<>> \in Seq(Units) /\ <<>> \in Seq([frame : Frames, payload : Seq(Units)]) /\ Len(<<>>) = 0
      BY EmptySeq
    <2> QED
      BY Sizes, <2>1 DEF Init, ReadType, Frames, Kinds
  <1> QED
    BY <1>2, <1>3, <1>4 DEF TypeInv

\* Every change of a send leaves it one that may be.
LEMMA SendTypeSet ==
  ASSUME SendType, NEW t \in Threads, NEW s, SendingOK(s), sending' = [sending EXCEPT ![t] = s]
  PROVE  SendType'
  <1>1. ASSUME NEW u \in Threads PROVE sending'[u] = IF u = t THEN s ELSE sending[u]
    BY DEF SendType
  <1>2. s \in Sendings
    BY DEF SendingOK
  <1>3. sending' \in [Threads -> Sendings]
    BY <1>2 DEF SendType
  <1>4. ASSUME NEW u \in Threads PROVE SendingOK(sending'[u])
    <2>1. CASE u = t
      BY <1>1, <2>1
    <2>2. CASE u # t
      <3>1. sending'[u] = sending[u]
        BY <1>1, <2>2
      <3> QED
        BY <3>1 DEF SendType
    <2> QED
      BY <2>1, <2>2
  <1> QED
    BY <1>3, <1>4 DEF SendType, SendingOK

\* A try that has begun is at the first byte.
LEMMA Fresh ==
  ASSUME NEW s, s \in Sendings, s.off = 0
  PROVE  SendingOK(s)
  <1>1. Size(s.frame) \in Nat /\ Size(s.frame) >= 2
    BY SizeOf, Sizes DEF Sendings, Frames
  <1> QED
    BY <1>1 DEF SendingOK

\* What a try that ends leaves: it starts anew or has an outcome.
LEMMA TryEnds ==
  ASSUME TypeInv, NEW t \in Threads, timeout(t) \/ short(t)
  PROVE  \E s : SendingOK(s) /\ s.frame = sending[t].frame /\ s.off = 0
                /\ (s.state = "busy" => s.off = 0) /\ EndTry(t, s)
  <1> DEFINE old == sending[t]
  <1>1. SendingOK(old) /\ old \in Sendings
    BY DEF TypeInv, SendType, SendingOK
  <1>2. ASSUME NEW state \in {"failed", "sent"}
        PROVE  SendingOK(Ended(t, state)) /\ Ended(t, state).frame = old.frame /\ Ended(t, state).off = 0
    <2>1. /\ Ended(t, state) \in Sendings /\ Ended(t, state).frame = old.frame
          /\ Ended(t, state).off = 0
      <3>1. 0 \in 0 .. MaxTries /\ 0 \in Nat /\ state \in States
        BY Sizes DEF States
      <3> QED
        BY <1>1, <3>1 DEF Ended, Sendings
    <2> QED
      BY <2>1, Fresh
  <1>3. ASSUME ~LastTry(t)
        PROVE  SendingOK(Again(t)) /\ Again(t).frame = old.frame /\ Again(t).off = 0
    <2> DEFINE n == IF old.frame.kind = "data" THEN old.tries ELSE old.tries + 1
    <2>1. n \in 0 .. MaxTries
      BY <1>1, <1>3, Sizes DEF Sendings, LastTry
    <2>2. Again(t) = [old EXCEPT !.off = 0, !.tries = n]
      BY <1>1 DEF Again, Sendings
    <2> HIDE DEF n
    <2>3. /\ [old EXCEPT !.off = 0, !.tries = n] \in Sendings
          /\ [old EXCEPT !.off = 0, !.tries = n].frame = old.frame
          /\ [old EXCEPT !.off = 0, !.tries = n].off = 0
      BY <1>1, <2>1 DEF Sendings
    <2> QED
      BY <2>2, <2>3, Fresh
  <1>4. \/ ~LastTry(t) /\ EndTry(t, Again(t))
        \/ \E state \in {"failed", "sent"} : EndTry(t, Ended(t, state))
    <2>1. CASE timeout(t)
      BY <2>1 DEF timeout
    <2>2. CASE short(t)
      BY <2>2 DEF short
    <2> QED
      BY <2>1, <2>2
  <1> QED
    BY <1>2, <1>3, <1>4

\* What write(t) does.
LEMMA Writes ==
  ASSUME TypeInv, NEW t \in Threads, write(t)
  PROVE  LET old == sending[t]
             f == old.frame
             done == old.off + 1 = Size(f)
         IN
         \E s, w :
           /\ old.off \in Nat /\ old.off < Size(f) /\ Size(f) \in Nat /\ f \in Frames
           /\ SendingOK(s) /\ s.frame = f /\ s.off = old.off + 1
           /\ s.state = IF done THEN "sent" ELSE "busy"
           /\ sending' = [sending EXCEPT ![t] = s]
           /\ w \in Units /\ w.nr = f.nr /\ w.kind = f.kind /\ w.pos = old.off + 1
           /\ stream' = Append(stream, w)
           /\ written' = IF done THEN Append(written, f) ELSE written
  <1> DEFINE old == sending[t]
             f == old.frame
             done == old.off + 1 = Size(f)
             s == [sending[t] EXCEPT !.off = old.off + 1,
                                     !.state = IF done THEN "sent" ELSE "busy"]
             w == [nr |-> f.nr, kind |-> f.kind, pos |-> old.off + 1]
  <1>1. SendingOK(old) /\ old \in Sendings /\ old.state = "busy"
    BY DEF TypeInv, SendType, SendingOK, write, Busy
  <1>2. f \in Frames /\ old.off \in Nat /\ old.off < Size(f)
    BY <1>1 DEF SendingOK, Sendings
  <1>3. Size(f) \in Nat
    BY <1>2, SizeOf DEF Frames
  <1>4. w \in Units /\ w.nr = f.nr /\ w.kind = f.kind /\ w.pos = old.off + 1
    BY <1>2 DEF Units, Frames
  <1>5. /\ s \in Sendings /\ s.frame = f /\ s.off = old.off + 1
        /\ s.state = IF done THEN "sent" ELSE "busy"
    <2> DEFINE st == IF done THEN "sent" ELSE "busy"
               n == old.off + 1
    <2>1. st \in States /\ n \in Nat
      BY <1>2 DEF States
    <2> HIDE DEF st, n
    <2>2. /\ [old EXCEPT !.off = n, !.state = st] \in Sendings
          /\ [old EXCEPT !.off = n, !.state = st].frame = f
          /\ [old EXCEPT !.off = n, !.state = st].off = n
          /\ [old EXCEPT !.off = n, !.state = st].state = st
      BY <1>1, <2>1 DEF Sendings
    <2> QED
      BY <2>2 DEF st, n
  <1>6. SendingOK(s)
    <2>1. s.off <= Size(s.frame)
      BY <1>2, <1>3, <1>5
    <2>2. s.state = "busy" => s.off < Size(s.frame)
      BY <1>2, <1>3, <1>5
    <2> QED
      BY <1>5, <2>1, <2>2 DEF SendingOK
  <1>7. /\ sending' = [sending EXCEPT ![t] = s] /\ stream' = Append(stream, w)
        /\ written' = IF done THEN Append(written, f) ELSE written
    <2>1. sending' = [sending EXCEPT ![t].off = old.off + 1,
                                     ![t].state = IF done THEN "sent" ELSE "busy"]
      BY DEF write
    <2>2. sending' = [sending EXCEPT ![t] = s]
      BY <2>1 DEF TypeInv, SendType
    <2> QED
      BY <2>2 DEF write
  <1> HIDE DEF s, w
  <1> QED
    BY <1>2, <1>3, <1>4, <1>5, <1>6, <1>7

\* What start(t, kind) does.
LEMMA Starts ==
  ASSUME TypeInv, NEW t \in Threads, NEW kind \in Kinds, start(t, kind)
  PROVE  \E s : SendingOK(s) /\ s.off = 0 /\ sending' = [sending EXCEPT ![t] = s]
  <1>1. PICK state \in {"busy", "failed"} : sending' = [sending EXCEPT ![t] =
          [state |-> state, frame |-> [nr |-> nextFrame, kind |-> kind],
           off |-> 0, tries |-> 1]]
    BY DEF start
  <1> DEFINE s == [state |-> state, frame |-> [nr |-> nextFrame, kind |-> kind],
                   off |-> 0, tries |-> 1]
  <1>2. s \in Sendings /\ s.off = 0
    BY Sizes DEF Sendings, States, Frames, TypeInv, WireType
  <1>3. sending' = [sending EXCEPT ![t] = s]
    BY <1>1
  <1> HIDE DEF s
  <1> QED
    BY <1>2, <1>3, Fresh

\* What read does, with the units the receiver has then.
LEMMA Reads ==
  ASSUME TypeInv, read
  PROVE  \E units :
           /\ stream # <<>> /\ units = Append(buffer, Head(stream)) /\ units \in Seq(Units)
           /\ Len(units) = Len(buffer) + 1 /\ Len(units) <= length
           /\ stream' = Tail(stream)
           /\ \/ /\ Len(units) < length /\ buffer' = units
                 /\ UNCHANGED <<part, length, header, received>>
              \/ /\ Len(units) = length /\ part = "header" /\ readHeader(units)
              \/ /\ Len(units) = length /\ part = "payload" /\ Return(header, units)
                 /\ UNCHANGED header
  <1> DEFINE units == Append(buffer, Head(stream))
  <1>1. stream \in Seq(Units) /\ stream # <<>> /\ buffer \in Seq(Units)
    BY DEF TypeInv, WireType, ReadType, read
  <1>2. Head(stream) \in Units
    BY <1>1, HeadTailProperties
  <1>3. units \in Seq(Units) /\ Len(units) = Len(buffer) + 1
    BY <1>1, <1>2, AppendProperties
  <1>4. Len(buffer) \in Nat /\ length \in Nat /\ Len(buffer) < length
    BY <1>1, LenProperties DEF TypeInv, ReadType
  <1>5. /\ stream' = Tail(stream)
        /\ IF Len(units) < length
           THEN buffer' = units /\ UNCHANGED <<part, length, header, received>>
           ELSE IF part = "header" THEN readHeader(units)
           ELSE Return(header, units) /\ UNCHANGED header
    BY DEF read
  <1>6. part \in {"header", "payload"}
    BY DEF TypeInv, ReadType
  <1>7. Len(units) <= length
    BY <1>3, <1>4
  <1>8. \/ /\ Len(units) < length /\ buffer' = units
           /\ UNCHANGED <<part, length, header, received>>
        \/ /\ Len(units) = length /\ part = "header" /\ readHeader(units)
        \/ /\ Len(units) = length /\ part = "payload" /\ Return(header, units)
           /\ UNCHANGED header
    <2> HIDE DEF units
    <2> QED
      BY <1>3, <1>4, <1>5, <1>6
  <1>9. units = Append(buffer, Head(stream))
    OBVIOUS
  <1> HIDE DEF units
  <1> QED
    BY <1>1, <1>3, <1>5, <1>7, <1>8, <1>9

LEMMA LastUnit ==
  ASSUME NEW units \in Seq(Units), Len(units) >= 1
  PROVE  /\ Last(units) = units[Len(units)] /\ Last(units) \in Units
         /\ Head(units) = units[1] /\ units[1] \in Units
  <1>1. Len(units) \in Nat /\ Len(units) \in 1 .. Len(units) /\ 1 \in 1 .. Len(units)
    BY LenProperties
  <1> QED
    BY <1>1, ElementOfSeq DEF Last

LEMMA ReadTypeNext ==
  ASSUME TypeInv, read
  PROVE  ReadType'
  <1>1. PICK units :
           /\ stream # <<>> /\ units = Append(buffer, Head(stream)) /\ units \in Seq(Units)
           /\ Len(units) = Len(buffer) + 1 /\ Len(units) <= length
           /\ stream' = Tail(stream)
           /\ \/ /\ Len(units) < length /\ buffer' = units
                 /\ UNCHANGED <<part, length, header, received>>
              \/ /\ Len(units) = length /\ part = "header" /\ readHeader(units)
              \/ /\ Len(units) = length /\ part = "payload" /\ Return(header, units)
                 /\ UNCHANGED header
    BY Reads
  <1>2. /\ Len(buffer) \in Nat /\ <<>> \in Seq(Units) /\ Len(<<>>) = 0
        /\ received \in Seq([frame : Frames, payload : Seq(Units)]) /\ header \in Frames
    BY LenProperties, EmptySeq DEF TypeInv, ReadType
  <1>3. ASSUME NEW f \in Frames, NEW p \in Seq(Units), Return(f, p), header' \in Frames
        PROVE  ReadType'
    <2>1. [frame |-> f, payload |-> p] \in [frame : Frames, payload : Seq(Units)]
      OBVIOUS
    <2>2. received' \in Seq([frame : Frames, payload : Seq(Units)])
      <3> DEFINE r == [frame |-> f, payload |-> p]
      <3>1. received' = Append(received, r) \/ received' = received
        BY <1>3 DEF Return
      <3>2. CASE received' = received
        BY <1>2, <3>2
      <3> HIDE DEF r
      <3>3. CASE received' = Append(received, r)
        BY <1>2, <2>1, <3>3, AppendProperties DEF r
      <3> QED
        BY <3>1, <3>2, <3>3
    <2>3. part' = "header" /\ length' = HeaderSize /\ buffer' = <<>>
      BY <1>3 DEF Return, Restart
    <2> QED
      BY <1>2, <1>3, <2>2, <2>3, Sizes DEF ReadType
  <1>4. CASE Len(units) < length /\ buffer' = units /\ UNCHANGED <<part, length, header, received>>
    BY <1>1, <1>4 DEF TypeInv, ReadType
  <1>5. CASE Len(units) = length /\ part = "header" /\ readHeader(units)
    <2> DEFINE f == [nr |-> Last(units).nr, kind |-> Last(units).kind]
    <2>1. Last(units) \in Units
      <3>1. Len(units) >= 1
        BY <1>1, <1>2
      <3> QED
        BY <1>1, <3>1, LastUnit
    <2>2. f \in Frames /\ Last(units).kind \in Kinds
      BY <2>1 DEF Units, Frames
    <2>3. \/ header' = f /\ \E n \in PayloadLengths(units) :
               IF n = 0 THEN Return(f, <<>>)
               ELSE part' = "payload" /\ length' = n /\ buffer' = <<>> /\ UNCHANGED received
          \/ Restart /\ UNCHANGED <<header, received>>
      BY <1>5 DEF readHeader
    <2> HIDE DEF f
    <2>4. PayloadLengths(units) \subseteq Nat
      BY <2>2, SizeOf, Sizes DEF PayloadLengths
    <2>5. CASE header' = f /\ \E n \in PayloadLengths(units) :
               IF n = 0 THEN Return(f, <<>>)
               ELSE part' = "payload" /\ length' = n /\ buffer' = <<>> /\ UNCHANGED received
      <3>1. PICK n \in PayloadLengths(units) :
               IF n = 0 THEN Return(f, <<>>)
               ELSE part' = "payload" /\ length' = n /\ buffer' = <<>> /\ UNCHANGED received
        BY <2>5
      <3>2. CASE n = 0
        BY <1>2, <1>3, <2>2, <2>5, <3>1, <3>2
      <3>3. CASE n # 0
        BY <1>2, <2>2, <2>4, <2>5, <3>1, <3>3 DEF ReadType
      <3> QED
        BY <3>2, <3>3
    <2>6. CASE Restart /\ UNCHANGED <<header, received>>
      BY <1>2, <2>6, Sizes DEF Restart, ReadType
    <2> QED
      BY <2>3, <2>5, <2>6
  <1>6. CASE Len(units) = length /\ part = "payload" /\ Return(header, units) /\ UNCHANGED header
    BY <1>1, <1>2, <1>3, <1>6
  <1> QED
    BY <1>1, <1>4, <1>5, <1>6

LEMMA TypeNext == TypeInv /\ [Next]_vars => TypeInv'
  <1> SUFFICES ASSUME TypeInv, [Next]_vars PROVE TypeInv'
    OBVIOUS
  <1>s. stream \in Seq(Units) /\ written \in Seq(Frames) /\ Len(stream) \in Nat
    BY LenProperties DEF TypeInv, WireType
  <1>1. ASSUME NEW t \in Threads, NEW kind \in Kinds, start(t, kind) PROVE TypeInv'
    <2>1. SendType'
      BY <1>1, Starts, SendTypeSet DEF TypeInv
    <2>2. WireType'
      BY <1>1, Sizes DEF TypeInv, WireType, start
    <2>3. ReadType'
      BY <1>1 DEF TypeInv, ReadType, start, receiver
    <2> QED
      BY <2>1, <2>2, <2>3 DEF TypeInv
  <1>2. ASSUME NEW t \in Threads, write(t) PROVE TypeInv'
    <2>1. PICK s, w :
           /\ sending[t].frame \in Frames
           /\ SendingOK(s) /\ sending' = [sending EXCEPT ![t] = s]
           /\ w \in Units /\ stream' = Append(stream, w)
           /\ \/ written' = Append(written, sending[t].frame)
              \/ written' = written
      BY <1>2, Writes
    <2>2. SendType'
      BY <2>1, SendTypeSet DEF TypeInv
    <2>3. stream' \in Seq(Units) /\ Len(stream') = Len(stream) + 1 /\ written' \in Seq(Frames)
      <3>1. stream' \in Seq(Units) /\ Len(stream') = Len(stream) + 1
        BY <1>s, <2>1, AppendProperties
      <3>2. Append(written, sending[t].frame) \in Seq(Frames)
        BY <1>s, <2>1, AppendProperties
      <3> QED
        BY <1>s, <2>1, <3>1, <3>2
    <2>4. /\ Len(stream) < Capacity /\ faults' \in {faults, faults \cup {"mixed"}}
          /\ UNCHANGED <<nextFrame, network_break_flag, receiver>>
      BY <1>2 DEF write
    <2>5. WireType'
      BY <1>s, <2>3, <2>4, Sizes DEF TypeInv, WireType, Faults
    <2>6. ReadType'
      BY <2>4 DEF TypeInv, ReadType, receiver
    <2> QED
      BY <2>2, <2>5, <2>6 DEF TypeInv
  <1>3. ASSUME NEW t \in Threads, timeout(t) \/ short(t) PROVE TypeInv'
    <2>1. PICK s : SendingOK(s) /\ EndTry(t, s)
      BY <1>3, TryEnds
    <2>2. SendType'
      BY <2>1, SendTypeSet DEF TypeInv, EndTry
    <2>b. network_break_flag' \in BOOLEAN
      BY <1>3 DEF TypeInv, WireType, timeout, short
    <2>3. WireType'
      BY <2>1, <2>b DEF TypeInv, WireType, EndTry, Faults
    <2>4. ReadType'
      BY <2>1 DEF TypeInv, ReadType, EndTry, receiver
    <2> QED
      BY <2>2, <2>3, <2>4 DEF TypeInv
  <1>4. CASE read
    <2>1. UNCHANGED <<sender, faults>> /\ stream' = Tail(stream) /\ stream # <<>>
      BY <1>4 DEF read
    <2>2. stream' \in Seq(Units) /\ Len(stream') = Len(stream) - 1
      BY <1>s, <2>1, HeadTailProperties
    <2>3. WireType'
      BY <1>s, <2>1, <2>2, Sizes DEF TypeInv, WireType, sender
    <2>4. SendType'
      BY <2>1 DEF TypeInv, SendType, SendingOK, sender
    <2> QED
      BY <1>4, <2>3, <2>4, ReadTypeNext DEF TypeInv
  <1>5. CASE recvTimeout
    <2>1. SendType'
      BY <1>5 DEF TypeInv, SendType, SendingOK, recvTimeout, sender
    <2>2. WireType'
      BY <1>5 DEF TypeInv, WireType, recvTimeout, sender, Faults
    <2>3. <<>> \in Seq(Units) /\ Len(<<>>) = 0
      BY EmptySeq
    <2>4. ReadType'
      BY <1>5, <2>3, Sizes DEF TypeInv, ReadType, recvTimeout, Restart
    <2> QED
      BY <2>1, <2>2, <2>4 DEF TypeInv
  <1>6. CASE UNCHANGED vars
    BY <1>6 DEF vars, sender, receiver, TypeInv, SendType, SendingOK, WireType, ReadType
  <1>7. CASE breakNetworkOperation
    BY <1>7 DEF breakNetworkOperation, receiver, TypeInv, SendType, SendingOK, WireType, ReadType
  <1> QED
    BY <1>1, <1>2, <1>3, <1>4, <1>5, <1>6, <1>7 DEF Next, Send

LEMMA Types == Spec => []TypeInv
  BY TypeInit, TypeNext, PTL DEF Spec

\* The variables have their types: what is read is never longer than what was asked
\* for, and no send writes beyond its frame.
THEOREM TypeCorrect == Spec => []TypeOK
  BY Types, TypeInvType, PTL

-----------------------------------------------------------------------------
(* Where the units are.  A place is a frame, by its number among the frames that *)
(* are written, and how many of its units are before it.                         *)

Places == [frame : Nat, off : Nat]

\* The first n units of frame f are written, as those of frame number i.
Begun(i, f, n) ==
  \/ i \in 1 .. Len(written) /\ written[i] = f /\ n <= Size(f)
  \/ i = Len(written) + 1 /\ \E t \in Threads : Amid(t) /\ sending[t].frame = f /\ n <= sending[t].off

\* u is the unit at place p.
UnitAt(p, u) ==
  \E f \in Frames : /\ u.nr = f.nr /\ u.kind = f.kind /\ u.pos = p.off + 1
                    /\ Begun(p.frame, f, p.off + 1)

\* The place after that of u.
After(p, u) ==
  IF u.pos = Size(u) THEN [frame |-> p.frame + 1, off |-> 0]
  ELSE [frame |-> p.frame, off |-> p.off + 1]

\* How much of its frame the receiver has taken before the part it reads.
Taken == IF part = "header" THEN 0 ELSE HeaderSize

ReadPlace == [frame |-> Len(received) + 1, off |-> Taken + Len(buffer)]

\* The next unit is written at place p.
WritePlace(p) ==
  /\ p.frame = Len(written) + 1
  /\ \A t \in Threads : Amid(t) => p.off = sending[t].off
  /\ (\A t \in Threads : ~Amid(t)) => p.off = 0

OneAmid == \A t, u \in Threads : Amid(t) /\ Amid(u) => t = u

\* The units under way are at consecutive places, from where the receiver is to
\* where the sender is.
Route(at) ==
  /\ at[1] = ReadPlace
  /\ \A k \in 1 .. Len(stream) : UnitAt(at[k], stream[k]) /\ at[k + 1] = After(at[k], stream[k])
  /\ WritePlace(at[Len(stream) + 1])

Pipe == \E at \in [1 .. Len(stream) + 1 -> Places] : Route(at)

\* What the receiver has of a part is the beginning of that part of one frame.
Partial ==
  /\ \A k \in 1 .. Len(buffer) :
       UnitAt([frame |-> Len(received) + 1, off |-> Taken + k - 1], buffer[k])
  /\ part = "payload" => /\ Begun(Len(received) + 1, header, HeaderSize)
                         /\ length = Size(header) - HeaderSize

Returned ==
  /\ Len(received) <= Len(written)
  /\ \A i \in 1 .. Len(received) :
       received[i] = [frame |-> written[i], payload |-> Payload(written[i])]

WireInv == OneAmid /\ Pipe /\ Partial /\ Returned

-----------------------------------------------------------------------------
(* Frames that are begun *)

LEMMA WrittenSeq == TypeInv => written \in Seq(Frames) /\ Len(written) \in Nat
  BY LenProperties DEF TypeInv, WireType

LEMMA StreamSeq == TypeInv => stream \in Seq(Units) /\ Len(stream) \in Nat
  BY LenProperties DEF TypeInv, WireType

LEMMA BufferSeq ==
  TypeInv => /\ buffer \in Seq(Units) /\ Len(buffer) \in Nat /\ length \in Nat /\ Len(buffer) < length
             /\ received \in Seq([frame : Frames, payload : Seq(Units)]) /\ Len(received) \in Nat
  BY LenProperties DEF TypeInv, ReadType

LEMMA AmidSend ==
  ASSUME TypeInv, NEW t \in Threads
  PROVE  /\ sending[t].off \in Nat /\ sending[t].frame \in Frames
         /\ Size(sending[t].frame) \in Nat /\ Size(sending[t].frame) >= HeaderSize
         /\ Busy(t) => sending[t].off < Size(sending[t].frame)
  <1>1. SendingOK(sending[t])
    BY DEF TypeInv, SendType
  <1>2. sending[t].off \in Nat /\ sending[t].frame \in Frames
    BY <1>1 DEF SendingOK, Sendings
  <1> QED
    BY <1>1, <1>2, SizeOf DEF SendingOK, Frames, Busy

\* The units of one number are those of one frame.
LEMMA BegunOnce ==
  ASSUME TypeInv, OneAmid, NEW i, NEW f, NEW g, NEW m, NEW n, Begun(i, f, m), Begun(i, g, n)
  PROVE  f = g
  BY WrittenSeq DEF Begun, OneAmid

\* A frame whose last unit is written is among the frames written whole.
LEMMA BegunWhole ==
  ASSUME TypeInv, NEW i, NEW f \in Frames, Begun(i, f, Size(f))
  PROVE  i \in 1 .. Len(written) /\ written[i] = f
  <1>1. Size(f) \in Nat
    BY SizeOf DEF Frames
  <1>2. ASSUME NEW t \in Threads, Amid(t), sending[t].frame = f, Size(f) <= sending[t].off
        PROVE  FALSE
    BY <1>1, <1>2, AmidSend DEF Amid
  <1> QED
    BY <1>2 DEF Begun

\* No frame is begun, ended or given up with a part of it written.
SendsKept ==
  /\ written' = written
  /\ \A t \in Threads :
       /\ Amid(t)' <=> Amid(t)
       /\ Amid(t) => sending'[t].frame = sending[t].frame /\ sending'[t].off = sending[t].off

LEMMA BegunKept ==
  ASSUME SendsKept
  PROVE  /\ \A p \in Places : \A u : UnitAt(p, u) => UnitAt(p, u)'
         /\ \A i, f : \A n \in Nat : Begun(i, f, n) => Begun(i, f, n)'
         /\ OneAmid => OneAmid'
         /\ \A p : WritePlace(p) => WritePlace(p)'
  <1>1. ASSUME NEW i, NEW f, NEW n, Begun(i, f, n)
        PROVE  Begun(i, f, n)'
    BY <1>1 DEF Begun, SendsKept
  <1>2. ASSUME NEW p, NEW u, UnitAt(p, u)
        PROVE  UnitAt(p, u)'
    <2>1. PICK f \in Frames : /\ u.nr = f.nr /\ u.kind = f.kind /\ u.pos = p.off + 1
                              /\ Begun(p.frame, f, p.off + 1)
      BY <1>2 DEF UnitAt
    <2>2. Begun(p.frame, f, p.off + 1)'
      BY <1>1, <2>1
    <2> QED
      BY <2>1, <2>2 DEF UnitAt
  <1>3. OneAmid => OneAmid'
    BY DEF OneAmid, SendsKept
  <1>4. ASSUME NEW p, WritePlace(p) PROVE WritePlace(p)'
    BY <1>4 DEF WritePlace, SendsKept
  <1> QED
    BY <1>1, <1>2, <1>3, <1>4

\* A thread that begins a send, or ends a try before the first unit, disturbs nobody.
LEMMA Undisturbed ==
  ASSUME TypeInv, NEW t \in Threads, ~Amid(t), NEW s, s.off = 0 \/ s.state # "busy",
         sending' = [sending EXCEPT ![t] = s], written' = written
  PROVE  SendsKept
  <1>1. ASSUME NEW u \in Threads PROVE sending'[u] = IF u = t THEN s ELSE sending[u]
    BY DEF TypeInv, SendType
  <1>2. ~Amid(t)'
    BY <1>1 DEF Amid, Busy
  <1>3. ASSUME NEW u \in Threads, u # t
        PROVE  (Amid(u)' <=> Amid(u)) /\ sending'[u] = sending[u]
    BY <1>1, <1>3 DEF Amid, Busy
  <1> QED
    BY <1>2, <1>3 DEF SendsKept

-----------------------------------------------------------------------------
(* A unit is written *)

LEMMA WriteBegun ==
  ASSUME TypeInv, OneAmid, NEW t \in Threads, write(t), faults' = {},
         NEW w, stream' = Append(stream, w), w.pos = sending[t].off + 1,
         w.nr = sending[t].frame.nr, w.kind = sending[t].frame.kind
  PROVE  /\ \A p \in Places : \A u : UnitAt(p, u) => UnitAt(p, u)'
         /\ \A i, f : \A n \in Nat : Begun(i, f, n) => Begun(i, f, n)'
         /\ OneAmid'
         /\ \A p \in Places : WritePlace(p) => UnitAt(p, w)' /\ WritePlace(After(p, w))'
         /\ Len(written') >= Len(written)
         /\ \A i \in 1 .. Len(written) : written'[i] = written[i]
  <1> DEFINE old == sending[t]
             f == old.frame
             done == old.off + 1 = Size(f)
             l == Len(written)
  <1>1. PICK s :
           /\ s.frame = f /\ s.off = old.off + 1
           /\ s.state = IF done THEN "sent" ELSE "busy"
           /\ sending' = [sending EXCEPT ![t] = s]
           /\ written' = IF done THEN Append(written, f) ELSE written
    BY Writes
  <1>2. /\ old.off \in Nat /\ f \in Frames /\ Size(f) \in Nat /\ old.off < Size(f)
        /\ Size(f) >= 2 /\ Busy(t)
    BY AmidSend, Sizes DEF write
  <1>3. ASSUME NEW u \in Threads, u # t PROVE ~Amid(u)
    BY <1>3 DEF write
  <1>4. ASSUME NEW u \in Threads PROVE sending'[u] = IF u = t THEN s ELSE sending[u]
    BY <1>1 DEF TypeInv, SendType
  <1>5. ASSUME NEW u \in Threads, u # t PROVE ~Amid(u)'
    BY <1>3, <1>4, <1>5 DEF Amid, Busy
  <1>6. Amid(t)' <=> ~done
    BY <1>1, <1>2, <1>4 DEF Amid, Busy
  <1>7. sending'[t] = s
    BY <1>4
  <1>8. written \in Seq(Frames) /\ l \in Nat
    BY WrittenSeq
  <1>9. /\ Len(written') = IF done THEN l + 1 ELSE l
        /\ \A i \in 1 .. l : written'[i] = written[i]
        /\ done => written'[l + 1] = f
    BY <1>1, <1>2, <1>8, AppendProperties
  <1> HIDE DEF l
  <1>10. ASSUME NEW i, i = l + 1, NEW g, g = f, NEW n \in Nat, n <= old.off + 1
         PROVE  Begun(i, g, n)'
    <2>1. CASE done
      <3>1. i \in 1 .. Len(written') /\ written'[i] = g /\ n <= Size(g)
        BY <1>2, <1>8, <1>9, <1>10, <2>1
      <3> QED
        BY <3>1 DEF Begun
    <2>2. CASE ~done
      <3>1. i = Len(written') + 1 /\ Amid(t)' /\ sending'[t].frame = g /\ n <= sending'[t].off
        BY <1>1, <1>6, <1>7, <1>9, <1>10, <2>2
      <3> QED
        BY <3>1 DEF Begun
    <2> QED
      BY <2>1, <2>2
  <1>11. ASSUME NEW i, NEW g, NEW n \in Nat, Begun(i, g, n)
         PROVE  Begun(i, g, n)'
    <2>1. CASE i \in 1 .. l /\ written[i] = g /\ n <= Size(g)
      <3>1. i \in 1 .. Len(written') /\ written'[i] = g /\ n <= Size(g)
        BY <1>8, <1>9, <2>1
      <3> QED
        BY <3>1 DEF Begun
    <2>2. ASSUME i = l + 1, NEW u \in Threads, Amid(u), sending[u].frame = g, n <= sending[u].off
          PROVE  Begun(i, g, n)'
      <3>1. u = t
        BY <1>3, <2>2
      <3>2. g = f /\ n <= old.off + 1
        BY <1>2, <1>11, <2>2, <3>1
      <3> QED
        BY <1>10, <2>2, <3>2
    <2> QED
      BY <1>11, <2>1, <2>2 DEF Begun, l
  <1>12. ASSUME NEW p \in Places, NEW u, UnitAt(p, u)
         PROVE  UnitAt(p, u)'
    <2>1. PICK g \in Frames : /\ u.nr = g.nr /\ u.kind = g.kind /\ u.pos = p.off + 1
                              /\ Begun(p.frame, g, p.off + 1)
      BY <1>12 DEF UnitAt
    <2>2. Begun(p.frame, g, p.off + 1)'
      BY <1>11, <2>1 DEF Places
    <2> QED
      BY <2>1, <2>2 DEF UnitAt
  <1>13. OneAmid'
    BY <1>5 DEF OneAmid
  <1>14. ASSUME NEW p \in Places, WritePlace(p)
         PROVE  UnitAt(p, w)' /\ WritePlace(After(p, w))'
    <2>1. p.frame = l + 1 /\ p.off = old.off
      BY <1>2, <1>3, <1>14 DEF WritePlace, Amid, l
    <2>2. UnitAt(p, w)'
      <3>1. PICK g : g = f
        OBVIOUS
      <3>2. p.off + 1 \in Nat /\ p.off + 1 <= old.off + 1 /\ p.frame = l + 1
        BY <1>2, <2>1
      <3>3. Begun(p.frame, g, p.off + 1)'
        BY <1>10, <3>1, <3>2
      <3>4. /\ g \in Frames /\ w.nr = g.nr /\ w.kind = g.kind /\ w.pos = p.off + 1
        BY <1>2, <2>1, <3>1
      <3> QED
        BY <3>3, <3>4 DEF UnitAt
    <2>3. Size(w) = Size(f) /\ w.pos = old.off + 1
      BY DEF Size
    <2>4. CASE done
      <3>1. After(p, w).frame = l + 2 /\ After(p, w).off = 0
        BY <1>8, <2>1, <2>3, <2>4 DEF After
      <3>2. \A u \in Threads : ~Amid(u)'
        BY <1>5, <1>6, <2>4
      <3> QED
        BY <1>8, <1>9, <2>2, <2>4, <3>1, <3>2 DEF WritePlace
    <2>5. CASE ~done
      <3>1. After(p, w).frame = l + 1 /\ After(p, w).off = old.off + 1
        BY <2>1, <2>3, <2>5 DEF After
      <3>2. Amid(t)' /\ sending'[t].off = old.off + 1 /\ \A u \in Threads : Amid(u)' => u = t
        BY <1>1, <1>5, <1>6, <1>7, <2>5
      <3> QED
        BY <1>9, <2>2, <2>5, <3>1, <3>2 DEF WritePlace
    <2> QED
      BY <2>4, <2>5
  <1>15. Len(written') >= l /\ \A i \in 1 .. l : written'[i] = written[i]
    BY <1>8, <1>9
  <1> QED
    BY <1>11, <1>12, <1>13, <1>14, <1>15 DEF l

\* What the receiver has stays what it is while it reads nothing.
LEMMA PartialKept ==
  ASSUME TypeInv, Partial, UNCHANGED receiver,
         \A p \in Places : \A u : UnitAt(p, u) => UnitAt(p, u)',
         \A i, f : \A n \in Nat : Begun(i, f, n) => Begun(i, f, n)'
  PROVE  Partial'
  <1>1. PICK l, h, b, a, s :
          l = Len(received) + 1 /\ h = header /\ b = buffer /\ a = Taken /\ s = length
    OBVIOUS
  <1>2. /\ l = Len(received') + 1 /\ h = header' /\ b = buffer' /\ a = Taken' /\ s = length'
        /\ part' = part
    BY <1>1 DEF receiver, Taken
  <1>3. l \in Nat /\ a \in Nat /\ Len(b) \in Nat
    BY <1>1, BufferSeq, Sizes DEF Taken
  <1>4. ASSUME NEW k \in 1 .. Len(b)
        PROVE  UnitAt([frame |-> l, off |-> a + k - 1], b[k])'
    <2>1. [frame |-> l, off |-> a + k - 1] \in Places
      BY <1>3 DEF Places
    <2>2. UnitAt([frame |-> l, off |-> a + k - 1], b[k])
      BY <1>1 DEF Partial
    <2> QED
      BY <2>1, <2>2
  <1>5. part' = "payload" => Begun(l, h, HeaderSize)' /\ s = Size(h) - HeaderSize
    BY <1>1, <1>2, Sizes DEF Partial
  <1> QED
    BY <1>2, <1>4, <1>5 DEF Partial

LEMMA ReadPlaceKept == ASSUME UNCHANGED receiver PROVE ReadPlace' = ReadPlace
  BY DEF ReadPlace, Taken, receiver

\* A step that leaves the frames begun, the units under way and the receiver alone.
LEMMA WireKept ==
  ASSUME TypeInv, WireInv, SendsKept, UNCHANGED <<stream, receiver>>
  PROVE  WireInv'
  <1>1. OneAmid' /\ \A p \in Places : WritePlace(p) => WritePlace(p)'
    BY BegunKept DEF WireInv
  <1>2. Partial'
    BY BegunKept, PartialKept DEF WireInv
  <1>3. Returned'
    BY DEF WireInv, Returned, SendsKept, receiver
  <1>4. Pipe'
    <2>1. PICK at \in [1 .. Len(stream) + 1 -> Places] : Route(at)
      BY DEF WireInv, Pipe
    <2>2. PICK st : st = stream
      OBVIOUS
    <2>3. st = stream' /\ Len(st) \in Nat
      BY <2>2, StreamSeq
    <2>4. ASSUME NEW k \in 1 .. Len(st)
          PROVE  UnitAt(at[k], st[k])' /\ at[k + 1] = After(at[k], st[k])
      <3>1. UnitAt(at[k], st[k]) /\ at[k + 1] = After(at[k], st[k])
        BY <2>1, <2>2 DEF Route
      <3>2. at[k] \in Places
        BY <2>2, <2>3
      <3> QED
        BY <3>1, <3>2, BegunKept
    <2>5. at[1] = ReadPlace'
      BY <2>1, ReadPlaceKept DEF Route
    <2>6. WritePlace(at[Len(st) + 1])'
      <3>1. at[Len(st) + 1] \in Places
        BY <2>2, <2>3
      <3>2. WritePlace(at[Len(st) + 1])
        BY <2>1, <2>2 DEF Route
      <3> QED
        BY <1>1, <3>1, <3>2
    <2>7. Route(at)'
      BY <2>3, <2>4, <2>5, <2>6 DEF Route
    <2> QED
      BY <2>2, <2>3, <2>7 DEF Pipe
  <1> QED
    BY <1>1, <1>2, <1>3, <1>4 DEF WireInv

LEMMA WireWrite ==
  ASSUME TypeInv, WireInv, NEW t \in Threads, write(t), faults' = {}
  PROVE  WireInv'
  <1>1. PICK w : /\ stream' = Append(stream, w) /\ w.pos = sending[t].off + 1 /\ w \in Units
                 /\ w.nr = sending[t].frame.nr /\ w.kind = sending[t].frame.kind
    BY Writes
  <1>2. /\ \A p \in Places : \A u : UnitAt(p, u) => UnitAt(p, u)'
        /\ \A i, f : \A n \in Nat : Begun(i, f, n) => Begun(i, f, n)'
        /\ OneAmid'
        /\ \A p \in Places : WritePlace(p) => UnitAt(p, w)' /\ WritePlace(After(p, w))'
        /\ Len(written') >= Len(written)
        /\ \A i \in 1 .. Len(written) : written'[i] = written[i]
    BY <1>1, WriteBegun DEF WireInv
  <1>3. UNCHANGED receiver
    BY DEF write
  <1>4. Partial'
    BY <1>2, <1>3, PartialKept DEF WireInv
  <1>5. Returned'
    <2>1. Len(received) \in Nat /\ Len(written) \in Nat /\ Len(written') \in Nat
          /\ received' = received
      BY <1>3, WrittenSeq, BufferSeq, Writes, AppendProperties DEF receiver
    <2> QED
      BY <1>2, <2>1 DEF WireInv, Returned
  <1>6. Pipe'
    <2>1. PICK at \in [1 .. Len(stream) + 1 -> Places] : Route(at)
      BY DEF WireInv, Pipe
    <2>2. PICK l, st : l = Len(stream) /\ st = stream'
      OBVIOUS
    <2>3. /\ l \in Nat /\ Len(st) = l + 1 /\ st[l + 1] = w
          /\ \A k \in 1 .. l : st[k] = stream[k]
      BY <1>1, <2>2, StreamSeq, AppendProperties
    <2> DEFINE new == [k \in 1 .. l + 2 |-> IF k <= l + 1 THEN at[k] ELSE After(at[l + 1], w)]
    <2>4. at[l + 1] \in Places /\ at[1] \in Places /\ at[1] = ReadPlace /\ WritePlace(at[l + 1])
      BY <2>1, <2>2, <2>3 DEF Route
    <2>5. After(at[l + 1], w) \in Places
      BY <2>4 DEF After, Places
    <2>6. new \in [1 .. l + 2 -> Places]
      BY <2>1, <2>2, <2>3, <2>5
    <2>7. /\ \A k \in 1 .. l + 1 : new[k] = at[k]
          /\ new[l + 2] = After(at[l + 1], w)
      BY <2>3
    <2> HIDE DEF new
    <2>8. ASSUME NEW k \in 1 .. l + 1
          PROVE  UnitAt(new[k], st[k])' /\ new[k + 1] = After(new[k], st[k])
      <3>1. CASE k \in 1 .. l
        <4>1. UnitAt(at[k], st[k]) /\ at[k + 1] = After(at[k], st[k]) /\ at[k] \in Places
          BY <2>1, <2>2, <2>3, <3>1 DEF Route
        <4>2. new[k] = at[k] /\ new[k + 1] = at[k + 1]
          BY <2>3, <2>7, <3>1
        <4> QED
          BY <1>2, <4>1, <4>2
      <3>2. CASE k = l + 1
        <4>1. new[k] = at[l + 1] /\ new[k + 1] = After(at[l + 1], w) /\ st[k] = w
          BY <2>3, <2>7, <3>2
        <4>2. UnitAt(at[l + 1], w)'
          BY <1>2, <2>4
        <4> QED
          BY <4>1, <4>2
      <3> QED
        BY <2>3, <3>1, <3>2
    <2>9. new[1] = ReadPlace'
      BY <1>3, <2>3, <2>4, <2>7, ReadPlaceKept
    <2>10. WritePlace(new[l + 2])'
      BY <1>2, <2>4, <2>7
    <2>11. Len(st) + 1 = l + 2
      BY <2>3
    <2>12. Route(new)'
      BY <2>2, <2>3, <2>8, <2>9, <2>10, <2>11 DEF Route
    <2> QED
      BY <2>2, <2>6, <2>11, <2>12 DEF Pipe
  <1> QED
    BY <1>2, <1>4, <1>5, <1>6 DEF WireInv

-----------------------------------------------------------------------------
(* A unit is read *)

\* The receiver has the units from the beginning of the part to its place, the
\* new one included.
LEMMA ReadUnits ==
  ASSUME TypeInv, WireInv, stream # <<>>, NEW units, units = Append(buffer, Head(stream))
  PROVE  /\ Len(units) = Len(buffer) + 1
         /\ \A k \in 1 .. Len(units) :
              UnitAt([frame |-> Len(received) + 1, off |-> Taken + k - 1], units[k])
  <1>1. PICK at \in [1 .. Len(stream) + 1 -> Places] : Route(at)
    BY DEF WireInv, Pipe
  <1>2. stream \in Seq(Units) /\ Len(stream) \in Nat /\ Len(stream) >= 1 /\ Head(stream) = stream[1]
        /\ Head(stream) \in Units
    BY StreamSeq, EmptySeq, HeadTailProperties
  <1>3. UnitAt(ReadPlace, Head(stream))
    BY <1>1, <1>2 DEF Route
  <1> DEFINE l == Len(buffer)
             h == Head(stream)
  <1>4. /\ buffer \in Seq(Units) /\ l \in Nat /\ Len(units) = l + 1 /\ units[l + 1] = h
        /\ \A k \in 1 .. l : units[k] = buffer[k]
    BY <1>2, BufferSeq, AppendProperties
  <1>5. ReadPlace = [frame |-> Len(received) + 1, off |-> Taken + (l + 1) - 1]
    BY <1>4, Sizes DEF ReadPlace, Taken
  <1> HIDE DEF l, h
  <1>6. ASSUME NEW k \in 1 .. l + 1
        PROVE  UnitAt([frame |-> Len(received) + 1, off |-> Taken + k - 1], units[k])
    <2>1. CASE k \in 1 .. l
      BY <1>4, <2>1 DEF WireInv, Partial, l
    <2>2. CASE k = l + 1
      BY <1>3, <1>4, <1>5, <2>2 DEF h
    <2> QED
      BY <1>4, <2>1, <2>2
  <1> QED
    BY <1>4, <1>6 DEF l

\* The units under way without the first.
LEMMA PipeRead ==
  ASSUME TypeInv, WireInv, stream # <<>>, stream' = Tail(stream), SendsKept,
         ReadPlace' = After(ReadPlace, Head(stream))
  PROVE  Pipe'
  <1>1. PICK at \in [1 .. Len(stream) + 1 -> Places] : Route(at)
    BY DEF WireInv, Pipe
  <1>2. PICK l, st : l = Len(stream') /\ st = stream'
    OBVIOUS
  <1>3. /\ l \in Nat /\ Len(stream) = l + 1 /\ Head(stream) = stream[1]
        /\ \A k \in 1 .. l : st[k] = stream[k + 1]
    BY <1>2, StreamSeq, EmptySeq, HeadTailProperties, LenProperties
  <1> DEFINE new == [k \in 1 .. l + 1 |-> at[k + 1]]
  <1>4. ASSUME NEW k \in 1 .. l + 1 PROVE k + 1 \in 1 .. Len(stream) + 1
    BY <1>3
  <1>5. new \in [1 .. l + 1 -> Places] /\ \A k \in 1 .. l + 1 : new[k] = at[k + 1]
    BY <1>1, <1>4
  <1> HIDE DEF new
  <1>6. at[1] = ReadPlace /\ at[2] = After(at[1], stream[1])
    BY <1>1, <1>3 DEF Route
  <1>7. new[1] = ReadPlace'
    BY <1>3, <1>5, <1>6
  <1>8. ASSUME NEW k \in 1 .. l
        PROVE  UnitAt(new[k], st[k])' /\ new[k + 1] = After(new[k], st[k])
    <2>1. k + 1 \in 1 .. Len(stream) /\ new[k] = at[k + 1] /\ new[k + 1] = at[(k + 1) + 1]
          /\ st[k] = stream[k + 1]
      BY <1>3, <1>5
    <2>2. UnitAt(new[k], st[k]) /\ new[k + 1] = After(new[k], st[k])
      BY <1>1, <2>1 DEF Route
    <2>3. new[k] \in Places
      BY <1>3, <1>5
    <2> QED
      BY <2>2, <2>3, BegunKept
  <1>9. WritePlace(new[l + 1])'
    <2>1. new[l + 1] = at[Len(stream) + 1] /\ new[l + 1] \in Places
      BY <1>3, <1>5
    <2>2. WritePlace(new[l + 1])
      BY <1>1, <2>1 DEF Route
    <2> QED
      BY <2>1, <2>2, BegunKept
  <1>10. Route(new)'
    BY <1>2, <1>3, <1>7, <1>8, <1>9 DEF Route
  <1> QED
    BY <1>2, <1>5, <1>10 DEF Pipe

LEMMA PayloadSeq ==
  ASSUME NEW f \in Frames
  PROVE  /\ Payload(f) \in Seq(Units) /\ Len(Payload(f)) = Size(f) - HeaderSize
         /\ \A i \in 1 .. Size(f) - HeaderSize :
              Payload(f)[i] = [nr |-> f.nr, kind |-> f.kind, pos |-> HeaderSize + i]
  <1>1. Size(f) - HeaderSize \in Nat
    BY SizeOf, Sizes DEF Frames
  <1>2. ASSUME NEW i \in 1 .. Size(f) - HeaderSize
        PROVE  [nr |-> f.nr, kind |-> f.kind, pos |-> HeaderSize + i] \in Units
    BY <1>1, Sizes DEF Frames, Units
  <1> QED
    BY <1>1, <1>2 DEF Payload

\* A payload read from the beginning of that of a frame, and as long, is its payload.
LEMMA PayloadRead ==
  ASSUME TypeInv, OneAmid, NEW f \in Frames, NEW units \in Seq(Units), NEW i \in Nat,
         Len(units) = Size(f) - HeaderSize, NEW m \in Nat, Begun(i, f, m),
         \A k \in 1 .. Len(units) : UnitAt([frame |-> i, off |-> HeaderSize + k - 1], units[k])
  PROVE  units = Payload(f)
  <1>1. Len(units) \in Nat /\ HeaderSize \in Nat
    BY LenProperties, Sizes
  <1>2. ASSUME NEW k \in 1 .. Len(units)
        PROVE  units[k] = Payload(f)[k]
    <2>1. PICK g \in Frames : /\ units[k].nr = g.nr /\ units[k].kind = g.kind
                              /\ units[k].pos = HeaderSize + k - 1 + 1
                              /\ Begun(i, g, HeaderSize + k - 1 + 1)
      BY DEF UnitAt
    <2>2. g = f
      BY <2>1, BegunOnce
    <2>3. units[k] \in Units
      BY <1>1, ElementOfSeq
    <2>4. units[k] = [nr |-> f.nr, kind |-> f.kind, pos |-> HeaderSize + k]
      BY <1>1, <2>1, <2>2, <2>3 DEF Units
    <2> QED
      BY <2>4, PayloadSeq
  <1> QED
    BY <1>1, <1>2, PayloadSeq, SeqEqual

\* A frame whose payload is that of the next frame begun, and whose last unit is read.
LEMMA ReturnedNext ==
  ASSUME TypeInv, WireInv, SendsKept, NEW f \in Frames, NEW p, p = Payload(f),
         Begun(Len(received) + 1, f, Size(f)),
         received' = Append(received, [frame |-> f, payload |-> p])
  PROVE  Returned'
  <1> DEFINE r == [frame |-> f, payload |-> p]
  <1>1. r \in [frame : Frames, payload : Seq(Units)]
    BY PayloadSeq
  <1>2. received' = Append(received, r)
    OBVIOUS
  <1>3. r = [frame |-> f, payload |-> Payload(f)]
    OBVIOUS
  <1> HIDE DEF r
  <1>4. /\ Len(received) \in Nat /\ Len(received') = Len(received) + 1
        /\ \A i \in 1 .. Len(received) : received'[i] = received[i]
        /\ received'[Len(received) + 1] = r
    BY <1>1, <1>2, BufferSeq, AppendProperties
  <1>5. Len(received) + 1 \in 1 .. Len(written) /\ written[Len(received) + 1] = f
    BY BegunWhole
  <1>6. written' = written
    BY DEF SendsKept
  <1>7. ASSUME NEW i \in 1 .. Len(received) + 1
        PROVE  received'[i] = [frame |-> written[i], payload |-> Payload(written[i])]
    <2>1. CASE i \in 1 .. Len(received)
      BY <1>4, <2>1 DEF WireInv, Returned
    <2>2. CASE i = Len(received) + 1
      BY <1>3, <1>4, <1>5, <2>2
    <2> QED
      BY <1>4, <2>1, <2>2
  <1>8. Len(received) + 1 <= Len(written)
    BY <1>4, <1>5, WrittenSeq
  <1> QED
    BY <1>4, <1>6, <1>7, <1>8 DEF Returned, Payload

\* A frame has been returned: the receiver is at the beginning of the next one.
LEMMA ReturnPlace ==
  ASSUME TypeInv, Restart, received' = received \/ Len(received') = Len(received) + 1
  PROVE  Partial' /\ ReadPlace' = [frame |-> Len(received') + 1, off |-> 0]
  <1>1. part' = "header" /\ buffer' = <<>> /\ Len(<<>>) = 0
    BY EmptySeq DEF Restart
  <1> QED
    BY <1>1, Sizes DEF Partial, ReadPlace, Taken

LEMMA WireRead ==
  ASSUME TypeInv, WireInv, read, faults = {}
  PROVE  WireInv'
  <1>0. faults = {}
    OBVIOUS
  <1>1. PICK units :
           /\ stream # <<>> /\ units = Append(buffer, Head(stream)) /\ units \in Seq(Units)
           /\ Len(units) = Len(buffer) + 1 /\ Len(units) <= length
           /\ stream' = Tail(stream)
           /\ \/ /\ Len(units) < length /\ buffer' = units
                 /\ UNCHANGED <<part, length, header, received>>
              \/ /\ Len(units) = length /\ part = "header" /\ readHeader(units)
              \/ /\ Len(units) = length /\ part = "payload" /\ Return(header, units)
                 /\ UNCHANGED header
    BY Reads
  <1>2. SendsKept
    BY DEF read, sender, SendsKept, Amid, Busy
  <1>3. PICK r, n, a : r = Len(received) + 1 /\ n = Len(units) /\ a = Taken
    OBVIOUS
  <1>4. /\ r \in Nat /\ n \in Nat /\ a \in Nat /\ n >= 1 /\ length \in Nat
        /\ units[n] = Head(stream) /\ Last(units) = units[n] /\ Head(units) = units[1]
    <2>1. r \in Nat /\ n \in Nat /\ a \in Nat /\ n >= 1 /\ length \in Nat
      BY <1>1, <1>3, BufferSeq, Sizes DEF Taken
    <2>2. Head(stream) \in Units
      BY <1>1, StreamSeq, HeadTailProperties
    <2>3. units[Len(buffer) + 1] = Head(stream)
      BY <1>1, <2>2, BufferSeq, AppendProperties
    <2> QED
      BY <1>1, <1>3, <2>1, <2>3, LastUnit
  <1>5. \A k \in 1 .. n : UnitAt([frame |-> r, off |-> a + k - 1], units[k])
    BY <1>1, <1>3, ReadUnits
  <1>6. PICK f \in Frames : /\ units[n].nr = f.nr /\ units[n].kind = f.kind
                            /\ units[n].pos = a + n /\ Begun(r, f, a + n)
    BY <1>4, <1>5 DEF UnitAt
  <1>7. Size(units[n]) = Size(f) /\ Size(f) \in Nat /\ Size(f) >= HeaderSize /\ HeaderSize \in Nat
    BY <1>6, SizeOf, Sizes DEF Size, Frames
  <1>8. ReadPlace = [frame |-> r, off |-> a + n - 1]
    BY <1>1, <1>3, <1>4, BufferSeq DEF ReadPlace
  <1>9. After(ReadPlace, Head(stream)) =
          IF a + n = Size(f) THEN [frame |-> r + 1, off |-> 0] ELSE [frame |-> r, off |-> a + n]
    BY <1>4, <1>6, <1>7, <1>8 DEF After
  <1>10. part = "payload" => f = header /\ length = Size(f) - HeaderSize /\ a = HeaderSize
    <2>1. ASSUME part = "payload" PROVE Begun(r, header, HeaderSize) /\ length = Size(header) - HeaderSize
      BY <1>3, <2>1 DEF WireInv, Partial
    <2>2. ASSUME part = "payload" PROVE f = header
      BY <1>6, <2>1, <2>2, BegunOnce DEF WireInv
    <2> QED
      BY <1>3, <2>1, <2>2 DEF Taken
  <1>11. part = "header" => length = HeaderSize /\ a = 0
    BY <1>3 DEF TypeInv, ReadType, Taken
  <1>12. part \in {"header", "payload"}
    BY DEF TypeInv, ReadType
  <1>13. ASSUME ReadPlace' = After(ReadPlace, Head(stream)), Partial', Returned'
         PROVE  WireInv'
    <2>1. OneAmid'
      BY <1>2, BegunKept DEF WireInv
    <2>2. Pipe'
      BY <1>1, <1>2, <1>13, PipeRead
    <2> QED
      BY <1>13, <2>1, <2>2 DEF WireInv
  <1>14. CASE /\ Len(units) < length /\ buffer' = units
              /\ UNCHANGED <<part, length, header, received>>
    <2>1. Returned'
      BY <1>2, <1>14 DEF WireInv, Returned, SendsKept
    <2>2. a + n # Size(f)
      BY <1>3, <1>4, <1>7, <1>10, <1>11, <1>12, <1>14
    <2>3. ReadPlace' = [frame |-> r, off |-> a + n]
      BY <1>3, <1>14 DEF ReadPlace, Taken
    <2>4. ASSUME NEW k \in 1 .. n
          PROVE  UnitAt([frame |-> r, off |-> a + k - 1], units[k])'
      <3>1. [frame |-> r, off |-> a + k - 1] \in Places
        BY <1>4 DEF Places
      <3> QED
        BY <1>2, <1>5, <3>1, BegunKept
    <2>5. PICK h, s : h = header /\ s = length
      OBVIOUS
    <2>6. part' = "payload" => Begun(r, h, HeaderSize)' /\ s = Size(h) - HeaderSize
      BY <1>2, <1>3, <1>14, <2>5, BegunKept, Sizes DEF WireInv, Partial
    <2>7. /\ r = Len(received') + 1 /\ n = Len(buffer') /\ a = Taken' /\ buffer' = units
          /\ h = header' /\ s = length'
      BY <1>3, <1>14, <2>5 DEF Taken
    <2>8. Partial'
      BY <2>4, <2>6, <2>7 DEF Partial
    <2> QED
      BY <1>9, <1>13, <2>1, <2>2, <2>3, <2>8
  <1>15. CASE Len(units) = length /\ part = "header" /\ readHeader(units)
    <2> DEFINE g == [nr |-> Last(units).nr, kind |-> Last(units).kind]
    <2>1. g = f
      BY <1>4, <1>6 DEF Frames
    <2>2. n = HeaderSize /\ a = 0 /\ units[n].pos = HeaderSize
      BY <1>3, <1>4, <1>6, <1>11, <1>15, <1>7
    <2>3. Head(units).pos = 1
      <3>1. UnitAt([frame |-> r, off |-> 0], units[1])
        <4>1. 1 \in 1 .. n /\ a + 1 - 1 = 0
          BY <1>4, <2>2
        <4> QED
          BY <1>5, <4>1
      <3> QED
        BY <1>4, <3>1 DEF UnitAt
    <2>4. PayloadLengths(units) = {Size(f) - HeaderSize}
      BY <1>4, <1>7, <2>2 DEF PayloadLengths
    <2>5. /\ header' = f
          /\ \/ Size(f) - HeaderSize = 0 /\ Return(f, <<>>)
             \/ /\ Size(f) - HeaderSize # 0 /\ part' = "payload"
                /\ length' = Size(f) - HeaderSize /\ buffer' = <<>> /\ UNCHANGED received
      <3>1. /\ header' = g
            /\ \E m \in PayloadLengths(units) :
                 IF m = 0 THEN Return(g, <<>>)
                 ELSE part' = "payload" /\ length' = m /\ buffer' = <<>> /\ UNCHANGED received
        BY <1>15, <2>3 DEF readHeader
      <3> HIDE DEF g
      <3> QED
        BY <2>1, <2>4, <3>1
    <2>6. CASE Size(f) - HeaderSize = 0 /\ Return(f, <<>>)
      <3>1. <<>> = Payload(f)
        <4>1. <<>> \in Seq(Units) /\ Len(<<>>) = 0
          BY EmptySeq
        <4>2. Payload(f) \in Seq(Units) /\ Len(Payload(f)) = 0
          BY <2>6, PayloadSeq
        <4> QED
          BY <4>2, EmptySeq
      <3>2. Begun(Len(received) + 1, f, Size(f))
        BY <1>3, <1>6, <1>7, <2>2, <2>6
      <3>3. received' = Append(received, [frame |-> f, payload |-> <<>>]) /\ Restart
        BY <1>0, <2>6 DEF Return
      <3>4. Returned'
        BY <1>2, <3>1, <3>2, <3>3, ReturnedNext
      <3>5. Len(received') = r
        <4>1. [frame |-> f, payload |-> <<>>] \in [frame : Frames, payload : Seq(Units)]
          BY <3>1, PayloadSeq
        <4> DEFINE q == [frame |-> f, payload |-> <<>>]
        <4>2. received' = Append(received, q)
          BY <3>3
        <4> HIDE DEF q
        <4> QED
          BY <1>3, <4>1, <4>2, BufferSeq, AppendProperties DEF q
      <3>6. Partial' /\ ReadPlace' = [frame |-> r + 1, off |-> 0]
        BY <1>3, <3>3, <3>5, ReturnPlace
      <3> QED
        BY <1>7, <1>9, <1>13, <2>2, <2>6, <3>4, <3>6
    <2>7. CASE /\ Size(f) - HeaderSize # 0 /\ part' = "payload"
               /\ length' = Size(f) - HeaderSize /\ buffer' = <<>> /\ UNCHANGED received
      <3>1. Returned'
        BY <1>2, <2>7 DEF WireInv, Returned, SendsKept
      <3>2. Len(buffer') = 0 /\ Taken' = HeaderSize
        BY <2>7, EmptySeq DEF Taken
      <3>3. ReadPlace' = [frame |-> r, off |-> HeaderSize]
        BY <1>3, <1>7, <2>7, <3>2 DEF ReadPlace
      <3>4. Begun(r, f, HeaderSize)'
        BY <1>2, <1>6, <1>7, <2>2, BegunKept
      <3>5. Partial'
        BY <1>3, <2>5, <2>7, <3>2, <3>4 DEF Partial
      <3> QED
        BY <1>7, <1>9, <1>13, <2>2, <2>7, <3>1, <3>3, <3>5
    <2> QED
      BY <2>5, <2>6, <2>7
  <1>16. CASE Len(units) = length /\ part = "payload" /\ Return(header, units) /\ UNCHANGED header
    <2>1. /\ f = header /\ n = Size(f) - HeaderSize /\ a = HeaderSize /\ a + n = Size(f)
      BY <1>3, <1>4, <1>7, <1>10, <1>16
    <2>2. units = Payload(f)
      <3>1. OneAmid
        BY DEF WireInv
      <3>2. Begun(r, f, Size(f))
        BY <1>6, <2>1
      <3>3. \A k \in 1 .. Len(units) : UnitAt([frame |-> r, off |-> HeaderSize + k - 1], units[k])
        BY <1>3, <1>5, <2>1
      <3> QED
        BY <1>1, <1>3, <1>4, <1>7, <2>1, <3>1, <3>2, <3>3, PayloadRead
    <2>3. Begun(Len(received) + 1, f, Size(f))
      BY <1>3, <1>6, <2>1
    <2>4. received' = Append(received, [frame |-> f, payload |-> units]) /\ Restart
      BY <1>0, <1>16, <2>1 DEF Return
    <2>5. Returned'
      BY <1>2, <2>2, <2>3, <2>4, ReturnedNext
    <2>6. Len(received') = r
      <3> DEFINE q == [frame |-> f, payload |-> units]
      <3>1. q \in [frame : Frames, payload : Seq(Units)] /\ received' = Append(received, q)
        BY <1>1, <2>4
      <3> HIDE DEF q
      <3> QED
        BY <1>3, <3>1, BufferSeq, AppendProperties
    <2>7. Partial' /\ ReadPlace' = [frame |-> r + 1, off |-> 0]
      BY <1>3, <2>4, <2>6, ReturnPlace
    <2> QED
      BY <1>9, <1>13, <2>1, <2>5, <2>7
  <1> QED
    BY <1>1, <1>14, <1>15, <1>16

-----------------------------------------------------------------------------
(* The theorem *)

WireSafe == faults = {} => WireInv

LEMMA WireInit == Init => WireInv
  <1> SUFFICES ASSUME Init PROVE WireInv
    OBVIOUS
  <1>1. /\ stream = <<>> /\ written = <<>> /\ received = <<>> /\ buffer = <<>> /\ part = "header"
        /\ Len(<<>>) = 0
    BY EmptySeq DEF Init
  <1>2. ASSUME NEW t \in Threads PROVE ~Amid(t)
    BY DEF Init, Amid, Busy, Idle
  <1>3. OneAmid
    BY <1>2 DEF OneAmid
  <1>4. ReadPlace = [frame |-> 1, off |-> 0]
    BY <1>1, Sizes DEF ReadPlace, Taken
  <1>5. Pipe
    <2> DEFINE at == [k \in 1 .. Len(stream) + 1 |-> ReadPlace]
    <2>1. at \in [1 .. Len(stream) + 1 -> Places] /\ at[1] = ReadPlace
      BY <1>1, <1>4 DEF Places
    <2>2. Len(stream) = 0 /\ Len(written) = 0
      BY <1>1
    <2> HIDE DEF at
    <2>3. WritePlace(at[Len(stream) + 1])
      BY <1>2, <1>4, <2>1, <2>2 DEF WritePlace
    <2> QED
      BY <2>1, <2>2, <2>3 DEF Pipe, Route
  <1>6. Partial
    BY <1>1 DEF Partial
  <1>7. Returned
    BY <1>1 DEF Returned
  <1> QED
    BY <1>3, <1>5, <1>6, <1>7 DEF WireInv

LEMMA WireNext == TypeInv /\ WireSafe /\ [Next]_vars => WireSafe'
  <1> SUFFICES ASSUME TypeInv, WireSafe, [Next]_vars, faults' = {} PROVE WireInv'
    BY DEF WireSafe
  <1>1. ASSUME NEW t \in Threads, NEW kind \in Kinds, start(t, kind) PROVE WireInv'
    <2>1. PICK s : s.off = 0 /\ sending' = [sending EXCEPT ![t] = s]
      BY <1>1, Starts
    <2>2. /\ ~Amid(t) /\ written' = written /\ faults = {}
          /\ UNCHANGED <<stream, receiver>>
      BY <1>1 DEF start, Amid
    <2>3. SendsKept
      BY <2>1, <2>2, Undisturbed
    <2> QED
      BY <2>2, <2>3, WireKept DEF WireSafe
  <1>2. ASSUME NEW t \in Threads, write(t) PROVE WireInv'
    <2>1. faults = {}
      BY <1>2 DEF write
    <2> QED
      BY <1>2, <2>1, WireWrite DEF WireSafe
  <1>3. ASSUME NEW t \in Threads, timeout(t) \/ short(t) PROVE WireInv'
    <2>1. PICK s : (s.state = "busy" => s.off = 0) /\ EndTry(t, s)
      BY <1>3, TryEnds
    <2>2. ~(sending[t].off > 0) /\ faults = {}
      BY <2>1 DEF EndTry
    <2>3. /\ ~Amid(t) /\ written' = written /\ sending' = [sending EXCEPT ![t] = s]
          /\ UNCHANGED <<stream, receiver>>
      BY <2>1, <2>2 DEF EndTry, Amid
    <2>4. SendsKept
      BY <2>1, <2>3, Undisturbed
    <2> QED
      BY <2>2, <2>3, <2>4, WireKept DEF WireSafe
  <1>4. CASE read
    <2>1. faults = {}
      BY <1>4 DEF read
    <2> QED
      BY <1>4, <2>1, WireRead DEF WireSafe
  <1>5. CASE recvTimeout
    BY <1>5 DEF recvTimeout
  <1>6. CASE UNCHANGED vars
    <2>1. SendsKept /\ UNCHANGED <<stream, receiver>> /\ faults = {}
      BY <1>6 DEF vars, sender, SendsKept, Amid, Busy
    <2> QED
      BY <2>1, WireKept DEF WireSafe
  <1>7. CASE breakNetworkOperation
    <2>1. SendsKept /\ UNCHANGED <<stream, receiver>> /\ faults = {}
      BY <1>7 DEF breakNetworkOperation, SendsKept, Amid, Busy
    <2> QED
      BY <2>1, WireKept DEF WireSafe
  <1> QED
    BY <1>1, <1>2, <1>3, <1>4, <1>5, <1>6, <1>7 DEF Next, Send

\* As long as no try ended with a part of a frame written or read and no two threads
\* wrote at once, the units under way are those between the receiver's place and the
\* sender's, in order, and what was returned is what was written.
THEOREM Invariant == Spec => []WireSafe
  <1>1. Init => WireSafe
    BY WireInit DEF WireSafe
  <1> QED
    BY <1>1, WireNext, Types, PTL DEF Spec

\* The frames received are those sent, in the order in which they were written, each
\* whole and once, as long as that holds.
THEOREM FramesTheorem == Spec => []FramesArrive
  <1>1. TypeInv /\ WireSafe => FramesArrive
    BY BufferSeq, LenProperties DEF WireSafe, WireInv, Returned, FramesArrive
  <1> QED
    BY <1>1, Invariant, Types, PTL
=============================================================================
