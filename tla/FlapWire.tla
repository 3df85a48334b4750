------------------------------ MODULE FlapWire ------------------------------
(***************************************************************************)
(* FLAP frames over a TCP connection: threads that send, each frame in two *)
(* t_send calls that may write a part and time out, and the one thread     *)
(* that receives, each frame in two t_recv calls that may read a part and  *)
(* time out.  A unit stands for some bytes of a frame; the first one holds *)
(* the '*', the last one of the header the length.                         *)
(***************************************************************************)
EXTENDS Naturals, Sequences, SequencesExt

CONSTANTS
  Threads,      \* threads that send
  HeaderSize,   \* units of a header
  PayloadSize,  \* units of the payload of a data frame; a keep-alive has none
  Capacity,     \* units the connection takes before a send must wait
  MaxTries,     \* tries of a keep-alive (14 in the code), a sign-on (500) and a
                \* sign-off (300); a data frame is tried without end
  MaxFrames     \* bound: frames sent

ASSUME FlapWireAssumption ==
  /\ HeaderSize \in Nat \ {0, 1} /\ PayloadSize \in Nat
  /\ Capacity \in Nat \ {0} /\ MaxTries \in Nat \ {0} /\ MaxFrames \in Nat

VARIABLES
  nextFrame,         \* which frame is sent next: its identity, not its seq_number,
                     \* which is counted without a lock and read by nobody here
  network_break_flag,
  sending,           \* what each thread sends, and how much of it is written
  stream,            \* the units under way
  part,              \* what the receiver reads: a "header" or a "payload"
  length,            \* how long that is
  buffer,            \* what it has of it
  header,            \* the header it has read last
  written,           \* history: the frames written whole, in this order
  received,          \* history: the frames recv_from has returned before any fault
  faults             \* history: see below

sender   == <<nextFrame, network_break_flag, sending, written>>
receiver == <<part, length, buffer, header, received>>
vars     == <<sender, stream, receiver, faults>>

\* A sign-off goes the way of a sign-on.
Kinds == {"data", "signon", "keepalive"}

Frames == [nr : Nat, kind : Kinds]
Units  == [nr : Nat, kind : Kinds, pos : Nat \ {0}]

\* Outcomes of a send: in progress, the result 1, any other result.
States == {"idle", "busy", "sent", "failed"}

\* "torn"   a try to send has ended with a part of the frame written
\* "mixed"  a unit was written while another thread had a part of its frame written
\* "lost"   a try to receive has ended with a part of a frame read
Faults == {"torn", "mixed", "lost"}

Size(f) == HeaderSize + (IF f.kind = "keepalive" THEN 0 ELSE PayloadSize)

Idle == [state |-> "idle", frame |-> [nr |-> 0, kind |-> "data"], off |-> 0, tries |-> 0]

-----------------------------------------------------------------------------
Init ==
  /\ nextFrame = 1 /\ network_break_flag = FALSE
  /\ sending = [t \in Threads |-> Idle]
  /\ stream = <<>>
  /\ part = "header" /\ length = HeaderSize /\ buffer = <<>>
  /\ header = [nr |-> 0, kind |-> "data"]
  /\ written = <<>> /\ received = <<>>
  /\ faults = {}

-----------------------------------------------------------------------------
(* Sending *)

Busy(t) == sending[t].state = "busy"
Amid(t) == Busy(t) /\ sending[t].off > 0

\* breakNetworkOperation, which the GUI calls.
breakNetworkOperation ==
  /\ network_break_flag' = TRUE
  /\ UNCHANGED <<nextFrame, sending, written, stream, receiver, faults>>

\* sendSNAC, sendKeepAlive and sendSignOn0, up to the first try: all but a
\* sign-on take a raised break flag down and give up.
start(t, kind) ==
  LET broken == network_break_flag /\ kind # "signon" IN
  /\ ~Busy(t) /\ nextFrame <= MaxFrames
  /\ nextFrame' = nextFrame + 1
  /\ sending' = [sending EXCEPT ![t] =
       [state |-> IF broken THEN "failed" ELSE "busy",
        frame |-> [nr |-> nextFrame, kind |-> kind], off |-> 0, tries |-> 1]]
  /\ network_break_flag' = (network_break_flag /\ ~broken)
  /\ UNCHANGED <<written, stream, receiver, faults>>

\* t_send writes as much as the connection takes.
write(t) ==
  LET s == sending[t]
      done == s.off + 1 = Size(s.frame)
  IN
  /\ Busy(t) /\ Len(stream) < Capacity
  /\ stream' = Append(stream, [nr |-> s.frame.nr, kind |-> s.frame.kind, pos |-> s.off + 1])
  /\ sending' = [sending EXCEPT ![t].off = s.off + 1, ![t].state = IF done THEN "sent" ELSE "busy"]
  /\ written' = IF done THEN Append(written, s.frame) ELSE written
  /\ faults' = IF \E u \in Threads \ {t} : Amid(u) THEN faults \cup {"mixed"} ELSE faults
  /\ UNCHANGED <<nextFrame, network_break_flag, receiver>>

\* The try ends with the frame as far as it is; what has been written stays.
EndTry(t, next) ==
  /\ sending' = [sending EXCEPT ![t] = next]
  /\ faults' = IF sending[t].off > 0 THEN faults \cup {"torn"} ELSE faults
  /\ UNCHANGED <<nextFrame, written, stream, receiver>>

Ended(t, state) == [sending[t] EXCEPT !.state = state, !.off = 0, !.tries = 0]

\* Mutant: the tries are not counted.
Again_NoCount(t) == [sending[t] EXCEPT !.off = 0]

\* The frame is sent from its first byte again; the tries of a data frame are
\* not counted.
Again(t) ==
  [sending[t] EXCEPT !.off = 0, !.tries = IF sending[t].frame.kind = "data" THEN @ ELSE @ + 1]

\* The tries are used up: a keep-alive counts as sent.
LastTry(t) == sending[t].frame.kind # "data" /\ sending[t].tries = MaxTries

\* select has waited in vain: TNETWORK_TIMEOUT.  After the last try the send is
\* over; else all but a sign-on look at the break flag before they try again.
\* (network_timeout stays -1 and limits nothing.)
timeout(t) ==
  LET kind == sending[t].frame.kind
      broken == network_break_flag /\ kind # "signon"
  IN
  /\ Busy(t) /\ Len(stream) = Capacity
  /\ \/ /\ LastTry(t)
        /\ EndTry(t, Ended(t, IF kind = "keepalive" THEN "sent" ELSE "failed"))
        /\ UNCHANGED network_break_flag
     \/ /\ ~LastTry(t) /\ broken
        /\ EndTry(t, Ended(t, "failed"))
        /\ network_break_flag' = FALSE
     \/ /\ ~LastTry(t) /\ ~broken
        /\ EndTry(t, Again(t))
        /\ UNCHANGED network_break_flag

\* The time is used up after something was written, or the connection is gone.
\* send_to fails with the number written or an error, which is returned as it is: one
\* byte looks like the result 1.
short(t) ==
  LET off == sending[t].off
      count == IF off < HeaderSize THEN off ELSE off - HeaderSize
  IN
  /\ Busy(t)
  /\ \/ EndTry(t, Ended(t, "failed"))
     \/ count = 1 /\ EndTry(t, Ended(t, "sent"))
  /\ UNCHANGED network_break_flag

-----------------------------------------------------------------------------
(* Receiving *)

\* Mutant: the next header is read with the length of the last payload.
Restart_KeepsLength ==
  /\ part' = "header" /\ buffer' = <<>> /\ UNCHANGED length

Restart ==
  /\ part' = "header" /\ length' = HeaderSize /\ buffer' = <<>>

Return(f, payload) ==
  /\ received' = IF faults = {} THEN Append(received, [frame |-> f, payload |-> payload])
                                ELSE received
  /\ Restart

\* Mutant: the payload is read as long as the header says, its own length included.
PayloadLengths_WithHeader(units) ==
  IF Last(units).pos = HeaderSize THEN {Size(Last(units))} ELSE 0 .. PayloadSize

\* The length is where the header has it; in other units it can be anything.
PayloadLengths(units) ==
  IF Last(units).pos = HeaderSize THEN {Size(Last(units)) - HeaderSize} ELSE 0 .. PayloadSize

\* recv_from has its six bytes: without a '*' they are dropped.  A byte of a
\* payload may be one.
readHeader(units) ==
  \/ /\ Head(units).pos \in {1} \cup HeaderSize + 1 .. HeaderSize + PayloadSize
     /\ LET f == [nr |-> Last(units).nr, kind |-> Last(units).kind] IN
        /\ header' = f
        /\ \E n \in PayloadLengths(units) :
             IF n = 0 THEN Return(f, <<>>)
             ELSE part' = "payload" /\ length' = n /\ buffer' = <<>> /\ UNCHANGED received
  \/ /\ Head(units).pos # 1
     /\ Restart
     /\ UNCHANGED <<header, received>>

read ==
  /\ stream # <<>>
  /\ stream' = Tail(stream)
  /\ LET units == Append(buffer, Head(stream)) IN
     IF Len(units) < length
     THEN buffer' = units /\ UNCHANGED <<part, length, header, received>>
     ELSE IF part = "header" THEN readHeader(units)
     ELSE Return(header, units) /\ UNCHANGED header
  /\ UNCHANGED <<sender, faults>>

\* A t_recv ends without all it was asked for, and recv_from starts anew.
recvTimeout ==
  /\ part = "payload" \/ buffer # <<>>
  /\ Restart
  /\ faults' = faults \cup {"lost"}
  /\ UNCHANGED <<sender, stream, header, received>>

-----------------------------------------------------------------------------
Send(t) == write(t) \/ timeout(t) \/ short(t)

Next ==
  \/ \E t \in Threads : Send(t) \/ \E kind \in Kinds : start(t, kind)
  \/ breakNetworkOperation
  \/ read \/ recvTimeout

Spec == Init /\ [][Next]_vars

\* A thread in a send goes on with it: it writes when the connection takes
\* something, and select ends when it does not.  Nothing else is fair: the
\* server need not read, and the connection need not break.
FairSpec == Spec /\ \A t \in Threads : WF_vars(write(t) \/ timeout(t))
-----------------------------------------------------------------------------
(* Properties *)

\* The values the variables may have; a read part is never longer than asked for.
TypeOK ==
  /\ nextFrame \in 1 .. MaxFrames + 1 /\ network_break_flag \in BOOLEAN
  /\ \A t \in Threads :
       /\ sending[t].state \in States /\ sending[t].frame \in Frames
       /\ sending[t].off \in 0 .. Size(sending[t].frame)
       /\ sending[t].tries \in 0 .. MaxTries
  /\ stream \in Seq(Units) /\ Len(stream) <= Capacity
  /\ part \in {"header", "payload"}
  /\ part = "header" => length = HeaderSize
  /\ length \in Nat \ {0} /\ buffer \in Seq(Units) /\ Len(buffer) < length
  /\ header \in Frames
  /\ written \in Seq(Frames)
  /\ received \in Seq([frame : Frames, payload : Seq(Units)])
  /\ faults \subseteq Faults

Payload(f) ==
  [i \in 1 .. Size(f) - HeaderSize |-> [nr |-> f.nr, kind |-> f.kind, pos |-> HeaderSize + i]]

\* The frames received are those sent, in the order in which they were written,
\* each whole and once, as long as no try ended with a part of a frame written or
\* read and no two threads wrote at once: time-outs before the first byte, and
\* any number of them, do no harm.
FramesArrive ==
  faults = {} =>
    /\ Len(received) <= Len(written)
    /\ \A i \in DOMAIN received :
         received[i] = [frame |-> written[i], payload |-> Payload(written[i])]

Data(t) == sending[t].frame.kind = "data"

Breaks(t) == Busy(t) /\ sending[t].frame.kind # "signon" /\ network_break_flag

\* Though the server may never read again: a keep-alive and a sign-on end, after
\* their tries; and a raised break flag ends the send of a data frame, which
\* otherwise may go on for ever, or has ended that of another thread, which takes
\* the flag down.
SendEnds ==
  \A t \in Threads :
    /\ Busy(t) /\ ~Data(t) ~> ~Busy(t)
    /\ Breaks(t) ~> ~Breaks(t)
=============================================================================
