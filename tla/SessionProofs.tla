--------------------------- MODULE SessionProofs ---------------------------
(***************************************************************************)
(* Theorems about Session for any number of attempts.                      *)
(***************************************************************************)
EXTENDS Session, SequenceTheorems, FiniteSetTheorems, TLAPS

-----------------------------------------------------------------------------
(* The script *)

LEMMA ScriptIs ==
  /\ Len(Script) = 18
  /\ Script[1] = "begin" /\ Script[2] = "connect" /\ Script[3] = "hello" /\ Script[4] = "send"
  /\ Script[5] = "spawn" /\ Script[6] = "wait" /\ Script[7] = "signOff"
  /\ Script[8] = "connect" /\ Script[9] = "hello" /\ Script[10] = "spawn" /\ Script[11] = "signOn"
  /\ Script[12] = "wait" /\ Script[13] = "send"
  /\ Script[14] = "restore" /\ Script[15] = "announce" /\ Script[16] = "emit"
  /\ Script[17] = "offline" /\ Script[18] = "mainLoop"
  BY SMTT(60) DEF Script, Phase1, Phase2, Phase3, Online

LEMMA Ends == LastCheck = 13 /\ MainLoop = 18 /\ Report = 19 /\ Over = 20
  <1>1. Len(Online) = 5
    BY DEF Online
  <1> QED
  BY <1>1, ScriptIs DEF LastCheck, MainLoop, Report, Over

\* Where an attempt is when it does what.
LEMMA Places ==
  ASSUME TypeOK, NEW a \in Attempts
  PROVE  /\ at[a] \in 0..20
         /\ Running(a) <=> at[a] \in 1..19
         /\ Doing(a, "begin") <=> at[a] = 1
         /\ Doing(a, "connect") <=> at[a] \in {2, 8}
         /\ Doing(a, "hello") <=> at[a] \in {3, 9}
         /\ Doing(a, "send") <=> at[a] \in {4, 13}
         /\ Doing(a, "spawn") <=> at[a] \in {5, 10}
         /\ Doing(a, "wait") <=> at[a] \in {6, 12}
         /\ Doing(a, "signOff") <=> at[a] = 7
         /\ Doing(a, "signOn") <=> at[a] = 11
         /\ Doing(a, "restore") <=> at[a] = 14
         /\ Doing(a, "announce") <=> at[a] = 15
         /\ Doing(a, "emit") <=> at[a] = 16
         /\ Doing(a, "offline") <=> at[a] = 17
         /\ Doing(a, "mainLoop") <=> at[a] = 18
  <1>1. at[a] \in 0..20
    BY Ends DEF TypeOK
  <1>2. Running(a) <=> at[a] \in 1..19
    BY <1>1, Ends DEF Running
  <1> QED
    BY <1>1, <1>2, ScriptIs DEF Doing

-----------------------------------------------------------------------------
(* Type correctness, in three parts *)

AtOK == at \in [Attempts -> 0 .. Over]

WireOK == opened \in Nat /\ open \subseteq 1 .. opened /\ sock \in open \cup {0}

RestOK ==
  /\ network_break_flag \in BOOLEAN
  /\ readers \subseteq Readers /\ threadWaitSNAC \in Readers \cup {NoReader}
  /\ keepers \subseteq Attempts /\ keepConnect \in Attempts \cup {0}
  /\ connected \in BOOLEAN
  /\ dialog \in BOOLEAN /\ menu \in {"online", "offline"} /\ messages \in Seq(BOOLEAN)
  /\ cancelled \subseteq Attempts /\ faults \subseteq Faults

LEMMA TypeParts == TypeOK <=> AtOK /\ WireOK /\ RestOK
  BY DEF TypeOK, AtOK, WireOK, RestOK

LEMMA TypePartsNext == AtOK' /\ WireOK' /\ RestOK' => TypeOK'
  BY DEF TypeOK, AtOK, WireOK, RestOK

LEMMA NoMessages == <<>> \in Seq(BOOLEAN)
  OBVIOUS

LEMMA TypeInit == Init => TypeOK
  <1> SUFFICES ASSUME Init PROVE TypeOK
    OBVIOUS
  <1>1. AtOK
    BY Ends DEF Init, AtOK
  <1>2. WireOK
    BY DEF Init, WireOK
  <1>3. RestOK
    BY NoMessages DEF Init, RestOK
  <1> QED
    BY <1>1, <1>2, <1>3, TypeParts

LEMMA TypeCrash == ASSUME TypeOK, Crash PROVE TypeOK'
  <1>1. AtOK'
    BY Ends DEF TypeOK, Crash, AtOK
  <1>2. WireOK'
    BY DEF TypeOK, Crash, WireOK
  <1>3. RestOK'
    BY NoMessages DEF Crash, RestOK
  <1> QED
    BY <1>1, <1>2, <1>3, TypePartsNext

\* An attempt goes on.
LEMMA AtGo ==
  ASSUME TypeOK, NEW a \in Attempts, NEW to \in 0..20, Go(a, to)
  PROVE  AtOK' /\ at'[a] = to /\ \A b \in Attempts \ {a} : at'[b] = at[b]
  BY Ends DEF TypeOK, AtOK, Go

LEMMA AtSucceed ==
  ASSUME TypeOK, NEW a \in Attempts, at[a] \in 1..18, Succeed(a)
  PROVE  AtOK' /\ at'[a] = at[a] + 1 /\ \A b \in Attempts \ {a} : at'[b] = at[b]
  BY AtGo DEF Succeed

\* A connection is closed, or nothing is done to it.
LEMMA WireClose ==
  ASSUME TypeOK, Close, UNCHANGED opened
  PROVE  WireOK' /\ sock' = 0 /\ open' = open \ {sock}
  BY DEF TypeOK, Close, WireOK

LEMMA WireSame == ASSUME TypeOK, UNCHANGED wire PROVE WireOK'
  BY DEF TypeOK, wire, WireOK

LEMMA AtSame == ASSUME TypeOK, UNCHANGED at PROVE AtOK'
  BY DEF TypeOK, AtOK

LEMMA AtFail ==
  ASSUME TypeOK, NEW a \in Attempts, Fail(a)
  PROVE  /\ AtOK' /\ at'[a] = 19 /\ \A b \in Attempts \ {a} : at'[b] = at[b]
         /\ WireOK' /\ sock' = 0 /\ open' = open \ {sock}
  BY AtGo, WireClose, Ends DEF Fail

LEMMA MessagesTyped ==
  ASSUME TypeOK, NEW online \in BOOLEAN, onConnectChange(online)
  PROVE  messages' \in Seq(BOOLEAN)
  BY DEF TypeOK, onConnectChange

LEMMA TypeNext == TypeOK /\ [Next]_vars => TypeOK'
  <1> SUFFICES ASSUME TypeOK, [Next]_vars PROVE TypeOK'
    OBVIOUS
  <1>1. ASSUME NEW a \in Attempts, begin(a) PROVE TypeOK'
    <2>1. at[a] \in 1..18
      BY <1>1, Places DEF begin
    <2>2. AtOK' /\ WireOK'
      BY <1>1, <2>1, AtSucceed, WireSame DEF begin, wire
    <2>3. RestOK'
      BY <1>1 DEF TypeOK, RestOK, begin, wire, threads, gui, Faults
    <2> QED
      BY <2>2, <2>3, TypePartsNext
  <1>2. ASSUME NEW a \in Attempts, directConnect(a) PROVE TypeOK'
    <2>1. at[a] \in 1..18
      BY <1>2, Places DEF directConnect
    <2>2. AtOK'
      BY <1>2, <2>1, AtSucceed, AtGo, Ends DEF directConnect
    <2>3. WireOK'
      <3>1. CASE opened' = opened + 1 /\ sock' = opened' /\ open' = open \cup {opened'}
        BY <3>1 DEF TypeOK, WireOK
      <3>2. CASE sock' = 0 /\ UNCHANGED <<open, opened>>
        BY <3>2 DEF TypeOK, WireOK
      <3> QED
        BY <1>2, <3>1, <3>2 DEF directConnect
    <2>4. RestOK'
      BY <1>2 DEF directConnect, TypeOK, RestOK, threads, gui, history
    <2> QED
      BY <2>2, <2>3, <2>4, TypePartsNext
  <1>3. ASSUME NEW a \in Attempts, waitHello(a) PROVE TypeOK'
    <2>1. at[a] \in 1..18
      BY <1>3, Places DEF waitHello
    <2>2. AtOK' /\ WireOK'
      BY <1>3, <2>1, AtSucceed, AtFail, WireSame DEF waitHello, Exchange
    <2>3. RestOK'
      BY <1>3 DEF TypeOK, RestOK, waitHello, Exchange, Fail, threads, gui, history
    <2> QED
      BY <2>2, <2>3, TypePartsNext
  <1>4. ASSUME NEW a \in Attempts, sendSignOn(a) PROVE TypeOK'
    <2>1. at[a] \in 1..18
      BY <1>4, Places DEF sendSignOn
    <2>2. AtOK' /\ WireOK'
      BY <1>4, <2>1, AtSucceed, AtFail, WireSame DEF sendSignOn, Exchange
    <2>3. RestOK'
      BY <1>4 DEF TypeOK, RestOK, sendSignOn, Exchange, Fail, threads, gui, history
    <2> QED
      BY <2>2, <2>3, TypePartsNext
  <1>5. ASSUME NEW a \in Attempts, sendSNAC(a) PROVE TypeOK'
    <2>1. at[a] \in 1..18
      BY <1>5, Places DEF sendSNAC
    <2>2. AtOK' /\ WireOK'
      BY <1>5, <2>1, AtSucceed, AtFail, WireSame DEF sendSNAC
    <2>3. RestOK'
      BY <1>5 DEF TypeOK, RestOK, sendSNAC, Fail, threads, gui, history
    <2> QED
      BY <2>2, <2>3, TypePartsNext
  <1>6. ASSUME NEW a \in Attempts, waitSNAC(a) PROVE TypeOK'
    <2>1. at[a] \in 1..18
      BY <1>6, Places DEF waitSNAC
    <2>2. AtOK' /\ WireOK'
      BY <1>6, <2>1, AtSucceed, AtFail, WireSame DEF waitSNAC
    <2>3. RestOK'
      BY <1>6 DEF TypeOK, RestOK, waitSNAC, Fail, threads, gui, history
    <2> QED
      BY <2>2, <2>3, TypePartsNext
  <1>7. ASSUME NEW a \in Attempts, startReadSNAC(a) PROVE TypeOK'
    <2>1. at[a] \in 1..18
      BY <1>7, Places DEF startReadSNAC
    <2>2. AtOK' /\ WireOK'
      BY <1>7, <2>1, AtSucceed, WireSame DEF startReadSNAC, wire
    <2>3. RestOK'
      BY <1>7, <2>1, ScriptIs, SMTT(60) DEF TypeOK, RestOK, startReadSNAC, Readers, gui, history
    <2> QED
      BY <2>2, <2>3, TypePartsNext
  <1>8. ASSUME NEW a \in Attempts, sendSignOff(a) PROVE TypeOK'
    <2>1. CASE Crash
      BY <2>1, TypeCrash
    <2>2. CASE ~Crash
      <3>1. at[a] \in 1..18
        BY <1>8, Places DEF sendSignOff
      <3>2. AtOK' /\ WireOK'
        BY <1>8, <2>2, <3>1, AtSucceed, WireClose DEF sendSignOff
      <3>3. RestOK'
        BY <1>8, <2>2 DEF sendSignOff, TypeOK, RestOK, gui, history
      <3> QED
        BY <3>2, <3>3, TypePartsNext
    <2> QED
      BY <2>1, <2>2
  <1>9. ASSUME NEW a \in Attempts, restore(a) PROVE TypeOK'
    <2>1. at[a] \in 1..18
      BY <1>9, Places DEF restore
    <2>2. AtOK' /\ WireOK'
      BY <1>9, <2>1, AtSucceed, WireSame DEF restore, wire
    <2>3. RestOK'
      BY <1>9 DEF TypeOK, RestOK, restore, threads, gui, history
    <2> QED
      BY <2>2, <2>3, TypePartsNext
  <1>10. ASSUME NEW a \in Attempts, announce(a) PROVE TypeOK'
    <2>1. at[a] \in 1..18
      BY <1>10, Places DEF announce
    <2>2. AtOK' /\ WireOK'
      BY <1>10, <2>1, AtSucceed, WireSame DEF announce, wire
    <2>3. RestOK'
      BY <1>10 DEF TypeOK, RestOK, announce, threads, gui, history
    <2> QED
      BY <2>2, <2>3, TypePartsNext
  <1>11. ASSUME NEW a \in Attempts, emitConnected(a) PROVE TypeOK'
    <2>1. at[a] \in 1..18
      BY <1>11, Places DEF emitConnected
    <2>2. AtOK' /\ WireOK'
      BY <1>11, <2>1, AtSucceed, WireSame DEF emitConnected, wire
    <2>3. RestOK'
      BY <1>11, MessagesTyped DEF TypeOK, RestOK, emitConnected, threads, history
    <2> QED
      BY <2>2, <2>3, TypePartsNext
  <1>12. ASSUME NEW a \in Attempts, getOfflineMessages(a) PROVE TypeOK'
    <2>1. at[a] \in 1..18
      BY <1>12, Places DEF getOfflineMessages
    <2>2. AtOK' /\ WireOK'
      BY <1>12, <2>1, AtSucceed, WireSame DEF getOfflineMessages, wire
    <2>3. RestOK'
      BY <1>12 DEF TypeOK, RestOK, getOfflineMessages, threads, gui, history
    <2> QED
      BY <2>2, <2>3, TypePartsNext
  <1>13. ASSUME NEW a \in Attempts, mainLoop(a) PROVE TypeOK'
    <2>1. at[a] \in 1..18
      BY <1>13, Places DEF mainLoop
    <2>2. AtOK' /\ WireOK'
      BY <1>13, <2>1, AtGo, WireSame, Ends DEF mainLoop, wire
    <2>3. RestOK'
      BY <1>13 DEF TypeOK, RestOK, mainLoop, gui, history
    <2> QED
      BY <2>2, <2>3, TypePartsNext
  <1>14. ASSUME NEW a \in Attempts, reportFailure(a) PROVE TypeOK'
    <2>1. CASE Crash
      BY <2>1, TypeCrash
    <2>2. CASE ~Crash
      <3>1. AtOK'
        <4>1. Go(a, 20)
          BY <1>14, <2>2, Ends DEF reportFailure
        <4> QED
          BY <4>1, AtGo
      <3>2. WireOK'
        BY <1>14, <2>2, WireClose, WireSame DEF reportFailure, doDisconnect
      <3>3. RestOK'
        BY <1>14, <2>2, MessagesTyped
           DEF reportFailure, doDisconnect, TypeOK, RestOK, wire, threads, history
      <3> QED
        BY <3>1, <3>2, <3>3, TypePartsNext
    <2> QED
      BY <2>1, <2>2
  <1>15. ASSUME NEW r \in readers, readerBreaks(r) PROVE TypeOK'
    <2>1. AtOK' /\ WireOK'
      BY <1>15, AtSame, WireSame DEF readerBreaks
    <2>2. RestOK'
      BY <1>15 DEF TypeOK, RestOK, readerBreaks, gui, history
    <2> QED
      BY <2>1, <2>2, TypePartsNext
  <1>16. ASSUME NEW r \in readers, singOff(r) PROVE TypeOK'
    <2>1. AtOK' /\ WireOK'
      BY <1>16, AtSame, WireSame DEF singOff
    <2>2. RestOK'
      BY <1>16 DEF TypeOK, RestOK, singOff, gui, Faults
    <2> QED
      BY <2>1, <2>2, TypePartsNext
  <1>17. ASSUME NEW k \in keepers, keeperBreaks(k) PROVE TypeOK'
    <2>1. AtOK' /\ WireOK'
      BY <1>17, AtSame, WireSame DEF keeperBreaks
    <2>2. RestOK'
      BY <1>17 DEF TypeOK, RestOK, keeperBreaks, gui, history
    <2> QED
      BY <2>1, <2>2, TypePartsNext
  <1>18. ASSUME NEW k \in keepers, sendKeepAlive(k) PROVE TypeOK'
    <2>1. AtOK' /\ WireOK'
      BY <1>18, AtSame, WireSame DEF sendKeepAlive
    <2>2. RestOK'
      BY <1>18 DEF TypeOK, RestOK, sendKeepAlive, threads, gui, Faults
    <2> QED
      BY <2>1, <2>2, TypePartsNext
  <1>19. CASE menu_connect
    <2>1. AtOK' /\ WireOK'
      BY <1>19, AtGo, WireSame DEF menu_connect
    <2>2. RestOK'
      BY <1>19 DEF menu_connect, TypeOK, RestOK, threads, Faults
    <2> QED
      BY <2>1, <2>2, TypePartsNext
  <1>20. CASE Disconnect
    <2>1. CASE Crash
      BY <2>1, TypeCrash
    <2>2. CASE ~Crash
      <3>1. AtOK' /\ WireOK'
        BY <1>20, <2>2, AtSame, WireClose DEF Disconnect, doDisconnect
      <3>2. RestOK'
        BY <1>20, <2>2, MessagesTyped DEF Disconnect, doDisconnect, Late, TypeOK, RestOK, Faults
      <3> QED
        BY <3>1, <3>2, TypePartsNext
    <2> QED
      BY <2>1, <2>2
  <1>21. CASE cancellICQ
    <2>1. CASE Crash
      BY <2>1, TypeCrash
    <2>2. CASE ~Crash
      <3>1. AtOK' /\ WireOK'
        BY <1>21, <2>2, AtSame, WireClose DEF cancellICQ, doDisconnect
      <3>2. RestOK'
        BY <1>21, <2>2, MessagesTyped DEF cancellICQ, doDisconnect, Late, TypeOK, RestOK, Faults
      <3> QED
        BY <3>1, <3>2, TypePartsNext
    <2> QED
      BY <2>1, <2>2
  <1>22. CASE handleConnectChange
    <2>1. AtOK' /\ WireOK'
      BY <1>22, AtSame, WireSame DEF handleConnectChange
    <2>2. messages' \in Seq(BOOLEAN)
      <3>1. messages \in Seq(BOOLEAN) /\ messages # <<>> /\ messages' = Tail(messages)
        BY <1>22 DEF handleConnectChange, TypeOK
      <3> QED
        BY <3>1, HeadTailProperties
    <2>3. menu' \in {"online", "offline"}
      BY <1>22 DEF handleConnectChange
    <2>4. RestOK'
      BY <1>22, <2>2, <2>3 DEF handleConnectChange, TypeOK, RestOK, threads, history
    <2> QED
      BY <2>1, <2>4, TypePartsNext
  <1>23. CASE UNCHANGED vars
    BY <1>23 DEF vars, wire, threads, gui, history, TypeOK
  <1> QED
    BY <1>1, <1>2, <1>3, <1>4, <1>5, <1>6, <1>7, <1>8, <1>9, <1>10, <1>11, <1>12, <1>13, <1>14,
       <1>15, <1>16, <1>17, <1>18, <1>19, <1>20, <1>21, <1>22, <1>23
       DEF Next, Proceed

\* The types of the variables, and that the socket in use is never a closed one.
THEOREM TypeCorrect == Spec => []TypeOK
  BY TypeInit, TypeNext, PTL DEF Spec

-----------------------------------------------------------------------------
(* The inductive invariants.  The numbers are places in the script, ScriptIs. *)

Idle == \A a \in Attempts : ~Running(a)

None(fs) == \A f \in fs : f \notin faults

\* Attempts that do not overlap are one at a time.
Single ==
  None({"overlap"}) => \A a, b \in Attempts : Running(a) /\ Running(b) => a = b

\* An attempt that has not come online is at work in a state that is offline.
Offline ==
  None({"overlap"}) => \A a \in Attempts : at[a] \in 1 .. 15 \cup {19} => ~connected

\* There is one reader at most, the one whose id is known, and none at all before an
\* attempt starts its own, unless the flag that stops it is up.
OneReader ==
  None({"overlap", "taken"}) =>
    /\ readers \subseteq {threadWaitSNAC}
    /\ \A a \in Attempts :
         /\ at[a] = 1 => network_break_flag \/ readers = {}
         /\ at[a] \in {2, 3, 4, 5, 8, 9, 10} => readers = {}
         /\ at[a] \in 16 .. 18 => connected \/ readers = {}
    /\ Idle /\ ~connected => network_break_flag \/ readers = {}

\* The flag stays up until the attempt that was cancelled has met it.
FlagStays ==
  None({"early", "overlap", "taken"}) =>
    \A a \in cancelled : (at[a] \in 1 .. 13 /\ network_break_flag) \/ at[a] \in {19, 20}

\* The socket in use is the only one open, and there is none where one is opened next or
\* nothing closes it any more.
OneSocket ==
  None({"overlap"}) =>
    /\ open \subseteq {sock}
    /\ \A a \in Attempts :
         /\ at[a] \in {1, 2, 8, 19} => sock = 0
         /\ at[a] \in 16 .. 18 => connected \/ sock = 0
    /\ Idle /\ ~connected => sock = 0

\* The reader of the session reads, or the server has ended it.
Reads == readers = {threadWaitSNAC} \/ (readers = {} /\ "kicked" \in faults)

\* From its last look at the flag an attempt has the connection and the reader of the
\* session, and no keep-alive thread is left of an earlier one.
SessionLives ==
  None({"overlap", "late"}) =>
    /\ None({"taken"})
    /\ \A a \in Attempts :
         /\ Running(a) => keepers = {}
         /\ at[a] \in 11 .. 13 => network_break_flag \/ Reads
         /\ at[a] \in 14 .. 18 => ~network_break_flag /\ sock # 0 /\ Reads
         /\ at[a] \in 16 .. 18 => connected
    /\ Idle /\ ~connected => keepers = {}
    /\ Idle /\ connected => ~network_break_flag /\ sock # 0 /\ Reads /\ keepers = {keepConnect}

\* What the menu will show once the GUI has handled every message.
Told == IF messages = <<>> THEN menu = "online" ELSE messages[Len(messages)]

LastWord ==
  None({"overlap", "late"}) =>
    /\ \A a \in Attempts :
         /\ at[a] \in 1 .. 16 \cup {19} => ~Told
         /\ at[a] = 16 => connected
         /\ at[a] \in 17 .. 18 => (Told <=> connected)
    /\ Idle => (Told <=> connected)

SessionInv ==
  TypeOK /\ Single /\ Offline /\ OneReader /\ FlagStays /\ OneSocket /\ SessionLives /\ LastWord

-----------------------------------------------------------------------------
(* One step keeps the invariant *)

LEMMA RunningIs ==
  ASSUME NEW a \in Attempts
  PROVE  (Running(a) <=> at[a] \in 1..19) /\ (Running(a)' <=> at'[a] \in 1..19)
  BY Ends DEF Running

LEMMA ToldSame == UNCHANGED <<menu, messages>> => Told' = Told
  BY DEF Told

LEMMA ToldTells ==
  ASSUME TypeOK, NEW online \in BOOLEAN, onConnectChange(online)
  PROVE  Told' = online
  <1>1. /\ messages' # <<>> /\ Len(messages') = Len(messages) + 1
        /\ messages'[Len(messages) + 1] = online
    BY AppendProperties DEF TypeOK, onConnectChange
  <1> QED
    BY <1>1 DEF Told

\* What remains of a sequence ends as it did.
LEMMA LastOfTail ==
  ASSUME NEW S, NEW s \in Seq(S), s # <<>>
  PROVE  IF Tail(s) = <<>> THEN Head(s) = s[Len(s)] ELSE Tail(s)[Len(Tail(s))] = s[Len(s)]
  <1>1. /\ Len(s) \in Nat \ {0} /\ Len(Tail(s)) = Len(s) - 1 /\ Tail(s) \in Seq(S)
        /\ \A i \in 1 .. Len(Tail(s)) : Tail(s)[i] = s[i + 1]
    BY EmptySeq, HeadTailProperties
  <1>2. CASE Tail(s) = <<>>
    <2>1. Len(Tail(s)) = 0
      BY <1>2, EmptySeq
    <2>2. Len(s) \in Nat /\ Len(Tail(s)) = Len(s) - 1
      BY <1>1
    <2>3. Len(s) = 1
      BY <2>1, <2>2
    <2> QED
      BY <1>2, <2>3
  <1>3. CASE Tail(s) # <<>>
    <2>1. Len(Tail(s)) \in Nat \ {0}
      BY <1>1, <1>3, EmptySeq
    <2> QED
      BY <1>1, <1>3, <2>1
  <1> QED
    BY <1>2, <1>3

LEMMA ToldHandled ==
  ASSUME TypeOK, messages # <<>>, messages' = Tail(messages),
         menu' = IF Head(messages) THEN "online" ELSE "offline"
  PROVE  Told' = Told
  <1>1. messages \in Seq(BOOLEAN) /\ Head(messages) \in BOOLEAN
    BY HeadTailProperties DEF TypeOK
  <1>2. CASE Tail(messages) = <<>>
    <2>1. Head(messages) = messages[Len(messages)]
      BY <1>1, <1>2, LastOfTail
    <2> QED
      BY <1>1, <1>2, <2>1 DEF Told
  <1>3. CASE Tail(messages) # <<>>
    BY <1>1, <1>3, LastOfTail DEF Told
  <1> QED
    BY <1>2, <1>3

LEMMA LateIs ==
  faults \cup Late = IF \E a \in Attempts : at[a] \in 14 .. 18 THEN faults \cup {"late"} ELSE faults
  BY Ends DEF Late

LEMMA InvCrash == ASSUME SessionInv, TypeOK', Crash PROVE SessionInv'
  <1>1. /\ \A a \in Attempts : at'[a] \in {0, 20}
        /\ sock' = 0 /\ open' = {} /\ readers' = {} /\ keepers' = {} /\ ~connected'
        /\ cancelled' = {} /\ faults' = {}
    BY Ends DEF SessionInv, TypeOK, Crash
  <1>2. Single' /\ Offline'
    BY <1>1, RunningIs DEF Single, Offline
  <1>3. OneReader' /\ FlagStays' /\ OneSocket'
    BY <1>1 DEF OneReader, FlagStays, OneSocket
  <1>4. SessionLives'
    BY <1>1, RunningIs DEF SessionLives, Reads, None
  <1>5. ~Told'
    BY DEF Crash, Told
  <1>6. LastWord'
    BY <1>1, <1>5 DEF LastWord
  <1> QED
    BY <1>2, <1>3, <1>4, <1>6 DEF SessionInv

LEMMA InvNext == ASSUME SessionInv, TypeOK', Next, ~Crash PROVE SessionInv'
  <1>t. TypeOK
    BY DEF SessionInv
  <1> USE <1>t
  <1>c. cancelled \subseteq Attempts
    BY DEF TypeOK
  <1>o. 0 \notin open
    BY DEF TypeOK
  <1>1. ASSUME NEW a \in Attempts, begin(a) PROVE SessionInv'
    <2>1. /\ at[a] = 1 /\ at'[a] = at[a] + 1 /\ \A b \in Attempts \ {a} : at'[b] = at[b]
          /\ ~network_break_flag'
          /\ faults' = faults \cup (IF network_break_flag /\ readers # {} THEN {"overlap"} ELSE {})
                              \cup (IF a \in cancelled THEN {"early"} ELSE {})
          /\ UNCHANGED <<sock, open, readers, threadWaitSNAC, keepers, keepConnect,
                    connected, menu, messages, cancelled>>
      BY <1>1, Places, AtSucceed DEF begin, wire, threads, gui, history
    <2>2. Single'
      BY <2>1, RunningIs DEF SessionInv, Single, None
    <2>3. Offline'
      BY <2>1 DEF SessionInv, Offline, None
    <2>4. OneReader'
      BY <2>1 DEF SessionInv, OneReader, None
    <2>5. FlagStays'
      BY <2>1, RunningIs, <1>c DEF SessionInv, FlagStays, Single, None
    <2>6. OneSocket'
      BY <2>1 DEF SessionInv, OneSocket, None
    <2>7. SessionLives'
      BY <2>1, RunningIs DEF SessionInv, SessionLives, Reads, Single, None, Idle
    <2>8. LastWord'
      BY <2>1, RunningIs, ToldSame DEF SessionInv, LastWord, None, Idle
    <2> QED
      BY <2>2, <2>3, <2>4, <2>5, <2>6, <2>7, <2>8 DEF SessionInv
  <1>2. ASSUME NEW a \in Attempts, directConnect(a) PROVE SessionInv'
    <2>1. /\ at[a] \in {2, 8} /\ \A b \in Attempts \ {a} : at'[b] = at[b]
          /\ UNCHANGED <<network_break_flag, readers, threadWaitSNAC, keepers,
                    keepConnect, connected, menu, messages, cancelled, faults>>
          /\ \/ at'[a] = at[a] + 1 /\ sock' # 0 /\ open' = open \cup {sock'}
             \/ at'[a] = 19 /\ sock' = 0 /\ UNCHANGED open
      BY <1>2, Places, AtSucceed, AtGo, Ends DEF directConnect, TypeOK, threads, gui, history
    <2>2. Single'
      BY <2>1, RunningIs DEF SessionInv, Single, None
    <2>3. Offline'
      BY <2>1 DEF SessionInv, Offline, None
    <2>4. OneReader'
      BY <2>1 DEF SessionInv, OneReader, None
    <2>5. FlagStays'
      BY <2>1, <1>c DEF SessionInv, FlagStays, None
    <2>6. OneSocket'
      BY <2>1, RunningIs, <1>o DEF SessionInv, OneSocket, Single, None, Idle
    <2>7. SessionLives'
      BY <2>1, RunningIs DEF SessionInv, SessionLives, Reads, Single, None, Idle
    <2>8. LastWord'
      BY <2>1, RunningIs, ToldSame DEF SessionInv, LastWord, None, Idle
    <2> QED
      BY <2>2, <2>3, <2>4, <2>5, <2>6, <2>7, <2>8 DEF SessionInv
  <1>3. ASSUME NEW a \in Attempts, waitHello(a) PROVE SessionInv'
    <2>1. /\ at[a] \in {3, 9} /\ \A b \in Attempts \ {a} : at'[b] = at[b]
          /\ UNCHANGED <<network_break_flag, readers, threadWaitSNAC, keepers,
                    keepConnect, connected, menu, messages, cancelled, faults>>
          /\ \/ at'[a] = at[a] + 1 /\ sock # 0 /\ UNCHANGED <<sock, open>>
             \/ at'[a] = 19 /\ sock' = 0 /\ open' = open \ {sock}
      BY <1>3, Places, AtSucceed, AtFail DEF waitHello, Exchange, wire, threads, gui, history
    <2>2. Single'
      BY <2>1, RunningIs DEF SessionInv, Single, None
    <2>3. Offline'
      BY <2>1 DEF SessionInv, Offline, None
    <2>4. OneReader'
      BY <2>1 DEF SessionInv, OneReader, None
    <2>5. FlagStays'
      BY <2>1, <1>c DEF SessionInv, FlagStays, None
    <2>6. OneSocket'
      BY <2>1, RunningIs DEF SessionInv, OneSocket, None, Idle
    <2>7. SessionLives'
      BY <2>1, RunningIs DEF SessionInv, SessionLives, Reads, Single, None, Idle
    <2>8. LastWord'
      BY <2>1, RunningIs, ToldSame DEF SessionInv, LastWord, None, Idle
    <2> QED
      BY <2>2, <2>3, <2>4, <2>5, <2>6, <2>7, <2>8 DEF SessionInv
  <1>4. ASSUME NEW a \in Attempts, sendSignOn(a) PROVE SessionInv'
    <2>1. /\ at[a] = 11 /\ \A b \in Attempts \ {a} : at'[b] = at[b]
          /\ UNCHANGED <<network_break_flag, readers, threadWaitSNAC, keepers,
                    keepConnect, connected, menu, messages, cancelled, faults>>
          /\ \/ at'[a] = at[a] + 1 /\ sock # 0 /\ UNCHANGED <<sock, open>>
             \/ at'[a] = 19 /\ sock' = 0 /\ open' = open \ {sock}
      BY <1>4, Places, AtSucceed, AtFail DEF sendSignOn, Exchange, wire, threads, gui, history
    <2>2. Single'
      BY <2>1, RunningIs DEF SessionInv, Single, None
    <2>3. Offline'
      BY <2>1 DEF SessionInv, Offline, None
    <2>4. OneReader'
      BY <2>1, RunningIs DEF SessionInv, OneReader, None, Idle
    <2>5. FlagStays'
      BY <2>1, <1>c DEF SessionInv, FlagStays, None
    <2>6. OneSocket'
      BY <2>1, RunningIs DEF SessionInv, OneSocket, None, Idle
    <2>7. SessionLives'
      BY <2>1, RunningIs DEF SessionInv, SessionLives, Reads, Single, None, Idle
    <2>8. LastWord'
      BY <2>1, RunningIs, ToldSame DEF SessionInv, LastWord, None, Idle
    <2> QED
      BY <2>2, <2>3, <2>4, <2>5, <2>6, <2>7, <2>8 DEF SessionInv
  <1>5. ASSUME NEW a \in Attempts, sendSNAC(a) PROVE SessionInv'
    <2>1. /\ at[a] \in {4, 13} /\ \A b \in Attempts \ {a} : at'[b] = at[b]
          /\ ~network_break_flag'
          /\ UNCHANGED <<readers, threadWaitSNAC, keepers, keepConnect, connected,
                    menu, messages, cancelled, faults>>
          /\ \/ at'[a] = at[a] + 1 /\ ~network_break_flag /\ sock # 0 /\ UNCHANGED <<sock, open>>
             \/ at'[a] = 19 /\ sock' = 0 /\ open' = open \ {sock}
      BY <1>5, Places, AtSucceed, AtFail DEF sendSNAC, wire, threads, gui, history
    <2>2. Single'
      BY <2>1, RunningIs DEF SessionInv, Single, None
    <2>3. Offline'
      BY <2>1 DEF SessionInv, Offline, None
    <2>4. OneReader'
      BY <2>1, RunningIs DEF SessionInv, OneReader, Single, None, Idle
    <2>5. FlagStays'
      BY <2>1, RunningIs, <1>c DEF SessionInv, FlagStays, Single, None
    <2>6. OneSocket'
      BY <2>1, RunningIs DEF SessionInv, OneSocket, None, Idle
    <2>7. SessionLives'
      BY <2>1, RunningIs DEF SessionInv, SessionLives, Reads, Single, None, Idle
    <2>8. LastWord'
      BY <2>1, RunningIs, ToldSame DEF SessionInv, LastWord, None, Idle
    <2> QED
      BY <2>2, <2>3, <2>4, <2>5, <2>6, <2>7, <2>8 DEF SessionInv
  <1>6. ASSUME NEW a \in Attempts, waitSNAC(a) PROVE SessionInv'
    <2>1. /\ at[a] \in {6, 12} /\ \A b \in Attempts \ {a} : at'[b] = at[b]
          /\ UNCHANGED <<network_break_flag, readers, threadWaitSNAC, keepers,
                    keepConnect, connected, menu, messages, cancelled, faults>>
          /\ \/ at'[a] = at[a] + 1 /\ UNCHANGED <<sock, open>>
             \/ at'[a] = 19 /\ sock' = 0 /\ open' = open \ {sock}
      BY <1>6, Places, AtSucceed, AtFail DEF waitSNAC, wire, threads, gui, history
    <2>2. Single'
      BY <2>1, RunningIs DEF SessionInv, Single, None
    <2>3. Offline'
      BY <2>1 DEF SessionInv, Offline, None
    <2>4. OneReader'
      BY <2>1, RunningIs DEF SessionInv, OneReader, None, Idle
    <2>5. FlagStays'
      BY <2>1, <1>c DEF SessionInv, FlagStays, None
    <2>6. OneSocket'
      BY <2>1, RunningIs DEF SessionInv, OneSocket, None, Idle
    <2>7. SessionLives'
      BY <2>1, RunningIs DEF SessionInv, SessionLives, Reads, Single, None, Idle
    <2>8. LastWord'
      BY <2>1, RunningIs, ToldSame DEF SessionInv, LastWord, None, Idle
    <2> QED
      BY <2>2, <2>3, <2>4, <2>5, <2>6, <2>7, <2>8 DEF SessionInv
  <1>7. ASSUME NEW a \in Attempts, startReadSNAC(a) PROVE SessionInv'
    <2>1. /\ at[a] \in {5, 10} /\ at'[a] = at[a] + 1 /\ \A b \in Attempts \ {a} : at'[b] = at[b]
          /\ readers' = readers \cup {threadWaitSNAC'}
          /\ UNCHANGED <<sock, open, network_break_flag, keepers, keepConnect,
                    connected, menu, messages, cancelled, faults>>
      BY <1>7, Places, AtSucceed DEF startReadSNAC, wire, gui, history
    <2>2. Single'
      BY <2>1, RunningIs DEF SessionInv, Single, None
    <2>3. Offline'
      BY <2>1 DEF SessionInv, Offline, None
    <2>4. OneReader'
      BY <2>1, RunningIs DEF SessionInv, OneReader, Single, None, Idle
    <2>5. FlagStays'
      BY <2>1, <1>c DEF SessionInv, FlagStays, None
    <2>6. OneSocket'
      BY <2>1, RunningIs DEF SessionInv, OneSocket, None, Idle
    <2>7. SessionLives'
      BY <2>1, RunningIs DEF SessionInv, SessionLives, Reads, OneReader, None, Idle
    <2>8. LastWord'
      BY <2>1, RunningIs, ToldSame DEF SessionInv, LastWord, None, Idle
    <2> QED
      BY <2>2, <2>3, <2>4, <2>5, <2>6, <2>7, <2>8 DEF SessionInv
  <1>8. ASSUME NEW a \in Attempts, sendSignOff(a), ~Crash PROVE SessionInv'
    <2>1. /\ at[a] = 7 /\ at'[a] = at[a] + 1 /\ \A b \in Attempts \ {a} : at'[b] = at[b]
          /\ sock' = 0 /\ open' = open \ {sock}
          /\ readers' = readers \ {threadWaitSNAC}
          /\ UNCHANGED <<network_break_flag, threadWaitSNAC, keepers, keepConnect,
                    connected, menu, messages, cancelled, faults>>
      BY <1>8, Places, AtSucceed DEF sendSignOff, Close, gui, history
    <2>2. Single'
      BY <2>1, RunningIs DEF SessionInv, Single, None
    <2>3. Offline'
      BY <2>1 DEF SessionInv, Offline, None
    <2>4. OneReader'
      BY <2>1 DEF SessionInv, OneReader, None
    <2>5. FlagStays'
      BY <2>1, <1>c DEF SessionInv, FlagStays, None
    <2>6. OneSocket'
      BY <2>1 DEF SessionInv, OneSocket, None
    <2>7. SessionLives'
      BY <2>1, RunningIs DEF SessionInv, SessionLives, Reads, Single, None, Idle
    <2>8. LastWord'
      BY <2>1, RunningIs, ToldSame DEF SessionInv, LastWord, None, Idle
    <2> QED
      BY <2>2, <2>3, <2>4, <2>5, <2>6, <2>7, <2>8 DEF SessionInv
  <1>9. ASSUME NEW a \in Attempts, restore(a) PROVE SessionInv'
    <2>1. /\ at[a] = 14 /\ at'[a] = at[a] + 1 /\ \A b \in Attempts \ {a} : at'[b] = at[b]
          /\ network_break_flag' => network_break_flag
          /\ UNCHANGED <<sock, open, readers, threadWaitSNAC, keepers, keepConnect,
                    connected, menu, messages, cancelled, faults>>
      <3>1. network_break_flag' => network_break_flag
        BY <1>9 DEF restore
      <3> QED
        BY <1>9, <3>1, Places, AtSucceed DEF restore, wire, threads, gui, history
    <2>2. Single'
      BY <2>1, RunningIs DEF SessionInv, Single, None
    <2>3. Offline'
      BY <2>1 DEF SessionInv, Offline, None
    <2>4. OneReader'
      BY <2>1, RunningIs DEF SessionInv, OneReader, Single, None, Idle
    <2>5. FlagStays'
      BY <2>1, RunningIs, <1>c DEF SessionInv, FlagStays, Single, None
    <2>6. OneSocket'
      BY <2>1, RunningIs DEF SessionInv, OneSocket, None, Idle
    <2>7. SessionLives'
      BY <2>1, RunningIs DEF SessionInv, SessionLives, Reads, None, Idle
    <2>8. LastWord'
      BY <2>1, RunningIs, ToldSame DEF SessionInv, LastWord, None, Idle
    <2> QED
      BY <2>2, <2>3, <2>4, <2>5, <2>6, <2>7, <2>8 DEF SessionInv
  <1>10. ASSUME NEW a \in Attempts, announce(a) PROVE SessionInv'
    <2>1. /\ at[a] = 15 /\ at'[a] = at[a] + 1 /\ \A b \in Attempts \ {a} : at'[b] = at[b]
          /\ connected'
          /\ UNCHANGED <<sock, open, network_break_flag, readers, threadWaitSNAC,
                    keepers, keepConnect, menu, messages, cancelled, faults>>
      BY <1>10, Places, AtSucceed DEF announce, wire, threads, gui, history
    <2>2. Single'
      BY <2>1, RunningIs DEF SessionInv, Single, None
    <2>3. Offline'
      BY <2>1, RunningIs DEF SessionInv, Offline, Single, None
    <2>4. OneReader'
      BY <2>1 DEF SessionInv, OneReader, None
    <2>5. FlagStays'
      BY <2>1, <1>c DEF SessionInv, FlagStays, None
    <2>6. OneSocket'
      BY <2>1 DEF SessionInv, OneSocket, None
    <2>7. SessionLives'
      BY <2>1, RunningIs DEF SessionInv, SessionLives, Reads, None, Idle
    <2>8. LastWord'
      BY <2>1, RunningIs, ToldSame DEF SessionInv, LastWord, Single, None, Idle
    <2> QED
      BY <2>2, <2>3, <2>4, <2>5, <2>6, <2>7, <2>8 DEF SessionInv
  <1>11. ASSUME NEW a \in Attempts, emitConnected(a) PROVE SessionInv'
    <2>1. /\ at[a] = 16 /\ at'[a] = at[a] + 1 /\ \A b \in Attempts \ {a} : at'[b] = at[b]
          /\ Told'
          /\ UNCHANGED <<sock, open, network_break_flag, readers, threadWaitSNAC,
                    keepers, keepConnect, connected, menu, cancelled, faults>>
      <3>1. Told'
        BY <1>11, ToldTells DEF emitConnected
      <3> QED
        BY <1>11, <3>1, Places, AtSucceed DEF emitConnected, wire, threads, history
    <2>2. Single'
      BY <2>1, RunningIs DEF SessionInv, Single, None
    <2>3. Offline'
      BY <2>1 DEF SessionInv, Offline, None
    <2>4. OneReader'
      BY <2>1 DEF SessionInv, OneReader, None
    <2>5. FlagStays'
      BY <2>1, <1>c DEF SessionInv, FlagStays, None
    <2>6. OneSocket'
      BY <2>1 DEF SessionInv, OneSocket, None
    <2>7. SessionLives'
      BY <2>1, RunningIs DEF SessionInv, SessionLives, Reads, None, Idle
    <2>8. LastWord'
      BY <2>1, RunningIs DEF SessionInv, LastWord, Single, None
    <2> QED
      BY <2>2, <2>3, <2>4, <2>5, <2>6, <2>7, <2>8 DEF SessionInv
  <1>12. ASSUME NEW a \in Attempts, getOfflineMessages(a) PROVE SessionInv'
    <2>1. /\ at[a] = 17 /\ at'[a] = at[a] + 1 /\ \A b \in Attempts \ {a} : at'[b] = at[b]
          /\ network_break_flag' => network_break_flag
          /\ UNCHANGED <<sock, open, readers, threadWaitSNAC, keepers, keepConnect,
                    connected, menu, messages, cancelled, faults>>
      <3>1. network_break_flag' => network_break_flag
        BY <1>12 DEF getOfflineMessages
      <3> QED
        BY <1>12, <3>1, Places, AtSucceed DEF getOfflineMessages, wire, threads, gui, history
    <2>2. Single'
      BY <2>1, RunningIs DEF SessionInv, Single, None
    <2>3. Offline'
      BY <2>1 DEF SessionInv, Offline, None
    <2>4. OneReader'
      BY <2>1, RunningIs DEF SessionInv, OneReader, Single, None
    <2>5. FlagStays'
      BY <2>1, RunningIs, <1>c DEF SessionInv, FlagStays, Single, None
    <2>6. OneSocket'
      BY <2>1 DEF SessionInv, OneSocket, None
    <2>7. SessionLives'
      BY <2>1, RunningIs DEF SessionInv, SessionLives, Reads, None, Idle
    <2>8. LastWord'
      BY <2>1, ToldSame DEF SessionInv, LastWord, None
    <2> QED
      BY <2>2, <2>3, <2>4, <2>5, <2>6, <2>7, <2>8 DEF SessionInv
  <1>13. ASSUME NEW a \in Attempts, mainLoop(a) PROVE SessionInv'
    <2>1. /\ at[a] = 18 /\ at'[a] = 20 /\ \A b \in Attempts \ {a} : at'[b] = at[b]
          /\ keepers' = keepers \cup {a} /\ keepConnect' = a
          /\ UNCHANGED <<sock, open, network_break_flag, readers, threadWaitSNAC,
                    connected, menu, messages, cancelled, faults>>
      BY <1>13, Places, AtGo, Ends DEF mainLoop, wire, gui, history
    <2>2. Single'
      BY <2>1, RunningIs DEF SessionInv, Single, None
    <2>3. Offline'
      BY <2>1 DEF SessionInv, Offline, None
    <2>4. OneReader'
      BY <2>1 DEF SessionInv, OneReader, None
    <2>5. FlagStays'
      BY <2>1, <1>c DEF SessionInv, FlagStays, None
    <2>6. OneSocket'
      BY <2>1 DEF SessionInv, OneSocket, None
    <2>7. SessionLives'
      BY <2>1, RunningIs DEF SessionInv, SessionLives, Reads, Single, None
    <2>8. LastWord'
      BY <2>1, ToldSame DEF SessionInv, LastWord, None
    <2> QED
      BY <2>2, <2>3, <2>4, <2>5, <2>6, <2>7, <2>8 DEF SessionInv
  <1>14. ASSUME NEW a \in Attempts, reportFailure(a), ~Crash PROVE SessionInv'
    <2>1. /\ at[a] = 19 /\ at'[a] = 20 /\ \A b \in Attempts \ {a} : at'[b] = at[b]
          /\ ~connected'
          /\ UNCHANGED <<network_break_flag, threadWaitSNAC, keepConnect, menu,
                    cancelled, faults>>
          /\ \/ /\ network_break_flag /\ UNCHANGED <<sock, open, readers, keepers>>
                /\ Told' = Told
             \/ /\ ~network_break_flag /\ sock' = 0 /\ open' = open \ {sock}
                /\ readers' = readers \ {threadWaitSNAC} /\ keepers' = keepers \ {keepConnect}
                /\ ~Told'
      <3>1. /\ at[a] = 19 /\ Go(a, 20) /\ ~connected'
            /\ UNCHANGED <<network_break_flag, menu, cancelled, faults, threadWaitSNAC, keepConnect>>
        BY <1>14, Ends DEF reportFailure, doDisconnect, wire, threads, history
      <3>2. CASE network_break_flag
        <4>1. UNCHANGED <<sock, open, readers, keepers, messages>>
          BY <1>14, <3>2 DEF reportFailure, wire, threads
        <4> QED
          BY <3>1, <3>2, <4>1, AtGo, ToldSame
      <3>3. CASE ~network_break_flag
        <4>1. doDisconnect /\ ~Told'
          BY <1>14, <3>3, ToldTells DEF reportFailure
        <4> QED
          BY <3>1, <3>3, <4>1, AtGo DEF doDisconnect, Close
      <3> QED
        BY <3>2, <3>3
    <2>2. Single'
      BY <2>1, RunningIs DEF SessionInv, Single, None
    <2>3. Offline'
      BY <2>1 DEF SessionInv, Offline
    <2>4. OneReader'
      BY <2>1, RunningIs DEF SessionInv, OneReader, Single, None
    <2>5. FlagStays'
      BY <2>1, <1>c DEF SessionInv, FlagStays, None
    <2>6. OneSocket'
      BY <2>1 DEF SessionInv, OneSocket, None
    <2>7. SessionLives'
      BY <2>1, RunningIs DEF SessionInv, SessionLives, Reads, Single, None
    <2>8. LastWord'
      BY <2>1, RunningIs DEF SessionInv, LastWord, Single, None
    <2> QED
      BY <2>2, <2>3, <2>4, <2>5, <2>6, <2>7, <2>8 DEF SessionInv
  <1>15. ASSUME NEW r \in readers, readerBreaks(r) PROVE SessionInv'
    <2>1. /\ network_break_flag /\ readers' = readers \ {r}
          /\ UNCHANGED <<at, sock, open, network_break_flag, threadWaitSNAC, keepers,
                    keepConnect, connected, menu, messages, cancelled, faults>>
      BY <1>15 DEF readerBreaks, wire, gui, history
    <2>2. Single'
      BY <2>1, RunningIs DEF SessionInv, Single, None
    <2>3. Offline'
      BY <2>1 DEF SessionInv, Offline, None
    <2>4. OneReader'
      BY <2>1 DEF SessionInv, OneReader, None
    <2>5. FlagStays'
      BY <2>1 DEF SessionInv, FlagStays, None
    <2>6. OneSocket'
      BY <2>1, RunningIs DEF SessionInv, OneSocket, None, Idle
    <2>7. SessionLives'
      BY <2>1, RunningIs DEF SessionInv, SessionLives, Reads, None, Idle
    <2>8. LastWord'
      BY <2>1, RunningIs, ToldSame DEF SessionInv, LastWord, None, Idle
    <2> QED
      BY <2>2, <2>3, <2>4, <2>5, <2>6, <2>7, <2>8 DEF SessionInv
  <1>16. ASSUME NEW r \in readers, singOff(r) PROVE SessionInv'
    <2>1. /\ sock # 0 /\ readers' = readers \ {r}
          /\ faults' = faults \cup {"kicked"}
          /\ UNCHANGED <<at, sock, open, network_break_flag, threadWaitSNAC, keepers,
                    keepConnect, connected, menu, messages, cancelled>>
      BY <1>16 DEF singOff, wire, gui
    <2>2. Single'
      BY <2>1, RunningIs DEF SessionInv, Single, None
    <2>3. Offline'
      BY <2>1 DEF SessionInv, Offline, None
    <2>4. OneReader'
      BY <2>1 DEF SessionInv, OneReader, None
    <2>5. FlagStays'
      BY <2>1 DEF SessionInv, FlagStays, None
    <2>6. OneSocket'
      BY <2>1, RunningIs DEF SessionInv, OneSocket, None, Idle
    <2>7. SessionLives'
      BY <2>1, RunningIs DEF SessionInv, SessionLives, Reads, None, Idle
    <2>8. LastWord'
      BY <2>1, RunningIs, ToldSame DEF SessionInv, LastWord, None, Idle
    <2> QED
      BY <2>2, <2>3, <2>4, <2>5, <2>6, <2>7, <2>8 DEF SessionInv
  <1>17. ASSUME NEW k \in keepers, keeperBreaks(k) PROVE SessionInv'
    <2>1. /\ network_break_flag /\ keepers' = keepers \ {k}
          /\ UNCHANGED <<at, sock, open, network_break_flag, readers, threadWaitSNAC,
                    keepConnect, connected, menu, messages, cancelled, faults>>
      BY <1>17 DEF keeperBreaks, wire, gui, history
    <2>2. Single'
      BY <2>1, RunningIs DEF SessionInv, Single, None
    <2>3. Offline'
      BY <2>1 DEF SessionInv, Offline, None
    <2>4. OneReader'
      BY <2>1 DEF SessionInv, OneReader, None
    <2>5. FlagStays'
      BY <2>1 DEF SessionInv, FlagStays, None
    <2>6. OneSocket'
      BY <2>1, RunningIs DEF SessionInv, OneSocket, None, Idle
    <2>7. SessionLives'
      BY <2>1 DEF SessionInv, SessionLives, Reads, None, Idle
    <2>8. LastWord'
      BY <2>1, RunningIs, ToldSame DEF SessionInv, LastWord, None, Idle
    <2> QED
      BY <2>2, <2>3, <2>4, <2>5, <2>6, <2>7, <2>8 DEF SessionInv
  <1>18. ASSUME NEW k \in keepers, sendKeepAlive(k) PROVE SessionInv'
    <2>1. /\ network_break_flag /\ ~network_break_flag'
          /\ faults' = IF readers # {} \/ ~Idle THEN faults \cup {"taken"} ELSE faults
          /\ UNCHANGED <<at, sock, open, readers, threadWaitSNAC, keepers, keepConnect,
                    connected, menu, messages, cancelled>>
      BY <1>18 DEF sendKeepAlive, Idle, wire, threads, gui
    <2>2. Single'
      BY <2>1, RunningIs DEF SessionInv, Single, None
    <2>3. Offline'
      BY <2>1 DEF SessionInv, Offline, None
    <2>4. OneReader'
      BY <2>1 DEF SessionInv, OneReader, None
    <2>5. FlagStays'
      BY <2>1, RunningIs, <1>c DEF SessionInv, FlagStays, None, Idle
    <2>6. OneSocket'
      BY <2>1, RunningIs DEF SessionInv, OneSocket, None, Idle
    <2>7. SessionLives'
      BY <2>1 DEF SessionInv, SessionLives, Reads, None, Idle
    <2>8. LastWord'
      BY <2>1, RunningIs, ToldSame DEF SessionInv, LastWord, None, Idle
    <2> QED
      BY <2>2, <2>3, <2>4, <2>5, <2>6, <2>7, <2>8 DEF SessionInv
  <1>19. ASSUME menu_connect PROVE SessionInv'
    <2>1. /\ ~connected
          /\ \E a \in Attempts : at[a] = 0 /\ at'[a] = 1 /\ \A b \in Attempts \ {a} : at'[b] = at[b]
          /\ faults' = IF ~Idle THEN faults \cup {"overlap"} ELSE faults
          /\ UNCHANGED <<sock, open, network_break_flag, readers, threadWaitSNAC,
                    keepers, keepConnect, connected, menu, messages, cancelled>>
      BY <1>19, AtGo DEF menu_connect, Idle, wire, threads
    <2>2. Single'
      BY <2>1, RunningIs DEF SessionInv, Single, None, Idle
    <2>3. Offline'
      BY <2>1 DEF SessionInv, Offline
    <2>4. OneReader'
      BY <2>1 DEF SessionInv, OneReader, None, Idle
    <2>5. FlagStays'
      BY <2>1, <1>c DEF SessionInv, FlagStays, None
    <2>6. OneSocket'
      BY <2>1 DEF SessionInv, OneSocket, None
    <2>7. SessionLives'
      BY <2>1 DEF SessionInv, SessionLives, Reads, None, Idle
    <2>8. LastWord'
      BY <2>1, ToldSame DEF SessionInv, LastWord, None, Idle
    <2> QED
      BY <2>2, <2>3, <2>4, <2>5, <2>6, <2>7, <2>8 DEF SessionInv
  <1>20. ASSUME Disconnect, ~Crash PROVE SessionInv'
    <2>1. /\ connected /\ ~connected'
          /\ sock' = 0 /\ open' = open \ {sock}
          /\ readers' = readers \ {threadWaitSNAC} /\ keepers' = keepers \ {keepConnect}
          /\ ~Told'
          /\ faults' = IF \E a \in Attempts : at[a] \in 14 .. 18 THEN faults \cup {"late"} ELSE faults
          /\ UNCHANGED <<at, network_break_flag, threadWaitSNAC, keepConnect, menu,
                    cancelled>>
      <3>1. ~Told'
        BY <1>20, ToldTells DEF Disconnect
      <3> QED
        BY <1>20, <3>1, LateIs DEF Disconnect, doDisconnect, Close
    <2>2. Single'
      BY <2>1, RunningIs DEF SessionInv, Single, None
    <2>3. Offline'
      BY <2>1 DEF SessionInv, Offline
    <2>4. OneReader'
      BY <2>1 DEF SessionInv, OneReader, None
    <2>5. FlagStays'
      BY <2>1 DEF SessionInv, FlagStays, None
    <2>6. OneSocket'
      BY <2>1 DEF SessionInv, OneSocket, None
    <2>7. SessionLives'
      BY <2>1 DEF SessionInv, SessionLives, Reads, Offline, None, Idle
    <2>8. LastWord'
      BY <2>1 DEF SessionInv, LastWord, None
    <2> QED
      BY <2>2, <2>3, <2>4, <2>5, <2>6, <2>7, <2>8 DEF SessionInv
  <1>21. ASSUME cancellICQ, ~Crash PROVE SessionInv'
    <2>1. /\ network_break_flag' /\ ~connected'
          /\ sock' = 0 /\ open' = open \ {sock}
          /\ readers' = readers \ {threadWaitSNAC} /\ keepers' = keepers \ {keepConnect}
          /\ ~Told'
          /\ cancelled' = cancelled \cup {a \in Attempts : at[a] \in 1 .. 13}
          /\ faults' = IF \E a \in Attempts : at[a] \in 14 .. 18 THEN faults \cup {"late"} ELSE faults
          /\ UNCHANGED <<at, threadWaitSNAC, keepConnect, menu>>
      <3>1. ~Told'
        BY <1>21, ToldTells DEF cancellICQ
      <3> QED
        BY <1>21, <3>1, LateIs, Ends DEF cancellICQ, doDisconnect, Close
    <2>2. Single'
      BY <2>1, RunningIs DEF SessionInv, Single, None
    <2>3. Offline'
      BY <2>1 DEF SessionInv, Offline
    <2>4. OneReader'
      BY <2>1 DEF SessionInv, OneReader, None
    <2>5. FlagStays'
      BY <2>1 DEF SessionInv, FlagStays, None
    <2>6. OneSocket'
      BY <2>1 DEF SessionInv, OneSocket, None
    <2>7. SessionLives'
      BY <2>1 DEF SessionInv, SessionLives, Reads, None, Idle
    <2>8. LastWord'
      BY <2>1 DEF SessionInv, LastWord, None
    <2> QED
      BY <2>2, <2>3, <2>4, <2>5, <2>6, <2>7, <2>8 DEF SessionInv
  <1>22. ASSUME handleConnectChange PROVE SessionInv'
    <2>1. /\ messages # <<>> /\ messages' = Tail(messages)
          /\ menu' = IF Head(messages) THEN "online" ELSE "offline"
          /\ UNCHANGED <<at, sock, open, network_break_flag, readers, threadWaitSNAC,
                    keepers, keepConnect, connected, cancelled, faults>>
      BY <1>22 DEF handleConnectChange, wire, threads, history
    <2>2. Single'
      BY <2>1, RunningIs DEF SessionInv, Single, None
    <2>3. Offline'
      BY <2>1 DEF SessionInv, Offline, None
    <2>4. OneReader'
      BY <2>1, RunningIs DEF SessionInv, OneReader, None, Idle
    <2>5. FlagStays'
      BY <2>1 DEF SessionInv, FlagStays, None
    <2>6. OneSocket'
      BY <2>1, RunningIs DEF SessionInv, OneSocket, None, Idle
    <2>7. SessionLives'
      BY <2>1, RunningIs DEF SessionInv, SessionLives, Reads, None, Idle
    <2>8. LastWord'
      BY <2>1, RunningIs, ToldHandled DEF SessionInv, LastWord, None, Idle
    <2> QED
      BY <2>2, <2>3, <2>4, <2>5, <2>6, <2>7, <2>8 DEF SessionInv
  <1> QED
    BY <1>1, <1>2, <1>3, <1>4, <1>5, <1>6, <1>7, <1>8, <1>9, <1>10, <1>11, <1>12, <1>13, <1>14,
       <1>15, <1>16, <1>17, <1>18, <1>19, <1>20, <1>21, <1>22
       DEF Next, Proceed

LEMMA InvInit == Init => SessionInv
  <1> SUFFICES ASSUME Init PROVE SessionInv
    OBVIOUS
  <1>1. TypeOK
    BY TypeInit
  <1>2. \A a \in Attempts : ~Running(a) /\ at[a] = 0
    BY Ends DEF Init, Running
  <1>3. Single /\ Offline /\ OneReader /\ FlagStays /\ OneSocket
    BY <1>2 DEF Init, Single, Offline, OneReader, FlagStays, OneSocket
  <1>4. SessionLives
    BY <1>2 DEF Init, SessionLives, Reads, None
  <1>5. LastWord
    BY <1>2 DEF Init, LastWord, Told
  <1> QED
    BY <1>1, <1>3, <1>4, <1>5 DEF SessionInv

LEMMA InvStutter == SessionInv /\ UNCHANGED vars => SessionInv'
  <1> SUFFICES ASSUME SessionInv, UNCHANGED vars PROVE SessionInv'
    OBVIOUS
  <1> USE DEF vars, wire, threads, gui, history, SessionInv
  <1>1. TypeOK'
    BY TypeNext
  <1>2. Single' /\ Offline' /\ OneReader'
    BY DEF Single, Offline, OneReader, Idle, Running, None
  <1>3. FlagStays' /\ OneSocket' /\ SessionLives'
    BY DEF FlagStays, OneSocket, SessionLives, Reads, Idle, Running, None
  <1>4. LastWord'
    BY DEF LastWord, Told, Idle, Running, None
  <1> QED
    BY <1>1, <1>2, <1>3, <1>4

\* Where each thread is in its script, and what it then has: the socket, the reader, the flag
\* and the messages under way to the GUI fit together.
THEOREM Invariant == Spec => []SessionInv
  <1>1. SessionInv /\ [Next]_vars => SessionInv'
    <2> SUFFICES ASSUME SessionInv, [Next]_vars PROVE SessionInv'
      OBVIOUS
    <2>1. TypeOK'
      BY TypeNext DEF SessionInv
    <2>2. CASE Crash
      BY <2>1, <2>2, InvCrash
    <2>3. CASE Next /\ ~Crash
      BY <2>1, <2>3, InvNext
    <2>4. CASE UNCHANGED vars
      BY <2>4, InvStutter
    <2> QED
      BY <2>2, <2>3, <2>4
  <1> QED
    BY InvInit, <1>1, PTL DEF Spec

-----------------------------------------------------------------------------
(* The properties *)

\* An attempt that waits for a hello is the only thread that reads.
THEOREM HelloTheorem == Spec => []HelloIsOwn
  <1>1. SessionInv => HelloIsOwn
    <2> SUFFICES ASSUME SessionInv, faults \cap {"overlap", "taken"} = {},
                        NEW a \in Attempts, Doing(a, "hello")
                 PROVE  readers = {}
      BY DEF HelloIsOwn
    <2>1. None({"overlap", "taken"})
      BY DEF None
    <2>2. at[a] \in {3, 9}
      BY Places DEF SessionInv
    <2> QED
      BY <2>1, <2>2 DEF SessionInv, OneReader
  <1> QED
    BY Invariant, <1>1, PTL

\* An attempt cancelled before its last look at the flag never comes online.
THEOREM CancelTheorem == Spec => []CancelWorks
  <1>1. SessionInv => CancelWorks
    <2> SUFFICES ASSUME SessionInv, faults \cap {"early", "overlap", "taken"} = {}, NEW a \in cancelled
                 PROVE  at[a] \notin LastCheck + 1 .. Len(Script)
      BY DEF CancelWorks
    <2>1. None({"early", "overlap", "taken"})
      BY DEF None
    <2>2. at[a] \in 1 .. 13 \/ at[a] \in {19, 20}
      BY <2>1 DEF SessionInv, FlagStays
    <2> QED
      BY <2>2, Ends, ScriptIs
  <1> QED
    BY Invariant, <1>1, PTL

\* No connection is left open but the one in use; who is online has one, with a thread
\* that keeps it alive and one that reads it, until the server ends the session; and the menu is the one for the state.
THEOREM SessionTheorem == Spec => []SessionTrue
  <1>1. SessionInv => NoLeak
    BY DEF SessionInv, OneSocket, None, NoLeak
  <1>2. SessionInv => OnlineIsLive
    <2> SUFFICES ASSUME SessionInv, connected, Idle, faults \cap {"overlap", "late"} = {}
                 PROVE  /\ sock # 0 /\ Cardinality(keepers) = 1
                        /\ Cardinality(readers) <= 1 /\ (readers = {} => "kicked" \in faults)
      BY DEF OnlineIsLive, Idle
    <2>1. sock # 0 /\ Reads /\ keepers = {keepConnect}
      BY DEF SessionInv, SessionLives, Reads, None
    <2>2. Cardinality(keepers) = 1
      BY <2>1, FS_Singleton
    <2>3. CASE readers = {threadWaitSNAC}
      <3>1. Cardinality(readers) = 1
        BY <2>3, FS_Singleton
      <3> QED
        BY <2>1, <2>2, <2>3, <3>1
    <2>4. CASE readers = {} /\ "kicked" \in faults
      BY <2>1, <2>2, <2>4, FS_EmptySet
    <2> QED
      BY <2>1, <2>3, <2>4 DEF Reads
  <1>3. SessionInv => MenuTells
    BY DEF SessionInv, LastWord, Told, Idle, None, MenuTells
  <1> QED
    BY Invariant, <1>1, <1>2, <1>3, PTL DEF SessionTrue
=============================================================================
