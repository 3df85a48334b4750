------------------------------- MODULE Session -------------------------------
(***************************************************************************)
(* Going online and offline: the connect threads, the reader and the       *)
(* keep-alive threads they start, the socket and the break flag all of     *)
(* them share, and the GUI thread, which is told by messages.              *)
(*                                                                         *)
(* An attempt is the life of one connect thread: Script is what it calls,  *)
(* in order.  Calls of one kind in a row are one element of it, and so are *)
(* rounds of asking and getting, and waitHello with sendSignOn0, which is  *)
(* next and fails in the same way.                                         *)
(***************************************************************************)
EXTENDS Naturals, Sequences, FiniteSets

CONSTANT MaxAttempts   \* bound: attempts to go online

ASSUME SessionAssumption == MaxAttempts \in Nat

Attempts == 1 .. MaxAttempts

VARIABLES
  at,                  \* where each attempt is in the script, 0 before it has begun
  sock,                \* the connection in use, 0 for none
  open,                \* the connections that are not closed
  opened,              \* how many have been opened
  network_break_flag,
  readers,             \* the threads in readSNAC
  threadWaitSNAC,      \* the last one started
  keepers,             \* the threads in pollKeepAlive, named by who started them
  keepConnect,         \* the last one started
  connected,
  dialog,              \* the progress dialog is shown
  menu,                \* the menu shown: of a user who is "online" or "offline"
  messages,            \* onConnectChange messages the GUI has not handled
  cancelled,           \* history: attempts cancelled that are still to look at the flag
  faults               \* history: what has come between, see below

wire    == <<sock, open, opened>>
threads == <<readers, threadWaitSNAC, keepers, keepConnect>>
gui     == <<dialog, menu, messages>>
history == <<cancelled, faults>>
vars    == <<at, wire, network_break_flag, threads, connected, gui, history>>

\* "kicked"   the server has ended a session, and with it its reader: nobody is told
\* "early"    an attempt was cancelled before Connect, which takes the flag down again
\* "overlap"  an attempt was begun with an earlier one still at work, or took down the
\*            flag before a reader had seen it
\* "late"     the user went offline, or cancelled, when an attempt had looked at the
\*            flag for the last time and was still at work
\* "taken"    a keep-alive thread that has outlived its session took down the flag before
\*            an attempt or a reader had seen it
Faults == {"kicked", "early", "overlap", "late", "taken"}

-----------------------------------------------------------------------------
(* What an attempt calls *)

\* doConnect: at the authorizer.
Phase1 == <<"connect", "hello", "send", "spawn", "wait", "signOff">>

\* doConnect_phase2: at the server it named.
Phase2 == <<"connect", "hello", "spawn", "signOn">>

\* The services, limits, contact list and own info; then ready and the status.
Phase3 == <<"wait", "send">>

\* zICQ::Connect once doConnect has succeeded, and what startConnect_ does after it.
Online == <<"restore", "announce", "emit", "offline", "mainLoop">>

Script == <<"begin">> \o Phase1 \o Phase2 \o Phase3 \o Online

LastCheck == Len(Script) - Len(Online)   \* its last look at the flag
MainLoop  == Len(Script)
Report    == Len(Script) + 1             \* doConnect has failed
Over      == Len(Script) + 2

Running(a) == at[a] \in 1 .. Report
Doing(a, call) == at[a] \in 1 .. Len(Script) /\ Script[at[a]] = call

Go(a, to)  == at' = [at EXCEPT ![a] = to]
Succeed(a) == Go(a, at[a] + 1)

NoReader == <<0, 0>>
Readers  == Attempts \X (1 .. Len(Script))

-----------------------------------------------------------------------------
Init ==
  /\ at = [a \in Attempts |-> 0]
  /\ sock = 0 /\ open = {} /\ opened = 0
  /\ network_break_flag = FALSE
  /\ readers = {} /\ threadWaitSNAC = NoReader
  /\ keepers = {} /\ keepConnect = 0
  /\ connected = FALSE
  /\ dialog = FALSE /\ menu = "offline" /\ messages = <<>>
  /\ cancelled = {} /\ faults = {}

\* Mutant: the closed connection stays in use.
Close_NotReset == sock' = sock /\ open' = open \ {sock}

\* CLOSE_SOCK
Close == sock' = 0 /\ open' = open \ {sock}

\* What an id names that has not been started, or has ended, is not defined:
\* the call finds nothing, or brings the program down.
Stale == keepConnect \notin keepers \/ threadWaitSNAC \notin readers

doDisconnect ==
  /\ keepers' = keepers \ {keepConnect}
  /\ readers' = readers \ {threadWaitSNAC}
  /\ Close
  /\ UNCHANGED <<opened, threadWaitSNAC, keepConnect>>

\* The program goes down and the user starts it again.
Crash ==
  /\ at' = [a \in Attempts |-> IF at[a] = 0 THEN 0 ELSE Over]
  /\ sock' = 0 /\ open' = {} /\ opened' = opened
  /\ network_break_flag' = FALSE
  /\ readers' = {} /\ threadWaitSNAC' = NoReader
  /\ keepers' = {} /\ keepConnect' = 0
  /\ connected' = FALSE
  /\ dialog' = FALSE /\ menu' = "offline" /\ messages' = <<>>
  /\ cancelled' = {} /\ faults' = {}

-----------------------------------------------------------------------------
(* The connect thread *)

\* Mutant: the connection is left open.
Fail_NotClosed(a) == Go(a, Report) /\ UNCHANGED wire

\* CLOSE_SOCK(sock); return false
Fail(a) == Go(a, Report) /\ Close /\ UNCHANGED opened

\* Connect takes the flag down, whoever has put it up: a user who has cancelled the
\* attempt while the network was being brought up has done so in vain.
begin(a) ==
  /\ Doing(a, "begin")
  /\ network_break_flag' = FALSE
  /\ Succeed(a)
  /\ faults' = faults \cup (IF network_break_flag /\ readers # {} THEN {"overlap"} ELSE {})
                      \cup (IF a \in cancelled THEN {"early"} ELSE {})
  /\ UNCHANGED <<wire, threads, connected, gui, cancelled>>

\* The flag is not looked at, nor is an open socket closed.
directConnect(a) ==
  /\ Doing(a, "connect")
  /\ \/ /\ opened' = opened + 1
        /\ sock' = opened' /\ open' = open \cup {opened'}
        /\ Succeed(a)
     \/ sock' = 0 /\ Go(a, Report) /\ UNCHANGED <<open, opened>>
  /\ UNCHANGED <<network_break_flag, threads, connected, gui, history>>

\* waitHello and sendSignOn0, sendSignOn2; without a socket they fail at once.
Exchange(a) ==
  /\ \/ sock # 0 /\ Succeed(a) /\ UNCHANGED wire
     \/ Fail(a)
  /\ UNCHANGED <<network_break_flag, threads, connected, gui, history>>

waitHello(a)  == Doing(a, "hello") /\ Exchange(a)
sendSignOn(a) == Doing(a, "signOn") /\ Exchange(a)

\* Mutant: the flag does not stop a send.
sendSNAC_NoBreak(a) ==
  /\ Doing(a, "send")
  /\ network_break_flag' = FALSE
  /\ \/ sock # 0 /\ Succeed(a) /\ UNCHANGED wire
     \/ Fail(a)
  /\ UNCHANGED <<threads, connected, gui, history>>

\* A send that meets the flag takes it down.
sendSNAC(a) ==
  /\ Doing(a, "send")
  /\ network_break_flag' = FALSE
  /\ \/ ~network_break_flag /\ sock # 0 /\ Succeed(a) /\ UNCHANGED wire
     \/ Fail(a)
  /\ UNCHANGED <<threads, connected, gui, history>>

\* A reply that is in the cache is found whatever has happened since.
waitSNAC(a) ==
  /\ Doing(a, "wait")
  /\ \/ Succeed(a) /\ UNCHANGED wire
     \/ Fail(a)
  /\ UNCHANGED <<network_break_flag, threads, connected, gui, history>>

startReadSNAC(a) ==
  /\ Doing(a, "spawn")
  /\ threadWaitSNAC' = <<a, at[a]>>
  /\ readers' = readers \cup {threadWaitSNAC'}
  /\ Succeed(a)
  /\ UNCHANGED <<wire, network_break_flag, keepers, keepConnect, connected, gui, history>>

\* Mutant: the reader of the first connection is left running.
sendSignOff_KeepsReader(a) ==
  /\ Doing(a, "signOff")
  /\ Close
  /\ Succeed(a)
  /\ UNCHANGED <<opened, network_break_flag, threads, connected, gui, history>>

\* The end of doConnect: its connection is closed and its reader cancelled.
sendSignOff(a) ==
  /\ Doing(a, "signOff")
  /\ \/ /\ Close
        /\ readers' = readers \ {threadWaitSNAC}
        /\ Succeed(a)
        /\ UNCHANGED <<opened, network_break_flag, threadWaitSNAC, keepers, keepConnect,
                       connected, gui, history>>
     \/ threadWaitSNAC \notin readers /\ Crash

\* The status of the last session is set again, if the user wants that; the
\* answers are not looked at.
restore(a) ==
  /\ Doing(a, "restore")
  /\ network_break_flag' \in {network_break_flag, FALSE}
  /\ Succeed(a)
  /\ UNCHANGED <<wire, threads, connected, gui, history>>

announce(a) ==
  /\ Doing(a, "announce")
  /\ connected' = TRUE
  /\ Succeed(a)
  /\ UNCHANGED <<wire, network_break_flag, threads, gui, history>>

onConnectChange(online) == messages' = Append(messages, online)

emitConnected(a) ==
  /\ Doing(a, "emit")
  /\ onConnectChange(TRUE)
  /\ Succeed(a)
  /\ UNCHANGED <<wire, network_break_flag, threads, connected, dialog, menu, history>>

\* It asks, collects and deletes, and gives up at the first failure; whatever
\* becomes of it, mainLoop is next.  Both sends look at the flag, the wait between
\* them does not.
getOfflineMessages(a) ==
  /\ Doing(a, "offline")
  /\ network_break_flag' \in {network_break_flag, FALSE}
  /\ Succeed(a)
  /\ UNCHANGED <<wire, threads, connected, gui, history>>

mainLoop(a) ==
  /\ Doing(a, "mainLoop")
  /\ keepers' = keepers \cup {a} /\ keepConnect' = a
  /\ Go(a, Over)
  /\ UNCHANGED <<wire, network_break_flag, readers, threadWaitSNAC, connected, gui, history>>

\* Mutant: the threads are not cancelled when an attempt has failed.
reportFailure_NoDisconnect(a) ==
  /\ at[a] = Report
  /\ connected' = FALSE
  /\ Go(a, Over)
  /\ IF network_break_flag THEN UNCHANGED messages ELSE onConnectChange(FALSE)
  /\ UNCHANGED <<wire, threads, network_break_flag, dialog, menu, history>>

\* zICQ::Connect when doConnect has failed; nothing is said if the user broke
\* it off.
reportFailure(a) ==
  /\ at[a] = Report
  /\ \/ /\ connected' = FALSE
        /\ Go(a, Over)
        /\ IF network_break_flag
           THEN UNCHANGED <<wire, threads, messages>>
           ELSE doDisconnect /\ onConnectChange(FALSE)
        /\ UNCHANGED <<network_break_flag, dialog, menu, history>>
     \/ ~network_break_flag /\ Stale /\ Crash

-----------------------------------------------------------------------------
(* The reader and the keep-alive threads *)

readerBreaks(r) ==
  /\ network_break_flag
  /\ readers' = readers \ {r}
  /\ UNCHANGED <<at, wire, network_break_flag, threadWaitSNAC, keepers, keepConnect, connected,
                 gui, history>>

\* The server ends the session: the reader returns.  It emits onSingOff, to which no slot
\* is connected, so that the socket, the state and the menu stay as they are.
singOff(r) ==
  /\ sock # 0
  /\ readers' = readers \ {r}
  /\ faults' = faults \cup {"kicked"}
  /\ UNCHANGED <<at, wire, network_break_flag, threadWaitSNAC, keepers, keepConnect, connected,
                 gui, cancelled>>

keeperBreaks(k) ==
  /\ network_break_flag
  /\ keepers' = keepers \ {k}
  /\ UNCHANGED <<at, wire, network_break_flag, readers, threadWaitSNAC, keepConnect, connected,
                 gui, history>>

\* A keep-alive that meets the flag takes it down, as any send does.
sendKeepAlive(k) ==
  /\ network_break_flag
  /\ network_break_flag' = FALSE
  /\ faults' = IF readers # {} \/ \E a \in Attempts : Running(a) THEN faults \cup {"taken"}
               ELSE faults
  /\ UNCHANGED <<at, wire, threads, connected, gui, cancelled>>

-----------------------------------------------------------------------------
(* The GUI thread *)

\* An attempt, in a thread of its own.
menu_connect ==
  /\ ~connected /\ ~dialog
  /\ \E a \in Attempts :
       /\ at[a] = 0 /\ \A b \in 1 .. a - 1 : at[b] # 0
       /\ Go(a, 1)
  /\ dialog' = TRUE
  /\ faults' = IF \E a \in Attempts : Running(a) THEN faults \cup {"overlap"} ELSE faults
  /\ UNCHANGED <<wire, network_break_flag, threads, connected, menu, messages, cancelled>>

Late == IF \E a \in Attempts : at[a] \in LastCheck + 1 .. MainLoop THEN {"late"} ELSE {}

\* Mutant: the GUI is not told.
Disconnect_Silent ==
  /\ connected /\ ~dialog
  /\ connected' = FALSE
  /\ doDisconnect
  /\ faults' = faults \cup Late
  /\ UNCHANGED <<at, network_break_flag, gui, cancelled>>

Disconnect ==
  /\ connected /\ ~dialog
  /\ \/ /\ connected' = FALSE
        /\ doDisconnect
        /\ onConnectChange(FALSE)
        /\ faults' = faults \cup Late
        /\ UNCHANGED <<at, network_break_flag, dialog, menu, cancelled>>
     \/ Stale /\ Crash

\* cancellICQ, breakNetworkOperation; the dialog closes itself.
cancellICQ ==
  /\ dialog
  /\ \/ /\ dialog' = FALSE
        /\ network_break_flag' = TRUE
        /\ connected' = FALSE
        /\ doDisconnect
        /\ onConnectChange(FALSE)
        /\ cancelled' = cancelled \cup {a \in Attempts : at[a] \in 1 .. LastCheck}
        /\ faults' = faults \cup Late
        /\ UNCHANGED <<at, menu>>
     \/ Stale /\ Crash

\* siganalReceived
handleConnectChange ==
  /\ messages # <<>>
  /\ dialog' = FALSE
  /\ menu' = IF Head(messages) THEN "online" ELSE "offline"
  /\ messages' = Tail(messages)
  /\ UNCHANGED <<at, wire, network_break_flag, threads, connected, history>>

-----------------------------------------------------------------------------
\* A step of an attempt that waits for nobody, or not without limit.
Proceed(a) ==
  \/ begin(a) \/ directConnect(a) \/ sendSignOn(a) \/ sendSNAC(a) \/ waitSNAC(a)
  \/ startReadSNAC(a) \/ sendSignOff(a)
  \/ restore(a) \/ announce(a) \/ emitConnected(a) \/ getOfflineMessages(a) \/ mainLoop(a)
  \/ reportFailure(a)
  \/ sock = 0 /\ waitHello(a)

Next ==
  \/ \E a \in Attempts : Proceed(a) \/ waitHello(a)
  \/ \E r \in readers : readerBreaks(r) \/ singOff(r)
  \/ \E k \in keepers : keeperBreaks(k) \/ sendKeepAlive(k)
  \/ menu_connect \/ Disconnect \/ cancellICQ \/ handleConnectChange

Spec == Init /\ [][Next]_vars

-----------------------------------------------------------------------------
(* Properties *)

\* The values the variables may have; sock never names a closed connection.
TypeOK ==
  /\ at \in [Attempts -> 0 .. Over]
  /\ opened \in Nat /\ open \subseteq 1 .. opened /\ sock \in open \cup {0}
  /\ network_break_flag \in BOOLEAN
  /\ readers \subseteq Readers /\ threadWaitSNAC \in Readers \cup {NoReader}
  /\ keepers \subseteq Attempts /\ keepConnect \in Attempts \cup {0}
  /\ connected \in BOOLEAN
  /\ dialog \in BOOLEAN /\ menu \in {"online", "offline"} /\ messages \in Seq(BOOLEAN)
  /\ cancelled \subseteq Attempts /\ faults \subseteq Faults

\* No reader takes away the hello an attempt waits for in its own thread.
HelloIsOwn ==
  faults \cap {"overlap", "taken"} = {} => \A a \in Attempts : Doing(a, "hello") => readers = {}

\* An attempt cancelled before its last look at the flag does not come online, unless it
\* was cancelled before Connect.
CancelWorks ==
  faults \cap {"early", "overlap", "taken"} = {} =>
    \A a \in cancelled : at[a] \notin LastCheck + 1 .. Len(Script)

\* No connection is left open but the one in use.
NoLeak == "overlap" \notin faults => open \subseteq {sock}

\* A user who is online has a connection and one thread that keeps it alive, and one that
\* reads it, until the server ends the session.
OnlineIsLive ==
  connected /\ (\A a \in Attempts : ~Running(a)) /\ faults \cap {"overlap", "late"} = {} =>
    /\ sock # 0 /\ Cardinality(keepers) = 1
    /\ Cardinality(readers) <= 1 /\ (readers = {} => "kicked" \in faults)

\* With nothing under way the menu shown is the one for the state.
MenuTells ==
  messages = <<>> /\ (\A a \in Attempts : ~Running(a)) /\ faults \cap {"overlap", "late"} = {} =>
    (menu = "online" <=> connected)

\* What the user is told, and has, is a session: the connections, the threads and the menu
\* agree once the attempts are over.
SessionTrue == NoLeak /\ OnlineIsLive /\ MenuTells
=============================================================================
