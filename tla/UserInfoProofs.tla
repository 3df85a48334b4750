--------------------------- MODULE UserInfoProofs ---------------------------
(***************************************************************************)
(* A theorem about UserInfo for any number of dialogs and contacts: whose   *)
(* dialog a thread changes.  It does not depend on what the bytes of an     *)
(* answer say.                                                             *)
(***************************************************************************)
EXTENDS UserInfo, SequenceTheorems, TLAPS

-----------------------------------------------------------------------------
(* The invariant *)

ThreadFields == {"at", "uin", "req_id", "info", "cancelled"}
Stages == {"new", "ask", "wait", "show", "exit", "end"}

ThreadShape ==
  /\ dialogs \in Nat /\ DOMAIN threads = ThreadsOf
  /\ \A n \in ThreadsOf : n <= dialogs => DOMAIN threads[n] = ThreadFields /\ threads[n].at \in Stages
  /\ \A n \in ThreadsOf : n > dialogs => threads[n].at = "none"

DialogShape ==
  /\ gui = "dialog" <=> dialog # NoDialog
  /\ dialog # NoDialog => /\ DOMAIN dialog = {"uin", "no", "pthreadExit", "shown"}
                          /\ dialog.uin \in Contacts
                          /\ dialog.no = dialogs /\ dialog.no \in ThreadsOf

Shape == ThreadShape /\ DialogShape

\* A thread that goes on is that of the open dialog, or it was cancelled.
Bound ==
  \A n \in ThreadsOf : threads[n].at \notin {"none", "end"} => Own(n) \/ threads[n].cancelled

\* What the thread of the open dialog has shown, and knows, is of the dialog's contact.
Shows(n) ==
  /\ threads[n].at \in {"new", "ask", "wait", "show"} => dialog.shown = <<>>
  /\ threads[n].at = "wait" => threads[n].uin = dialog.uin
  /\ threads[n].at = "show" => /\ dialog.uin \in DOMAIN userfullinfo_map
                               /\ threads[n].info = userfullinfo_map[dialog.uin]
  /\ \A i \in DOMAIN dialog.shown :
       /\ i = 1 /\ dialog.uin \in DOMAIN userfullinfo_map
       /\ dialog.shown[i] = showInfo(userfullinfo_map[dialog.uin])

Late0(fs) == "unset" \notin fs /\ "late" \notin fs

Tame ==
  Late0(faults) => /\ "stray" \notin faults /\ Bound
                   /\ \A n \in ThreadsOf : Own(n) => Shows(n)

Inv == Shape /\ Tame

-----------------------------------------------------------------------------
(* Steps of the rest *)

\* A request changes nothing but the connection and the server.
LEMMA SendFaults ==
  ASSUME NEW data, sendSNAC(data)
  PROVE  faults' \in {faults, faults \cup {"refused"}}
  <1>1. ASSUME NEW v, Serves(snac_seq_number, v) PROVE faults' \in {faults, faults \cup {"refused"}}
    <2>1. ASSUME NEW r, ServesInfo(r, v) PROVE faults' \in {faults, faults \cup {"refused"}}
      BY <2>1 DEF ServesInfo
    <2>2. ASSUME NEW r, NEW k, NEW b, ServesChange(r, k, b)
          PROVE  faults' \in {faults, faults \cup {"refused"}}
      BY <2>2 DEF ServesChange
    <2>3. ASSUME NEW r, NEW f, ServesSearch(r, f) PROVE faults' \in {faults, faults \cup {"refused"}}
      BY <2>3 DEF ServesSearch
    <2> QED
      BY <1>1, <2>1, <2>2, <2>3 DEF Serves
  <1> QED
    BY <1>1 DEF sendSNAC

\* No thread, no dialog and nothing that dialogs show.
Apart ==
  /\ UNCHANGED <<threads, dialog, dialogs, userfullinfo_map>>
  /\ gui' = "dialog" <=> gui = "dialog"
  /\ faults' \in {faults, faults \cup {"refused"}, faults \cup {"lost"}, faults \cup {"timeout"}}

LEMMA ApartKeeps == ASSUME Inv, Apart PROVE Inv'
  <1>1. Shape'
    BY DEF Inv, Shape, ThreadShape, DialogShape, Apart
  <1>2. Late0(faults') <=> Late0(faults)
    BY DEF Apart, Late0
  <1>3. "stray" \in faults' <=> "stray" \in faults
    BY DEF Apart
  <1>4. \A n \in ThreadsOf : Own(n)' <=> Own(n)
    BY DEF Own, Apart
  <1>5. Bound => Bound'
    BY <1>4 DEF Bound, Apart
  <1>6. \A n \in ThreadsOf : Shows(n) => Shows(n)'
    BY DEF Shows, Apart
  <1> QED
    BY <1>1, <1>2, <1>3, <1>4, <1>5, <1>6 DEF Inv, Tame

LEMMA OthersApart ==
  ASSUME Changes \/ readSNAC \/ Breaks \/ Connect \/ addContactToList \/ getShortInfo
         \/ getShortInfoFails \/ Answered \/ Publish \/ ChangePassword \/ SearchUIN
         \/ SearchWhitePages \/ CollectAnswer \/ CallFails
  PROVE  Apart
  <1>1. CASE Changes
    BY <1>1 DEF Changes, ui, maps, Apart
  <1>2. CASE readSNAC
    BY <1>2 DEF readSNAC, ui, maps, Apart
  <1>3. CASE Breaks
    BY <1>3 DEF Breaks, ui, maps, Apart
  <1>4. CASE Connect
    BY <1>4 DEF Connect, ui, maps, Apart
  <1>5. CASE addContactToList
    <2>1. gui = "idle" /\ gui' \in {"question", "short", "idle"}
      BY <1>5 DEF addContactToList, MayBegin
    <2>2. faults' \in {faults, faults \cup {"refused"}}
      BY <1>5, SendFaults DEF addContactToList
    <2>3. UNCHANGED <<threads, dialog, dialogs, userfullinfo_map>>
      BY <1>5 DEF addContactToList, maps
    <2> QED
      BY <2>1, <2>2, <2>3 DEF Apart
  <1>6. CASE getShortInfo
    BY <1>6 DEF getShortInfo, Apart
  <1>7. CASE getShortInfoFails
    BY <1>7 DEF getShortInfoFails, GivesUp, maps, Apart
  <1>8. CASE Answered
    BY <1>8 DEF Answered, maps, Apart
  <1>9. ASSUME NEW kind, NEW info, NEW uin, NEW data, Calls(kind, info, uin, data) PROVE Apart
    <2>1. gui = "idle" /\ gui' \in {"call", "idle"}
      BY <1>9 DEF Calls, MayBegin
    <2>2. faults' \in {faults, faults \cup {"refused"}}
      BY <1>9, SendFaults DEF Calls
    <2>3. UNCHANGED <<threads, dialog, dialogs, userfullinfo_map>>
      BY <1>9 DEF Calls, maps
    <2> QED
      BY <2>1, <2>2, <2>3 DEF Apart
  <1>10. CASE Publish \/ ChangePassword \/ SearchUIN \/ SearchWhitePages
    BY <1>9, <1>10 DEF Publish, ChangePassword, SearchUIN, SearchWhitePages
  <1>11. CASE CollectAnswer
    <2>1. gui = "call" /\ gui' \in {"call", "idle"} /\ UNCHANGED <<threads, dialog, dialogs, faults, maps>>
      BY <1>11 DEF CollectAnswer, Returns
    <2> QED
      BY <2>1 DEF Apart, maps
  <1>12. CASE CallFails
    BY <1>12 DEF CallFails, Returns, GivesUp, maps, Apart
  <1> QED
    BY <1>1, <1>2, <1>3, <1>4, <1>5, <1>6, <1>7, <1>8, <1>10, <1>11, <1>12

-----------------------------------------------------------------------------
(* Steps of a thread *)

LEMMA Opened ==
  ASSUME Inv, dialog # NoDialog
  PROVE  /\ DOMAIN dialog = {"uin", "no", "pthreadExit", "shown"} /\ dialog.uin # Nobody
         /\ dialog.no = dialogs
  BY UserInfoAssumption DEF Inv, Shape, DialogShape, Nobody

\* A thread goes on to r, and changes at most a dialog that is its own.
LEMMA ThreadKeeps ==
  ASSUME Inv, NEW n \in ThreadsOf, threads[n].at \notin {"none", "end"},
         NEW r, DOMAIN r = ThreadFields, r.at \in Stages, threads' = [threads EXCEPT ![n] = r],
         UNCHANGED <<dialogs, gui>>, faults \subseteq faults',
         \/ dialog' = dialog
         \/ /\ dialog # NoDialog /\ DOMAIN dialog' = DOMAIN dialog
            /\ dialog'.uin = dialog.uin /\ dialog'.no = dialog.no,
         Late0(faults') => /\ r.at # "end" => r.cancelled = threads[n].cancelled
                           /\ "stray" \in faults' => "stray" \in faults
                           /\ ~Own(n) => UNCHANGED <<dialog, userfullinfo_map>>
                           /\ Own(n) => Shows(n)'
  PROVE  Inv'
  <1>1. /\ threads'[n] = r /\ DOMAIN threads' = ThreadsOf
        /\ \A m \in ThreadsOf : m # n => threads'[m] = threads[m]
    BY DEF Inv, Shape, ThreadShape
  <1>2. n <= dialogs
    BY DEF Inv, Shape, ThreadShape, ThreadsOf
  <1>3. ThreadShape'
    BY <1>1, <1>2 DEF Inv, Shape, ThreadShape, ThreadsOf
  <1>4. dialog' # NoDialog <=> dialog # NoDialog
    BY Opened DEF NoDialog
  <1>5. DialogShape'
    BY <1>4 DEF Inv, Shape, DialogShape, ThreadsOf
  <1>6. \A m \in ThreadsOf : Own(m)' <=> Own(m)
    BY <1>4 DEF Own
  <1>7. ASSUME Late0(faults')
        PROVE  /\ "stray" \notin faults' /\ Bound'
               /\ \A m \in ThreadsOf : Own(m)' => Shows(m)'
    <2>1. "stray" \notin faults /\ Bound /\ \A m \in ThreadsOf : Own(m) => Shows(m)
      BY <1>7 DEF Inv, Tame, Late0
    <2>2. Bound'
      <3>1. ASSUME NEW m \in ThreadsOf, threads'[m].at \notin {"none", "end"}
            PROVE  Own(m) \/ threads'[m].cancelled
        <4>1. CASE m = n
          BY <1>1, <1>7, <2>1, <3>1, <4>1 DEF Bound
        <4>2. CASE m # n
          BY <1>1, <2>1, <3>1, <4>2 DEF Bound
        <4> QED
          BY <4>1, <4>2
      <3> QED
        BY <1>6, <3>1 DEF Bound
    <2>3. ASSUME NEW m \in ThreadsOf, Own(m) PROVE Shows(m)'
      <3>1. CASE m = n
        BY <1>7, <2>3, <3>1
      <3>2. CASE m # n
        <4>1. ~Own(n)
          BY <2>3, <3>2 DEF Own
        <4>2. UNCHANGED <<dialog, userfullinfo_map>> /\ threads'[m] = threads[m]
          BY <1>1, <1>7, <3>2, <4>1
        <4> QED
          BY <2>1, <2>3, <4>2 DEF Shows
      <3> QED
        BY <3>1, <3>2
    <2> QED
      BY <1>6, <1>7, <2>1, <2>2, <2>3
  <1> QED
    BY <1>3, <1>5, <1>7 DEF Inv, Shape, Tame

LEMMA Going == 
  ASSUME Inv, NEW n \in ThreadsOf, threads[n].at # "none"
  PROVE  n <= dialogs /\ ThreadShape /\ DOMAIN threads[n] = ThreadFields
  BY DEF Inv, Shape, ThreadShape, ThreadsOf

\* It takes hold of a dialog that is not its own only if it was cancelled.
LEMMA Held ==
  ASSUME Inv, NEW n \in ThreadsOf, threads[n].at \notin {"none", "end"},
         faults \subseteq faults', threads[n].cancelled => "late" \in faults', Late0(faults')
  PROVE  Own(n) /\ Shows(n)
  BY DEF Inv, Tame, Bound, Late0

LEMMA TouchIs ==
  ASSUME NEW n, NEW d, Touch(n, d)
  PROVE  /\ faults \subseteq faults' /\ (threads[n].cancelled => "late" \in faults')
         /\ "stray" \in faults' => "stray" \in faults \/ ~Own(n)
         /\ dialog' = IF dialog = NoDialog THEN NoDialog ELSE d
  BY DEF Touch

LEMMA KeepsBegin ==
  ASSUME Inv, NEW n \in ThreadsOf, Begin(n)
  PROVE  Inv'
  <1>1. /\ threads[n].at = "new" /\ threads' = [threads EXCEPT ![n].at = "ask"]
        /\ Touch(n, [dialog EXCEPT !.pthreadExit = FALSE])
        /\ UNCHANGED <<dialogs, gui, userfullinfo_map>>
    BY DEF Begin, maps
  <1> DEFINE r == [threads[n] EXCEPT !.at = "ask"]
  <1>2. DOMAIN threads[n] = {"at", "uin", "req_id", "info", "cancelled"} /\ DOMAIN threads = ThreadsOf
    BY <1>1, Going DEF ThreadShape, ThreadFields
  <1>6. threads' = [threads EXCEPT ![n] = r]
    BY <1>1, <1>2
  <1>7. DOMAIN r = ThreadFields /\ r.at = "ask" /\ r.cancelled = threads[n].cancelled
    BY <1>2 DEF ThreadFields
  <1> HIDE DEF r
  <1>3. \/ dialog' = dialog
        \/ /\ dialog # NoDialog /\ DOMAIN dialog' = DOMAIN dialog
           /\ dialog'.uin = dialog.uin /\ dialog'.no = dialog.no /\ dialog'.shown = dialog.shown
    BY <1>1, TouchIs, Opened
  <1>4. ASSUME Late0(faults')
        PROVE  Own(n) /\ ("stray" \in faults' => "stray" \in faults) /\ Shows(n)'
    <2>1. Own(n) /\ Shows(n)
      BY <1>1, <1>4, Held, TouchIs
    <2>2. "stray" \in faults' => "stray" \in faults
      BY <1>1, <2>1, TouchIs
    <2>3. dialog'.shown = dialog.shown /\ dialog'.uin = dialog.uin
      BY <1>3
    <2>4. threads'[n].at = "ask"
      BY <1>6, <1>7 DEF Inv, Shape, ThreadShape
    <2> QED
      BY <1>1, <2>1, <2>2, <2>3, <2>4 DEF Shows
  <1> QED
    BY <1>1, <1>3, <1>4, <1>6, <1>7, TouchIs, ThreadKeeps DEF Stages

LEMMA KeepsExit ==
  ASSUME Inv, NEW n \in ThreadsOf, Exit(n)
  PROVE  Inv'
  <1>1. /\ threads[n].at = "exit" /\ threads' = [threads EXCEPT ![n] = Ended]
        /\ Touch(n, [dialog EXCEPT !.pthreadExit = TRUE])
        /\ UNCHANGED <<dialogs, gui, userfullinfo_map>>
    BY DEF Exit, maps
  <1>2. DOMAIN Ended = ThreadFields /\ Ended.at = "end"
    BY DEF Ended, ThreadFields
  <1>3. \/ dialog' = dialog
        \/ /\ dialog # NoDialog /\ DOMAIN dialog' = DOMAIN dialog
           /\ dialog'.uin = dialog.uin /\ dialog'.no = dialog.no /\ dialog'.shown = dialog.shown
    BY <1>1, TouchIs, Opened
  <1>4. ASSUME Late0(faults')
        PROVE  Own(n) /\ ("stray" \in faults' => "stray" \in faults) /\ Shows(n)'
    <2>1. Own(n) /\ Shows(n)
      BY <1>1, <1>4, Held, TouchIs
    <2>2. "stray" \in faults' => "stray" \in faults
      BY <1>1, <2>1, TouchIs
    <2>3. dialog'.shown = dialog.shown /\ dialog'.uin = dialog.uin
      BY <1>3
    <2>4. threads'[n].at = "end"
      BY <1>1, <1>2 DEF Inv, Shape, ThreadShape
    <2> QED
      BY <1>1, <2>1, <2>2, <2>3, <2>4 DEF Shows
  <1> QED
    BY <1>1, <1>2, <1>3, <1>4, TouchIs, ThreadKeeps DEF Stages

LEMMA KeepsShow ==
  ASSUME Inv, NEW n \in ThreadsOf, Show(n)
  PROVE  Inv'
  <1>1. /\ threads[n].at = "show" /\ threads' = [threads EXCEPT ![n].at = "exit"]
        /\ Touch(n, [dialog EXCEPT !.shown = Append(@, showInfo(threads[n].info))])
        /\ UNCHANGED <<dialogs, gui, userfullinfo_map>>
    BY DEF Show, maps
  <1> DEFINE r == [threads[n] EXCEPT !.at = "exit"]
  <1>2. DOMAIN threads[n] = {"at", "uin", "req_id", "info", "cancelled"} /\ DOMAIN threads = ThreadsOf
    BY <1>1, Going DEF ThreadShape, ThreadFields
  <1>6. threads' = [threads EXCEPT ![n] = r]
    BY <1>1, <1>2
  <1>7. DOMAIN r = ThreadFields /\ r.at = "exit" /\ r.cancelled = threads[n].cancelled
    BY <1>2 DEF ThreadFields
  <1> HIDE DEF r
  <1>3. \/ dialog' = dialog
        \/ /\ dialog # NoDialog /\ DOMAIN dialog' = DOMAIN dialog
           /\ dialog'.uin = dialog.uin /\ dialog'.no = dialog.no
           /\ dialog'.shown = Append(dialog.shown, showInfo(threads[n].info))
    BY <1>1, TouchIs, Opened
  <1>4. ASSUME Late0(faults')
        PROVE  Own(n) /\ ("stray" \in faults' => "stray" \in faults) /\ Shows(n)'
    <2>1. Own(n) /\ Shows(n)
      BY <1>1, <1>4, Held, TouchIs
    <2>2. "stray" \in faults' => "stray" \in faults
      BY <1>1, <2>1, TouchIs
    <2>3. PICK x : x = showInfo(userfullinfo_map[dialog.uin])
      OBVIOUS
    <2>4. dialog # NoDialog /\ dialog.shown = <<>> /\ x = showInfo(threads[n].info)
          /\ dialog.uin \in DOMAIN userfullinfo_map
      BY <1>1, <2>1, <2>3 DEF Shows, Own
    <2>5. dialog' = [dialog EXCEPT !.shown = Append(@, showInfo(threads[n].info))]
      BY <1>1, <2>4, TouchIs
    <2>6. dialog'.shown = Append(<<>>, x) /\ dialog'.uin = dialog.uin
      BY <2>4, <2>5, Opened
    <2>7. Append(<<>>, x) \in Seq({x}) /\ Len(Append(<<>>, x)) = 1 /\ Append(<<>>, x)[1] = x
      BY EmptySeq, AppendProperties
    <2>8. DOMAIN dialog'.shown = 1 .. 1 /\ dialog'.shown[1] = x
      BY <2>6, <2>7, LenProperties
    <2>9. threads'[n].at = "exit"
      BY <1>6, <1>7 DEF Inv, Shape, ThreadShape
    <2>10. \A i \in DOMAIN dialog'.shown : i = 1
      BY <2>8
    <2> QED
      BY <1>1, <2>1, <2>2, <2>3, <2>4, <2>6, <2>8, <2>9, <2>10 DEF Shows
  <1>5. \/ dialog' = dialog
        \/ /\ dialog # NoDialog /\ DOMAIN dialog' = DOMAIN dialog
           /\ dialog'.uin = dialog.uin /\ dialog'.no = dialog.no
    BY <1>3
  <1> QED
    BY <1>1, <1>4, <1>5, <1>6, <1>7, TouchIs, ThreadKeeps DEF Stages

\* It ends, or goes to its end, with the dialogs as they are.
LEMMA KeepsLeave ==
  ASSUME Inv, NEW n \in ThreadsOf, threads[n].at \notin {"none", "end"},
         UNCHANGED <<dialog, dialogs, gui, userfullinfo_map>>,
         \/ threads' = [threads EXCEPT ![n].at = "exit"]
         \/ threads' = [threads EXCEPT ![n] = Ended],
         faults' \in {faults, faults \cup {"timeout"}, faults \cup {"late"}}
  PROVE  Inv'
  <1>1. PICK r : /\ threads' = [threads EXCEPT ![n] = r] /\ DOMAIN r = ThreadFields
                 /\ \/ r.at = "exit" /\ r.cancelled = threads[n].cancelled
                    \/ r.at = "end"
    <2>1. DOMAIN Ended = ThreadFields /\ Ended.at = "end"
      BY DEF Ended, ThreadFields
    <2>3. CASE threads' = [threads EXCEPT ![n].at = "exit"]
      <3> DEFINE s == [threads[n] EXCEPT !.at = "exit"]
      <3>1. DOMAIN threads[n] = {"at", "uin", "req_id", "info", "cancelled"} /\ DOMAIN threads = ThreadsOf
        BY Going DEF ThreadShape, ThreadFields
      <3>2. threads' = [threads EXCEPT ![n] = s]
        BY <2>3, <3>1
      <3>3. DOMAIN s = ThreadFields /\ s.at = "exit" /\ s.cancelled = threads[n].cancelled
        BY <3>1 DEF ThreadFields
      <3> HIDE DEF s
      <3> QED
        BY <3>2, <3>3
    <2>4. CASE threads' = [threads EXCEPT ![n] = Ended]
      BY <2>1, <2>4, Zenon
    <2> QED
      BY <2>3, <2>4
  <1>2. ASSUME Late0(faults'), Own(n) PROVE Shows(n)'
    <2>1. Shows(n)
      BY <1>2 DEF Inv, Tame, Late0
    <2>2. threads'[n].at \in {"exit", "end"}
      BY <1>1 DEF Inv, Shape, ThreadShape
    <2> QED
      BY <2>1, <2>2 DEF Shows
  <1>3. "stray" \in faults' => "stray" \in faults
    OBVIOUS
  <1> QED
    BY <1>1, <1>2, <1>3, ThreadKeeps DEF Stages

\* A map with an entry set.
LEMMA WithHas ==
  ASSUME NEW map, NEW uin, NEW info
  PROVE  uin \in DOMAIN With(map, uin, info) /\ With(map, uin, info)[uin] = info
  BY DEF With

\* What getFullInfo does to the threads and to userfullinfo_map.
LEMMA Gets ==
  ASSUME NEW n, getFullInfo(n)
  PROVE  \/ /\ threads' = [threads EXCEPT ![n].at = "exit"]
            /\ UNCHANGED userfullinfo_map
         \/ /\ \E info : threads' = [threads EXCEPT ![n].info = info]
            /\ UNCHANGED userfullinfo_map
         \/ \E info : /\ userfullinfo_map' = With(userfullinfo_map, threads[n].uin, info)
                      /\ threads' = [threads EXCEPT ![n].at = "show", ![n].info = info]
  <1>1. PICK read, last : Understands(n, read, last)
    BY DEF getFullInfo
  <1> DEFINE infos == {("Uin" :> threads[n].uin) @@ r : r \in read}
  <1>2. \/ /\ threads' = [threads EXCEPT ![n].at = "exit"]
           /\ UNCHANGED userfullinfo_map
        \/ /\ \E info \in read : threads' = [threads EXCEPT ![n].info = info]
           /\ UNCHANGED userfullinfo_map
        \/ \E info \in infos : /\ userfullinfo_map' = With(userfullinfo_map, threads[n].uin, info)
                              /\ threads' = [threads EXCEPT ![n].at = "show", ![n].info = info]
    BY <1>1, Zenon DEF Understands
  <1> HIDE DEF infos
  <1> QED
    BY <1>2

LEMMA KeepsGet ==
  ASSUME Inv, NEW n \in ThreadsOf, getFullInfo(n)
  PROVE  Inv'
  <1>2. /\ threads[n].at = "wait" /\ Late(n)
        /\ UNCHANGED <<dialog, dialogs, gui>>
    BY DEF getFullInfo, ui
  <1>3. /\ faults \subseteq faults' /\ (threads[n].cancelled => "late" \in faults')
        /\ "stray" \in faults' => "stray" \in faults
    BY <1>2 DEF Late
  <1>4. ASSUME Late0(faults') PROVE Own(n) /\ Shows(n)
    BY <1>2, <1>3, <1>4, Held
  <1>5. DOMAIN threads[n] = {"at", "uin", "req_id", "info", "cancelled"} /\ DOMAIN threads = ThreadsOf
    BY <1>2, Going DEF ThreadShape, ThreadFields
  <1>6. CASE threads' = [threads EXCEPT ![n].at = "exit"] /\ UNCHANGED userfullinfo_map
    BY <1>2, <1>6, KeepsLeave DEF Late
  <1>7. CASE /\ \E info : threads' = [threads EXCEPT ![n].info = info]
             /\ UNCHANGED userfullinfo_map
    <2>1. PICK info : threads' = [threads EXCEPT ![n].info = info]
      BY <1>7
    <2> DEFINE r == [threads[n] EXCEPT !.info = info]
    <2>2. threads' = [threads EXCEPT ![n] = r]
      BY <1>5, <2>1
    <2>3. DOMAIN r = ThreadFields /\ r.at = "wait" /\ r.cancelled = threads[n].cancelled /\ r.uin = threads[n].uin
      BY <1>2, <1>5 DEF ThreadFields
    <2> HIDE DEF r
    <2>4. threads'[n] = r
      BY <1>5, <2>2
    <2>5. ASSUME Late0(faults') PROVE Own(n) /\ Shows(n)'
      BY <1>2, <1>4, <1>7, <2>3, <2>4, <2>5 DEF Shows
    <2> QED
      BY <1>2, <1>3, <2>2, <2>3, <2>5, ThreadKeeps DEF Stages
  <1>8. CASE \E info :
               /\ userfullinfo_map' = With(userfullinfo_map, threads[n].uin, info)
               /\ threads' = [threads EXCEPT ![n].at = "show", ![n].info = info]
    <2>1. PICK info : /\ userfullinfo_map' = With(userfullinfo_map, threads[n].uin, info)
                      /\ threads' = [threads EXCEPT ![n].at = "show", ![n].info = info]
      BY <1>8
    <2> DEFINE r == [threads[n] EXCEPT !.at = "show", !.info = info]
    <2>2. threads' = [threads EXCEPT ![n] = r]
      BY <1>5, <2>1
    <2>3. DOMAIN r = ThreadFields /\ r.at = "show" /\ r.cancelled = threads[n].cancelled /\ r.info = info
      BY <1>5 DEF ThreadFields
    <2> HIDE DEF r
    <2>4. threads'[n] = r
      BY <1>5, <2>2
    <2>0. PICK uin : uin = threads[n].uin
      OBVIOUS
    <2>5. uin \in DOMAIN userfullinfo_map' /\ userfullinfo_map'[uin] = info
      BY <2>0, <2>1, WithHas
    <2>6. ASSUME Late0(faults') PROVE Own(n) /\ Shows(n)'
      <3>1. Own(n) /\ dialog.shown = <<>> /\ uin = dialog.uin
        BY <1>2, <1>4, <2>0, <2>6 DEF Shows
      <3>2. dialog'.shown = <<>> /\ dialog'.uin = uin /\ DOMAIN dialog'.shown = {}
        BY <1>2, <3>1
      <3> QED
        BY <2>3, <2>4, <2>5, <3>1, <3>2 DEF Shows
    <2> QED
      BY <1>2, <1>3, <2>2, <2>3, <2>6, ThreadKeeps DEF Stages
  <1> QED
    BY <1>6, <1>7, <1>8, Gets

\* The thread of an open dialog asks for its contact.
LEMMA KeepsAsk ==
  ASSUME Inv, NEW n \in ThreadsOf, getFullUserInfo(n)
  PROVE  Inv'
  <1>1. threads[n].at = "ask" /\ UNCHANGED <<dialog, dialogs, gui, userfullinfo_map>>
    BY DEF getFullUserInfo, ui, maps
  <1>2. DOMAIN threads[n] = {"at", "uin", "req_id", "info", "cancelled"} /\ DOMAIN threads = ThreadsOf
    BY <1>1, Going DEF ThreadShape, ThreadFields
  <1>3. PICK uin \in Reads(n) :
       \/ /\ uin \in DOMAIN userfullinfo_map
          /\ threads' = [threads EXCEPT ![n].at = "show", ![n].info = userfullinfo_map[uin]]
          /\ Late(n)
       \/ /\ ~threads[n].cancelled
          /\ sendSNAC(askFullInfo(my_uin, uin))
          /\ threads' = [threads EXCEPT ![n].at = IF Sends THEN "wait" ELSE "exit", ![n].uin = uin,
                                        ![n].req_id = snac_seq_number]
       \/ /\ IF network_break_flag
             THEN threads' = [threads EXCEPT ![n].at = "exit"]
             ELSE threads' = [threads EXCEPT ![n] = Ended]
          /\ UNCHANGED faults
    BY Zenon DEF getFullUserInfo
  <1>4. Own(n) => uin = dialog.uin
    BY <1>3 DEF Reads
  <1>5. CASE /\ uin \in DOMAIN userfullinfo_map
             /\ threads' = [threads EXCEPT ![n].at = "show", ![n].info = userfullinfo_map[uin]]
             /\ Late(n)
    <2> DEFINE r == [threads[n] EXCEPT !.at = "show", !.info = userfullinfo_map[uin]]
    <2>1. threads' = [threads EXCEPT ![n] = r]
      BY <1>2, <1>5
    <2>2. DOMAIN r = ThreadFields /\ r.at = "show" /\ r.cancelled = threads[n].cancelled
          /\ r.info = userfullinfo_map[uin]
      BY <1>2 DEF ThreadFields
    <2> HIDE DEF r
    <2>3. threads'[n] = r
      BY <1>2, <2>1
    <2>4. /\ faults \subseteq faults' /\ (threads[n].cancelled => "late" \in faults')
          /\ "stray" \in faults' => "stray" \in faults
      BY <1>5 DEF Late
    <2>5. ASSUME Late0(faults') PROVE Own(n) /\ Shows(n)'
      <3>1. Own(n) /\ Shows(n)
        BY <1>1, <2>4, <2>5, Held
      <3>2. dialog.shown = <<>> /\ uin = dialog.uin
        BY <1>1, <1>4, <3>1 DEF Shows
      <3>3. dialog'.shown = <<>> /\ dialog'.uin = uin /\ DOMAIN dialog'.shown = {}
        BY <1>1, <3>2
      <3> QED
        BY <1>1, <1>5, <2>2, <2>3, <3>1, <3>3 DEF Shows
    <2> QED
      BY <1>1, <2>1, <2>2, <2>4, <2>5, ThreadKeeps DEF Stages
  <1>6. CASE /\ ~threads[n].cancelled
             /\ sendSNAC(askFullInfo(my_uin, uin))
             /\ threads' = [threads EXCEPT ![n].at = IF Sends THEN "wait" ELSE "exit", ![n].uin = uin,
                                           ![n].req_id = snac_seq_number]
    <2> DEFINE stage == IF Sends THEN "wait" ELSE "exit"
    <2>1. stage \in {"wait", "exit"}
      OBVIOUS
    <2>2. threads' = [threads EXCEPT ![n].at = stage, ![n].uin = uin, ![n].req_id = snac_seq_number]
      BY <1>6
    <2> HIDE DEF stage
    <2> DEFINE r == [threads[n] EXCEPT !.at = stage, !.uin = uin, !.req_id = snac_seq_number]
    <2>3. threads' = [threads EXCEPT ![n] = r]
      BY <1>2, <2>2
    <2>4. DOMAIN r = ThreadFields /\ r.at = stage /\ r.cancelled = threads[n].cancelled /\ r.uin = uin
      BY <1>2 DEF ThreadFields
    <2> HIDE DEF r
    <2>5. threads'[n] = r
      BY <1>2, <2>3
    <2>6. faults' \in {faults, faults \cup {"refused"}}
      BY <1>6, SendFaults
    <2>7. ASSUME Late0(faults') PROVE Own(n) /\ Shows(n)'
      <3>1. Own(n) /\ Shows(n)
        BY <1>1, <1>6, <2>6, <2>7, Held
      <3>2. dialog.shown = <<>> /\ uin = dialog.uin
        BY <1>1, <1>4, <3>1 DEF Shows
      <3>3. dialog'.shown = <<>> /\ dialog'.uin = uin /\ DOMAIN dialog'.shown = {}
        BY <1>1, <3>2
      <3> QED
        BY <2>1, <2>4, <2>5, <3>1, <3>3 DEF Shows
    <2> QED
      BY <1>1, <2>1, <2>3, <2>4, <2>6, <2>7, ThreadKeeps DEF Stages
  <1>7. CASE /\ IF network_break_flag
                THEN threads' = [threads EXCEPT ![n].at = "exit"]
                ELSE threads' = [threads EXCEPT ![n] = Ended]
             /\ UNCHANGED faults
    BY <1>1, <1>7, KeepsLeave
  <1> QED
    BY <1>3, <1>5, <1>6, <1>7

LEMMA KeepsThread == ASSUME Inv, NEW n \in ThreadsOf, getInfo(n) PROVE Inv'
  <1>1. CASE getFullInfoFails(n)
    <2>1. /\ threads[n].at = "wait" /\ threads' = [threads EXCEPT ![n].at = "exit"]
          /\ UNCHANGED <<dialog, dialogs, gui, userfullinfo_map>>
          /\ faults' \in {faults, faults \cup {"timeout"}, faults \cup {"late"}}
      BY <1>1 DEF getFullInfoFails, GivesUp, ui, maps
    <2> QED
      BY <2>1, KeepsLeave
  <1>2. CASE Cancelled(n)
    <2>1. /\ threads[n].at = "wait" /\ threads' = [threads EXCEPT ![n] = Ended]
          /\ UNCHANGED <<dialog, dialogs, gui, userfullinfo_map, faults>>
      BY <1>2 DEF Cancelled, ui, maps
    <2> QED
      BY <2>1, KeepsLeave
  <1> QED
    BY <1>1, <1>2, KeepsBegin, KeepsShow, KeepsExit, KeepsGet, KeepsAsk DEF getInfo

-----------------------------------------------------------------------------
(* Steps of the dialog *)

\* A dialog is opened, when there is none, with a thread that has not done anything.
LEMMA KeepsOpen == ASSUME Inv, menu_userInfo PROVE Inv'
  <1>0. PICK n : n = dialogs + 1
    OBVIOUS
  <1> DEFINE t == [at |-> "new", uin |-> Nobody, req_id |-> 0, info |-> NoInfo, cancelled |-> FALSE]
  <1>1. /\ gui = "idle" /\ dialogs < MaxDialogs /\ dialogs' = n /\ gui' = "dialog"
        /\ threads' = [threads EXCEPT ![n] = t] /\ UNCHANGED <<userfullinfo_map, faults>>
    BY <1>0 DEF menu_userInfo, MayBegin, maps
  <1>2. PICK c \in Contacts, set \in BOOLEAN :
          dialog' = [uin |-> c, no |-> n, pthreadExit |-> set, shown |-> <<>>]
    BY <1>0 DEF menu_userInfo
  <1>3. dialogs \in Nat /\ MaxDialogs \in Nat /\ n \in ThreadsOf /\ n # dialogs
    BY <1>0, <1>1, UserInfoAssumption DEF Inv, Shape, ThreadShape, ThreadsOf
  <1>4. DOMAIN t = ThreadFields /\ t.at = "new" /\ t.cancelled = FALSE
    BY DEF ThreadFields
  <1> HIDE DEF t
  <1>5. /\ threads'[n] = t /\ DOMAIN threads' = ThreadsOf
        /\ \A m \in ThreadsOf : m # n => threads'[m] = threads[m]
    BY <1>1, <1>3 DEF Inv, Shape, ThreadShape
  <1>6. ThreadShape'
    <2>1. \A m \in ThreadsOf : m <= n => DOMAIN threads'[m] = ThreadFields /\ threads'[m].at \in Stages
      BY <1>0, <1>3, <1>4, <1>5 DEF Inv, Shape, ThreadShape, ThreadsOf, Stages
    <2>2. \A m \in ThreadsOf : m > n => threads'[m].at = "none"
      BY <1>0, <1>3, <1>5 DEF Inv, Shape, ThreadShape, ThreadsOf
    <2> QED
      BY <1>0, <1>1, <1>3, <1>5, <2>1, <2>2 DEF ThreadShape
  <1>7. /\ DOMAIN dialog' = {"uin", "no", "pthreadExit", "shown"}
        /\ dialog'.uin = c /\ dialog'.no = n /\ dialog'.shown = <<>>
    BY <1>2
  <1>8. dialog' # NoDialog /\ dialog = NoDialog
    <2>1. c # Nobody
      BY UserInfoAssumption DEF Nobody
    <2> QED
      BY <1>1, <1>7, <2>1 DEF NoDialog, Inv, Shape, DialogShape
  <1>9. DialogShape'
    BY <1>1, <1>3, <1>7, <1>8 DEF DialogShape, ThreadsOf
  <1>10. \A m \in ThreadsOf : ~Own(m) /\ (Own(m)' <=> m = n)
    BY <1>7, <1>8 DEF Own
  <1>11. Tame'
    <2> SUFFICES ASSUME Late0(faults) PROVE /\ "stray" \notin faults /\ Bound'
                                            /\ \A m \in ThreadsOf : Own(m)' => Shows(m)'
      BY <1>1 DEF Tame, Late0
    <2>1. "stray" \notin faults /\ Bound
      BY DEF Inv, Tame
    <2>2. Bound'
      BY <1>5, <1>10, <2>1 DEF Bound
    <2>3. DOMAIN dialog'.shown = {}
      BY <1>7
    <2>4. Shows(n)'
      BY <1>4, <1>5, <1>7, <2>3 DEF Shows
    <2> QED
      BY <1>10, <2>1, <2>2, <2>4
  <1> QED
    BY <1>6, <1>9, <1>11 DEF Inv, Shape

\* A dialog is closed: its thread is cancelled, or "unset" is noted, or it has ended.
LEMMA KeepsClose == ASSUME Inv, menu_close PROVE Inv'
  <1> DEFINE n == dialog.no
             r == [threads[n] EXCEPT !.cancelled = @ \/ ~dialog.pthreadExit]
  <1>1. /\ gui = "dialog" /\ gui' = "idle" /\ dialog' = NoDialog
        /\ faults' = IF dialog.pthreadExit /\ threads[n].at # "end" THEN faults \cup {"unset"}
                     ELSE faults
        /\ threads' = [threads EXCEPT ![n].cancelled = @ \/ ~dialog.pthreadExit]
        /\ UNCHANGED <<dialogs, userfullinfo_map>>
    BY DEF menu_close, Closed, Cancel, maps
  <1>2. dialog # NoDialog /\ n \in ThreadsOf /\ n = dialogs /\ dialogs \in Nat
    BY <1>1 DEF Inv, Shape, DialogShape, ThreadShape
  <1>3. DOMAIN threads[n] = {"at", "uin", "req_id", "info", "cancelled"} /\ DOMAIN threads = ThreadsOf
    BY <1>2 DEF Inv, Shape, ThreadShape, ThreadsOf, ThreadFields
  <1>4. threads' = [threads EXCEPT ![n] = r]
    BY <1>1, <1>2, <1>3
  <1>5. DOMAIN r = ThreadFields /\ r.at = threads[n].at
    BY <1>3 DEF ThreadFields
  <1>6. ~dialog.pthreadExit => r.cancelled
    BY <1>3
  <1> HIDE DEF r
  <1>7. /\ threads'[n] = r /\ DOMAIN threads' = ThreadsOf
        /\ \A m \in ThreadsOf : m # n => threads'[m] = threads[m]
    BY <1>2, <1>3, <1>4
  <1>8. ThreadShape'
    BY <1>1, <1>2, <1>5, <1>7 DEF Inv, Shape, ThreadShape, ThreadsOf
  <1>9. DialogShape'
    BY <1>1 DEF DialogShape
  <1>10. \A m \in ThreadsOf : ~Own(m)' /\ (Own(m) => m = n)
    BY <1>1 DEF Own
  <1>11. ASSUME Late0(faults') PROVE "stray" \notin faults' /\ Bound'
    <2>1. Late0(faults) /\ faults' = faults /\ (dialog.pthreadExit => threads[n].at = "end")
      BY <1>1, <1>11 DEF Late0
    <2>2. "stray" \notin faults /\ Bound
      BY <2>1 DEF Inv, Tame
    <2>3. ASSUME NEW m \in ThreadsOf, threads'[m].at \notin {"none", "end"}
          PROVE  threads'[m].cancelled
      <3>1. CASE m = n
        BY <1>5, <1>6, <1>7, <2>1, <2>3, <3>1
      <3>2. CASE m # n
        BY <1>7, <1>10, <2>2, <2>3, <3>2 DEF Bound
      <3> QED
        BY <3>1, <3>2
    <2> QED
      BY <2>1, <2>2, <2>3 DEF Bound
  <1> QED
    BY <1>8, <1>9, <1>10, <1>11 DEF Inv, Shape, Tame

-----------------------------------------------------------------------------
(* The theorem *)

LEMMA InitInv == Init => Inv
  <1> SUFFICES ASSUME Init PROVE Inv
    OBVIOUS
  <1>1. ThreadShape /\ DialogShape
    BY UserInfoAssumption DEF Init, ThreadShape, DialogShape, ThreadsOf, NoThread
  <1>2. \A n \in ThreadsOf : threads[n].at = "none" /\ ~Own(n)
    BY DEF Init, NoThread, Own
  <1>3. Bound /\ \A n \in ThreadsOf : ~Own(n)
    BY <1>2 DEF Bound
  <1> QED
    BY <1>1, <1>3 DEF Init, Inv, Shape, Tame

LEMMA InvStep == Inv /\ [Next]_vars => Inv'
  <1> SUFFICES ASSUME Inv, [Next]_vars PROVE Inv'
    OBVIOUS
  <1>1. CASE UNCHANGED vars
    <2>1. Apart
      BY <1>1 DEF vars, ui, maps, Apart
    <2> QED
      BY <2>1, ApartKeeps
  <1>2. CASE Next
    BY <1>2, OthersApart, ApartKeeps, KeepsOpen, KeepsClose, KeepsThread DEF Next, GUI
  <1> QED
    BY <1>1, <1>2

\* For any number of dialogs and contacts, and whatever the answers of the server say: if no
\* thread was too late to be cancelled, or not cancelled as pthreadExit was not set yet, none
\* changes another's dialog, and a dialog shows what is kept of its own contact, once.  It is
\* the second part of InfoRight (ZUserInfo, getInfo).
THEOREM DialogTheorem == FairSpec => []OwnDialog
  <1>1. Inv => OwnDialog
    <2> SUFFICES ASSUME Inv, faults \cap {"unset", "late"} = {} PROVE OwnDialog
      BY DEF OwnDialog
    <2>1. Late0(faults)
      BY DEF Late0
    <2>2. "stray" \notin faults /\ \A n \in ThreadsOf : Own(n) => Shows(n)
      BY <2>1 DEF Inv, Tame
    <2>3. dialog # NoDialog => Shows(dialog.no)
      BY <2>2 DEF Inv, Shape, DialogShape, Own
    <2> QED
      BY <2>2, <2>3 DEF OwnDialog, Shows
  <1> QED
    BY <1>1, InitInv, InvStep, PTL DEF FairSpec
=============================================================================
