-------------------------- MODULE KitScanner_proofs --------------------------
(***************************************************************************)
(* Proofs about KitScanner, for any codes and lines, and any number of     *)
(* clicks, panels and starts that overlap.                                 *)
(***************************************************************************)
EXTENDS KitScanner, SequenceTheorems, TLAPS

Start == [panel : Nat, session : Nat, phase : {"asking", "playing", "over"},
          seen : SUBSET (Lines \cup Codes)]

-----------------------------------------------------------------------------
(* The invariant. *)

\* The refs name starts there were, and the box holds lines.
ScanType ==
    /\ panel \in Nat /\ session \in Nat
    /\ starts \in Seq(Start) /\ Len(starts) <= MaxStarts
    /\ stream \in DOMAIN starts \cup {NONE} /\ timer \in DOMAIN starts \cup {NONE}
    /\ live \subseteq DOMAIN starts
    /\ box \subseteq Lines \cup Codes /\ active \in BOOLEAN

\* The starts of one panel have a session each, none later than the panel's; while nothing
\* may be handed on they are all over.
Sessions ==
    /\ \A i \in DOMAIN starts :
         /\ starts[i].panel <= panel
         /\ starts[i].panel = panel => starts[i].session <= session
         /\ starts[i].panel = panel /\ ~mayDeliver => starts[i].session < session
    /\ \A i, j \in DOMAIN starts :
         i # j /\ starts[i].panel = starts[j].panel => starts[i].session # starts[j].session

\* The stream is that of a start of this panel, which is on the page; the start of the
\* present session is under way or scans.
Current ==
    /\ stream # NONE => mayDeliver /\ starts[stream].panel = panel
    /\ mayDeliver => Shown
    /\ \A i \in DOMAIN starts : OfThisSession(i) => Pending(i) \/ active

\* Where no starts overlap the one camera that runs is that of the present session.
Accounted ==
    ~overlapped => /\ live \subseteq {stream}
                   /\ stream # NONE => starts[stream].session = session

\* What the box holds, the click that began the scan has seen, or it was taken.
Seen ==
    ~edited => \A i \in DOMAIN starts :
                 OfThisSession(i) => box \subseteq starts[i].seen \cup taken

SInv == ScanType /\ Sessions /\ Current /\ Accounted /\ Seen

\* The scanner starts with its refs empty.
LEMMA SInvInit == Init => SInv
<1> SUFFICES ASSUME Init
             PROVE  SInv
  OBVIOUS
<1>1. starts = <<>> /\ DOMAIN starts = {} /\ Len(starts) = 0 /\ starts \in Seq(Start)
  BY DEF Init
<1>2. /\ session = 0 /\ ~active /\ active \in BOOLEAN /\ stream = NONE /\ timer = NONE
      /\ live = {} /\ box = {} /\ ~mayDeliver /\ panel \in Nat
  BY DEF Init
<1>3. ScanType
  BY <1>1, <1>2, ScannerConstants DEF ScanType
<1>4. Sessions /\ Current /\ Accounted /\ Seen
  BY <1>1, <1>2 DEF Sessions, Current, Accounted, Seen
<1>5. QED
  BY <1>3, <1>4 DEF SInv

-----------------------------------------------------------------------------
(* Three kinds of steps. *)

\* The starts are the same but for their phases.
SameStarts ==
    /\ starts' \in Seq(Start) /\ Len(starts') = Len(starts)
    /\ \A i \in DOMAIN starts : /\ starts'[i].panel = starts[i].panel
                                /\ starts'[i].session = starts[i].session
                                /\ starts'[i].seen = starts[i].seen

\* Settling a start changes its phase only.
LEMMA SettleKeeps ==
    ASSUME SInv, NEW i \in DOMAIN starts, NEW phase \in {"playing", "over"}, Settle(i, phase)
    PROVE  /\ SameStarts /\ starts'[i].phase = phase
           /\ \A j \in DOMAIN starts \ {i} : starts'[j] = starts[j]
<1>1. starts \in Seq(Start) /\ starts[i] \in Start
  BY DEF SInv, ScanType
<1> DEFINE s == [starts[i] EXCEPT !.phase = phase]
<1>2. s \in Start /\ s.panel = starts[i].panel /\ s.session = starts[i].session
      /\ s.seen = starts[i].seen /\ s.phase = phase
  BY <1>1 DEF Start
<1>3. starts' = [starts EXCEPT ![i] = s]
  BY Zenon DEF Settle
<1> HIDE DEF s
<1>4. starts' \in Seq(Start) /\ Len(starts') = Len(starts)
      /\ \A j \in DOMAIN starts : starts'[j] = IF j = i THEN s ELSE starts[j]
  BY <1>1, <1>2, <1>3
<1>5. QED
  BY <1>2, <1>4 DEF SameStarts

\* A stop, whatever is done with the text and with the page, ends the session for good.
LEMMA StopKeeps ==
    ASSUME SInv, Stopped, SameStarts, UNCHANGED <<panel, overlapped>>,
           box' \subseteq Lines \cup Codes
    PROVE  SInv' /\ CameraAccounted'
<1>1. DOMAIN starts' = DOMAIN starts
  BY DEF SameStarts, SInv, ScanType
<1>2. /\ session' = session + 1 /\ stream' = NONE /\ timer' = NONE
      /\ live' = live \ {stream} /\ ~active' /\ active' \in BOOLEAN /\ ~mayDeliver'
  BY DEF Stopped
<1>3. ScanType'
  BY <1>1, <1>2 DEF SInv, ScanType, SameStarts
<1>4. \A i \in DOMAIN starts :
        /\ starts[i].panel \in Nat /\ starts[i].session \in Nat
        /\ starts[i].panel = panel => starts[i].session < session'
  <2>1. TAKE i \in DOMAIN starts
  <2>2. starts[i] \in Start /\ session \in Nat
    BY DEF SInv, ScanType
  <2>3. starts[i].panel \in Nat /\ starts[i].session \in Nat
    BY <2>2 DEF Start
  <2>4. starts[i].panel = panel => starts[i].session <= session
    BY DEF SInv, Sessions
  <2>5. QED
    BY <1>2, <2>2, <2>3, <2>4
<1>5. Sessions'
  BY <1>1, <1>2, <1>4 DEF SInv, ScanType, Sessions, SameStarts
<1>6. \A i \in DOMAIN starts' : ~OfThisSession(i)'
  BY <1>1, <1>2, <1>4 DEF SInv, ScanType, OfThisSession, SameStarts
<1>7. Current' /\ Seen'
  BY <1>2, <1>6 DEF Current, Seen
<1>8. ~overlapped' => live' = {}
  BY <1>2 DEF SInv, Accounted
<1>9. QED
  BY <1>2, <1>3, <1>5, <1>7, <1>8 DEF SInv, Accounted, CameraAccounted

\* Other steps that leave the session and its stream alone.
LEMMA QuietKeeps ==
    ASSUME SInv,
           UNCHANGED <<panel, session, active, stream, timer, starts, live, mayDeliver, overlapped>>,
           Shown' \/ ~Shown, taken \subseteq taken', box' \subseteq Lines \cup Codes,
           edited' \/ box' \subseteq box \/ ~Scanning, edited => edited'
    PROVE  SInv' /\ CameraAccounted'
<1>1. ScanType' /\ Sessions' /\ Accounted'
  BY DEF SInv, ScanType, Sessions, Accounted
<1>2. Current'
  BY DEF SInv, Current, OfThisSession, Pending
<1>3. Seen'
  <2>1. CASE box' \subseteq box
    BY <2>1 DEF SInv, Seen, OfThisSession
  <2>2. CASE ~(box' \subseteq box) /\ ~edited'
    <3>1. ~Scanning
      BY <2>2, Zenon
    <3>2. \A i \in DOMAIN starts : ~OfThisSession(i)
      BY <3>1 DEF SInv, Current, Scanning
    <3>3. QED
      BY <3>2 DEF Seen, OfThisSession
  <2>3. QED
    BY <2>1, <2>2 DEF Seen
<1>4. CameraAccounted'
  <2>1. ~overlapped' /\ live' # {} => stream' # NONE
    BY <1>1, ScannerConstants DEF ScanType, Accounted
  <2>2. QED
    BY <1>1, <1>2, <2>1 DEF Accounted, CameraAccounted, Current
<1>5. QED
  BY <1>1, <1>2, <1>3, <1>4 DEF SInv
-----------------------------------------------------------------------------
(* The steps. *)

\* A click begins a session that no start had before.
LEMMA ClickKeeps ==
    ASSUME SInv, ClickScan
    PROVE  SInv' /\ CameraAccounted'
<1> DEFINE n == Len(starts) + 1
           new == [panel |-> panel, session |-> session + 1, phase |-> "asking", seen |-> box]
<1>1. /\ Shown /\ ~active /\ Len(starts) < MaxStarts /\ session' = session + 1
      /\ mayDeliver' /\ starts' = Append(starts, new)
      /\ overlapped' = (overlapped \/ \E i \in DOMAIN starts : Pending(i))
      /\ UNCHANGED <<online, override, panel, active, stream, timer, live, box, taken, edited>>
  BY DEF ClickScan, page, text
<1>2. new \in Start /\ new.panel = panel /\ new.session = session + 1 /\ new.seen = box
      /\ new.phase = "asking"
  BY DEF SInv, ScanType, Start
<1> HIDE DEF new
<1>3. /\ starts' \in Seq(Start) /\ Len(starts') = n /\ DOMAIN starts' = DOMAIN starts \cup {n}
      /\ starts'[n] = new /\ n \notin DOMAIN starts
      /\ \A i \in DOMAIN starts : starts'[i] = starts[i]
  BY <1>1, <1>2 DEF SInv, ScanType
<1>4. ScanType'
  BY <1>1, <1>3, ScannerConstants DEF SInv, ScanType
<1>5. \A i \in DOMAIN starts : /\ starts[i].panel \in Nat /\ starts[i].session \in Nat
                               /\ starts[i].panel <= panel
                               /\ starts[i].panel = panel => starts[i].session <= session
  <2>1. TAKE i \in DOMAIN starts
  <2>2. starts[i] \in Start
    BY DEF SInv, ScanType
  <2>3. QED
    BY <2>2 DEF SInv, Sessions, Start
<1>6. Sessions'
  <2>1. panel \in Nat /\ session \in Nat
    BY DEF SInv, ScanType
  <2>2. \A i \in DOMAIN starts' :
         /\ starts'[i].panel <= panel'
         /\ starts'[i].panel = panel' => starts'[i].session <= session'
    BY <1>1, <1>2, <1>3, <1>5, <2>1
  <2>3. \A i, j \in DOMAIN starts' :
          i # j /\ starts'[i].panel = starts'[j].panel => starts'[i].session # starts'[j].session
    <3>1. TAKE i, j \in DOMAIN starts'
    <3>2. CASE i = n \/ j = n
      BY <1>2, <1>3, <1>5, <2>1, <3>2
    <3>3. CASE i # n /\ j # n
      BY <1>3, <3>3 DEF SInv, Sessions
    <3>4. QED
      BY <3>2, <3>3
  <2>4. QED
    BY <1>1, <2>2, <2>3 DEF Sessions
<1>7. \A i \in DOMAIN starts' : OfThisSession(i)' => i = n
  BY <1>1, <1>3, <1>5 DEF OfThisSession, SInv, ScanType
<1>8. Current'
  <2>1. Shown'
    BY <1>1 DEF Shown
  <2>2. stream' # NONE => starts'[stream'].panel = panel'
    BY <1>1, <1>3 DEF SInv, ScanType, Current
  <2>3. starts'[n].panel = panel' /\ starts'[n].phase = "asking"
    BY <1>1, <1>2, <1>3
  <2>4. \A i \in DOMAIN starts' : OfThisSession(i)' => Pending(i)'
    BY <1>7, <2>3 DEF Pending
  <2>5. QED
    BY <1>1, <2>1, <2>2, <2>4 DEF Current
<1>9. Seen'
  BY <1>1, <1>2, <1>3, <1>7 DEF Seen
<1>10. ~overlapped' => stream = NONE /\ live = {}
  <2>1. HAVE ~overlapped'
  <2>2. ~overlapped /\ \A i \in DOMAIN starts : ~Pending(i)
    BY <1>1, <2>1
  <2>3. \A i \in DOMAIN starts : ~OfThisSession(i)
    BY <1>1, <2>2 DEF SInv, Current
  <2>4. stream = NONE
    BY <2>2, <2>3 DEF SInv, ScanType, Current, Accounted, OfThisSession
  <2>5. QED
    BY <2>2, <2>4, ScannerConstants DEF SInv, ScanType, Accounted
<1>11. Accounted' /\ CameraAccounted'
  BY <1>1, <1>10 DEF Accounted, CameraAccounted
<1>12. QED
  BY <1>4, <1>6, <1>8, <1>9, <1>11 DEF SInv

\* The start of a session is settled, and what it was given is the stream or is stopped.
LEMMA StreamKeeps ==
    ASSUME SInv, NEW i \in DOMAIN starts, StreamArrives(i)
    PROVE  SInv' /\ CameraAccounted'
<1>1. /\ starts[i].phase = "asking"
      /\ UNCHANGED <<online, override, panel, session, active, timer, box, taken, edited,
                     mayDeliver, overlapped>>
  BY DEF StreamArrives, page, text
<1>2. \/ /\ OfThisSession(i) /\ Settle(i, "playing")
         /\ stream' = i /\ live' = live \cup {i}
      \/ /\ ~OfThisSession(i) /\ Settle(i, "over")
         /\ stream' = stream /\ live' = live
  BY DEF StreamArrives
<1>3. SameStarts /\ (OfThisSession(i) => starts'[i].phase = "playing")
      /\ \A j \in DOMAIN starts \ {i} : starts'[j] = starts[j]
  BY <1>2, SettleKeeps
<1>4. DOMAIN starts' = DOMAIN starts
  BY <1>3 DEF SameStarts, SInv, ScanType
<1>5. ScanType'
  BY <1>1, <1>2, <1>3, <1>4 DEF SInv, ScanType, SameStarts
<1>6. Sessions'
  BY <1>1, <1>3, <1>4 DEF SInv, Sessions, SameStarts
<1>7. \A j \in DOMAIN starts : OfThisSession(j)' <=> OfThisSession(j)
  BY <1>1, <1>3 DEF OfThisSession, SameStarts
<1>8. Seen'
  BY <1>1, <1>3, <1>4, <1>7 DEF SInv, Seen, SameStarts
<1>9. i # NONE /\ NONE \notin DOMAIN starts
  BY ScannerConstants DEF SInv, ScanType
<1>10. OfThisSession(i) => mayDeliver
  BY DEF SInv, ScanType, Sessions, OfThisSession, Start
<1>11. Shown' = Shown
  BY <1>1 DEF Shown
<1>12. Current'
  <2>1. stream' # NONE => mayDeliver' /\ starts'[stream'].panel = panel'
    <3>1. CASE OfThisSession(i)
      BY <1>1, <1>2, <1>3, <1>10, <3>1 DEF OfThisSession, SameStarts
    <3>2. CASE ~OfThisSession(i)
      BY <1>1, <1>2, <1>3, <1>9, <3>2 DEF SInv, ScanType, Current, SameStarts
    <3>3. QED
      BY <3>1, <3>2
  <2>2. mayDeliver' => Shown'
    BY <1>1, <1>11 DEF SInv, Current
  <2>3. \A j \in DOMAIN starts : OfThisSession(j) => Pending(j)' \/ active'
    <3>1. OfThisSession(i) => Pending(i)'
      BY <1>1, <1>3 DEF OfThisSession, Pending, SameStarts
    <3>2. \A j \in DOMAIN starts \ {i} : OfThisSession(j) => Pending(j)' \/ active'
      BY <1>1, <1>3 DEF SInv, Current, Pending
    <3>3. QED
      BY <3>1, <3>2
  <2>4. QED
    BY <1>4, <1>7, <2>1, <2>2, <2>3 DEF Current
<1>13. Accounted'
  <2>1. CASE ~OfThisSession(i)
    BY <1>1, <1>2, <1>3, <1>9, <2>1 DEF SInv, ScanType, Accounted, SameStarts
  <2>2. CASE OfThisSession(i) /\ ~overlapped
    <3>1. stream # NONE => stream = i
      BY <2>2 DEF SInv, ScanType, Sessions, Current, Accounted, OfThisSession
    <3>2. live' \subseteq {i}
      BY <1>2, <2>2, <3>1, <1>9 DEF SInv, ScanType, Accounted
    <3>3. starts'[i].session = session'
      BY <1>1, <1>3, <2>2 DEF OfThisSession, SameStarts
    <3>4. QED
      BY <1>2, <2>2, <3>2, <3>3 DEF Accounted
  <2>3. QED
    BY <1>1, <2>1, <2>2 DEF Accounted
<1>14. CameraAccounted'
  <2>1. ~overlapped' /\ live' # {} => stream' # NONE
    BY <1>5, <1>13, <1>4, <1>9 DEF ScanType, Accounted
  <2>2. QED
    BY <1>12, <1>13, <2>1 DEF Accounted, CameraAccounted, Current
<1>15. QED
  BY <1>5, <1>6, <1>8, <1>12, <1>13, <1>14 DEF SInv

\* A start of the present session is on the page.
LEMMA OnlyOnThePage ==
    ASSUME SInv, NEW i \in DOMAIN starts, ~OnThisPage(i)
    PROVE  ~OfThisSession(i)
BY DEF SInv, ScanType, Sessions, Current, OfThisSession, OnThisPage, Start

\* The parts of the invariant that account for the camera.
LEMMA AccountedIsShown == ScanType /\ Current /\ Accounted => CameraAccounted
<1>1. ScanType /\ Accounted /\ ~overlapped /\ live # {} => stream # NONE
  BY ScannerConstants DEF ScanType, Accounted
<1>2. QED
  BY <1>1 DEF Accounted, CameraAccounted, Current

\* What is seen is put beside what the click saw.
LEMMA SeenIsText ==
    ASSUME SInv, NEW i \in DOMAIN starts, NEW c \in Codes, TakeScan(i, c)
    PROVE  box' \subseteq Lines \cup Codes
<1>1. starts[i].seen \subseteq Lines \cup Codes /\ box \subseteq Lines \cup Codes
  <2>1. starts[i] \in Start
    BY DEF SInv, ScanType
  <2>2. QED
    BY <2>1 DEF SInv, ScanType, Start
<1>2. QED
  BY <1>1 DEF TakeScan

\* A start that fails stops the session of its panel.
LEMMA FailKeeps ==
    ASSUME SInv, NEW i \in DOMAIN starts, StartFails(i)
    PROVE  SInv' /\ CameraAccounted'
<1>1. SameStarts /\ \A j \in DOMAIN starts \ {i} : starts'[j] = starts[j]
  BY SettleKeeps DEF StartFails
<1>2. UNCHANGED <<online, override, panel, box, taken, edited, overlapped>>
  BY DEF StartFails, page, text
<1>3. CASE OnThisPage(i)
  <2>1. Stopped
    BY <1>3 DEF StartFails
  <2>2. box' \subseteq Lines \cup Codes
    BY <1>2 DEF SInv, ScanType
  <2>3. QED
    BY <1>1, <1>2, <2>1, <2>2, StopKeeps
<1>4. CASE ~OnThisPage(i)
  <2>1. UNCHANGED <<session, active, stream, timer, live, mayDeliver>>
    BY <1>4 DEF StartFails, camera
  <2>2. DOMAIN starts' = DOMAIN starts
    BY <1>1 DEF SameStarts, SInv, ScanType
  <2>3. ScanType' /\ Sessions'
    BY <1>1, <1>2, <2>1, <2>2 DEF SInv, ScanType, Sessions, SameStarts
  <2>4. \A j \in DOMAIN starts : OfThisSession(j)' <=> OfThisSession(j)
    BY <1>1, <1>2, <2>1 DEF OfThisSession, SameStarts
  <2>5. ~OfThisSession(i)
    BY <1>4 DEF SInv, ScanType, Sessions, Current, OfThisSession, OnThisPage, Start
  <2>6. Current'
    <3>1. Shown' = Shown
      BY <1>2 DEF Shown
    <3>2. stream' # NONE => mayDeliver' /\ starts'[stream'].panel = panel'
      BY <1>1, <1>2, <2>1 DEF SInv, ScanType, Current, SameStarts
    <3>3. \A j \in DOMAIN starts : OfThisSession(j) => Pending(j)' \/ active'
      BY <1>1, <1>2, <2>1, <2>5 DEF SInv, Current, Pending
    <3>4. QED
      BY <2>1, <2>2, <2>4, <3>1, <3>2, <3>3 DEF SInv, Current
  <2>7. Seen'
    BY <1>1, <1>2, <2>2, <2>4 DEF SInv, Seen, SameStarts
  <2>8. Accounted'
    BY <1>1, <1>2, <2>1 DEF SInv, ScanType, Accounted, SameStarts
  <2>9. CameraAccounted'
    <3>1. ~overlapped' /\ live' # {} => stream' # NONE
      BY <2>3, <2>8, ScannerConstants DEF ScanType, Accounted
    <3>2. QED
      BY <2>6, <2>8, <3>1 DEF Accounted, CameraAccounted, Current
  <2>10. QED
    BY <2>3, <2>6, <2>7, <2>8, <2>9 DEF SInv
<1>5. QED
  BY <1>3, <1>4

\* PlayStarts begins the loop, or the first pass ends it.
LEMMA PlayKeeps ==
    ASSUME SInv, NEW i \in DOMAIN starts, PlayStarts(i)
    PROVE  SInv' /\ CameraAccounted'
<1>1. SameStarts /\ \A j \in DOMAIN starts \ {i} : starts'[j] = starts[j]
  BY SettleKeeps DEF PlayStarts
<1>2. UNCHANGED <<online, override, panel, overlapped>>
  BY DEF PlayStarts, page
<1>3. CASE \E c \in Codes : See(i, c)
  <2>1. PICK c \in Codes : See(i, c)
    BY <1>3
  <2>2. Stopped /\ box' \subseteq Lines \cup Codes
    BY <2>1, SeenIsText DEF See
  <2>3. QED
    BY <1>1, <1>2, <2>2, StopKeeps
<1>4. CASE Stopped /\ UNCHANGED text
  <2>1. box' \subseteq Lines \cup Codes
    BY <1>4 DEF SInv, ScanType, text
  <2>2. QED
    BY <1>1, <1>2, <1>4, <2>1, StopKeeps
<1>5. CASE /\ UNCHANGED <<session, stream, live, box, taken, adding, edited, mayDeliver>>
           /\ \/ ~OnThisPage(i) /\ UNCHANGED <<active, timer>>
              \/ active' = TRUE /\ timer' \in {timer, i}
  <2>1. DOMAIN starts' = DOMAIN starts
    BY <1>1 DEF SameStarts, SInv, ScanType
  <2>2. ScanType'
    BY <1>1, <1>2, <1>5, <2>1 DEF SInv, ScanType, SameStarts
  <2>3. Sessions'
    BY <1>1, <1>2, <1>5, <2>1 DEF SInv, Sessions, SameStarts
  <2>4. \A j \in DOMAIN starts : OfThisSession(j)' <=> OfThisSession(j)
    BY <1>1, <1>2, <1>5 DEF OfThisSession, SameStarts
  <2>5. Current'
    <3>1. Shown' = Shown
      BY <1>2 DEF Shown
    <3>2. stream' # NONE => mayDeliver' /\ starts'[stream'].panel = panel'
      BY <1>1, <1>2, <1>5 DEF SInv, ScanType, Current, SameStarts
    <3>3. \A j \in DOMAIN starts : OfThisSession(j) => Pending(j)' \/ active'
      <4>1. CASE active' = TRUE
        BY <4>1
      <4>2. CASE ~OnThisPage(i) /\ active' = active
        <5>1. ~OfThisSession(i)
          BY <4>2, OnlyOnThePage
        <5>2. QED
          BY <1>1, <1>2, <4>2, <5>1 DEF SInv, Current, Pending
      <4>3. QED
        BY <1>5, <4>1, <4>2
    <3>4. QED
      BY <1>5, <2>1, <2>4, <3>1, <3>2, <3>3 DEF SInv, Current
  <2>6. Seen'
    BY <1>1, <1>5, <2>1, <2>4 DEF SInv, Seen, SameStarts
  <2>7. Accounted'
    BY <1>1, <1>2, <1>5 DEF SInv, ScanType, Accounted, SameStarts
  <2>8. CameraAccounted'
    <3>1. ScanType' /\ Current' /\ Accounted' => CameraAccounted'
      BY AccountedIsShown, PTL
    <3>2. QED
      BY <2>2, <2>5, <2>7, <3>1
  <2>9. QED
    BY <2>2, <2>3, <2>5, <2>6, <2>7, <2>8 DEF SInv
<1>6. QED
  BY <1>3, <1>4, <1>5 DEF PlayStarts, camera, text

\* A change of the page keeps the panel, or stops its session, or puts a new one there.
LEMMA TurnKeeps ==
    ASSUME SInv, NEW on, NEW step, Turn(on, step)
    PROVE  SInv' /\ CameraAccounted'
<1>1. UNCHANGED <<starts, box, taken, adding, edited, overlapped>>
  BY DEF Turn, text
<1>2. SameStarts /\ box' \subseteq Lines \cup Codes
  BY <1>1 DEF SInv, ScanType, SameStarts
<1>3. Shown' = Workspace(on, step)
  BY DEF Turn, Shown, Workspace
<1>4. CASE Shown /\ ~Workspace(on, step)
  <2>1. Stopped /\ UNCHANGED panel
    BY <1>4 DEF Turn
  <2>2. QED
    BY <1>1, <1>2, <2>1, StopKeeps
<1>5. CASE Workspace(on, step) /\ ~Shown
  <2>1. /\ panel' = panel + 1 /\ session' = 0 /\ active' = FALSE /\ mayDeliver' = FALSE
        /\ stream' = NONE /\ timer' = NONE /\ live' = live
    BY <1>5 DEF Turn
  <2>2. \A i \in DOMAIN starts : starts[i].panel < panel'
    <3>1. TAKE i \in DOMAIN starts
    <3>2. starts[i] \in Start /\ panel \in Nat
      BY DEF SInv, ScanType
    <3>3. QED
      BY <2>1, <3>2 DEF SInv, Sessions, Start
  <2>3. ScanType'
    <3>1. ScanType
      BY DEF SInv
    <3>2. panel' \in Nat /\ session' \in Nat
      BY <2>1, <3>1 DEF ScanType
    <3>3. active' \in BOOLEAN
      BY <2>1, Zenon
    <3>4. stream' \in DOMAIN starts \cup {NONE} /\ timer' \in DOMAIN starts \cup {NONE}
      BY <2>1, Zenon
    <3>5. QED
      BY <1>1, <2>1, <3>1, <3>2, <3>3, <3>4, Zenon DEF ScanType
  <2>4. Sessions'
    <3>1. \A i \in DOMAIN starts : starts[i].panel <= panel' /\ starts[i].panel # panel'
      <4>1. TAKE i \in DOMAIN starts
      <4>2. starts[i] \in Start /\ panel' \in Nat
        BY <2>3 DEF SInv, ScanType
      <4>3. QED
        BY <2>2, <4>2 DEF Start
    <3>2. QED
      BY <1>1, <3>1 DEF SInv, Sessions
  <2>5. \A i \in DOMAIN starts' : ~OfThisSession(i)'
    <3>1. TAKE i \in DOMAIN starts'
    <3>2. starts[i] \in Start /\ panel' \in Nat /\ starts[i].panel < panel'
      BY <1>1, <2>2, <2>3 DEF SInv, ScanType
    <3>3. QED
      BY <1>1, <3>2 DEF OfThisSession, Start
  <2>6. Current' /\ Seen'
    BY <2>1, <2>5 DEF Current, Seen
  <2>7. ~overlapped => live = {}
    BY <1>5, ScannerConstants DEF SInv, ScanType, Current, Accounted
  <2>8. QED
    BY <1>1, <2>1, <2>3, <2>4, <2>6, <2>7 DEF SInv, Accounted, CameraAccounted
<1>6. CASE Workspace(on, step) <=> Shown
  <2>1. UNCHANGED <<panel, session, active, stream, timer, live, mayDeliver>>
    BY <1>6 DEF Turn
  <2>2. QED
    BY <1>1, <1>2, <1>3, <1>6, <2>1, QuietKeeps
<1>7. QED
  BY <1>4, <1>5, <1>6

\* The steps that begin no session.
LEMMA OtherKeeps ==
    ASSUME SInv, \/ ClickStop \/ Sighting \/ ScanError \/ Render
                 \/ (\E l \in Lines : Type(l)) \/ ClickAdd \/ Added \/ UNCHANGED vars
    PROVE  SInv' /\ CameraAccounted'
<1>1. box \subseteq Lines \cup Codes /\ starts \in Seq(Start)
  BY DEF SInv, ScanType
<1>2. CASE ClickStop \/ ScanError
  <2>1. Stopped /\ UNCHANGED <<panel, starts, box, overlapped>>
    BY <1>2 DEF ClickStop, ScanError, page, text
  <2>2. QED
    BY <1>1, <2>1, StopKeeps DEF SameStarts
<1>3. CASE Sighting
  <2>1. PICK c \in Codes : See(timer, c)
    BY <1>3 DEF Sighting
  <2>2. timer \in DOMAIN starts
    BY <1>3 DEF Sighting, SInv, ScanType
  <2>3. Stopped /\ box' \subseteq Lines \cup Codes
    BY <2>1, <2>2, SeenIsText DEF See
  <2>4. UNCHANGED <<panel, starts, overlapped>>
    BY <1>3 DEF Sighting, page
  <2>5. QED
    BY <1>1, <2>3, <2>4, StopKeeps DEF SameStarts
<1>4. CASE \/ Render \/ (\E l \in Lines : Type(l)) \/ ClickAdd \/ Added \/ UNCHANGED vars
  <2>1. /\ UNCHANGED <<panel, session, active, stream, timer, starts, live, mayDeliver,
                       overlapped>>
        /\ Shown' = Shown
    BY <1>4 DEF Render, Type, ClickAdd, Added, vars, page, camera, text, Shown
  <2>2. /\ taken \subseteq taken' /\ box' \subseteq Lines \cup Codes
        /\ edited' \/ box' \subseteq box \/ ~Scanning
        /\ edited => edited'
    <3>1. CASE Render \/ Added \/ UNCHANGED vars
      BY <1>1, <3>1 DEF Render, Added, vars, text
    <3>2. CASE \E l \in Lines : Type(l)
      <4>1. PICK l \in Lines : Type(l)
        BY <3>2
      <4>2. box' = box \cup {l} /\ taken' = taken /\ edited' = (edited \/ Scanning)
        BY <4>1, Zenon DEF Type
      <4>3. edited' \/ ~Scanning
        BY <4>2, Zenon
      <4>4. edited => edited'
        BY <4>2, Zenon
      <4>5. QED
        BY <1>1, <4>2, <4>3, <4>4
    <3>3. CASE ClickAdd
      <4>1. box' \in {box, {}} /\ taken' = taken \cup box /\ edited' = (edited \/ Scanning)
        BY <3>3, Zenon DEF ClickAdd
      <4>2. edited => edited'
        BY <4>1, Zenon
      <4>3. QED
        BY <1>1, <4>1, <4>2
    <3>4. QED
      BY <1>4, <3>1, <3>2, <3>3, Zenon
  <2>3. QED
    BY <2>1, <2>2, QuietKeeps
<1>5. QED
  BY <1>2, <1>3, <1>4

\* Every step keeps the invariant, and accounts for the camera.
LEMMA SInvNext ==
    ASSUME SInv, [Next]_vars
    PROVE  SInv' /\ CameraAccounted'
<1>1. CASE \/ ClickStop \/ Sighting \/ ScanError \/ Render
           \/ (\E l \in Lines : Type(l)) \/ ClickAdd \/ Added \/ UNCHANGED vars
  BY <1>1, OtherKeeps, Zenon
<1>2. CASE ClickScan
  BY <1>2, ClickKeeps, Zenon
<1>3. CASE \E i \in DOMAIN starts : StreamArrives(i) \/ StartFails(i) \/ PlayStarts(i)
  BY <1>3, StreamKeeps, FailKeeps, PlayKeeps, Zenon
<1>4. CASE GoesOnline \/ GoesOffline \/ Override \/ CancelOverride
  BY <1>4, TurnKeeps, Zenon DEF GoesOnline, GoesOffline, Override, CancelOverride
<1>5. QED
  BY <1>1, <1>2, <1>3, <1>4, Zenon DEF Next

\* The invariant holds throughout.
THEOREM ScannerInvariant == Spec => []SInv
<1>1. SInv /\ [Next]_vars => SInv'
  BY SInvNext
<1>2. QED
  BY <1>1, SInvInit, PTL DEF Spec

-----------------------------------------------------------------------------
(* The results. *)

\* What a start hands on while the loop of the present session runs.
LEMMA SightIsLive ==
    ASSUME SInv, NEW i \in DOMAIN starts, NEW c \in Codes, See(i, c)
    PROVE  /\ mayDeliver
           /\ box \ box' \subseteq taken' \/ edited'
<1>1. stream # NONE /\ OfThisSession(i) /\ TakeScan(i, c)
  BY DEF See, PassOver
<1>2. mayDeliver
  BY <1>1 DEF SInv, Current
<1>3. CASE c \in ByteCodes
  <2>1. edited' = (edited \/ box # {}) /\ box' \in IF adding THEN {box} ELSE {box, {}}
    BY <1>1, <1>3, Zenon DEF TakeScan
  <2>2. box # {} => edited'
    BY <2>1, Zenon
  <2>3. box = {} => box \ box' \subseteq taken'
    OBVIOUS
  <2>4. QED
    BY <1>2, <2>2, <2>3, Zenon
<1>4. CASE c \notin ByteCodes
  <2>1. box' = starts[i].seen \cup {c} /\ taken' = taken /\ edited' = edited
    BY <1>1, <1>4 DEF TakeScan
  <2>2. ~edited => box \subseteq starts[i].seen \cup taken
    BY <1>1 DEF SInv, Seen
  <2>3. edited => edited'
    BY <2>1, Zenon
  <2>4. ~edited => box \ box' \subseteq taken'
    BY <2>1, <2>2
  <2>5. QED
    BY <1>2, <2>3, <2>4, Zenon
<1>5. QED
  BY <1>3, <1>4

\* The steps that hand something on.
LEMMA WhoHandsOn ==
    ASSUME SInv, [Next]_vars
    PROVE  \/ \E i \in DOMAIN starts, c \in Codes : See(i, c)
           \/ \E l \in Lines : box' = box \cup {l} /\ taken' = taken
           \/ box' \subseteq box /\ taken' = taken \cup box
           \/ box' = box /\ taken' = taken
<1>1. CASE Sighting
  <2>1. PICK c \in Codes : See(timer, c)
    BY <1>1 DEF Sighting
  <2>2. timer \in DOMAIN starts
    BY <1>1 DEF Sighting, SInv, ScanType
  <2>3. QED
    BY <2>1, <2>2
<1>2. CASE \E i \in DOMAIN starts : PlayStarts(i)
  <2>1. PICK i \in DOMAIN starts : PlayStarts(i)
    BY <1>2
  <2>2. (\E c \in Codes : See(i, c)) \/ UNCHANGED text
    BY <2>1 DEF PlayStarts
  <2>3. QED
    BY <2>2 DEF text
<1>3. CASE \E i \in DOMAIN starts : StreamArrives(i) \/ StartFails(i)
  BY <1>3 DEF StreamArrives, StartFails, text
<1>4. CASE ClickScan \/ ClickStop \/ ScanError \/ Render \/ Added \/ UNCHANGED vars
  BY <1>4 DEF ClickScan, ClickStop, ScanError, Render, Added, text, vars
<1>5. CASE \E l \in Lines : Type(l)
  BY <1>5 DEF Type
<1>6. CASE ClickAdd
  BY <1>6 DEF ClickAdd
<1>7. CASE GoesOnline \/ GoesOffline \/ Override \/ CancelOverride
  BY <1>7 DEF GoesOnline, GoesOffline, Override, CancelOverride, Turn, text
<1>8. QED
  BY <1>1, <1>2, <1>3, <1>4, <1>5, <1>6, <1>7, Zenon DEF Next

\* What the user stopped is over, however many starts overlapped before: no camera is left
\* running unless starts overlapped, and no code is handed on in any case.
THEOREM StopIsAlwaysFinal == Spec => StopIsFinal
<1>1. SInv /\ [Next]_vars => CameraAccounted' /\ (NothingTaken \/ mayDeliver)
  <2>1. SUFFICES ASSUME SInv, [Next]_vars, ~mayDeliver
                 PROVE  NothingTaken
    BY SInvNext
  <2>2. ~\E i \in DOMAIN starts, c \in Codes : See(i, c)
    BY <2>1, SightIsLive
  <2>3. \/ \E l \in Lines : box' = box \cup {l} /\ taken' = taken
        \/ box' \subseteq box /\ taken' = taken \cup box
        \/ box' = box /\ taken' = taken
    BY <2>1, <2>2, WhoHandsOn, Zenon
  <2>4. QED
    BY <2>3, ScannerConstants DEF NothingTaken
<1>2. QED
  BY <1>1, ScannerInvariant, PTL DEF Spec, StopIsFinal

\* No line is lost from the box, however scans, typing and additions overlap, but for the
\* two ways the property names.
THEOREM TextAlwaysSurvives == Spec => TextSurvives
<1>1. SInv /\ [Next]_vars => box \ box' \subseteq taken' \/ edited'
  <2>1. SUFFICES ASSUME SInv, [Next]_vars
                 PROVE  box \ box' \subseteq taken' \/ edited'
    OBVIOUS
  <2>2. CASE \E i \in DOMAIN starts, c \in Codes : See(i, c)
    BY <2>1, <2>2, SightIsLive
  <2>3. CASE ~\E i \in DOMAIN starts, c \in Codes : See(i, c)
    BY <2>1, <2>3, WhoHandsOn
  <2>4. QED
    BY <2>2, <2>3
<1>2. QED
  BY <1>1, ScannerInvariant, PTL DEF Spec, TextSurvives
=============================================================================
