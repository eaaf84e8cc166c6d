----------------------------- MODULE KitScanner -----------------------------
(***************************************************************************)
(* The QR scanner of the recovery kit's first step: the camera session of  *)
(* useQrScannerRuntime_jsqr.js, the panel and the collector that use it,   *)
(* the offline guard of App.jsx that takes them off the page and puts new  *)
(* ones on it, and what microact's rendering does to the <video> element.  *)
(*                                                                         *)
(* A handler runs until its next await, so startScanner is three actions:  *)
(* the click, the answer of getUserMedia, and the answer of video.play(),  *)
(* which runs the first pass of the scan loop as well.  Rendering happens  *)
(* in a microtask and is part of the action that changed a state: it makes *)
(* every element anew, so a <video> loses its stream until the effect      *)
(* gives the stream back, which it does only while the scanner is active.  *)
(*                                                                         *)
(* A panel that was taken off the page keeps its own refs: its unfinished  *)
(* starts can only stop what they get.  They carry their panel's number.   *)
(***************************************************************************)
EXTENDS Naturals, Sequences, FiniteSets

CONSTANTS
    NONE,
    Lines,          \* lines the user pastes
    TextCodes,      \* QR codes that hold text, one line each
    ByteCodes,      \* QR codes that hold a binary frame
    MaxStarts,      \* bound on the clicks on "Scan QR"
    MaxPanels       \* bound on the panels mounted one after another

Codes == TextCodes \cup ByteCodes

ASSUME ScannerConstants ==
    /\ MaxStarts \in Nat \ {0} /\ MaxPanels \in Nat \ {0}
    /\ NONE \notin 1..MaxStarts /\ NONE \notin Codes
    /\ TextCodes \cap ByteCodes = {} /\ Lines \cap Codes = {}

VARIABLES
    online, override,   \* isOnline, onlineOverrideStep
    panel,              \* the number of the panel on the page, or of the last one
    session,            \* sessionRef
    active,             \* the state "active"
    stream,             \* streamRef: the start whose stream it is, or NONE
    attached,           \* video.srcObject of the element on the page
    timer,              \* timerRef: the start whose loop it will run, or NONE
    starts,             \* the calls of startScanner: panel, session, phase and
                        \* the text box as the click's closure saw it
    live,               \* the starts whose camera tracks are running
    box,                \* payloadText, as the set of its lines
    taken,              \* what was handed on to be parsed
    adding,             \* isAddingFrames
    mayDeliver,         \* history: a start since the last stop of this panel
    overlapped,         \* history: a click while another start was unfinished
    edited              \* history: the box changed during a scan, or a binary
                        \* frame was taken while it held text

camera == <<session, active, stream, attached, timer, live>>
page == <<online, override, panel>>
text == <<box, taken, adding, edited>>
vars == <<page, camera, starts, text, mayDeliver, overlapped>>

Workspace(on, step) == ~on \/ step = 3
Shown == Workspace(online, override)

\* The effect after a render gives the new <video> the stream.
AfterRenderBare(isActive, s) == NONE                                  \* [mutant]
AfterRender(isActive, s) == IF isActive THEN s ELSE NONE

Pending(i) == starts[i].panel = panel /\ starts[i].phase \in {"asking", "playing"}
OfAnySession(i) == starts[i].panel = panel                            \* [mutant]
OfThisSession(i) == starts[i].panel = panel /\ starts[i].session = session
OnThisPage(i) == starts[i].panel = panel /\ Shown

Stopped ==
    /\ session' = session + 1
    /\ timer' = NONE
    /\ stream' = NONE /\ attached' = NONE
    /\ live' = live \ {stream}
    /\ active' = FALSE
    /\ mayDeliver' = FALSE

Settle(i, phase) == starts' = [starts EXCEPT ![i].phase = phase]

Init ==
    /\ online \in BOOLEAN /\ override = 0
    /\ panel = IF online THEN 0 ELSE 1
    /\ session = 0 /\ active = FALSE
    /\ stream = NONE /\ attached = NONE /\ timer = NONE
    /\ starts = <<>> /\ live = {}
    /\ box = {} /\ taken = {} /\ adding = FALSE
    /\ mayDeliver = FALSE /\ overlapped = FALSE /\ edited = FALSE
-----------------------------------------------------------------------------
\* startScanner up to its first await.  The button is disabled while active.
ClickScan ==
    /\ Shown /\ ~active /\ Len(starts) < MaxStarts
    /\ session' = session + 1
    /\ starts' = Append(starts, [panel |-> panel, session |-> session + 1,
                                 phase |-> "asking", seen |-> box])
    /\ attached' = AfterRender(active, stream)
    /\ mayDeliver' = TRUE
    /\ overlapped' = (overlapped \/ \E i \in DOMAIN starts : Pending(i))
    /\ UNCHANGED <<page, active, stream, timer, live, text>>

\* getUserMedia resolves: the stream of a session that is over is stopped.
StreamArrives(i) ==
    /\ starts[i].phase = "asking"
    /\ IF OfThisSession(i)
       THEN /\ Settle(i, "playing")
            /\ stream' = i /\ attached' = i /\ live' = live \cup {i}
       ELSE /\ Settle(i, "over")
            /\ UNCHANGED <<stream, attached, live>>
    /\ UNCHANGED <<page, session, active, timer, text, mayDeliver, overlapped>>

\* getUserMedia or play() rejects, or the canvas fails: stopRef.current() of the
\* panel, whatever session it is in by then.
StartFails(i) ==
    /\ starts[i].phase \in {"asking", "playing"}
    /\ Settle(i, "over")
    /\ IF OnThisPage(i)
       THEN Stopped
       ELSE UNCHANGED <<camera, mayDeliver>>
    /\ UNCHANGED <<page, text, overlapped>>

\* handleScanPayload: a binary frame is added at once unless another addition is
\* under way, and empties the box when it is accepted; text replaces the box by
\* the lines the closure saw and the new one.
TakeScanAlone(i, c) ==                                                \* [mutant]
    /\ box' = {c}
    /\ UNCHANGED <<taken, adding, edited>>
TakeScan(i, c) ==
    IF c \in ByteCodes
    THEN /\ taken' = IF adding THEN taken ELSE taken \cup {c}
         /\ box' \in IF adding THEN {box} ELSE {box, {}}
         /\ adding' = TRUE
         /\ edited' = (edited \/ box # {})
    ELSE /\ box' = starts[i].seen \cup {c}
         /\ UNCHANGED <<taken, adding, edited>>

\* One pass of scanLoop: over, nothing seen, something seen, or an error.  Only a
\* <video> with the stream shows anything.
PassOver(i) == stream = NONE \/ ~OfThisSession(i)
See(i, c) == ~PassOver(i) /\ attached = stream /\ TakeScan(i, c) /\ Stopped

\* play() resolves and the scan loop makes its first pass.
PlayStarts(i) ==
    /\ starts[i].phase = "playing"
    /\ Settle(i, "over")
    /\ \/ ~OnThisPage(i) /\ UNCHANGED <<camera, text, mayDeliver>>
       \/ OnThisPage(i) /\ \E c \in Codes : See(i, c)
       \/ OnThisPage(i) /\ ~PassOver(i) /\ Stopped /\ UNCHANGED text
       \/ /\ OnThisPage(i)
          /\ active' = TRUE
          /\ timer' = IF PassOver(i) THEN timer ELSE i
          /\ attached' = AfterRender(TRUE, stream)
          /\ UNCHANGED <<session, stream, live, text, mayDeliver>>
    /\ UNCHANGED <<page, overlapped>>

\* The timer runs the loop again; whoever ends the session clears the timer.
Sighting ==
    /\ timer # NONE
    /\ \E c \in Codes : See(timer, c)
    /\ UNCHANGED <<page, starts, overlapped>>

ScanError ==
    /\ timer # NONE /\ ~PassOver(timer)
    /\ Stopped
    /\ UNCHANGED <<page, starts, text, overlapped>>

ClickStop ==
    /\ Shown /\ active
    /\ Stopped
    /\ UNCHANGED <<page, starts, text, overlapped>>
-----------------------------------------------------------------------------
\* The page is rendered again for a reason of its own.
Render ==
    /\ Shown
    /\ attached' = AfterRender(active, stream)
    /\ UNCHANGED <<page, session, active, stream, timer, starts, live, text,
                   mayDeliver, overlapped>>

Scanning == active \/ \E i \in DOMAIN starts : Pending(i)

Type(l) ==
    /\ Shown /\ l \notin box
    /\ box' = box \cup {l}
    /\ edited' = (edited \/ Scanning)
    /\ attached' = AfterRender(active, stream)
    /\ UNCHANGED <<page, session, active, stream, timer, starts, live, taken, adding,
                   mayDeliver, overlapped>>

\* addPayloads, with what keeps the box filled when some of it is not accepted.
ClickAdd ==
    /\ Shown /\ ~adding
    /\ taken' = taken \cup box /\ adding' = TRUE
    /\ box' \in {box, {}}
    /\ edited' = (edited \/ Scanning)
    /\ attached' = AfterRender(active, stream)
    /\ UNCHANGED <<page, session, active, stream, timer, starts, live,
                   mayDeliver, overlapped>>

\* The checks that follow an addition end.
Added ==
    /\ adding /\ adding' = FALSE
    /\ attached' = IF Shown THEN AfterRender(active, stream) ELSE attached
    /\ UNCHANGED <<page, session, active, stream, timer, starts, live, box, taken,
                   edited, mayDeliver, overlapped>>

\* A change of isOnline or of the override takes the collectors off the page, with
\* the panel's clean-up, or mounts a new panel, or neither.
Turn(on, step) ==
    /\ online' = on /\ override' = step
    /\ IF Shown /\ ~Workspace(on, step)
       THEN Stopped /\ UNCHANGED panel
       ELSE IF Workspace(on, step) /\ ~Shown
       THEN /\ panel < MaxPanels /\ panel' = panel + 1
            /\ session' = 0 /\ active' = FALSE /\ mayDeliver' = FALSE
            /\ stream' = NONE /\ attached' = NONE /\ timer' = NONE
            /\ UNCHANGED live
       ELSE /\ attached' = IF Shown THEN AfterRender(active, stream) ELSE attached
            /\ UNCHANGED <<panel, session, active, stream, timer, live, mayDeliver>>
    /\ UNCHANGED <<starts, text, overlapped>>

GoesOnline == ~online /\ Turn(TRUE, override)
\* The effect that resets the override runs after the render of the change.
GoesOffline == online /\ Turn(FALSE, 0)
Override == online /\ override < 3 /\ Turn(TRUE, override + 1)
CancelOverride == online /\ override \in {1, 2} /\ Turn(TRUE, 0)

Next ==
    \/ ClickScan \/ ClickStop \/ Sighting \/ ScanError \/ Render
    \/ \E i \in DOMAIN starts : StreamArrives(i) \/ StartFails(i) \/ PlayStarts(i)
    \/ \E l \in Lines : Type(l)
    \/ ClickAdd \/ Added
    \/ GoesOnline \/ GoesOffline \/ Override \/ CancelOverride

\* The browser fires timers, and the user holds a code up until one is seen.
Spec == Init /\ [][Next]_vars
PatientSpec == Spec /\ WF_vars(Sighting)
-----------------------------------------------------------------------------
\* As long as no start was clicked while another was unfinished, a camera that runs
\* is the one this panel's refs hold, so that Stop, a scan, an error and the offline
\* guard all turn it off, and none runs behind the guard (stopScanner, the check of
\* the session after getUserMedia, and the clean-up at unmount).
CameraAccounted ==
    ~overlapped => live \subseteq {stream} /\ (live # {} => Shown)

\* After a stop, whoever made it, no code is handed on before the next click on
\* "Scan QR", also when starts overlapped (the session check of scanLoop).
NothingTaken == (taken' \cup box') \cap Codes \subseteq taken \cup box

\* What the user stopped is over: neither a camera nor a scan loop of an earlier start goes
\* on (useQrScannerRuntime_jsqr.js:48-77, 113-116).
StopIsFinal == [][CameraAccounted' /\ (NothingTaken \/ mayDeliver)]_vars

\* A line leaves the box only to be parsed, unless the user changed the box during a
\* scan, or a binary frame was scanned while the box held text (handleScanPayload,
\* whose closure is that of the click).
TextSurvives == [][box \ box' \subseteq taken' \/ edited']_vars

\* A scanner that shows a picture sees: the code held up ends the scan, though every
\* render makes a new <video> (the effect that attaches the stream again).
ScanEnds == active ~> (~active \/ overlapped)
=============================================================================
