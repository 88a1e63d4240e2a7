-------------------------------- MODULE Tray --------------------------------
(***************************************************************************)
(* The tray application (tray.rs): a menu from which one mirror at a time  *)
(* is started, stopped and moved to another display, and which scans for   *)
(* receivers when it is opened.                                            *)
(*                                                                         *)
(* Callbacks of the menu run one after the other on the thread of the tray *)
(* library, which draws the menu anew after each (busy), and whenever a    *)
(* redraw was asked for.  Each selection starts a worker thread; workers   *)
(* meet only in the atomics and mutexes of App.  Of the generation that    *)
(* mirror_gen counts a worker only asks whether it is still its own, so    *)
(* that mirrorGen names the worker it belongs to.                          *)
(*                                                                         *)
(* The stop of a callback is one step with its new generation: what looks  *)
(* at the one does not look at the other.                                  *)
(*                                                                         *)
(* An operator that stands right before another and is named like it, with *)
(* what is wrong with it, is a wrong variant of it: put in its place, it   *)
(* makes a property fail.                                                  *)
(***************************************************************************)
EXTENDS Naturals

CONSTANTS
  Workers,  \* selections, each of which starts a thread
  Devices,  \* receivers
  None      \* no worker, no device

ASSUME NoneAssumption == None \notin Workers /\ None \notin Devices

VARIABLES
  mirrorGen,    \* the worker that mirror_gen belongs to, None after a stop
  mirrorActive, \* what the icon and the menu go by
  currentStop,  \* the worker whose stop flag current_stop holds
  active,       \* the device selected last
  devices,      \* the devices known
  scan,         \* where the scanning thread stands; "no" is scanning = false
  pc,           \* pc[w]: where worker w stands
  stop,         \* stop[w]: its stop flag
  menu,         \* the menu as drawn last
  redraw,       \* somebody asked for a redraw
  busy,         \* a callback has run and the menu is still to be drawn
  process       \* "runs", "quits" (within 400 ms) or "exited"

mirror == <<mirrorGen, mirrorActive, currentStop, active>>
workers == <<pc, stop>>
scanner == <<devices, scan>>
screen == <<menu, redraw, busy>>
vars == <<mirror, workers, scanner, screen, process>>

-----------------------------------------------------------------------------
(***************************************************************************)
(* State.                                                                  *)
(***************************************************************************)

(* The places of a worker from storing true into mirror_active to storing  *)
(* false.                                                                  *)
Active == {"blue", "connect", "recheck", "store", "mirror", "finish", "drop"}

(* Those at which its stop flag may be in current_stop.                    *)
Stoppable == {"mirror", "finish"}

Places == Active \cup {"idle", "wait", "check", "chosen", "white", "done"}

TypeOK ==
  /\ mirrorGen \in Workers \cup {None}
  /\ mirrorActive \in BOOLEAN
  /\ currentStop \in Workers \cup {None}
  /\ active \in Devices \cup {None}
  /\ devices \in SUBSET Devices
  /\ scan \in {"no", "begin", "search", "report"}
  /\ pc \in [Workers -> Places]
  /\ stop \in [Workers -> BOOLEAN]
  /\ menu \in [streaming : BOOLEAN, devices : SUBSET Devices]
  /\ redraw \in BOOLEAN
  /\ busy \in BOOLEAN
  /\ process \in {"runs", "quits", "exited"}

(* run_tray has stored the handle of the library, without which redraws    *)
(* are dropped.  The list of the last run is in config.json.               *)
Init ==
  /\ mirrorGen = None
  /\ mirrorActive = FALSE
  /\ currentStop = None
  /\ active = None
  /\ devices \in SUBSET Devices
  /\ scan = "no"
  /\ pc = [w \in Workers |-> "idle"]
  /\ stop = [w \in Workers |-> FALSE]
  /\ menu = [streaming |-> FALSE, devices |-> devices]
  /\ redraw = FALSE
  /\ busy = FALSE
  /\ process = "runs"

-----------------------------------------------------------------------------
(***************************************************************************)
(* The menu.                                                               *)
(***************************************************************************)

MenuNow == [streaming |-> mirrorActive, devices |-> devices]

(* App::redraw hands the request to a thread of its own.                   *)
AskRedraw == redraw' = TRUE

(* What the library does after each callback.                              *)
DrawAfterClick ==
  /\ busy
  /\ menu' = MenuNow
  /\ busy' = FALSE
  /\ UNCHANGED <<redraw, mirror, workers, scanner, process>>

Redraw ==
  /\ redraw /\ ~busy
  /\ menu' = MenuNow
  /\ redraw' = FALSE
  /\ UNCHANGED <<busy, mirror, workers, scanner, process>>

-----------------------------------------------------------------------------
(***************************************************************************)
(* Callbacks.  An item can be clicked that the menu shows.                 *)
(***************************************************************************)

Clicked == ~busy /\ busy' = TRUE

StopCurrent ==
  stop' = [w \in Workers |-> w = currentStop \/ stop[w]]

StartMirror(w, d) ==
  /\ pc[w] = "idle"
  /\ mirrorGen' = w
  /\ StopCurrent
  /\ active' = d
  /\ pc' = [pc EXCEPT ![w] = "wait"]
  /\ UNCHANGED <<mirrorActive, currentStop, menu, redraw, scanner, process>>

Pick(w) ==
  /\ Clicked
  /\ ~menu.streaming
  /\ \E d \in menu.devices : StartMirror(w, d)

ChangeDisplay(w) ==
  /\ Clicked
  /\ menu.streaming
  /\ active # None
  /\ StartMirror(w, active)

StopMirror ==
  /\ Clicked
  /\ menu.streaming
  /\ mirrorGen' = None
  /\ StopCurrent
  /\ UNCHANGED <<mirrorActive, currentStop, active, pc, menu, redraw, scanner, process>>

Quit ==
  /\ Clicked
  /\ StopCurrent
  /\ process' = "quits"
  /\ UNCHANGED <<mirror, pc, menu, redraw, scanner>>

Exit ==
  /\ process = "quits"
  /\ process' = "exited"
  /\ UNCHANGED <<mirror, workers, scanner, screen>>

(* A thread is started unless one scans already.                           *)
Scan ==
  /\ scan = "no"
  /\ scan' = "begin"
  /\ UNCHANGED <<devices, mirror, workers, menu, redraw, process>>

(* The menu is opened, which draws nothing, or the icon clicked.  That a   *)
(* second opening within OPEN_DEBOUNCE is ignored leaves no trace.         *)
OnOpen ==
  /\ ~busy /\ busy' \in BOOLEAN
  /\ ~mirrorActive
  /\ Scan

Rescan ==
  /\ Clicked
  /\ ~menu.streaming
  /\ Scan

(* Clicks that find nothing to do: the menu is drawn all the same.         *)
Look ==
  /\ Clicked
  /\ UNCHANGED <<mirror, workers, scanner, menu, redraw, process>>

-----------------------------------------------------------------------------
(***************************************************************************)
(* The scanning thread.                                                    *)
(***************************************************************************)

ScanBegins ==
  /\ scan = "begin"
  /\ scan' = "search"
  /\ IF mirrorActive THEN UNCHANGED redraw ELSE AskRedraw
  /\ UNCHANGED <<devices, menu, busy, mirror, workers, process>>

(* A scan that finds nothing leaves the list as it is.                     *)
ScanFinds ==
  /\ scan = "search"
  /\ scan' = "report"
  /\ \E found \in SUBSET Devices :
       devices' = IF found = {} THEN devices ELSE found
  /\ UNCHANGED <<mirror, workers, screen, process>>

(* The status or the redraw; only then is scanning reset.                  *)
ScanReports ==
  /\ scan = "report"
  /\ scan' = "no"
  /\ AskRedraw
  /\ UNCHANGED <<devices, menu, busy, mirror, workers, process>>

-----------------------------------------------------------------------------
(***************************************************************************)
(* A worker.                                                               *)
(***************************************************************************)

Goto(w, from, to) ==
  /\ pc[w] = from
  /\ pc' = [pc EXCEPT ![w] = to]

(* The prior mirror has released the capture.                              *)
Released(w) ==
  /\ Goto(w, "wait", "check")
  /\ ~mirrorActive
  /\ UNCHANGED <<mirror, stop, scanner, screen, process>>

(* It has not, for 400 times 25 ms.                                        *)
GiveUpReleased(w) ==
  /\ Goto(w, "wait", "check")
  /\ ~mirrorActive
  /\ UNCHANGED <<mirror, stop, scanner, screen, process>>
GiveUp(w) ==
  /\ Goto(w, "wait", "check")
  /\ UNCHANGED <<mirror, stop, scanner, screen, process>>

(* Superseded while it waited.                                             *)
LeaveEarly(w) ==
  /\ mirrorGen # w
  /\ Goto(w, "check", "done")
  /\ UNCHANGED <<mirror, stop, scanner, screen, process>>

(* Another selection may come between the check and the store.             *)
GoOn(w) ==
  /\ mirrorGen = w
  /\ Goto(w, "check", "chosen")
  /\ UNCHANGED <<mirror, stop, scanner, screen, process>>

Activate(w) ==
  /\ Goto(w, "chosen", "blue")
  /\ mirrorActive' = TRUE
  /\ UNCHANGED <<mirrorGen, currentStop, active, stop, scanner, screen, process>>

TurnBlue(w) ==
  /\ Goto(w, "blue", "connect")
  /\ AskRedraw
  /\ UNCHANGED <<mirror, stop, scanner, menu, busy, process>>

(* The status asks for the code.                                           *)
AskPin(w) ==
  /\ pc[w] = "connect"
  /\ AskRedraw
  /\ UNCHANGED <<mirror, workers, scanner, menu, busy, process>>

Connected(w) ==
  /\ Goto(w, "connect", "recheck")
  /\ UNCHANGED <<mirror, stop, scanner, screen, process>>

ConnectFails(w) ==
  /\ Goto(w, "connect", "finish")
  /\ AskRedraw
  /\ UNCHANGED <<mirror, stop, scanner, menu, busy, process>>

(* Superseded, or stopped, while it connected.                             *)
LeaveConnected(w) ==
  /\ mirrorGen # w
  /\ Goto(w, "recheck", "finish")
  /\ UNCHANGED <<mirror, stop, scanner, screen, process>>

StayConnected(w) ==
  /\ mirrorGen = w
  /\ Goto(w, "recheck", "store")
  /\ UNCHANGED <<mirror, stop, scanner, screen, process>>

(* Its stop flag is new.                                                   *)
Store(w) ==
  /\ Goto(w, "store", "mirror")
  /\ currentStop' = w
  /\ AskRedraw
  /\ UNCHANGED <<mirrorGen, mirrorActive, active, stop, scanner, menu, busy, process>>

(* The session ends, stopped or not.                                       *)
MirrorEnds(w) ==
  /\ Goto(w, "mirror", "finish")
  /\ AskRedraw
  /\ UNCHANGED <<mirror, stop, scanner, menu, busy, process>>

(* finish_mirror, whose worker does not ask whether the handle is its own. *)
DropHandleKept(w) == UNCHANGED <<currentStop, stop>>
DropHandleStopping(w) == currentStop' = None /\ StopCurrent
DropHandle(w) == currentStop' = None /\ UNCHANGED stop

ClearStop(w) ==
  /\ Goto(w, "finish", "drop")
  /\ DropHandle(w)
  /\ UNCHANGED <<mirrorGen, mirrorActive, active, scanner, screen, process>>

Deactivate(w) ==
  /\ Goto(w, "drop", "white")
  /\ mirrorActive' = FALSE
  /\ UNCHANGED <<mirrorGen, currentStop, active, stop, scanner, screen, process>>

TurnWhiteSilently(w) ==
  /\ Goto(w, "white", "done")
  /\ UNCHANGED <<mirror, stop, scanner, screen, process>>
TurnWhite(w) ==
  /\ Goto(w, "white", "done")
  /\ AskRedraw
  /\ UNCHANGED <<mirror, stop, scanner, menu, busy, process>>

-----------------------------------------------------------------------------
(***************************************************************************)
(* The threads, and what is assumed of them.                               *)
(***************************************************************************)

Running == process # "exited"

Screen == Running /\ (DrawAfterClick \/ Redraw)

User ==
  /\ Running
  /\ \/ \E w \in Workers : Pick(w) \/ ChangeDisplay(w)
     \/ StopMirror \/ Quit \/ OnOpen \/ Rescan \/ Look

Scanner == Running /\ (ScanBegins \/ ScanFinds \/ ScanReports)

(* What a worker does without waiting for a receiver or a user.            *)
Worker(w) ==
  /\ Running
  /\ \/ Released(w) \/ GiveUp(w) \/ LeaveEarly(w) \/ GoOn(w)
     \/ Activate(w) \/ TurnBlue(w)
     \/ LeaveConnected(w) \/ StayConnected(w) \/ Store(w)
     \/ ClearStop(w) \/ Deactivate(w) \/ TurnWhite(w)

Session(w) ==
  /\ Running
  /\ AskPin(w) \/ Connected(w) \/ ConnectFails(w) \/ MirrorEnds(w)

Next ==
  \/ Screen \/ User \/ Scanner \/ Exit
  \/ \E w \in Workers : Worker(w) \/ Session(w)

Spec == Init /\ [][Next]_vars

(* Threads run, and so does the library; a session may last for ever, a    *)
(* connect may wait for a code for ever, and nobody need click.            *)
Fairness ==
  /\ WF_vars(Screen)
  /\ WF_vars(Scanner)
  /\ WF_vars(Exit)
  /\ \A w \in Workers : WF_vars(Worker(w))

FairSpec == Spec /\ Fairness

-----------------------------------------------------------------------------
(***************************************************************************)
(* Properties.                                                             *)
(***************************************************************************)

(* Nothing outlives the worker it belongs to: mirror_active is only true   *)
(* while some worker is between setting and clearing it, so that the icon  *)
(* and the menu do not stay as they are while streaming, and the stop flag *)
(* in current_stop is that of a worker that can still be stopped           *)
(* (finish_mirror clears all of it on every path).                         *)
NothingLeftBehind ==
  /\ mirrorActive => \E w \in Workers : pc[w] \in Active
  /\ currentStop # None => pc[currentStop] \in Stoppable

(* A mirror is stopped by its user only: the stop flag of the selection    *)
(* that mirror_gen belongs to is not set, whatever older workers do and in *)
(* whichever order they end, unless the application quits.                 *)
OnlyTheUserStops ==
  \A w \in Workers : stop[w] /\ mirrorGen = w => process # "runs"

(* The menu as drawn offers what can be done: with no redraw on its way    *)
(* and no thread about to ask for one, it shows the controls of a mirror   *)
(* exactly while mirror_active is true, and the list of devices as it is.  *)
MenuTellsTheTruth ==
  \/ redraw \/ busy \/ scan = "report"
  \/ \E w \in Workers : pc[w] \in {"blue", "white"}
  \/ menu = MenuNow

(* A selection does not wait for ever for the mirror before it, which may  *)
(* never end: it connects, or makes way for a newer one.                   *)
SelectionsGoOn ==
  \A w \in Workers : pc[w] = "wait" ~> pc[w] \in {"connect", "done"} \/ ~Running

(* What current_stop is said to hold (tray.rs:60): the "stop flag [...] of *)
(* the running mirror".                                                    *)
HandleOfTheRunning ==
  \A w \in Workers : pc[w] = "mirror" /\ ~stop[w] => currentStop = w
=============================================================================
