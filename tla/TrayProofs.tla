----------------------------- MODULE TrayProofs -----------------------------
(***************************************************************************)
(* Proofs about Tray, for any number of selections and devices.  Each part *)
(* of the invariant is preserved by itself once types are known, but for   *)
(* the stop flags, which need the owner of current_stop.                   *)
(***************************************************************************)
EXTENDS Tray, TLAPS

USE NoneAssumption

(* A selection's flag is new, and its place says whether it has begun.     *)
FreshInv ==
  /\ \A w \in Workers : pc[w] = "idle" => ~stop[w]
  /\ mirrorGen # None => pc[mirrorGen] # "idle"

IInv == TypeOK /\ NothingLeftBehind /\ FreshInv /\ OnlyTheUserStops /\ MenuTellsTheTruth

-----------------------------------------------------------------------------
LEMMA InitHolds == Init => IInv
<1> SUFFICES ASSUME Init PROVE IInv
  OBVIOUS
<1>1. TypeOK
  BY DEF Init, TypeOK, Places, Active
<1>2. NothingLeftBehind /\ FreshInv
  BY DEF Init, NothingLeftBehind, FreshInv
<1>3. OnlyTheUserStops /\ MenuTellsTheTruth
  BY DEF Init, OnlyTheUserStops, MenuTellsTheTruth, MenuNow
<1> QED BY <1>1, <1>2, <1>3 DEF IInv

-----------------------------------------------------------------------------
(***************************************************************************)
(* Actions, in groups that touch the same variables.                       *)
(***************************************************************************)

(* The screen draws what is there.                                         *)
LEMMA ScreenKeeps ==
  ASSUME IInv, Screen PROVE IInv'
<1> USE DEF IInv, Screen, DrawAfterClick, Redraw, mirror, workers, scanner
<1>1. TypeOK'
  <2>1. MenuNow \in [streaming : BOOLEAN, devices : SUBSET Devices]
    BY DEF TypeOK, MenuNow
  <2> QED BY <2>1 DEF TypeOK
<1>2. NothingLeftBehind' /\ FreshInv' /\ OnlyTheUserStops'
  BY DEF NothingLeftBehind, FreshInv, OnlyTheUserStops
<1>3. MenuTellsTheTruth'
  BY DEF MenuTellsTheTruth, MenuNow
<1> QED BY <1>1, <1>2, <1>3

(* The scanner disturbs the menu only.                                     *)
LEMMA ScannerKeeps ==
  ASSUME IInv, Scanner PROVE IInv'
<1> USE DEF IInv, Scanner, ScanBegins, ScanFinds, ScanReports, AskRedraw, mirror, workers, screen
<1>1. TypeOK'
  BY DEF TypeOK
<1>2. NothingLeftBehind' /\ FreshInv' /\ OnlyTheUserStops'
  BY DEF NothingLeftBehind, FreshInv, OnlyTheUserStops
<1>3. MenuTellsTheTruth'
  BY DEF MenuTellsTheTruth, MenuNow
<1> QED BY <1>1, <1>2, <1>3

LEMMA ExitKeeps ==
  ASSUME IInv, Exit PROVE IInv'
BY DEF IInv, Exit, mirror, workers, scanner, screen, TypeOK, NothingLeftBehind,
       FreshInv, OnlyTheUserStops, MenuTellsTheTruth, MenuNow

(* A selection supersedes and stops others than itself.                    *)
LEMMA StartKeeps ==
  ASSUME IInv, NEW w \in Workers, NEW d \in Devices, Clicked, StartMirror(w, d)
  PROVE  IInv'
<1> USE DEF IInv, Clicked, StartMirror, scanner
<1>1. TypeOK'
  BY DEF TypeOK, StopCurrent, Places
<1>2. NothingLeftBehind'
  BY DEF TypeOK, NothingLeftBehind, Active, Stoppable
<1>3. currentStop # w
  BY DEF TypeOK, NothingLeftBehind, Stoppable
<1>4. FreshInv'
  <2>1. \A v \in Workers : stop'[v] <=> v = currentStop \/ stop[v]
    BY DEF StopCurrent
  <2>2. currentStop # None => pc[currentStop] # "idle"
    BY DEF NothingLeftBehind, Stoppable
  <2> QED BY <2>1, <2>2 DEF FreshInv, TypeOK
<1>5. OnlyTheUserStops'
  BY <1>3 DEF OnlyTheUserStops, FreshInv, StopCurrent, TypeOK
<1>6. MenuTellsTheTruth'
  BY DEF MenuTellsTheTruth
<1> QED BY <1>1, <1>2, <1>4, <1>5, <1>6

LEMMA UserKeeps ==
  ASSUME IInv, User PROVE IInv'
<1>1. ASSUME NEW w \in Workers, Pick(w) PROVE IInv'
  BY <1>1, StartKeeps DEF Pick, IInv, TypeOK
<1>2. ASSUME NEW w \in Workers, ChangeDisplay(w) PROVE IInv'
  BY <1>2, StartKeeps DEF ChangeDisplay, IInv, TypeOK
<1>3. CASE StopMirror
  <2> USE <1>3 DEF IInv, StopMirror, Clicked, StopCurrent, scanner
  <2>1. TypeOK'
    BY DEF TypeOK
  <2>2. NothingLeftBehind' /\ MenuTellsTheTruth' /\ OnlyTheUserStops'
    BY DEF NothingLeftBehind, MenuTellsTheTruth, OnlyTheUserStops
  <2>3. FreshInv'
    BY DEF FreshInv, NothingLeftBehind, Stoppable, TypeOK
  <2> QED BY <2>1, <2>2, <2>3
<1>4. CASE Quit
  <2> USE <1>4 DEF IInv, Quit, Clicked, StopCurrent, mirror, scanner
  <2>1. TypeOK'
    BY DEF TypeOK
  <2>2. NothingLeftBehind' /\ MenuTellsTheTruth' /\ OnlyTheUserStops'
    BY DEF NothingLeftBehind, MenuTellsTheTruth, OnlyTheUserStops
  <2>3. FreshInv'
    BY DEF FreshInv, NothingLeftBehind, Stoppable, TypeOK
  <2> QED BY <2>1, <2>2, <2>3
<1>5. CASE OnOpen \/ Rescan \/ Look
  <2> USE <1>5 DEF IInv, OnOpen, Rescan, Look, Clicked, Scan, mirror, workers, scanner
  <2>1. TypeOK'
    BY DEF TypeOK
  <2>2. NothingLeftBehind' /\ FreshInv' /\ OnlyTheUserStops'
    BY DEF NothingLeftBehind, FreshInv, OnlyTheUserStops
  <2>3. MenuTellsTheTruth'
    BY DEF MenuTellsTheTruth, MenuNow
  <2> QED BY <2>1, <2>2, <2>3
<1> QED BY <1>1, <1>2, <1>3, <1>4, <1>5 DEF User

-----------------------------------------------------------------------------
(***************************************************************************)
(* Workers.                                                                *)
(***************************************************************************)

(* A step of a worker that moves it within or outside the places that a    *)
(* property speaks of, and leaves alone what they belong to.               *)
LEMMA MoveKeeps ==
  ASSUME IInv, NEW w \in Workers, NEW from \in Places, NEW to \in Places,
         Goto(w, from, to), from # "idle", to # "idle",
         from \in Active => to \in Active,
         from \in Stoppable => to \in Stoppable,
         from \in {"blue", "white"} => redraw',
         redraw' \in BOOLEAN, redraw => redraw',
         UNCHANGED <<mirror, stop, scanner, menu, busy, process>>
  PROVE  IInv'
<1> USE DEF IInv, Goto, mirror, scanner
<1>1. TypeOK'
  BY DEF TypeOK
<1>2. NothingLeftBehind'
  BY DEF TypeOK, NothingLeftBehind
<1>3. FreshInv'
  BY DEF TypeOK, FreshInv
<1>4. OnlyTheUserStops'
  BY DEF OnlyTheUserStops
<1>5. MenuTellsTheTruth'
  BY DEF TypeOK, MenuTellsTheTruth, MenuNow
<1> QED BY <1>1, <1>2, <1>3, <1>4, <1>5

LEMMA ActivateKeeps ==
  ASSUME IInv, NEW w \in Workers, Activate(w) PROVE IInv'
<1> USE DEF IInv, Activate, Goto, scanner, screen
<1>1. TypeOK'
  BY DEF TypeOK, Places, Active
<1>2. NothingLeftBehind'
  BY DEF TypeOK, NothingLeftBehind, Active, Stoppable
<1>3. FreshInv' /\ OnlyTheUserStops'
  BY DEF TypeOK, FreshInv, OnlyTheUserStops
<1>4. MenuTellsTheTruth'
  BY DEF TypeOK, MenuTellsTheTruth
<1> QED BY <1>1, <1>2, <1>3, <1>4

LEMMA StoreKeeps ==
  ASSUME IInv, NEW w \in Workers, Store(w) PROVE IInv'
<1> USE DEF IInv, Store, Goto, AskRedraw, scanner
<1>1. TypeOK'
  BY DEF TypeOK, Places, Active
<1>2. NothingLeftBehind'
  BY DEF TypeOK, NothingLeftBehind, Active, Stoppable
<1>3. FreshInv' /\ OnlyTheUserStops' /\ MenuTellsTheTruth'
  BY DEF TypeOK, FreshInv, OnlyTheUserStops, MenuTellsTheTruth
<1> QED BY <1>1, <1>2, <1>3

LEMMA ClearKeeps ==
  ASSUME IInv, NEW w \in Workers, ClearStop(w) PROVE IInv'
<1> USE DEF IInv, ClearStop, Goto, DropHandle, scanner, screen
<1>1. TypeOK'
  BY DEF TypeOK, Places, Active
<1>2. NothingLeftBehind'
  BY DEF TypeOK, NothingLeftBehind, Active
<1>3. FreshInv' /\ OnlyTheUserStops'
  BY DEF TypeOK, FreshInv, OnlyTheUserStops
<1>4. MenuTellsTheTruth'
  BY DEF TypeOK, MenuTellsTheTruth, MenuNow
<1> QED BY <1>1, <1>2, <1>3, <1>4

LEMMA DeactivateKeeps ==
  ASSUME IInv, NEW w \in Workers, Deactivate(w) PROVE IInv'
<1> USE DEF IInv, Deactivate, Goto, scanner, screen
<1>1. TypeOK'
  BY DEF TypeOK, Places, Active
<1>2. NothingLeftBehind'
  BY DEF TypeOK, NothingLeftBehind, Stoppable
<1>3. FreshInv' /\ OnlyTheUserStops'
  BY DEF TypeOK, FreshInv, OnlyTheUserStops
<1>4. MenuTellsTheTruth'
  BY DEF TypeOK, MenuTellsTheTruth
<1> QED BY <1>1, <1>2, <1>3, <1>4

LEMMA WorkerKeeps ==
  ASSUME IInv, NEW w \in Workers, Worker(w) PROVE IInv'
<1> USE DEF Places, Active, Stoppable, screen
<1>0. redraw \in BOOLEAN
  BY DEF IInv, TypeOK
<1>1. CASE Released(w) \/ GiveUp(w)
  BY <1>0, <1>1, MoveKeeps DEF Released, GiveUp
<1>2. CASE LeaveEarly(w) \/ GoOn(w)
  BY <1>0, <1>2, MoveKeeps DEF LeaveEarly, GoOn
<1>3. CASE TurnBlue(w) \/ TurnWhite(w)
  BY <1>0, <1>3, MoveKeeps DEF TurnBlue, TurnWhite, AskRedraw
<1>4. CASE LeaveConnected(w) \/ StayConnected(w)
  BY <1>0, <1>4, MoveKeeps DEF LeaveConnected, StayConnected
<1> QED
  BY <1>1, <1>2, <1>3, <1>4, ActivateKeeps, StoreKeeps, ClearKeeps, DeactivateKeeps
     DEF Worker

LEMMA SessionKeeps ==
  ASSUME IInv, NEW w \in Workers, Session(w) PROVE IInv'
<1> USE DEF Places, Active, Stoppable, AskRedraw, screen
<1>0. redraw \in BOOLEAN
  BY DEF IInv, TypeOK
<1>1. CASE AskPin(w)
  <2> USE <1>1 DEF IInv, AskPin, mirror, workers, scanner
  <2>1. TypeOK' /\ FreshInv' /\ OnlyTheUserStops' /\ MenuTellsTheTruth'
    BY DEF TypeOK, FreshInv, OnlyTheUserStops, MenuTellsTheTruth
  <2>2. NothingLeftBehind'
    BY DEF NothingLeftBehind
  <2> QED BY <2>1, <2>2
<1>2. CASE Connected(w)
  BY <1>0, <1>2, MoveKeeps DEF Connected
<1>3. CASE ConnectFails(w) \/ MirrorEnds(w)
  BY <1>0, <1>3, MoveKeeps DEF ConnectFails, MirrorEnds
<1> QED BY <1>1, <1>2, <1>3 DEF Session

LEMMA StutterKeeps ==
  ASSUME IInv, UNCHANGED vars PROVE IInv'
BY DEF IInv, vars, mirror, workers, scanner, screen, TypeOK, NothingLeftBehind,
       FreshInv, OnlyTheUserStops, MenuTellsTheTruth, MenuNow

-----------------------------------------------------------------------------
(***************************************************************************)
(* The theorems.                                                           *)
(***************************************************************************)

(* Whatever is clicked, in whichever order threads run and end, the state  *)
(* that App's threads share keeps to the invariant.                        *)
THEOREM Invariance == Spec => []IInv
<1>1. IInv /\ [Next]_vars => IInv'
  BY ScreenKeeps, UserKeeps, ScannerKeeps, ExitKeeps, WorkerKeeps, SessionKeeps, StutterKeeps
     DEF Next
<1> QED BY InitHolds, <1>1, PTL DEF Spec

(* The variables of App keep their types.                                  *)
THEOREM TypeCorrect == Spec => []TypeOK
<1>1. IInv => TypeOK
  BY DEF IInv
<1> QED BY Invariance, <1>1, PTL

(* mirror_active and current_stop never outlive the workers behind them.   *)
THEOREM LeavesNothing == Spec => []NothingLeftBehind
<1>1. IInv => NothingLeftBehind
  BY DEF IInv
<1> QED BY Invariance, <1>1, PTL

(* No worker ever stops the mirror that was selected last.                 *)
THEOREM UserStops == Spec => []OnlyTheUserStops
<1>1. IInv => OnlyTheUserStops
  BY DEF IInv
<1> QED BY Invariance, <1>1, PTL

(* A menu that nobody is about to draw anew shows what is the case.        *)
THEOREM MenuTruth == Spec => []MenuTellsTheTruth
<1>1. IInv => MenuTellsTheTruth
  BY DEF IInv
<1> QED BY Invariance, <1>1, PTL
=============================================================================
