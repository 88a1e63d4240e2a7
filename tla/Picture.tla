------------------------------- MODULE Picture -------------------------------
(***************************************************************************)
(* What a capture shows (src/rust/airfry/src/capture.rs): the monitor that *)
(* an X11 capture is cropped to, the size that the picture is scaled to,   *)
(* and the underscan: the border around a picture that was shrunk into the *)
(* middle of its frame, which can be retuned while the capture runs.       *)
(*                                                                         *)
(* A size is a record [w, h], a geometry [x, y, w, h].  Underscan is a     *)
(* percentage; CropToEnd and the like are wrong variants of the operator   *)
(* they stand before.                                                      *)
(***************************************************************************)
EXTENDS Integers, Sequences
LOCAL INSTANCE FiniteSetsExt

CONSTANTS
  MinWidth,   \* a monitor is at least so wide: 640 in the code
  Monitors,   \* the geometries that monitors may have
  Sizes,      \* the sizes that a Wayland portal may report, [w |-> 0, h |-> 0]
              \* if it does not know it
  Heights,    \* values of $AIRFRY_OUTPUT_HEIGHT; 0 for none
  Underscans, \* the percentages that are asked for
  MaxOutputs  \* the most outputs that xrandr lists

ASSUME MinWidthAssumption == MinWidth \in Nat /\ MinWidth >= 4
ASSUME MonitorsAssumption ==
         Monitors \subseteq [x : Nat, y : Nat, w : Nat, h : Nat \ {0}]
ASSUME SizesAssumption == Sizes \subseteq [w : Nat, h : Nat]
ASSUME UnderscansAssumption == Heights \subseteq Nat /\ Underscans \subseteq 0..100
ASSUME OutputsAssumption == MaxOutputs \in Nat

-----------------------------------------------------------------------------
(***************************************************************************)
(* The source.                                                             *)
(***************************************************************************)

(* A line of xrandr: an output, with a geometry if it is connected.        *)
Outputs == [primary : BOOLEAN, geometry : Monitors]

NoRegion == [x |-> 0, y |-> 0, endx |-> 0, endy |-> 0]

(* parse_xrandr_geometry takes nothing that is narrower than a monitor.    *)
Usable(outputs) == { i \in DOMAIN outputs : outputs[i].geometry.w >= MinWidth }

(* detect_primary_monitor: the primary output, or else the first one.      *)
PrimaryMonitor(outputs) ==
  LET primary == { i \in Usable(outputs) : outputs[i].primary }
      chosen  == IF primary # {} THEN primary ELSE Usable(outputs)
  IN  IF chosen = {} THEN NoRegion
      ELSE LET g == outputs[Min(chosen)].geometry
           IN  [x |-> g.x, y |-> g.y, endx |-> g.x + g.w, endy |-> g.y + g.h]

Cropped(region) == region.endx > region.x /\ region.endy > region.y

(* start_x11: the size that it expects of a region; none, if it does not   *)
(* know a region.                                                          *)
ExpectedSize(region) ==
  IF Cropped(region)
    THEN [w |-> region.endx - region.x, h |-> region.endy - region.y]
    ELSE [w |-> 0, h |-> 0]

CropToEnd(region) ==
  [startx |-> region.x, starty |-> region.y, endx |-> region.endx,
   endy |-> region.endy]

(* build_x11_pipeline: what it tells ximagesrc to capture.                 *)
Crop(region) ==
  [startx |-> region.x, starty |-> region.y, endx |-> region.endx - 1,
   endy |-> region.endy - 1]

(* ximagesrc: the end is the last column and row that it captures.         *)
Delivered(crop) ==
  [w |-> crop.endx - crop.startx + 1, h |-> crop.endy - crop.starty + 1]

-----------------------------------------------------------------------------
(***************************************************************************)
(* The scale: OutputScale::compute.                                        *)
(***************************************************************************)

Exactly(n) == n

Even(n) == n - (n % 2)

(* The frame: the source, or what is left of it at $AIRFRY_OUTPUT_HEIGHT.  *)
Target(source, height) ==
  IF height > 0
    THEN [w |-> Even((source.w * height) \div source.h), h |-> Even(height)]
    ELSE [w |-> Even(source.w), h |-> Even(source.h)]

Limit(pct) == IF pct < 0 THEN 0 ELSE IF pct > 25 THEN 25 ELSE pct

Shrunk(n, pct) == Even((n * (100 - Limit(pct))) \div 100)

(* A frame with content of some size in its middle.                        *)
Centred(frame, content) ==
  [x |-> (frame.w - content.w) \div 2, y |-> (frame.h - content.h) \div 2,
   w |-> content.w, h |-> content.h]

Scale(kind, frame, content) ==
  [kind |-> kind, frame |-> frame, picture |-> Centred(frame, content)]

(* The frame that is encoded and how the picture lies in it: as it is, of  *)
(* another size, or shrunk and with a stage of the pipeline that can be    *)
(* retuned.                                                                *)
Compute(source, height, pct, live) ==
  LET frame == Target(source, height)
  IN  IF source.w <= 0 \/ source.h <= 0 \/ frame.w <= 0 \/ frame.h <= 0
        THEN Scale("native", source, source)
      ELSE IF Limit(pct) = 0 /\ ~live
        THEN Scale(IF frame = source THEN "native" ELSE "plain", frame, frame)
      ELSE Scale("fit", frame, [w |-> Shrunk(frame.w, pct), h |-> Shrunk(frame.h, pct)])

AtLeastTwo(n) == IF n < 2 THEN 2 ELSE n

RetuneShrinksAgain(scale, pct) ==
  IF scale.kind # "fit" THEN scale
  ELSE Scale("fit", scale.frame,
             [w |-> AtLeastTwo(Shrunk(scale.picture.w, pct)),
              h |-> AtLeastTwo(Shrunk(scale.picture.h, pct))])

(* LiveFit::apply, with fit_geometry: the picture changes, the frame does  *)
(* not, and nothing happens without the stage.                             *)
Retune(scale, pct) ==
  IF scale.kind # "fit" THEN scale
  ELSE Scale("fit", scale.frame,
             [w |-> AtLeastTwo(Shrunk(scale.frame.w, pct)),
              h |-> AtLeastTwo(Shrunk(scale.frame.h, pct))])

-----------------------------------------------------------------------------
(***************************************************************************)
(* Properties.                                                             *)
(***************************************************************************)

(* The sources that a capture can have.                                    *)
OutputLists == UNION { [1..n -> Outputs] : n \in 0..MaxOutputs }
Sources == Sizes \cup { ExpectedSize(PrimaryMonitor(os)) : os \in OutputLists }

(* A source that can be scaled, to four pixels each way or more.           *)
Scalable(source, height) ==
  /\ source.w > 0 /\ source.h > 0
  /\ Target(source, height).w >= 4 /\ Target(source, height).h >= 4

(* However often and wherever from the underscan is retuned, the picture   *)
(* is the one that a capture started with that percentage would show: who  *)
(* reconnects sees it as it was, and the frame, which the receiver has     *)
(* been told of, stays.                                                    *)
RetunedIsRestarted ==
  \A source \in Sources, height \in Heights, p \in Underscans, q \in Underscans :
    Scalable(source, height) =>
      Retune(Compute(source, height, p, TRUE), q) = Compute(source, height, q, TRUE)

(* The frame that is encoded has even sides (its colours have half of its  *)
(* lines and columns), and the picture and the border on both sides of it  *)
(* fill it to the last pixel; at the start and after a retune.             *)
PictureFillsFrame ==
  \A source \in Sources, height \in Heights, p \in Underscans, q \in Underscans,
     live \in BOOLEAN :
    Scalable(source, height) =>
      \A s \in { Compute(source, height, p, live),
                 Retune(Compute(source, height, p, live), q) } :
        /\ s.frame.w % 2 = 0 /\ s.frame.h % 2 = 0
        /\ s.picture.x >= 0 /\ s.picture.y >= 0
        /\ 2 * s.picture.x + s.picture.w = s.frame.w
        /\ 2 * s.picture.y + s.picture.h = s.frame.h

(* What X11 delivers of a monitor has the size that frame and border were  *)
(* computed from, and is all of one connected monitor.                     *)
MonitorIsWhole ==
  \A os \in OutputLists :
    LET region == PrimaryMonitor(os)
    IN  Cropped(region) =>
          /\ Delivered(Crop(region)) = ExpectedSize(region)
          /\ \E i \in DOMAIN os :
               /\ [x |-> region.x, y |-> region.y] =
                    [x |-> os[i].geometry.x, y |-> os[i].geometry.y]
               /\ ExpectedSize(region) =
                    [w |-> os[i].geometry.w, h |-> os[i].geometry.h]
               /\ (\E j \in Usable(os) : os[j].primary) => os[i].primary
=============================================================================
