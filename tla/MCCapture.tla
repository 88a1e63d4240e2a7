------------------------------ MODULE MCCapture ------------------------------
(* Capture for TLC: every display and mode, few chunks; and what the       *)
(* captured picture looks like, for sizes that screens have.               *)
EXTENDS Capture

MCMonitors ==
  { [x |-> 0,    y |-> 0,   w |-> 1366, h |-> 768],
    [x |-> 1366, y |-> 12,  w |-> 2560, h |-> 1441],
    [x |-> 0,    y |-> 768, w |-> 320,  h |-> 240] }

MCSizes ==
  { [w |-> 0, h |-> 0], [w |-> 1920, h |-> 1080], [w |-> 1365, h |-> 767],
    [w |-> 7, h |-> 5], [w |-> 3, h |-> 900] }
=============================================================================
