\* Seven pictures of two slices: three in a row that congestion may drop, with
\* a keyframe before and after them.  The loop ends with the stream.
CHECK_DEADLOCK FALSE
SPECIFICATION Spec
CONSTANTS
  Slices = 2
  MaxAu = 7
INVARIANTS
  WholeFrames
  ParameterSetsMatch
PROPERTY
  IsDecoderFeed
