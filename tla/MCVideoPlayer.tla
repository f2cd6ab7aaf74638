--------------------------- MODULE MCVideoPlayer ---------------------------
(* TLC values for VideoPlayer: one file that opens, one shorter one, and,   *)
(* for the small instance, a file that does not open.                       *)
EXTENDS VideoPlayer, TLC

CONSTANTS v1, v2

OneStep     == {-1, 1}
OneVideo    == v1 :> 2
TwoVideos   == v1 :> 3 @@ v2 :> 2
BrokenVideo == v1 :> 2 @@ v2 :> 0
=============================================================================
