----------------------------- MODULE MCDemuxing -----------------------------
(* A file for the runs of module Demuxing.                                  *)
EXTENDS Demuxing

P(s, t, k, d) == [stream |-> s, ts |-> t, key |-> k, duration |-> d]

(* The video starts late, after one stream of sound and before another;     *)
(* there is one of data.  The third key packet of the video has no duration *)
(* and comes long after the second, so that both loops back off far.        *)
SmallFile ==
  <<P(1, 0, TRUE, 2), P(0, 1, TRUE, 1), P(1, 2, TRUE, 2), P(0, 2, TRUE, 1),
    P(0, 3, FALSE, 1), P(2, 4, TRUE, 1), P(0, 5, FALSE, 2), P(0, 7, FALSE, 1),
    P(0, 8, TRUE, 0), P(3, 9, TRUE, 1), P(0, 9, FALSE, 0), P(0, 11, TRUE, 1)>>
SmallMedia ==
  [s \in 0 .. 3 |-> CASE s = 0 -> "video" [] s = 2 -> "data" [] OTHER -> "audio"]
=============================================================================
