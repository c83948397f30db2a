----------------------------- MODULE MCChapters -----------------------------
(* Files for the run of module Chapters: recordings of two lengths, from    *)
(* one to three of them, with clocks that start anywhere.                   *)
EXTENDS Chapters

P(s, t, d, k, r) ==
  [stream |-> s, pts |-> t, duration |-> d, known |-> k, recording |-> r]

(* Three frames of video, out of order, the second without a position, and  *)
(* a packet of sound.                                                       *)
Group(c, r) ==
  <<P(0, c + 1, 1, TRUE, r), P(0, c, 1, FALSE, r), P(1, c, 3, TRUE, r),
    P(0, c + 2, 1, TRUE, r)>>

Recording(clock, n, r) ==
  LET part[k \in 1 .. n] ==
        IF k = 1 THEN Group(clock, r) \o <<P(2, clock, 3, TRUE, r)>>
        ELSE part[k - 1] \o Group(clock + 3 * (k - 1), r)
  IN  part[n]

Clocks == {0, 20}
Sizes == {5, 9}
One == {Recording(c, n, 1) : c \in Clocks, n \in Sizes}
Two == {f \o Recording(c, n, 2) : f \in One, c \in Clocks, n \in Sizes}
Three == {f \o Recording(0, 5, 3) : f \in Two}

(* Files without sound: from the start; from the middle on.                 *)
Silent == <<P(0, 0, 1, TRUE, 1), P(2, 0, 3, TRUE, 1)>>
Muted == Recording(0, 9, 1) \o [k \in 1 .. 24 |-> P(0, 26 + k, 1, TRUE, 1)]

SmallFilms == One \cup Two \cup Three \cup {Silent, Muted}
SmallMedia == [s \in 0 .. 2 |->
  CASE s = 0 -> "video" [] s = 1 -> "audio" [] OTHER -> "subtitle"]
=============================================================================
