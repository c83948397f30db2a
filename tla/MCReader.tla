------------------------------ MODULE MCReader ------------------------------
(* Files for the runs of module Reader.                                     *)
EXTENDS Reader

(* Frames of equal length, three groups of pictures.                        *)
FilmTs == <<0, 2, 4, 6, 8, 10, 12>>
FilmKeys == {1, 4, 6}
FilmDuration == 14
FilmPositions == {-1, 3, 7, 9, 14}

(* It starts late, so that a seek to 0 finds no key frame; the lengths      *)
(* differ; one frame and the whole last group are damaged.                  *)
TornTs == <<1, 2, 5, 6, 8, 9>>
TornKeys == {1, 3, 5}
TornDamaged == {2, 5, 6}
TornDuration == 10
TornPositions == {0, 1, 5, 9}
=============================================================================
