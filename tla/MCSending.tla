------------------------------- MODULE MCSending -------------------------------
(* Sending for TLC.                                                        *)
EXTENDS SendingHistory

Characters == { <<"dot">>, <<"dot", "dash">> }
Texts == { <<<<"dot">>, Blank, <<"dot", "dash">>>> }
InitialParameters == [speed |-> 12, weighting |-> 50, gap |-> 0]

(* libcw_gen.c:2778, "to keep PARIS calibration correctly timed (PARIS has *)
(* 22 full units, and 28 empty ones)": the word PARIS, with the space      *)
(* after it, takes 50 units, up to what is lost in divisions.              *)
ParisTakesFiftyUnits ==
    LET marks == 10 * Now.dot + 4 * Now.dash
        spaces == 9 * Now.ims + 4 * Now.ics + Now.iws
        word == 50 * (DotCalibration \div parameters.speed)
    IN  parameters.gap = 0 => marks + spaces \in (word - 50)..(word + 50)
=============================================================================
