--------------------------- MODULE ParameterRanger ---------------------------
(***************************************************************************)
(* The ranger of test_framework (param_ranger.c): a parameter of a test    *)
(* goes up and down between its limits, stays at each of them for a while, *)
(* and takes a new value not before some seconds have passed.              *)
(***************************************************************************)
EXTENDS Integers

CONSTANTS
    RangeMin, RangeMax, RangeStep,
    Plateaus,        \* plateau_length
    Intervals        \* interval_sec

ASSUME RangerAssumption ==
    /\ RangeMin \in Int /\ RangeMax \in Int /\ RangeMin < RangeMax /\ RangeStep \in Nat \ {0}
    /\ Plateaus \subseteq Nat /\ Intervals \subseteq Nat

VARIABLES
    previous_value, upwards, on_plateau, \* the bits of direction
    plateau_remaining,
    ranger_setup,    \* [plateau_length, interval_sec]
    since_previous,  \* seconds since previous_timestamp, as far as they matter
    repeated         \* history: how often the value has been returned again

rangerVars == <<previous_value, upwards, on_plateau, plateau_remaining, ranger_setup, since_previous, repeated>>

-----------------------------------------------------------------------------
(* cwtest_param_ranger_get_next()                                          *)

IsTime == ranger_setup.interval_sec = 0 \/ since_previous >= ranger_setup.interval_sec

Reached(value) == IF upwards THEN value >= RangeMax ELSE value <= RangeMin

NextValue == IF upwards THEN previous_value + RangeStep ELSE previous_value - RangeStep
Limit == IF upwards THEN RangeMax ELSE RangeMin

(* A limit that is reached turns the direction, and begins a plateau.      *)
Move ==
    /\ ~on_plateau
    /\ IF Reached(NextValue)
       THEN /\ previous_value' = Limit /\ upwards' = ~upwards
            /\ on_plateau' = (ranger_setup.plateau_length # 0)
            /\ plateau_remaining' = ranger_setup.plateau_length
       ELSE /\ previous_value' = NextValue
            /\ UNCHANGED <<upwards, on_plateau, plateau_remaining>>

\* Mutant: the plateau is not left.
LeavesPlateauNever == FALSE
LeavesPlateau == plateau_remaining = 0

StayOnPlateau ==
    /\ on_plateau
    /\ on_plateau' = ~LeavesPlateau
    /\ plateau_remaining' = IF plateau_remaining > 0 THEN plateau_remaining - 1 ELSE 0
    /\ UNCHANGED <<previous_value, upwards>>

GetNext ==
    /\ IsTime
    /\ Move \/ StayOnPlateau
    /\ since_previous' = 0
    /\ repeated' = IF previous_value' = previous_value THEN repeated + 1 ELSE 0
    /\ UNCHANGED ranger_setup

Second ==
    /\ ~IsTime /\ since_previous' = since_previous + 1
    /\ UNCHANGED <<previous_value, upwards, on_plateau, plateau_remaining, ranger_setup, repeated>>

-----------------------------------------------------------------------------
(* cwtest_param_ranger_init(), and the two functions that set it up.       *)
RangerInit ==
    /\ previous_value \in RangeMin..RangeMax /\ upwards = (previous_value # RangeMax)
    /\ on_plateau = FALSE /\ plateau_remaining = 0
    /\ ranger_setup \in [plateau_length : Plateaus, interval_sec : Intervals]
    /\ since_previous = 0 /\ repeated = 0

RangerNext == GetNext \/ Second

RangerSpec == RangerInit /\ [][RangerNext]_rangerVars

-----------------------------------------------------------------------------
(* Values stay in their range and come to its limits: a value is returned  *)
(* again at a limit only, no more often than the plateau is long and once  *)
(* more ("it may be N+1"), and on the way none is further from the next    *)
(* than the step.                                                          *)
RangeIsSwept ==
    /\ previous_value \in RangeMin..RangeMax
    /\ repeated > 0 => previous_value \in {RangeMin, RangeMax}
    /\ repeated <= ranger_setup.plateau_length + 1
    /\ on_plateau => previous_value = IF upwards THEN RangeMin ELSE RangeMax
=============================================================================
