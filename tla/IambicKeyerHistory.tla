-------------------------- MODULE IambicKeyerHistory --------------------------
(***************************************************************************)
(* The iambic keyer with history variables that follow a squeeze (both     *)
(* paddles closed) and its release, for what the documentation of          *)
(* cw_key_ik_enable_curtis_mode_b() promises of modes A and B.  The code   *)
(* has no counterpart of them.                                             *)
(***************************************************************************)
EXTENDS IambicKeyer

VARIABLES
    counting,   \* a squeeze was released while a mark was being played
    extra,      \* the marks begun since then
    wasB,       \* mode B has been enabled at some time
    disturbed   \* bound: text, flushes and resets come in between, in mode A; no history

historyVars == <<vars, counting, extra, wasB, disturbed>>

HistoryInit == Init /\ counting = FALSE /\ extra = 0 /\ wasB = FALSE /\ disturbed \in BOOLEAN

ReleasesSqueeze(dot, dash) ==
    /\ ~dot /\ ~dash
    /\ \A s \in Symbols : paddle[s]
    /\ at["gen"] = "play" /\ playing \in Symbols

PaddleEventNoted ==
    /\ \E dot, dash \in BOOLEAN :
          /\ NotifyPaddles(dot, dash)
          /\ counting' = (~disturbed /\ ReleasesSqueeze(dot, dash))
    /\ extra' = 0
    /\ UNCHANGED <<wasB, disturbed>>

ModeNoted ==
    /\ ~disturbed
    /\ \E value \in BOOLEAN : SetCurtisModeB(value)
    /\ wasB' = (wasB \/ curtis_mode_b')
    /\ UNCHANGED <<counting, extra, disturbed>>

RequestNoted ==
    /\ disturbed
    /\ SendText \/ FlushQueue \/ ResetState
    /\ UNCHANGED <<counting, extra, wasB, disturbed>>

StepNoted ==
    /\ ClientGoesOn \/ Generator
    /\ extra' = IF counting /\ (\E t \in Threads : BeginMark(t)) THEN extra + 1 ELSE extra
    /\ UNCHANGED <<counting, wasB, disturbed>>

WaiterNoted == Waiter /\ UNCHANGED <<counting, extra, wasB, disturbed>>

HistoryNext == PaddleEventNoted \/ ModeNoted \/ RequestNoted \/ StepNoted \/ WaiterNoted

HistorySpec == HistoryInit /\ [][HistoryNext]_historyVars

(* The history is in the way of no step, so the fairness is the keyer's.   *)
HistoryLive == HistorySpec /\ Fairness

-----------------------------------------------------------------------------
(* After the release of a squeeze the keyer sends at most one mark more in *)
(* mode A, and two if mode B has been used: it is never caught in an       *)
(* alternation that nobody asks for.                                       *)
SqueezeEnds == extra <= (IF wasB THEN 2 ELSE 1)

(* The keyer's assertions, and the one tone that drives it, as long as     *)
(* nothing but paddle events and changes of the mode reach the library.    *)
KeyFitsWhileUndisturbed == ~disturbed => KeyFitsGraphState
OneToneWhileUndisturbed == ~disturbed => ClockedByOneTone

(* The keyer goes on as the paddles ask, and no further: its key fits its  *)
(* state, one tone drives it, and a released squeeze comes to an end.      *)
KeyerIsSound ==
    /\ TypeOK
    /\ KeyFitsWhileUndisturbed
    /\ OneToneWhileUndisturbed
    /\ SqueezeEnds

(* In mode A the mark being sent on release is completed, and nothing else *)
(* is sent.                                                                *)
ModeASendsNothingElse == wasB \/ extra = 0
=============================================================================
