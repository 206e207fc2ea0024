----------------------------- MODULE SendingHistory -----------------------------
(***************************************************************************)
(* Sending, with variables that remember how much silence has been put     *)
(* into the queue since the last mark, what it was put there for, whether  *)
(* the end of a mark of the straight key has been lost.                    *)
(***************************************************************************)
EXTENDS Sending

VARIABLES
    silence,   \* the silence that has been enqueued since the last mark
    told,      \* what the client has called for: "character", "no_ics", "space" or "unknown"
    lost       \* the tone that ends a mark of the straight key may have found no room,
               \* or have been removed

historyVars == <<vars, silence, told, lost>>

HistoryInit ==
    /\ Init
    /\ silence = 0 /\ told = "unknown" /\ lost = FALSE

(* From a removal, a flush, a failure, a change of parameters or a second  *)
(* space to the next mark the silence is not looked at.                    *)
CallForgets ==
    /\ \/ \E wpm \in Speeds : SetSpeed(wpm)
       \/ \E percent \in Weightings : SetWeighting(percent)
       \/ \E gap \in Gaps : SetGap(gap)
       \/ FlushQueue \/ ResetKey
    /\ silence' = 0 /\ told' = "unknown"
    /\ UNCHANGED lost

CharacterIsRemoved ==
    /\ RemoveLastCharacter
    /\ silence' = 0 /\ told' = "unknown"
    /\ lost' = TRUE

CallRemembers ==
    /\ \/ \E r \in Representations, last \in {<<>>, <<"ics">>} : SendCharacter(r, last)
       \/ \E string \in Strings : SendString(string)
       \/ NextOfString /\ Head(text) # Blank
       \/ \E value \in BOOLEAN : SetKey(value)
       \/ WaitForSilence
    /\ UNCHANGED <<silence, told, lost>>

SpaceBegins ==
    /\ SendSpace \/ (NextOfString /\ Head(text) = Blank)
    /\ told' = IF told \in {"character", "no_ics"} THEN "space" ELSE "unknown"
    /\ silence' = IF told' = "space" THEN silence ELSE 0
    /\ UNCHANGED lost

ToneIsEnqueued ==
    /\ Enqueue
    /\ LET step == Head(steps)
       IN  /\ silence' = IF step \in Marks \/ told = "unknown" THEN 0
                       ELSE silence + Silence(step)
           /\ told' = CASE step \in Marks -> "no_ics"
                        [] step = "ics" -> "character"
                        [] step = "quantum" -> "unknown"
                        [] OTHER -> told
    /\ lost' = FALSE

ToneIsLost ==
    /\ EnqueueFails
    /\ silence' = 0 /\ told' = "unknown"
    /\ lost' = (lost \/ Head(steps) \in {"falling", "quantum"})

ToneIsDequeued ==
    /\ Dequeue \/ FindEmpty
    /\ UNCHANGED <<silence, told, lost>>

HistoryNext ==
    \/ CallForgets \/ CharacterIsRemoved \/ CallRemembers \/ SpaceBegins \/ ToneIsEnqueued \/ ToneIsLost
    \/ ToneIsDequeued

HistorySpec ==
    /\ HistoryInit /\ [][HistoryNext]_historyVars
    /\ WF_historyVars(ToneIsEnqueued) /\ WF_historyVars(ToneIsLost)
    /\ WF_historyVars(ToneIsDequeued)

-----------------------------------------------------------------------------
(* The parts of a space add up: one inter-mark-space after a character     *)
(* without a space, an inter-character-space with the gap after another,   *)
(* and an inter-word-space, with what a gap adds to it, after a blank (but *)
(* for the microsecond that is lost in halves), whatever was sent before   *)
(* and even if the straight key has been used in between.                  *)
SpacesAddUp ==
    steps = <<>> =>
        CASE told = "no_ics" -> silence \in {0, Now.ims}
          [] told = "character" -> silence = Now.ics + Now.additional
          [] told = "space" ->
                \E extra \in {0, Now.additional}, halves \in {0, 1} :
                   silence + halves = Now.iws + extra + Now.adjustment
          [] OTHER -> TRUE

(* Whatever is sent and refused, the tones in the queue are timed as asked *)
(* for, to the end of each space.                                          *)
SendingIsSound == TypeOK /\ SpacesAddUp

(* The tone of the straight key stops after the key has been opened, in    *)
(* whatever text it has been used, unless the queue was full or the last   *)
(* character, with all that followed it, has been removed.                 *)
OpenKeyFallsSilent ==
    (current = "hold" /\ ~key) ~> (current # "hold" \/ key \/ lost)

(* libcw_key.c:343, the assertion that a new value of the key finds room.  *)
KeyFindsRoom == [][EnqueueFails => Head(steps) \notin {"hold", "falling", "rest"}]_historyVars
=============================================================================
