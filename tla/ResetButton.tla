---------------------------- MODULE ResetButton ----------------------------
(***************************************************************************)
(* What a button that resets the device when it is held promises, without  *)
(* threads, timers and queues: the reset starts only while the button is   *)
(* down, letting the button go before cancels it, and a button that stays  *)
(* down is answered.  The function button of the touch button template is  *)
(* shown to implement it (TemplateApp); that of the light switch does not, *)
(* because it may be reset after the release (AppTask).                    *)
(***************************************************************************)
VARIABLES
    down,    \* the button, as far as the device has taken notice of it
    state,
    failed   \* something that happened to the button has been missed

vars == <<down, state, failed>>

State == {"normal", "armed", "resetting"}

Init ==
    /\ down \in BOOLEAN
    /\ state = "normal"
    /\ failed = FALSE

Press ==
    /\ ~down /\ down' = TRUE
    /\ state' = IF state = "resetting" THEN state ELSE "armed"
    /\ UNCHANGED failed

LetGo ==
    /\ down /\ down' = FALSE
    /\ state' = IF state = "resetting" THEN state ELSE "normal"
    /\ UNCHANGED failed

\* The button has been held for long enough.
Elapse ==
    /\ down /\ state = "armed"
    /\ state' = "resetting"
    /\ UNCHANGED <<down, failed>>

\* The device comes up again; the button may be in any position.
Restart ==
    /\ state = "resetting"
    /\ state' = "normal"
    /\ down' \in BOOLEAN
    /\ failed' = FALSE

\* The device misses a press or a release: nothing is promised until it restarts.
Miss ==
    /\ failed'
    /\ down' \in BOOLEAN
    /\ state' \in State

Next == Press \/ LetGo \/ Elapse \/ Restart \/ Miss

Safety == Init /\ [][Next]_vars

\* An armed device resets, unless the button is let go.
HoldingIsAnswered == state = "armed" ~> (state # "armed" \/ failed)
============================================================================
