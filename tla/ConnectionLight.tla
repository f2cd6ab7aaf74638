--------------------------- MODULE ConnectionLight ---------------------------
(***************************************************************************)
(* What the connection indicator promises, whoever stores the flags behind *)
(* it: "Connected" comes on only as a session with the board opens, the    *)
(* green light only while one lasts, and both are out before the next one  *)
(* opens.  Either may go out early; "Connected" then stays out until the   *)
(* next session.                                                           *)
(***************************************************************************)
VARIABLES session, connected, receiving

lightVars == <<session, connected, receiving>>

Init == session = FALSE /\ connected = FALSE /\ receiving = FALSE

Open == /\ ~session /\ ~connected /\ ~receiving
        /\ session' = TRUE /\ connected' = TRUE
        /\ UNCHANGED receiving

Hear == /\ session /\ receiving' = TRUE
        /\ UNCHANGED <<session, connected>>

Close == session /\ session' = FALSE /\ UNCHANGED <<connected, receiving>>

ConnectedGoesOut == connected' = FALSE /\ UNCHANGED <<session, receiving>>
GreenGoesOut     == receiving' = FALSE /\ UNCHANGED <<session, connected>>

Next == Open \/ Hear \/ Close \/ ConnectedGoesOut \/ GreenGoesOut

Spec == Init /\ [][Next]_lightVars
=============================================================================
