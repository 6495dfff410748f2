------------------------------ MODULE RdWindows ------------------------------
(***************************************************************************)
(* The window interface of targeted_rd (README, "窗口语义"): without        *)
(* rd_start an automatic window stays open until the process exits and its *)
(* results are kept; the first rd_start throws them away, and from then on *)
(* only what lies between rd_start and rd_stop counts.                     *)
(*                                                                         *)
(* The README says so without reserve.  The code does not wait for the     *)
(* handlers that an open window has let in: what they find is kept when    *)
(* they end, in the results of whatever window is then the last.           *)
(***************************************************************************)
VARIABLES
    phase,      \* "none", "auto", "halted" (automatic, closed), "open" or "closed"
    kept,       \* the kinds of window that the results come from
    in_flight,  \* the kinds of window that handlers in flight were let in by
    exiting     \* the process is on its way out

vars == <<phase, kept, in_flight, exiting>>

Init == phase = "none" /\ kept = {} /\ in_flight = {} /\ exiting = FALSE

OpenAuto == phase = "none" /\ phase' = "auto" /\ UNCHANGED <<kept, in_flight, exiting>>

\* An attempt that fails leaves the window closed.
FirstStart ==
    /\ phase \in {"auto", "halted"}
    /\ phase' \in {"open", "halted"}
    /\ kept' = {}
    /\ UNCHANGED <<in_flight, exiting>>

Start ==
    /\ phase \in {"open", "closed"}
    /\ phase' = "open"
    /\ UNCHANGED <<kept, in_flight, exiting>>

\* rd_stop is for explicit windows only.
Stop == phase = "open" /\ phase' = "closed" /\ UNCHANGED <<kept, in_flight, exiting>>

\* The exit of the process closes a window of either kind.
Exit ==
    /\ ~exiting
    /\ exiting' = TRUE
    /\ phase' = CASE phase = "auto" -> "halted"
                  [] phase = "open" -> "closed"
                  [] OTHER -> phase
    /\ UNCHANGED <<kept, in_flight>>

\* Only an open window lets a handler in.
Hit ==
    /\ phase \in {"auto", "open"}
    /\ in_flight' = in_flight \cup {IF phase = "auto" THEN "auto" ELSE "explicit"}
    /\ UNCHANGED <<phase, kept, exiting>>

\* A handler ends; it need not be the last of its kind.
Collect ==
    /\ \E kind \in in_flight :
         /\ kept' \in {kept, kept \cup {kind}}
         /\ in_flight' \in {in_flight, in_flight \ {kind}}
    /\ UNCHANGED <<phase, exiting>>

Next == OpenAuto \/ FirstStart \/ Start \/ Stop \/ Exit \/ Hit \/ Collect

Spec == Init /\ [][Next]_vars

==============================================================================
