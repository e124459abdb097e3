----------------------------- MODULE ScanLedger -----------------------------
(***************************************************************************)
(* The market-scan store as the rest of the application is entitled to see *)
(* it: a ledger of scans.  At most one scan is open.  An open scan ends    *)
(* once, either closed without a ranking or published with a complete one, *)
(* and a published ranking may be entered in the capture queue only in the *)
(* step that publishes it.                                                 *)
(***************************************************************************)
CONSTANTS
    Runs,      \* identifiers of scans
    Rankings,  \* the rankings fit to be shown
    Blank      \* the board of a scan that has published nothing

VARIABLES
    phase,     \* "absent", "open", "published" or "closed"
    board,     \* the ranking a scan shows
    captures   \* scans whose ranking the research capture is owed

ledgerVars == <<phase, board, captures>>

Init ==
    /\ phase    = [r \in Runs |-> "absent"]
    /\ board    = [r \in Runs |-> Blank]
    /\ captures = {}

Open(r) ==
    /\ phase[r] = "absent"
    /\ \A q \in Runs : phase[q] # "open"
    /\ phase' = [phase EXCEPT ![r] = "open"]
    /\ UNCHANGED <<board, captures>>

Publish(r) ==
    /\ phase[r] = "open"
    /\ phase' = [phase EXCEPT ![r] = "published"]
    /\ board'[r] \in Rankings
    /\ board' = [board EXCEPT ![r] = board'[r]]
    /\ captures' \in {captures, captures \cup {r}}

Close(r) ==
    /\ phase[r] = "open"
    /\ phase' = [phase EXCEPT ![r] = "closed"]
    /\ UNCHANGED <<board, captures>>

Next ==
    \E r \in Runs : Open(r) \/ Publish(r) \/ Close(r)

Spec == Init /\ [][Next]_ledgerVars
=============================================================================
