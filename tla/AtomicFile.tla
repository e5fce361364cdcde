----------------------------- MODULE AtomicFile -----------------------------
(***************************************************************************)
(* What download_file promises for one file, without staging file, chunks, *)
(* tasks and retries: a run replaces the installed version by the wanted   *)
(* one in a single step, or ends in an error and changes nothing.  Two     *)
(* things it does not promise: a run that reuses parts of a version that   *)
(* is not the installed one may install anything, and so may an            *)
(* interruption after the replacement, before the run has returned.        *)
(***************************************************************************)
CONSTANTS Versions, None,
          Junk          \* at the path, but none of the versions

VARIABLES
    installed,  \* the version at the file's path, Junk or None
    recorded,   \* the version believed to be installed, or None
    wanted,     \* the version the current run installs, or None between runs
    source,     \* the version whose parts it reuses, or None
    outcome     \* how far the current run is

vars == <<installed, recorded, wanted, source, outcome>>

Init ==
    /\ installed = None /\ recorded = None
    /\ wanted = None /\ source = None
    /\ outcome = "none"

Start(v) ==
    /\ outcome = "none"
    /\ outcome' = "running"
    /\ wanted' = v
    /\ source' \in {None} \cup ({recorded} \ {v})
    /\ UNCHANGED <<installed, recorded>>

Anything == Versions \cup {Junk}

SourceIsInstalled == source = None \/ installed \in {None, source}

\* the one step that changes the file; it may find it as it should be
Install ==
    /\ outcome = "running"
    /\ outcome' = "ok"
    /\ installed' \in IF SourceIsInstalled THEN {wanted} ELSE Anything
    /\ UNCHANGED <<recorded, wanted, source>>

Fail ==
    /\ outcome = "running"
    /\ outcome' = "failed"
    /\ UNCHANGED <<installed, recorded, wanted, source>>

\* or the record is lost
Record ==
    /\ outcome = "ok"
    /\ outcome' = "recorded"
    /\ recorded' \in {wanted, recorded, None}
    /\ UNCHANGED <<installed, wanted, source>>

RunOver == outcome' = "none" /\ wanted' = None /\ source' = None

Return ==
    /\ outcome \in {"recorded", "failed"}
    /\ RunOver
    /\ UNCHANGED <<installed, recorded>>

\* before the replacement an interruption leaves the file alone
Interrupt ==
    /\ outcome # "none"
    /\ RunOver
    /\ IF outcome \in {"ok", "recorded"} THEN installed' \in Anything
                                        ELSE UNCHANGED installed
    /\ IF outcome = "ok" THEN recorded' \in {recorded, None}
                         ELSE UNCHANGED recorded

Damage ==
    /\ outcome = "none" /\ installed # None
    /\ installed' \in Anything
    /\ UNCHANGED <<recorded, wanted, source, outcome>>

Next ==
    \/ \E v \in Versions : Start(v)
    \/ Install \/ Fail \/ Record \/ Return \/ Interrupt \/ Damage

Spec == Init /\ [][Next]_vars

\* every run comes to an end
Live == WF_vars(Install \/ Fail) /\ WF_vars(Record) /\ WF_vars(Return)

FairSpec == Spec /\ Live
=============================================================================
