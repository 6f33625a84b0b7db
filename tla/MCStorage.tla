------------------------------ MODULE MCStorage -----------------------------
(* Instance of the modules for the files: the configuration, the status file *)
(* and the pattern match that finds files by name.  They are different files *)
(* and a pure function, so a behaviour takes the steps of one part and the   *)
(* others stay as they start.                                                *)
EXTENDS Storage, Glob, SequencesExt

VARIABLE part   \* the module whose steps this behaviour takes

MCScenarios == {1, 2}
MCPatterns ==
    BoundedSeq({Star, Dash, Open, Close, 97}, 5)
    \union BoundedSeq({Bang, Star, Dot, Quest, Open, Escape, Close, 97}, 4)
MCNames == BoundedSeq({Dot, 97}, 2)

StorageInit ==
    /\ part \in {"config", "status", "match"}
    /\ Init /\ StatusInit
    /\ IF part = "match" THEN GlobInit ELSE pattern = <<>> /\ name = <<>>

StorageNext ==
    /\ UNCHANGED <<part, globVars>>
    /\ \/ part = "config" /\ Next /\ UNCHANGED statusVars
       \/ part = "status" /\ StatusNext /\ UNCHANGED vars

StorageSpec == StorageInit /\ [][StorageNext]_<<part, vars, statusVars, globVars>>
=============================================================================
