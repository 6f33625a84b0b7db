------------------------------ MODULE Storage -------------------------------
(* The two kinds of file the program keeps: the configuration and the status *)
(* of the functions.  Nobody writes both, so they run side by side.          *)
EXTENDS ConfigStore, StatusFiles

FilesSpec == Spec /\ StatusSpec

-----------------------------------------------------------------------------
\* Every variable of the two modules keeps its type.
StorageTypes == TypeOK /\ StatusTypeOK

\* A restart that finishes a save or a reset finds all of it in the files.
RestartsFindWhole == SaveKept /\ ResetKept
=============================================================================
