---------------------------- MODULE PrivateFiles ----------------------------
(***************************************************************************)
(* The two private files the Rust service replaces in place: its           *)
(* uncertainty journal and its configuration.  They live in different      *)
(* directories and no code touches both: a behaviour exercises one.        *)
(***************************************************************************)
EXTENDS FileJournal, ConfigInstall

VARIABLE replaced       \* the file of this behaviour

dvars == <<replaced, fvars, ivars>>

DInit ==
    /\ replaced \in {"journal", "configuration"}
    /\ FInit /\ IInit
    /\ replaced = "journal" => ientry = None
    /\ replaced = "configuration" => files = [f \in Names |-> "none"]

DNext ==
    /\ \/ replaced = "journal" /\ FNext /\ UNCHANGED ivars
       \/ replaced = "configuration" /\ INext /\ UNCHANGED fvars
    /\ UNCHANGED replaced

DSpec == DInit /\ [][DNext]_dvars
=============================================================================
