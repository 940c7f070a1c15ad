----------------------------- MODULE Coalescing ------------------------------
(***************************************************************************)
(* Patches of a record (cli/transports/WorkerStateUploader.ts).  A patch   *)
(* is a function from some of the fields to values.                        *)
(***************************************************************************)
EXTENDS Sequences, SequencesExt

(* coalescePatches: the last value of a field wins.  The server applies a  *)
(* patch to its record in the same way (RFC 7396).                         *)
Coalesce(base, overlay) ==
    [f \in DOMAIN base \union DOMAIN overlay |->
        IF f \in DOMAIN overlay THEN overlay[f] ELSE base[f]]

(* A sequence of patches, merged in its order. *)
Merged(base, patches) == FoldLeft(Coalesce, base, patches)
=============================================================================
