-------------------------- MODULE MCExportPipeline --------------------------
(* Two resolutions, the shorter one exported. A second is two units, so    *)
(* that the first scrape of a process can fall between two seconds and     *)
(* share its second with a sample of the process before.                   *)
EXTENDS ExportPipeline

Fine == [len |-> 2, retention |-> 2]
Coarse == [len |-> 4, retention |-> 2]
FineAndCoarse == {Fine, Coarse}
=============================================================================
