-------------------------- MODULE SdLoggerArchive ---------------------------
(* The logger implements the session archive twice: its raw files are one  *)
(* archive and its snapshot files another, under the same session numbers. *)
EXTENDS SdLogger

RowsOf(card) == [id \in DOMAIN card |-> card[id].rows]

Summary == [type : {"TRIP_END"}, peak : Int]

Raw == INSTANCE SessionArchive WITH
    Rows <- Frame \cup {StartRow}, Summaries <- Summary, None <- NoFile,
    archive <- RowsOf(rawCard), writing <- rawFile

Snap == INSTANCE SessionArchive WITH
    Rows <- {SnapRow, StartRow}, Summaries <- Summary, None <- NoFile,
    archive <- RowsOf(snapCard), writing <- snapFile

\* Every behaviour of the logger, power cuts and failing opens included, is
\* one the archive of raw files allows: fresh increasing numbers, one file
\* written at a time, a summary closes it for good.
RawIsArchive == Raw!ArchiveSpec

\* The same of the snapshot files that LIST, GET and SUMMARY serve.
SnapIsArchive == Snap!ArchiveSpec
=============================================================================
