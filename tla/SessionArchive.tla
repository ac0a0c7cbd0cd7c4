--------------------------- MODULE SessionArchive ---------------------------
(***************************************************************************)
(* What the SD card promises the phone ("SD is the master archive"): a     *)
(* growing set of numbered sessions. A session is begun under a number     *)
(* larger than every earlier one, grows by one row at a time, and is       *)
(* either completed by a summary row, after which it never changes, or     *)
(* abandoned by a power cut that may cost it its last rows.                *)
(***************************************************************************)
EXTENDS Integers, Sequences

CONSTANTS
    Rows,       \* rows that are not summaries
    Summaries,  \* summary rows
    None        \* no session is being written

VARIABLES
    archive,    \* the sessions, by number: a sequence of rows each
    writing     \* the session being written, or None

avars == <<archive, writing>>

ArchiveInit == archive = <<>> /\ writing = None

\* Begin a session under a number never used.
Begin(id) ==
    /\ writing = None
    /\ \A other \in DOMAIN archive : other < id
    /\ archive' = [i \in DOMAIN archive \cup {id} |->
                      IF i = id THEN <<>> ELSE archive[i]]
    /\ writing' = id

\* The session being written has one more row, of the given kind.
Grow(kind) ==
    /\ writing # None
    /\ Len(archive'[writing]) = Len(archive[writing]) + 1
    /\ LET row == archive'[writing][Len(archive'[writing])]
       IN  /\ row \in kind
           /\ archive' = [archive EXCEPT ![writing] = Append(@, row)]

Record   == Grow(Rows) /\ writing' = writing
Complete == Grow(Summaries) /\ writing' = None

\* A power cut: the session being written keeps some first rows.
Abandon ==
    /\ writing # None
    /\ \E k \in 0..Len(archive[writing]) :
          archive' = [archive EXCEPT ![writing] = SubSeq(@, 1, k)]
    /\ writing' = None

ArchiveNext ==
    \/ \E id \in DOMAIN archive' : id \in Nat \ {0} /\ Begin(id)
    \/ Record
    \/ Complete
    \/ Abandon

ArchiveSpec == ArchiveInit /\ [][ArchiveNext]_avars
=============================================================================
