----------------------------- MODULE MCBleLink ------------------------------
(* Small instances of BleLink for TLC: frames at the ends of the decoders' *)
(* ranges and beyond 16 bits, and short ones.                              *)
EXTENDS BleLink

Frame(id, dlc, raw) == [id |-> id, dlc |-> dlc, raw |-> raw]

MCSignals ==
    {Frame("speed", 8, raw) : raw \in {16383, 16384, 32766, 32767}}
    \cup {Frame("isa", dlc, -70000) : dlc \in 2..6}
    \cup {Frame("cells", 8, raw) : raw \in {233, 65535}}
    \cup {Frame("speed", 5, 32760), Frame("temps", 8, 0), Frame("pack", 8, 65496),
          Frame("mg_lv", 8, 97), Frame("mg_temp", 8, 49), Frame("plug", 8, 2),
          Frame("soc", 1, 100), Frame("unknown", 8, 1), Frame("unknown", 7, 1)}

\* Two connections beside frames that are only streamed and logged: one frame and every
\* command, or two frames and one. One connection and three frames, which overfill the
\* live queue, for another; no phone beside the rest.
MCMaxLinks == [f \in MCSignals |-> CASE f.id = "unknown" -> 2 [] f.dlc = 6 -> 1 [] OTHER -> 0]
MCMaxFrames == [f \in MCSignals |-> CASE f.id # "unknown" -> 3 [] f.dlc = 8 -> 2 [] OTHER -> 1]
MCSends == [f \in MCSignals |-> IF f.id = "unknown" /\ f.dlc = 8 THEN {"other"} ELSE Commands]
=============================================================================
