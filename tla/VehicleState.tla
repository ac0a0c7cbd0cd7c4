----------------------------- MODULE VehicleState ----------------------------
(***************************************************************************)
(* The decoders of src/main/can_handler.c: what a CAN frame writes to the  *)
(* record of src/main/vehicle_state.h. A frame is its identifier, its      *)
(* length and the raw number in the bytes the decoder looks at.            *)
(***************************************************************************)
EXTENDS Integers

\* One field of each decoder, by which it is named; of all the shunt's, one.
Fields == {"soc", "temps", "mg_temp", "mg_lv", "pack", "speed", "plug", "cells", "isa"}

\* Conversion of an int to int16_t.
Int16(n) == ((n + 32768) % 65536) - 32768

\* Division of C: towards zero.
Quotient(n, d) == IF n < 0 THEN -((-n) \div d) ELSE n \div d

\* Both of bms_temp_max and bms_temp_min: Kelvin to tenths of a degree.
Kelvin(raw) == Int16((raw - 273) * 10)

Fahrenheit(raw) == Int16(Quotient((raw - 32) * 50, 9))

\* The sign is left to the conversion to 16 bits.
RpmUnextended(raw) == IF raw = 32767 THEN 0 ELSE Int16(raw)

\* Speed as 15 bits: the largest number says that there is none.
Rpm(raw) == IF raw = 32767 THEN 0
            ELSE IF raw > 16383 THEN raw - 32767 ELSE raw

\* The bytes of the value, from the third on, that the frame has; the others
\* are 0. No decoder of the shunt looks at the length.
IsaValue(f) == CASE f.dlc <= 2 -> 0
                 [] f.dlc = 3 -> f.raw % 256
                 [] f.dlc = 4 -> f.raw % 65536
                 [] f.dlc = 5 -> f.raw % 16777216
                 [] OTHER -> f.raw

\* Bytes a frame must have to be decoded.
Needs(id) == CASE id = "soc" -> 1 [] id = "temps" -> 3 [] id = "mg_temp" -> 4
               [] id = "mg_lv" -> 5 [] id \in {"pack", "speed", "plug"} -> 6
               [] id = "cells" -> 8 [] OTHER -> 0

Value(f) == CASE f.id = "speed" -> Rpm(f.raw)
              [] f.id = "temps" -> Fahrenheit(f.raw)
              [] f.id = "cells" -> Kelvin(f.raw)
              [] f.id = "pack" -> Int16(f.raw)
              [] f.id = "soc" -> f.raw
              [] f.id = "mg_lv" -> f.raw * 125
              [] f.id = "mg_temp" -> Int16((f.raw - 50) * 10)
              [] f.id = "plug" -> IF f.raw = 1 THEN 1 ELSE 0
              [] f.id = "isa" -> IsaValue(f)

\* Has the frame a decoder, and as many bytes as that looks for?
Decoded(f) == f.id \in Fields /\ f.dlc >= Needs(f.id)

\* What a frame does to the field it is for, f.id, that has the value v.
Decode(v, f) == IF Decoded(f) THEN Value(f) ELSE v

\* The largest number that the bytes of the field can hold.
Top(id) == CASE id = "speed" -> 32767 [] id \in {"pack", "cells"} -> 65535 [] OTHER -> 255

\* The raw number is one that the bytes can hold; the shunt's 32 bits have a sign.
Holds(f) == f.raw \in Int /\ (f.id \in Fields \ {"isa"} => 0 <= f.raw /\ f.raw <= Top(f.id))

-----------------------------------------------------------------------------
(* What the fields mean, from the comments of the decoders.                *)

Abs(n) == IF n < 0 THEN -n ELSE n

\* v is n as far as 16 bits with a sign hold it.
Holds16(v, n) == -32768 <= v /\ v <= 32767 /\ (v - n) % 65536 = 0

\* What the bytes of a shunt's value weigh that a frame of dlc bytes has.
Weight(dlc) == CASE dlc <= 2 -> 1 [] dlc = 3 -> 256 [] dlc = 4 -> 65536 [] OTHER -> 16777216

\* v is the raw value of f in the unit of its field: temperatures to less than a
\* tenth of a degree, 15 bits of speed with their sign, but one more if it is minus
\* and 0 for the largest (no speed), and of a short shunt frame what it has.
Means(f, v) ==
    CASE f.id = "speed" /\ f.raw = 32767 -> v = 0
      [] f.id = "speed" /\ 16383 < f.raw /\ f.raw < 32767 -> v = (f.raw - 32768) + 1
      [] f.id = "temps"   -> Abs(9 * v - 50 * (f.raw - 32)) < 9
      [] f.id = "cells"   -> Holds16(v, 10 * f.raw - 2730)
      [] f.id = "pack"    -> Holds16(v, f.raw)
      [] f.id = "mg_temp" -> v = 10 * f.raw - 500
      [] f.id = "mg_lv"   -> 8 * v = 1000 * f.raw
      [] f.id = "plug"    -> v \in {0, 1} /\ (v = 1 <=> f.raw = 1)
      [] f.id = "isa" /\ f.dlc < 6 -> 0 <= v /\ v < Weight(f.dlc) /\ (f.raw - v) % Weight(f.dlc) = 0
      [] OTHER            -> v = f.raw
=============================================================================
