------------------------------ MODULE EngineDataPacker ------------------------------
(* The ENGINE_DATA_1 frame: how EngineMonitor packs its readings into eight bytes and how   *)
(* the receiver unpacks them. Warning bits are the set of the fields they belong to.        *)
EXTENDS Integers

Fields == {"egt1", "cht1", "oilTemp", "ambient", "oilPressure"}
Offset == [egt1 |-> 250, cht1 |-> 50, oilTemp |-> 50, ambient |-> -50, oilPressure |-> 0]
Step   == [egt1 |-> 2,   cht1 |-> 1,  oilTemp |-> 1,  ambient |-> 3,   oilPressure |-> 1]
TxByte == [egt1 |-> 0,   cht1 |-> 1,  oilTemp |-> 2,  ambient |-> 3,   oilPressure |-> 4]
RxByte == [egt1 |-> 0,   cht1 |-> 1,  oilTemp |-> 2,  ambient |-> 3,   oilPressure |-> 4]

Constrain(v, lo, hi) == IF v < lo THEN lo ELSE IF v > hi THEN hi ELSE v

\* C++ division truncates towards zero.
TruncDiv(a, b) == IF a >= 0 THEN a \div b ELSE -((-a) \div b)

packValue(v, off, step) == Constrain(TruncDiv(v - off, step), 0, 255)
unpackValue(p, off, step) == p * step + off

\* The frame of data: a byte per field, the warning byte; rpm and alerts are never set by main.
pack(data) ==
  [bytes |-> [i \in {TxByte[f] : f \in Fields} |->
                LET f == CHOOSE g \in Fields : TxByte[g] = i
                IN  packValue(data.value[f], Offset[f], Step[f])],
   warnings |-> data.warning]

unpack(frame) ==
  [value   |-> [f \in Fields |-> unpackValue(frame.bytes[RxByte[f]], Offset[f], Step[f])],
   warning |-> frame.warnings \cap Fields]

\* The span a byte can stand for; a value outside it is shown as the nearest end.
Lowest(f)  == Offset[f]
Highest(f) == Offset[f] + 255 * Step[f]

\* What a reader of the frame may expect of a decoded value: within a step below the value sent.
CloseTo(f, decoded, v) ==
  /\ v < Lowest(f) => decoded = Lowest(f)
  /\ v > Highest(f) => decoded = Highest(f)
  /\ v \in Lowest(f)..Highest(f) => v - decoded \in 0..(Step[f] - 1)
=====================================================================================
