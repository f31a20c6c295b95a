--------------------------------- MODULE Crc ---------------------------------
(***************************************************************************)
(* CRC (kh_common/crc.py): the constructor fills a table by doubling, a    *)
(* call takes one byte at a time.  An integer is the set of its one bits.  *)
(***************************************************************************)
EXTENDS Integers, Sequences

CONSTANTS
  CrcModels,  \* records [bitlength, polynomial, init_value, xor_out]
  CrcBytes,   \* bytes a value is made of
  MaxBytes    \* bound on their number, for model checking only

(* the constructor refuses other widths; of the integers nothing is asked *)
ASSUME CrcAssumption ==
  /\ MaxBytes \in Nat /\ CrcBytes \subseteq SUBSET (0 .. 7)
  /\ \A m \in CrcModels :
       /\ m.bitlength \in Nat /\ m.bitlength >= 8 /\ m.bitlength % 8 = 0
       /\ \A bit \in m.polynomial \cup m.init_value \cup m.xor_out : bit \in Nat

VARIABLES
  crcModel,   \* the arguments of the constructor
  table,      \* its entries, by the byte that is their index
  filled,     \* bits of these bytes: the constructor's i is 2^filled
  reg,        \* crc, of the constructor's loop and then of the call's
  value       \* history: the bytes so far

crcVars == <<crcModel, table, filled, reg, value>>

NoModel == [bitlength |-> 0]

CrcInit == crcModel = NoModel /\ table = <<>> /\ filled = 0 /\ reg = {} /\ value = <<>>

Xor(a, b) == (a \ b) \cup (b \ a)
Shift(a, n) == {bit + n : bit \in a}
Mask(a) == {bit \in a : bit < crcModel.bitlength}
Msb == crcModel.bitlength - 1

NewCrc ==
  /\ crcModel = NoModel
  /\ crcModel' \in CrcModels
  /\ table' = [byte \in {{}} |-> {}] /\ reg' = {crcModel'.bitlength - 1}
  /\ UNCHANGED <<filled, value>>

(* mutant: the polynomial is not taken off when the top bit falls out *)
Shifted_Plain(crc) == Mask(Shift(crc, 1))

Shifted(crc) ==
  Mask(IF Msb \in crc THEN Xor(Shift(crc, 1), crcModel.polynomial) ELSE Shift(crc, 1))

(* for j in range(i): table[i + j] = crc ^ table[j] *)
DoubleTable ==
  /\ crcModel # NoModel /\ filled < 8
  /\ LET crc == Shifted(reg) IN
     /\ table' = [byte \in SUBSET (0 .. filled) |->
                   IF filled \in byte THEN Xor(crc, table[byte \ {filled}]) ELSE table[byte]]
     /\ filled' = filled + 1
     /\ reg' = IF filled' = 8 THEN crcModel.init_value ELSE crc
  /\ UNCHANGED <<crcModel, value>>

(* crc >> (bitlength - 8) & 0xff *)
Byte(crc) == {bit \in 0 .. 7 : bit + crcModel.bitlength - 8 \in crc}

NextByte ==
  /\ filled = 8 /\ Len(value) < MaxBytes
  /\ \E byte \in CrcBytes :
       /\ reg' = Xor(table[Xor(byte, Byte(reg))], Mask(Shift(reg, 8)))
       /\ value' = Append(value, byte)
  /\ UNCHANGED <<crcModel, table, filled>>

(* return crc ^ self.xor_out *)
Checksum == Xor(reg, crcModel.xor_out)

CrcNext == NewCrc \/ DoubleTable \/ NextByte

CrcSpec == CrcInit /\ [][CrcNext]_crcVars
-----------------------------------------------------------------------------
(* the division of the value by the polynomial, from its definition: every *)
(* bit moves up, and the one that leaves takes the polynomial off the rest *)
Divide(m, r) ==
  {bit \in 0 .. m.bitlength - 1 :
     (bit - 1 \in r) # (m.bitlength - 1 \in r /\ bit \in m.polynomial)}

Divide2(m, r) == Divide(m, Divide(m, r))
Divide4(m, r) == Divide2(m, Divide2(m, r))
Divide8(m, r) == Divide4(m, Divide4(m, r))

Divided(m, r, byte) == Divide8(m, Xor(r, Shift(byte, m.bitlength - 8)))

Remainder(m, bytes) ==
  LET crc[n \in 0 .. Len(bytes)] ==
        IF n = 0 THEN m.init_value ELSE Divided(m, crc[n - 1], bytes[n])
  IN  crc[Len(bytes)]

(* TableIsCRC: the table holds the remainder of every byte and the         *)
(* checksum of a value is what dividing it bit by bit gives, for every     *)
(* width, polynomial and byte order of the loop (crc.py:16-42).            *)
TableIsCRC ==
  filled = 8 =>
    /\ value = <<>> => \A byte \in SUBSET (0 .. 7) : table[byte] = Divided(crcModel, {}, byte)
    /\ Checksum = Xor(Remainder(crcModel, value), crcModel.xor_out)
=============================================================================
