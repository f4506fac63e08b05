---------------------------- MODULE AdvertFormat ----------------------------
(***************************************************************************)
(* The part of an ADVERT that describes its sender (AdvertGenerator,       *)
(* mesh/Advert.h): a byte of flags, a location if there is one, and a      *)
(* name, how it is built from the identity and how a receiver reads it.    *)
(* The receiver also takes data without flags, or with a location that is  *)
(* a byte short, as some senders' firmware has them, and tells these from  *)
(* well-formed data by looking for letters: so bytes matter here.          *)
(***************************************************************************)
EXTENDS Integers, Sequences

CONSTANT NameMax    \* MC_NODE_NAME_MAX

ASSUME NameMaxAssumption == NameMax \in Nat

Capital == 65 .. 90
Letter  == 65 .. 122                              \* as the code has it
InName  == Capital \cup (97 .. 122) \cup (48 .. 57) \cup {45}

TypeCode == [chat |-> 1, repeater |-> 2]

(* 32 bits, little-endian.                                                 *)
Bytes(x) ==
  <<x % 256, (x \div 256) % 256, (x \div 65536) % 256, (x \div 16777216) % 256>>

Signed(b) == IF b < 128 THEN b ELSE b - 256

Number(b) == b[1] + 256 * b[2] + 65536 * b[3] + 16777216 * Signed(b[4])

(***************************************************************************)
(* Building.                                                               *)
(***************************************************************************)
HasLocation(lat, lon) == lat # 0 \/ lon # 0

(* MC_FLAG_HAS_NAME is always set, MC_FLAG_HAS_LOCATION by setLocationInt. *)
FlagsOf(type, lat, lon) ==
  128 + TypeCode[type] + (IF HasLocation(lat, lon) THEN 16 ELSE 0)

Location(lat, lon) ==
  IF HasLocation(lat, lon) THEN Bytes(lat) \o Bytes(lon) ELSE <<>>

(* buildAppdata.                                                           *)
Appdata(type, lat, lon, name) ==
  <<FlagsOf(type, lat, lon)>> \o Location(lat, lon)
     \o (IF Len(name) \in 1 .. NameMax - 1 THEN name ELSE <<>>)

(***************************************************************************)
(* Reading.                                                                *)
(***************************************************************************)
From(d, i) == SubSeq(d, i, Len(d))

ValidFlags(d) == d[1] >= 128 /\ d[1] % 16 <= 4

Located(d) == (d[1] \div 16) % 2 = 1 /\ Len(d) >= 9

(* Mutant: any byte above the letters will do.                             *)
ShortLocation_Unbounded(d) == d[9] >= 65

(* A name that seems to begin a byte too early.                            *)
ShortLocation(d) == d[9] \in Letter

(* Where a name begins in data without flags: a capital letter with three  *)
(* more bytes of a name behind it, as far as the data goes.                *)
NameStarts(d) ==
  {i \in 1 .. Len(d) : i <= 16 /\ d[i] \in Capital /\
                       \A j \in i + 1 .. i + 3 : j <= Len(d) => d[j] \in InName}

(* The bytes up to a zero, and not more than fit.  "Node-XX" is made from  *)
(* the hash when nothing is left.                                          *)
NodeName == <<78, 111, 100, 101, 45>>

CString(s) ==
  IF s = <<>> THEN NodeName
  ELSE CHOOSE n \in {SubSeq(s, 1, k) : k \in 0 .. Len(s)} :
         /\ \A i \in DOMAIN n : n[i] # 0
         /\ Len(n) < NameMax
         /\ Len(n) = Len(s) \/ Len(n) = NameMax - 1 \/ s[Len(n) + 1] = 0

Info(type, lat, lon, name) == [type |-> type, lat |-> lat, lon |-> lon, name |-> name]

(* parseAdvert.                                                            *)
WithFlags(d) ==
  LET type == d[1] % 16 IN
    IF ~Located(d) THEN Info(type, 0, 0, CString(From(d, 2)))
    ELSE IF ShortLocation(d)
    THEN Info(type, Number(<<d[2], d[3], d[4], 0>>),
              Number(SubSeq(d, 5, 8)), CString(From(d, 9)))
    ELSE Info(type, Number(SubSeq(d, 2, 5)), Number(SubSeq(d, 6, 9)), CString(From(d, 10)))

WithoutFlags(d) ==
  LET starts == NameStarts(d)
      begin  == IF starts = {} THEN 1 ELSE CHOOSE i \in starts : \A j \in starts : i <= j
  IN  IF begin >= 9
      THEN Info(TypeCode["chat"], Number(SubSeq(d, 1, 4)), Number(SubSeq(d, 5, 8)),
                CString(From(d, 9)))
      ELSE Info(TypeCode["chat"], 0, 0, CString(From(d, begin)))

Parsed(d) == IF ValidFlags(d) THEN WithFlags(d) ELSE WithoutFlags(d)
=============================================================================
