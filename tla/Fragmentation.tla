--------------------------- MODULE Fragmentation ----------------------------
(***************************************************************************)
(* How NetcodeService::Send(GameMessage) cuts a game message into          *)
(* fragments, and what the fragment header keeps of a fragment's place.    *)
(* Sizes are in bytes; the instances scale them down.                      *)
(***************************************************************************)
EXTENDS Naturals

CONSTANTS
  DtlsPayload,     \* pmtu.GetDtlsPayloadSize: room in one DTLS record
  Overhead,        \* what the cipher adds to a record (GetEncryptedPayloadSize)
  HeaderSize,      \* NC_HEADER_SIZE
  MaxFragments     \* 256: the header counts fragments in one byte

ASSUME SizesAssumption ==
  /\ DtlsPayload \in Nat /\ Overhead \in Nat /\ HeaderSize \in Nat /\ MaxFragments \in Nat \ {0}
  /\ DtlsPayload > Overhead + HeaderSize

(* Data bytes in a full fragment: encryptedPayloadSize.                    *)
FragmentRoom == DtlsPayload - Overhead - HeaderSize

NumFragments(dataSize) == (dataSize + FragmentRoom - 1) \div FragmentRoom

(* handledDataSize when fragment i is cut, and the size of its data.       *)
Offset(i) == i * FragmentRoom
DataIn(dataSize, i) ==
  IF dataSize - Offset(i) < FragmentRoom THEN dataSize - Offset(i) ELSE FragmentRoom

(* NcGameHeader: the count travels as one byte, less one.                  *)
StoreCount(fragmentCount) == (fragmentCount - 1) % MaxFragments
LoadCount(wireCount) == wireCount + 1
=============================================================================
