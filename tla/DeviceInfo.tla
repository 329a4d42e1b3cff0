----------------------------- MODULE DeviceInfo -----------------------------
(***************************************************************************)
(* What BluetoothStack::DeviceInfo (mySystem/bluetooth.cpp) takes from the *)
(* properties of a device that was found. A property of the classic scan   *)
(* is a record with its type and value; the value of an extended inquiry   *)
(* response (EIR), like the data a BLE device advertises, is a function    *)
(* from the types of its fields to their data. Texts and UUIDs are         *)
(* sequences of bytes.                                                     *)
(***************************************************************************)
EXTENDS Integers, Sequences, SequencesExt, FiniteSetsExt

CONSTANT MaxName    \* characters of a name taken from an EIR, 127

\* esp_bt_gap_resolve_eir_data, of the first of these types that there is;
\* <<>> is a null pointer.
Resolve(eir, types) ==
    LET there == SelectSeq(types, LAMBDA type : type \in DOMAIN eir)
    IN  IF there = <<>> THEN <<>> ELSE eir[Head(there)]

getNameFromEir(eir) ==
    LET name == Resolve(eir, <<"CMPL_NAME", "SHORT_NAME">>)
    IN  SubSeq(name, 1, Min({Len(name), MaxName}))

\* The first list of 2, 4 or 16 bytes that holds one UUID: a list of more is not
\* taken.
getUuidFromEir(eir) ==
    LET uuids == <<Resolve(eir, <<"CMPL_16", "INCMPL_16">>), Resolve(eir, <<"CMPL_32", "INCMPL_32">>),
                   Resolve(eir, <<"CMPL_128", "INCMPL_128">>)>>
        single == {i \in 1 .. 3 : Len(uuids[i]) = <<2, 4, 16>>[i]}
    IN  IF single = {} THEN <<>> ELSE uuids[Min(single)]

Name(device, name) == IF device.name = <<>> THEN [device EXCEPT !.name = name] ELSE device

\* One property. An EIR with a UUID is not searched for a name.
Take(device, prop) ==
    LET uuid == getUuidFromEir(prop.val)
    IN  CASE prop.type = "COD" -> [device EXCEPT !.cod = prop.val]
          [] prop.type = "RSSI" -> [device EXCEPT !.rssi = prop.val]
          [] prop.type = "BDNAME" -> Name(device, prop.val)
          [] prop.type = "EIR" -> IF uuid # <<>> THEN [device EXCEPT !.uuid = uuid]
                                  ELSE Name(device, getNameFromEir(prop.val))
          [] OTHER -> device

NoDevice == [cod |-> 0, rssi |-> 0, name |-> <<>>, uuid |-> <<>>]
FromClassic(props) == FoldLeft(Take, NoDevice, props)

\* The name is taken only if its length was set.
LittleEndian(bytes) == IF bytes = <<>> THEN 0 ELSE bytes[1] + 256 * bytes[2]
FromBle(adv, rssi) ==
    [name |-> Resolve(adv, <<"CMPL_NAME", "SHORT_NAME">>), rssi |-> rssi,
     uuid |-> LittleEndian(Resolve(adv, <<"CMPL_16">>)),
     appearance |-> LittleEndian(Resolve(adv, <<"APPEARANCE">>))]
-----------------------------------------------------------------------------
\* The class of a device: its major class, and six bits of which the two upper
\* ones stand for a keyboard (16) and a mouse (32).

Keyboard == 16
Mouse == 32
BitSet(n, bit) == (n \div bit) % 2 = 1

isPeripheral(major, minor, type) == major = 5 /\ BitSet(minor, type)

\* The words of codInfo.
codInfo(major, minor) ==
    IF major # 5 THEN <<"number">>
    ELSE (IF BitSet(minor, Keyboard) THEN <<"KEYBOARD">> ELSE <<>>)
         \o (IF BitSet(minor, Mouse) THEN <<"MOUSE">> ELSE <<>>)
         \o (IF minor \div 16 # 0 /\ minor % 16 # 0 THEN <<"more">> ELSE <<>>)

\* The bytes in the order of their printing, each two digits, and the places of
\* dashes among them: 16 bit and 32 bit numbers come as they are in memory.
Dash == -1
uuid2str(uuid) ==
    IF Len(uuid) = 16 THEN LET r == Reverse(uuid)
                           IN  SubSeq(r, 1, 4) \o <<Dash>> \o SubSeq(r, 5, 6) \o <<Dash>> \o SubSeq(r, 7, 8)
                               \o <<Dash>> \o SubSeq(r, 9, 10) \o <<Dash>> \o SubSeq(r, 11, 16)
    ELSE IF Len(uuid) \in {2, 4} THEN Reverse(uuid) ELSE <<>>
=============================================================================
