------------------------------- MODULE Scanner -------------------------------
(***************************************************************************)
(* Discovery of meters (scanner.py): what is taken for a meter's           *)
(* advertisement, what a scan collects, and find_first_meter's loop of     *)
(* scans.  Logging, names and the attempt number that is only logged are   *)
(* left out.                                                               *)
(***************************************************************************)
EXTENDS Integers, Sequences

CONSTANTS
    Meters,    \* BM78xBT meters
    Others,    \* other BLE devices
    Uuid,      \* PRIMARY_SERVICE_UUID
    Rssi,      \* signal strengths
    None,      \* Python's None
    MaxHeard   \* bound: advertisements received in a scan

ASSUME DeviceAssumption == Meters \cap Others = {} /\ None \notin Meters \cup Others
ASSUME HeardAssumption  == MaxHeard \in Nat

VARIABLES
    scan,     \* find_first_meter: "scanning", "sleeping", "returned" or "failed"
    heard,    \* advertisements received in this scan
    found,    \* the dict `found`: its values in insertion order
    result    \* what find_first_meter returned

scannerVars == <<scan, heard, found, result>>

\* Advertisements: the service UUIDs and the manufacturer data under the
\* company id 0x0131, empty if there is none.  A meter sends "BM", its series
\* and a status byte, or its service UUID; other devices may come close.
Ad(uuids, mfr) == [service_uuids |-> uuids, mfr |-> mfr]
MeterAds == {Ad({Uuid}, <<>>), Ad({}, <<66, 77, 11, 0>>)}
OtherAds == {Ad({}, <<>>), Ad({}, <<66, 77>>), Ad({}, <<66, 77, 12, 0>>),
             Ad({}, <<77, 66, 11, 0>>)}

IsBrymenbleAdvertisement(ad) ==
    \/ Uuid \in ad.service_uuids
    \/ /\ Len(ad.mfr) >= 3
       /\ SubSeq(ad.mfr, 1, 2) = <<66, 77>>
       /\ ad.mfr[3] = 11

ScannerInit == scan = "scanning" /\ heard = <<>> /\ found = <<>> /\ result = None

\* find_meters: an entry of `found` keeps its place and takes the new value.
MutHandler(d, ad, rssi) ==
    found' = IF ~IsBrymenbleAdvertisement(ad) THEN found
             ELSE Append(SelectSeq(found, LAMBDA m : m.address # d),
                         [address |-> d, rssi |-> rssi])
Handler(d, ad, rssi) ==
    LET meter == [address |-> d, rssi |-> rssi]
        known == {i \in DOMAIN found : found[i].address = d}
    IN
    found' = IF ~IsBrymenbleAdvertisement(ad) THEN found
             ELSE IF known = {} THEN Append(found, meter)
             ELSE [i \in DOMAIN found |-> IF i \in known THEN meter ELSE found[i]]

Hear(d, ad, rssi) ==
    /\ scan = "scanning" /\ Len(heard) < MaxHeard
    /\ heard' = Append(heard, [address |-> d, rssi |-> rssi])
    /\ Handler(d, ad, rssi)
    /\ UNCHANGED <<scan, result>>

\* The scan has lasted its timeout.  `retry`: retry_interval > 0.
MutEndScan(retry) ==
    /\ scan = "scanning"
    /\ scan' = "returned"
    /\ result' = IF found # <<>> THEN found[1] ELSE None
    /\ UNCHANGED <<heard, found>>
EndScan(retry) ==
    /\ scan = "scanning"
    /\ \/ found # <<>> /\ scan' = "returned" /\ result' = found[1]
       \/ found = <<>> /\ retry /\ scan' = "sleeping" /\ UNCHANGED result
       \/ found = <<>> /\ ~retry /\ scan' = "returned" /\ result' = None
    /\ UNCHANGED <<heard, found>>

\* The backend cannot start or stop its scanner: BleakError leaves find_meters
\* and find_first_meter.
ScanFails ==
    /\ scan = "scanning"
    /\ scan' = "failed"
    /\ UNCHANGED <<heard, found, result>>

\* The sleep of retry_interval is over: a new scan, with a new `found`.
Rescan ==
    /\ scan = "sleeping"
    /\ scan' = "scanning" /\ heard' = <<>> /\ found' = <<>>
    /\ UNCHANGED result

-----------------------------------------------------------------------------
\* find_first_meter returns the meter that was heard first in its last scan,
\* with the signal strength it was heard with last, and None only if the scan
\* heard no meter: no other device, however similar, and no earlier reading.
FirstSightLastSignal ==
    scan = "returned" =>
        LET ofMeters == {i \in DOMAIN heard : heard[i].address \in Meters} IN
        IF ofMeters = {} THEN result = None
        ELSE \E first, last \in ofMeters :
                /\ \A i \in ofMeters : first <= i
                /\ heard[last].address = heard[first].address
                /\ \A i \in ofMeters :
                      heard[i].address = heard[first].address => i <= last
                /\ result = [address |-> heard[first].address, rssi |-> heard[last].rssi]
=============================================================================
