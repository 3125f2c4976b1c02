------------------------------ MODULE AppProofs ------------------------------
(***************************************************************************)
(* The programs that scan, stream and clean up, for every number of meters *)
(* and other devices, of advertisements and of presses of Ctrl-C: what     *)
(* find_first_meter returns, and that the client is closed at the end.     *)
(***************************************************************************)
EXTENDS App, SequenceTheorems, TLAPS

\* The places in a list of advertisements heard that a meter has.
OfMeters(list) == {i \in DOMAIN list : list[i].address \in Meters}

\* m has the address of the first meter of the list, and its last strength.
Leads(m, list) ==
    \E first, last \in OfMeters(list) :
        /\ \A i \in OfMeters(list) : first <= i
        /\ list[last].address = list[first].address
        /\ \A i \in OfMeters(list) :
              list[i].address = list[first].address => i <= last
        /\ m = [address |-> list[first].address, rssi |-> list[last].rssi]

\* What a scan has collected so far, in terms of what it has heard: its first
\* entry is all that find_first_meter looks at.
Collected ==
    IF OfMeters(heard) = {} THEN found = <<>>
    ELSE found # <<>> /\ Leads(found[1], heard)

ScanInv ==
    /\ heard \in Seq([address : Meters \cup Others, rssi : Rssi])
    /\ found \in Seq([address : Meters, rssi : Rssi])
    /\ Collected
    /\ scan = "returned" => result = IF found = <<>> THEN None ELSE found[1]

\* A client that is not streaming though it should be was left so by Ctrl-C,
\* and where the program is tells what it last asked of the client.
CloseInv ==
    /\ app \in {"example", "tool"} /\ presses \in Nat
    /\ phase \in Client!Phases
    /\ outcome = "Cancelled" => presses > 0
    /\ phase \in {"open", "half"} =>
          /\ outcome # "none" => outcome = "Cancelled"
          /\ goal = "closed" => outcome = "Cancelled"
    /\ exit = "running" => /\ step = "scan"  => phase = "closed"
                           /\ step = "close" => goal = "closed"
    /\ ReleasedAtExit

-----------------------------------------------------------------------------
(* Scanning.                                                               *)

\* Every advertisement of a meter is taken for one, and nothing else is.
LEMMA Recognised ==
    /\ \A ad \in MeterAds : IsBrymenbleAdvertisement(ad)
    /\ \A ad \in OtherAds : ~IsBrymenbleAdvertisement(ad)
<1>1. ASSUME NEW ad \in MeterAds
      PROVE  IsBrymenbleAdvertisement(ad)
  <2>1. CASE ad = Ad({Uuid}, <<>>)
    BY <2>1 DEF Ad, IsBrymenbleAdvertisement
  <2>2. CASE ad = Ad({}, <<66, 77, 11, 0>>)
    <3>1. ad.mfr = <<66, 77, 11, 0>>
      BY <2>2 DEF Ad
    <3>. DEFINE mfr == <<66, 77, 11, 0>>
               two == SubSeq(mfr, 1, 2)
    <3>2. mfr \in Seq(Nat) /\ Len(mfr) = 4 /\ mfr[1] = 66 /\ mfr[2] = 77 /\ mfr[3] = 11
      OBVIOUS
    <3>. HIDE DEF mfr
    <3>3. two \in Seq(Nat) /\ Len(two) = 2 /\ two[1] = mfr[1] /\ two[2] = mfr[2]
      BY <3>2
    <3>. HIDE DEF two
    <3>4. two = <<66, 77>>
      <4>. DEFINE bm == <<66, 77>>
      <4>1. bm \in Seq(Nat) /\ Len(bm) = 2 /\ bm[1] = 66 /\ bm[2] = 77
        OBVIOUS
      <4>. HIDE DEF bm
      <4>2. \A i \in 1 .. Len(two) : two[i] = bm[i]
        BY <3>2, <3>3, <4>1
      <4>3. two = bm
        BY <3>3, <4>1, <4>2, SeqEqual
      <4>. QED  BY <4>3 DEF bm
    <3>. QED  BY <3>1, <3>2, <3>4 DEF IsBrymenbleAdvertisement, mfr, two
  <2>. QED  BY <2>1, <2>2 DEF MeterAds
<1>2. ASSUME NEW ad \in OtherAds
      PROVE  ~IsBrymenbleAdvertisement(ad)
  <2>1. ad.service_uuids = {}
    BY DEF OtherAds, Ad
  <2>2. CASE ad = Ad({}, <<>>) \/ ad = Ad({}, <<66, 77>>)
    <3>1. ad.mfr = <<>> \/ ad.mfr = <<66, 77>>
      BY <2>2 DEF Ad
    <3>2. Len(ad.mfr) = 0 \/ Len(ad.mfr) = 2
      <4>1. Len(<<>>) = 0 /\ Len(<<66, 77>>) = 2
        OBVIOUS
      <4>. QED  BY <3>1, <4>1, Zenon
    <3>. QED  BY <2>1, <3>2 DEF IsBrymenbleAdvertisement
  <2>3. CASE ad = Ad({}, <<66, 77, 12, 0>>)
    <3>1. ad.mfr[3] # 11
      BY <2>3 DEF Ad
    <3>. QED  BY <2>1, <3>1 DEF IsBrymenbleAdvertisement
  <2>4. CASE ad = Ad({}, <<77, 66, 11, 0>>)
    <3>1. ad.mfr = <<77, 66, 11, 0>>
      BY <2>4 DEF Ad
    <3>2. SubSeq(<<77, 66, 11, 0>>, 1, 2)[1] = 77
      OBVIOUS
    <3>3. SubSeq(ad.mfr, 1, 2) # <<66, 77>>
      <4>1. <<66, 77>>[1] = 66
        OBVIOUS
      <4>2. SubSeq(ad.mfr, 1, 2)[1] # <<66, 77>>[1]
        BY <3>1, <3>2, <4>1
      <4>. QED  BY <4>2, Zenon
    <3>. QED  BY <2>1, <3>3 DEF IsBrymenbleAdvertisement
  <2>. QED  BY <2>2, <2>3, <2>4 DEF OtherAds
<1>. QED  BY <1>1, <1>2

\* An entry of a list replaced, in some places, by one of its kind.
LEMMA Replaced ==
    ASSUME NEW S, NEW list \in Seq(S), NEW x \in S, NEW P
    PROVE  [i \in DOMAIN list |-> IF i \in P THEN x ELSE list[i]] \in Seq(S)
<1>. DEFINE n == Len(list)
<1>1. n \in Nat /\ DOMAIN list = 1 .. n /\ \A i \in 1 .. n : list[i] \in S
  OBVIOUS
<1>. HIDE DEF n
<1>2. [i \in DOMAIN list |-> IF i \in P THEN x ELSE list[i]] \in [1 .. n -> S]
  BY <1>1
<1>. QED  BY <1>1, <1>2

\* One more is heard: a meter leads the list as it did if it was not the first,
\* with its new strength if it was.
LEMMA OneMoreMeter ==
    ASSUME NEW S, NEW list \in Seq(S), NEW ad, NEW m,
           ad \in S, ad.address \in Meters, ad = [address |-> ad.address, rssi |-> ad.rssi]
    PROVE  /\ OfMeters(Append(list, ad)) # {}
           /\ OfMeters(list) = {} => Leads(ad, Append(list, ad))
           /\ Leads(m, list) /\ m.address = ad.address => Leads(ad, Append(list, ad))
           /\ Leads(m, list) /\ m.address # ad.address => Leads(m, Append(list, ad))
<1>. DEFINE longer == Append(list, ad)
           n == Len(list)
<1>1. /\ n \in Nat /\ DOMAIN list = 1 .. n /\ DOMAIN longer = 1 .. n + 1
      /\ \A i \in 1 .. n : longer[i] = list[i]
      /\ longer[n + 1] = ad
  BY AppendProperties
<1>. HIDE DEF longer, n
<1>2. /\ n + 1 \in OfMeters(longer)
      /\ \A i \in OfMeters(list) : i \in OfMeters(longer) /\ i <= n /\ longer[i] = list[i]
      /\ \A i \in OfMeters(longer) : i = n + 1 \/ i \in OfMeters(list)
  BY <1>1 DEF OfMeters
<1>3. OfMeters(list) = {} => Leads(ad, longer)
  BY <1>1, <1>2 DEF Leads
<1>4. ASSUME Leads(m, list)
      PROVE  /\ m.address = ad.address => Leads(ad, longer)
             /\ m.address # ad.address => Leads(m, longer)
  <2>1. PICK first, last \in OfMeters(list) :
           /\ \A i \in OfMeters(list) : first <= i
           /\ list[last].address = list[first].address
           /\ \A i \in OfMeters(list) :
                 list[i].address = list[first].address => i <= last
           /\ m = [address |-> list[first].address, rssi |-> list[last].rssi]
    BY <1>4 DEF Leads
  <2>2. /\ first \in 1 .. n /\ last \in 1 .. n
        /\ first \in OfMeters(longer) /\ last \in OfMeters(longer)
        /\ longer[first] = list[first] /\ longer[last] = list[last]
        /\ m.address = list[first].address
    BY <1>1, <1>2, <2>1 DEF OfMeters
  <2>3. \A i \in OfMeters(longer) : first <= i
    BY <1>1, <1>2, <2>1, <2>2
  <2>4. CASE m.address = ad.address
    <3>1. \A i \in OfMeters(longer) : i <= n + 1
      BY <1>1, <1>2 DEF OfMeters
    <3>. QED  BY <1>1, <1>2, <2>2, <2>3, <2>4, <3>1 DEF Leads
  <2>5. CASE m.address # ad.address
    <3>1. \A i \in OfMeters(longer) : longer[i].address = longer[first].address => i <= last
      BY <1>1, <1>2, <2>1, <2>2, <2>5
    <3>. QED  BY <2>1, <2>2, <2>3, <2>5, <3>1 DEF Leads
  <2>. QED  BY <2>4, <2>5
<1>. QED  BY <1>2, <1>3, <1>4 DEF longer

LEMMA OneMoreOther ==
    ASSUME NEW S, NEW list \in Seq(S), NEW ad \in S, ad.address \notin Meters
    PROVE  /\ OfMeters(Append(list, ad)) = OfMeters(list)
           /\ \A m : Leads(m, list) => Leads(m, Append(list, ad))
<1>. DEFINE longer == Append(list, ad)
           n == Len(list)
<1>1. /\ n \in Nat /\ DOMAIN list = 1 .. n /\ DOMAIN longer = 1 .. n + 1
      /\ \A i \in 1 .. n : longer[i] = list[i]
      /\ longer[n + 1] = ad
  BY AppendProperties
<1>. HIDE DEF longer, n
<1>2. OfMeters(longer) = OfMeters(list)
  BY <1>1 DEF OfMeters
<1>3. \A i \in OfMeters(list) : longer[i] = list[i]
  BY <1>1 DEF OfMeters
<1>4. ASSUME NEW m, Leads(m, list)
      PROVE  Leads(m, longer)
  BY <1>2, <1>3, <1>4 DEF Leads
<1>. QED  BY <1>2, <1>4 DEF longer

LEMMA HearsKeeps ==
    ASSUME ScanInv, NEW d, NEW ad, NEW r \in Rssi, Hear(d, ad, r),
           (d \in Meters /\ ad \in MeterAds) \/ (d \in Others /\ ad \in OtherAds)
    PROVE  ScanInv'
<1>. DEFINE one == [address |-> d, rssi |-> r]
           known == {i \in DOMAIN found : found[i].address = d}
<1>1. /\ scan = "scanning" /\ scan' = scan
      /\ heard' = Append(heard, one)
      /\ found' = IF ~IsBrymenbleAdvertisement(ad) THEN found
                  ELSE IF known = {} THEN Append(found, one)
                  ELSE [i \in DOMAIN found |-> IF i \in known THEN one ELSE found[i]]
  BY DEF Hear, Handler
<1>2. /\ heard \in Seq([address : Meters \cup Others, rssi : Rssi])
      /\ found \in Seq([address : Meters, rssi : Rssi])
      /\ Collected
  BY DEF ScanInv
<1>3. one \in [address : Meters \cup Others, rssi : Rssi] /\ one.address = d /\ one.rssi = r
  OBVIOUS
<1>4. d \in Meters => one \in [address : Meters, rssi : Rssi]
  OBVIOUS
<1>5. one = [address |-> one.address, rssi |-> one.rssi]
  OBVIOUS
<1>. HIDE DEF one
<1>6. heard' \in Seq([address : Meters \cup Others, rssi : Rssi])
  BY <1>1, <1>2, <1>3, AppendProperties
<1>7. CASE d \in Others
  <2>1. found' = found /\ one.address \notin Meters
    BY <1>1, <1>3, <1>7, Recognised, DeviceAssumption
  <2>2. /\ OfMeters(heard') = OfMeters(heard)
        /\ \A m : Leads(m, heard) => Leads(m, heard')
    BY <1>1, <1>2, <1>3, <2>1, OneMoreOther
  <2>3. Collected'
    BY <1>2, <2>1, <2>2 DEF Collected
  <2>. QED  BY <1>1, <1>2, <1>6, <2>1, <2>3 DEF ScanInv
<1>8. CASE d \in Meters
  <2>1. IsBrymenbleAdvertisement(ad) /\ one \in [address : Meters, rssi : Rssi]
    BY <1>4, <1>8, Recognised, DeviceAssumption
  <2>2. /\ OfMeters(heard') # {}
        /\ OfMeters(heard) = {} => Leads(one, heard')
        /\ Leads(found[1], heard) /\ found[1].address = d => Leads(one, heard')
        /\ Leads(found[1], heard) /\ found[1].address # d => Leads(found[1], heard')
    BY <1>1, <1>2, <1>3, <1>5, <1>8, OneMoreMeter
  <2>3. found = <<>> \/ 1 \in DOMAIN found
    BY <1>2
  <2>4. found' \in Seq([address : Meters, rssi : Rssi])
    <3>1. CASE known = {}
      BY <1>1, <1>2, <2>1, <3>1, AppendProperties
    <3>2. CASE known # {}
      <4>1. found' = [i \in DOMAIN found |-> IF i \in known THEN one ELSE found[i]]
        BY <1>1, <2>1, <3>2
      <4>. QED  BY <1>2, <2>1, <4>1, Replaced
    <3>. QED  BY <3>1, <3>2
  <2>5. found' # <<>> /\ found'[1] = IF found = <<>> \/ found[1].address = d
                                     THEN one ELSE found[1]
    <3>1. CASE found = <<>>
      <4>1. found' = Append(<<>>, one)
        BY <1>1, <2>1, <3>1
      <4>. QED  BY <3>1, <4>1
    <3>2. CASE found # <<>> /\ known = {}
      <4>1. found' = Append(found, one)
        BY <1>1, <2>1, <3>2
      <4>2. found'[1] = found[1] /\ found' # <<>>
        BY <1>2, <2>1, <2>3, <3>2, <4>1, AppendProperties
      <4>. QED  BY <2>3, <3>2, <4>2
    <3>3. CASE found # <<>> /\ known # {}
      <4>1. found' = [i \in DOMAIN found |-> IF i \in known THEN one ELSE found[i]]
        BY <1>1, <2>1, <3>3
      <4>. HIDE DEF known
      <4>2. found'[1] = IF 1 \in known THEN one ELSE found[1]
        BY <2>3, <3>3, <4>1
      <4>3. found' # <<>>
        BY <2>3, <3>3, <4>1
      <4>. QED  BY <2>3, <3>3, <4>2, <4>3 DEF known
    <3>. QED  BY <3>1, <3>2, <3>3
  <2>6. Collected'
    BY <1>2, <2>2, <2>5 DEF Collected
  <2>. QED  BY <1>1, <1>6, <2>4, <2>6 DEF ScanInv
<1>. QED  BY <1>7, <1>8

LEMMA ScanInit == ScannerInit => ScanInv
<1>. SUFFICES ASSUME ScannerInit  PROVE ScanInv
  OBVIOUS
<1>1. OfMeters(heard) = {}
  BY DEF ScannerInit, OfMeters
<1>. QED  BY <1>1 DEF ScannerInit, ScanInv, Collected

LEMMA ScanStep ==
    ASSUME ScanInv, [Next]_vars
    PROVE  ScanInv'
<1>1. CASE UNCHANGED scannerVars
  BY <1>1 DEF scannerVars, ScanInv, Collected
<1>2. CASE \E m \in Meters : Advertise(m)
  BY <1>2, HearsKeeps DEF Advertise
<1>3. CASE OtherDevice
  BY <1>3, HearsKeeps DEF OtherDevice
<1>4. CASE ScanOver
  <2>1. /\ UNCHANGED <<heard, found>>
        /\ scan' = "returned" => result' = IF found = <<>> THEN None ELSE found[1]
    BY <1>4 DEF ScanOver, EndScan
  <2>. QED  BY <2>1 DEF ScanInv, Collected
<1>10. CASE ScanBroken
  <2>1. UNCHANGED <<heard, found>> /\ scan' # "returned"
    BY <1>10 DEF ScanBroken, ScanFails
  <2>. QED  BY <2>1 DEF ScanInv, Collected
<1>5. CASE NextScan
  <2>1. scan' = "scanning" /\ heard' = <<>> /\ found' = <<>>
    BY <1>5 DEF NextScan, Rescan
  <2>2. OfMeters(heard') = {}
    BY <2>1 DEF OfMeters
  <2>. QED  BY <2>1, <2>2 DEF ScanInv, Collected
<1>6. CASE NoMeter \/ Connect \/ Connected \/ LinkLost \/ PauseCap \/ Reconnected \/ ClosedDown
  BY <1>1, <1>6 DEF NoMeter, Connect, Connected, LinkLost, PauseCap, Reconnected, ClosedDown
<1>7. CASE Opened \/ OpenFailed \/ CloseEnds \/ LinkDrops \/ CtrlC
  BY <1>1, <1>7 DEF Opened, OpenFailed, CloseEnds, LinkDrops, CtrlC, Untouched
<1>8. CASE \E m \in Meters : Toggle(m)
  BY <1>1, <1>8 DEF Toggle
<1>9. CASE UNCHANGED vars
  BY <1>1, <1>9 DEF vars
<1>. QED  BY <1>2, <1>3, <1>4, <1>5, <1>6, <1>7, <1>8, <1>9, <1>10 DEF Next

\* find_first_meter returns the meter that its last scan heard first, with the
\* signal strength that scan heard it with last, for any number of meters, other
\* devices and advertisements, in any order; None if that scan heard no meter.
THEOREM FirstMeterReturned == Spec => []FirstSightLastSignal
<1>1. Init => ScanInv
  BY ScanInit DEF Init
<1>2. ScanInv /\ [Next]_vars => ScanInv'
  BY ScanStep
<1>3. ScanInv => FirstSightLastSignal
  <2>. SUFFICES ASSUME ScanInv, scan = "returned"
                PROVE  IF OfMeters(heard) = {} THEN result = None
                       ELSE Leads(result, heard)
    BY DEF FirstSightLastSignal, OfMeters, Leads
  <2>. QED  BY DEF ScanInv, Collected
<1>. QED  BY <1>1, <1>2, <1>3, PTL DEF Spec

-----------------------------------------------------------------------------
(* Cleaning up.                                                            *)

LEMMA QuitKeeps ==
    ASSUME CloseInv, exit = "running", NEW e, Quit(e),
           presses' \in Nat, presses' >= presses,
           phase = "closed" \/ (e = "Cancelled" /\ presses > 0 /\
              (goal = "closed" \/ (app = "example" /\ step = "connect")))
    PROVE  CloseInv'
<1>1. /\ exit' = Status(e) /\ UNCHANGED <<app, step, phase, goal, outcome>>
  BY DEF Quit, session
<1>2. Status(e) # "running" /\ (e = "Cancelled" => Status(e) \in {"0", "130"})
  BY DEF CloseInv, Status
<1>. QED  BY <1>1, <1>2 DEF CloseInv, ReleasedAtExit, Running

\* A call of the client begins.
LEMMA CallKeeps ==
    ASSUME CloseInv, exit = "running", exit' = exit, app' = app,
           presses' \in Nat, presses' >= presses,
           NEW g \in {"open", "closed"}, Client!Call(g),
           step' \notin {"scan", "close"} \/ (step' = "close" /\ g = "closed")
    PROVE  CloseInv'
<1>1. /\ goal' = g /\ outcome' = "none"
      /\ phase' = "busy" \/ (g = "closed" /\ phase' = "closed")
  BY DEF Client!Call
<1>. QED  BY <1>1 DEF CloseInv, ReleasedAtExit, Running, Client!Phases

\* A call of the client ends, or the link goes down.
LEMMA EndKeeps ==
    ASSUME CloseInv, exit = "running", UNCHANGED program, presses' \in Nat, presses' >= presses,
           \/ Client!Succeeds \/ Client!Releases \/ Client!Drop
           \/ \E e \in Client!Failures : Client!Fails(e)
           \/ Client!Interrupted /\ presses' > 0
    PROVE  CloseInv'
<1>1. UNCHANGED <<app, step, exit, goal>>
  BY DEF program, Client!Succeeds, Client!Releases, Client!Drop, Client!Fails,
         Client!Interrupted, Client!Ends
<1>2. step = "scan" => phase # "busy" /\ phase # "open"
  BY DEF CloseInv
<1>3. CASE Client!Succeeds \/ Client!Releases \/ Client!Drop
  BY <1>1, <1>2, <1>3 DEF CloseInv, ReleasedAtExit, Running, Client!Phases,
     Client!Succeeds, Client!Releases, Client!Drop, Client!Ends
<1>4. CASE \E e \in Client!Failures : Client!Fails(e)
  BY <1>1, <1>2, <1>4 DEF CloseInv, ReleasedAtExit, Running, Client!Phases,
     Client!Failures, Client!Fails, Client!Ends
<1>5. CASE Client!Interrupted /\ presses' > 0
  BY <1>1, <1>2, <1>5 DEF CloseInv, ReleasedAtExit, Running, Client!Phases,
     Client!Interrupted, Client!Ends
<1>. QED  BY <1>3, <1>4, <1>5

LEMMA CloseInit == Init => CloseInv
BY DEF Init, Client!Init, CloseInv, Client!Phases, ReleasedAtExit, Running

LEMMA CloseStep ==
    ASSUME CloseInv, [Next]_vars
    PROVE  CloseInv'
<1>. DEFINE Same == UNCHANGED <<session, app, step, exit, presses>>
<1>1. CASE Same
  BY <1>1 DEF session, CloseInv, ReleasedAtExit, Running
<1>2. presses \in Nat /\ presses >= presses
  BY DEF CloseInv
<1>3. CASE ScanOver \/ NextScan \/ OtherDevice \/ \E m \in Meters : Advertise(m) \/ Toggle(m)
  <2>1. Same
    BY <1>3 DEF ScanOver, NextScan, OtherDevice, Advertise, Toggle, program
  <2>. QED  BY <1>1, <2>1
<1>4. CASE NoMeter
  BY <1>2, <1>4, QuitKeeps DEF NoMeter, Scanning, Running, CloseInv
<1>13. CASE ScanBroken
  <2>1. phase = "closed" /\ exit = "running" /\ presses' = presses
    BY <1>13 DEF ScanBroken, Scanning, Running, CloseInv
  <2>. QED  BY <1>2, <1>13, <2>1, QuitKeeps DEF ScanBroken
<1>5. CASE Connect
  BY <1>2, <1>5, CallKeeps DEF Connect, Open, Running
<1>6. CASE Connected
  <2>1. /\ exit = "running" /\ step = "connect" /\ goal = "open" /\ phase # "busy"
        /\ presses' = presses
    BY <1>6 DEF Connected, Returned, Running
  <2>2. CASE outcome = "none" /\ step' = "stream" /\ UNCHANGED <<app, exit, session>>
    BY <2>1, <2>2 DEF session, CloseInv, ReleasedAtExit, Running
  <2>3. CASE outcome # "none" /\ app = "example" /\ Quit(outcome)
    <3>1. phase = "closed" \/ (outcome = "Cancelled" /\ presses > 0)
      BY <2>1, <2>3 DEF CloseInv, Client!Phases
    <3>. QED  BY <1>2, <2>1, <2>3, <3>1, QuitKeeps
  <2>4. CASE CloseAndRaise(outcome)
    BY <1>2, <2>1, <2>4, CallKeeps DEF CloseAndRaise
  <2>. QED  BY <1>6, <2>2, <2>3, <2>4 DEF Connected
<1>7. CASE LinkLost \/ PauseCap
  BY <1>2, <1>7, CallKeeps DEF LinkLost, PauseCap, Streaming, Running, Open
<1>8. CASE Reconnected
  <2>1. exit = "running" /\ step = "reconnect" /\ presses' = presses
    BY <1>8 DEF Reconnected, Returned, Running
  <2>2. CASE outcome = "none" /\ step' = "stream" /\ UNCHANGED <<app, exit, session>>
    BY <2>1, <2>2 DEF session, CloseInv, ReleasedAtExit, Running
  <2>3. CASE CloseAndRaise(outcome)
    BY <1>2, <2>1, <2>3, CallKeeps DEF CloseAndRaise
  <2>. QED  BY <1>8, <2>2, <2>3 DEF Reconnected
<1>9. CASE ClosedDown
  <2>. DEFINE e == IF outcome = "Cancelled" THEN "Cancelled" ELSE raised
  <2>1. /\ exit = "running" /\ step = "close" /\ phase # "busy" /\ presses' = presses
        /\ Quit(e)
    BY <1>9 DEF ClosedDown, Running
  <2>2. goal = "closed" /\ (phase = "closed" \/ (e = "Cancelled" /\ presses > 0))
    BY <2>1 DEF CloseInv, Client!Phases
  <2>. HIDE DEF e
  <2>. QED  BY <1>2, <2>1, <2>2, QuitKeeps
<1>10. CASE Opened \/ OpenFailed \/ CloseEnds \/ LinkDrops
  BY <1>2, <1>10, EndKeeps DEF Opened, OpenFailed, CloseEnds, LinkDrops, Untouched, Running
<1>11. CASE CtrlC
  <2>1. exit = "running" /\ presses' = presses + 1
    BY <1>11 DEF CtrlC, Running
  <2>2. presses' \in Nat /\ presses' >= presses /\ presses' > 0
    BY <1>2, <2>1
  <2>3. CASE step = "scan" /\ Quit("Cancelled")
    <3>1. phase = "closed"
      BY <2>1, <2>3 DEF CloseInv
    <3>. QED  BY <2>1, <2>2, <2>3, <3>1, QuitKeeps
  <2>4. CASE CloseAndRaise("Cancelled")
    BY <2>1, <2>2, <2>4, CallKeeps DEF CloseAndRaise
  <2>5. CASE Client!Interrupted /\ UNCHANGED program
    BY <2>1, <2>2, <2>5, EndKeeps
  <2>6. CASE UNCHANGED <<session, program>>
    BY <2>1, <2>2, <2>6 DEF session, program, CloseInv, ReleasedAtExit, Running
  <2>. QED  BY <1>11, <2>3, <2>4, <2>5, <2>6 DEF CtrlC
<1>12. CASE UNCHANGED vars
  BY <1>1, <1>12 DEF vars, program
<1>. QED  BY <1>3, <1>4, <1>5, <1>6, <1>7, <1>8, <1>9, <1>10, <1>11, <1>12, <1>13 DEF Next

\* Whatever makes the program end, the client is closed behind it, unless Ctrl-C
\* interrupted close() itself or, in the examples, the first connection: for any
\* number of presses, at any moment of any call.
THEOREM ClientReleased == Spec => []ReleasedAtExit
<1>1. CloseInv => ReleasedAtExit
  BY DEF CloseInv
<1>2. CloseInv /\ [Next]_vars => CloseInv'
  BY CloseStep
<1>. QED  BY <1>1, <1>2, CloseInit, PTL DEF Spec
==============================================================================
