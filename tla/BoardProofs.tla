------------------------------ MODULE BoardProofs ------------------------------
(***************************************************************************)
(* What holds between the Worker and the window for all heights, states    *)
(* and bounds, wherever the two threads are in their cells.                *)
(***************************************************************************)
EXTENDS Board, TLAPS

\* The counters without their bound, which follows from CountsAgree.
Loose(c) ==
  IF c \in Counter THEN Nat
  ELSE IF c \in Height \cup {"ALTITUDE_MAX"} THEN Heights \cup {0}
  ELSE IF c = "STATUS_AV_STATE" THEN States \cup {0}
  ELSE IF c = "ALL_RECEIVED" THEN {0, 1} ELSE 0 .. MaxPictures

Cells ==
  /\ DOMAIN data = Cell /\ \A c \in Cell : data[c] \in Loose(c)
  /\ DOMAIN panel = Panel /\ \A c \in Panel : panel[c] \in Content(c)
  /\ job \in {"idle", "refresh", "reset"} /\ place \in 1 .. Len(RefreshOrder)
  /\ job = "reset" => place <= Len(dataToReset)
  /\ packets \in 0 .. MaxPackets /\ avPackets \in 0 .. packets
  /\ pictures \in 0 .. MaxPictures /\ resets \in 0 .. MaxResets
  /\ eaten \in [Rate -> Nat] /\ overtaken \subseteq Height

\* The Worker is at a cell of its packet, with a value for it.
AtWork ==
  /\ kind \in Kind
  /\ kind \in {"gps", "telemetry"} => value \in Heights
  /\ kind = "status" => value \in States
  /\ kind \notin {"gps", "telemetry", "status"} => value \in 0 .. MaxPictures
  /\ \/ step = "idle" /\ kind = "other"
     \/ step \in {"TOTAL_RX_PACKET_CTR", "PACKET_CTR_ALL"} /\ kind \in Avionics \cup {"other"}
     \/ step = "PACKET_CTR_AV" /\ kind \in Avionics
     \/ step = "CORRUPTED_PACKET_CTR" /\ kind = "corrupted"
     \/ step = "GPS_ALTITUDE" /\ kind = "gps"
     \/ step = "T_ALTITUDE" /\ kind = "telemetry"
     \/ step \in {"compare", "ALTITUDE_MAX"} /\ kind \in {"gps", "telemetry"}
     \/ step = "STATUS_AV_STATE" /\ kind = "status"
     \/ step \in {"imgPLfilename", "ALL_RECEIVED"} /\ kind = "image"

\* Each packet is counted once, as a packet or as corrupted, as far as no
\* reset has taken it away.
One(p) == IF p THEN 1 ELSE 0

CountsAgree ==
  /\ CountedOnce
  /\ data["TOTAL_RX_PACKET_CTR"] + data["CORRUPTED_PACKET_CTR"]
       + One(step \in {"TOTAL_RX_PACKET_CTR", "CORRUPTED_PACKET_CTR"}) <= packets

\* Between the height and its maximum: the height is the packet's unless a
\* reset cleared it, and a maximum that is about to be raised is below it.
Comparing ==
  /\ step \in {"compare", "ALTITUDE_MAX"} => data[Compared] \in {value, 0}
  /\ step = "ALTITUDE_MAX" => data["ALTITUDE_MAX"] < value

IInv == Cells /\ AtWork /\ CountsAgree /\ Comparing /\ MaxCovers

-----------------------------------------------------------------------------
LEMMA Bounds ==
  /\ Heights \subseteq Nat \ {0} /\ States \subseteq Nat \ {0}
  /\ MaxPackets \in Nat /\ MaxPictures \in Nat /\ MaxResets \in Nat
BY BoardAssumption

LEMMA Orders ==
  /\ Len(RefreshOrder) = 7 /\ Len(dataToReset) = 6
  /\ \A k \in 1 .. 7 : RefreshOrder[k] \in Panel \cup {"ALL_RECEIVED"}
  /\ \A k \in 1 .. 6 : dataToReset[k] \in
       {"CORRUPTED_PACKET_CTR", "GPS_ALTITUDE", "T_ALTITUDE", "ALTITUDE_MAX",
        "ALL_RECEIVED", "STATUS_AV_STATE"}
BY DEF RefreshOrder, dataToReset, Panel, Shown, Rate

\* What the cells' types come to, cell by cell.
LEMMA CellTypes ==
  Cells => /\ data["TOTAL_RX_PACKET_CTR"] \in Nat /\ data["PACKET_CTR_ALL"] \in Nat
           /\ data["PACKET_CTR_AV"] \in Nat /\ data["CORRUPTED_PACKET_CTR"] \in Nat
           /\ data["GPS_ALTITUDE"] \in Heights \cup {0} /\ data["T_ALTITUDE"] \in Heights \cup {0}
           /\ data["ALTITUDE_MAX"] \in Heights \cup {0}
           /\ data["STATUS_AV_STATE"] \in States \cup {0}
           /\ data["ALL_RECEIVED"] \in {0, 1} /\ data["imgPLfilename"] \in 0 .. MaxPictures
           /\ eaten["PACKET_CTR_ALL"] \in Nat /\ eaten["PACKET_CTR_AV"] \in Nat
BY DEF Cells, Loose, Cell, Counter, Shown, Height, Rate

LEMMA HeightTypes ==
  Cells => data["ALTITUDE_MAX"] \in Nat /\ \A h \in Height : data[h] \in Nat
<1> SUFFICES ASSUME Cells
             PROVE  data["ALTITUDE_MAX"] \in Nat /\ \A h \in Height : data[h] \in Nat
  OBVIOUS
<1>1. /\ data["GPS_ALTITUDE"] \in Heights \cup {0} /\ data["T_ALTITUDE"] \in Heights \cup {0}
      /\ data["ALTITUDE_MAX"] \in Heights \cup {0}
  BY CellTypes
<1>2. \A v \in Heights \cup {0} : v \in Nat
  BY Bounds
<1> QED
  BY <1>1, <1>2 DEF Height

LEMMA InitIInv == Init => IInv
<1> SUFFICES ASSUME Init PROVE IInv
  OBVIOUS
<1> USE Bounds
<1>1. \A c \in Cell : data[c] = 0 /\ DOMAIN data = Cell
  BY DEF Init
<1>2. Cells
  BY <1>1, Orders DEF Init, Cells, Loose, Content, Rate
<1>3. AtWork
  BY DEF Init, AtWork, Kind, Avionics
<1>4. CountsAgree
  BY <1>1 DEF Init, CountsAgree, CountedOnce, One, Cell, Counter, Rate
<1>5. Comparing /\ MaxCovers
  BY <1>1 DEF Init, Comparing, MaxCovers, Cell, Counter, Shown, Height
<1> QED
  BY <1>2, <1>3, <1>4, <1>5 DEF IInv

-----------------------------------------------------------------------------
(* The Worker.                                                             *)

LEMMA BeginKeeps ==
  ASSUME IInv, Receive
  PROVE  IInv'
<1> USE Bounds DEF IInv
<1>0. /\ UNCHANGED <<data, window, resets, overtaken>>
      /\ packets' \in 0 .. MaxPackets /\ avPackets' \in 0 .. packets' /\ pictures' \in 0 .. MaxPictures
  BY DEF Receive, Packet, CorruptedPacket, Complete, Cells
<1>1. Cells'
  BY <1>0 DEF Cells, window
<1>2. AtWork'
  BY DEF Receive, Packet, CorruptedPacket, Complete, Cells, AtWork, Kind, Avionics
<1>3. CountsAgree'
  <2>0. Cells /\ packets \in Nat /\ avPackets \in Nat
    BY DEF Cells
  <2>1. \/ /\ step' = "TOTAL_RX_PACKET_CTR" /\ packets' = packets + 1
           /\ avPackets' = IF kind' \in Avionics THEN avPackets + 1 ELSE avPackets
        \/ /\ step' = "CORRUPTED_PACKET_CTR" /\ packets' = packets + 1 /\ avPackets' = avPackets
           /\ kind' = "corrupted"
        \/ /\ step' = "imgPLfilename" /\ packets' = packets /\ avPackets' = avPackets
           /\ kind' = "image"
    BY DEF Receive, Packet, CorruptedPacket, Complete
  <2>2. step = "idle" /\ data' = data /\ eaten' = eaten
    BY <1>0 DEF Receive, Packet, CorruptedPacket, Complete, window
  <2> QED
    BY <2>0, <2>1, <2>2, CellTypes DEF CountsAgree, CountedOnce, One, Counter, Avionics
<1>4. Comparing'
  BY DEF Receive, Packet, CorruptedPacket, Complete, Comparing
<1>5. MaxCovers'
  <2>1. step = "idle" /\ data' = data /\ overtaken' = overtaken
    BY <1>0 DEF Receive, Packet, CorruptedPacket, Complete
  <2> QED
    BY <2>1 DEF MaxCovers
<1> QED
  BY <1>1, <1>2, <1>3, <1>4, <1>5

LEMMA CountKeeps ==
  ASSUME IInv, Count
  PROVE  IInv'
<1> USE Bounds DEF IInv
<1>0. /\ UNCHANGED <<window, counts, overtaken>> /\ step \in Counter
      /\ data' = [data EXCEPT ![step] = @ + 1] /\ Goto(AfterCount)
  BY DEF Count
<1>d. /\ DOMAIN data' = Cell /\ data'[step] = data[step] + 1 /\ step \in Cell
      /\ \A c \in Cell : c # step => data'[c] = data[c]
  BY <1>0 DEF Cells, Cell
<1>1. Cells'
  <2>1. \A c \in Cell : data'[c] \in Loose(c)
    BY <1>0, <1>d DEF Cells, Loose
  <2> QED
    BY <1>0, <1>d, <2>1 DEF Cells, window, counts
<1>2. AtWork'
  BY <1>0 DEF AtWork, AfterCount, Data, Goto, Kind, Avionics, Counter
<1>3. CountsAgree'
  <2>1. /\ eaten' = eaten /\ packets' = packets /\ avPackets' = avPackets
    BY <1>0 DEF window, counts
  <2>2. CASE step = "TOTAL_RX_PACKET_CTR"
    <3>1. step' = "PACKET_CTR_ALL" /\ kind' = kind
      BY <1>0, <2>2 DEF AfterCount, Goto
    <3> QED
      BY <2>1, <2>2, <3>1, <1>d, CellTypes DEF CountsAgree, CountedOnce, One, Counter, Cell
  <2>3. CASE step = "PACKET_CTR_ALL"
    <3>1. IF kind \in Avionics THEN step' = "PACKET_CTR_AV" /\ kind' = kind
                               ELSE step' = "idle"
      BY <1>0, <2>3 DEF AfterCount, Goto, Data, Avionics
    <3> QED
      BY <2>1, <2>3, <3>1, <1>d, CellTypes DEF CountsAgree, CountedOnce, One, Counter, Cell
  <2>4. CASE step = "PACKET_CTR_AV"
    <3>1. step' \notin Counter /\ kind \in Avionics
      BY <1>0, <2>4 DEF AfterCount, Goto, Data, Avionics, Counter, AtWork
    <3> QED
      BY <2>1, <2>4, <3>1, <1>d, CellTypes DEF CountsAgree, CountedOnce, One, Counter, Cell
  <2>5. CASE step = "CORRUPTED_PACKET_CTR"
    <3>1. step' = "idle" /\ kind \notin Avionics
      BY <1>0, <2>5 DEF AfterCount, Goto, Avionics, AtWork
    <3> QED
      BY <2>1, <2>5, <3>1, <1>d, CellTypes DEF CountsAgree, CountedOnce, One, Counter, Cell
  <2> QED
    BY <1>0, <2>2, <2>3, <2>4, <2>5 DEF Counter
<1>4. Comparing'
  BY <1>0 DEF Comparing, AfterCount, Data, Goto, Counter
<1>5. MaxCovers'
  <2>1. step \notin {"compare", "ALTITUDE_MAX"} /\ overtaken' = overtaken
        /\ (\A h \in Height : data'[h] = data[h]) /\ data'["ALTITUDE_MAX"] = data["ALTITUDE_MAX"]
    BY <1>0, <1>d DEF Counter, Height, Cell, Shown
  <2> QED
    BY <2>1 DEF MaxCovers
<1> QED
  BY <1>1, <1>2, <1>3, <1>4, <1>5

LEMMA StoreHeightKeeps ==
  ASSUME IInv, StoreHeight
  PROVE  IInv'
<1> USE Bounds DEF IInv
<1>0. /\ UNCHANGED <<window, counts, overtaken, kind, value>> /\ step \in Height
      /\ data' = [data EXCEPT ![step] = value] /\ step' = "compare"
  BY DEF StoreHeight, Goto
<1>1. value \in Heights /\ kind \in {"gps", "telemetry"} /\ Compared = step /\ Compared' = step
  BY <1>0 DEF AtWork, Height, Compared
<1>d. /\ DOMAIN data' = Cell /\ data'[step] = value /\ step \in Cell
      /\ \A c \in Cell : c # step => data'[c] = data[c]
  BY <1>0 DEF Cells, Cell
<1>2. Cells'
  <2>1. \A c \in Cell : data'[c] \in Loose(c)
    BY <1>0, <1>1, <1>d DEF Cells, Loose, Height, Counter
  <2> QED
    BY <1>0, <1>d, <2>1 DEF Cells, window, counts
<1>3. AtWork'
  BY <1>0, <1>1 DEF AtWork, Kind, Avionics
<1>4. CountsAgree'
  BY <1>0, <1>d DEF CountsAgree, CountedOnce, One, Counter, Cell, Height, window, counts
<1>5. Comparing'
  BY <1>0, <1>1, <1>d DEF Comparing
<1>6. MaxCovers'
  <2>1. step \notin {"compare", "ALTITUDE_MAX"} /\ step # "ALTITUDE_MAX"
        /\ (\A h \in Height : h # step => data'[h] = data[h])
        /\ data'["ALTITUDE_MAX"] = data["ALTITUDE_MAX"]
    BY <1>0, <1>d DEF Height, Cell, Shown
  <2> QED
    BY <1>0, <1>1, <2>1 DEF MaxCovers
<1> QED
  BY <1>2, <1>3, <1>4, <1>5, <1>6

LEMMA CompareKeeps ==
  ASSUME IInv, Compare
  PROVE  IInv'
<1> USE Bounds DEF IInv
<1>0. UNCHANGED <<data, window, counts>> /\ step = "compare"
  BY DEF Compare
<1>1. value \in Heights /\ kind \in {"gps", "telemetry"} /\ Compared \in Height
  BY <1>0 DEF AtWork, Compared, Height
<1>2. \/ /\ value > data["ALTITUDE_MAX"] /\ overtaken' = overtaken
         /\ step' = "ALTITUDE_MAX" /\ UNCHANGED <<kind, value>>
      \/ /\ value <= data["ALTITUDE_MAX"] /\ overtaken' = overtaken \ {Compared}
         /\ step' = "idle" /\ kind' = "other" /\ value' = 0
  BY DEF Compare, Goto
<1>3. Cells'
  BY <1>0, <1>2 DEF Cells, window, counts
<1>4. AtWork'
  BY <1>1, <1>2 DEF AtWork, Kind, Avionics
<1>5. CountsAgree'
  BY <1>0, <1>2 DEF CountsAgree, CountedOnce, One, Counter, window, counts
<1>6. Comparing'
  BY <1>0, <1>1, <1>2, CellTypes DEF Comparing, Compared
<1>7. MaxCovers'
  <2>1. data["ALTITUDE_MAX"] \in Nat /\ \A h \in Height : data[h] \in Nat
    BY HeightTypes
  <2>2. CASE step' = "ALTITUDE_MAX"
    BY <1>0, <1>2, <2>2 DEF MaxCovers, Compared
  <2>3. CASE step' = "idle"
    <3>1. value <= data["ALTITUDE_MAX"] /\ overtaken' = overtaken \ {Compared}
      BY <1>2, <2>3
    <3>2. data[Compared] <= data["ALTITUDE_MAX"]
      BY <1>0, <1>1, <2>1, <3>1 DEF Comparing
    <3> QED
      BY <1>0, <3>1, <3>2 DEF MaxCovers
  <2> QED
    BY <1>2, <2>2, <2>3
<1> QED
  BY <1>3, <1>4, <1>5, <1>6, <1>7

LEMMA RaiseKeeps ==
  ASSUME IInv, Raise
  PROVE  IInv'
<1> USE Bounds DEF IInv
<1>0. /\ UNCHANGED <<window, counts>> /\ step = "ALTITUDE_MAX"
      /\ data' = [data EXCEPT !["ALTITUDE_MAX"] = value]
      /\ step' = "idle" /\ kind' = "other" /\ value' = 0 /\ overtaken' = overtaken \ {Compared}
  BY DEF Raise, Goto
<1>1. value \in Heights /\ kind \in {"gps", "telemetry"} /\ Compared \in Height
  BY <1>0 DEF AtWork, Compared, Height
<1>d. /\ DOMAIN data' = Cell /\ data'["ALTITUDE_MAX"] = value /\ "ALTITUDE_MAX" \in Cell
      /\ \A c \in Cell : c # "ALTITUDE_MAX" => data'[c] = data[c]
  BY <1>0 DEF Cells, Cell, Shown
<1>2. Cells'
  <2>1. \A c \in Cell : data'[c] \in Loose(c)
    BY <1>0, <1>1, <1>d DEF Cells, Loose, Height, Counter
  <2> QED
    BY <1>0, <1>d, <2>1 DEF Cells, window, counts
<1>3. AtWork'
  BY <1>0 DEF AtWork, Kind, Avionics
<1>4. CountsAgree'
  BY <1>0, <1>d DEF CountsAgree, CountedOnce, One, Counter, Cell, window, counts
<1>5. Comparing'
  BY <1>0 DEF Comparing
<1>6. MaxCovers'
  <2>1. data["ALTITUDE_MAX"] \in Nat /\ data["ALTITUDE_MAX"] < value
        /\ \A h \in Height : data[h] \in Nat /\ data'[h] = data[h]
    BY <1>0, <1>d, HeightTypes DEF Height, Cell, Comparing
  <2>2. data[Compared] <= value
    BY <1>0, <1>1, <2>1 DEF Comparing
  <2>3. ASSUME NEW h \in Height, h \notin overtaken', h # Compared
        PROVE  data[h] <= value
    BY <1>0, <1>1, <2>1, <2>3 DEF MaxCovers
  <2> QED
    BY <1>d, <2>1, <2>2, <2>3 DEF MaxCovers
<1> QED
  BY <1>2, <1>3, <1>4, <1>5, <1>6

\* The other stores touch neither a counter nor a height.
LEMMA StoreKeeps ==
  ASSUME IInv, StoreState \/ Export
  PROVE  IInv'
<1> USE Bounds DEF IInv
<1>0. /\ UNCHANGED <<window, counts, overtaken>>
      /\ step \in {"STATUS_AV_STATE", "imgPLfilename", "ALL_RECEIVED"}
      /\ step' \in {"idle", "ALL_RECEIVED"}
  BY DEF StoreState, Export, Goto
<1>d. /\ DOMAIN data' = Cell /\ step \in Cell
      /\ \A c \in Cell : c # step => data'[c] = data[c]
      /\ data'[step] \in Loose(step)
  BY <1>0 DEF StoreState, Export, Cells, Cell, Shown, AtWork, Loose, Counter, Height
<1>2. Cells'
  <2>1. \A c \in Cell : data'[c] \in Loose(c)
    BY <1>d DEF Cells
  <2> QED
    BY <1>0, <1>d, <2>1 DEF Cells, window, counts
<1>3. AtWork'
  BY DEF StoreState, Export, Goto, AtWork, Kind, Avionics
<1>4. CountsAgree'
  BY <1>0, <1>d DEF CountsAgree, CountedOnce, One, Counter, Cell, window, counts
<1>5. Comparing'
  BY <1>0 DEF Comparing
<1>6. MaxCovers'
  <2>1. (\A h \in Height : data'[h] = data[h]) /\ data'["ALTITUDE_MAX"] = data["ALTITUDE_MAX"]
    BY <1>0, <1>d DEF Height, Cell, Shown
  <2> QED
    BY <1>0, <2>1 DEF MaxCovers
<1> QED
  BY <1>2, <1>3, <1>4, <1>5, <1>6

-----------------------------------------------------------------------------
(* The window.                                                             *)

\* No counter is above its bound.
LEMMA CountersBounded ==
  IInv => (\A c \in Cell : data[c] \in Content(c)) /\ eaten \in [Rate -> 0 .. MaxPackets]
<1> SUFFICES ASSUME IInv
             PROVE  (\A c \in Cell : data[c] \in Content(c)) /\ eaten \in [Rate -> 0 .. MaxPackets]
  OBVIOUS
<1> USE Bounds DEF IInv
<1>1. /\ data["TOTAL_RX_PACKET_CTR"] + data["CORRUPTED_PACKET_CTR"] <= packets
      /\ data["PACKET_CTR_ALL"] + eaten["PACKET_CTR_ALL"] <= data["TOTAL_RX_PACKET_CTR"]
      /\ data["PACKET_CTR_AV"] + eaten["PACKET_CTR_AV"] <= avPackets
      /\ packets \in Nat /\ packets <= MaxPackets /\ avPackets \in Nat /\ avPackets <= packets
  <2>1. /\ packets \in Nat /\ packets <= MaxPackets /\ avPackets \in Nat /\ avPackets <= packets
    BY DEF Cells
  <2> QED
    BY <2>1, CellTypes DEF CountsAgree, CountedOnce, One
<1>2. \A c \in Counter : data[c] \in 0 .. MaxPackets
  BY <1>1, CellTypes DEF Counter
<1>3. \A c \in Cell : data[c] \in Content(c)
  BY <1>2 DEF Cells, Loose, Content
<1>4. eaten["PACKET_CTR_ALL"] \in 0 .. MaxPackets /\ eaten["PACKET_CTR_AV"] \in 0 .. MaxPackets
  BY <1>1, CellTypes
<1>5. eaten \in [Rate -> 0 .. MaxPackets]
  BY <1>4 DEF Cells, Rate
<1> QED
  BY <1>3, <1>5

LEMMA ProceedType ==
  ASSUME Cells, NEW order, Proceed(order), Len(order) \in 1 .. 7,
         job = "reset" => Len(order) = 6
  PROVE  /\ job' \in {"idle", "refresh", "reset"} /\ place' \in 1 .. Len(RefreshOrder)
         /\ job' = "reset" => place' <= Len(dataToReset)
<1> DEFINE L == Len(order)
<1>1. /\ IF place < L THEN place' = place + 1 /\ job' = job ELSE place' = 1 /\ job' = "idle"
      /\ L \in 1 .. 7 /\ (job = "reset" => L = 6)
  BY DEF Proceed
<1>2. place \in Nat /\ place >= 1 /\ job \in {"idle", "refresh", "reset"}
      /\ Len(RefreshOrder) = 7 /\ Len(dataToReset) = 6
  BY Orders DEF Cells
<1> HIDE DEF L
<1> QED
  BY <1>1, <1>2

\* The refresh reads; only a rate and the announcement are taken as well.
LEMMA ReadKeeps ==
  ASSUME IInv, NEW c \in Panel, Read(c)
  PROVE  IInv'
<1> USE Bounds DEF IInv
<1>0. UNCHANGED <<data, worker, eaten, counts, overtaken>> /\ panel' = [panel EXCEPT ![c] = data[c]]
  BY DEF Read
<1>1. /\ job' \in {"idle", "refresh", "reset"} /\ place' \in 1 .. Len(RefreshOrder)
      /\ job' = "reset" => place' <= Len(dataToReset)
  BY ProceedType, Orders DEF Read, Reading
<1>2. data[c] \in Content(c)
  BY CountersBounded DEF Panel, Cell, Shown, Rate, Counter
<1>3. Cells'
  BY <1>0, <1>1, <1>2 DEF Cells, counts
<1>4. AtWork' /\ CountsAgree' /\ Comparing' /\ MaxCovers'
  BY <1>0 DEF AtWork, CountsAgree, CountedOnce, Comparing, Compared, MaxCovers, worker, counts
<1> QED
  BY <1>3, <1>4

LEMMA EatRateKeeps ==
  ASSUME IInv, NEW c \in Rate, EatRate(c)
  PROVE  IInv'
<1> USE Bounds DEF IInv
<1>0. /\ UNCHANGED <<worker, counts, overtaken>> /\ panel' = [panel EXCEPT ![c] = data[c]]
      /\ eaten' = [eaten EXCEPT ![c] = @ + data[c]] /\ data' = [data EXCEPT ![c] = 0]
  BY DEF EatRate
<1>1. /\ job' \in {"idle", "refresh", "reset"} /\ place' \in 1 .. Len(RefreshOrder)
      /\ job' = "reset" => place' <= Len(dataToReset)
  BY ProceedType, Orders DEF EatRate, Reading
<1>2. data[c] \in Content(c) /\ data[c] \in Nat /\ eaten[c] \in Nat /\ c \in Cell
  BY CountersBounded, CellTypes DEF Cell, Rate, Counter, Cells
<1>d. /\ DOMAIN data' = Cell /\ data'[c] = 0
      /\ \A x \in Cell : x # c => data'[x] = data[x]
  BY <1>0, <1>2 DEF Cells
<1>e. /\ eaten' \in [Rate -> Nat] /\ eaten'[c] = eaten[c] + data[c]
      /\ \A x \in Rate : x # c => eaten'[x] = eaten[x]
  BY <1>0, <1>2 DEF Cells
<1>3. Cells'
  <2>1. \A x \in Cell : data'[x] \in Loose(x)
    BY <1>d DEF Cells, Loose, Rate, Counter
  <2>2. DOMAIN panel' = Panel /\ \A x \in Panel : panel'[x] \in Content(x)
    BY <1>0, <1>2 DEF Cells
  <2> QED
    BY <1>0, <1>1, <1>d, <1>e, <2>1, <2>2 DEF Cells, counts
<1>4. CountsAgree'
  <2>1. CASE c = "PACKET_CTR_ALL"
    BY <2>1, <1>0, <1>d, <1>e, CellTypes
       DEF CountsAgree, CountedOnce, One, Cell, Counter, Rate, worker, counts
  <2>2. CASE c = "PACKET_CTR_AV"
    BY <2>2, <1>0, <1>d, <1>e, CellTypes
       DEF CountsAgree, CountedOnce, One, Cell, Counter, Rate, worker, counts
  <2> QED
    BY <2>1, <2>2 DEF Rate
<1>5. (\A h \in Height : data'[h] = data[h]) /\ data'["ALTITUDE_MAX"] = data["ALTITUDE_MAX"]
  BY <1>d DEF Height, Cell, Shown, Rate
<1>6. AtWork' /\ MaxCovers'
  BY <1>0, <1>5 DEF AtWork, Compared, MaxCovers, worker
<1>7. Comparing'
  BY <1>0, <1>5 DEF Comparing, Compared, Height, worker
<1> QED
  BY <1>3, <1>4, <1>6, <1>7

LEMMA EatAnnouncementKeeps ==
  ASSUME IInv, EatAnnouncement
  PROVE  IInv'
<1> USE Bounds DEF IInv
<1>0. /\ UNCHANGED <<worker, panel, eaten, counts, overtaken>>
      /\ data' = [data EXCEPT !["ALL_RECEIVED"] = 0]
      /\ job' \in {"idle", "refresh"} /\ place \in 1 .. 7 /\ RefreshOrder[place] = "ALL_RECEIVED"
      /\ place' = place + 1 \/ place' = 1
  BY Orders DEF EatAnnouncement, Cells, Reading
<1>1. place' \in 1 .. Len(RefreshOrder)
  <2>1. place # 7
    BY <1>0 DEF RefreshOrder
  <2> QED
    BY <1>0, <2>1, Orders
<1>d. /\ DOMAIN data' = Cell /\ data'["ALL_RECEIVED"] = 0
      /\ \A x \in Cell : x # "ALL_RECEIVED" => data'[x] = data[x]
  BY <1>0 DEF Cells, Cell
<1>3. Cells'
  <2>1. \A x \in Cell : data'[x] \in Loose(x)
    BY <1>d DEF Cells, Loose, Counter, Height
  <2> QED
    BY <1>0, <1>1, <1>d, <2>1 DEF Cells, counts
<1>4. CountsAgree'
  BY <1>0, <1>d DEF CountsAgree, CountedOnce, One, Cell, Counter, worker, counts
<1>5. (\A h \in Height : data'[h] = data[h]) /\ data'["ALTITUDE_MAX"] = data["ALTITUDE_MAX"]
  BY <1>d DEF Height, Cell, Shown
<1>6. AtWork' /\ MaxCovers'
  BY <1>0, <1>5 DEF AtWork, Compared, MaxCovers, worker
<1>7. Comparing'
  BY <1>0, <1>5 DEF Comparing, Compared, Height, worker
<1> QED
  BY <1>3, <1>4, <1>6, <1>7

\* What a reset clears is no rate; a height that is back when the maximum is
\* cleared is overtaken.
LEMMA ClearKeeps ==
  ASSUME IInv, Clear
  PROVE  IInv'
<1> USE Bounds DEF IInv
<1> DEFINE c == dataToReset[place]
<1>0. /\ UNCHANGED <<worker, panel, eaten, counts>> /\ data' = [data EXCEPT ![c] = 0]
      /\ overtaken' = IF c = "ALTITUDE_MAX" THEN {h \in Height : data[h] # 0} ELSE overtaken
  BY DEF Clear
<1>p. /\ job' \in {"idle", "refresh", "reset"} /\ place' \in 1 .. Len(RefreshOrder)
      /\ job' = "reset" => place' <= Len(dataToReset)
  BY ProceedType, Orders DEF Clear
<1>1. c \in {"CORRUPTED_PACKET_CTR", "GPS_ALTITUDE", "T_ALTITUDE", "ALTITUDE_MAX",
             "ALL_RECEIVED", "STATUS_AV_STATE"}
  <2>1. place \in 1 .. 6
    BY Orders DEF Clear, Cells
  <2> QED
    BY <2>1, Orders
<1> HIDE DEF c
<1>d. /\ DOMAIN data' = Cell /\ data'[c] = 0 /\ c \in Cell
      /\ \A x \in Cell : x # c => data'[x] = data[x]
  BY <1>0, <1>1 DEF Cells, Cell, Counter, Shown, Height
<1>3. Cells'
  <2>1. \A x \in Cell : data'[x] \in Loose(x)
    BY <1>1, <1>d DEF Cells, Loose, Counter, Height
  <2>2. overtaken' \subseteq Height
    BY <1>0 DEF Cells
  <2> QED
    BY <1>0, <1>p, <1>d, <2>1, <2>2 DEF Cells, counts
<1>4. CountsAgree'
  <2>1. /\ data'["TOTAL_RX_PACKET_CTR"] = data["TOTAL_RX_PACKET_CTR"]
        /\ data'["PACKET_CTR_ALL"] = data["PACKET_CTR_ALL"]
        /\ data'["PACKET_CTR_AV"] = data["PACKET_CTR_AV"]
        /\ data'["CORRUPTED_PACKET_CTR"] \in {0, data["CORRUPTED_PACKET_CTR"]}
    BY <1>1, <1>d DEF Cell, Counter
  <2>2. packets \in Nat
    BY DEF Cells
  <2> QED
    BY <1>0, <2>1, <2>2, CellTypes DEF CountsAgree, CountedOnce, One, worker, counts
<1>5. AtWork'
  BY <1>0 DEF AtWork, worker
<1>h. /\ \A h \in Height : data'[h] \in {0, data[h]} /\ data[h] \in Nat
      /\ data["ALTITUDE_MAX"] \in Nat /\ data'["ALTITUDE_MAX"] \in {0, data["ALTITUDE_MAX"]}
  BY <1>d, HeightTypes DEF Height, Cell, Shown
<1>6. Comparing'
  <2>1. step' = step /\ value' = value /\ Compared' = Compared
    BY <1>0 DEF worker, Compared
  <2>2. step = "ALTITUDE_MAX" => value \in Nat \ {0}
    BY DEF AtWork
  <2>3. Compared \in Height
    BY DEF Compared, Height
  <2> QED
    BY <1>h, <2>1, <2>2, <2>3 DEF Comparing
<1>7. MaxCovers'
  <2>1. step' = step /\ Compared' = Compared
    BY <1>0 DEF worker, Compared
  <2>2. CASE c = "ALTITUDE_MAX"
    <3>1. \A h \in Height : data'[h] = data[h] /\ (h \notin overtaken' => data[h] = 0)
      BY <2>2, <1>0, <1>d DEF Height, Cell
    <3> QED
      BY <2>2, <3>1, <1>d, <1>h DEF MaxCovers
  <2>3. CASE c # "ALTITUDE_MAX"
    <3>1. overtaken' = overtaken /\ data'["ALTITUDE_MAX"] = data["ALTITUDE_MAX"]
      BY <2>3, <1>0, <1>d DEF Cell, Shown
    <3> QED
      BY <2>1, <3>1, <1>h DEF MaxCovers
  <2> QED
    BY <2>2, <2>3
<1> QED
  BY <1>3, <1>4, <1>5, <1>6, <1>7

\* Starting a refresh or a reset, or nothing at all, changes no cell.
LEMMA IdleKeeps ==
  ASSUME IInv, Refresh \/ PressReset \/ UNCHANGED vars
  PROVE  IInv'
<1> USE Bounds DEF IInv
<1>1. UNCHANGED <<data, worker, panel, eaten, packets, avPackets, pictures, overtaken>>
  BY DEF Refresh, PressReset, vars, window, counts
<1>2. /\ job' \in {"idle", "refresh", "reset"} /\ place' \in 1 .. Len(RefreshOrder)
      /\ job' = "reset" => place' <= Len(dataToReset)
      /\ resets' \in 0 .. MaxResets
  BY Orders DEF Refresh, PressReset, vars, window, counts, Cells
<1>3. Cells'
  BY <1>1, <1>2 DEF Cells
<1>4. AtWork' /\ CountsAgree' /\ Comparing' /\ MaxCovers'
  BY <1>1 DEF AtWork, CountsAgree, CountedOnce, Comparing, Compared, MaxCovers, worker
<1> QED
  BY <1>3, <1>4

-----------------------------------------------------------------------------
(* The theorems.                                                           *)

LEMMA NextIInv == IInv /\ [Next]_vars => IInv'
<1> SUFFICES ASSUME IInv, [Next]_vars PROVE IInv'
  OBVIOUS
<1>1. CASE Receive
  BY <1>1, BeginKeeps
<1>2. CASE Handle
  BY <1>2, CountKeeps, StoreHeightKeeps, CompareKeeps, RaiseKeeps, StoreKeeps DEF Handle
<1>3. CASE Window
  <2>1. CASE Refresh
    BY <2>1, IdleKeeps
  <2>2. CASE EatAnnouncement
    BY <2>2, EatAnnouncementKeeps
  <2>3. CASE Clear
    BY <2>3, ClearKeeps
  <2>4. CASE \E c \in Shown \cup {"imgPLfilename"} : Read(c)
    BY <2>4, ReadKeeps DEF Panel
  <2>5. CASE \E c \in Rate : EatRate(c)
    BY <2>5, EatRateKeeps
  <2> QED
    BY <1>3, <2>1, <2>2, <2>3, <2>4, <2>5 DEF Window
<1>4. CASE PressReset \/ UNCHANGED vars
  BY <1>4, IdleKeeps
<1> QED
  BY <1>1, <1>2, <1>3, <1>4 DEF Next

LEMMA AlwaysIInv == Spec => []IInv
BY InitIInv, NextIInv, PTL DEF Spec

\* Type correctness of the board, the Worker and the window, whatever the
\* heights, the states and the bounds.
THEOREM BoardTypeCorrect == Spec => []TypeOK
<1>1. IInv => TypeOK
  <2> SUFFICES ASSUME IInv PROVE TypeOK
    OBVIOUS
  <2> USE Bounds DEF IInv
  <2>1. (\A c \in Cell : data[c] \in Content(c)) /\ eaten \in [Rate -> 0 .. MaxPackets]
    BY CountersBounded
  <2>2. step \in Cell \cup {"compare", "idle"}
    BY DEF AtWork, Cell, Counter, Shown, Height
  <2>3. kind \in Kind /\ value \in Heights \cup States \cup 0 .. MaxPictures
    BY DEF AtWork
  <2> QED
    BY <2>1, <2>2, <2>3 DEF TypeOK, Cells
<1> QED
  BY <1>1, AlwaysIInv, PTL

\* However the window's taking of the counters falls between the Worker's
\* increments, each packet is in each of its rates once.
THEOREM PacketsAreCountedOnce == Spec => []CountedOnce
<1>1. IInv => CountedOnce
  BY DEF IInv, CountsAgree
<1> QED
  BY <1>1, AlwaysIInv, PTL

\* The maximum covers the heights on the board, but in the middle of a packet
\* and after a reset that was overtaken by one.
THEOREM MaximumCoversHeights == Spec => []MaxCovers
<1>1. IInv => MaxCovers
  BY DEF IInv
<1> QED
  BY <1>1, AlwaysIInv, PTL
=============================================================================
