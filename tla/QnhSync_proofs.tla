--------------------------- MODULE QnhSync_proofs ---------------------------
(***************************************************************************)
(* For every range of the panel, number of buffers, rate of broadcasts and *)
(* set of settings that other nodes and the serial line may bring: unless  *)
(* a frame was lost the monitor knows the setting in force, and only a     *)
(* node unknown to both can take the instruments out of their range.  For  *)
(* every schedule, interval and wave length of the mock: its values keep   *)
(* to their scales, and its speeds address no setting of another node.     *)
(***************************************************************************)
EXTENDS QnhSync, CanMock, TLAPS

SeqTypeOK == /\ instRx \in Seq(Int) /\ panelRx \in Seq(Int) /\ qnhPa \in Int

\* The setting the monitor will know once it has emptied its chip.
Known == IF panelRx = <<>> THEN receivedQnh ELSE panelRx[Len(panelRx)]

\* Unless a frame was lost or one still waits to be taken, that is the setting in force.
KnownIsInForce == ~missed /\ instRx = <<>> => Known = Hpa(qnhPa)

----------------------------------------------------------------------------
LEMMA HpaType == ASSUME NEW pa \in Int PROVE Hpa(pa) \in Int
<1>1. ASSUME NEW x \in Int, NEW w \in Nat \ {0} PROVE x % w \in Int
  OBVIOUS
<1>2. (pa + 50) \div 100 \in Int /\ 256 * 256 \in Nat \ {0}
  OBVIOUS
<1>3. QED
  BY <1>1, <1>2, Zenon DEF Hpa

\* The frame appended last is the one known in the end.
LEMMA AppendKnown ==
  ASSUME NEW s \in Seq(Int), NEW e \in Int
  PROVE  /\ Append(s, e) \in Seq(Int) /\ Append(s, e) # <<>>
         /\ Append(s, e)[Len(Append(s, e))] = e
  OBVIOUS

\* Taking a frame out of the chip does not change what will be known.
LEMMA TakeKnown ==
  ASSUME NEW s \in Seq(Int), s # <<>>
  PROVE  /\ Tail(s) \in Seq(Int) /\ Head(s) \in Int
         /\ Tail(s) = <<>> => Head(s) = s[Len(s)]
         /\ Tail(s) # <<>> => Tail(s)[Len(Tail(s))] = s[Len(s)]
<1>1. /\ Tail(s) \in Seq(Int) /\ Head(s) \in Int /\ Len(s) \in Nat /\ Len(s) > 0
      /\ Len(Tail(s)) = Len(s) - 1 /\ Head(s) = s[1]
  OBVIOUS
<1>2. Tail(s) = <<>> => Len(s) = 1
  BY <1>1
<1>3. ASSUME Tail(s) # <<>> PROVE Tail(s)[Len(Tail(s))] = s[Len(s)]
  <2>1. Len(Tail(s)) \in 1 .. Len(s) - 1
    BY <1>1, <1>3
  <2>2. \A i \in 1 .. Len(s) - 1 : Tail(s)[i] = s[i + 1]
    OBVIOUS
  <2>3. QED
    BY <1>1, <2>1, <2>2
<1>4. QED
  BY <1>1, <1>2, <1>3

LEMMA ToInstrumentsEffect ==
  ASSUME SeqTypeOK, NEW e \in Int, ToInstruments(e)
  PROVE  instRx' \in Seq(Int) /\ (instRx' = instRx \/ instRx' # <<>>)
  BY AppendKnown DEF ToInstruments, SeqTypeOK

\* A broadcast arrives, and is then the last frame in the monitor's chip, or is missed.
LEMMA BroadcastEffect ==
  ASSUME SeqTypeOK, NEW ready, NEW pa \in Int, broadcastQnh(ready, pa)
  PROVE  /\ panelRx' \in Seq(Int)
         /\ missed' \/ (panelRx' # <<>> /\ panelRx'[Len(panelRx')] = Hpa(pa))
  BY HpaType, AppendKnown DEF broadcastQnh, SeqTypeOK

AgreeInv == SeqTypeOK /\ setupQnh \in Int /\ receivedQnh \in Int /\ KnownIsInForce

\* A step in which the instruments take a setting or tell the one in force.
LEMMA ToldStep ==
  ASSUME AgreeInv, NEW ready, instRx' \in Seq(Int), qnhPa' \in Int, broadcastQnh(ready, qnhPa'),
         UNCHANGED <<setupQnh, receivedQnh>>
  PROVE  AgreeInv'
<1>1. /\ panelRx' \in Seq(Int)
      /\ missed' \/ (panelRx' # <<>> /\ panelRx'[Len(panelRx')] = Hpa(qnhPa'))
  BY BroadcastEffect DEF AgreeInv
<1>2. KnownIsInForce'
  BY <1>1 DEF KnownIsInForce, Known, Hpa
<1>3. QED
  BY <1>1, <1>2 DEF AgreeInv, SeqTypeOK

\* A step in which only the chip of the instruments may come to hold more.
LEMMA QuietStep ==
  ASSUME AgreeInv, instRx' \in Seq(Int), instRx' = instRx \/ instRx' # <<>>,
         setupQnh' \in Int, UNCHANGED <<receivedQnh, panelRx, missed, qnhPa>>
  PROVE  AgreeInv'
  BY DEF AgreeInv, SeqTypeOK, KnownIsInForce, Known, Hpa

\* A frame the monitor takes out of its chip is the setting it knows from then on.
LEMMA HearsStep == ASSUME AgreeInv, PanelHears PROVE AgreeInv'
<1>1. /\ panelRx \in Seq(Int) /\ panelRx # <<>>
      /\ receivedQnh' = Head(panelRx) /\ panelRx' = Tail(panelRx)
      /\ UNCHANGED <<setupQnh, instRx, qnhPa, missed>>
  BY DEF AgreeInv, SeqTypeOK, PanelHears, Hear, instRest
<1>2. Known' = Known
  BY <1>1, TakeKnown DEF Known
<1>3. receivedQnh' \in Int /\ panelRx' \in Seq(Int)
  BY <1>1, TakeKnown
<1>4. KnownIsInForce'
  BY <1>1, <1>2 DEF AgreeInv, KnownIsInForce, Hpa
<1>5. QED
  BY <1>1, <1>3, <1>4 DEF AgreeInv, SeqTypeOK

\* A setting of another node that both hear is answered; one that only the monitor hears is missed.
LEMMA StrayStep == ASSUME AgreeInv, NEW q \in Int, Stray(q) PROVE AgreeInv'
<1>1. instRx' \in Seq(Int) /\ (instRx' = instRx \/ instRx' # <<>>)
  BY ToInstrumentsEffect DEF AgreeInv, Stray
<1>2. UNCHANGED <<setupQnh, receivedQnh, qnhPa>>
  BY DEF Stray, panelVars, instRest
<1>3. \/ panelRx' = Append(panelRx, q) /\ missed' = (missed \/ instRx' = instRx)
      \/ UNCHANGED <<panelRx, missed>>
  BY DEF Stray
<1>4. CASE UNCHANGED <<panelRx, missed>>
  BY <1>1, <1>2, <1>4, QuietStep DEF AgreeInv
<1>5. CASE panelRx' = Append(panelRx, q) /\ missed' = (missed \/ instRx' = instRx)
  <2>1. panelRx' \in Seq(Int)
    BY <1>5, AppendKnown DEF AgreeInv, SeqTypeOK
  <2>2. missed' \/ instRx' # <<>>
    BY <1>1, <1>5
  <2>3. KnownIsInForce'
    BY <2>2 DEF KnownIsInForce
  <2>4. QED
    BY <1>1, <1>2, <2>1, <2>3 DEF AgreeInv, SeqTypeOK
<1>6. QED
  BY <1>3, <1>4, <1>5

\* The instruments start again, with their default, and tell it.
LEMMA SetupStep ==
  ASSUME SyncAssumption, AgreeInv, Setup, UNCHANGED <<setupQnh, receivedQnh>> PROVE AgreeInv'
<1>1. qnhPa' = DefaultPa /\ DefaultPa \in Int /\ instRx' = <<>>
  BY DEF Setup, SyncAssumption, InstrumentAssumption
<1>2. broadcastQnh(canReady', qnhPa') /\ instRx' \in Seq(Int)
  BY <1>1 DEF Setup
<1>3. QED
  BY <1>1, <1>2, ToldStep

\* A setting from the bus is told on when it is taken.
LEMMA IncomingStep ==
  ASSUME SyncAssumption, AgreeInv, Incoming, UNCHANGED <<setupQnh, receivedQnh>> PROVE AgreeInv'
<1>1. CASE instRx # <<>> /\ applyQnh(100 * Head(instRx)) /\ instRx' = Tail(instRx)
  <2>1. instRx' \in Seq(Int) /\ 100 * Head(instRx) \in Int
    BY <1>1, TakeKnown DEF AgreeInv, SeqTypeOK
  <2>2. qnhPa' = 100 * Head(instRx) /\ broadcastQnh(canReady, qnhPa')
    BY <1>1 DEF applyQnh
  <2>3. QED
    BY <2>1, <2>2, ToldStep
<1>2. CASE Setup
  BY <1>2, SetupStep
<1>3. CASE UNCHANGED <<qnhPa, instRx, panelRx, missed>>
  BY <1>3, QuietStep DEF AgreeInv, SeqTypeOK
<1>4. QED
  BY <1>1, <1>2, <1>3 DEF Incoming

\* The periodic broadcast tells the setting in force; any other interval tells nothing.
LEMMA IntervalStep == ASSUME AgreeInv, Interval, UNCHANGED <<setupQnh, receivedQnh>> PROVE AgreeInv'
<1>1. UNCHANGED <<qnhPa, instRx>> /\ (broadcastQnh(TRUE, qnhPa) \/ UNCHANGED <<panelRx, missed>>)
  BY DEF Interval
<1>2. CASE broadcastQnh(TRUE, qnhPa)
  <2>1. broadcastQnh(TRUE, qnhPa')
    BY <1>1, <1>2 DEF broadcastQnh
  <2>2. QED
    BY <1>1, <2>1, ToldStep DEF AgreeInv, SeqTypeOK
<1>3. CASE UNCHANGED <<panelRx, missed>>
  BY <1>1, <1>3, QuietStep DEF AgreeInv, SeqTypeOK
<1>4. QED
  BY <1>1, <1>2, <1>3

\* Whatever the panel sends, and a reset by the host, only ever waits in the instruments' chip.
LEMMA PanelStep ==
  ASSUME SyncAssumption, AgreeInv, PanelOpens \/ PanelDials \/ PanelCloses \/ HostResets PROVE AgreeInv'
<1>1. OpenedWith \in Int /\ \A d \in {-1, 1} : Dialled(d) \in Int
  BY DEF AgreeInv, OpenedWith, Dialled, SyncAssumption
<1>2. CASE PanelOpens
  <2>1. setupQnh' \in Int /\ sentQnh' \in Int /\ ToInstruments(sentQnh')
        /\ UNCHANGED <<receivedQnh, panelRx, missed, qnhPa>>
    BY <1>1, <1>2 DEF PanelOpens, Open, instRest
  <2>2. QED
    BY <2>1, ToInstrumentsEffect, QuietStep DEF AgreeInv
<1>3. CASE PanelDials
  <2>1. setupQnh' \in Int /\ sentQnh' \in Int /\ ToInstruments(sentQnh')
        /\ UNCHANGED <<receivedQnh, panelRx, missed, qnhPa>>
    BY <1>1, <1>3 DEF PanelDials, Dial, instRest
  <2>2. QED
    BY <2>1, ToInstrumentsEffect, QuietStep DEF AgreeInv
<1>4. CASE PanelCloses
  BY <1>4, QuietStep DEF PanelCloses, Close, instVars, AgreeInv, SeqTypeOK
<1>5. CASE HostResets
  <2>1. ToInstruments(-1) /\ UNCHANGED <<setupQnh, receivedQnh, panelRx, missed, qnhPa>>
    BY <1>5 DEF HostResets, SysReset, panelVars, instRest
  <2>2. QED
    BY <2>1, ToInstrumentsEffect, QuietStep DEF AgreeInv
<1>6. QED
  BY <1>2, <1>3, <1>4, <1>5

\* After RESET or power loss the monitor has missed whatever it had been told.
LEMMA BootsStep == ASSUME SyncAssumption, AgreeInv, PanelBoots PROVE AgreeInv'
<1>1. /\ setupQnh' \in Int /\ receivedQnh' \in Int /\ panelRx' \in Seq(Int) /\ missed'
      /\ UNCHANGED <<qnhPa, instRx>>
  BY DEF PanelBoots, Boot, instRest, SyncAssumption
<1>2. QED
  BY <1>1 DEF AgreeInv, SeqTypeOK, KnownIsInForce

LEMMA AgreeStart == ASSUME SyncAssumption, SyncInit PROVE AgreeInv
  BY DEF SyncInit, PanelInit, InstInit, AgreeInv, SeqTypeOK, KnownIsInForce, SyncAssumption,
         InstrumentAssumption

LEMMA AgreeStep == ASSUME SyncAssumption, AgreeInv, [SyncNext]_syncVars PROVE AgreeInv'
<1>1. CASE PanelOpens \/ PanelDials \/ PanelCloses \/ HostResets
  BY <1>1, PanelStep
<1>2. CASE PanelHears
  BY <1>2, HearsStep
<1>3. CASE PanelBoots
  BY <1>3, BootsStep
<1>4. ASSUME NEW q \in StraySettings, Stray(q) PROVE AgreeInv'
  BY <1>4, StrayStep DEF SyncAssumption
<1>5. CASE OnInstruments(Setup)
  BY <1>5, SetupStep DEF OnInstruments, panelVars
<1>6. ASSUME NEW pa \in SerialSettings, OnInstruments(SerialLine(pa)) PROVE AgreeInv'
  <2>1. pa \in Int
    BY DEF SyncAssumption, InstrumentAssumption
  <2>2. qnhPa' = pa /\ broadcastQnh(canReady, qnhPa') /\ UNCHANGED <<instRx, setupQnh, receivedQnh>>
    BY <1>6 DEF OnInstruments, SerialLine, applyQnh, panelVars
  <2>3. QED
    BY <2>1, <2>2, ToldStep DEF AgreeInv, SeqTypeOK
<1>7. CASE OnInstruments(Incoming)
  BY <1>7, IncomingStep DEF OnInstruments, panelVars
<1>8. CASE OnInstruments(Interval)
  BY <1>8, IntervalStep DEF OnInstruments, panelVars
<1>9. CASE OnInstruments(SerialDone \/ NotYet)
  BY <1>9, QuietStep DEF OnInstruments, SerialDone, NotYet, panelVars, AgreeInv, SeqTypeOK
<1>10. CASE UNCHANGED syncVars
  BY <1>10, QuietStep DEF syncVars, panelVars, instVars, AgreeInv, SeqTypeOK
<1>11. QED
  BY <1>1, <1>2, <1>3, <1>4, <1>5, <1>6, <1>7, <1>8, <1>9, <1>10
     DEF SyncNext, User, InstrumentLoop, OnInstruments

----------------------------------------------------------------------------
\* As the instruments tell every setting they take (main.cpp:69), the monitor knows the one in
\* force as soon as both have emptied their chips, unless the frame that told it was lost.
THEOREM Agreement == ASSUME SyncAssumption PROVE SyncSpec => []NoLossNoDisagreement
<1>1. SyncInit => AgreeInv
  BY AgreeStart
<1>2. AgreeInv /\ [SyncNext]_syncVars => AgreeInv'
  BY AgreeStep
<1>3. AgreeInv => NoLossNoDisagreement
  BY DEF AgreeInv, KnownIsInForce, Known, NoLossNoDisagreement, Settled
<1>4. QED
  BY <1>1, <1>2, <1>3, PTL DEF SyncSpec

\* Opening the screen sends a setting at once (main.cpp:718): the one in force, if the monitor can
\* know it and could have dialled it.
THEOREM OpeningIsHarmless == ASSUME SyncAssumption PROVE SyncSpec => OpeningKeepsSetting
<1> DEFINE Keeps == ~editing /\ editing' /\ Settled /\ InPanelRange(Hpa(qnhPa))
                    => sentQnh' = Hpa(qnhPa)
<1>1. SyncInit => AgreeInv
  BY AgreeStart
<1>2. AgreeInv /\ [SyncNext]_syncVars => AgreeInv'
  BY AgreeStep
<1>3. ASSUME AgreeInv, SyncNext, ~editing, editing', Settled, InPanelRange(Hpa(qnhPa))
      PROVE  sentQnh' = Hpa(qnhPa)
  <2>1. editing' # editing
    BY <1>3
  <2>2. ASSUME PanelDials \/ PanelHears \/ HostResets \/ (\E q \in StraySettings : Stray(q))
               \/ OnInstruments(Setup) \/ (\E pa \in SerialSettings : OnInstruments(SerialLine(pa)))
               \/ OnInstruments(InstrumentLoop)
        PROVE  editing' = editing
    BY <2>2, Zenon DEF PanelDials, Dial, PanelHears, Hear, HostResets, Stray, OnInstruments, panelVars
  <2>3. ~PanelCloses /\ ~PanelBoots
    BY <1>3, Zenon DEF PanelCloses, Close, PanelBoots, Boot
  <2>4. PanelOpens
    BY <1>3, <2>1, <2>2, <2>3, Zenon DEF SyncNext, User
  <2>5. receivedQnh = Hpa(qnhPa)
    BY <1>3 DEF AgreeInv, KnownIsInForce, Known, Settled
  <2>6. QED
    BY <1>3, <2>4, <2>5 DEF PanelOpens, Open, OpenedWith
<1>4. AgreeInv /\ [SyncNext]_syncVars => [Keeps]_syncVars
  BY <1>3
<1>5. QED
  BY <1>1, <1>2, <1>4, PTL DEF SyncSpec, OpeningKeepsSetting

----------------------------------------------------------------------------
\* What the panel sends is in its range, which the assumption puts within the instruments'; so are
\* the default and what the serial line brings, which only a setting of another node can miss.
Sendable(e) == e = SysReset \/ e \in QnhMin .. QnhMax

RangeInv == /\ instRx \in Seq(Int) /\ receivedQnh \in Int /\ setupQnh \in QnhMin .. QnhMax
            /\ ~foreign => InRange(qnhPa) /\ \A i \in 1 .. Len(instRx) : Sendable(instRx[i])

\* A step in which the panel or the host may send, and the instruments take nothing.
LEMMA RangeSends ==
  ASSUME RangeInv, NEW e \in Int, ToInstruments(e), Sendable(e), setupQnh' \in QnhMin .. QnhMax,
         UNCHANGED <<receivedQnh, qnhPa, foreign>>
  PROVE  RangeInv'
<1>1. foreign' = foreign /\ InRange(qnhPa)' = InRange(qnhPa)
  BY DEF InRange
<1>2. CASE instRx' = instRx
  BY <1>1, <1>2 DEF RangeInv, Sendable, SysReset
<1>3. CASE instRx' = Append(instRx, e)
  <2>1. instRx' \in Seq(Int) /\ Len(instRx') = Len(instRx) + 1 /\ instRx'[Len(instRx) + 1] = e
        /\ Len(instRx) \in Nat /\ \A i \in 1 .. Len(instRx) : instRx'[i] = instRx[i]
    BY <1>3 DEF RangeInv
  <2>2. ASSUME ~foreign, NEW i \in 1 .. Len(instRx') PROVE Sendable(instRx'[i])
    <3>1. i \in 1 .. Len(instRx) \/ i = Len(instRx) + 1
      BY <2>1, <2>2
    <3>2. QED
      BY <2>1, <2>2, <3>1 DEF RangeInv
  <2>3. ASSUME ~foreign PROVE \A i \in 1 .. Len(instRx') : Sendable(instRx[i])'
    BY <2>2, <2>3 DEF Sendable, SysReset
  <2>4. QED
    BY <1>1, <2>1, <2>3 DEF RangeInv
<1>4. QED
  BY <1>2, <1>3 DEF ToInstruments

\* A step that leaves the panel alone and takes frames out of the instruments' chip, at most.
LEMMA RangeTakes ==
  ASSUME RangeInv, UNCHANGED <<setupQnh, foreign>>, receivedQnh' \in Int,
         instRx' = instRx \/ instRx' = <<>> \/ (instRx # <<>> /\ instRx' = Tail(instRx)),
         ~foreign => InRange(qnhPa')
  PROVE  RangeInv'
<1>1. instRx' \in Seq(Int)
  <2>1. instRx \in Seq(Int) /\ <<>> \in Seq(Int)
    BY DEF RangeInv
  <2>2. instRx # <<>> => Tail(instRx) \in Seq(Int)
    BY <2>1, TakeKnown
  <2>3. QED
    BY <2>1, <2>2, Zenon
<1>2. ASSUME ~foreign, NEW i \in 1 .. Len(instRx') PROVE Sendable(instRx'[i])
  <2>1. CASE instRx' = instRx
    BY <1>2, <2>1 DEF RangeInv
  <2>2. CASE instRx' = <<>>
    BY <1>2, <2>2
  <2>3. CASE instRx # <<>> /\ instRx' = Tail(instRx)
    <3>1. i + 1 \in 1 .. Len(instRx) /\ instRx'[i] = instRx[i + 1]
      BY <1>2, <2>3 DEF RangeInv
    <3>2. QED
      BY <1>2, <3>1 DEF RangeInv
  <2>4. QED
    BY <2>1, <2>2, <2>3
<1>3. ASSUME ~foreign PROVE InRange(qnhPa)' /\ \A i \in 1 .. Len(instRx') : Sendable(instRx[i])'
  <2>1. InRange(qnhPa)'
    BY <1>3 DEF InRange
  <2>2. QED
    BY <1>2, <1>3, <2>1 DEF Sendable, SysReset
<1>4. QED
  BY <1>1, <1>3 DEF RangeInv

LEMMA RangePanel ==
  ASSUME SyncAssumption, RangeInv,
         PanelOpens \/ PanelDials \/ PanelCloses \/ PanelHears \/ PanelBoots \/ HostResets,
         panelRx \in Seq(Int)
  PROVE  RangeInv'
<1>1. OpenedWith \in QnhMin .. QnhMax /\ \A d \in {-1, 1} : Dialled(d) \in QnhMin .. QnhMax
  BY DEF RangeInv, OpenedWith, InPanelRange, Dialled, SyncAssumption
<1>2. \A e \in QnhMin .. QnhMax : e \in Int /\ Sendable(e)
  BY DEF SyncAssumption, Sendable
<1>3. CASE PanelOpens \/ PanelDials
  <2>1. setupQnh' \in QnhMin .. QnhMax /\ sentQnh' = setupQnh' /\ ToInstruments(sentQnh')
        /\ UNCHANGED <<receivedQnh, qnhPa, foreign>>
    BY <1>1, <1>3, Zenon DEF PanelOpens, Open, PanelDials, Dial, instRest
  <2>2. QED
    BY <1>2, <2>1, RangeSends
<1>4. CASE HostResets
  <2>1. ToInstruments(-1) /\ Sendable(-1) /\ UNCHANGED <<setupQnh, receivedQnh, qnhPa, foreign>>
    BY <1>4 DEF HostResets, SysReset, Sendable, panelVars, instRest
  <2>2. QED
    BY <2>1, RangeSends DEF RangeInv
<1>5. CASE PanelCloses \/ PanelHears
  <2>1. UNCHANGED <<setupQnh, foreign, qnhPa, instRx>>
    BY <1>5, Zenon DEF PanelCloses, Close, PanelHears, Hear, instVars, instRest
  <2>2. receivedQnh' \in Int
    BY <1>5, TakeKnown DEF PanelCloses, Close, PanelHears, Hear, RangeInv
  <2>3. QED
    BY <2>1, <2>2, RangeTakes DEF RangeInv
<1>6. CASE PanelBoots
  <2>1. setupQnh' \in QnhMin .. QnhMax /\ receivedQnh' \in Int /\ UNCHANGED <<foreign, qnhPa, instRx>>
    BY <1>6 DEF PanelBoots, Boot, instRest, SyncAssumption
  <2>2. InRange(qnhPa)' = InRange(qnhPa)
    BY <2>1 DEF InRange
  <2>3. QED
    BY <2>1, <2>2 DEF RangeInv, Sendable, SysReset
<1>7. QED
  BY <1>3, <1>4, <1>5, <1>6

LEMMA RangeInstruments ==
  ASSUME SyncAssumption, RangeInv, UNCHANGED <<panelVars, foreign>>,
         Setup \/ (\E pa \in SerialSettings : SerialLine(pa)) \/ InstrumentLoop
  PROVE  RangeInv'
<1>1. setupQnh' = setupQnh /\ receivedQnh' = receivedQnh /\ foreign' = foreign /\ receivedQnh' \in Int
  BY DEF panelVars, RangeInv
<1>2. CASE Setup
  <2>1. qnhPa' = DefaultPa /\ instRx' = <<>> /\ InRange(DefaultPa)
    BY <1>2 DEF Setup, SyncAssumption
  <2>2. QED
    BY <1>1, <2>1, RangeTakes
<1>3. ASSUME NEW pa \in SerialSettings, SerialLine(pa) PROVE RangeInv'
  <2>1. qnhPa' = pa /\ instRx' = instRx /\ InRange(pa)
    BY <1>3, Zenon DEF SerialLine, applyQnh
  <2>2. QED
    BY <1>1, <2>1, RangeTakes
<1>4. ASSUME instRx # <<>>, Head(instRx) # SysReset, applyQnh(100 * Head(instRx)),
             instRx' = Tail(instRx)
      PROVE  RangeInv'
  <2>1. qnhPa' = 100 * Head(instRx)
    BY <1>4 DEF applyQnh
  <2>2. ASSUME ~foreign PROVE InRange(100 * Head(instRx))
    <3>1. Sendable(Head(instRx))
      BY <1>4, <2>2 DEF RangeInv
    <3>2. QED
      BY <1>4, <3>1 DEF Sendable, SyncAssumption
  <2>3. QED
    BY <1>1, <1>4, <2>1, <2>2, RangeTakes
<1>5. CASE UNCHANGED <<qnhPa, instRx>>
  BY <1>1, <1>5, RangeTakes DEF RangeInv
<1>6. Incoming => Setup \/ UNCHANGED <<qnhPa, instRx>>
                  \/ (/\ instRx # <<>> /\ Head(instRx) # SysReset
                      /\ applyQnh(100 * Head(instRx)) /\ instRx' = Tail(instRx))
  BY Zenon DEF Incoming
<1>7. SerialDone \/ Interval \/ NotYet => UNCHANGED <<qnhPa, instRx>>
  BY Zenon DEF SerialDone, Interval, NotYet
<1>8. QED
  BY <1>2, <1>3, <1>4, <1>5, <1>6, <1>7 DEF InstrumentLoop

LEMMA RangeStart == ASSUME SyncAssumption, SyncInit PROVE RangeInv
  BY DEF SyncInit, PanelInit, InstInit, RangeInv, SyncAssumption

\* A setting of another node that reached the instruments ends the obligation.
LEMMA RangeStep ==
  ASSUME SyncAssumption, AgreeInv, RangeInv, [SyncNext]_syncVars PROVE RangeInv'
<1>1. CASE PanelOpens \/ PanelDials \/ PanelCloses \/ PanelHears \/ PanelBoots \/ HostResets
  BY <1>1, RangePanel DEF AgreeInv, SeqTypeOK
<1>2. CASE OnInstruments(Setup) \/ (\E pa \in SerialSettings : OnInstruments(SerialLine(pa)))
           \/ OnInstruments(InstrumentLoop)
  BY <1>2, RangeInstruments DEF OnInstruments
<1>3. ASSUME NEW q \in StraySettings, Stray(q) PROVE RangeInv'
  <2>1. UNCHANGED <<setupQnh, receivedQnh, qnhPa>> /\ ToInstruments(q) /\ q \in Int
    BY <1>3 DEF Stray, panelVars, instRest, SyncAssumption
  <2>2. foreign' <=> foreign \/ instRx' # instRx
    BY <1>3, Zenon DEF Stray
  <2>3. CASE instRx' = instRx
    <3>1. InRange(qnhPa)' = InRange(qnhPa)
      BY <2>1 DEF InRange
    <3>2. QED
      BY <2>1, <2>2, <2>3, <3>1 DEF RangeInv, Sendable, SysReset
  <2>4. CASE instRx' # instRx
    BY <2>1, <2>2, <2>4, ToInstrumentsEffect DEF RangeInv, AgreeInv
  <2>5. QED
    BY <2>3, <2>4
<1>4. CASE UNCHANGED syncVars
  <2>1. UNCHANGED <<setupQnh, receivedQnh, foreign, qnhPa, instRx>>
    BY <1>4 DEF syncVars, panelVars, instVars
  <2>2. QED
    BY <2>1, RangeTakes DEF RangeInv
<1>5. QED
  BY <1>1, <1>2, <1>3, <1>4 DEF SyncNext, User

\* The instruments take a setting of the bus as it is (main.cpp:136), and still never use one
\* that their serial line would refuse, as long as only this panel sends them.
THEOREM RangeRestsOnSenders == ASSUME SyncAssumption PROVE SyncSpec => []InstrumentQnhInRange
<1>1. SyncInit => AgreeInv /\ RangeInv
  BY AgreeStart, RangeStart
<1>2. AgreeInv /\ RangeInv /\ [SyncNext]_syncVars => AgreeInv' /\ RangeInv'
  BY AgreeStep, RangeStep
<1>3. RangeInv => InstrumentQnhInRange
  <2>1. RangeInv => (~foreign => InRange(qnhPa))
    BY DEF RangeInv
  <2>2. QED
    BY <2>1 DEF InRange, InstrumentQnhInRange
<1>4. QED
  BY <1>1, <1>2, <1>3, PTL DEF SyncSpec

----------------------------------------------------------------------------
(***************************************************************************)
(* The mock.                                                               *)
(***************************************************************************)
Steps == 0 .. 2 * Half - 1

\* A wave leaves its two ends nowhere, as what is added is at most the difference.
LEMMA TriangleRange ==
  ASSUME NEW s \in Steps, NEW low \in Nat, NEW high \in Nat, low <= high
  PROVE  triangleVal(s, low, high) \in low .. high
<1> DEFINE up == IF s <= Half THEN s ELSE 2 * Half - s
           d  == high - low
           q  == (up * d) \div Half
<1>1. Half \in Nat \ {0} /\ s \in Nat /\ s <= 2 * Half - 1
  BY MockAssumption DEF MockAssumption, Steps
<1>2. up \in 0 .. Half /\ d \in Nat
  BY <1>1
<1> HIDE DEF up, d
<1>3. up * d \in Nat /\ up * d <= Half * d
  <2>1. PICK r \in Nat : Half = up + r
    BY <1>1, <1>2
  <2>2. up \in Nat /\ r * d \in Nat /\ up * d \in Nat
    BY <1>2, <2>1
  <2>3. (up + r) * d = up * d + r * d
    BY <1>2, <2>1, <2>2
  <2>4. QED
    BY <2>1, <2>2, <2>3
<1>4. q \in Nat /\ q <= d
  <2>1. ASSUME NEW a \in Nat, NEW h \in Nat \ {0}, NEW n \in Nat, a <= h * n
        PROVE  a \div h \in Nat /\ a \div h <= n
    BY <2>1
  <2>2. QED
    BY <1>1, <1>2, <1>3, <2>1
<1>5. triangleVal(s, low, high) = low + q
  BY DEF triangleVal, up, d
<1>6. QED
  BY <1>2, <1>4, <1>5 DEF d

MockInv == /\ rpmState \in States /\ rpm \in {NotSent, 700, 1700, 2700}
           /\ egtStep \in Steps /\ chtStep \in Steps
           /\ egt \in 800 .. 1800 /\ cht \in 700 .. 1200

LEMMA MockStart == ASSUME MockInit PROVE MockInv
<1>1. 0 \in Steps
  BY MockAssumption DEF MockAssumption, Steps
<1>2. QED
  BY <1>1 DEF MockInit, MockInv, States

LEMMA MockStep == ASSUME MockInv, [MockNext]_mockVars PROVE MockInv'
<1>0. 0 \in Steps /\ Half \in Nat \ {0}
  BY MockAssumption DEF MockAssumption, Steps
<1>1. CASE Reset
  BY <1>0, <1>1 DEF Reset, MockInv, States
<1>2. CASE Pass
  <2>1. rpmState' \in States /\ rpm' \in {NotSent, 700, 1700, 2700}
    <3>1. \A x \in States : Following[x] \in States /\ RPM_VALUE[x] \in {700, 1700, 2700}
      BY DEF States, Following, RPM_VALUE
    <3>2. rpmState' \in {rpmState, Following[rpmState]} /\ rpm' \in {RPM_VALUE[rpmState'], NotSent}
      BY <1>2 DEF Pass
    <3>3. QED
      BY <3>1, <3>2 DEF MockInv
  <2>2. \A s \in Steps : (s + 1) % (2 * Half) \in Steps
    BY <1>0 DEF Steps
  <2>3. egtStep' \in Steps /\ egt' \in 800 .. 1800
    <3>1. CASE egtAge >= TEMP_SEND
      <4>1. egtStep' = (egtStep + 1) % (2 * Half) /\ egt' = triangleVal(egtStep', 800, 1800)
        BY <1>2, <3>1 DEF Pass, EgtOf
      <4>2. egtStep' \in Steps
        BY <2>2, <4>1 DEF MockInv
      <4>3. \A s \in Steps : triangleVal(s, 800, 1800) \in 800 .. 1800
        <5>1. PICK low \in Nat, high \in Nat : low = 800 /\ high = 1800
          OBVIOUS
        <5>2. low <= high
          BY <5>1
        <5>3. \A s \in Steps : triangleVal(s, low, high) \in low .. high
          BY <5>2, TriangleRange, Zenon
        <5>4. QED
          BY <5>1, <5>3
      <4>4. QED
        BY ONLY <4>1, <4>2, <4>3
    <3>2. CASE ~(egtAge >= TEMP_SEND)
      BY <1>2, <3>2 DEF Pass, MockInv
    <3>3. QED
      BY <3>1, <3>2
  <2>4. chtStep' \in Steps /\ cht' \in 700 .. 1200
    <3>1. CASE chtAge >= TEMP_SEND
      <4>1. chtStep' = (chtStep + 1) % (2 * Half) /\ cht' = triangleVal(chtStep', 700, 1200)
        BY <1>2, <3>1 DEF Pass, ChtOf
      <4>2. chtStep' \in Steps
        BY <2>2, <4>1 DEF MockInv
      <4>3. \A s \in Steps : triangleVal(s, 700, 1200) \in 700 .. 1200
        <5>1. PICK low \in Nat, high \in Nat : low = 700 /\ high = 1200
          OBVIOUS
        <5>2. low <= high
          BY <5>1
        <5>3. \A s \in Steps : triangleVal(s, low, high) \in low .. high
          BY <5>2, TriangleRange, Zenon
        <5>4. QED
          BY <5>1, <5>3
      <4>4. QED
        BY ONLY <4>1, <4>2, <4>3
    <3>2. CASE ~(chtAge >= TEMP_SEND)
      BY <1>2, <3>2 DEF Pass, MockInv
    <3>3. QED
      BY <3>1, <3>2
  <2>5. QED
    BY <2>1, <2>3, <2>4 DEF MockInv
<1>3. CASE MockTick \/ UNCHANGED mockVars
  BY <1>3 DEF MockTick, mockVars, MockInv
<1>4. QED
  BY <1>1, <1>2, <1>3 DEF MockNext

LEMMA MockInvariant == MockSpec => []MockInv
  BY MockStart, MockStep, PTL DEF MockSpec

\* No speed frame of the mock, which the other nodes read as a request to write a byte
\* (CanMock/src/main.cpp:14), names a cell of their settings, wherever these lie in the lower half.
THEOREM SpeedsSpareSettings == MockSpec => []MockSparesSettings
<1>1. MockInv => MockSparesSettings
  BY MockAssumption DEF MockAssumption, MockInv, MockSparesSettings
<1>2. QED
  BY <1>1, MockInvariant, PTL

\* The two temperatures stay between the ends of their waves, however long a wave is: the
\* product is formed before the division (CanMock/src/main.cpp:43), and the rounding goes down.
THEOREM WavesKeepToScale == MockSpec => [](egt \in 800 .. 1800 /\ cht \in 700 .. 1200)
<1>1. MockInv => egt \in 800 .. 1800 /\ cht \in 700 .. 1200
  BY DEF MockInv
<1>2. QED
  BY <1>1, MockInvariant, PTL
=============================================================================
