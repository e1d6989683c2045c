--------------------------- MODULE PlatformProofs ----------------------------
(***************************************************************************)
(* Proofs about the power and platform programs.  Residency: for any width *)
(* of counter, any set of counters and any starting values, a row shows the*)
(* true shares.  Dvfs: for any demands and temperatures, the right point is*)
(* chosen and the voltage suffices between its two writes.  Arbiter: for   *)
(* any counts and votes, the level is the deepest every vote allows.       *)
(* EnumWalker: for any inventory, the walk finds every function as often as*)
(* it can be reached, a bridge before what is behind it.                   *)
(***************************************************************************)
EXTENDS Residency, Dvfs, Arbiter, EnumWalker, RingArithmetic, FiniteSetTheorems

(* Each counter has moved on by what really happened, wrapped.             *)
ResidencyInv ==
    /\ start \in Snapshots /\ end \in Snapshots
    /\ elapsed \in Nat /\ resident \in [Counters -> Nat]
    /\ end.tsc = (start.tsc + elapsed) % CounterValues
    /\ \A c \in Counters :
          /\ resident[c] <= elapsed
          /\ end.count[c] = (start.count[c] + resident[c]) % CounterValues

LEMMA BumpOfWrapped ==
    ASSUME NEW a \in Int
    PROVE  /\ Bump(a % CounterValues) = (a + 1) % CounterValues
           /\ Bump(a % CounterValues) \in Values
  BY ResidencyAssumption, WrappedSucc, DivisionForm, a + 1 \in Int DEF Bump, Values

(* The difference of two snapshots of one counter is how far it ran.       *)
LEMMA DeltaIsDistance ==
    ASSUME NEW from \in Values, NEW ran \in 0..(CounterValues - 1)
    PROVE  wrap_delta((from + ran) % CounterValues, from) = ran
<1>1. from \in Int /\ from + ran \in Int /\ (from + ran) - from = ran
  BY ResidencyAssumption DEF Values
<1>2. (CounterValues * 0 + from) % CounterValues = from
  BY ResidencyAssumption, RemainderUnique, 0 \in Int DEF Values
<1>3. from % CounterValues = from
  BY <1>1, <1>2, ResidencyAssumption
<1>4. (((from + ran) % CounterValues) - (from % CounterValues)) % CounterValues
          = (from + ran) - from
  BY <1>1, WrappedDistance, ResidencyAssumption
<1> QED
  BY <1>1, <1>3, <1>4 DEF wrap_delta

LEMMA SnapshotParts ==
    ASSUME NEW s \in Snapshots
    PROVE  /\ s.tsc \in Values /\ s.tsc \in Int
           /\ \A c \in Counters : s.count[c] \in Values /\ s.count[c] \in Int
<1>1. Values \subseteq Int
  BY ResidencyAssumption DEF Values
<1>2. s.tsc \in Values /\ s.count \in [Counters -> Values]
  BY DEF Snapshots
<1> QED
  BY <1>1, <1>2

LEMMA ResidencyInitially == ResidencyInit => ResidencyInv
<1> SUFFICES ASSUME ResidencyInit PROVE ResidencyInv
  OBVIOUS
<1>1. \A v \in Values : v + 0 = v /\ (CounterValues * 0 + v) % CounterValues = v
  BY ResidencyAssumption, RemainderUnique, 0 \in Int DEF Values
<1>2. \A v \in Values : (v + 0) % CounterValues = v
  BY <1>1, ResidencyAssumption DEF Values
<1>3. start.tsc \in Values /\ \A c \in Counters : start.count[c] \in Values
  BY DEF ResidencyInit, Snapshots
<1> QED
  BY <1>2, <1>3 DEF ResidencyInit, ResidencyInv

LEMMA ResidencyInductive ==
    ResidencyInv /\ [ResidencyNext]_residencyVars => ResidencyInv'
<1> SUFFICES ASSUME ResidencyInv, [ResidencyNext]_residencyVars
             PROVE  ResidencyInv'
  OBVIOUS
<1>1. ASSUME NEW entered \in SUBSET Counters, TimePasses(entered)
      PROVE  ResidencyInv'
  <2>1. /\ start' = start /\ elapsed' = elapsed + 1
        /\ resident' = [c \in Counters |->
                          resident[c] + (IF c \in entered THEN 1 ELSE 0)]
        /\ end' = [tsc |-> Bump(end.tsc),
                   count |-> [c \in Counters |-> IF c \in entered
                                                   THEN Bump(end.count[c])
                                                   ELSE end.count[c]]]
    BY <1>1 DEF TimePasses
  <2>2. start.tsc + elapsed \in Int /\ elapsed \in Nat
        /\ start.tsc \in Int /\ (start.tsc + elapsed) + 1 = start.tsc + elapsed'
    <3>1. start \in Snapshots /\ elapsed \in Nat
      BY DEF ResidencyInv
    <3>2. start.tsc \in Int
      BY <3>1, SnapshotParts
    <3> QED
      BY <2>1, <3>1, <3>2
  <2>3. end'.tsc \in Values
        /\ end'.tsc = (start'.tsc + elapsed') % CounterValues
    BY <2>1, <2>2, BumpOfWrapped DEF ResidencyInv
  <2>4. ASSUME NEW c \in Counters
        PROVE  /\ resident'[c] \in Nat /\ resident'[c] <= elapsed'
               /\ end'.count[c] \in Values
               /\ end'.count[c]
                     = (start'.count[c] + resident'[c]) % CounterValues
    <3>1. /\ start.count[c] + resident[c] \in Int /\ start.count[c] \in Int
          /\ resident[c] \in Nat /\ resident[c] <= elapsed
          /\ end.count[c] = (start.count[c] + resident[c]) % CounterValues
          /\ end.count[c] \in Values
      <4>1. start \in Snapshots /\ end \in Snapshots /\ resident[c] \in Nat
        BY DEF ResidencyInv
      <4>2. start.count[c] \in Int /\ end.count[c] \in Values
        BY <4>1, SnapshotParts
      <4>3. start.count[c] + resident[c] \in Int
        BY <4>1, <4>2
      <4> QED
        BY <4>1, <4>2, <4>3 DEF ResidencyInv
    <3>2. CASE c \in entered
      <4>1. resident'[c] = resident[c] + 1 /\ end'.count[c] = Bump(end.count[c])
        BY <2>1, <3>2
      <4>2. /\ Bump(end.count[c])
                  = ((start.count[c] + resident[c]) + 1) % CounterValues
            /\ Bump(end.count[c]) \in Values
        BY <3>1, BumpOfWrapped
      <4>3. (start.count[c] + resident[c]) + 1 = start.count[c] + resident'[c]
        BY <3>1, <4>1
      <4> QED
        BY <2>1, <2>2, <3>1, <4>1, <4>2, <4>3
    <3>3. CASE c \notin entered
      <4>1. resident'[c] = resident[c] /\ end'.count[c] = end.count[c]
        BY <2>1, <3>1, <3>3
      <4> QED
        BY <2>1, <2>2, <3>1, <4>1
    <3> QED
      BY <3>2, <3>3
  <2>5. end' \in Snapshots /\ resident' \in [Counters -> Nat]
    BY <2>1, <2>3, <2>4 DEF Snapshots
  <2> QED
    BY <2>1, <2>2, <2>3, <2>4, <2>5 DEF ResidencyInv
<1>2. CASE UNCHANGED residencyVars
  BY <1>2 DEF residencyVars, ResidencyInv
<1> QED
  BY <1>1, <1>2 DEF ResidencyNext

(* Every row printed within one round of the clock shows the true share of *)
(* every state, and no "!", wherever the counters started and wrapped.     *)
THEOREM SharesAreTrue == ResidencySpec => []SharesTrue
<1>1. ResidencyInv => SharesTrue
  <2> SUFFICES ASSUME ResidencyInv, elapsed < CounterValues,
                      NEW c \in Counters
               PROVE  /\ ~print_row[c].sanity
                      /\ print_row[c].pct[1] * elapsed
                              = 100 * resident[c] * print_row[c].pct[2]
    BY DEF SharesTrue
  <2>1. /\ elapsed \in 0..(CounterValues - 1) /\ resident[c] \in 0..elapsed
        /\ resident[c] \in 0..(CounterValues - 1)
        /\ start.tsc \in Values /\ start.count[c] \in Values
    BY ResidencyAssumption DEF ResidencyInv, Snapshots
  <2>2. wrap_delta(end.tsc, start.tsc) = elapsed
        /\ wrap_delta(end.count[c], start.count[c]) = resident[c]
    BY <2>1, DeltaIsDistance DEF ResidencyInv
  <2>3. print_row[c] = [sanity |-> resident[c] > elapsed,
                        pct |-> IF elapsed = 0 THEN <<0, 1>>
                                ELSE <<100 * resident[c], elapsed>>]
    BY <2>2 DEF print_row, residency_pct
  <2>4. ~print_row[c].sanity
    <3>1. [sanity |-> resident[c] > elapsed,
           pct |-> IF elapsed = 0 THEN <<0, 1>>
                   ELSE <<100 * resident[c], elapsed>>].sanity
              = (resident[c] > elapsed)
      BY Zenon
    <3>2. ~(resident[c] > elapsed)
      BY <2>1
    <3> QED
      BY <2>3, <3>1, <3>2, Zenon
  <2>5. CASE elapsed = 0
    <3>1. print_row[c].pct = <<0, 1>> /\ resident[c] = 0
      BY <2>1, <2>3, <2>5
    <3> QED
      BY <2>4, <2>5, <3>1
  <2>6. CASE elapsed # 0
    <3>1. print_row[c].pct = <<100 * resident[c], elapsed>>
      BY <2>3, <2>6
    <3>2. print_row[c].pct[1] * elapsed = 100 * resident[c] * elapsed
      BY <3>1
    <3> QED
      BY <2>4, <3>1, <3>2
  <2> QED
    BY <2>5, <2>6
<1> QED
  BY <1>1, ResidencyInitially, ResidencyInductive, PTL DEF ResidencySpec

------------------------------------------------------------------------------
(* Min and Max are the smallest and the largest element.                   *)
LEMMA MinIs ==
    ASSUME NEW S \in SUBSET Int, NEW x \in S, \A y \in S : x <= y
    PROVE  Min(S) = x
<1>1. \E z \in S : \A y \in S : z =< y
  OBVIOUS
<1>2. Min(S) \in S /\ \A y \in S : Min(S) =< y
  BY <1>1 DEF Min
<1>3. Min(S) \in Int /\ x \in Int /\ x <= Min(S) /\ Min(S) =< x
  BY <1>2
<1> QED
  BY <1>3

LEMMA MaxIs ==
    ASSUME NEW S \in SUBSET Int, NEW x \in S, \A y \in S : x >= y
    PROVE  Max(S) = x
<1>1. \E z \in S : \A y \in S : z >= y
  OBVIOUS
<1>2. Max(S) \in S /\ \A y \in S : Max(S) >= y
  BY <1>1 DEF Max
<1>3. Max(S) \in Int /\ x \in Int /\ x >= Max(S) /\ Max(S) >= x
  BY <1>2
<1> QED
  BY <1>3

LEMMA MinOf ==
    ASSUME NEW S \in SUBSET Nat, S # {}
    PROVE  Min(S) \in S /\ \A y \in S : Min(S) <= y
BY LeastNatural DEF Min

------------------------------------------------------------------------------
(* The table of operating points: both columns rise together.              *)
Freq(p) == table[p].freq_mhz
Volt(p) == table[p].volt_mv

LEMMA Rows ==
    /\ Points = 1..5 /\ Len(table) = 5
    /\ Freq(1) = 400 /\ Freq(2) = 800 /\ Freq(3) = 1200 /\ Freq(4) = 1800
    /\ Freq(5) = 2400
    /\ Volt(1) = 750 /\ Volt(2) = 850 /\ Volt(3) = 950 /\ Volt(4) = 1050
    /\ Volt(5) = 1150
BY DEF Points, table, Opp, Freq, Volt

LEMMA TableRises ==
    ASSUME NEW p \in Points, NEW q \in Points
    PROVE  /\ Freq(p) \in Nat /\ Volt(p) \in Nat
           /\ p <= q => Freq(p) <= Freq(q) /\ Volt(p) <= Volt(q)
           /\ Freq(p) <= Freq(q) => p <= q
           /\ Freq(1) <= cap /\ Freq(p) <= 2400
<1>1. /\ p = 1 \/ p = 2 \/ p = 3 \/ p = 4 \/ p = 5
      /\ q = 1 \/ q = 2 \/ q = 3 \/ q = 4 \/ q = 5
  BY Rows
<1>2. cap = 1200 \/ cap = 2400
  BY DEF cap
<1> QED
  BY <1>1, <1>2, Rows

(* The loop of select_opp: no entry looked at so far would do, and best is *)
(* the last of them that the temperature allows.                           *)
Allowed(p) == Freq(p) <= cap
Enough(p) == Allowed(p) /\ Freq(p) >= wanted

SelectInv ==
    turn # 0 =>
        /\ last_sequence = <<>> /\ Allowed(best)
        /\ \A p \in Points : p < turn => ~Enough(p) /\ (Allowed(p) => p <= best)

(* The point in force is the right one while its order is being carried    *)
(* out: the first that would do or, if none would, the last allowed.       *)
RightPoint(p) ==
    /\ Allowed(p)
    /\ \/ Enough(p) /\ \A q \in Points : q < p => ~Enough(q)
       \/ \A q \in Points : ~Enough(q) /\ (Allowed(q) => q <= p)

(* What is still to be written, and what the platform runs at meanwhile.   *)
PlatformInv ==
    \/ last_sequence = <<>> /\ freq = Freq(point) /\ volt = Volt(point)
    \/ /\ \E p \in Points : p <= point /\ freq = Freq(p) /\ volt = Volt(p)
       /\ last_sequence = <<"voltage", "frequency">>
    \/ /\ \E p \in Points : p <= point /\ freq = Freq(p) /\ volt = Volt(point)
       /\ last_sequence = <<"frequency">>
    \/ /\ \E p \in Points : p >= point /\ freq = Freq(p) /\ volt = Volt(p)
       /\ last_sequence = <<"frequency", "voltage">>
    \/ /\ \E p \in Points : p >= point /\ freq = Freq(point) /\ volt = Volt(p)
       /\ last_sequence = <<"voltage">>

DvfsInv ==
    /\ point \in Points /\ best \in Points /\ turn \in 0..6
    /\ wanted \in Int /\ tj \in Int
    /\ SelectInv /\ PlatformInv
    /\ last_sequence # <<>> => RightPoint(point)

LEMMA DvfsInitially == DvfsInit => DvfsInv
<1> SUFFICES ASSUME DvfsInit PROVE DvfsInv
  OBVIOUS
<1>1. /\ wanted = 0 /\ tj = 0 /\ turn = 0 /\ best = 1 /\ point = 1
      /\ last_sequence = <<>> /\ freq = Freq(1) /\ volt = Volt(1)
  BY DEF DvfsInit, Freq, Volt
<1>2. 1 \in Points
  BY Rows
<1> QED
  BY <1>1, <1>2 DEF DvfsInv, SelectInv, PlatformInv

LEMMA SelectStep ==
    ASSUME DvfsInv, NEW mhz \in Wanted, NEW degrees \in Temperatures,
           CallSelect(mhz, degrees)
    PROVE  DvfsInv'
<1>1. /\ turn = 0 /\ last_sequence = <<>> /\ turn' = 1 /\ best' = 1
      /\ wanted' = mhz /\ tj' = degrees /\ mhz \in Int /\ degrees \in Int
      /\ point' = point /\ last_sequence' = <<>> /\ freq' = freq /\ volt' = volt
  BY DvfsAssumption DEF CallSelect
<1>2. SelectInv'
  <2>1. Allowed(best)'
    <3>1. (tj >= Hot)' \/ ~(tj >= Hot)'
      OBVIOUS
    <3> QED
      BY <1>1, Rows DEF Allowed, cap, Freq
  <2>2. \A p \in Points : ~(p < 1)
    BY Rows
  <2> QED
    BY <1>1, <2>1, <2>2 DEF SelectInv, Points, table
<1>3. PlatformInv'
  BY <1>1 DEF DvfsInv, PlatformInv, Freq, Volt, table
<1>4. 1 \in Points
  BY Rows
<1> QED
  BY <1>1, <1>2, <1>3, <1>4 DEF DvfsInv, Points, table

(* apply_opp raises the voltage before the frequency and lowers it after.  *)
LEMMA ApplyStep ==
    ASSUME DvfsInv, NEW opp \in Points, last_sequence = <<>>, RightPoint(opp),
           Chosen(opp)
    PROVE  DvfsInv'
<1>1. /\ point' = opp /\ last_sequence' = ordered(point, opp) /\ turn' = 0
      /\ wanted' = wanted /\ tj' = tj /\ best' = best /\ freq' = freq
      /\ volt' = volt
  BY DEF Chosen
<1>2. point \in Points /\ freq = Freq(point) /\ volt = Volt(point)
  BY DEF DvfsInv, PlatformInv
<1>3. RightPoint(point)'
  BY <1>1, SMTT(60) DEF RightPoint, Enough, Allowed, cap, Hot, Freq, Points, table
<1>4. /\ Freq(point) \in Nat /\ Freq(opp) \in Nat /\ point \in Int /\ opp \in Int
      /\ Freq(point) <= Freq(opp) => point <= opp
      /\ Freq(opp) <= Freq(point) => opp <= point
  <2>1. Freq(point) \in Nat /\ (Freq(point) <= Freq(opp) => point <= opp)
    BY <1>2, TableRises
  <2>2. Freq(opp) \in Nat /\ (Freq(opp) <= Freq(point) => opp <= point)
    BY <1>2, TableRises
  <2> QED
    BY <1>2, <2>1, <2>2, Rows
<1>5. PlatformInv'
  <2>1. CASE Freq(opp) > Freq(point)
    <3>1. point <= opp
      BY <1>4, <2>1
    <3>2. last_sequence' = <<"voltage", "frequency">>
      BY <1>1, <2>1, Zenon DEF ordered, raises, Freq
    <3>3. \E p \in Points : p <= opp /\ freq' = Freq(p) /\ volt' = Volt(p)
      BY <1>1, <1>2, <3>1
    <3>4. (\E p \in Points : p <= point /\ freq = Freq(p) /\ volt = Volt(p))'
      BY <1>1, <3>3 DEF Freq, Volt, Points, table
    <3> QED
      BY <3>2, <3>4, Zenon DEF PlatformInv
  <2>2. CASE ~(Freq(opp) > Freq(point))
    <3>1. point >= opp
      BY <1>4, <2>2
    <3>2. last_sequence' = <<"frequency", "voltage">>
      BY <1>1, <2>2, Zenon DEF ordered, raises, Freq
    <3>3. \E p \in Points : p >= opp /\ freq' = Freq(p) /\ volt' = Volt(p)
      BY <1>1, <1>2, <3>1
    <3>4. (\E p \in Points : p >= point /\ freq = Freq(p) /\ volt = Volt(p))'
      BY <1>1, <3>3 DEF Freq, Volt, Points, table
    <3> QED
      BY <3>2, <3>4, Zenon DEF PlatformInv
  <2> QED
    BY <2>1, <2>2
<1> QED
  BY <1>1, <1>3, <1>5 DEF DvfsInv, SelectInv, Points, table

LEMMA LookAtStep ==
    ASSUME DvfsInv, LookAt
    PROVE  DvfsInv'
<1>1. turn \in Points /\ turn \in 1..5 /\ last_sequence = <<>>
  BY Rows DEF LookAt, DvfsInv, SelectInv
<1>2. CASE Enough(turn)
  <2>1. Chosen(turn)
    BY <1>2 DEF LookAt, Enough, Allowed, Freq
  <2>2. RightPoint(turn)
    BY <1>1, <1>2 DEF RightPoint, Enough, DvfsInv, SelectInv
  <2> QED
    BY <1>1, <2>1, <2>2, ApplyStep
<1>3. CASE ~Enough(turn)
  <2>1. /\ best' = IF Allowed(turn) THEN turn ELSE best
        /\ turn' = turn + 1 /\ wanted' = wanted /\ tj' = tj /\ point' = point
        /\ last_sequence' = last_sequence /\ freq' = freq /\ volt' = volt
    BY <1>3 DEF LookAt, Enough, Allowed, Freq
  <2>2. \A p \in Points : Allowed(p)' = Allowed(p) /\ Enough(p)' = Enough(p)
    BY <2>1 DEF Enough, Allowed, cap, Hot, Freq, Points, table
  <2>3. ASSUME NEW p \in Points, p < turn + 1
        PROVE  ~Enough(p) /\ (Allowed(p) => p <= best')
    <3>1. CASE p = turn
      BY <1>1, <1>3, <2>1, <3>1
    <3>2. CASE p < turn
      <4>1. ~Enough(p) /\ (Allowed(p) => p <= best)
        BY <1>1, <3>2, Rows DEF DvfsInv, SelectInv
      <4>2. best \in Points /\ p <= turn
        BY <1>1, <3>2, Rows DEF DvfsInv
      <4> QED
        BY <2>1, <4>1, <4>2
    <3> QED
      BY <1>1, <2>3, <3>1, <3>2, Rows
  <2>4. best' \in Points /\ Allowed(best')
    BY <1>1, <2>1, Rows DEF DvfsInv, SelectInv
  <2>5. Allowed(best)'
    BY <2>1, <2>4 DEF Allowed, cap, Hot, Freq, table
  <2>6. SelectInv'
    BY <1>1, <2>1, <2>2, <2>3, <2>5 DEF SelectInv, Points, table
  <2>7. PlatformInv'
    BY <2>1, SMTT(60) DEF DvfsInv, PlatformInv, Freq, Volt, Points, table
  <2> QED
    BY <1>1, <2>1, <2>4, <2>6, <2>7 DEF DvfsInv, Points, table
<1> QED
  BY <1>2, <1>3

LEMMA FallBackStep ==
    ASSUME DvfsInv, FallBack
    PROVE  DvfsInv'
<1>1. turn = 6 /\ best \in Points /\ last_sequence = <<>> /\ Allowed(best)
      /\ Chosen(best)
  BY Rows DEF FallBack, DvfsInv, SelectInv
<1>2. \A p \in Points : ~Enough(p) /\ (Allowed(p) => p <= best)
  BY <1>1, Rows DEF DvfsInv, SelectInv
<1>3. RightPoint(best)
  BY <1>1, <1>2 DEF RightPoint
<1> QED
  BY <1>1, <1>3, ApplyStep

LEMMA PlatformStep ==
    ASSUME DvfsInv, PlatformWrites
    PROVE  DvfsInv'
<1>1. /\ last_sequence # <<>> /\ last_sequence' = Tail(last_sequence)
      /\ wanted' = wanted /\ tj' = tj /\ turn' = turn /\ best' = best
      /\ point' = point
      /\ IF Head(last_sequence) = "voltage"
           THEN volt' = Volt(point) /\ freq' = freq
           ELSE freq' = Freq(point) /\ volt' = volt
  BY DEF PlatformWrites, Volt, Freq
<1>2. turn = 0 /\ point \in Points /\ RightPoint(point)
  BY <1>1, Rows DEF DvfsInv, SelectInv
<1>3. RightPoint(point)'
  BY <1>1, <1>2, SMTT(60) DEF RightPoint, Enough, Allowed, cap, Hot, Freq, Points, table
<1>4. PlatformInv'
  <2>1. CASE /\ last_sequence = <<"voltage", "frequency">>
             /\ \E p \in Points : p <= point /\ freq = Freq(p) /\ volt = Volt(p)
    <3>1. last_sequence' = <<"frequency">> /\ volt' = Volt(point) /\ freq' = freq
      BY <1>1, <2>1
    <3> QED
      BY <1>1, <2>1, <3>1 DEF PlatformInv, Freq, Volt, Points, table
  <2>2. CASE last_sequence = <<"frequency">> /\ volt = Volt(point)
    <3>1. last_sequence' = <<>> /\ freq' = Freq(point) /\ volt' = volt
      BY <1>1, <2>2
    <3> QED
      BY <1>1, <2>2, <3>1 DEF PlatformInv, Freq, Volt, Points, table
  <2>3. CASE /\ last_sequence = <<"frequency", "voltage">>
             /\ \E p \in Points : p >= point /\ freq = Freq(p) /\ volt = Volt(p)
    <3>1. last_sequence' = <<"voltage">> /\ freq' = Freq(point) /\ volt' = volt
      BY <1>1, <2>3
    <3> QED
      BY <1>1, <2>3, <3>1 DEF PlatformInv, Freq, Volt, Points, table
  <2>4. CASE last_sequence = <<"voltage">> /\ freq = Freq(point)
    <3>1. last_sequence' = <<>> /\ volt' = Volt(point) /\ freq' = freq
      BY <1>1, <2>4
    <3> QED
      BY <1>1, <2>4, <3>1 DEF PlatformInv, Freq, Volt, Points, table
  <2> QED
    BY <1>1, <2>1, <2>2, <2>3, <2>4, Zenon DEF DvfsInv, PlatformInv
<1> QED
  BY <1>1, <1>2, <1>3, <1>4 DEF DvfsInv, SelectInv, Points, table

LEMMA DvfsInductive == DvfsInv /\ [DvfsNext]_dvfsVars => DvfsInv'
<1> SUFFICES ASSUME DvfsInv, [DvfsNext]_dvfsVars PROVE DvfsInv'
  OBVIOUS
<1>1. CASE UNCHANGED dvfsVars
  <2>1. UNCHANGED <<wanted, tj, turn, best, point, last_sequence, freq, volt>>
    BY <1>1 DEF dvfsVars
  <2>2. PlatformInv'
    BY <2>1, SMTT(60) DEF DvfsInv, PlatformInv, Freq, Volt, Points, table
  <2>3. SelectInv'
    BY <2>1, SMTT(60) DEF DvfsInv, SelectInv, Enough, Allowed, cap, Freq, Points, table
  <2>4. RightPoint(point)' <=> RightPoint(point)
    BY <2>1 DEF RightPoint, Enough, Allowed, cap, Freq, Points, table
  <2> QED
    BY <2>1, <2>2, <2>3, <2>4, Zenon DEF DvfsInv, Points, table
<1> QED
  BY <1>1, SelectStep, LookAtStep, FallBackStep, PlatformStep DEF DvfsNext

(* No order of requests and temperatures leaves the platform, even between *)
(* its two writes, at a voltage too low for its frequency.                 *)
THEOREM EnoughVoltage == DvfsSpec => []VoltageSuffices
<1>1. DvfsInv => VoltageSuffices
  <2> SUFFICES ASSUME DvfsInv
               PROVE  \E p \in Points : Freq(p) = freq /\ volt >= Volt(p)
    BY DEF VoltageSuffices, Freq, Volt
  <2>1. point \in Points
    BY DEF DvfsInv
  <2>2. CASE last_sequence = <<"frequency">>
          /\ \E p \in Points : p <= point /\ freq = Freq(p) /\ volt = Volt(point)
    BY <2>1, <2>2, TableRises
  <2>3. CASE last_sequence = <<"voltage">>
          /\ \E p \in Points : p >= point /\ freq = Freq(point) /\ volt = Volt(p)
    BY <2>1, <2>3, TableRises
  <2>4. CASE \E p \in Points : freq = Freq(p) /\ volt = Volt(p)
    BY <2>4, TableRises
  <2> QED
    BY <2>1, <2>2, <2>3, <2>4, Zenon DEF DvfsInv, PlatformInv
<1> QED
  BY <1>1, DvfsInitially, DvfsInductive, PTL DEF DvfsSpec

(* select_opp returns the slowest point that will do, or the fastest that  *)
(* the temperature allows, whatever is asked at whatever temperature.      *)
THEOREM RightChoice == DvfsSpec => []ChosenExact
<1>1. DvfsInv => ChosenExact
  <2> SUFFICES ASSUME DvfsInv, last_sequence # <<>>
               PROVE  ChosenExact
    BY DEF ChosenExact
  <2> DEFINE allowed == {p \in Points : tj >= 90 => Freq(p) <= 1200}
             enough  == {p \in allowed : Freq(p) >= wanted}
  <2>1. point \in Points /\ RightPoint(point) /\ Points \subseteq Int
        /\ tj \in Int /\ wanted \in Int
    BY Rows DEF DvfsInv
  <2>2. \A p \in Points : (p \in allowed <=> Allowed(p)) /\ (p \in enough <=> Enough(p))
    <3>1. ASSUME NEW p \in Points
          PROVE  (tj >= 90 => Freq(p) <= 1200) <=> Freq(p) <= cap
      BY <2>1, TableRises DEF cap, Hot
    <3> QED
      BY <3>1 DEF Allowed, Enough
  <2>3. allowed \in SUBSET Int /\ enough \in SUBSET Int /\ enough \subseteq Points
        /\ allowed \subseteq Points
    BY <2>1, ZenonT(60)
  <2> HIDE DEF allowed, enough
  <2>4. CASE Enough(point)
    <3>1. point \in enough /\ \A q \in Points : q < point => ~Enough(q)
      BY <2>1, <2>2, <2>4 DEF RightPoint
    <3>2. \A q \in enough : point <= q
      BY <2>1, <2>2, <2>3, <3>1
    <3>3. Min(enough) = point /\ enough # {}
      BY <2>3, <3>1, <3>2, MinIs
    <3> QED
      BY <3>3, Zenon DEF ChosenExact, enough, allowed, Freq
  <2>5. CASE ~Enough(point)
    <3>1. /\ \A q \in Points : ~Enough(q) /\ (Allowed(q) => q <= point)
          /\ Allowed(point)
      BY <2>1, <2>5 DEF RightPoint
    <3>2. enough = {} /\ point \in allowed /\ \A q \in allowed : point >= q
      BY <2>1, <2>2, <2>3, <3>1
    <3>3. Max(allowed) = point
      BY <2>3, <3>2, MaxIs
    <3> QED
      BY <3>2, <3>3 DEF ChosenExact, enough, allowed, Freq
  <2> QED
    BY <2>4, <2>5
<1> QED
  BY <1>1, DvfsInitially, DvfsInductive, PTL DEF DvfsSpec

------------------------------------------------------------------------------
(* The platform keeps the type of platform_t.                              *)
Platforms ==
    [n_cores : Int, core_cs : [VotingCores -> Int], n_links : Int,
     links : [VotingLinks -> [state : AspmStates \union {"ASPM_L0", "ASPM_L1_2"},
                              ltr_us : Int]],
     idle : SUBSET Quiet]

(* A count that is not refused makes the code read entries that exist.     *)
ArbiterInv ==
    /\ platform \in Platforms
    /\ platform.n_cores <= MaxCores => Cores \subseteq VotingCores
    /\ platform.n_links <= MaxLinks => Links \subseteq VotingLinks

LEMMA ArbiterInitially == ArbiterInit => ArbiterInv
<1> SUFFICES ASSUME ArbiterInit PROVE ArbiterInv
  OBVIOUS
<1>1. /\ platform.n_cores = 2 /\ platform.n_links = 1
  BY DEF ArbiterInit
<1>2. /\ [c \in VotingCores |-> IF c < 2 THEN 6 ELSE 0] \in [VotingCores -> Int]
      /\ [l \in VotingLinks |->
             IF l = 0 THEN [state |-> "ASPM_L1_2", ltr_us |-> 1500]
                      ELSE [state |-> "ASPM_L0", ltr_us |-> 0]]
           \in [VotingLinks -> [state : AspmStates \union {"ASPM_L0", "ASPM_L1_2"},
                                ltr_us : Int]]
  OBVIOUS
<1>3. platform \in Platforms
  BY <1>2 DEF ArbiterInit, Platforms
<1> QED
  BY <1>1, <1>3, ArbiterAssumption DEF ArbiterInv, Cores, Links, MaxCores, MaxLinks

LEMMA ArbiterInductive == ArbiterInv /\ [ArbiterNext]_arbiterVars => ArbiterInv'
<1> SUFFICES ASSUME ArbiterInv, [ArbiterNext]_arbiterVars PROVE ArbiterInv'
  OBVIOUS
<1>1. ASSUME NEW c \in VotingCores, NEW cs \in CoreStates, CoreVotes(c, cs)
      PROVE  ArbiterInv'
  <2>1. platform' = [platform EXCEPT !.core_cs[c] = cs] /\ cs \in Int
    BY <1>1, ArbiterAssumption DEF CoreVotes
  <2>2. platform' \in Platforms
    BY <2>1 DEF ArbiterInv, Platforms
  <2>3. platform'.n_cores = platform.n_cores /\ platform'.n_links = platform.n_links
    BY <2>1 DEF ArbiterInv, Platforms
  <2> QED
    BY <2>2, <2>3 DEF ArbiterInv, Cores, Links
<1>2. ASSUME NEW l \in VotingLinks, NEW s \in AspmStates, NEW us \in Latencies,
             LinkVotes(l, s, us)
      PROVE  ArbiterInv'
  <2>1. platform' = [platform EXCEPT !.links[l] = [state |-> s, ltr_us |-> us]]
        /\ us \in Int
    BY <1>2, ArbiterAssumption DEF LinkVotes
  <2>2. platform' \in Platforms
    BY <2>1 DEF ArbiterInv, Platforms
  <2>3. platform'.n_cores = platform.n_cores /\ platform'.n_links = platform.n_links
    BY <2>1 DEF ArbiterInv, Platforms
  <2> QED
    BY <2>2, <2>3 DEF ArbiterInv, Cores, Links
<1>3. ASSUME NEW u \in Quiet, UnitVotes(u)
      PROVE  ArbiterInv'
  <2>1. platform' = [platform EXCEPT !.idle = IF u \in @ THEN @ \ {u}
                                                         ELSE @ \union {u}]
    BY <1>3 DEF UnitVotes
  <2>2. platform' \in Platforms
    BY <2>1 DEF ArbiterInv, Platforms
  <2>3. platform'.n_cores = platform.n_cores /\ platform'.n_links = platform.n_links
    BY <2>1 DEF ArbiterInv, Platforms
  <2> QED
    BY <2>2, <2>3 DEF ArbiterInv, Cores, Links
<1>4. ASSUME NEW cores \in CoreCounts, NEW links \in LinkCounts,
             CountsChange(cores, links)
      PROVE  ArbiterInv'
  <2>1. platform' = [platform EXCEPT !.n_cores = cores, !.n_links = links]
        /\ cores \in Int /\ links \in Int
    BY <1>4, ArbiterAssumption DEF CountsChange
  <2>2. platform' \in Platforms
    BY <2>1 DEF ArbiterInv, Platforms
  <2>3. platform'.n_cores = cores /\ platform'.n_links = links
    BY <2>1 DEF ArbiterInv, Platforms
  <2> QED
    BY <2>2, <2>3, ArbiterAssumption DEF ArbiterInv, Cores, Links
<1>5. CASE UNCHANGED arbiterVars
  BY <1>5 DEF arbiterVars, ArbiterInv, Cores, Links
<1> QED
  BY <1>1, <1>2, <1>3, <1>4, <1>5 DEF ArbiterNext

(* The six tests of arbitrate, in its order.                               *)
LEMMA Tests ==
    /\ Len(tests) = 6
    /\ tests[1] = core_active /\ tests[2] = core_shallow
    /\ tests[3] = unit_busy("usb_idle") /\ tests[4] = unit_busy("display_idle")
    /\ tests[5] = unit_busy("mc_self_refresh") /\ tests[6] = link_awake
BY DEF tests

Active(c) == platform.core_cs[c] <= 0
Shallow(c) == platform.core_cs[c] < 6
Awake(l) == \/ platform.links[l].state # "ASPM_L1_2"
            \/ platform.links[l].ltr_us < 1000

LEMMA TestFields ==
    /\ core_active.level = "PKG_C0" /\ core_active.who = "core"
    /\ core_active.offenders = {c \in Cores : Active(c)}
    /\ core_shallow.level = "PKG_C2" /\ core_shallow.who = "core"
    /\ core_shallow.offenders = {c \in Cores : Shallow(c)}
    /\ link_awake.level = "PKG_C6" /\ link_awake.who = "link"
    /\ link_awake.offenders = {l \in Links : Awake(l)}
    /\ \A u \in Quiet : /\ unit_busy(u).level = "PKG_C2" /\ unit_busy(u).who = u
                        /\ unit_busy(u).offenders
                              = IF u \in platform.idle THEN {} ELSE {0}
BY Zenon DEF core_active, core_shallow, link_awake, unit_busy, Test, Active, Shallow,
             Awake

LEMMA VoterFacts ==
    ASSUME ArbiterInv, ~BadCount
    PROVE
    /\ \A c \in Cores : /\ <<"core", c>> \in Voters
                        /\ Allows(<<"core", c>>) = IF Active(c) THEN 0
                                                   ELSE IF Shallow(c) THEN 1 ELSE 3
    /\ \A l \in Links : /\ <<"link", l>> \in Voters
                        /\ Allows(<<"link", l>>) = IF Awake(l) THEN 2 ELSE 3
    /\ \A u \in Quiet : /\ <<u, 0>> \in Voters
                        /\ Allows(<<u, 0>>) = IF u \in platform.idle THEN 3 ELSE 1
<1>1. ASSUME NEW c \in Cores
      PROVE  /\ <<"core", c>> \in Voters
             /\ Allows(<<"core", c>>) = IF Active(c) THEN 0
                                        ELSE IF Shallow(c) THEN 1 ELSE 3
  BY DEF Voters, Allows, Active, Shallow
<1>2. ASSUME NEW l \in Links
      PROVE  /\ <<"link", l>> \in Voters
             /\ Allows(<<"link", l>>) = IF Awake(l) THEN 2 ELSE 3
  <2>1. <<"link", l>>[1] = "link" /\ <<"link", l>>[2] = l /\ "link" # "core"
    OBVIOUS
  <2>2. Allows(<<"link", l>>)
          = IF platform.links[l].state = "ASPM_L1_2" /\ platform.links[l].ltr_us >= 1000
              THEN 3 ELSE 2
    BY <2>1 DEF Allows
  <2>3. platform.links[l].ltr_us \in Int
    <3>1. l \in VotingLinks
      BY DEF ArbiterInv, BadCount, MaxLinks
    <3>2. platform.links[l]
            \in [state : AspmStates \union {"ASPM_L0", "ASPM_L1_2"}, ltr_us : Int]
      BY <3>1 DEF ArbiterInv, Platforms
    <3> QED
      BY <3>2
  <2>4. platform.links[l].ltr_us >= 1000 <=> ~(platform.links[l].ltr_us < 1000)
    BY <2>3
  <2> QED
    BY <2>2, <2>4 DEF Awake, Voters
<1>3. ASSUME NEW u \in Quiet
      PROVE  /\ <<u, 0>> \in Voters
             /\ Allows(<<u, 0>>) = IF u \in platform.idle THEN 3 ELSE 1
  BY DEF Voters, Allows, Quiet
<1> QED
  BY <1>1, <1>2, <1>3

(* What arbitrate answers is right once its level is no deeper than any    *)
(* vote allows and the vote it blames allows no more than that level.      *)
LEMMA DeepestWhen ==
    ASSUME ~BadCount, NEW d \in 0..2, Depth[arbitrate.level] = d,
           arbitrate.why \in Voters, Allows(arbitrate.why) = d,
           \A v \in Voters : Allows(v) \in Nat /\ d <= Allows(v)
    PROVE  DeepestAllowed
<1> DEFINE S == {3} \union {Allows(v) : v \in Voters}
<1>1. S \in SUBSET Int /\ d \in S /\ \A x \in S : d <= x
  OBVIOUS
<1> HIDE DEF S
<1>2. Min(S) = d
  BY <1>1, MinIs
<1> QED
  BY <1>2, Zenon DEF DeepestAllowed, S

(* What each vote allows, wherever it comes from.                          *)
LEMMA AllVotes ==
    ASSUME ArbiterInv, ~BadCount, NEW v \in Voters
    PROVE  \/ \E c \in Cores : v = <<"core", c>>
           \/ \E l \in Links : v = <<"link", l>>
           \/ \E u \in Quiet : v = <<u, 0>>
BY DEF Voters

(* The package goes exactly as deep as its shallowest vote allows, and the *)
(* vote it blames is one that allows no more (arbitrate), for any number   *)
(* of cores and links the arrays hold and any votes.                       *)
THEOREM Deepest == ArbiterSpec => []DeepestAllowed
<1>1. ArbiterInv => DeepestAllowed
  <2> SUFFICES ASSUME ArbiterInv PROVE DeepestAllowed
    OBVIOUS
  <2> DEFINE failed == {k \in 1..6 : tests[k].offenders # {}}
             first  == tests[Min(failed)]
  <2>1. CASE BadCount
    <3>1. arbitrate.level = "PKG_C0"
      BY <2>1 DEF arbitrate
    <3> QED
      BY <2>1, <3>1 DEF DeepestAllowed, Depth
  <2> SUFFICES ASSUME ~BadCount PROVE DeepestAllowed
    BY <2>1
  <2>2. arbitrate = IF failed = {} THEN [level |-> "PKG_C10", why |-> <<"all", 0>>]
                    ELSE [level |-> first.level,
                          why |-> <<first.who, Min(first.offenders)>>]
    BY Tests DEF arbitrate
  <2>3. failed \in SUBSET Nat /\ failed \subseteq 1..6
    OBVIOUS
  <2>4. \A k \in 1..6 : k \in failed <=> tests[k].offenders # {}
    OBVIOUS
  <2> HIDE DEF failed
  <2>5. CASE failed = {}
    <3>1. /\ tests[1].offenders = {} /\ tests[2].offenders = {}
          /\ tests[3].offenders = {} /\ tests[4].offenders = {}
          /\ tests[5].offenders = {} /\ tests[6].offenders = {}
      BY <2>4, <2>5
    <3>2. /\ \A c \in Cores : ~Active(c) /\ ~Shallow(c)
          /\ \A l \in Links : ~Awake(l)
          /\ \A u \in Quiet : u \in platform.idle
      BY <3>1, Tests, TestFields, Zenon DEF Quiet
    <3>3. \A v \in Voters : Allows(v) = 3
      BY <3>2, VoterFacts, AllVotes, ZenonT(60)
    <3>4. {3} \union {Allows(v) : v \in Voters} = {3} /\ Min({3}) = 3
      BY <3>3, MinIs
    <3>5. Depth[arbitrate.level] = 3
      BY <2>2, <2>5 DEF Depth
    <3> QED
      BY <3>4, <3>5 DEF DeepestAllowed
  <2>6. CASE failed # {}
    <3> DEFINE k == Min(failed)
    <3>1. k \in failed /\ \A j \in failed : k <= j
      BY <2>3, <2>6, MinOf
    <3> HIDE DEF k
    <3>2. k \in 1..6 /\ tests[k].offenders # {}
          /\ \A j \in 1..6 : j < k => tests[j].offenders = {}
      BY <2>3, <2>4, <3>1
    <3>3. arbitrate.level = tests[k].level
          /\ arbitrate.why = <<tests[k].who, Min(tests[k].offenders)>>
      BY <2>2, <2>6 DEF k
    <3>4. \A t \in {core_active, core_shallow, link_awake} :
            t.offenders # {} => Min(t.offenders) \in t.offenders
      <4>1. Cores \subseteq Nat /\ Links \subseteq Nat
        BY DEF ArbiterInv, Platforms, Cores, Links
      <4>2. /\ core_active.offenders \in SUBSET Nat
            /\ core_shallow.offenders \in SUBSET Nat
            /\ link_awake.offenders \in SUBSET Nat
        BY <4>1, TestFields
      <4> QED
        BY <4>2, MinOf
    <3>5. CASE k = 1
      <4>1. PICK c \in Cores : Active(c) /\ arbitrate.why = <<"core", c>>
        BY <3>2, <3>3, <3>4, <3>5, Tests, TestFields
      <4>2. Depth[arbitrate.level] = 0
        BY <3>3, <3>5, Tests, TestFields DEF Depth
      <4>3. arbitrate.why \in Voters /\ Allows(arbitrate.why) = 0
        BY <4>1, VoterFacts, Zenon
      <4>4. \A v \in Voters : Allows(v) \in {0, 1, 2, 3}
        BY VoterFacts, AllVotes
      <4> QED
        BY <4>2, <4>3, <4>4, DeepestWhen
    <3>6. CASE k \in 2..5
      <4>1. \A c \in Cores : ~Active(c)
        BY <3>2, <3>6, Tests, TestFields
      <4>2. Depth[arbitrate.level] = 1
        <5>1. tests[k].level = "PKG_C2"
          BY <3>6, Tests, TestFields DEF Quiet
        <5> QED
          BY <3>3, <5>1 DEF Depth
      <4>3. arbitrate.why \in Voters /\ Allows(arbitrate.why) = 1
        <5>1. CASE k = 2
          <6>1. PICK c \in Cores : Shallow(c) /\ arbitrate.why = <<"core", c>>
            BY <3>2, <3>3, <3>4, <5>1, Tests, TestFields
          <6> QED
            BY <4>1, <6>1, VoterFacts, Zenon
        <5>2. CASE k \in 3..5
          <6>1. PICK u \in Quiet : tests[k] = unit_busy(u)
            BY <5>2, Tests DEF Quiet
          <6>2. u \notin platform.idle
            BY <3>2, <6>1, TestFields, Zenon
          <6>3. unit_busy(u).offenders = {0} /\ Min({0}) = 0
            BY <6>2, TestFields, MinIs
          <6>4. arbitrate.why = <<u, 0>>
            BY <3>3, <6>1, <6>3, TestFields
          <6> QED
            BY <6>2, <6>4, VoterFacts, Zenon
        <5> QED
          BY <3>6, <5>1, <5>2
      <4>4. \A v \in Voters : Allows(v) \in {1, 2, 3}
        BY <4>1, VoterFacts, AllVotes
      <4> QED
        BY <4>2, <4>3, <4>4, DeepestWhen
    <3>7. CASE k = 6
      <4>1. /\ tests[1].offenders = {} /\ tests[2].offenders = {}
            /\ tests[3].offenders = {} /\ tests[4].offenders = {}
            /\ tests[5].offenders = {}
        BY <3>2, <3>7
      <4>2. /\ \A c \in Cores : ~Active(c) /\ ~Shallow(c)
            /\ \A u \in Quiet : u \in platform.idle
        BY <4>1, Tests, TestFields, Zenon DEF Quiet
      <4>3. PICK l \in Links : Awake(l) /\ arbitrate.why = <<"link", l>>
        BY <3>2, <3>3, <3>4, <3>7, Tests, TestFields, SMTT(60)
      <4>4. Depth[arbitrate.level] = 2
        BY <3>3, <3>7, Tests, TestFields DEF Depth
      <4>5. arbitrate.why \in Voters /\ Allows(arbitrate.why) = 2
        BY <4>3, VoterFacts, Zenon
      <4>6. \A v \in Voters : Allows(v) \in {2, 3}
        BY <4>2, VoterFacts, AllVotes
      <4> QED
        BY <4>4, <4>5, <4>6, DeepestWhen
    <3> QED
      BY <3>2, <3>5, <3>6, <3>7
  <2> QED
    BY <2>5, <2>6
<1> QED
  BY <1>1, ArbiterInitially, ArbiterInductive, PTL DEF ArbiterSpec

------------------------------------------------------------------------------
(* A function of the inventory, and the calls under way: each was made by  *)
(* the bridge the call below is at, from its bus to a higher one.          *)
Buses == 0..255
FunctionsOf == [bus : Buses, bridge : BOOLEAN, secondary_bus : Buses]

StackInv ==
    /\ inventory \in Seq(FunctionsOf) /\ inventory \in Inventories
    /\ stack \in Seq([bus : Buses, i : 1..(Len(inventory) + 1)])
    /\ stack # <<>> => stack[1].bus = 0
    /\ \A k \in 1..(Len(stack) - 1) :
          LET i == stack[k].i - 1
          IN  /\ i \in Rising /\ inventory[i].bus = stack[k].bus
              /\ inventory[i].secondary_bus = stack[k + 1].bus

(* The bridges that made the calls are in the tree.                        *)
NodesInv ==
    /\ nodes \in Seq(1..Len(inventory)) /\ Len(nodes) <= MAX_NODES
    /\ \A k \in 2..Len(stack) : \E j \in 1..Len(nodes) :
          /\ inventory[nodes[j]].bridge
          /\ inventory[nodes[j]].secondary_bus = stack[k].bus
    /\ BridgesFirst

LEMMA InventoryIs ==
    ASSUME inventory \in Seq(FunctionsOf), NEW i \in 1..Len(inventory)
    PROVE  /\ inventory[i].bus \in Buses /\ inventory[i].secondary_bus \in Buses
           /\ inventory[i].bridge \in BOOLEAN
           /\ \A b \in Int : LeadsOn(inventory[i], b) /\ inventory[i].bus = b => i \in Rising
<1>1. inventory[i] \in FunctionsOf /\ DOMAIN inventory = 1..Len(inventory)
  OBVIOUS
<1> QED
  BY <1>1 DEF FunctionsOf, LeadsOn, Rising

(* What a turn does to the stack, and what it takes.                       *)
Taken(i) == inventory[i].bus = Top.bus /\ HasRoom
Descends(i) == Taken(i) /\ LeadsOn(inventory[i], Top.bus)

LEMMA TurnIs ==
    ASSUME StackInv, NodesInv, Turn
    PROVE  \E n \in Nat \ {0}, i \in 1..Len(inventory) :
              /\ Len(stack) = n /\ stack[n].i = i /\ Top = stack[n]
              /\ inventory' = inventory
              /\ nodes' = IF Taken(i) THEN Append(nodes, i) ELSE nodes
              /\ Len(stack') = IF Descends(i) THEN n + 1 ELSE n
              /\ \A k \in 1..(n - 1) : stack'[k] = stack[k]
              /\ stack'[n].bus = stack[n].bus /\ stack'[n].i = i + 1
              /\ Descends(i) => stack'[n + 1] = Call(inventory[i].secondary_bus)
              /\ stack' \in Seq([bus : Buses, i : 1..(Len(inventory) + 1)])
              /\ stack' # <<>>
<1> DEFINE n == Len(stack)
           i == Top.i
           Calls == [bus : Buses, i : 1..(Len(inventory) + 1)]
           next == [stack EXCEPT ![n].i = @ + 1]
<1>1. /\ stack \in Seq(Calls) /\ inventory \in Seq(FunctionsOf) /\ stack # <<>>
      /\ i <= Len(inventory) /\ inventory' = inventory
      /\ nodes' = IF Taken(i) THEN Append(nodes, i) ELSE nodes
      /\ stack' = IF Descends(i)
                    THEN Append(next, Call(inventory[i].secondary_bus)) ELSE next
  BY DEF StackInv, Turn, Taken, Descends
<1>2. n \in Nat \ {0} /\ Top = stack[n] /\ stack[n] \in Calls
  <2> HIDE DEF Calls
  <2> QED
    BY <1>1 DEF Top
<1>3. i \in 1..Len(inventory) /\ Len(inventory) \in Nat
  BY <1>1, <1>2
<1>4. [stack[n] EXCEPT !.i = @ + 1] = [bus |-> stack[n].bus, i |-> i + 1]
  BY <1>2
<1>5. [bus |-> stack[n].bus, i |-> i + 1] \in Calls
  BY <1>2, <1>3
<1>6. /\ next \in Seq(Calls) /\ Len(next) = n
      /\ \A k \in 1..(n - 1) : next[k] = stack[k]
      /\ next[n] = [bus |-> stack[n].bus, i |-> i + 1]
  <2>1. next = [stack EXCEPT ![n] = [bus |-> stack[n].bus, i |-> i + 1]]
    BY <1>4
  <2> HIDE DEF next, Calls, i
  <2> QED
    BY <2>1, <1>1, <1>2, <1>5
<1>7. Call(inventory[i].secondary_bus) \in Calls
  BY <1>1, <1>3, InventoryIs DEF Call
<1> HIDE DEF next
<1>8. /\ Append(next, Call(inventory[i].secondary_bus)) \in Seq(Calls)
      /\ Len(Append(next, Call(inventory[i].secondary_bus))) = n + 1
      /\ Append(next, Call(inventory[i].secondary_bus))[n + 1]
            = Call(inventory[i].secondary_bus)
      /\ \A k \in 1..n :
            Append(next, Call(inventory[i].secondary_bus))[k] = next[k]
  BY <1>6, <1>7, AppendFacts
<1>9. /\ Len(stack) = n /\ Top.i = i
      /\ [bus |-> stack[n].bus, i |-> i + 1].bus = stack[n].bus
      /\ [bus |-> stack[n].bus, i |-> i + 1].i = i + 1
  OBVIOUS
<1> HIDE DEF n, i, Calls
<1>10. CASE Descends(i)
  <2>1. /\ stack' \in Seq(Calls) /\ Len(stack') = n + 1 /\ stack' # <<>>
        /\ stack'[n + 1] = Call(inventory[i].secondary_bus)
        /\ \A k \in 1..(n - 1) : stack'[k] = stack[k]
        /\ stack'[n] = [bus |-> stack[n].bus, i |-> i + 1]
    BY <1>1, <1>2, <1>6, <1>8, <1>10
  <2> QED
    BY <1>1, <1>2, <1>3, <1>9, <1>10, <2>1 DEF Calls
<1>11. CASE ~Descends(i)
  <2>1. /\ stack' \in Seq(Calls) /\ Len(stack') = n /\ stack' # <<>>
        /\ \A k \in 1..(n - 1) : stack'[k] = stack[k]
        /\ stack'[n] = [bus |-> stack[n].bus, i |-> i + 1]
    BY <1>1, <1>2, <1>6, <1>11
  <2> QED
    BY <1>1, <1>2, <1>3, <1>9, <1>11, <2>1 DEF Calls
<1> QED
  BY <1>10, <1>11

(* What a return does to the stack.                                        *)
LEMMA ReturnIs ==
    ASSUME StackInv, NodesInv, Return
    PROVE  \E n \in Nat \ {0} :
              /\ Len(stack) = n /\ stack[n].i = Len(inventory) + 1
              /\ inventory' = inventory /\ nodes' = nodes
              /\ Len(stack') = n - 1
              /\ \A k \in 1..(n - 1) : stack'[k] = stack[k]
              /\ stack' \in Seq([bus : Buses, i : 1..(Len(inventory) + 1)])
              /\ stack' = <<>> <=> n = 1
<1> DEFINE n == Len(stack)
           Calls == [bus : Buses, i : 1..(Len(inventory) + 1)]
<1>1. /\ stack \in Seq(Calls) /\ inventory \in Seq(FunctionsOf) /\ stack # <<>>
      /\ Top.i > Len(inventory) /\ inventory' = inventory /\ nodes' = nodes
      /\ stack' = SubSeq(stack, 1, n - 1)
  BY DEF StackInv, Return
<1>2. n \in Nat \ {0} /\ Top = stack[n] /\ stack[n] \in Calls
  <2> HIDE DEF Calls
  <2> QED
    BY <1>1 DEF Top
<1>3. stack[n].i = Len(inventory) + 1
  BY <1>1, <1>2
<1> HIDE DEF Calls
<1>4. /\ stack' \in Seq(Calls) /\ Len(stack') = n - 1
      /\ \A k \in 1..(n - 1) : stack'[k] = stack[k]
  <2>1. n - 1 \in Nat /\ n - 1 <= Len(stack) /\ stack \in Seq(Calls)
    BY <1>1, <1>2
  <2> HIDE DEF n
  <2>2. \A m \in Nat : m <= Len(stack) =>
            /\ SubSeq(stack, 1, m) \in Seq(Calls) /\ Len(SubSeq(stack, 1, m)) = m
            /\ \A k \in 1..m : SubSeq(stack, 1, m)[k] = stack[k]
    BY <2>1
  <2> QED
    BY <1>1, <2>1, <2>2
<1>5. stack' = <<>> <=> n = 1
  BY <1>2, <1>4
<1> QED
  BY <1>1, <1>2, <1>3, <1>4, <1>5 DEF Calls

LEMMA WalkInitially == Init => StackInv /\ NodesInv
<1> SUFFICES ASSUME Init PROVE StackInv /\ NodesInv
  OBVIOUS
<1>1. /\ inventory \in Inventories /\ inventory \in Seq(FunctionsOf)
      /\ nodes = <<>> /\ stack = <<Call(0)>> /\ MAX_NODES \in Nat
  BY EnumAssumption DEF Init, FunctionsOf, Buses
<1>2. Len(stack) = 1 /\ stack[1] = Call(0) /\ Len(nodes) = 0 /\ stack # <<>>
  BY <1>1
<1>3. Call(0) \in [bus : Buses, i : 1..(Len(inventory) + 1)] /\ Call(0).bus = 0
  <2>1. Len(inventory) \in Nat
    BY <1>1
  <2> QED
    BY <2>1 DEF Call, Buses
<1>4. stack \in Seq([bus : Buses, i : 1..(Len(inventory) + 1)])
  BY <1>1, <1>3
<1>5. StackInv
  BY <1>1, <1>2, <1>3, <1>4 DEF StackInv
<1>6. nodes \in Seq(1..Len(inventory)) /\ DOMAIN nodes = {}
  BY <1>1
<1>7. NodesInv
  BY <1>1, <1>2, <1>6 DEF NodesInv, BridgesFirst
<1> QED
  BY <1>5, <1>7

LEMMA WalkTurn ==
    ASSUME StackInv, NodesInv, Turn
    PROVE  StackInv' /\ NodesInv'
<1>1. PICK n \in Nat \ {0}, i \in 1..Len(inventory) :
              /\ Len(stack) = n /\ stack[n].i = i /\ Top = stack[n]
              /\ inventory' = inventory
              /\ nodes' = IF Taken(i) THEN Append(nodes, i) ELSE nodes
              /\ Len(stack') = IF Descends(i) THEN n + 1 ELSE n
              /\ \A k \in 1..(n - 1) : stack'[k] = stack[k]
              /\ stack'[n].bus = stack[n].bus /\ stack'[n].i = i + 1
              /\ Descends(i) => stack'[n + 1] = Call(inventory[i].secondary_bus)
              /\ stack' \in Seq([bus : Buses, i : 1..(Len(inventory) + 1)])
              /\ stack' # <<>>
  BY TurnIs
<1>2. /\ inventory \in Seq(FunctionsOf) /\ inventory \in Inventories /\ stack # <<>>
      /\ stack[1].bus = 0
      /\ \A k \in 1..(n - 1) : /\ stack[k].i - 1 \in Rising
                               /\ inventory[stack[k].i - 1].bus = stack[k].bus
                               /\ inventory[stack[k].i - 1].secondary_bus
                                      = stack[k + 1].bus
  BY <1>1 DEF StackInv
<1>3. /\ nodes \in Seq(1..Len(inventory)) /\ Len(nodes) <= MAX_NODES
      /\ Len(nodes) \in Nat /\ MAX_NODES \in Nat
  BY EnumAssumption DEF NodesInv
<1>4. \A k \in 1..n : stack'[k].bus = stack[k].bus
  <2>1. \A k \in 1..n : k \in 1..(n - 1) \/ k = n
    OBVIOUS
  <2> QED
    BY <1>1, <2>1
<1>5. Rising' = Rising
  BY <1>1 DEF Rising
<1>6. Descends(i) => /\ i \in Rising /\ inventory[i].bus = stack[n].bus
                     /\ inventory[i].bridge
                     /\ stack'[n + 1].bus = inventory[i].secondary_bus
                     /\ stack[n].bus < stack'[n + 1].bus
  <2> SUFFICES ASSUME Descends(i)
               PROVE  /\ i \in Rising /\ inventory[i].bus = stack[n].bus
                      /\ inventory[i].bridge
                      /\ stack'[n + 1].bus = inventory[i].secondary_bus
                      /\ stack[n].bus < stack'[n + 1].bus
    OBVIOUS
  <2>1. /\ inventory[i].bus = stack[n].bus /\ inventory[i].bridge
        /\ inventory[i].secondary_bus > stack[n].bus
    BY <1>1 DEF Descends, Taken, LeadsOn
  <2>2. stack'[n + 1].bus = inventory[i].secondary_bus
    BY <1>1 DEF Call
  <2>3. i \in Rising
    BY <1>2, <2>1 DEF Rising
  <2>4. inventory[i].bus \in Int /\ inventory[i].secondary_bus \in Int
    <3>1. inventory[i].bus \in Buses /\ inventory[i].secondary_bus \in Buses
      BY <1>2, InventoryIs
    <3>2. \A b \in Buses : b \in Int
      BY DEF Buses
    <3> QED
      BY <3>1, <3>2
  <2> QED
    BY <2>1, <2>2, <2>3, <2>4
<1>7. StackInv'
  <2>1. stack'[1].bus = 0
    BY <1>2, <1>4, 1 \in 1..n
  <2>2. ASSUME NEW k \in 1..(Len(stack') - 1)
        PROVE  /\ stack'[k].i - 1 \in Rising
               /\ inventory[stack'[k].i - 1].bus = stack'[k].bus
               /\ inventory[stack'[k].i - 1].secondary_bus = stack'[k + 1].bus
    <3>1. CASE k \in 1..(n - 1)
      <4>1. k \in 1..n /\ k + 1 \in 1..n
        BY <3>1
      <4>2. stack'[k] = stack[k] /\ stack'[k + 1].bus = stack[k + 1].bus
        BY <1>1, <1>4, <3>1, <4>1
      <4> QED
        BY <1>2, <3>1, <4>2
    <3>2. CASE k = n /\ Descends(i)
      <4>1. (i + 1) - 1 = i
        OBVIOUS
      <4> QED
        BY <1>1, <1>6, <3>2, <4>1
    <3> QED
      BY <1>1, <3>1, <3>2
  <2>3. \A k \in 1..(Len(stack') - 1) :
          LET j == stack'[k].i - 1
          IN  /\ j \in Rising' /\ inventory'[j].bus = stack'[k].bus
              /\ inventory'[j].secondary_bus = stack'[k + 1].bus
    BY <1>1, <1>5, <2>2
  <2>4. /\ inventory' \in Seq(FunctionsOf) /\ inventory' \in Inventories
        /\ stack' \in Seq([bus : Buses, i : 1..(Len(inventory') + 1)])
    BY <1>1, <1>2
  <2> QED
    BY <2>1, <2>3, <2>4 DEF StackInv, FunctionsOf, Buses
<1>8. /\ nodes' \in Seq(1..Len(inventory)) /\ Len(nodes') \in Nat
      /\ Len(nodes') <= MAX_NODES
      /\ Len(nodes') = IF Taken(i) THEN Len(nodes) + 1 ELSE Len(nodes)
      /\ Taken(i) => nodes'[Len(nodes) + 1] = i
      /\ \A j \in 1..Len(nodes) : nodes'[j] = nodes[j] /\ j \in 1..Len(nodes')
  <2>1. CASE Taken(i)
    <3>1. Len(nodes) < MAX_NODES /\ nodes' = Append(nodes, i)
      BY <1>1, <2>1 DEF Taken, HasRoom
    <3>2. /\ nodes' \in Seq(1..Len(inventory)) /\ Len(nodes') = Len(nodes) + 1
          /\ nodes'[Len(nodes) + 1] = i
          /\ \A j \in 1..Len(nodes) : nodes'[j] = nodes[j]
      BY <1>3, <3>1, AppendFacts
    <3> QED
      BY <1>3, <2>1, <3>1, <3>2
  <2>2. CASE ~Taken(i)
    BY <1>1, <1>3, <2>2
  <2> QED
    BY <2>1, <2>2
<1>9. ASSUME NEW k \in 2..Len(stack')
      PROVE  \E j \in 1..Len(nodes') :
                /\ inventory[nodes'[j]].bridge
                /\ inventory[nodes'[j]].secondary_bus = stack'[k].bus
  <2>1. CASE k \in 2..n
    <3>1. PICK j \in 1..Len(nodes) : /\ inventory[nodes[j]].bridge
                                     /\ inventory[nodes[j]].secondary_bus = stack[k].bus
      BY <1>1, <2>1 DEF NodesInv
    <3>2. stack'[k].bus = stack[k].bus
      BY <1>4, <2>1, k \in 1..n
    <3> QED
      BY <1>8, <3>1, <3>2
  <2>2. CASE k = n + 1 /\ Descends(i)
    <3>1. Taken(i) /\ Len(nodes) + 1 \in 1..Len(nodes')
      BY <1>3, <1>8, <2>2 DEF Descends
    <3>2. nodes'[Len(nodes) + 1] = i
      BY <1>8, <3>1
    <3> QED
      BY <1>6, <2>2, <3>1, <3>2
  <2>3. k \in 2..n \/ (k = n + 1 /\ Descends(i))
    <3>1. Len(stack') = IF Descends(i) THEN n + 1 ELSE n
      BY <1>1
    <3> QED
      BY <3>1
  <2> QED
    BY <2>1, <2>2, <2>3
<1>10. BridgesFirst'
  <2>1. ASSUME NEW k \in 1..Len(nodes')
        PROVE  \/ inventory[nodes'[k]].bus = 0
               \/ \E j \in 1..(k - 1) :
                     /\ inventory[nodes'[j]].bridge
                     /\ inventory[nodes'[j]].secondary_bus = inventory[nodes'[k]].bus
    <3>1. CASE k \in 1..Len(nodes)
      <4>1. \/ inventory[nodes[k]].bus = 0
            \/ \E j \in 1..(k - 1) :
                  /\ inventory[nodes[j]].bridge
                  /\ inventory[nodes[j]].secondary_bus = inventory[nodes[k]].bus
        BY <1>3, <3>1 DEF NodesInv, BridgesFirst
      <4>2. \A j \in 1..k : nodes'[j] = nodes[j]
        BY <1>8, <3>1
      <4>3. k \in 1..k /\ \A j \in 1..(k - 1) : j \in 1..k
        BY <3>1
      <4> QED
        BY <4>1, <4>2, <4>3
    <3>2. CASE k = Len(nodes) + 1 /\ Taken(i)
      <4>1. nodes'[k] = i /\ inventory[i].bus = stack[n].bus /\ k - 1 = Len(nodes)
        BY <1>1, <1>3, <1>8, <3>2 DEF Taken
      <4>2. CASE n = 1
        BY <1>2, <4>1, <4>2
      <4>3. CASE n # 1
        <5>1. n \in 2..Len(stack)
          BY <1>1, <4>3
        <5>2. PICK j \in 1..Len(nodes) :
                      /\ inventory[nodes[j]].bridge
                      /\ inventory[nodes[j]].secondary_bus = stack[n].bus
          BY <5>1 DEF NodesInv
        <5>3. nodes'[j] = nodes[j] /\ j \in 1..(k - 1)
          BY <1>8, <4>1
        <5> QED
          BY <4>1, <5>2, <5>3
      <4> QED
        BY <4>2, <4>3
    <3>3. k \in 1..Len(nodes) \/ (k = Len(nodes) + 1 /\ Taken(i))
      <4>1. Len(nodes') = IF Taken(i) THEN Len(nodes) + 1 ELSE Len(nodes)
        BY <1>8
      <4> QED
        BY <1>3, <4>1
    <3> QED
      BY <3>1, <3>2, <3>3
  <2>2. ASSUME NEW k \in 2..Len(stack') PROVE stack'[k - 1].bus < stack'[k].bus
    <3>1. CASE k \in 2..n
      <4>1. k - 1 \in 1..n /\ k \in 1..n
        BY <3>1
      <4>2. stack[k - 1].bus < stack[k].bus
        BY <1>1, <3>1 DEF NodesInv, BridgesFirst
      <4> QED
        BY <1>4, <4>1, <4>2
    <3>2. CASE k = n + 1 /\ Descends(i)
      <4>1. k - 1 = n /\ n \in 1..n
        BY <3>2
      <4> QED
        BY <1>4, <1>6, <3>2, <4>1
    <3> QED
      BY <1>1, <3>1, <3>2
  <2>3. DOMAIN nodes' = 1..Len(nodes')
    BY <1>8
  <2> QED
    BY <1>1, <2>1, <2>2, <2>3, ZenonT(60) DEF BridgesFirst
<1>11. NodesInv'
  BY <1>1, <1>8, <1>9, <1>10 DEF NodesInv
<1> QED
  BY <1>7, <1>11

LEMMA WalkReturn ==
    ASSUME StackInv, NodesInv, Return
    PROVE  StackInv' /\ NodesInv'
<1>1. PICK n \in Nat \ {0} :
              /\ Len(stack) = n /\ stack[n].i = Len(inventory) + 1
              /\ inventory' = inventory /\ nodes' = nodes
              /\ Len(stack') = n - 1
              /\ \A k \in 1..(n - 1) : stack'[k] = stack[k]
              /\ stack' \in Seq([bus : Buses, i : 1..(Len(inventory) + 1)])
              /\ stack' = <<>> <=> n = 1
  BY ReturnIs
<1>2. Rising' = Rising
  BY <1>1 DEF Rising
<1>3. StackInv'
  <2>1. stack' # <<>> => stack'[1].bus = 0
    <3>1. stack # <<>>
      BY <1>1
    <3>2. n # 1 => 1 \in 1..(n - 1)
      OBVIOUS
    <3> QED
      BY <1>1, <3>1, <3>2 DEF StackInv
  <2>2. ASSUME NEW k \in 1..(Len(stack') - 1)
        PROVE  /\ stack'[k].i - 1 \in Rising
               /\ inventory[stack'[k].i - 1].bus = stack'[k].bus
               /\ inventory[stack'[k].i - 1].secondary_bus = stack'[k + 1].bus
    <3>1. k \in 1..(n - 1) /\ k + 1 \in 1..(n - 1) /\ k \in 1..(Len(stack) - 1)
      BY <1>1
    <3>2. stack'[k] = stack[k] /\ stack'[k + 1] = stack[k + 1]
      BY <1>1, <3>1
    <3> QED
      BY <3>1, <3>2 DEF StackInv
  <2>3. \A k \in 1..(Len(stack') - 1) :
          LET j == stack'[k].i - 1
          IN  /\ j \in Rising' /\ inventory'[j].bus = stack'[k].bus
              /\ inventory'[j].secondary_bus = stack'[k + 1].bus
    BY <1>1, <1>2, <2>2
  <2> QED
    BY <1>1, <2>1, <2>3 DEF StackInv, FunctionsOf, Buses
<1>4. \A k \in 2..Len(stack') :
          /\ k \in 2..Len(stack) /\ k \in 1..(n - 1) /\ k - 1 \in 1..(n - 1)
  BY <1>1
<1>5. \A k \in 2..Len(stack') : \E j \in 1..Len(nodes') :
          /\ inventory'[nodes'[j]].bridge
          /\ inventory'[nodes'[j]].secondary_bus = stack'[k].bus
  BY <1>1, <1>4, ZenonT(60) DEF NodesInv
<1>6. \A k \in 2..Len(stack') : stack'[k - 1].bus < stack'[k].bus
  BY <1>1, <1>4 DEF NodesInv, BridgesFirst
<1>7. BridgesFirst'
  BY <1>1, <1>6 DEF NodesInv, BridgesFirst
<1> QED
  BY <1>1, <1>3, <1>5, <1>7 DEF NodesInv

LEMMA WalkInductive == StackInv /\ NodesInv /\ [Next]_vars => StackInv' /\ NodesInv'
<1> SUFFICES ASSUME StackInv, NodesInv, [Next]_vars PROVE StackInv' /\ NodesInv'
  OBVIOUS
<1>1. CASE UNCHANGED vars
  BY <1>1 DEF StackInv, NodesInv, BridgesFirst, Rising, vars
<1> QED
  BY <1>1, WalkTurn, WalkReturn DEF Next, Done

(* For any inventory, a bridge is met before what is behind it, and the    *)
(* calls under way go strictly up the buses.                               *)
THEOREM ParentsFirst == Spec => []BridgesFirst
<1>1. StackInv /\ NodesInv => BridgesFirst
  BY DEF NodesInv
<1> QED
  BY <1>1, WalkInitially, WalkInductive, PTL DEF Spec

------------------------------------------------------------------------------
(* How much has been met.  A meeting is a chain and a function behind it;  *)
(* the walk takes them in the order of their steps, a bridge before what   *)
(* is behind it.  It is past a meeting when at some call the steps before  *)
(* are those under way and the step itself is behind the call's index, and *)
(* if it is the very last index, nothing more of the meeting lies in the   *)
(* calls above.                                                            *)
StepOf(m, j) == IF j <= Len(m[1]) THEN m[1][j] ELSE m[2]
Past(calls, m) ==
    \/ calls = <<>>
    \/ \E j \in 1..Len(calls) :
          /\ j <= Len(m[1]) + 1
          /\ \A l \in 1..(j - 1) : m[1][l] = calls[l].i - 1
          /\ StepOf(m, j) < calls[j].i
          /\ StepOf(m, j) = calls[j].i - 1 => j = Len(calls) \/ j = Len(m[1]) + 1
Met == {m \in Meetings : Past(stack, m)}

(* The bridges of the calls under way.                                     *)
Way == [k \in 1..(Len(stack) - 1) |-> stack[k].i - 1]

(* What is in the tree is one entry for each of a set of meetings: all     *)
(* those met, unless the tree is full.                                     *)
EntryPer(set) ==
    /\ IsFiniteSet(set) /\ Cardinality(set) = Len(nodes)
    /\ \A i \in 1..Len(inventory) :
          Occurrences(i) = Cardinality({m \in set : m[2] = i})
CountInv == \E set \in SUBSET Met : EntryPer(set) /\ (HasRoom => set = Met)

LEMMA ChainIs ==
    ASSUME inventory \in Seq(FunctionsOf), NEW m \in Meetings
    PROVE  /\ m[1] \in Chains /\ Len(m[1]) \in Nat
           /\ m[1] = [k \in 1..Len(m[1]) |-> m[1][k]]
           /\ \A k \in 1..Len(m[1]) :
                 /\ m[1][k] \in Rising /\ m[1][k] \in 1..Len(inventory)
                 /\ inventory[m[1][k]].bus =
                       IF k = 1 THEN 0 ELSE inventory[m[1][k - 1]].secondary_bus
           /\ m[2] \in 1..Len(inventory) /\ inventory[m[2]].bus = End(m[1])
           /\ m = <<m[1], m[2]>>
<1>1. DOMAIN inventory = 1..Len(inventory)
  OBVIOUS
<1>2. m \in Chains \X (1..Len(inventory)) /\ inventory[m[2]].bus = End(m[1])
  BY <1>1 DEF Meetings
<1>3. m[1] \in Chains /\ m[2] \in 1..Len(inventory) /\ m = <<m[1], m[2]>>
  BY <1>2
<1> DEFINE c == m[1]
<1>4. PICK k \in 0..Cardinality(Rising) : c \in [1..k -> Rising]
  BY <1>3 DEF Chains
<1>5. Cardinality(Rising) \in Nat
  <2>1. IsFiniteSet(1..Len(inventory)) /\ Rising \subseteq 1..Len(inventory)
    BY <1>1, FS_Interval, Len(inventory) \in Nat DEF Rising
  <2> QED
    BY <2>1, FS_Subset, FS_CardinalityType
<1>6. k \in Nat
  BY <1>4, <1>5
<1>7. \A j \in DOMAIN c :
         inventory[c[j]].bus = IF j = 1 THEN 0 ELSE inventory[c[j - 1]].secondary_bus
  BY <1>3 DEF Chains
<1> HIDE DEF c
<1>8. Len(c) = k /\ DOMAIN c = 1..k /\ c = [j \in 1..k |-> c[j]]
  BY <1>4, <1>6
<1>9. \A j \in 1..k : c[j] \in Rising /\ c[j] \in 1..Len(inventory)
  BY <1>1, <1>4 DEF Rising
<1> QED
  BY <1>2, <1>3, <1>6, <1>7, <1>8, <1>9 DEF c

(* The bridges of the calls under way are a chain, which leads to the bus  *)
(* of the call on top.                                                     *)
LEMMA WayIsChain ==
    ASSUME StackInv, NodesInv, stack # <<>>
    PROVE  /\ Way \in Chains /\ End(Way) = Top.bus /\ Len(Way) = Len(stack) - 1
           /\ \A k \in 1..(Len(stack) - 1) : Way[k] = stack[k].i - 1
<1> DEFINE n == Len(stack)
<1>1. /\ n \in Nat \ {0} /\ stack[1].bus = 0 /\ Top = stack[n]
      /\ inventory \in Seq(FunctionsOf)
  BY DEF StackInv, Top
<1>2. \A k \in 1..(n - 1) : /\ stack[k].i - 1 \in Rising
                            /\ inventory[stack[k].i - 1].bus = stack[k].bus
                            /\ inventory[stack[k].i - 1].secondary_bus = stack[k + 1].bus
  BY DEF StackInv
<1>3. /\ Way = [k \in 1..(n - 1) |-> stack[k].i - 1] /\ n - 1 \in Nat
      /\ DOMAIN Way = 1..(n - 1)
  BY <1>1 DEF Way
<1> HIDE DEF n
<1>4. /\ Way \in [1..(n - 1) -> Rising] /\ Len(Way) = n - 1
      /\ \A k \in 1..(n - 1) : Way[k] = stack[k].i - 1
  BY <1>2, <1>3
<1>5. \A j \in 1..(n - 1) :
         inventory[Way[j]].bus
             = IF j = 1 THEN 0 ELSE inventory[Way[j - 1]].secondary_bus
  <2> SUFFICES ASSUME NEW j \in 1..(n - 1)
               PROVE  inventory[Way[j]].bus
                        = IF j = 1 THEN 0 ELSE inventory[Way[j - 1]].secondary_bus
    OBVIOUS
  <2>1. inventory[Way[j]].bus = stack[j].bus
    BY <1>2, <1>4
  <2>2. CASE j = 1
    BY <1>1, <2>1, <2>2
  <2>3. CASE j # 1
    <3>1. j - 1 \in 1..(n - 1) /\ (j - 1) + 1 = j
      BY <1>1, <2>3
    <3>2. inventory[Way[j - 1]].secondary_bus = stack[j].bus
      BY <1>2, <1>4, <3>1
    <3> QED
      BY <2>1, <2>3, <3>2
  <2> QED
    BY <2>2, <2>3
<1>6. n - 1 \in 0..Cardinality(Rising)
  <2>1. IsFiniteSet(Rising) /\ Cardinality(Rising) \in Nat
    <3>1. Len(inventory) \in Nat /\ DOMAIN inventory = 1..Len(inventory)
      BY <1>1
    <3>2. IsFiniteSet(1..Len(inventory)) /\ Rising \subseteq 1..Len(inventory)
      BY <3>1, FS_Interval DEF Rising
    <3> QED
      BY <3>2, FS_Subset, FS_CardinalityType
  <2>2. /\ \A k \in 1..n : stack[k].bus \in Int
        /\ \A k \in 2..n : stack[k - 1].bus < stack[k].bus
    <3>1. \A k \in 1..n : stack[k] \in [bus : Buses, i : 1..(Len(inventory) + 1)]
      <4> DEFINE C == [bus : Buses, i : 1..(Len(inventory) + 1)]
      <4>1. stack \in Seq(C)
        BY DEF StackInv
      <4> HIDE DEF C
      <4>2. \A k \in 1..n : stack[k] \in C
        BY <4>1 DEF n
      <4> QED
        BY <4>2 DEF C
    <3>2. \A b \in Buses : b \in Int
      BY DEF Buses
    <3> QED
      BY <3>1, <3>2 DEF NodesInv, BridgesFirst, n
  <2>3. \A a, b \in 1..n : a < b => stack[a].bus < stack[b].bus
    <3> DEFINE bad == {b \in 1..n : \E a \in 1..n : a < b /\ ~(stack[a].bus < stack[b].bus)}
    <3>1. ASSUME bad # {} PROVE FALSE
      <4>1. bad \in SUBSET Nat
        OBVIOUS
      <4>2. PICK b \in bad : \A x \in bad : b <= x
        BY <3>1, <4>1, LeastNatural
      <4>3. PICK a \in 1..n : a < b /\ ~(stack[a].bus < stack[b].bus)
        OBVIOUS
      <4>4. b \in 2..n /\ b - 1 \in 1..n /\ ~(b <= b - 1)
        BY <1>1, <4>3
      <4>5. stack[b - 1].bus < stack[b].bus
        BY <2>2, <4>4
      <4>6. a = b - 1 \/ a < b - 1
        BY <4>3, <4>4
      <4>7. a # b - 1
        BY <4>3, <4>5
      <4>8. ~(stack[a].bus < stack[b - 1].bus)
        BY <2>2, <4>3, <4>4, <4>5
      <4>9. b - 1 \in bad
        BY <4>4, <4>6, <4>7, <4>8
      <4> QED
        BY <4>2, <4>4, <4>9
    <3> QED
      BY <3>1
  <2>4. Way \in Injection(1..(n - 1), Rising)
    <3>1. ASSUME NEW a \in 1..(n - 1), NEW b \in 1..(n - 1), Way[a] = Way[b]
          PROVE  a = b
      <4>1. stack[a].bus = stack[b].bus
        BY <1>2, <1>4, <3>1
      <4>2. a \in 1..n /\ b \in 1..n
        BY <1>1
      <4>3. ~(a < b) /\ ~(b < a)
        BY <2>2, <2>3, <4>1, <4>2
      <4> QED
        BY <4>3
    <3> QED
      BY <1>4, <3>1 DEF Injection, IsInjective
  <2>5. Cardinality(1..(n - 1)) = n - 1 /\ Cardinality(1..(n - 1)) <= Cardinality(Rising)
    <3>1. Cardinality(1..(n - 1)) <= Cardinality(Rising)
      BY <2>1, <2>4, FS_Injection
    <3>2. Cardinality(1..(n - 1)) = n - 1
      BY <1>3, FS_Interval, 1 \in Int, n - 1 \in Int
    <3> QED
      BY <3>1, <3>2
  <2> QED
    BY <1>3, <2>1, <2>5
<1>7. Way \in Chains
  BY <1>3, <1>4, <1>5, <1>6 DEF Chains
<1>8. End(Way) = Top.bus
  <2>1. CASE n = 1
    <3>1. Way = <<>>
      BY <1>3, <2>1
    <3> QED
      BY <1>1, <2>1, <3>1 DEF End
  <2>2. CASE n # 1
    <3>1. Way # <<>> /\ n - 1 \in 1..(n - 1) /\ (n - 1) + 1 = n
      BY <1>1, <1>4, <2>2
    <3>2. inventory[Way[n - 1]].secondary_bus = stack[n].bus
      BY <1>2, <1>4, <3>1
    <3> QED
      BY <1>1, <1>4, <3>1, <3>2 DEF End
  <2> QED
    BY <2>1, <2>2
<1> QED
  BY <1>4, <1>7, <1>8 DEF n

(* The meeting a turn is at.                                               *)
Here(i) == <<Way, i>>

(* A turn that finds room goes past the meeting it is at, if it takes it,  *)
(* and past nothing else.                                                  *)
LEMMA TurnPasses ==
    ASSUME StackInv, NodesInv, NEW n \in Nat \ {0}, NEW i \in 1..Len(inventory),
           NEW calls,
           Len(stack) = n, stack[n].i = i, Top = stack[n],
           Len(calls) = (IF Descends(i) THEN n + 1 ELSE n), calls # <<>>,
           \A k \in 1..(n - 1) : calls[k] = stack[k], calls[n].i = i + 1,
           Descends(i) => calls[n + 1].i = 1
    PROVE  /\ \A m \in Meetings : Past(stack, m) => Past(calls, m)
           /\ Taken(i) => /\ Here(i) \in Meetings /\ ~Past(stack, Here(i))
                          /\ Past(calls, Here(i))
           /\ HasRoom => \A m \in Meetings :
                            Past(calls, m) /\ ~Past(stack, m) => m = Here(i) /\ Taken(i)
<1>1. inventory \in Seq(FunctionsOf) /\ stack # <<>> /\ Len(inventory) \in Nat
  BY DEF StackInv
<1>2. /\ Way \in Chains /\ End(Way) = stack[n].bus /\ Len(Way) = n - 1
      /\ \A k \in 1..(n - 1) : Way[k] = stack[k].i - 1
  BY <1>1, WayIsChain
<1>3. ASSUME NEW m \in Meetings, Past(stack, m) PROVE Past(calls, m)
  <2>1. PICK j \in 1..n :
             /\ j <= Len(m[1]) + 1
             /\ \A l \in 1..(j - 1) : m[1][l] = stack[l].i - 1
             /\ StepOf(m, j) < stack[j].i
             /\ StepOf(m, j) = stack[j].i - 1 => j = n \/ j = Len(m[1]) + 1
    BY <1>1, <1>3 DEF Past
  <2>2. j \in 1..Len(calls) /\ \A l \in 1..(j - 1) : calls[l] = stack[l]
    OBVIOUS
  <2>3. CASE j = n
    <3>1. StepOf(m, j) \in Int
      <4>1. /\ Len(m[1]) \in Nat /\ m[2] \in Int
            /\ \A k \in 1..Len(m[1]) : m[1][k] \in Int
        <5>1. /\ Len(m[1]) \in Nat /\ m[2] \in 1..Len(inventory)
              /\ \A k \in 1..Len(m[1]) : m[1][k] \in 1..Len(inventory)
          BY <1>1, ChainIs
        <5> QED
          BY <1>1, <5>1, SMTT(60)
      <4>2. StepOf(m, j) = IF j <= Len(m[1]) THEN m[1][j] ELSE m[2]
        BY DEF StepOf
      <4>3. j \in Nat \ {0}
        OBVIOUS
      <4> QED
        BY <4>1, <4>2, <4>3
    <3>2. StepOf(m, j) < calls[j].i /\ StepOf(m, j) # calls[j].i - 1
      BY <2>1, <2>3, <3>1
    <3> QED
      BY <2>1, <2>2, <3>2 DEF Past
  <2>4. CASE j # n
    <3>1. calls[j] = stack[j]
      BY <2>4
    <3> QED
      BY <2>1, <2>2, <2>4, <3>1 DEF Past
  <2> QED
    BY <2>3, <2>4
<1>4. ASSUME Taken(i)
      PROVE  /\ Here(i) \in Meetings /\ ~Past(stack, Here(i)) /\ Past(calls, Here(i))
  <2>1. inventory[i].bus = stack[n].bus /\ i \in DOMAIN inventory
    BY <1>1, <1>4 DEF Taken
  <2>2. Here(i)[1] = Way /\ Here(i)[2] = i
    BY DEF Here
  <2>3. Here(i) \in Meetings
    BY <1>2, <2>1, <2>2 DEF Meetings, Here
  <2>4. StepOf(Here(i), n) = i /\ \A j \in 1..(n - 1) : StepOf(Here(i), j) = stack[j].i - 1
    BY <1>2, <2>2 DEF StepOf
  <2>5. ~Past(stack, Here(i))
    <3> SUFFICES ASSUME NEW j \in 1..n,
                        StepOf(Here(i), j) < stack[j].i,
                        StepOf(Here(i), j) = stack[j].i - 1 => j = n \/ j = n
                 PROVE  FALSE
      BY <1>1, <1>2, <2>2 DEF Past
    <3>1. j = n
      <4>1. j # n => j \in 1..(n - 1)
        OBVIOUS
      <4> QED
        BY <2>4, <4>1
    <3> QED
      BY <2>4, <3>1
  <2>6. Past(calls, Here(i))
    <3>1. /\ n \in 1..Len(calls) /\ n <= Len(Way) + 1 /\ n = Len(Way) + 1
          /\ StepOf(Here(i), n) < calls[n].i
      BY <1>2, <2>4
    <3>2. \A l \in 1..(n - 1) : Way[l] = calls[l].i - 1
      BY <1>2
    <3> QED
      BY <2>2, <3>1, <3>2 DEF Past
  <2> QED
    BY <2>3, <2>5, <2>6
<1>5. ASSUME HasRoom, NEW m \in Meetings, Past(calls, m), ~Past(stack, m)
      PROVE  m = Here(i) /\ Taken(i)
  <2> DEFINE c == m[1]
  <2>1. /\ c \in Chains /\ Len(c) \in Nat /\ c = [k \in 1..Len(c) |-> c[k]]
        /\ \A k \in 1..Len(c) :
              /\ c[k] \in Rising /\ c[k] \in 1..Len(inventory)
              /\ inventory[c[k]].bus =
                    IF k = 1 THEN 0 ELSE inventory[c[k - 1]].secondary_bus
        /\ m[2] \in 1..Len(inventory) /\ inventory[m[2]].bus = End(c)
        /\ m = <<c, m[2]>>
    BY <1>1, ChainIs
  <2> HIDE DEF c
  <2>2. PICK j \in 1..Len(calls) :
             /\ j <= Len(c) + 1
             /\ \A l \in 1..(j - 1) : c[l] = calls[l].i - 1
             /\ StepOf(m, j) < calls[j].i
             /\ StepOf(m, j) = calls[j].i - 1 => j = Len(calls) \/ j = Len(c) + 1
    BY <1>5 DEF Past, c
  <2>3. StepOf(m, j) \in Nat \ {0} /\ j \in Nat \ {0}
    <3>1. StepOf(m, j) = IF j <= Len(c) THEN c[j] ELSE m[2]
      BY DEF StepOf, c
    <3>2. /\ Len(c) \in Nat /\ m[2] \in Nat \ {0}
          /\ \A k \in 1..Len(c) : c[k] \in Nat \ {0}
      BY <1>1, <2>1, SMTT(60)
    <3>3. j \in Nat \ {0}
      OBVIOUS
    <3> QED
      BY <3>1, <3>2, <3>3
  <2>4. ~(\E k \in 1..n :
             /\ k <= Len(c) + 1
             /\ \A l \in 1..(k - 1) : c[l] = stack[l].i - 1
             /\ StepOf(m, k) < stack[k].i
             /\ StepOf(m, k) = stack[k].i - 1 => k = n \/ k = Len(c) + 1)
    BY <1>1, <1>5 DEF Past, c
  <2>5. ~(j \in 1..(n - 1))
    <3> SUFFICES ASSUME j \in 1..(n - 1) PROVE FALSE
      OBVIOUS
    <3>1. j \in 1..n /\ j # Len(calls) /\ calls[j] = stack[j]
          /\ \A l \in 1..(j - 1) : calls[l] = stack[l]
      OBVIOUS
    <3> QED
      BY <2>2, <2>4, <3>1
  <2>6. j = n
    <3> SUFFICES ASSUME j # n PROVE FALSE
      OBVIOUS
    <3>1. Descends(i) /\ j = n + 1
      BY <2>3, <2>5
    <3>2. calls[j].i = 1
      BY <3>1
    <3>3. StepOf(m, j) < calls[j].i
      BY <2>2
    <3> QED
      BY <2>3, <3>2, <3>3
  <2>7. /\ \A l \in 1..(n - 1) : c[l] = stack[l].i - 1
        /\ n <= Len(c) + 1
    BY <2>2, <2>6
  <2>8. StepOf(m, n) = i
    <3> SUFFICES ASSUME StepOf(m, n) # i PROVE FALSE
      OBVIOUS
    <3>1. StepOf(m, n) < i
      BY <2>2, <2>3, <2>6
    <3> QED
      BY <2>4, <2>7, <3>1, n \in 1..n
  <2>9. n = Len(calls) \/ n = Len(c) + 1
    BY <2>2, <2>6, <2>8
  <2>10. CASE n = Len(c) + 1
    <3>1. c = Way
      <4>1. Len(c) = n - 1
        BY <2>1, <2>10
      <4>2. Way = [k \in 1..(n - 1) |-> stack[k].i - 1]
        BY DEF Way
      <4>3. \A k \in 1..(n - 1) : c[k] = stack[k].i - 1
        BY <2>7
      <4>4. c = [k \in 1..(n - 1) |-> c[k]]
        BY <2>1, <4>1
      <4> QED
        BY <4>2, <4>3, <4>4
    <3>2. m[2] = i
      <4>1. ~(n <= Len(c))
        BY <2>1, <2>10
      <4> QED
        BY <2>8, <4>1 DEF StepOf, c
    <3>3. m = Here(i)
      BY <2>1, <3>1, <3>2 DEF Here
    <3>4. inventory[i].bus = stack[n].bus
      BY <1>2, <2>1, <3>1, <3>2
    <3> QED
      BY <1>5, <3>3, <3>4 DEF Taken
  <2>11. CASE n # Len(c) + 1
    <3>1. n \in 1..Len(c) /\ ~Descends(i)
      BY <2>1, <2>7, <2>9, <2>11
    <3>2. c[n] = i
      BY <2>8, <3>1 DEF StepOf, c
    <3>3. inventory[i].bus = stack[n].bus
      <4>1. inventory[i].bus = IF n = 1 THEN 0 ELSE inventory[c[n - 1]].secondary_bus
        BY <2>1, <3>1, <3>2
      <4>2. CASE n = 1
        BY <1>1, <4>1, <4>2 DEF StackInv
      <4>3. CASE n # 1
        <5>1. n - 1 \in 1..(n - 1) /\ (n - 1) + 1 = n
          BY <4>3
        <5>2. inventory[stack[n - 1].i - 1].secondary_bus = stack[n].bus
          BY <5>1 DEF StackInv
        <5>3. c[n - 1] = stack[n - 1].i - 1
          BY <2>7, <5>1
        <5> QED
          BY <4>1, <4>3, <5>2, <5>3
      <4> QED
        BY <4>2, <4>3
    <3>4. i \in Rising
      BY <2>1, <3>1, <3>2
    <3>5. Descends(i)
      BY <1>5, <3>3, <3>4 DEF Descends, Taken, LeadsOn, Rising
    <3> QED
      BY <3>1, <3>5
  <2> QED
    BY <2>10, <2>11
<1> QED
  BY <1>3, <1>4, <1>5

(* A return goes past nothing: what the call was at the end of is behind   *)
(* the index of the call below.                                            *)
LEMMA ReturnPasses ==
    ASSUME StackInv, NEW n \in Nat \ {0}, NEW calls,
           Len(stack) = n, stack[n].i = Len(inventory) + 1,
           Len(calls) = n - 1, calls = <<>> <=> n = 1,
           \A k \in 1..(n - 1) : calls[k] = stack[k],
           NEW m \in Meetings
    PROVE  Past(stack, m) <=> Past(calls, m)
<1> DEFINE c == m[1]
<1>1. inventory \in Seq(FunctionsOf) /\ stack # <<>> /\ Len(inventory) \in Nat
  BY DEF StackInv
<1>2. /\ Len(c) \in Nat /\ m[2] \in 1..Len(inventory)
      /\ \A k \in 1..Len(c) : c[k] \in 1..Len(inventory)
  BY <1>1, ChainIs
<1>3. \A j \in 1..(Len(c) + 1) : StepOf(m, j) \in 1..Len(inventory)
  BY <1>2 DEF StepOf
<1>4. \A j \in 1..Len(c) : StepOf(m, j) = c[j]
  BY <1>2 DEF StepOf
<1>5. Past(stack, m) <=>
         \E j \in 1..n :
             /\ j <= Len(c) + 1
             /\ \A l \in 1..(j - 1) : c[l] = stack[l].i - 1
             /\ StepOf(m, j) < stack[j].i
             /\ StepOf(m, j) = stack[j].i - 1 => j = n \/ j = Len(c) + 1
  BY <1>1 DEF Past
<1>6. Past(calls, m) <=>
         \/ n = 1
         \/ \E j \in 1..(n - 1) :
             /\ j <= Len(c) + 1
             /\ \A l \in 1..(j - 1) : c[l] = calls[l].i - 1
             /\ StepOf(m, j) < calls[j].i
             /\ StepOf(m, j) = calls[j].i - 1 => j = n - 1 \/ j = Len(c) + 1
  BY DEF Past
<1>7. \A k \in 1..(n - 1) : stack[k].i \in Int
  <2> DEFINE C == [bus : Buses, i : 1..(Len(inventory) + 1)]
  <2>1. stack \in Seq(C)
    BY DEF StackInv
  <2> HIDE DEF C
  <2>2. \A k \in 1..(n - 1) : stack[k] \in C
    BY <2>1
  <2> QED
    BY <2>2 DEF C
<1> HIDE DEF c
<1>8. CASE n = 1
  <2>1. 1 \in 1..n /\ 1 <= Len(c) + 1 /\ 1 \in 1..(Len(c) + 1)
    BY <1>2, <1>8
  <2>2. StepOf(m, 1) < stack[1].i
    BY <1>1, <1>3, <1>8, <2>1
  <2>3. \A l \in 1..(1 - 1) : c[l] = stack[l].i - 1
    OBVIOUS
  <2> QED
    BY <1>5, <1>6, <1>8, <2>1, <2>2, <2>3
<1>9. CASE n # 1
  <2>1. n - 1 \in 1..(n - 1) /\ n - 1 \in Nat \ {0}
    BY <1>9
  <2>2. ASSUME NEW j \in 1..n,
               j <= Len(c) + 1,
               \A l \in 1..(j - 1) : c[l] = stack[l].i - 1,
               StepOf(m, j) < stack[j].i,
               StepOf(m, j) = stack[j].i - 1 => j = n \/ j = Len(c) + 1
        PROVE  Past(calls, m)
    <3>1. CASE j # n
      <4>1. j \in 1..(n - 1) /\ calls[j] = stack[j]
            /\ \A l \in 1..(j - 1) : calls[l] = stack[l]
        BY <3>1
      <4> QED
        BY <1>6, <2>2, <3>1, <4>1
    <3>2. CASE j = n
      <4>1. /\ n - 1 \in 1..Len(c) /\ c[n - 1] = stack[n - 1].i - 1
            /\ n - 1 <= Len(c) + 1
        BY <1>2, <2>1, <2>2, <3>2
      <4>2. StepOf(m, n - 1) = stack[n - 1].i - 1
        BY <1>4, <4>1 DEF c
      <4>3. StepOf(m, n - 1) < calls[n - 1].i
        BY <1>7, <2>1, <4>2
      <4>4. \A l \in 1..((n - 1) - 1) : c[l] = calls[l].i - 1
        BY <2>2, <3>2
      <4> QED
        BY <1>6, <2>1, <4>1, <4>3, <4>4
    <3> QED
      BY <3>1, <3>2
  <2>3. ASSUME NEW j \in 1..(n - 1),
               j <= Len(c) + 1,
               \A l \in 1..(j - 1) : c[l] = calls[l].i - 1,
               StepOf(m, j) < calls[j].i,
               StepOf(m, j) = calls[j].i - 1 => j = n - 1 \/ j = Len(c) + 1
        PROVE  Past(stack, m)
    <3>1. j \in 1..n /\ calls[j] = stack[j] /\ \A l \in 1..(j - 1) : calls[l] = stack[l]
      OBVIOUS
    <3>2. CASE StepOf(m, j) = stack[j].i - 1 => j = Len(c) + 1
      BY <1>5, <2>3, <3>1, <3>2
    <3>3. CASE StepOf(m, j) = stack[j].i - 1 /\ j # Len(c) + 1
      <4>1. j = n - 1 /\ j \in 1..Len(c) /\ n <= Len(c) + 1 /\ n \in 1..(Len(c) + 1)
        BY <1>2, <2>1, <2>3, <3>1, <3>3
      <4>2. c[n - 1] = stack[n - 1].i - 1
        BY <1>4, <3>3, <4>1 DEF c
      <4>3. \A l \in 1..(n - 1) : c[l] = stack[l].i - 1
        <5>1. \A l \in 1..(n - 1) : l = n - 1 \/ l \in 1..(j - 1)
          BY <4>1
        <5> QED
          BY <2>3, <3>1, <4>2, <5>1
      <4>4. StepOf(m, n) < stack[n].i
        BY <1>1, <1>3, <4>1 DEF c
      <4> QED
        BY <1>5, <4>1, <4>3, <4>4, n \in 1..n
    <3> QED
      BY <3>2, <3>3
  <2> QED
    BY <1>5, <1>6, <1>9, <2>2, <2>3
<1> QED
  BY <1>8, <1>9

(* There are finitely many meetings: a chain is known by its graph.        *)
LEMMA MeetingsFinite ==
    ASSUME inventory \in Seq(FunctionsOf)
    PROVE  IsFiniteSet(Meetings)
<1> DEFINE R == Rising
           K == Cardinality(R)
           Graph(c) == {<<j, c[j]>> : j \in DOMAIN c}
           Pairs == SUBSET ((1..K) \X R)
           g == [c \in Chains |-> Graph(c)]
<1>1. /\ Len(inventory) \in Nat /\ DOMAIN inventory = 1..Len(inventory)
      /\ IsFiniteSet(1..Len(inventory))
  <2>1. Len(inventory) \in Nat /\ DOMAIN inventory = 1..Len(inventory)
    OBVIOUS
  <2> QED
    BY <2>1, FS_Interval
<1>2. IsFiniteSet(R) /\ K \in Nat
  <2>1. R \subseteq 1..Len(inventory)
    BY <1>1 DEF Rising
  <2> QED
    BY <1>1, <2>1, FS_Subset, FS_CardinalityType
<1>3. IsFiniteSet(Pairs)
  <2>1. IsFiniteSet(1..K)
    BY <1>2, FS_Interval
  <2>2. IsFiniteSet((1..K) \X R)
    BY <1>2, <2>1, FS_Product
  <2> QED
    BY <2>2, FS_SUBSET
<1>4. ASSUME NEW c \in Chains
      PROVE  \E k \in 0..K : c \in [1..k -> R] /\ DOMAIN c \subseteq 1..K
  <2>1. PICK k \in 0..K : c \in [1..k -> R]
    BY DEF Chains
  <2>2. DOMAIN c = 1..k /\ 1..k \subseteq 1..K
    BY <1>2, <2>1
  <2> QED
    BY <2>1, <2>2
<1>5. ASSUME NEW c \in Chains PROVE Graph(c) \in Pairs
  <2>1. \A j \in DOMAIN c : j \in 1..K /\ c[j] \in R
    BY <1>4
  <2> QED
    BY <2>1
<1>6. ASSUME NEW c \in Chains, NEW d \in Chains, Graph(c) = Graph(d) PROVE c = d
  <2>1. DOMAIN c = DOMAIN d
    <3>1. \A j \in DOMAIN c : <<j, c[j]>> \in Graph(d)
      BY <1>6
    <3>2. \A j \in DOMAIN d : <<j, d[j]>> \in Graph(c)
      BY <1>6
    <3> QED
      BY <3>1, <3>2
  <2>2. \A j \in DOMAIN c : c[j] = d[j]
    <3>1. \A j \in DOMAIN c : <<j, c[j]>> \in Graph(d)
      BY <1>6
    <3> QED
      BY <3>1
  <2>3. /\ c = [j \in DOMAIN c |-> c[j]]
        /\ d = [j \in DOMAIN d |-> d[j]]
    BY <1>4
  <2> HIDE DEF Graph
  <2> QED
    BY <2>1, <2>2, <2>3
<1> HIDE DEF Graph, Pairs
<1>7. g \in Injection(Chains, Pairs)
  BY <1>5, <1>6 DEF Injection, IsInjective
<1>8. IsFiniteSet(Chains)
  BY <1>3, <1>7, FS_Injection
<1>9. IsFiniteSet(Chains \X DOMAIN inventory)
  BY <1>1, <1>8, FS_Product
<1>10. Meetings \in SUBSET (Chains \X DOMAIN inventory)
  BY DEF Meetings
<1> QED
  BY <1>9, <1>10, FS_Subset

(* How often a function is in the tree when one more entry is made.        *)
LEMMA OccurrencesAfter ==
    ASSUME inventory \in Seq(FunctionsOf), nodes \in Seq(1..Len(inventory)),
           NEW i \in 1..Len(inventory), NEW x
    PROVE  /\ Occurrences(x) \in Nat
           /\ Cardinality({k \in DOMAIN Append(nodes, i) : Append(nodes, i)[k] = x})
                 = IF x = i THEN Occurrences(x) + 1 ELSE Occurrences(x)
<1> DEFINE longer == Append(nodes, i)
           Old == {k \in DOMAIN nodes : nodes[k] = x}
           New == {k \in DOMAIN longer : longer[k] = x}
           p == Len(nodes) + 1
<1>1. /\ p \in Nat \ {0} /\ DOMAIN nodes = 1..(p - 1) /\ DOMAIN longer = 1..p
      /\ longer[p] = i /\ \A k \in 1..(p - 1) : longer[k] = nodes[k]
  BY AppendFacts
<1>2. IsFiniteSet(Old) /\ Cardinality(Old) \in Nat
  <2>1. Old \in SUBSET (1..(p - 1)) /\ IsFiniteSet(1..(p - 1))
    BY <1>1, FS_Interval
  <2> QED
    BY <2>1, FS_Subset, FS_CardinalityType
<1>3. p \notin Old
  BY <1>1
<1>4. Occurrences(x) = Cardinality(Old)
  BY DEF Occurrences, Count
<1>5. CASE x = i
  <2>1. New = Old \cup {p}
    BY <1>1, <1>5
  <2> HIDE DEF Old, New, p
  <2>2. Cardinality(New) = Cardinality(Old) + 1
    BY <1>2, <1>3, <2>1, FS_AddElement
  <2> QED
    BY <1>2, <1>4, <1>5, <2>2 DEF New
<1>6. CASE x # i
  <2>1. New = Old
    BY <1>1, <1>6
  <2> QED
    BY <1>2, <1>4, <1>6, <2>1
<1> QED
  BY <1>5, <1>6

LEMMA CountInitially == Init => CountInv
<1> SUFFICES ASSUME Init PROVE CountInv
  OBVIOUS
<1>1. StackInv /\ nodes = <<>> /\ stack = <<Call(0)>>
  BY WalkInitially DEF Init
<1>2. inventory \in Seq(FunctionsOf)
  BY <1>1 DEF StackInv
<1>3. ASSUME NEW m \in Met PROVE FALSE
  <2>1. m \in Meetings /\ Past(stack, m)
    BY DEF Met
  <2>2. /\ Len(m[1]) \in Nat /\ m[2] \in 1..Len(inventory)
        /\ \A k \in 1..Len(m[1]) : m[1][k] \in 1..Len(inventory)
    BY <1>2, <2>1, ChainIs
  <2>3. Len(stack) = 1 /\ stack[1].i = 1 /\ stack # <<>>
    BY <1>1 DEF Call
  <2>4. StepOf(m, 1) < 1
    BY <2>1, <2>3 DEF Past
  <2>5. StepOf(m, 1) \in Nat \ {0}
    BY <2>2 DEF StepOf
  <2> QED
    BY <2>4, <2>5
<1>4. Met = {}
  BY <1>3
<1>5. EntryPer({})
  <2>1. Len(nodes) = 0 /\ IsFiniteSet({}) /\ Cardinality({}) = 0
    BY <1>1, FS_EmptySet
  <2>2. \A i \in 1..Len(inventory) :
           /\ {k \in DOMAIN nodes : nodes[k] = i} = {}
           /\ {m \in {} : m[2] = i} = {}
    BY <1>1
  <2> QED
    BY <2>1, <2>2 DEF EntryPer, Occurrences, Count
<1> QED
  BY <1>4, <1>5 DEF CountInv

LEMMA CountTurn ==
    ASSUME StackInv, NodesInv, CountInv, Turn
    PROVE  CountInv'
<1>1. PICK n \in Nat \ {0}, i \in 1..Len(inventory) :
              /\ Len(stack) = n /\ stack[n].i = i /\ Top = stack[n]
              /\ inventory' = inventory
              /\ nodes' = IF Taken(i) THEN Append(nodes, i) ELSE nodes
              /\ Len(stack') = IF Descends(i) THEN n + 1 ELSE n
              /\ \A k \in 1..(n - 1) : stack'[k] = stack[k]
              /\ stack'[n].bus = stack[n].bus /\ stack'[n].i = i + 1
              /\ Descends(i) => stack'[n + 1] = Call(inventory[i].secondary_bus)
              /\ stack' \in Seq([bus : Buses, i : 1..(Len(inventory) + 1)])
              /\ stack' # <<>>
  BY TurnIs
<1>2. PICK set \in SUBSET Met : EntryPer(set) /\ (HasRoom => set = Met)
  BY DEF CountInv
<1>3. PICK calls : calls = stack'
  OBVIOUS
<1>4. PICK longer : longer = nodes'
  OBVIOUS
<1> DEFINE After == {m \in Meetings : Past(calls, m)}
<1>5. Met' = After
  <2>1. Meetings' = Meetings
    BY <1>1 DEF Meetings, Chains, Rising, End
  <2>2. \A m : Past(stack', m) <=> Past(calls, m)
    BY <1>3
  <2>3. Met' = {m \in Meetings' : Past(stack', m)}
    BY DEF Met, Past, StepOf
  <2> QED
    BY <2>1, <2>2, <2>3
<1>6. /\ \A m \in Meetings : Past(stack, m) => Past(calls, m)
      /\ Taken(i) => /\ Here(i) \in Meetings /\ ~Past(stack, Here(i))
                     /\ Past(calls, Here(i))
      /\ HasRoom => \A m \in Meetings :
                       Past(calls, m) /\ ~Past(stack, m) => m = Here(i) /\ Taken(i)
  <2>1. Descends(i) => calls[n + 1].i = 1
    BY <1>1, <1>3 DEF Call
  <2>2. /\ Len(calls) = (IF Descends(i) THEN n + 1 ELSE n) /\ calls # <<>>
        /\ \A k \in 1..(n - 1) : calls[k] = stack[k]
        /\ calls[n].i = i + 1
    BY <1>1, <1>3
  <2>3. Len(stack) = n /\ stack[n].i = i /\ Top = stack[n]
    BY <1>1
  <2> QED
    BY <2>1, <2>2, <2>3, TurnPasses
<1>7. Met \subseteq After
  BY <1>6 DEF Met
<1>8. HasRoom <=> Len(nodes) < MAX_NODES
  BY DEF HasRoom
<1>9. /\ nodes \in Seq(1..Len(inventory)) /\ Len(nodes) \in Nat /\ MAX_NODES \in Nat
      /\ inventory \in Seq(FunctionsOf)
  BY EnumAssumption DEF NodesInv, StackInv
<1>10. HasRoom' <=> Len(longer) < MAX_NODES
  BY <1>4 DEF HasRoom
<1>11. ASSUME NEW s, IsFiniteSet(s), Cardinality(s) = Len(longer),
              \A x \in 1..Len(inventory) :
                 Cardinality({k \in DOMAIN longer : longer[k] = x})
                    = Cardinality({m \in s : m[2] = x})
       PROVE  EntryPer(s)'
  <2>1. Len(nodes') = Len(longer) /\ Len(inventory') = Len(inventory)
    BY <1>1, <1>4
  <2>2. \A x : {k \in DOMAIN nodes' : nodes'[k] = x}
                 = {k \in DOMAIN longer : longer[k] = x}
    BY <1>4
  <2> QED
    BY <1>11, <2>1, <2>2 DEF EntryPer, Occurrences, Count
<1>12. CASE Taken(i)
  <2>0. PICK more : more = set \cup {Here(i)}
    OBVIOUS
  <2>1. /\ HasRoom /\ set = Met /\ longer = Append(nodes, i)
        /\ Len(longer) = Len(nodes) + 1
    BY <1>1, <1>2, <1>4, <1>9, <1>12, AppendFacts DEF Taken
  <2>2. Here(i) \notin set /\ Here(i) \in After /\ Here(i)[2] = i
    BY <1>6, <1>12, <2>1 DEF Met, Here
  <2>3. more = After
    <3>1. \A m \in After : m \in Met \/ m = Here(i)
      BY <1>6, <2>1 DEF Met
    <3> QED
      BY <1>7, <2>0, <2>1, <2>2, <3>1
  <2>4. IsFiniteSet(more) /\ Cardinality(more) = Len(longer)
    <3>1. IsFiniteSet(set) /\ Cardinality(set) = Len(nodes)
      BY <1>2 DEF EntryPer
    <3> QED
      BY <2>0, <2>1, <2>2, <3>1, FS_AddElement
  <2>5. ASSUME NEW x \in 1..Len(inventory)
        PROVE  Cardinality({k \in DOMAIN longer : longer[k] = x})
                  = Cardinality({m \in more : m[2] = x})
    <3> DEFINE Of == {m \in set : m[2] = x}
    <3>1. /\ Occurrences(x) \in Nat
          /\ Cardinality({k \in DOMAIN longer : longer[k] = x})
                = IF x = i THEN Occurrences(x) + 1 ELSE Occurrences(x)
      <4>1. /\ Occurrences(x) \in Nat
            /\ Cardinality({k \in DOMAIN Append(nodes, i) : Append(nodes, i)[k] = x})
                  = IF x = i THEN Occurrences(x) + 1 ELSE Occurrences(x)
        BY <1>9, OccurrencesAfter
      <4> QED
        BY <2>1, <4>1
    <3>2. Occurrences(x) = Cardinality(Of) /\ IsFiniteSet(Of)
      <4>1. Of \in SUBSET set /\ IsFiniteSet(set)
        BY <1>2 DEF EntryPer
      <4>2. Occurrences(x) = Cardinality(Of)
        BY <1>2 DEF EntryPer
      <4>3. IsFiniteSet(Of)
        BY <4>1, FS_Subset
      <4> QED
        BY <4>2, <4>3
    <3>3. CASE x = i
      <4>1. {m \in more : m[2] = x} = Of \cup {Here(i)} /\ Here(i) \notin Of
        BY <2>0, <2>2, <3>3
      <4>2. Cardinality({m \in more : m[2] = x}) = Cardinality(Of) + 1
        BY <3>2, <4>1, FS_AddElement
      <4> QED
        BY <3>1, <3>2, <3>3, <4>2
    <3>4. CASE x # i
      <4>1. {m \in more : m[2] = x} = Of
        BY <2>0, <2>2, <3>4
      <4> QED
        BY <3>1, <3>2, <3>4, <4>1
    <3> QED
      BY <3>3, <3>4
  <2>6. EntryPer(more)'
    BY <1>11, <2>4, <2>5
  <2> QED
    BY <1>5, <2>3, <2>6 DEF CountInv
<1>13. CASE ~Taken(i)
  <2>1. longer = nodes
    BY <1>1, <1>4, <1>13
  <2>2. EntryPer(set)'
    <3>1. /\ IsFiniteSet(set) /\ Cardinality(set) = Len(longer)
          /\ \A x \in 1..Len(inventory) :
                 Cardinality({k \in DOMAIN longer : longer[k] = x})
                    = Cardinality({m \in set : m[2] = x})
      BY <1>2, <2>1 DEF EntryPer, Occurrences, Count
    <3> QED
      BY <1>11, <3>1
  <2>3. HasRoom' => set = After
    <3> SUFFICES ASSUME HasRoom' PROVE set = After
      OBVIOUS
    <3>1. HasRoom /\ set = Met
      BY <1>2, <1>8, <1>10, <2>1
    <3>2. \A m \in After : m \in Met
      BY <1>6, <1>13, <3>1 DEF Met
    <3> QED
      BY <1>7, <3>1, <3>2
  <2>4. set \in SUBSET After
    BY <1>7
  <2> QED
    BY <1>5, <2>2, <2>3, <2>4 DEF CountInv
<1> QED
  BY <1>12, <1>13

LEMMA CountReturn ==
    ASSUME StackInv, NodesInv, CountInv, Return
    PROVE  CountInv'
<1>1. PICK n \in Nat \ {0} :
              /\ Len(stack) = n /\ stack[n].i = Len(inventory) + 1
              /\ inventory' = inventory /\ nodes' = nodes
              /\ Len(stack') = n - 1
              /\ \A k \in 1..(n - 1) : stack'[k] = stack[k]
              /\ stack' \in Seq([bus : Buses, i : 1..(Len(inventory) + 1)])
              /\ stack' = <<>> <=> n = 1
  BY ReturnIs
<1>2. PICK set \in SUBSET Met : EntryPer(set) /\ (HasRoom => set = Met)
  BY DEF CountInv
<1>3. PICK calls : calls = stack'
  OBVIOUS
<1>4. Met' = Met
  <2>1. Meetings' = Meetings
    BY <1>1 DEF Meetings, Chains, Rising, End
  <2>2. ASSUME NEW m \in Meetings PROVE Past(stack, m) <=> Past(calls, m)
    BY <1>1, <1>3, ReturnPasses
  <2>3. Met' = {m \in Meetings' : Past(stack', m)}
    BY DEF Met, Past, StepOf
  <2>4. \A m : Past(stack', m) <=> Past(calls, m)
    BY <1>3
  <2> QED
    BY <2>1, <2>2, <2>3, <2>4 DEF Met
<1>5. EntryPer(set)'
  BY <1>1, <1>2 DEF EntryPer, Occurrences, Count
<1>6. HasRoom' <=> HasRoom
  BY <1>1 DEF HasRoom
<1> QED
  BY <1>2, <1>4, <1>5, <1>6 DEF CountInv

(* For any inventory, the walk finds every function as often as there are  *)
(* ways to reach it, unless the tree is full, and never more often.        *)
THEOREM FindsReachable == Spec => []FindsExactlyReachable
<1> DEFINE Inv == StackInv /\ NodesInv /\ CountInv
<1>1. Init => Inv
  BY WalkInitially, CountInitially
<1>2. Inv /\ [Next]_vars => Inv'
  <2>1. CASE UNCHANGED vars
    <3>1. CountInv /\ UNCHANGED vars => CountInv'
      <4> SUFFICES ASSUME CountInv, UNCHANGED vars PROVE CountInv'
        OBVIOUS
      <4>1. PICK set \in SUBSET Met : EntryPer(set) /\ (HasRoom => set = Met)
        BY DEF CountInv
      <4>2. EntryPer(set)'
        BY <4>1 DEF EntryPer, Occurrences, Count, vars
      <4>3. Met' = Met
        BY DEF Met, Meetings, Chains, Rising, End, Past, StepOf, vars
      <4>4. HasRoom' <=> HasRoom
        BY DEF HasRoom, vars
      <4> QED
        BY <4>1, <4>2, <4>3, <4>4 DEF CountInv
    <3> QED
      BY <2>1, <3>1, WalkInductive
  <2> QED
    BY <2>1, WalkInductive, CountTurn, CountReturn DEF Next, Done
<1>3. Inv => FindsExactlyReachable
  <2> SUFFICES ASSUME Inv PROVE FindsExactlyReachable
    OBVIOUS
  <2>1. /\ inventory \in Seq(FunctionsOf) /\ Len(nodes) \in Nat /\ MAX_NODES \in Nat
        /\ Len(nodes) <= MAX_NODES /\ DOMAIN inventory = 1..Len(inventory)
    BY EnumAssumption DEF StackInv, NodesInv
  <2>2. PICK set \in SUBSET Met : EntryPer(set) /\ (HasRoom => set = Met)
    BY DEF CountInv
  <2>3. IsFiniteSet(Meetings)
    BY <2>1, MeetingsFinite
  <2>4. ASSUME NEW i \in 1..Len(inventory)
        PROVE  Occurrences(i) <= Count({m \in Meetings : m[2] = i})
    <3> DEFINE Of == {m \in set : m[2] = i}
               All == {m \in Meetings : m[2] = i}
    <3>1. Of \in SUBSET All /\ All \in SUBSET Meetings
      BY DEF Met
    <3>2. IsFiniteSet(All)
      BY <2>3, <3>1, FS_Subset
    <3>3. Cardinality(Of) <= Cardinality(All)
      BY <3>1, <3>2, FS_Subset
    <3> QED
      BY <2>2, <3>3 DEF EntryPer, Count
  <2>5. stack = <<>> => \/ Len(nodes) = MAX_NODES
                        \/ Len(nodes) = Count(Meetings)
    <3> SUFFICES ASSUME stack = <<>>, Len(nodes) # MAX_NODES
                 PROVE  Len(nodes) = Count(Meetings)
      OBVIOUS
    <3>1. set = Met
      BY <2>1, <2>2 DEF HasRoom
    <3>2. Met = Meetings
      BY DEF Met, Past
    <3> QED
      BY <2>2, <3>1, <3>2 DEF EntryPer, Count
  <2> QED
    BY <2>1, <2>4, <2>5 DEF FindsExactlyReachable
<1> HIDE DEF Inv
<1> QED
  BY <1>1, <1>2, <1>3, PTL DEF Spec
==============================================================================
