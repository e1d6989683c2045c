---------------------------- MODULE MemoryProofs -----------------------------
(***************************************************************************)
(* Proofs about the programs that find and move memory, for any sizes.     *)
(* LruCache: a set holds the lines accessed last.  TlbIommu: the           *)
(* translation cache holds the last misses, and two levels of tables       *)
(* answer as one flat table.  MemCopy: memmove copies what was there.      *)
(* ReverseList: a list is turned round without losing a node.              *)
(* CycleDetect: the search ends, and its answer is right.                  *)
(***************************************************************************)
EXTENDS LruCache, TlbIommu, MemCopy, ReverseList, CycleDetect, RingArithmetic,
        FiniteSetTheorems

(* A line number is its set and its tag.                                   *)
LEMMA SetAndTag ==
    ASSUME NEW l \in Lines
    PROVE  /\ Set(l) \in SetIds /\ Tag(l) \in Nat
           /\ Tag(l) * SETS + Set(l) = l
<1>1. l \in Int /\ l >= 0 /\ SETS \in Nat \ {0}
  BY CacheAssumption
<1>2. Tag(l) \in Int /\ Set(l) \in 0..(SETS - 1) /\ l = SETS * Tag(l) + Set(l)
  BY <1>1, DivisionForm DEF Set, Tag
<1>3. Tag(l) >= 0
  <2>1. SUFFICES ASSUME Tag(l) <= -1 PROVE FALSE
    BY <1>2
  <2>2. SETS * Tag(l) <= SETS * (-1)
    BY <1>1, <1>2, <2>1
  <2> QED
    BY <1>1, <1>2, <2>2
<1>4. SETS * Tag(l) = Tag(l) * SETS
  BY <1>1, <1>2
<1> QED
  BY <1>2, <1>3, <1>4 DEF SetIds

LEMMA SameLine ==
    ASSUME NEW l \in Lines, NEW m \in Lines, Set(l) = Set(m), Tag(l) = Tag(m)
    PROVE  l = m
BY SetAndTag

CacheEntries == [valid : BOOLEAN, tag : Nat, age : Nat]

CacheTypes ==
    /\ line \in [SetIds -> [WayIds -> CacheEntries]]
    /\ accesses \in Nat /\ clock = accesses /\ accesses <= Accesses
    /\ last \in [Lines -> Nat] /\ \A l \in Lines : last[l] <= accesses

(* No two lines were accessed at the same time.                            *)
TimesApart == \A l, m \in Lines : last[l] = last[m] /\ last[l] > 0 => l = m

(* A valid way holds a line of its set, stamped with its last access.      *)
StampsTrue ==
    \A s \in SetIds, w \in WayIds :
        line[s][w].valid =>
            \E l \in AccessedIn(s) : /\ line[s][w].tag = Tag(l)
                                     /\ line[s][w].age = last[l]

HeldOnce ==
    \A s \in SetIds, w, v \in WayIds :
        line[s][w].valid /\ line[s][v].valid /\ line[s][w].tag = line[s][v].tag
            => w = v

(* A line that has been evicted was last accessed before all those held.   *)
EvictedBefore ==
    \A s \in SetIds : \A l \in AccessedIn(s) :
        HitWays(l) = {} => /\ Invalid(s) = {}
                           /\ \A w \in WayIds : last[l] < line[s][w].age

LruInv == CacheTypes /\ TimesApart /\ StampsTrue /\ HeldOnce /\ EvictedBefore

LEMMA EntryIs ==
    ASSUME CacheTypes, NEW s \in SetIds, NEW w \in WayIds
    PROVE  /\ line[s][w] \in CacheEntries /\ line[s][w].valid \in BOOLEAN
           /\ line[s][w].tag \in Nat /\ line[s][w].age \in Nat
<1>1. line[s][w] \in CacheEntries
  BY DEF CacheTypes
<1> QED
  BY <1>1 DEF CacheEntries

LEMMA LruInitially == Init => LruInv
<1> SUFFICES ASSUME Init PROVE LruInv
  OBVIOUS
<1>1. CacheTypes
  BY CacheAssumption DEF Init, CacheTypes, CacheEntries
<1>2. \A l \in Lines : last[l] = 0
  BY DEF Init
<1>3. \A s \in SetIds, w \in WayIds : ~line[s][w].valid
  BY DEF Init
<1>4. \A s \in SetIds : AccessedIn(s) = {}
  BY <1>2 DEF AccessedIn
<1> QED
  BY <1>1, <1>2, <1>3, <1>4
  DEF LruInv, TimesApart, StampsTrue, HeldOnce, EvictedBefore

(* In a full set no two ways have the same stamp, so one has the lowest.   *)
LEMMA AgesDiffer ==
    ASSUME LruInv, NEW s \in SetIds, NEW w \in WayIds, NEW v \in WayIds,
           line[s][w].valid, line[s][v].valid, line[s][w].age = line[s][v].age
    PROVE  w = v
<1>1. PICK l \in AccessedIn(s) : line[s][w].tag = Tag(l) /\ line[s][w].age = last[l]
  BY DEF LruInv, StampsTrue
<1>2. PICK m \in AccessedIn(s) : line[s][v].tag = Tag(m) /\ line[s][v].age = last[m]
  BY DEF LruInv, StampsTrue
<1>3. l = m
  BY <1>1, <1>2 DEF LruInv, TimesApart, AccessedIn
<1> QED
  BY <1>1, <1>2, <1>3 DEF LruInv, HeldOnce

LEMMA OldestIs ==
    ASSUME LruInv, NEW s \in SetIds, Invalid(s) = {}
    PROVE  /\ Oldest(s) \in WayIds
           /\ \A v \in WayIds : v # Oldest(s) =>
                  line[s][Oldest(s)].age < line[s][v].age
<1> DEFINE age(w) == line[s][w].age
           A == {age(w) : w \in WayIds}
           P(w) == \A v \in WayIds : IF v < w THEN age(w) < age(v)
                                              ELSE age(w) <= age(v)
<1>1. \A w \in WayIds : age(w) \in Nat /\ line[s][w].valid
  BY EntryIs DEF LruInv, Invalid
<1>2. \A w, v \in WayIds : age(w) = age(v) => w = v
  BY <1>1, AgesDiffer
<1> HIDE DEF age
<1>3. A \in SUBSET Nat /\ A # {}
  <2>1. 0 \in WayIds
    BY CacheAssumption DEF WayIds
  <2> QED
    BY <1>1, <2>1
<1>4. \E a \in A : \A b \in A : a <= b
  BY <1>3, LeastNatural
<1>5. PICK w \in WayIds : \A v \in WayIds : age(w) <= age(v)
  BY <1>4
<1>6. P(w)
  <2>1. ASSUME NEW v \in WayIds
        PROVE  IF v < w THEN age(w) < age(v) ELSE age(w) <= age(v)
    <3>1. age(w) \in Nat /\ age(v) \in Nat /\ age(w) <= age(v)
      BY <1>1, <1>5
    <3>2. v < w => age(w) # age(v)
      BY <1>2, CacheAssumption DEF WayIds
    <3> QED
      BY <3>1, <3>2
  <2> QED
    BY <2>1
<1>7. Oldest(s) = CHOOSE x \in WayIds : P(x)
  BY Zenon DEF Oldest, age
<1>8. Oldest(s) \in WayIds /\ P(Oldest(s))
  BY <1>6, <1>7, Zenon
<1>9. \A v \in WayIds : v # Oldest(s) => age(Oldest(s)) < age(v)
  BY <1>1, <1>2, <1>8
<1> QED
  BY <1>8, <1>9 DEF age

(* An access leaves its line in one way, freshly stamped: the way it was   *)
(* in, or the victim's.                                                    *)
Fresh(l) == [valid |-> TRUE, tag |-> Tag(l), age |-> accesses + 1]
Takes(l, w) ==
    \/ HitWays(l) = {w}
    \/ /\ HitWays(l) = {}
       /\ \/ w \in Invalid(Set(l))
          \/ /\ Invalid(Set(l)) = {}
             /\ \A v \in WayIds : v # w =>
                    line[Set(l)][w].age < line[Set(l)][v].age

LEMMA FreshIs ==
    ASSUME CacheTypes, NEW l \in Lines
    PROVE  /\ Fresh(l) \in CacheEntries /\ Fresh(l).valid
           /\ Fresh(l).tag = Tag(l) /\ Fresh(l).age = accesses + 1
<1>1. Tag(l) \in Nat /\ accesses + 1 \in Nat
  BY SetAndTag DEF CacheTypes
<1> QED
  BY <1>1 DEF Fresh, CacheEntries

LEMMA AccessTakes ==
    ASSUME Accesses < W, LruInv, NEW l \in Lines, access(l)
    PROVE  /\ \E w \in WayIds :
                 Takes(l, w) /\ line' = [line EXCEPT ![Set(l)][w] = Fresh(l)]
           /\ accesses' = accesses + 1 /\ accesses' <= Accesses
           /\ clock' = accesses + 1
           /\ last' = [last EXCEPT ![l] = accesses + 1]
<1> DEFINE s == Set(l)
<1>1. /\ CacheTypes /\ s \in SetIds /\ accesses \in Nat /\ accesses < Accesses
      /\ accesses' = accesses + 1 /\ last' = [last EXCEPT ![l] = accesses + 1]
  BY SetAndTag DEF access, LruInv, CacheTypes
<1>2. clock' = accesses + 1
  <2>1. clock' = (accesses + 1) % W /\ Accesses \in Nat /\ W \in Nat \ {0}
    BY CacheAssumption DEF access, Up, LruInv, CacheTypes
  <2>2. accesses + 1 \in 0..(W - 1)
    BY <1>1, <2>1
  <2>3. (W * 0 + (accesses + 1)) % W = accesses + 1
    BY <2>1, <2>2, RemainderUnique, 0 \in Int
  <2>4. W * 0 + (accesses + 1) = accesses + 1
    BY <1>1, <2>1
  <2> QED
    BY <2>1, <2>3, <2>4
<1>3. ASSUME Hit(l)
      PROVE  \E w \in WayIds :
                   Takes(l, w) /\ line' = [line EXCEPT ![s][w] = Fresh(l)]
  <2>1. PICK w \in HitWays(l) : TRUE
    BY <1>3 DEF Hit
  <2>2. w \in WayIds /\ line[s][w].valid /\ line[s][w].tag = Tag(l)
    BY <2>1 DEF HitWays, Holds
  <2>3. \A v \in HitWays(l) : v = w
    BY <1>1, <2>2 DEF HitWays, Holds, LruInv, HeldOnce
  <2>4. HitWays(l) = {w}
    BY <2>1, <2>3
  <2>5. Min({w}) = w
    <3>1. w \in Int
      BY <2>2, CacheAssumption DEF WayIds
    <3> QED
      BY <3>1 DEF Min
  <2>6. line' = [line EXCEPT ![s][w] = Refresh(@, accesses + 1)]
    BY <1>2, <1>3, <2>4, <2>5, Zenon DEF Hit
  <2>7. Refresh(line[s][w], accesses + 1) = Fresh(l)
    <3>1. line[s][w] \in CacheEntries /\ line[s][w].valid \in BOOLEAN
      BY <1>1, <2>2, EntryIs
    <3>2. line[s][w].valid = TRUE
      BY <2>2, <3>1
    <3>3. [line[s][w] EXCEPT !.age = accesses + 1]
            = [valid |-> line[s][w].valid, tag |-> line[s][w].tag,
               age |-> accesses + 1]
      BY <3>1 DEF CacheEntries
    <3> QED
      BY <2>2, <3>2, <3>3, Zenon DEF Refresh, Fresh
  <2>8. line' = [line EXCEPT ![s][w] = Fresh(l)]
    BY <2>6, <2>7
  <2>9. Takes(l, w)
    BY <2>4 DEF Takes
  <2> QED
    BY <2>2, <2>8, <2>9
<1>4. ASSUME Miss(l)
      PROVE  \E w \in WayIds :
                   Takes(l, w) /\ line' = [line EXCEPT ![s][w] = Fresh(l)]
  <2>1. /\ HitWays(l) = {}
        /\ line' = [line EXCEPT ![s][Victim(s)] = Fresh(l)]
    BY <1>2, <1>4, Zenon DEF Miss, Fresh
  <2>2. CASE Invalid(s) # {}
    <3>1. Invalid(s) \in SUBSET Nat
      BY CacheAssumption DEF Invalid, WayIds
    <3>2. Min(Invalid(s)) \in Invalid(s)
      BY <2>2, <3>1, LeastNatural DEF Min
    <3>3. Victim(s) = Min(Invalid(s)) /\ Victim(s) \in WayIds
      BY <2>2, <3>2 DEF Victim, Invalid
    <3>4. Takes(l, Victim(s))
      BY <2>1, <3>2, <3>3 DEF Takes
    <3> QED
      BY <2>1, <3>3, <3>4
  <2>3. CASE Invalid(s) = {}
    <3>1. Victim(s) = Oldest(s)
      BY <2>3 DEF Victim
    <3>2. /\ Oldest(s) \in WayIds
          /\ \A v \in WayIds : v # Oldest(s) =>
                 line[s][Oldest(s)].age < line[s][v].age
      BY <1>1, <2>3, OldestIs
    <3>3. Takes(l, Victim(s))
      BY <2>1, <2>3, <3>1, <3>2, Zenon DEF Takes
    <3> QED
      BY <2>1, <3>1, <3>2, <3>3
  <2> QED
    BY <2>2, <2>3
<1>5. Hit(l) \/ Miss(l)
  BY Zenon DEF access
<1>6. accesses' <= Accesses
  BY <1>1, CacheAssumption
<1> QED
  BY <1>1, <1>2, <1>3, <1>4, <1>5, <1>6

LEMMA AccessStep ==
    ASSUME Accesses < W, LruInv, NEW l \in Lines, access(l)
    PROVE  LruInv'
<1> DEFINE s == Set(l)
           now == accesses + 1
<1>1. PICK w \in WayIds : Takes(l, w) /\ line' = [line EXCEPT ![s][w] = Fresh(l)]
  BY AccessTakes
<1>2. /\ CacheTypes /\ TimesApart /\ StampsTrue /\ HeldOnce /\ EvictedBefore
      /\ s \in SetIds /\ Tag(l) \in Nat /\ now \in Nat
      /\ accesses' = now /\ clock' = now /\ now <= Accesses
      /\ last' = [last EXCEPT ![l] = now]
  BY AccessTakes, SetAndTag DEF LruInv, CacheTypes
<1>3. /\ line'[s][w] = Fresh(l)
      /\ \A r \in SetIds, v \in WayIds : r # s \/ v # w => line'[r][v] = line[r][v]
      /\ line' \in [SetIds -> [WayIds -> CacheEntries]]
  <2>1. Fresh(l) \in CacheEntries /\ line \in [SetIds -> [WayIds -> CacheEntries]]
    BY <1>2, FreshIs DEF CacheTypes
  <2> QED
    BY <1>1, <1>2, <2>1
<1>4. Fresh(l).valid /\ Fresh(l).tag = Tag(l) /\ Fresh(l).age = now
  BY <1>2, FreshIs
<1>5. /\ last'[l] = now /\ \A m \in Lines : m # l => last'[m] = last[m]
      /\ \A m \in Lines : last[m] \in Nat /\ last[m] < now
      /\ last' \in [Lines -> Nat]
  BY <1>2 DEF CacheTypes
(* A valid way other than w does not hold l.                               *)
<1>6. ASSUME NEW v \in WayIds, v # w, line[s][v].valid
      PROVE  line[s][v].tag # Tag(l)
  BY <1>1, <1>6 DEF Takes, HitWays, Holds
<1>7. CacheTypes'
  <2>1. \A m \in Lines : last'[m] <= now
    BY <1>2, <1>5
  <2> QED
    BY <1>2, <1>3, <1>5, <2>1
    DEF CacheTypes, CacheEntries, SetIds, WayIds
<1>8. TimesApart'
  <2>1. ASSUME NEW m \in Lines, NEW k \in Lines, last'[m] = last'[k], last'[m] > 0
        PROVE  m = k
    BY <1>2, <1>5, <2>1 DEF TimesApart
  <2> QED
    BY <2>1 DEF TimesApart
<1>9. ASSUME NEW r \in SetIds, NEW m \in Lines
      PROVE  /\ m \in AccessedIn(r)' <=> Set(m) = r /\ last'[m] > 0
             /\ m # l => (m \in AccessedIn(r)' <=> m \in AccessedIn(r))
  <2>1. m \in AccessedIn(r)' <=> Set(m) = r /\ last'[m] > 0
    BY DEF AccessedIn, Set
  <2> QED
    BY <1>5, <2>1 DEF AccessedIn
<1>10. l \in AccessedIn(s)'
  BY <1>2, <1>5, <1>9
<1>11. ASSUME NEW r \in SetIds, NEW v \in WayIds, line'[r][v].valid
       PROVE  \E m \in AccessedIn(r)' : /\ line'[r][v].tag = Tag(m)
                                         /\ line'[r][v].age = last'[m]
  <2>1. CASE r = s /\ v = w
    BY <1>3, <1>4, <1>5, <1>10, <2>1
  <2>2. CASE ~(r = s /\ v = w)
    <3>1. line'[r][v] = line[r][v]
      BY <1>3, <2>2
    <3>2. PICK m \in AccessedIn(r) : /\ line[r][v].tag = Tag(m)
                                     /\ line[r][v].age = last[m]
      BY <1>2, <1>11, <3>1 DEF StampsTrue
    <3>3. m \in Lines /\ Set(m) = r
      BY <3>2 DEF AccessedIn
    <3>4. m # l
      BY <1>6, <1>11, <2>2, <3>1, <3>2, <3>3
    <3> QED
      BY <1>5, <1>9, <3>1, <3>2, <3>3, <3>4
  <2> QED
    BY <2>1, <2>2
<1>12. ASSUME NEW r \in SetIds, NEW v \in WayIds, NEW x \in WayIds,
              line'[r][v].valid, line'[r][x].valid,
              line'[r][v].tag = line'[r][x].tag
       PROVE  v = x
  <2>1. CASE r = s
    BY <1>2, <1>3, <1>4, <1>6, <1>12, <2>1 DEF HeldOnce
  <2>2. CASE r # s
    BY <1>2, <1>3, <1>12, <2>2 DEF HeldOnce
  <2> QED
    BY <2>1, <2>2
<1>13. ASSUME NEW r \in SetIds, NEW m \in AccessedIn(r)',
              NEW x \in WayIds,
              \A v \in WayIds : ~(line'[r][v].valid /\ line'[r][v].tag = Tag(m))
       PROVE  line'[r][x].valid /\ last'[m] < line'[r][x].age
  <2>1. m \in Lines /\ Set(m) = r
    BY DEF AccessedIn, Set
  <2>2. m # l
    BY <1>3, <1>4, <1>13, <2>1
  <2>3. /\ m \in AccessedIn(r) /\ last'[m] = last[m] /\ last[m] < now
        /\ \A v \in WayIds :
              v \in HitWays(m) <=> line[r][v].valid /\ line[r][v].tag = Tag(m)
    BY <1>5, <1>9, <2>1, <2>2 DEF HitWays, Holds
  <2>4. ASSUME HitWays(m) = {}
        PROVE  line'[r][x].valid /\ last'[m] < line'[r][x].age
    <3>1. line[r][x].valid /\ last[m] < line[r][x].age
      BY <1>2, <2>3, <2>4 DEF EvictedBefore, Invalid
    <3>2. CASE r = s /\ x = w
      BY <1>3, <1>4, <2>3, <3>2
    <3>3. CASE ~(r = s /\ x = w)
      BY <1>3, <2>3, <3>1, <3>3
    <3> QED
      BY <3>2, <3>3
  <2>5. ASSUME HitWays(m) # {}
        PROVE  line'[r][x].valid /\ last'[m] < line'[r][x].age
    <3>1. PICK v \in WayIds : line[r][v].valid /\ line[r][v].tag = Tag(m)
      BY <2>1, <2>5 DEF HitWays, Holds
    <3>2. r = s /\ v = w
      BY <1>3, <1>13, <3>1
    <3>3. Tag(m) # Tag(l)
      BY <2>1, <2>2, <3>2, SameLine
    <3>4. w \notin HitWays(l) /\ w \notin Invalid(s)
      BY <3>1, <3>2, <3>3 DEF HitWays, Holds, Invalid
    <3>5. /\ Invalid(s) = {}
          /\ \A y \in WayIds : y # w => line[s][w].age < line[s][y].age
      BY <1>1, <3>4 DEF Takes
    <3>6. line[s][w].age = last[m]
      <4>1. PICK k \in AccessedIn(s) : /\ line[s][w].tag = Tag(k)
                                       /\ line[s][w].age = last[k]
        BY <1>2, <3>1, <3>2 DEF StampsTrue
      <4>2. k \in Lines /\ Set(k) = Set(m) /\ Tag(k) = Tag(m)
        BY <2>1, <3>1, <3>2, <4>1 DEF AccessedIn
      <4> QED
        BY <2>1, <4>1, <4>2, SameLine
    <3>7. CASE x = w
      BY <1>3, <1>4, <2>3, <3>2, <3>7
    <3>8. CASE x # w
      <4>1. line'[s][x] = line[s][x] /\ line[s][x].valid
        BY <1>2, <1>3, <3>5, <3>8 DEF Invalid
      <4> QED
        BY <2>3, <3>2, <3>5, <3>6, <3>8, <4>1
    <3> QED
      BY <3>7, <3>8
  <2> QED
    BY <2>4, <2>5
<1>14. StampsTrue'
  BY <1>11 DEF StampsTrue, SetIds, WayIds, Tag
<1>15. HeldOnce'
  BY <1>12 DEF HeldOnce, SetIds, WayIds
<1>16. EvictedBefore'
  <2>1. ASSUME NEW r \in SetIds, NEW m \in AccessedIn(r)', HitWays(m)' = {}
        PROVE  Invalid(r)' = {} /\ \A x \in WayIds : last'[m] < line'[r][x].age
    <3>1. Set(m) = r
      BY DEF AccessedIn, Set
    <3>2. \A v \in WayIds : ~(line'[r][v].valid /\ line'[r][v].tag = Tag(m))
      BY <2>1, <3>1 DEF HitWays, Holds, Set, Tag, WayIds
    <3>3. \A x \in WayIds : line'[r][x].valid /\ last'[m] < line'[r][x].age
      BY <1>13, <3>2
    <3> QED
      BY <3>3 DEF Invalid, WayIds
  <2> QED
    BY <2>1 DEF EvictedBefore, SetIds, WayIds
<1> QED
  BY <1>7, <1>8, <1>14, <1>15, <1>16 DEF LruInv

LEMMA LruInductive ==
    ASSUME Accesses < W
    PROVE  LruInv /\ [Next]_vars => LruInv'
<1> SUFFICES ASSUME LruInv, [Next]_vars PROVE LruInv'
  OBVIOUS
<1>1. CASE UNCHANGED vars
  BY <1>1 DEF vars, LruInv, CacheTypes, TimesApart, StampsTrue, HeldOnce,
              EvictedBefore, AccessedIn, HitWays, Holds, Invalid
<1>2. ASSUME NEW l \in Lines, access(l) PROVE LruInv'
  BY <1>2, AccessStep
<1> QED
  BY <1>1, <1>2 DEF Next, Done

(* The lines held in a set, one in each valid way.                         *)
LEMMA ResidentIs ==
    ASSUME LruInv, NEW s \in SetIds
    PROVE  /\ \A w \in WayIds : line[s][w].valid =>
                 \E l \in AccessedIn(s) : /\ l = line[s][w].tag * SETS + s
                                          /\ Tag(l) = line[s][w].tag
                                          /\ last[l] = line[s][w].age
           /\ Resident(s) \subseteq AccessedIn(s)
           /\ \A l \in AccessedIn(s) : l \in Resident(s) <=> HitWays(l) # {}
<1>1. ASSUME NEW w \in WayIds, line[s][w].valid
      PROVE  \E l \in AccessedIn(s) : /\ l = line[s][w].tag * SETS + s
                                      /\ Tag(l) = line[s][w].tag
                                      /\ last[l] = line[s][w].age
  <2>1. PICK l \in AccessedIn(s) : line[s][w].tag = Tag(l) /\ line[s][w].age = last[l]
    BY <1>1 DEF LruInv, StampsTrue
  <2>2. l \in Lines /\ Set(l) = s
    BY DEF AccessedIn
  <2>3. l = Tag(l) * SETS + s
    BY <2>2, SetAndTag
  <2> QED
    BY <2>1, <2>3
<1>2. Resident(s) \subseteq AccessedIn(s)
  BY <1>1 DEF Resident, Invalid
<1>3. ASSUME NEW l \in AccessedIn(s)
      PROVE  l \in Resident(s) <=> HitWays(l) # {}
  <2>1. l \in Lines /\ Set(l) = s /\ l = Tag(l) * SETS + s
    BY SetAndTag DEF AccessedIn
  <2>2. ASSUME l \in Resident(s) PROVE HitWays(l) # {}
    <3>1. PICK w \in WayIds : line[s][w].valid /\ l = line[s][w].tag * SETS + s
      BY <2>2 DEF Resident, Invalid
    <3>2. Tag(l) = line[s][w].tag
      BY <1>1, <3>1
    <3> QED
      BY <2>1, <3>1, <3>2 DEF HitWays, Holds
  <2>3. ASSUME HitWays(l) # {} PROVE l \in Resident(s)
    <3>1. PICK w \in WayIds : line[s][w].valid /\ line[s][w].tag = Tag(l)
      BY <2>1, <2>3 DEF HitWays, Holds
    <3> QED
      BY <2>1, <3>1 DEF Resident, Invalid
  <2> QED
    BY <2>2, <2>3
<1> QED
  BY <1>1, <1>2, <1>3

LEMMA ResidentCount ==
    ASSUME LruInv, NEW s \in SetIds
    PROVE  /\ IsFiniteSet(Resident(s))
           /\ Cardinality(Resident(s)) = Cardinality(WayIds \ Invalid(s))
           /\ Cardinality(Resident(s)) \in Nat /\ Cardinality(Resident(s)) <= WAYS
           /\ Invalid(s) = {} => Cardinality(Resident(s)) = WAYS
<1> DEFINE V == WayIds \ Invalid(s)
           f == [w \in V |-> line[s][w].tag * SETS + s]
<1>1. IsFiniteSet(WayIds) /\ Cardinality(WayIds) = WAYS
  BY FS_Interval, CacheAssumption DEF WayIds
<1>2. /\ IsFiniteSet(V) /\ Cardinality(V) <= Cardinality(WayIds)
      /\ Cardinality(V) \in Nat
  <2>1. V \in SUBSET WayIds
    OBVIOUS
  <2> QED
    BY <1>1, <2>1, FS_Subset, FS_CardinalityType
<1>3. \A w \in V : line[s][w].valid /\ w \in WayIds
  BY DEF Invalid
<1>4. f \in Surjection(V, Resident(s))
  BY DEF Surjection, Resident
<1>5. \A w, v \in V : f[w] = f[v] => w = v
  <2> SUFFICES ASSUME NEW w \in V, NEW v \in V, f[w] = f[v] PROVE w = v
    OBVIOUS
  <2>1. PICK l \in AccessedIn(s) : l = f[w] /\ Tag(l) = line[s][w].tag
    BY <1>3, ResidentIs
  <2>2. PICK m \in AccessedIn(s) : m = f[v] /\ Tag(m) = line[s][v].tag
    BY <1>3, ResidentIs
  <2>3. line[s][w].tag = line[s][v].tag
    BY <2>1, <2>2
  <2> QED
    BY <1>3, <2>3 DEF LruInv, HeldOnce
<1>6. f \in Bijection(V, Resident(s))
  BY <1>4, <1>5 DEF Bijection, Injection, Surjection, IsInjective
<1>7. ExistsBijection(V, Resident(s))
  BY <1>6 DEF ExistsBijection
<1>8. IsFiniteSet(Resident(s)) /\ Cardinality(Resident(s)) = Cardinality(V)
  BY <1>2, <1>7, FS_Bijection
<1>9. Invalid(s) = {} => V = WayIds
  OBVIOUS
<1> HIDE DEF V
<1>10. Cardinality(Resident(s)) = Cardinality(V) /\ IsFiniteSet(Resident(s))
  BY <1>8
<1> QED
  BY <1>1, <1>2, <1>9, <1>10 DEF V

(* A set holds the last WAYS different lines accessed in it, each once,    *)
(* whatever was accessed in the others, as long as the clock that all sets *)
(* share has not wrapped (access).                                         *)
THEOREM MostRecentlyUsed ==
    ASSUME Accesses < W
    PROVE  Spec => []HoldsMostRecentlyUsed
<1>1. LruInv => HoldsMostRecentlyUsed
  <2> SUFFICES ASSUME LruInv, NEW s \in SetIds
               PROVE  /\ Resident(s) = MostRecent(s)
                      /\ Cardinality(Resident(s)) = Cardinality(WayIds \ Invalid(s))
    BY DEF HoldsMostRecentlyUsed
  <2>1. WAYS \in Nat \ {0} /\ last \in [Lines -> Nat]
        /\ \A l \in AccessedIn(s) : l \in Lines /\ Set(l) = s
    BY CacheAssumption DEF LruInv, CacheTypes, AccessedIn
(* Those accessed after a line held are among the others held.             *)
  <2>2. ASSUME NEW l \in Resident(s)
        PROVE  l \in MostRecent(s)
    <3>1. l \in AccessedIn(s)
      BY ResidentIs
    <3>2. PICK w \in WayIds : line[s][w].valid /\ line[s][w].age = last[l]
      BY <3>1, ResidentIs DEF Resident, Invalid
    <3>3. ASSUME NEW m \in Later(l)
          PROVE  m \in Resident(s) \ {l}
      <4>1. m \in AccessedIn(s) /\ last[m] > last[l]
        BY <2>1, <3>1 DEF Later
      <4>2. HitWays(m) # {}
        <5>1. SUFFICES ASSUME HitWays(m) = {} PROVE FALSE
          OBVIOUS
        <5>2. last[m] < last[l]
          BY <3>2, <4>1, <5>1 DEF LruInv, EvictedBefore
        <5> QED
          BY <2>1, <3>1, <4>1, <5>2
      <4> QED
        BY <2>1, <3>1, <4>1, <4>2, ResidentIs
    <3>4. IsFiniteSet(Resident(s) \ {l})
          /\ Cardinality(Resident(s) \ {l}) = Cardinality(Resident(s)) - 1
      BY ResidentCount, FS_RemoveElement
    <3>5. Cardinality(Later(l)) <= Cardinality(Resident(s) \ {l})
          /\ Cardinality(Later(l)) \in Nat
      <4>1. Later(l) \in SUBSET (Resident(s) \ {l})
        BY <3>3
      <4> QED
        BY <3>4, <4>1, FS_Subset, FS_CardinalityType
    <3>6. Cardinality(Later(l)) < WAYS
      <4>1. Cardinality(Resident(s)) \in Nat /\ Cardinality(Resident(s)) <= WAYS
        BY ResidentCount
      <4> QED
        BY <2>1, <3>4, <3>5, <4>1
    <3> QED
      BY <3>1, <3>6 DEF MostRecent
(* A line not held was accessed before WAYS others.                        *)
  <2>3. ASSUME NEW l \in AccessedIn(s), l \notin Resident(s)
        PROVE  l \notin MostRecent(s)
    <3>1. Invalid(s) = {} /\ \A w \in WayIds : last[l] < line[s][w].age
      BY <2>3, ResidentIs DEF LruInv, EvictedBefore
    <3>2. Resident(s) \in SUBSET Later(l)
      <4> SUFFICES ASSUME NEW m \in Resident(s) PROVE m \in Later(l)
        OBVIOUS
      <4>1. PICK w \in WayIds : line[s][w].valid /\ m = line[s][w].tag * SETS + s
        BY DEF Resident, Invalid
      <4>2. m \in AccessedIn(s) /\ last[m] = line[s][w].age
        BY <4>1, ResidentIs
      <4> QED
        BY <2>1, <3>1, <4>2 DEF Later
    <3>3. IsFiniteSet(Later(l))
      <4>1. Later(l) \in SUBSET Lines
        BY DEF Later, AccessedIn
      <4> QED
        BY <4>1, FS_Subset, CacheAssumption
    <3>4. Cardinality(Resident(s)) <= Cardinality(Later(l))
          /\ Cardinality(Later(l)) \in Nat
      BY <3>2, <3>3, FS_Subset, FS_CardinalityType
    <3>5. Cardinality(Resident(s)) = WAYS
      BY <3>1, ResidentCount
    <3>6. ~(Cardinality(Later(l)) < WAYS)
      BY <2>1, <3>4, <3>5
    <3> QED
      BY <3>6 DEF MostRecent
  <2>4. Resident(s) = MostRecent(s)
    <3>1. MostRecent(s) \subseteq AccessedIn(s)
      BY DEF MostRecent
    <3> QED
      BY <2>2, <2>3, <3>1
  <2> QED
    BY <2>4, ResidentCount
<1> QED
  BY <1>1, LruInitially, LruInductive, PTL DEF Spec

------------------------------------------------------------------------------
(* Misses since the last flush are numbered from 1: those whose pages are  *)
(* still held, and the slot that each went to.                             *)
Recent == {k \in 1..Len(missed) : k > Len(missed) - TLB_ENTRIES}
SlotOf(k) == (k - 1) % TLB_ENTRIES

Entries == [vpn : Nat, pfn : Int, valid : BOOLEAN]
Walked(vpn) == [vpn |-> vpn, pfn |-> walk(vpn), valid |-> TRUE]

(* The slots are filled in turn, so a valid one holds the last miss that   *)
(* went there; pages still held were missed once.                          *)
TlbInv ==
    /\ missed \in Seq(Pages) /\ tlb \in [Slots -> Entries]
    /\ evict_next = Len(missed) % TLB_ENTRIES
    /\ \A i \in Slots : tlb[i].valid => \E k \in Recent : SlotOf(k) = i
    /\ \A k \in Recent : tlb[SlotOf(k)] = Walked(missed[k])
    /\ \A k, m \in Recent : missed[k] = missed[m] => k = m
    /\ answer # None => \E i \in Slots : /\ tlb[i].valid
                                         /\ tlb[i].vpn = answer.page
                                         /\ tlb[i].pfn = answer.frame

LEMMA WalkIs ==
    ASSUME NEW vpn \in Pages
    PROVE  /\ walk(vpn) \in Int /\ Walked(vpn) \in Entries
           /\ Walked(vpn).valid /\ Walked(vpn).vpn = vpn
           /\ Walked(vpn).pfn = walk(vpn)
<1>1. vpn \in Nat /\ vpn * Factor \in Int /\ Frames \in Nat \ {0}
  BY TlbAssumption
<1>2. walk(vpn) \in Int
  BY <1>1, DivisionForm DEF walk
<1> QED
  BY <1>1, <1>2 DEF Walked, Entries

LEMMA SlotIs ==
    ASSUME NEW k \in Int
    PROVE  SlotOf(k) \in Slots
<1>1. k - 1 \in Int /\ TLB_ENTRIES \in Nat \ {0}
  BY TlbAssumption
<1> QED
  BY <1>1, DivisionForm DEF SlotOf, Slots

LEMMA TlbInitially == TlbInit => TlbInv
<1> SUFFICES ASSUME TlbInit PROVE TlbInv
  OBVIOUS
<1>1. missed = <<>> /\ Len(missed) = 0 /\ Recent = {}
  BY DEF TlbInit, Recent
<1>2. 0 % TLB_ENTRIES = 0
  BY TlbAssumption
<1>3. tlb \in [Slots -> Entries] /\ \A i \in Slots : ~tlb[i].valid
  BY DEF TlbInit, Entries
<1> QED
  BY <1>1, <1>2, <1>3 DEF TlbInit, TlbInv

(* A hit changes nothing but the answer, which is an entry held.           *)
LEMMA HitStep ==
    ASSUME TlbInv, NEW vpn \in Pages, translate_hit(vpn)
    PROVE  TlbInv'
<1>1. PICK i \in Slots : /\ matches(i, vpn)
                         /\ answer' = [page |-> vpn, frame |-> tlb[i].pfn]
                         /\ UNCHANGED <<tlb, evict_next, missed>>
  BY DEF translate_hit
<1>2. \E j \in Slots : /\ tlb'[j].valid
                       /\ tlb'[j].vpn = answer'.page /\ tlb'[j].pfn = answer'.frame
  BY <1>1 DEF matches
<1> QED
  BY <1>1, <1>2 DEF TlbInv, Recent

LEMMA MissStep ==
    ASSUME TlbInv, NEW vpn \in Pages, translate_miss(vpn)
    PROVE  TlbInv'
<1> DEFINE n == TLB_ENTRIES
           len == Len(missed)
<1>1. /\ missed' = Append(missed, vpn) /\ len \in Nat
      /\ Len(missed') = len + 1 /\ missed' \in Seq(Pages)
      /\ missed'[len + 1] = vpn /\ \A k \in 1..len : missed'[k] = missed[k]
  BY AppendFacts DEF TlbInv, translate_miss
<1>2. /\ evict_next = len % n /\ evict_next \in Slots /\ SlotOf(len + 1) = evict_next
      /\ evict_next' = (len + 1) % n
  <2>1. evict_next = len % n /\ n \in Nat \ {0} /\ (len + 1) - 1 = len
    BY <1>1, TlbAssumption DEF TlbInv
  <2> HIDE DEF n, len
  <2>2. evict_next \in Slots
    <3>1. len \in Int
      BY <1>1
    <3>2. len % n \in 0..(n - 1)
      BY <2>1, <3>1, DivisionForm
    <3> QED
      BY <2>1, <3>2 DEF n, Slots
  <2>3. evict_next' = (len + 1) % n
    <3>1. len \in Int
      BY <1>1
    <3>2. ((len % n) + 1) % n = (len + 1) % n
      BY <2>1, <3>1, WrappedSucc
    <3> QED
      BY <2>1, <3>2 DEF n, len, translate_miss
  <2> QED
    BY <2>1, <2>2, <2>3 DEF n, SlotOf
<1>3. /\ tlb' \in [Slots -> Entries] /\ tlb'[evict_next] = Walked(vpn)
      /\ \A i \in Slots : i # evict_next => tlb'[i] = tlb[i]
  <2>1. Walked(vpn) \in Entries /\ tlb \in [Slots -> Entries]
    BY WalkIs DEF TlbInv
  <2>2. tlb' = [tlb EXCEPT ![evict_next] = Walked(vpn)]
    BY Zenon DEF translate_miss, Walked
  <2> QED
    BY <1>2, <2>1, <2>2
(* The miss now too old to be held is the one whose slot is taken.         *)
<1>4. /\ \A k \in Recent' : k = len + 1 \/ (k \in Recent /\ SlotOf(k) # evict_next)
      /\ len + 1 \in Recent'
      /\ \A k \in Recent : SlotOf(k) # evict_next => k \in Recent'
  <2>1. n \in Nat \ {0} /\ Recent' = {k \in 1..(len + 1) : k > len + 1 - n}
    BY <1>1, TlbAssumption DEF Recent
  <2>2. Recent = {k \in 1..len : k > len - n}
    BY DEF Recent
  <2>3. ASSUME NEW k \in Recent', k # len + 1
        PROVE  k \in Recent /\ SlotOf(k) # evict_next
    <3>1. k \in Recent /\ k \in Int /\ k - 1 \in Int /\ k - 1 < len /\ ~(len >= (k - 1) + n)
      BY <1>1, <2>1, <2>2, <2>3
    <3>2. (k - 1) % n = len % n => len >= (k - 1) + n
      <4>1. n \in Nat \ {0} /\ k - 1 \in Int /\ len \in Int /\ k - 1 < len
        BY <1>1, <2>1, <3>1
      <4> HIDE DEF n, len
      <4> QED
        BY <4>1, SlotsDistinct
    <3> QED
      BY <1>2, <3>1, <3>2 DEF SlotOf
  <2>4. ASSUME NEW k \in Recent, SlotOf(k) # evict_next
        PROVE  k \in Recent'
    <3>1. k \in Int /\ k <= len /\ k >= 1 /\ k > len - n
      BY <1>1, <2>1, <2>2
    <3> HIDE DEF len
    <3>2. k # (len + 1) - n
      <4>1. SUFFICES ASSUME k = (len + 1) - n PROVE FALSE
        OBVIOUS
      <4>2. k - 1 \in Int /\ (k - 1) + n * 1 = len /\ len \in Nat
        BY <1>1, <3>1, <2>1, <4>1
      <4>3. ((k - 1) + n * 1) % n = (k - 1) % n
        BY <2>1, <4>2, LapsVanish, 1 \in Int
      <4> QED
        BY <1>2, <2>4, <4>2, <4>3 DEF SlotOf
    <3> QED
      BY <1>1, <2>1, <3>1, <3>2
  <2>5. len + 1 \in Recent'
    BY <1>1, <2>1
  <2> QED
    BY <2>3, <2>4, <2>5
<1>5. ASSUME NEW k \in Recent
      PROVE  k \in 1..len /\ SlotOf(k) \in Slots /\ missed[k] # vpn
  <2>1. k \in 1..len /\ SlotOf(k) \in Slots
    BY SlotIs DEF Recent
  <2>2. tlb[SlotOf(k)] = Walked(missed[k]) /\ missed[k] \in Pages
    BY <2>1 DEF TlbInv
  <2>3. tlb[SlotOf(k)].valid /\ tlb[SlotOf(k)].vpn = missed[k]
    BY <2>2, WalkIs
  <2> QED
    BY <2>1, <2>3 DEF translate_miss, matches
<1>6. ASSUME NEW i \in Slots, tlb'[i].valid
      PROVE  \E k \in Recent' : SlotOf(k) = i
  BY <1>2, <1>3, <1>4, <1>6 DEF TlbInv
<1>7. ASSUME NEW k \in Recent'
      PROVE  tlb'[SlotOf(k)] = Walked(missed'[k])
  BY <1>1, <1>2, <1>3, <1>4, <1>5 DEF TlbInv
<1>8. ASSUME NEW k \in Recent', NEW m \in Recent', missed'[k] = missed'[m]
      PROVE  k = m
  BY <1>1, <1>4, <1>5, <1>8 DEF TlbInv
<1>9. \E i \in Slots : /\ tlb'[i].valid
                       /\ tlb'[i].vpn = answer'.page /\ tlb'[i].pfn = answer'.frame
  BY <1>2, <1>3, WalkIs DEF translate_miss
<1>10. evict_next' = Len(missed') % n
  BY <1>1, <1>2
<1> QED
  BY <1>1, <1>3, <1>6, <1>7, <1>8, <1>9, <1>10 DEF TlbInv, SlotOf

LEMMA FlushStep ==
    ASSUME TlbInv, Flush
    PROVE  TlbInv'
<1>1. tlb' = [i \in Slots |-> [tlb[i] EXCEPT !.valid = FALSE]]
  BY DEF Flush
<1>2. tlb' \in [Slots -> Entries] /\ \A i \in Slots : ~tlb'[i].valid
  BY <1>1 DEF TlbInv, Entries
<1>3. missed' = <<>> /\ Len(missed') = 0 /\ Recent' = {} /\ evict_next' = 0
      /\ answer' = None
  BY DEF Flush, Recent
<1>4. 0 % TLB_ENTRIES = 0
  BY TlbAssumption
<1> QED
  BY <1>2, <1>3, <1>4 DEF TlbInv, None

LEMMA TlbInductive == TlbInv /\ [TlbNext]_tlbVars => TlbInv'
<1>1. ASSUME TlbInv, UNCHANGED tlbVars PROVE TlbInv'
  BY <1>1 DEF tlbVars, TlbInv, Recent
<1> QED
  BY <1>1, HitStep, MissStep, FlushStep DEF TlbNext

(* The translation cache is what its code means it to be (translate): it   *)
(* holds the pages of the last TLB_ENTRIES misses, each once and with the  *)
(* frame a walk gives, for any number of entries and any accesses.         *)
THEOREM LastMisses == TlbSpec => []HoldsLastMisses
<1>1. TlbInv => HoldsLastMisses
  <2> SUFFICES ASSUME TlbInv PROVE HoldsLastMisses
    OBVIOUS
  <2> DEFINE held == {i \in Slots : tlb[i].valid}
  <2>1. ASSUME NEW k \in Recent
        PROVE  /\ SlotOf(k) \in held /\ tlb[SlotOf(k)].vpn = missed[k]
               /\ tlb[SlotOf(k)].pfn = walk(missed[k])
    <3>1. k \in 1..Len(missed) /\ SlotOf(k) \in Slots
      BY SlotIs DEF Recent
    <3>2. tlb[SlotOf(k)] = Walked(missed[k]) /\ missed[k] \in Pages
      BY <3>1 DEF TlbInv
    <3> QED
      BY <3>1, <3>2, WalkIs
  <2>2. \A i \in held : \E k \in Recent : SlotOf(k) = i
    BY DEF TlbInv
  <2>3. \A k, m \in Recent : missed[k] = missed[m] => k = m
    BY DEF TlbInv
  <2>4. {tlb[i].vpn : i \in held} = {missed[k] : k \in Recent}
    BY <2>1, <2>2
  <2>5. \A i, j \in held : i # j => tlb[i].vpn # tlb[j].vpn
    BY <2>1, <2>2, <2>3
  <2>6. \A i \in held : tlb[i].pfn = walk(tlb[i].vpn)
    BY <2>1, <2>2
  <2>7. answer # None => \E i \in held : /\ tlb[i].vpn = answer.page
                                         /\ tlb[i].pfn = answer.frame
    BY DEF TlbInv
  <2> QED
    BY <2>4, <2>5, <2>6, <2>7 DEF HoldsLastMisses, Recent
<1> QED
  BY <1>1, TlbInitially, TlbInductive, PTL DEF TlbSpec

------------------------------------------------------------------------------
(* A page in range has a place of its own in the two levels.               *)
LEMMA PageSplit ==
    ASSUME NEW page \in InRange
    PROVE  /\ page \in Int /\ page \div IO_L2_ENTRIES = l1(page)
           /\ l1(page) \in L1 /\ l2(page) \in L2 /\ page % IO_L2_ENTRIES = l2(page)
           /\ page = IO_L2_ENTRIES * l1(page) + l2(page)
<1> DEFINE n == IO_L1_ENTRIES
           m == IO_L2_ENTRIES
           q == page \div m
           r == page % m
<1>1. n \in Nat \ {0} /\ m \in Nat \ {0} /\ n * m \in Nat
  BY TlbAssumption
<1>2. page \in Int /\ page >= 0 /\ page < m * n
  BY <1>1 DEF InRange
<1>3. q \in Int /\ r \in 0..(m - 1) /\ page = m * q + r
  BY <1>1, <1>2, DivisionForm
<1> HIDE DEF q, r, n, m
<1>4. q >= 0
  <2>1. SUFFICES ASSUME q <= -1 PROVE FALSE
    BY <1>3
  <2>2. m * q <= m * (-1)
    BY <1>1, <1>3, <2>1
  <2> QED
    BY <1>1, <1>2, <1>3, <2>2
<1>5. q < n
  <2>1. SUFFICES ASSUME q >= n PROVE FALSE
    BY <1>1, <1>3
  <2>2. m * q >= m * n
    BY <1>1, <1>3, <2>1
  <2> QED
    BY <1>1, <1>2, <1>3, <2>2
<1>6. (n * 0 + q) % n = q
  BY <1>1, <1>3, <1>4, <1>5, RemainderUnique, 0 \in Int
<1>7. n * 0 + q = q
  BY <1>1, <1>3
<1>8. l1(page) = q /\ l2(page) = r
  BY <1>6, <1>7 DEF l1, l2, n, m, q, r
<1>9. l1(page) \in L1 /\ l2(page) \in L2
  BY <1>1, <1>3, <1>4, <1>5, <1>8 DEF L1, L2, n, m
<1> QED
  BY <1>2, <1>3, <1>8, <1>9 DEF n, m, q, r

LEMMA PagesApart ==
    ASSUME NEW p \in InRange, NEW page \in InRange,
           l1(p) = l1(page), l2(p) = l2(page)
    PROVE  p = page
BY PageSplit

(* The tables hold, page by page, what a flat table would.                 *)
Entry(page) == pt[l1(page)][l2(page)]

IommuInv ==
    /\ pd \in [L1 -> {"null", "absent", "present"}]
    /\ pt \in [L1 -> [L2 -> PtesWritten]]
    /\ DOMAIN mapped \subseteq InRange
    /\ \A page \in InRange :
          page \in DOMAIN mapped <=> pd[l1(page)] = "present" /\ Entry(page).present
    /\ \A page \in DOMAIN mapped : mapped[page] = Entry(page)

LEMMA TablesPrimed ==
    ASSUME /\ pd' \in [L1 -> {"null", "absent", "present"}]
           /\ pt' \in [L1 -> [L2 -> PtesWritten]]
           /\ DOMAIN mapped' \subseteq InRange,
           \A page \in InRange :
               page \in DOMAIN mapped'
                   <=> pd'[l1(page)] = "present" /\ Entry(page)'.present,
           \A page \in DOMAIN mapped' : mapped'[page] = Entry(page)'
    PROVE  IommuInv'
<1>1. L1' = L1 /\ L2' = L2 /\ InRange' = InRange
  BY DEF L1, L2, InRange
<1>2. PtesWritten' = PtesWritten
  BY DEF PtesWritten, Pte, Unmapped
<1> QED
  BY <1>1, <1>2, Zenon DEF IommuInv, l1

LEMMA IommuInitially == IommuInit => IommuInv
<1> SUFFICES ASSUME IommuInit PROVE IommuInv
  OBVIOUS
<1>1. \A i \in L1 : pd[i] = "null"
  BY DEF IommuInit
<1>2. pd \in [L1 -> {"null", "absent", "present"}]
  BY DEF IommuInit
<1>3. pt \in [L1 -> [L2 -> PtesWritten]]
  BY DEF IommuInit, PtesWritten
<1>4. DOMAIN mapped = {}
  BY DEF IommuInit
<1>5. \A page \in InRange : pd[l1(page)] # "present"
  BY <1>1, PageSplit
<1> QED
  BY <1>2, <1>3, <1>4, <1>5 DEF IommuInv

LEMMA DirectoryStep ==
    ASSUME IommuInv, NEW i \in L1, NEW to \in {"null", "absent", "present"},
           SetDirectory(i, to)
    PROVE  IommuInv'
<1>1. /\ pd' = [pd EXCEPT ![i] = to]
      /\ pt' = [pt EXCEPT ![i] = [j \in L2 |-> Unmapped]]
      /\ mapped' = [page \in DOMAIN mapped \ Beneath(i) |-> mapped[page]]
  BY DEF SetDirectory
<1>2. /\ pd \in [L1 -> {"null", "absent", "present"}]
      /\ pt \in [L1 -> [L2 -> PtesWritten]] /\ DOMAIN mapped \subseteq InRange
      /\ [j \in L2 |-> Unmapped] \in [L2 -> PtesWritten]
  <2>1. Unmapped \in PtesWritten
    BY DEF PtesWritten
  <2> QED
    BY <2>1 DEF IommuInv
<1>3. /\ pd' \in [L1 -> {"null", "absent", "present"}]
      /\ pt' \in [L1 -> [L2 -> PtesWritten]]
      /\ DOMAIN mapped' = DOMAIN mapped \ Beneath(i)
  BY <1>1, <1>2
<1>4. ASSUME NEW page \in InRange, l1(page) = i
      PROVE  page \notin DOMAIN mapped' /\ ~Entry(page)'.present
  <2>1. page \in Beneath(i) /\ l1(page) \in L1 /\ l2(page) \in L2
    BY <1>4, PageSplit DEF Beneath
  <2>2. Entry(page)' = Unmapped
    BY <1>1, <1>2, <1>4, <2>1 DEF Entry, l1, l2
  <2>3. ~Unmapped.present
    BY DEF Unmapped, Pte
  <2> QED
    BY <1>3, <2>1, <2>2, <2>3
<1>5. ASSUME NEW page \in InRange, l1(page) # i
      PROVE  /\ page \in DOMAIN mapped' <=> page \in DOMAIN mapped
             /\ page \in DOMAIN mapped => mapped'[page] = mapped[page]
             /\ Entry(page)' = Entry(page) /\ pd'[l1(page)] = pd[l1(page)]
  <2>1. page \notin Beneath(i) /\ l1(page) \in L1 /\ l2(page) \in L2
    BY <1>5, PageSplit DEF Beneath
  <2>2. Entry(page)' = Entry(page)
    BY <1>1, <1>2, <1>5, <2>1 DEF Entry, l1, l2
  <2> QED
    BY <1>1, <1>2, <1>3, <1>5, <2>1, <2>2
<1>6. ASSUME NEW page \in InRange
      PROVE  page \in DOMAIN mapped'
                 <=> pd'[l1(page)] = "present" /\ Entry(page)'.present
  <2>1. CASE l1(page) = i
    BY <1>4, <2>1, Zenon
  <2>2. CASE l1(page) # i
    BY <1>5, <2>2, Zenon DEF IommuInv
  <2> QED
    BY <2>1, <2>2
<1>7. ASSUME NEW page \in DOMAIN mapped'
      PROVE  mapped'[page] = Entry(page)'
  <2>1. page \in InRange /\ page \in DOMAIN mapped /\ l1(page) # i
    BY <1>2, <1>3, <1>4
  <2> QED
    BY <1>5, <2>1, Zenon DEF IommuInv
<1>8. DOMAIN mapped' \subseteq InRange
  BY <1>2, <1>3
<1> QED
  BY <1>3, <1>6, <1>7, <1>8, TablesPrimed

LEMMA PageStep ==
    ASSUME IommuInv, NEW page \in InRange, NEW pte \in PtesWritten,
           SetPage(page, pte)
    PROVE  IommuInv'
<1> DEFINE i == l1(page)
           j == l2(page)
<1>1. i \in L1 /\ j \in L2 /\ page \div IO_L2_ENTRIES = i /\ page % IO_L2_ENTRIES = j
  BY PageSplit
<1>2. /\ pd[i] = "present" /\ pd' = pd
      /\ pt' = [pt EXCEPT ![i][j] = pte]
      /\ mapped' = [p \in (DOMAIN mapped \ {page})
                            \union (IF pte.present THEN {page} ELSE {}) |->
                      IF p = page THEN pte ELSE mapped[p]]
  BY <1>1, Zenon DEF SetPage
<1> HIDE DEF i, j
<1>3. /\ pd \in [L1 -> {"null", "absent", "present"}]
      /\ pt \in [L1 -> [L2 -> PtesWritten]] /\ DOMAIN mapped \subseteq InRange
  BY DEF IommuInv
<1>4. /\ pt' \in [L1 -> [L2 -> PtesWritten]] /\ pt'[i][j] = pte
      /\ \A k \in L1, l \in L2 : k # i \/ l # j => pt'[k][l] = pt[k][l]
  BY <1>1, <1>2, <1>3
<1>5. /\ page \in DOMAIN mapped' <=> pte.present
      /\ page \in DOMAIN mapped' => mapped'[page] = pte
      /\ DOMAIN mapped' \subseteq InRange
  BY <1>2, <1>3
<1>6. Entry(page)' = pte
  BY <1>4 DEF Entry, l1, l2, i, j
<1>7. ASSUME NEW p \in InRange, p # page
      PROVE  /\ p \in DOMAIN mapped' <=> p \in DOMAIN mapped
             /\ p \in DOMAIN mapped => mapped'[p] = mapped[p]
             /\ Entry(p)' = Entry(p)
  <2>1. l1(p) # i \/ l2(p) # j
    BY <1>7, PagesApart DEF i, j
  <2>2. l1(p) \in L1 /\ l2(p) \in L2
    BY PageSplit
  <2>3. Entry(p)' = Entry(p)
    BY <1>4, <2>1, <2>2 DEF Entry, l1, l2
  <2> QED
    BY <1>2, <1>7, <2>3
<1>8. ASSUME NEW p \in InRange
      PROVE  p \in DOMAIN mapped' <=> pd'[l1(p)] = "present" /\ Entry(p)'.present
  <2>1. CASE p = page
    BY <1>2, <1>5, <1>6, <2>1, Zenon DEF i
  <2>2. CASE p # page
    BY <1>2, <1>7, <2>2, Zenon DEF IommuInv
  <2> QED
    BY <2>1, <2>2
<1>9. ASSUME NEW p \in DOMAIN mapped'
      PROVE  mapped'[p] = Entry(p)'
  <2>1. CASE p = page
    BY <1>5, <1>6, <1>9, <2>1, Zenon
  <2>2. CASE p # page
    BY <1>5, <1>7, <1>9, <2>2, Zenon DEF IommuInv
  <2> QED
    BY <2>1, <2>2
<1>10. pd' \in [L1 -> {"null", "absent", "present"}]
  BY <1>2, <1>3
<1> QED
  BY <1>4, <1>5, <1>8, <1>9, <1>10, TablesPrimed

LEMMA IommuInductive == IommuInv /\ [IommuNext]_iommuVars => IommuInv'
<1>1. ASSUME IommuInv, UNCHANGED <<pd, pt, mapped>> PROVE IommuInv'
  BY <1>1 DEF IommuInv, Entry
<1>2. ASSUME NEW page, NEW write, iommu_translate(page, write)
      PROVE  UNCHANGED <<pd, pt, mapped>>
  BY <1>2 DEF iommu_translate
<1> QED
  BY <1>1, <1>2, DirectoryStep, PageStep DEF IommuNext, iommuVars

LEMMA TranslateAnswers ==
    ASSUME IommuInv, NEW page \in Int, NEW write \in BOOLEAN,
           iommu_translate(page, write)
    PROVE  AnsweredByFlatTable
<1> DEFINE may == page \in DOMAIN mapped /\ (write => mapped[page].writable)
<1>1. request'.page = page /\ request'.write = write
  <2>1. request' = [page |-> page, write |-> write]
    BY DEF iommu_translate
  <2> QED
    BY <2>1, Zenon
<1>2. IF page \notin InRange THEN Refuse("IOVA outside 24-bit model")
      ELSE IF pd[l1(page)] # "present" THEN Refuse("L1 not present")
      ELSE IF ~Entry(page).present THEN Refuse("L2 not present")
      ELSE IF write /\ ~Entry(page).writable THEN Refuse("write to read-only page")
      ELSE granted' = TRUE /\ fault' = "none" /\ pa' = Entry(page).pfn
  BY Zenon DEF iommu_translate, Entry
<1>3. page \in DOMAIN mapped => page \in InRange /\ mapped[page] = Entry(page)
  BY DEF IommuInv
<1>4. page \in InRange =>
        (page \in DOMAIN mapped <=> pd[l1(page)] = "present" /\ Entry(page).present)
  BY DEF IommuInv
<1>5. page \in InRange => page \div IO_L2_ENTRIES = l1(page)
  BY PageSplit
<1>6. /\ granted' = may
      /\ pa' = IF may THEN mapped[page].pfn ELSE pa
      /\ fault' = IF may THEN "none"
                  ELSE IF page \notin InRange THEN "IOVA outside 24-bit model"
                  ELSE IF page \in DOMAIN mapped THEN "write to read-only page"
                  ELSE IF pd[page \div IO_L2_ENTRIES] = "present"
                         THEN "L2 not present" ELSE "L1 not present"
  BY <1>2, <1>3, <1>4, <1>5, Zenon DEF Refuse
<1> QED
  BY <1>1, <1>6, Zenon DEF AnsweredByFlatTable

(* Two levels of tables of any size answer as one flat table does, however *)
(* the driver edits them between requests (iommu_translate).               *)
THEOREM FlatTable == IommuSpec => AnswersAsFlatTable
<1>1. IommuInv /\ [IommuNext]_iommuVars
          => [request' # None => AnsweredByFlatTable]_iommuVars
  <2> SUFFICES ASSUME IommuInv, IommuNext, request' # None
               PROVE  AnsweredByFlatTable
    OBVIOUS
  <2>1. \A i \in L1, to \in {"null", "absent", "present"} : ~SetDirectory(i, to)
    BY DEF SetDirectory
  <2>2. \A page \in InRange : \A pte \in PtesWritten : ~SetPage(page, pte)
    BY DEF SetPage
  <2>3. PICK page \in 0..(IO_L1_ENTRIES * IO_L2_ENTRIES), write \in BOOLEAN :
            iommu_translate(page, write)
    BY <2>1, <2>2 DEF IommuNext
  <2>4. page \in Int
    BY TlbAssumption
  <2> QED
    BY <2>3, <2>4, TranslateAnswers
<1> QED
  BY <1>1, IommuInitially, IommuInductive, PTL DEF IommuSpec, AnswersAsFlatTable

------------------------------------------------------------------------------
(* The arguments stay as MemInit has them.                                 *)
CopyArguments ==
    /\ copier \in {"my_memmove", "my_memcpy"}
    /\ dst \in Bytes /\ src \in Bytes
    /\ size \in Nat /\ dst + size <= Size /\ src + size <= Size
    /\ copier = "my_memcpy" => dst + size <= src \/ src + size <= dst

CopyInv ==
    /\ CopyArguments /\ left \in 0..size
    /\ mem \in [Bytes -> Bytes] /\ MoveIsCopy

(* The bytes copied so far: the first ones, or the last when memmove runs  *)
(* backward.                                                               *)
Ahead == copier = "my_memcpy" \/ forward
CopiedAt(k) == IF Ahead THEN k < size - left ELSE k >= left

(* What MoveIsCopy says, as the proofs use it.                             *)
LEMMA MoveParts ==
    ASSUME CopyArguments
    PROVE  MoveIsCopy <=>
             /\ \A k \in 0..(size - 1) : CopiedAt(k) => mem[dst + k] = src + k
             /\ \A k \in 0..(size - 1) : ~CopiedAt(k) => mem[src + k] = src + k
             /\ \A at \in Bytes \ (dst..(dst + size - 1)) : mem[at] = at
<1>1. \A k \in 0..(size - 1) :
        src + k \in Bytes /\ dst + k \in Bytes /\ Original[src + k] = src + k
  BY MemAssumption DEF CopyArguments, Bytes, Original
<1>2. \A at \in Bytes : Original[at] = at
  BY DEF Original
<1> QED
  BY <1>1, <1>2, Zenon DEF MoveIsCopy, CopiedAt, Ahead

LEMMA CopyInitially == MemInit => CopyInv
<1> SUFFICES ASSUME MemInit PROVE CopyInv
  OBVIOUS
<1>1. CopyArguments /\ left = size /\ size \in Nat /\ src \in Int
  BY MemAssumption DEF MemInit, CopyArguments, Bytes
<1>2. mem \in [Bytes -> Bytes] /\ \A at \in Bytes : mem[at] = at
  BY DEF MemInit, Original
<1>3. \A k \in 0..(size - 1) : ~CopiedAt(k) /\ src + k \in Bytes
  BY <1>1, MemAssumption DEF CopiedAt, CopyArguments, Bytes
<1>4. MoveIsCopy
  BY <1>1, <1>2, <1>3, MoveParts
<1> QED
  BY <1>1, <1>2, <1>4 DEF CopyInv

(* One byte: the next of those in order never lands on one still to be     *)
(* copied.                                                                 *)
LEMMA CopyStep ==
    ASSUME CopyInv, NEW k, CopyByte(k),
           \/ Ahead /\ k = size - left /\ (copier = "my_memmove" => dst < src)
           \/ ~Ahead /\ k = left - 1 /\ dst > src
    PROVE  CopyInv'
<1>1. /\ CopyArguments /\ left \in 1..size /\ left' = left - 1 /\ size \in Nat
      /\ mem \in [Bytes -> Bytes] /\ mem' = [mem EXCEPT ![dst + k] = mem[src + k]]
      /\ copier' = copier /\ dst' = dst /\ src' = src /\ size' = size
      /\ dst \in Nat /\ src \in Nat
  BY MemAssumption, SMTT(60) DEF CopyInv, CopyByte, CopyArguments, Bytes
<1>2. CopyArguments' /\ (Ahead' <=> Ahead)
  BY <1>1 DEF CopyArguments, Ahead, forward
<1>3. k \in 0..(size - 1) /\ ~CopiedAt(k)
      /\ \A j \in 0..(size - 1) : CopiedAt(j)' <=> (CopiedAt(j) \/ j = k)
  BY <1>1, <1>2 DEF CopiedAt
<1>4. \A j \in 0..(size - 1) : src + j \in Bytes /\ dst + j \in Bytes
  BY <1>1, MemAssumption DEF CopyArguments, Bytes
<1>5. /\ \A j \in 0..(size - 1) : CopiedAt(j) => mem[dst + j] = src + j
      /\ \A j \in 0..(size - 1) : ~CopiedAt(j) => mem[src + j] = src + j
      /\ \A at \in Bytes \ (dst..(dst + size - 1)) : mem[at] = at
  BY <1>1, MoveParts DEF CopyInv
<1>6. /\ mem' \in [Bytes -> Bytes] /\ mem'[dst + k] = src + k
      /\ \A at \in Bytes : at # dst + k => mem'[at] = mem[at]
  BY <1>1, <1>3, <1>4, <1>5
<1>7. ASSUME NEW j \in 0..(size - 1), CopiedAt(j)'
      PROVE  mem'[dst + j] = src + j
  <2>1. CASE j = k
    BY <1>6, <2>1
  <2>2. CASE j # k
    <3>1. CopiedAt(j) /\ dst + j \in Bytes /\ dst + j # dst + k
      BY <1>1, <1>3, <1>4, <1>7, <2>2
    <3> QED
      BY <1>5, <1>6, <3>1
  <2> QED
    BY <2>1, <2>2
<1>8. ASSUME NEW j \in 0..(size - 1), ~CopiedAt(j)'
      PROVE  mem'[src + j] = src + j
  <2>1. ~CopiedAt(j) /\ j # k /\ src + j \in Bytes
    BY <1>3, <1>4, <1>8
  <2>2. src + j # dst + k
    <3>1. CASE Ahead /\ copier = "my_memcpy"
      BY <1>1, <1>3, <3>1 DEF CopyArguments
    <3>2. CASE Ahead /\ copier = "my_memmove"
      <4>1. j > k /\ dst < src /\ k \in Int
        BY <1>1, <1>3, <2>1, <3>2 DEF CopiedAt
      <4> QED
        BY <1>1, <4>1
    <3>3. CASE ~Ahead
      <4>1. j < k /\ dst > src /\ k \in Int
        BY <1>1, <1>3, <2>1, <3>3 DEF CopiedAt
      <4> QED
        BY <1>1, <4>1
    <3> QED
      BY <1>1, <3>1, <3>2, <3>3 DEF CopyArguments
  <2> QED
    BY <1>5, <1>6, <2>1, <2>2
<1>9. ASSUME NEW at \in Bytes \ (dst..(dst + size - 1))
      PROVE  mem'[at] = at
  <2>1. at # dst + k /\ at \in Bytes
    BY <1>1, <1>3
  <2> QED
    BY <1>5, <1>6, <2>1
<1>10. MoveIsCopy'
  <2>1. \A j \in 0..(size - 1) : Original[src + j] = src + j
    BY <1>4 DEF Original
  <2>2. \A at \in Bytes : Original[at] = at
    BY DEF Original
  <2>3. Original' = Original /\ Bytes' = Bytes
    BY DEF Original, Bytes
  <2> QED
    BY <1>1, <1>7, <1>8, <1>9, <2>1, <2>2, <2>3, ZenonT(60)
    DEF MoveIsCopy, CopiedAt, Ahead
<1> QED
  BY <1>1, <1>2, <1>6, <1>10 DEF CopyInv

LEMMA CopyInductive == CopyInv /\ [MemNext]_memVars => CopyInv'
<1> SUFFICES ASSUME CopyInv, [MemNext]_memVars PROVE CopyInv'
  OBVIOUS
<1>1. /\ copier \in {"my_memmove", "my_memcpy"} /\ dst \in Int /\ src \in Int
  BY MemAssumption DEF CopyInv, CopyArguments, Bytes
<1>2. CASE my_memcpy
  BY <1>1, <1>2, CopyStep DEF my_memcpy, Ahead
<1>3. CASE my_memmove
  BY <1>1, <1>3, CopyStep DEF my_memmove, Ahead, forward
<1>4. CASE UNCHANGED memVars
  BY <1>4 DEF memVars, CopyInv, CopyArguments, MoveIsCopy, forward
<1> QED
  BY <1>2, <1>3, <1>4 DEF MemNext

(* For any array, any regions that memmove may be called with and those    *)
(* that memcpy may (my_memmove, my_memcpy): the destination becomes the    *)
(* source as it was, and nothing else changes.                             *)
THEOREM MoveCopies == MemSpec => []MoveIsCopy
<1>1. CopyInv => MoveIsCopy
  BY DEF CopyInv
<1> QED
  BY <1>1, CopyInitially, CopyInductive, PTL DEF MemSpec

------------------------------------------------------------------------------
(* No node is built twice, and the last one built is where the next will   *)
(* be linked.                                                              *)
ListInv ==
    /\ phase \in {"build", "reverse", "free"}
    /\ built \in Seq(Heap) /\ nextOf \in [Heap -> Heap \cup {Null}]
    /\ \A i, j \in 1..Len(built) : built[i] = built[j] => i = j
    /\ phase = "build" => curr = Built(Len(built))
    /\ ListsReversed

LEMMA ListInitially == ListInit => ListInv
<1> SUFFICES ASSUME ListInit PROVE ListInv
  OBVIOUS
<1>1. /\ phase = "build" /\ built = <<>> /\ live = {} /\ head = Null /\ curr = Null
      /\ nextOf \in [Heap -> Heap \cup {Null}]
  BY DEF ListInit
<1>2. built \in Seq(Heap) /\ Len(built) = 0
  BY <1>1
<1>3. Built(0) = Null /\ Built(1) = Null /\ FirstBuilt(0) = {}
  BY <1>2 DEF Built, FirstBuilt
<1>4. Onwards(head, 1)
  BY <1>1, <1>2, <1>3 DEF Onwards
<1>5. ListsReversed
  BY <1>1, <1>2, <1>3, <1>4, 0 \in 0..0 DEF ListsReversed
<1> QED
  BY <1>1, <1>2, <1>3, <1>5 DEF ListInv

LEMMA BuiltIs ==
    ASSUME ListInv
    PROVE  /\ Len(built) \in Nat /\ Null \notin Heap
           /\ \A i \in 1..Len(built) : built[i] \in Heap /\ Built(i) = built[i]
           /\ Built(0) = Null /\ Built(Len(built) + 1) = Null
           /\ \A i \in 0..(Len(built) + 1) : Built(i) = Null <=> i \notin 1..Len(built)
<1>1. built \in Seq(Heap) /\ Len(built) \in Nat /\ Null \notin Heap
  BY ListAssumption DEF ListInv
<1>2. \A i \in 1..Len(built) : built[i] \in Heap
  BY <1>1
<1> QED
  BY <1>1, <1>2 DEF Built

LEMMA BuildKeeps ==
    ASSUME ListInv, NEW node \in Heap, BuildNode(node)
    PROVE  ListInv'
<1>1. PICK n \in Nat : n = Len(built)
  BY BuiltIs
<1>2. /\ phase = "build" /\ phase' = "build" /\ node \in Heap \ live
      /\ live' = live \cup {node} /\ built' = Append(built, node) /\ curr' = node
      /\ head' = IF head = Null THEN node ELSE head
      /\ nextOf' = [[nextOf EXCEPT ![node] = Null] EXCEPT
                       ![IF head = Null THEN node ELSE curr] =
                           IF head = Null THEN Null ELSE node]
  BY DEF BuildNode
<1>3. /\ built \in Seq(Heap) /\ nextOf \in [Heap -> Heap \cup {Null}]
      /\ \A i, j \in 1..n : built[i] = built[j] => i = j
      /\ curr = Built(n) /\ head = Built(1) /\ live = FirstBuilt(n)
      /\ \A j \in 1..n : nextOf[built[j]] = Built(j + 1)
  BY <1>1, <1>2 DEF ListInv, ListsReversed, Onwards
<1>4. /\ built' \in Seq(Heap) /\ Len(built') = n + 1 /\ built'[n + 1] = node
      /\ \A i \in 1..n : built'[i] = built[i]
  BY <1>1, <1>2, <1>3, AppendFacts
<1>5. \A i \in 1..n : built[i] # node
  BY <1>2, <1>3 DEF FirstBuilt
<1>6. head = Null <=> n = 0
  <2>1. head = Null <=> 1 \notin 1..n
    BY <1>1, <1>3, BuiltIs, 1 \in 0..(n + 1)
  <2> QED
    BY <2>1
<1>7. /\ nextOf' \in [Heap -> Heap \cup {Null}] /\ nextOf'[node] = Null
      /\ n # 0 => nextOf'[built[n]] = node
      /\ \A i \in 1..n : i # n => nextOf'[built[i]] = nextOf[built[i]]
  <2>1. CASE n = 0
    BY <1>2, <1>3, <1>6, <2>1
  <2>2. CASE n # 0
    <3>1. n \in 1..n /\ curr = built[n] /\ built[n] \in Heap /\ built[n] # node
      BY <1>1, <1>3, <1>5, <2>2, BuiltIs
    <3>2. nextOf' = [[nextOf EXCEPT ![node] = Null] EXCEPT ![built[n]] = node]
      BY <1>2, <1>6, <2>2, <3>1
    <3>3. \A i \in 1..n : built[i] \in Heap /\ (i # n => built[i] # built[n])
      BY <1>1, <1>3, <3>1, BuiltIs
    <3> QED
      BY <1>3, <1>5, <3>1, <3>2, <3>3
  <2> QED
    BY <2>1, <2>2
<1>8. \A i \in 1..(n + 1) : Built(i)' = built'[i]
  BY <1>4 DEF Built
<1>9. Built(n + 2)' = Null
  BY <1>4 DEF Built
<1>10. head' = Built(1)'
  <2>1. 1 \in 1..(n + 1)
    OBVIOUS
  <2>2. CASE n = 0
    BY <1>2, <1>4, <1>6, <1>8, <2>1, <2>2
  <2>3. CASE n # 0
    <3>1. 1 \in 1..n
      BY <2>3
    <3>2. Built(1) = built[1]
      BY <1>1, <3>1, BuiltIs
    <3> QED
      BY <1>2, <1>3, <1>4, <1>6, <1>8, <2>1, <2>3, <3>1, <3>2
  <2> QED
    BY <2>2, <2>3
<1>11. ASSUME NEW j \in 1..(n + 1) PROVE nextOf'[built'[j]] = Built(j + 1)'
  <2>1. CASE j = n + 1
    <3>1. j + 1 = n + 2
      BY <2>1
    <3> QED
      BY <2>1, <3>1, <1>4, <1>7, <1>9
  <2>2. CASE j = n
    <3>1. j + 1 \in 1..(n + 1) /\ j \in 1..n /\ n # 0 /\ j + 1 = n + 1
      BY <2>2
    <3> QED
      BY <2>2, <3>1, <1>4, <1>7, <1>8
  <2>3. CASE j \in 1..n /\ j # n
    <3>1. j + 1 \in 1..(n + 1) /\ j + 1 \in 1..n
      BY <2>3
    <3>2. nextOf'[built'[j]] = Built(j + 1)
      BY <2>3, <1>3, <1>4, <1>7
    <3>3. Built(j + 1) = built[j + 1]
      BY <1>1, <3>1, BuiltIs
    <3> QED
      BY <3>1, <3>2, <3>3, <1>4, <1>8
  <2> QED
    BY <2>1, <2>2, <2>3
<1>12. live' = FirstBuilt(n + 1)'
  <2>1. \A j : j \in 1..(n + 1) <=> j \in 1..n \/ j = n + 1
    OBVIOUS
  <2>2. FirstBuilt(n + 1)' = {built'[j] : j \in 1..(n + 1)}
    BY DEF FirstBuilt
  <2> QED
    BY <2>1, <2>2, <1>2, <1>3, <1>4 DEF FirstBuilt
<1>13. ListsReversed'
  <2>1. Len(built') \in 0..Len(built')
    BY <1>4
  <2>2. Onwards(head, 1)'
    BY <1>4, <1>10, <1>11 DEF Onwards
  <2>3. (live = FirstBuilt(Len(built)))'
    BY <1>4, <1>12 DEF FirstBuilt
  <2> QED
    BY <1>2, <2>1, <2>2, <2>3 DEF ListsReversed
<1>14. \A i, j \in 1..(n + 1) : built'[i] = built'[j] => i = j
  <2> SUFFICES ASSUME NEW i \in 1..(n + 1), NEW j \in 1..(n + 1), built'[i] = built'[j]
               PROVE  i = j
    OBVIOUS
  <2>1. (i \in 1..n \/ i = n + 1) /\ (j \in 1..n \/ j = n + 1)
    OBVIOUS
  <2> QED
    BY <2>1, <1>3, <1>4, <1>5
<1>15. curr' = Built(Len(built))'
  <2>1. n + 1 \in 1..(n + 1)
    OBVIOUS
  <2>2. curr' = built'[n + 1]
    BY <1>2, <1>4
  <2> QED
    BY <2>1, <2>2, <1>4 DEF Built
<1> QED
  BY <1>2, <1>4, <1>7, <1>13, <1>14, <1>15 DEF ListInv

LEMMA ReverseKeeps ==
    ASSUME ListInv, ReverseNode
    PROVE  ListInv'
<1>1. PICK n \in Nat : n = Len(built)
  BY BuiltIs
<1>2. /\ phase = "reverse" /\ phase' = "reverse" /\ curr # Null
      /\ nextOf' = [nextOf EXCEPT ![curr] = prev] /\ prev' = curr
      /\ curr' = nextOf[curr] /\ built' = built /\ live' = live
  BY DEF ReverseNode, saved
<1>3. PICK k \in 0..n : /\ Backwards(prev, k) /\ Onwards(curr, k + 1)
                        /\ live = FirstBuilt(n)
  BY <1>1, <1>2 DEF ListInv, ListsReversed
<1>4. /\ nextOf \in [Heap -> Heap \cup {Null}] /\ built \in Seq(Heap)
      /\ \A i, j \in 1..n : built[i] = built[j] => i = j
  BY <1>1 DEF ListInv
<1>5. k + 1 \in 1..n /\ curr = built[k + 1] /\ curr \in Heap
  <2>1. curr = Built(k + 1) /\ k + 1 \in 0..(n + 1)
    BY <1>3 DEF Onwards
  <2>2. k + 1 \in 1..n
    BY <1>1, <1>2, <2>1, BuiltIs
  <2> QED
    BY <1>1, <2>1, <2>2, BuiltIs
<1>6. prev = Built(k) /\ prev \in Heap \cup {Null}
  <2>1. prev = Built(k)
    BY <1>3 DEF Backwards
  <2> QED
    BY <2>1, <1>4, <1>1 DEF Built
<1>7. /\ nextOf' \in [Heap -> Heap \cup {Null}] /\ nextOf'[built[k + 1]] = Built(k)
      /\ \A j \in 1..n : j # k + 1 => nextOf'[built[j]] = nextOf[built[j]]
  <2>1. \A j \in 1..n : built[j] \in Heap /\ (j # k + 1 => built[j] # curr)
    BY <1>1, <1>4, <1>5, BuiltIs
  <2> QED
    BY <1>2, <1>4, <1>5, <1>6, <2>1
<1>8. \A i : Built(i)' = Built(i)
  BY <1>2 DEF Built
<1>9. curr' = Built(k + 2)
  <2>1. k + 1 \in (k + 1)..Len(built) /\ (k + 1) + 1 = k + 2
    BY <1>1, <1>5
  <2>2. nextOf[built[k + 1]] = Built((k + 1) + 1)
    BY <1>3, <2>1 DEF Onwards
  <2> QED
    BY <1>2, <1>5, <2>1, <2>2
<1>10. Backwards(prev, k + 1)'
  <2>1. Built(k + 1) = built[k + 1]
    BY <1>1, <1>5, BuiltIs
  <2>2. ASSUME NEW j \in 1..(k + 1) PROVE nextOf'[built[j]] = Built(j - 1)
    <3>1. CASE j = k + 1
      <4>1. j - 1 = k
        BY <3>1
      <4> QED
        BY <3>1, <4>1, <1>7
    <3>2. CASE j # k + 1
      <4>1. j \in 1..k /\ j \in 1..n
        BY <3>2, <1>5
      <4> QED
        BY <3>2, <4>1, <1>3, <1>7 DEF Backwards
    <3> QED
      BY <3>1, <3>2
  <2>3. prev' = Built(k + 1)
    BY <1>2, <1>5, <2>1
  <2> QED
    BY <1>2, <1>8, <2>2, <2>3 DEF Backwards
<1>11. Onwards(curr, k + 2)'
  <2>1. ASSUME NEW j \in (k + 2)..n PROVE nextOf'[built[j]] = Built(j + 1)
    <3>1. j \in (k + 1)..n /\ j \in 1..n /\ j # k + 1
      OBVIOUS
    <3> QED
      BY <3>1, <1>1, <1>3, <1>7 DEF Onwards
  <2> QED
    BY <1>1, <1>2, <1>8, <1>9, <2>1 DEF Onwards
<1>12. (live = FirstBuilt(Len(built)))'
  BY <1>1, <1>2, <1>3 DEF FirstBuilt
<1>13. ListsReversed'
  <2>1. k + 1 \in 0..Len(built') /\ (k + 1) + 1 = k + 2
    BY <1>1, <1>2, <1>5
  <2> QED
    BY <1>2, <1>10, <1>11, <1>12, <2>1 DEF ListsReversed
<1> QED
  BY <1>1, <1>2, <1>4, <1>7, <1>13 DEF ListInv

LEMMA ListInductive == ListInv /\ [ListNext]_listVars => ListInv'
<1> SUFFICES ASSUME ListInv, [ListNext]_listVars PROVE ListInv'
  OBVIOUS
<1>1. CASE UNCHANGED listVars
  <2>1. /\ phase' = phase /\ built' = built /\ nextOf' = nextOf /\ live' = live
        /\ head' = head /\ prev' = prev /\ curr' = curr
    BY <1>1 DEF listVars
  <2>2. /\ \A i : Built(i)' = Built(i) /\ FirstBuilt(i)' = FirstBuilt(i)
        /\ FirstBuilt(Len(built))' = FirstBuilt(Len(built))
    BY <2>1 DEF Built, FirstBuilt
  <2>3. Onwards(head, 1)' <=> Onwards(head, 1)
    BY <2>1, <2>2 DEF Onwards
  <2>4. ASSUME NEW k
        PROVE  /\ Backwards(head, k)' <=> Backwards(head, k)
               /\ Backwards(prev, k)' <=> Backwards(prev, k)
    BY <2>1, <2>2 DEF Backwards
  <2>5. ASSUME NEW k PROVE Onwards(curr, k)' <=> Onwards(curr, k)
    BY <2>1, <2>2 DEF Onwards
  <2>6. ListsReversed'
    <3>1. ListsReversed
      BY DEF ListInv
    <3>2. Len(built') = Len(built)
      BY <2>1
    <3>3. CASE phase = "build"
      BY <3>1, <3>2, <3>3, <2>1, <2>2, <2>3 DEF ListsReversed
    <3>4. CASE phase = "reverse"
      BY <3>1, <3>2, <3>4, <2>1, <2>2, <2>4, <2>5 DEF ListsReversed
    <3>5. CASE phase = "free"
      BY <3>1, <3>2, <3>5, <2>1, <2>2, <2>4 DEF ListsReversed
    <3> QED
      BY <3>3, <3>4, <3>5 DEF ListInv
  <2> QED
    BY <2>1, <2>6 DEF ListInv, Built
<1>2. ASSUME NEW node \in Heap, BuildNode(node) PROVE ListInv'
  BY <1>2, BuildKeeps
<1>3. CASE BuildReturns
  <2>1. /\ phase = "build" /\ phase' = "reverse" /\ prev' = Null /\ curr' = head
        /\ built' = built /\ nextOf' = nextOf /\ live' = live
    BY <1>3 DEF BuildReturns
  <2>2. Onwards(head, 1) /\ live = FirstBuilt(Len(built))
    BY <2>1 DEF ListInv, ListsReversed
  <2>3. Backwards(prev, 0)'
    <3>1. Built(0)' = Null /\ \A j \in 1..0 : FALSE
      BY <2>1, BuiltIs DEF Built
    <3> QED
      BY <2>1, <3>1 DEF Backwards
  <2>4. Onwards(curr, 0 + 1)'
    BY <2>1, <2>2 DEF Onwards, Built
  <2>5. (live = FirstBuilt(Len(built)))' /\ 0 \in 0..Len(built')
    BY <2>1, <2>2, BuiltIs DEF FirstBuilt
  <2>6. ListsReversed'
    BY <2>1, <2>3, <2>4, <2>5 DEF ListsReversed
  <2> QED
    BY <2>1, <2>6 DEF ListInv
<1>4. CASE ReverseNode
  BY <1>4, ReverseKeeps
<1>5. CASE ReverseReturns
  <2>1. /\ phase = "reverse" /\ curr = Null /\ phase' = "free" /\ head' = prev
        /\ built' = built /\ nextOf' = nextOf /\ live' = live
    BY <1>5 DEF ReverseReturns
  <2>2. PICK k \in 0..Len(built) : /\ Backwards(prev, k) /\ Onwards(curr, k + 1)
                                   /\ live = FirstBuilt(Len(built))
    BY <2>1 DEF ListInv, ListsReversed
  <2>3. k = Len(built)
    <3>1. Built(k + 1) = Null /\ k + 1 \in 0..(Len(built) + 1)
      BY <2>1, <2>2, BuiltIs DEF Onwards
    <3>2. k + 1 \notin 1..Len(built)
      BY <3>1, BuiltIs
    <3> QED
      BY <3>2, BuiltIs
  <2>4. Backwards(head, k)' /\ (live = FirstBuilt(k))' /\ k \in 0..Len(built')
    BY <2>1, <2>2, <2>3 DEF Backwards, Built, FirstBuilt
  <2>5. ListsReversed'
    BY <2>1, <2>4 DEF ListsReversed
  <2> QED
    BY <2>1, <2>5 DEF ListInv
<1>6. CASE FreeNode
  <2>1. /\ phase = "free" /\ head # Null /\ live' = live \ {head}
        /\ head' = nextOf[head] /\ phase' = phase /\ built' = built /\ nextOf' = nextOf
    BY <1>6 DEF FreeNode
  <2>2. PICK k \in 0..Len(built) : Backwards(head, k) /\ live = FirstBuilt(k)
    BY <2>1 DEF ListInv, ListsReversed
  <2>3. k \in 1..Len(built) /\ head = built[k] /\ k - 1 \in 0..Len(built)
    <3>1. head = Built(k) /\ k \in 0..(Len(built) + 1)
      BY <2>2, BuiltIs DEF Backwards
    <3>2. k \in 1..Len(built)
      BY <2>1, <3>1, BuiltIs
    <3> QED
      BY <3>1, <3>2, BuiltIs
  <2>4. Backwards(head, k - 1)'
    <3>1. nextOf[built[k]] = Built(k - 1) /\ \A j \in 1..(k - 1) : j \in 1..k
      BY <2>2, <2>3 DEF Backwards
    <3> QED
      BY <2>1, <2>2, <2>3, <3>1 DEF Backwards, Built
  <2>5. (live = FirstBuilt(k - 1))'
    <3>1. \A j \in 1..(k - 1) : j \in 1..k /\ j # k /\ j \in 1..Len(built)
      BY <2>3
    <3>2. \A j \in 1..k : j = k \/ j \in 1..(k - 1)
      BY <2>3
    <3>3. \A j \in 1..(k - 1) : built[j] # built[k]
      BY <2>3, <3>1 DEF ListInv
    <3>4. FirstBuilt(k) \ {built[k]} = FirstBuilt(k - 1)
      BY <3>1, <3>2, <3>3 DEF FirstBuilt
    <3> QED
      BY <2>1, <2>2, <2>3, <3>4 DEF FirstBuilt
  <2>6. ListsReversed'
    BY <2>1, <2>3, <2>4, <2>5 DEF ListsReversed
  <2> QED
    BY <2>1, <2>6 DEF ListInv
<1> QED
  BY <1>1, <1>2, <1>3, <1>4, <1>5, <1>6 DEF ListNext

(* However long the list and wherever an allocation failed, it is turned   *)
(* round without losing a node, and all of it is freed.                    *)
THEOREM Reversed == ListSpec => []ListsReversed
<1>1. ListInv => ListsReversed
  BY DEF ListInv
<1> QED
  BY <1>1, ListInitially, ListInductive, PTL DEF ListSpec

------------------------------------------------------------------------------
(* The search for a cycle.  The nodes that fast has passed, in order: slow *)
(* is half way along them, and was at no turn where fast was.              *)
FastPassed(f) ==
    /\ f[0] = first /\ slow = f[turns] /\ fast = f[2 * turns]
    /\ \A i \in 0..(2 * turns - 1) : f[i] \in Nodes /\ f[i + 1] = nextNode[f[i]]
    /\ \A k \in 1..turns : f[k] # f[2 * k]

CycleInv ==
    /\ nextNode \in [Nodes -> Nodes \union {NoNode}] /\ first \in Nodes \union {NoNode}
    /\ turns \in Nat /\ turns <= Cardinality(Nodes)
    /\ (found = "searching" =>
           \E f \in [0..(2 * turns) -> Nodes \union {NoNode}] : FastPassed(f))
    /\ (found = "cycle" => Endless) /\ (found = "none" => ~Endless)
    /\ found \in {"searching", "cycle", "none"}

LEMMA WalkBegins == CycleInit => CycleInv
<1> SUFFICES ASSUME CycleInit PROVE CycleInv
  OBVIOUS
<1>1. /\ nextNode \in [Nodes -> Nodes \union {NoNode}]
      /\ first \in Nodes \union {NoNode}
      /\ slow = first /\ fast = first /\ found = "searching" /\ turns = 0
  BY DEF CycleInit
<1>2. Cardinality(Nodes) \in Nat
  BY CycleAssumption, FS_CardinalityType
<1> DEFINE f == [i \in 0..(2 * turns) |-> first]
<1>3. f \in [0..(2 * turns) -> Nodes \union {NoNode}]
  BY <1>1
<1>4. f[0] = first /\ f[turns] = first /\ f[2 * turns] = first
  BY <1>1
<1> HIDE DEF f
<1>5. FastPassed(f)
  <2>1. \A i \in 0..(2 * turns - 1) : FALSE
    BY <1>1
  <2>2. \A k \in 1..turns : FALSE
    BY <1>1
  <2> QED
    BY <1>1, <1>4, <2>1, <2>2 DEF FastPassed
<1> QED
  BY <1>1, <1>2, <1>3, <1>5 DEF CycleInv

(* Where fast goes on, slow is at a node: one that fast has passed, or the *)
(* one both start from.                                                    *)
LEMMA SlowBehind ==
    ASSUME turns \in Nat, NEW f, FastPassed(f), TwoAhead,
           nextNode \in [Nodes -> Nodes \union {NoNode}],
           f \in [0..(2 * turns) -> Nodes \union {NoNode}]
    PROVE  slow \in Nodes /\ fast \in Nodes /\ nextNode[fast] \in Nodes
           /\ slow # NoNode
<1>1. fast \in Nodes /\ nextNode[fast] \in Nodes
  <2>1. fast \in Nodes \union {NoNode}
    BY DEF FastPassed
  <2> QED
    BY <2>1 DEF TwoAhead
<1>2. CASE turns = 0
  BY <1>1, <1>2, CycleAssumption DEF FastPassed
<1>3. CASE turns # 0
  <2>1. turns \in 0..(2 * turns - 1)
    BY <1>3
  <2> QED
    BY <1>1, <2>1, CycleAssumption DEF FastPassed
<1> QED
  BY <1>2, <1>3

(* Closed sets of nodes hold all that is walked, so that fast finds two    *)
(* more where the list has no end.                                         *)
LEMMA EndlessGoesOn ==
    ASSUME turns \in Nat, NEW f, FastPassed(f), Endless,
           nextNode \in [Nodes -> Nodes \union {NoNode}],
           f \in [0..(2 * turns) -> Nodes \union {NoNode}]
    PROVE  TwoAhead
<1>1. PICK nodes \in SUBSET Nodes :
          first \in nodes /\ \A node \in nodes : nextNode[node] \in nodes
  BY DEF Endless
<1> DEFINE out == {i \in 0..(2 * turns) : f[i] \notin nodes}
<1>2. out = {}
  <2> SUFFICES ASSUME out # {} PROVE FALSE
    OBVIOUS
  <2>1. out \in SUBSET Nat
    OBVIOUS
  <2>2. PICK i \in out : \A k \in out : i <= k
    BY <2>1, LeastNatural
  <2>3. i # 0
    BY <1>1 DEF FastPassed
  <2>4. i - 1 \in 0..(2 * turns - 1) /\ i - 1 \notin out /\ (i - 1) + 1 = i
    BY <2>2, <2>3
  <2>5. f[i - 1] \in nodes
    BY <2>4
  <2>6. f[(i - 1) + 1] = nextNode[f[i - 1]]
    BY <2>4 DEF FastPassed
  <2> QED
    BY <1>1, <2>2, <2>4, <2>5, <2>6
<1>3. fast \in nodes
  <2>1. 2 * turns \in 0..(2 * turns)
    OBVIOUS
  <2> QED
    BY <1>2, <2>1 DEF FastPassed
<1> QED
  BY <1>1, <1>3, CycleAssumption DEF TwoAhead

(* A walk that comes back to where it was repeats itself; at the first     *)
(* multiple of the period that is past its beginning, the pointers meet.   *)
LEMMA PointersMeet ==
    ASSUME turns \in Nat, NEW f, FastPassed(f),
           NEW i \in Nat, NEW period \in Nat \ {0}, i + period <= turns,
           f[i] = f[i + period]
    PROVE  FALSE
<1> DEFINE odd == {m \in Nat : /\ i <= m /\ m + period <= 2 * turns
                               /\ f[m + period] # f[m]}
<1>1. odd = {}
  <2> SUFFICES ASSUME odd # {} PROVE FALSE
    OBVIOUS
  <2>1. odd \in SUBSET Nat
    OBVIOUS
  <2>2. PICK m \in odd : \A k \in odd : m <= k
    BY <2>1, LeastNatural
  <2>3. m # i
    OBVIOUS
  <2>4. /\ m - 1 \in Nat /\ i <= m - 1 /\ (m - 1) + period <= 2 * turns
        /\ (m - 1) + 1 = m /\ ((m - 1) + period) + 1 = m + period /\ ~(m <= m - 1)
    BY <2>2, <2>3
  <2>5. f[(m - 1) + period] = f[m - 1]
    BY <2>2, <2>4
  <2>6. m - 1 \in 0..(2 * turns - 1) /\ (m - 1) + period \in 0..(2 * turns - 1)
    BY <2>2, <2>4
  <2>7. f[m] = nextNode[f[m - 1]] /\ f[m + period] = nextNode[f[(m - 1) + period]]
    BY <2>4, <2>6 DEF FastPassed
  <2> QED
    BY <2>2, <2>5, <2>7
<1> DEFINE q == i \div period
           rest == i % period
<1>2. q \in Int /\ rest \in 0..(period - 1) /\ i = period * q + rest
  BY DivisionForm
<1> HIDE DEF q, rest
<1>3. q \in Nat
  <2>1. SUFFICES ASSUME q <= -1 PROVE FALSE
    BY <1>2
  <2>2. period * q <= period * (-1)
    BY <1>2, <2>1
  <2> QED
    BY <1>2, <2>2
<1> DEFINE meet == (q + 1) * period
<1>4. meet = i - rest + period /\ meet \in Nat
  <2>1. meet = period * q + period
    BY <1>3
  <2> QED
    BY <1>2, <2>1
<1>5. meet \in 1..turns /\ i <= meet
  BY <1>2, <1>4
<1> DEFINE bad == {k \in Nat : /\ meet + k * period <= 2 * turns
                               /\ f[meet + k * period] # f[meet]}
<1>6. bad = {}
  <2> HIDE DEF meet
  <2> SUFFICES ASSUME bad # {} PROVE FALSE
    OBVIOUS
  <2>1. bad \in SUBSET Nat
    OBVIOUS
  <2>2. PICK k \in bad : \A l \in bad : k <= l
    BY <2>1, LeastNatural
  <2>3. k # 0
    <3>1. meet + 0 * period = meet
      BY <1>4
    <3> QED
      BY <2>2, <3>1
  <2> DEFINE m == meet + (k - 1) * period
  <2>4. m + period = meet + k * period /\ m \in Nat /\ i <= m /\ k - 1 \in Nat
    <3>1. k - 1 \in Nat /\ (k - 1) * period = k * period - period /\ (k - 1) * period \in Nat
      BY <2>2, <2>3
    <3> QED
      BY <1>4, <1>5, <3>1
  <2>5. m <= 2 * turns /\ m + period <= 2 * turns
    BY <2>2, <2>4
  <2>6. f[m] = f[meet]
    BY <2>2, <2>4, <2>5
  <2> HIDE DEF m
  <2>7. f[m + period] = f[m]
    BY <1>1, <2>4, <2>5
  <2> QED
    BY <2>2, <2>4, <2>6, <2>7
<1>7. meet + (q + 1) * period = 2 * meet
  BY <1>4
<1> HIDE DEF meet
<1>8. q + 1 \in Nat /\ meet + (q + 1) * period <= 2 * turns
  BY <1>3, <1>5, <1>7
<1>9. f[2 * meet] = f[meet]
  BY <1>6, <1>7, <1>8
<1> QED
  BY <1>5, <1>9 DEF FastPassed

(* There are not enough nodes for a walk that does not come back.          *)
LEMMA TurnsLeft ==
    ASSUME turns \in Nat, NEW f, FastPassed(f), TwoAhead,
           nextNode \in [Nodes -> Nodes \union {NoNode}],
           f \in [0..(2 * turns) -> Nodes \union {NoNode}]
    PROVE  turns + 1 <= Cardinality(Nodes)
<1>1. PICK number \in Nat : number = Cardinality(Nodes)
  BY CycleAssumption, FS_CardinalityType
<1>2. SUFFICES ASSUME number <= turns PROVE FALSE
  BY <1>1
<1>3. number # 0
  <2>1. fast \in Nodes
    BY SlowBehind
  <2> QED
    BY <1>1, <2>1, CycleAssumption, FS_EmptySet
<1>4. \A i \in 0..number : i \in 0..(2 * turns - 1) /\ i \in 0..(2 * turns)
  BY <1>1, <1>2, <1>3
<1> DEFINE g == [i \in 0..number |-> f[i]]
<1>5. g \in [0..number -> Nodes]
  BY <1>4 DEF FastPassed
<1>6. IsFiniteSet(0..number) /\ Cardinality(Nodes) < Cardinality(0..number)
  <2>1. PICK a \in Int, z \in Int : a = 0 /\ z = number
    OBVIOUS
  <2>2. IsFiniteSet(a..z) /\ Cardinality(a..z) = IF a > z THEN 0 ELSE z - a + 1
    BY FS_Interval
  <2>3. (IF a > z THEN 0 ELSE z - a + 1) = number + 1
    BY <2>1
  <2> QED
    BY <1>1, <2>1, <2>2, <2>3
<1> HIDE DEF g
<1>7. \E i, j \in 0..number : i # j /\ g[i] = g[j]
  BY <1>5, <1>6, CycleAssumption, FS_PigeonHole
<1>8. PICK i, j \in 0..number : i < j /\ f[i] = f[j]
  <2>1. PICK a, z \in 0..number : a # z /\ g[a] = g[z]
    BY <1>7
  <2>2. f[a] = f[z] /\ (a < z \/ z < a)
    BY <1>1, <2>1 DEF g
  <2> QED
    BY <2>2
<1> DEFINE period == j - i
<1>9. i \in Nat /\ period \in Nat \ {0} /\ i + period <= turns /\ f[i] = f[i + period]
  <2>1. i + (j - i) = j
    OBVIOUS
  <2> QED
    BY <1>1, <1>2, <1>8, <2>1
<1> HIDE DEF period
<1> QED
  BY <1>9, PointersMeet

LEMMA StepWalks ==
    ASSUME CycleInv, SearchStep
    PROVE  CycleInv'
<1>1. /\ found = "searching" /\ TwoAhead /\ slow' = nextNode[slow]
      /\ fast' = nextNode[nextNode[fast]] /\ turns' = turns + 1
      /\ found' = (IF slow' = fast' THEN "cycle" ELSE found)
      /\ nextNode' = nextNode /\ first' = first
  BY DEF SearchStep, two_on
<1>2. /\ nextNode \in [Nodes -> Nodes \union {NoNode}]
      /\ first \in Nodes \union {NoNode}
      /\ turns \in Nat
  BY DEF CycleInv
<1>3. PICK f \in [0..(2 * turns) -> Nodes \union {NoNode}] : FastPassed(f)
  BY <1>1 DEF CycleInv
<1>4. slow \in Nodes /\ fast \in Nodes /\ nextNode[fast] \in Nodes
  BY <1>1, <1>2, <1>3, SlowBehind
<1>5. turns' <= Cardinality(Nodes) /\ turns' \in Nat
  BY <1>1, <1>2, <1>3, TurnsLeft
<1>6. PICK far, near : far = nextNode[nextNode[fast]] /\ near = nextNode[slow]
  OBVIOUS
<1> DEFINE t == turns + 1
           g == [i \in 0..(2 * t) |-> IF i <= 2 * turns THEN f[i]
                                      ELSE IF i = 2 * turns + 1 THEN nextNode[fast] ELSE far]
<1>7. g \in [0..(2 * t) -> Nodes \union {NoNode}]
  <2>1. far \in Nodes \union {NoNode} /\ nextNode[fast] \in Nodes
    BY <1>2, <1>4, <1>6
  <2>2. ASSUME NEW i \in 0..(2 * t), i <= 2 * turns PROVE f[i] \in Nodes \union {NoNode}
    BY <1>2, <1>3, <2>2
  <2> QED
    BY <2>1, <2>2
<1>8. \A i \in 0..(2 * turns) : g[i] = f[i]
  BY <1>2
<1>9. g[2 * turns + 1] = nextNode[fast] /\ g[2 * t] = far
  BY <1>2
<1> HIDE DEF g
<1>10. f[0] = first /\ slow = f[turns] /\ fast = f[2 * turns]
  BY <1>3 DEF FastPassed
<1>11. ASSUME NEW i \in 0..(2 * t - 1)
       PROVE  g[i] \in Nodes /\ g[i + 1] = nextNode[g[i]]
  <2>1. CASE i \in 0..(2 * turns - 1)
    <3>1. f[i] \in Nodes /\ f[i + 1] = nextNode[f[i]]
      BY <1>3, <2>1 DEF FastPassed
    <3>2. i \in 0..(2 * turns) /\ i + 1 \in 0..(2 * turns)
      BY <1>2, <2>1
    <3> QED
      BY <1>8, <3>1, <3>2
  <2>2. CASE i = 2 * turns
    <3>1. i \in 0..(2 * turns)
      BY <1>2, <2>2
    <3> QED
      BY <1>4, <1>8, <1>9, <1>10, <2>2, <3>1
  <2>3. CASE i = 2 * turns + 1
    <3>1. i + 1 = 2 * t
      BY <1>2, <2>3
    <3> QED
      BY <1>4, <1>6, <1>9, <2>3, <3>1
  <2> QED
    BY <1>2, <2>1, <2>2, <2>3
<1>12. g[t] = near /\ g[0] = first
  <2>1. turns \in 0..(2 * turns) /\ turns \in 0..(2 * t - 1) /\ 0 \in 0..(2 * turns)
    BY <1>2
  <2>2. g[turns + 1] = nextNode[g[turns]]
    BY <1>11, <2>1
  <2> QED
    BY <1>6, <1>8, <1>10, <2>1, <2>2
<1>13. CASE near = far
  <2> DEFINE nodes == {g[i] : i \in 0..(2 * t - 1)}
  <2>1. nodes \in SUBSET Nodes
    BY <1>11
  <2>2. first \in nodes
    <3>1. 0 \in 0..(2 * t - 1)
      BY <1>2
    <3> QED
      BY <1>12, <3>1
  <2>3. ASSUME NEW node \in nodes PROVE nextNode[node] \in nodes
    <3>1. PICK i \in 0..(2 * t - 1) : node = g[i]
      OBVIOUS
    <3>2. nextNode[node] = g[i + 1]
      BY <1>11, <3>1
    <3>3. CASE i + 1 \in 0..(2 * t - 1)
      BY <3>2, <3>3
    <3>4. CASE i + 1 = 2 * t
      <4>1. t \in 0..(2 * t - 1)
        BY <1>2
      <4> QED
        BY <1>9, <1>12, <1>13, <3>2, <3>4, <4>1
    <3> QED
      BY <1>2, <3>3, <3>4
  <2>4. Endless
    BY <2>1, <2>2, <2>3 DEF Endless
  <2>5. found' = "cycle"
    BY <1>1, <1>6, <1>13
  <2>6. Endless'
    BY <1>1, <2>4 DEF Endless
  <2> QED
    BY <1>1, <1>2, <1>5, <2>5, <2>6 DEF CycleInv
<1>14. CASE near # far
  <2>1. found' = "searching"
    BY <1>1, <1>6, <1>14
  <2>2. ASSUME NEW k \in 1..t PROVE g[k] # g[2 * k]
    <3>1. CASE k \in 1..turns
      <4>1. k \in 0..(2 * turns) /\ 2 * k \in 0..(2 * turns)
        BY <1>2, <3>1
      <4> QED
        BY <1>3, <1>8, <3>1, <4>1 DEF FastPassed
    <3>2. CASE k = t
      BY <1>9, <1>12, <1>14, <3>2
    <3> QED
      BY <1>2, <3>1, <3>2
  <2>3. /\ g[0] = first' /\ slow' = g[turns'] /\ fast' = g[2 * turns']
        /\ \A i \in 0..(2 * turns' - 1) : g[i] \in Nodes /\ g[i + 1] = nextNode'[g[i]]
        /\ \A k \in 1..turns' : g[k] # g[2 * k]
    BY <1>1, <1>6, <1>9, <1>11, <1>12, <2>2
  <2>4. \E w \in [0..(2 * turns') -> Nodes \union {NoNode}] : FastPassed(w)'
    BY <1>1, <1>7, <2>3 DEF FastPassed
  <2> QED
    BY <1>1, <1>2, <1>5, <2>1, <2>4 DEF CycleInv
<1> QED
  BY <1>13, <1>14

LEMMA WalkInductive ==
    ASSUME CycleInv, [CycleNext]_cycleVars
    PROVE  CycleInv'
<1>1. CASE SearchStep
  BY <1>1, StepWalks
<1>2. CASE SearchEnds
  <2>1. /\ found = "searching" /\ ~TwoAhead /\ found' = "none"
        /\ UNCHANGED <<nextNode, first, slow, fast, turns>>
    BY <1>2 DEF SearchEnds
  <2>2. ~Endless
    BY <2>1, EndlessGoesOn DEF CycleInv
  <2>3. ~Endless'
    BY <2>1, <2>2 DEF Endless
  <2> QED
    BY <2>1, <2>3 DEF CycleInv
<1>3. CASE UNCHANGED cycleVars
  BY <1>3 DEF CycleInv, cycleVars, FastPassed, Endless
<1> QED
  BY <1>1, <1>2, <1>3 DEF CycleNext

LEMMA WalkSound ==
    ASSUME CycleInv
    PROVE  turns <= Cardinality(Nodes) /\ SearchSound
<1>1. found = "searching" /\ TwoAhead => slow # NoNode
  BY SlowBehind DEF CycleInv
<1> QED
  BY <1>1 DEF CycleInv, SearchSound

(* On every list of any number of nodes the loop turns once for every node *)
(* at most, follows no NULL, and answers "cycle" exactly if the list has   *)
(* no end.                                                                 *)
THEOREM CycleFound == CycleSpec => [](turns <= Cardinality(Nodes) /\ SearchSound)
  BY WalkBegins, WalkInductive, WalkSound, PTL DEF CycleSpec
==============================================================================
