---------------------------- MODULE MapperProofs ----------------------------
(***************************************************************************)
(* Proofs about the mapper: what it delivers is a kernel that the old      *)
(* scheduler can schedule, on connected qubits, and does what the program  *)
(* does.                                                                   *)
(***************************************************************************)
EXTENDS OldSchedulerProofs

-----------------------------------------------------------------------------
(* Numbers and lists.                                                      *)

LEMMA StepByStep ==
  ASSUME NEW N \in Nat, NEW S, 0 \in S, \A n \in 0 .. N : n < N /\ n \in S => n + 1 \in S
  PROVE  \A n \in 0 .. N : n \in S
<1> DEFINE T == {n \in 0 .. N : n \notin S}
<1> SUFFICES ASSUME T # {} PROVE FALSE
  OBVIOUS
<1>1. PICK k \in T : \A y \in T : k <= y
  <2>1. T \in SUBSET (0 .. N)
    OBVIOUS
  <2> HIDE DEF T
  <2> QED BY <2>1, FirstAndLast
<1>2. k \in 0 .. N /\ k \notin S /\ k # 0
  OBVIOUS
<1>3. k - 1 \in 0 .. N /\ k - 1 < N /\ (k - 1) + 1 = k
  BY <1>2
<1>4. k - 1 \in S
  BY <1>1, <1>3
<1> QED BY <1>2, <1>3, <1>4

\* A function that is given step by step exists.
Iterates(f, N, S, a, G) ==
  f \in [0 .. N -> S] /\ f[0] = a /\ \A n \in 1 .. N : f[n] = G[<<f[n - 1], n>>]

LEMMA StepsExist ==
  ASSUME NEW N \in Nat, NEW S, NEW a \in S, NEW G,
         \A x \in S, n \in 1 .. N : G[<<x, n>>] \in S
  PROVE  \E f : Iterates(f, N, S, a, G)
<1> DEFINE Good(f, k) == f[0] = a /\ \A n \in 1 .. k : f[n] = G[<<f[n - 1], n>>]
           T == {k \in 0 .. N : \E f \in [0 .. N -> S] : Good(f, k)}
<1>1. 0 \in T
  <2>1. [n \in 0 .. N |-> a] \in [0 .. N -> S] /\ Good([n \in 0 .. N |-> a], 0)
    OBVIOUS
  <2>2. 0 \in 0 .. N
    OBVIOUS
  <2> HIDE DEF Good
  <2> QED BY <2>1, <2>2
<1>2. ASSUME NEW k \in 0 .. N, k < N, k \in T PROVE k + 1 \in T
  <2>1. PICK f \in [0 .. N -> S] : Good(f, k)
    BY <1>2
  <2> DEFINE h == [f EXCEPT ![k + 1] = G[<<f[k], k + 1>>]]
  <2>2. k + 1 \in 1 .. N /\ f[k] \in S /\ G[<<f[k], k + 1>>] \in S
    BY <1>2
  <2>3. h \in [0 .. N -> S] /\ h[k + 1] = G[<<f[k], k + 1>>] /\ \A n \in 0 .. k : h[n] = f[n]
    BY <1>2, <2>2
  <2> HIDE DEF h
  <2>4. Good(h, k + 1)
    <3>1. h[0] = a
      BY <2>1, <2>3
    <3>2. ASSUME NEW n \in 1 .. k + 1 PROVE h[n] = G[<<h[n - 1], n>>]
      <4>1. CASE n = k + 1
        BY <2>3, <4>1
      <4>2. CASE n \in 1 .. k
        <5>1. n - 1 \in 0 .. k /\ n \in 0 .. k
          BY <4>2
        <5> QED BY <2>1, <2>3, <4>2, <5>1
      <4> QED BY <4>1, <4>2
    <3> QED BY <3>1, <3>2
  <2> QED BY <1>2, <2>3, <2>4
<1> HIDE DEF T
<1>3. N \in T
  BY <1>1, <1>2, StepByStep
<1> QED BY <1>3 DEF T, Iterates

LEMMA Joining ==
  ASSUME NEW S, NEW s \in Seq(S), NEW t \in Seq(S)
  PROVE  /\ s \o t \in Seq(S) /\ Len(s \o t) = Len(s) + Len(t)
         /\ \A k \in 1 .. Len(s) : (s \o t)[k] = s[k]
         /\ \A k \in 1 .. Len(t) : (s \o t)[Len(s) + k] = t[k]
OBVIOUS

LEMMA Inserting ==
  ASSUME NEW S, NEW list \in Seq(S), NEW i \in 1 .. Len(list) + 1, NEW e \in S
  PROVE  LET new == InsertAt(list, i, e)
         IN /\ new \in Seq(S) /\ Len(new) = Len(list) + 1 /\ new[i] = e
            /\ \A k \in 1 .. i - 1 : new[k] = list[k]
            /\ \A k \in i .. Len(list) : new[k + 1] = list[k]
<1> DEFINE L == Len(list)
           s == SubSeq(list, 1, i - 1)
           t == SubSeq(list, i, L)
           new == InsertAt(list, i, e)
<1>1. L \in Nat /\ i \in 1 .. L + 1
  OBVIOUS
<1>2. s \in Seq(S) /\ Len(s) = i - 1 /\ \A k \in 1 .. i - 1 : s[k] = list[k]
  BY <1>1
<1>3. t \in Seq(S) /\ Len(t) = L - i + 1 /\ \A k \in 1 .. L - i + 1 : t[k] = list[i + k - 1]
  BY <1>1
<1>4. new = (s \o <<e>>) \o t
  BY DEF InsertAt
<1> HIDE DEF s, t, new, L
<1>5. <<e>> \in Seq(S) /\ Len(<<e>>) = 1 /\ <<e>>[1] = e
  OBVIOUS
<1>6. s \o <<e>> \in Seq(S) /\ Len(s \o <<e>>) = i
  BY <1>1, <1>2, <1>5
<1>7. new \in Seq(S) /\ Len(new) = L + 1
  <2>1. new \in Seq(S) /\ Len(new) = Len(s \o <<e>>) + Len(t)
    BY <1>3, <1>4, <1>6, Joining
  <2>2. Len(new) = i + (L - i + 1)
    BY <1>3, <1>6, <2>1
  <2>3. i + (L - i + 1) = L + 1
    BY <1>1
  <2> QED BY <2>1, <2>2, <2>3
<1>8. \A k \in 1 .. i - 1 : new[k] = list[k]
  BY <1>1, <1>2, <1>3, <1>4, <1>5, <1>6
<1>9. new[i] = e
  BY <1>1, <1>2, <1>3, <1>4, <1>5, <1>6
<1>10. ASSUME NEW k \in i .. L PROVE new[k + 1] = list[k]
  <2>1. new[k + 1] = t[k + 1 - i]
    BY <1>1, <1>3, <1>4, <1>6
  <2>2. k + 1 - i \in 1 .. L - i + 1 /\ i + (k + 1 - i) - 1 = k
    BY <1>1
  <2> QED BY <1>3, <2>1, <2>2
<1> QED BY <1>7, <1>8, <1>9, <1>10 DEF L, new

LEMMA Removing ==
  ASSUME NEW S, NEW list \in Seq(S), NEW i \in 1 .. Len(list)
  PROVE  LET rest == RemoveAt(list, i)
         IN /\ rest \in Seq(S) /\ Len(rest) = Len(list) - 1
            /\ \A k \in 1 .. i - 1 : rest[k] = list[k]
            /\ \A k \in i + 1 .. Len(list) : rest[k - 1] = list[k]
<1> DEFINE L == Len(list)
           s == SubSeq(list, 1, i - 1)
           t == SubSeq(list, i + 1, L)
           rest == RemoveAt(list, i)
<1>1. L \in Nat /\ i \in 1 .. L
  OBVIOUS
<1>2. s \in Seq(S) /\ Len(s) = i - 1 /\ \A k \in 1 .. i - 1 : s[k] = list[k]
  BY <1>1
<1>3. i + 1 \in 1 .. L + 1
  BY <1>1
<1>4. t \in Seq(S) /\ Len(t) = L - i /\ \A k \in 1 .. L - i : t[k] = list[(i + 1) + k - 1]
  BY <1>1, <1>3
<1>5. rest = s \o t
  BY DEF RemoveAt
<1> HIDE DEF s, t, rest, L
<1>6. rest \in Seq(S) /\ Len(rest) = L - 1
  BY <1>1, <1>2, <1>4, <1>5
<1>7. \A k \in 1 .. i - 1 : rest[k] = list[k]
  BY <1>1, <1>2, <1>4, <1>5
<1>8. ASSUME NEW k \in i + 1 .. L PROVE rest[k - 1] = list[k]
  <2>1. rest[k - 1] = t[k - i]
    BY <1>1, <1>2, <1>4, <1>5
  <2>2. k - i \in 1 .. L - i /\ (i + 1) + (k - i) - 1 = k
    BY <1>1
  <2> QED BY <1>4, <2>1, <2>2
<1> QED BY <1>6, <1>7, <1>8 DEF L, rest

LEMMA Flattened ==
  ASSUME NEW S, NEW lists \in Seq(Seq(S))
  PROVE  FlattenSeq(lists) \in Seq(S)
<1> DEFINE N == Len(lists)
           Steps(f) == f = [i \in 1 .. N |-> IF i = 1 THEN lists[i] ELSE f[i - 1] \o lists[i]]
           flat == CHOOSE f : Steps(f)
<1>1. N \in Nat /\ \A i \in 1 .. N : lists[i] \in Seq(S)
  OBVIOUS
<1>2. CASE N = 0
  BY <1>2 DEF FlattenSeq
<1>3. CASE N # 0
  <2>1. FlattenSeq(lists) = flat[N]
    BY <1>3 DEF FlattenSeq
  <2> HIDE DEF N
  <2>2. \E f : Steps(f)
    <3> DEFINE G == [x \in Seq(S) \X (1 .. N) |-> x[1] \o lists[x[2]]]
    <3>1. \A s \in Seq(S), i \in 1 .. N : G[<<s, i>>] \in Seq(S)
      BY <1>1
    <3>2. <<>> \in Seq(S) /\ \A s \in Seq(S) : <<>> \o s = s
      OBVIOUS
    <3>3. \A s \in Seq(S), i \in 1 .. N : G[<<s, i>>] = s \o lists[i]
      OBVIOUS
    <3> HIDE DEF G
    <3>4. PICK f \in [0 .. N -> Seq(S)] : f[0] = <<>> /\ \A n \in 1 .. N : f[n] = G[<<f[n - 1], n>>]
      <4>1. \E f : Iterates(f, N, Seq(S), <<>>, G)
        BY <1>1, <3>1, <3>2, StepsExist
      <4> QED BY <4>1 DEF Iterates
    <3> DEFINE h == [i \in 1 .. N |-> f[i]]
    <3>5. ASSUME NEW i \in 1 .. N PROVE h[i] = IF i = 1 THEN lists[i] ELSE h[i - 1] \o lists[i]
      <4>1. i - 1 \in 0 .. N
        BY <1>1
      <4>2. f[i - 1] \in Seq(S)
        BY <3>4, <4>1
      <4>3. f[i] = f[i - 1] \o lists[i] /\ h[i] = f[i]
        BY <3>3, <3>4, <4>2
      <4>4. CASE i = 1
        <5>1. lists[i] \in Seq(S) /\ f[i - 1] = <<>>
          BY <1>1, <3>4, <4>4
        <5> QED BY <3>2, <4>3, <4>4, <5>1
      <4>5. CASE i # 1
        <5>1. i - 1 \in 1 .. N
          BY <1>1, <4>5
        <5> QED BY <4>3, <4>5, <5>1
      <4> QED BY <4>4, <4>5
    <3>6. Steps(h)
      BY <3>5
    <3> QED BY <3>6
  <2>3. Steps(flat)
    <3> HIDE DEF Steps
    <3> QED BY <2>2
  <2>4. \A i \in 1 .. N : flat[i] = IF i = 1 THEN lists[i] ELSE flat[i - 1] \o lists[i]
    <3> HIDE DEF flat
    <3> QED BY <2>3
  <2> HIDE DEF flat, Steps
  <2> DEFINE T == {i \in 0 .. N : i # 0 => flat[i] \in Seq(S)}
  <2>5. ASSUME NEW n \in 0 .. N, n < N, n \in T PROVE n + 1 \in T
    <3>1. n + 1 \in 1 .. N /\ lists[n + 1] \in Seq(S) /\ (n + 1) - 1 = n
      BY <1>1, <2>5
    <3>2. flat[n + 1] = IF n + 1 = 1 THEN lists[n + 1] ELSE flat[n] \o lists[n + 1]
      BY <2>4, <3>1
    <3>3. n # 0 => flat[n] \in Seq(S)
      BY <2>5
    <3>4. flat[n + 1] \in Seq(S)
      BY <3>1, <3>2, <3>3
    <3> QED BY <3>1, <3>4
  <2>6. 0 \in T
    BY <1>1
  <2> HIDE DEF T
  <2>7. N \in T
    <3>1. \A n \in 0 .. N : n \in T
      BY ONLY <1>1, <2>5, <2>6, StepByStep, ZenonT(60)
    <3> QED BY <1>1, <3>1
  <2>8. N # 0
    BY <1>3 DEF N
  <2> QED BY <2>1, <2>7, <2>8 DEF T
<1> QED BY <1>2, <1>3

-----------------------------------------------------------------------------
(* Resources: in the end they are always free.                             *)

Below(m, B) == \A e \in m : e.range.first <= B /\ e.range.second <= B

Reservations == SUBSET Entries(Names \cup {""})

LEMMA FreeBeyond ==
  ASSUME NEW m \in Reservations, NEW B \in Int, Below(m, B), NEW r \in KeyRanges, r.first > B
  PROVE  Find(m, r) = {}
<1>1. \A e \in m : e.range.first \in Int /\ e.range.second \in Int /\ e.range.first <= B /\ e.range.second <= B
  BY DEF Reservations, Entries, KeyRanges, Below
<1>2. r.first \in Int /\ r.second \in Int
  BY DEF KeyRanges
<1>3. \A e \in m : RangeBefore(e.range, r) /\ RangeEntirelyBefore(e.range, r) /\ ~RangeBefore(e.range, e.range)
  BY <1>1, <1>2 DEF RangeBefore, RangeEntirelyBefore
<1>4. FindBefore(m, r) = {}
  BY <1>3 DEF FindBefore
<1>5. FindAfter(m, r) = {}
  BY <1>3 DEF FindAfter
<1> QED BY <1>4, <1>5 DEF Find

LEMMA SetBelow ==
  ASSUME NEW m \in Reservations, NEW B \in Int, Below(m, B), NEW r \in KeyRanges,
         r.first <= B, r.second <= B, NEW v \in Names \cup {""}
  PROVE  SetRange(m, r, v, FALSE) \in Reservations /\ Below(SetRange(m, r, v, FALSE), B)
<1> DEFINE found == Find(m, r)
           heads == SticksOutBefore(found, r)
           tails == SticksOutAfter(found, r)
           before == {Entry(RangePair(e.range.first, r.first), e.value) : e \in heads}
           after  == {Entry(RangePair(r.second, e.range.second), e.value) : e \in tails}
           Fine(e) == e \in Entries(Names \cup {""}) /\ e.range.first <= B /\ e.range.second <= B
<1>1. r.first \in Int /\ r.second \in Int
  BY DEF KeyRanges
<1>2. \A e \in m : Fine(e)
  BY DEF Reservations, Below
<1>3. found \subseteq m
  BY DEF Find, FindBefore, FindAfter
<1>4. heads \subseteq m /\ tails \subseteq m
  BY <1>3 DEF SticksOutBefore, SticksOutAfter
<1>5. \A e \in m : Fine(Entry(RangePair(e.range.first, r.first), e.value))
                   /\ Fine(Entry(RangePair(r.second, e.range.second), e.value))
  BY <1>1, <1>2 DEF Entry, RangePair, Entries, KeyRanges
<1>6. Fine(Entry(RangePair(r.first, r.second), v))
  BY <1>1 DEF Entry, RangePair, Entries, KeyRanges
<1>7. \A e \in SetRange(m, r, v, FALSE) :
        e \in m \cup before \cup after \cup {Entry(RangePair(r.first, r.second), v)}
  BY DEF SetRange, Insert
<1> HIDE DEF Fine, heads, tails
<1>8. \A e \in SetRange(m, r, v, FALSE) : Fine(e)
  BY <1>2, <1>4, <1>5, <1>6, <1>7
<1> QED BY <1>8 DEF Fine, Reservations, Below

LEMMA EraseBelow ==
  ASSUME NEW m \in Reservations, NEW B \in Int, Below(m, B), NEW r \in KeyRanges,
         r.first <= B, r.second <= B
  PROVE  EraseRange(m, r) \in Reservations /\ Below(EraseRange(m, r), B)
<1> DEFINE found == Find(m, r)
           heads == SticksOutBefore(found, r)
           tails == SticksOutAfter(found, r)
           before == {Entry(RangePair(e.range.first, r.first), e.value) : e \in heads}
           after  == {Entry(RangePair(r.second, e.range.second), e.value) : e \in tails}
           Fine(e) == e \in Entries(Names \cup {""}) /\ e.range.first <= B /\ e.range.second <= B
<1>1. r.first \in Int /\ r.second \in Int
  BY DEF KeyRanges
<1>2. \A e \in m : Fine(e)
  BY DEF Reservations, Below
<1>3. found \subseteq m
  BY DEF Find, FindBefore, FindAfter
<1>4. heads \subseteq m /\ tails \subseteq m
  BY <1>3 DEF SticksOutBefore, SticksOutAfter
<1>5. \A e \in m : Fine(Entry(RangePair(e.range.first, r.first), e.value))
                   /\ Fine(Entry(RangePair(r.second, e.range.second), e.value))
  BY <1>1, <1>2 DEF Entry, RangePair, Entries, KeyRanges
<1>7. \A e \in EraseRange(m, r) : e \in m \cup before \cup after
  BY DEF EraseRange
<1> HIDE DEF Fine, heads, tails
<1>8. \A e \in EraseRange(m, r) : Fine(e)
  BY <1>2, <1>4, <1>5, <1>7
<1> QED BY <1>8 DEF Fine, Reservations, Below

\* Every reservation ends by cycle B.
Settled(rs, B) ==
  /\ MIN <= B
  /\ \A r \in ResourceKeys : rs.prev[r] <= B
  /\ \A i \in Instruments : Below(rs.instrument[i], B)
  /\ \A q \in Qubits : Below(rs.qubit[q], B)

ResourceStates ==
  [config : {c \in [direction : Directions, exclusive : BOOLEAN, overlap : BOOLEAN] : c.direction = "FORWARD"},
   prev : [ResourceKeys -> Int], instrument : [Instruments -> Reservations],
   channel : [Cores -> [1 .. NumChannels -> Reservations]], qubit : [Qubits -> Reservations]]

Good == {rs \in ResourceStates : \E B \in Int : Settled(rs, B)}

\* What the resources are asked about.
Requests ==
  [qubits : Seq(Qubits), duration : Nat, function : Names, instrumented : BOOLEAN, channelled : {FALSE}]

IsRequest(g) == g \in Requests /\ (g.instrumented => Len(g.qubits) = 1)

LEMMA RequestQubits ==
  ASSUME NEW g, IsRequest(g)
  PROVE  /\ OperandsOf(g) \subseteq Qubits /\ g.duration \in Nat /\ g.function \in Names
         /\ Affected(g) \subseteq Instruments /\ ~UsesChannels(g)
<1>1. g.qubits \in Seq(Qubits) /\ g.duration \in Nat /\ g.function \in Names /\ g.channelled = FALSE
  BY DEF IsRequest, Requests
<1>2. OperandsOf(g) \subseteq Qubits
  BY <1>1 DEF OperandsOf
<1>3. Affected(g) \subseteq Instruments
  <2>1. CASE ~g.instrumented
    BY <2>1 DEF Affected
  <2>2. CASE g.instrumented
    <3>1. Len(g.qubits) = 1 /\ g.qubits[1] \in Qubits
      BY <1>1, <2>2 DEF IsRequest
    <3>2. SingleQubitInstruments[g.qubits[1]] \subseteq Instruments
      BY <3>1, ResourcesAssumption
    <3> QED BY <2>2, <3>1, <3>2 DEF Affected
  <2> QED BY <2>1, <2>2
<1> QED BY <1>1, <1>2, <1>3 DEF UsesChannels

LEMMA InitiallyGood ==
  InitialResources([ResourceConfig EXCEPT !.direction = "FORWARD"]) \in Good
<1> DEFINE config == [ResourceConfig EXCEPT !.direction = "FORWARD"]
           rs == InitialResources(config)
<1>1. config \in [direction : Directions, exclusive : BOOLEAN, overlap : BOOLEAN] /\ config.direction = "FORWARD"
  BY ConfigAssumption DEF Directions
<1> HIDE DEF config
<1>2. rs = [config |-> config, prev |-> [r \in ResourceKeys |-> MIN], instrument |-> [i \in Instruments |-> {}],
            channel |-> [core \in Cores |-> [s \in 1 .. NumChannels |-> {}]], qubit |-> [q \in Qubits |-> {}]]
  BY <1>1, KeysOfResources DEF InitialResources
<1> HIDE DEF rs
<1>3. MIN \in Int /\ {} \in Reservations
  BY ResourcesAssumption DEF Reservations
<1>4. rs \in ResourceStates
  BY <1>1, <1>2, <1>3 DEF ResourceStates
<1>5. Settled(rs, MIN)
  BY <1>2, <1>3 DEF Settled, Below
<1> QED BY <1>3, <1>4, <1>5 DEF Good, rs, config

LEMMA EventuallyFree ==
  ASSUME NEW rs \in Good, NEW g, IsRequest(g)
  PROVE  \E B \in Int : \A c \in Int : c > B => Available(rs, c, g)
<1>1. rs \in ResourceStates
  BY DEF Good
<1>2. PICK B \in Int : Settled(rs, B)
  BY DEF Good
<1>3. rs.config.direction = "FORWARD"
  BY <1>1 DEF ResourceStates
<1>4. OperandsOf(g) \subseteq Qubits /\ g.duration \in Nat /\ Affected(g) \subseteq Instruments /\ ~UsesChannels(g)
  BY RequestQubits
<1>5. ASSUME NEW c \in Int, c > B PROVE Available(rs, c, g)
  <2>1. Occupied(c, g) \in KeyRanges /\ Occupied(c, g).first > B
    BY <1>4, <1>5 DEF Occupied, RangePair, KeyRanges
  <2>2. \A q \in Qubits : rs.qubit[q] \in Reservations /\ Below(rs.qubit[q], B)
    BY <1>1, <1>2 DEF ResourceStates, Settled
  <2>3. \A i \in Instruments : rs.instrument[i] \in Reservations /\ Below(rs.instrument[i], B)
    BY <1>1, <1>2 DEF ResourceStates, Settled
  <2>4. QubitAvailable(rs, c, g)
    <3>1. \A q \in Qubits : Find(rs.qubit[q], Occupied(c, g)) = {}
      BY <2>1, <2>2, FreeBeyond
    <3> QED BY <1>4, <3>1 DEF QubitAvailable, IsFree
  <2>5. InstrumentAvailable(rs, c, g)
    <3>1. \A i \in Instruments : Find(rs.instrument[i], Occupied(c, g)) = {}
      BY <2>1, <2>3, FreeBeyond
    <3>2. \A i \in Instruments : MatchType(rs.instrument[i], Occupied(c, g)) = "none"
      BY <3>1 DEF MatchType
    <3> QED BY <1>4, <3>2 DEF InstrumentAvailable
  <2>6. ChannelAvailable(rs, c, g)
    BY <1>4 DEF ChannelAvailable
  <2>7. \A r \in ResourceKeys : ~OutOfOrder(rs, r, c)
    <3>1. \A r \in ResourceKeys : rs.prev[r] \in Int /\ rs.prev[r] <= B
      BY <1>1, <1>2 DEF ResourceStates, Settled
    <3> QED BY <1>3, <1>5, <3>1 DEF OutOfOrder
  <2>8. \A r \in ResourceKeys : GateFits(rs, r, c, g)
    BY <2>4, <2>5, <2>6, <2>7 DEF GateFits, ResourceKeys
  <2> QED BY <2>8, KeysOfResources DEF Available
<1> QED BY <1>5

LEMMA BelowMore ==
  ASSUME NEW m \in Reservations, NEW B \in Int, Below(m, B), NEW C \in Int, B <= C
  PROVE  Below(m, C)
<1>1. \A e \in m : e.range.first \in Int /\ e.range.second \in Int /\ e.range.first <= B /\ e.range.second <= B
  BY DEF Below, Reservations, Entries, KeyRanges
<1> QED BY <1>1 DEF Below

LEMMA ReserveGood ==
  ASSUME NEW rs \in Good, NEW g, IsRequest(g), NEW c \in Int
  PROVE  Reserve(rs, c, g) \in Good
<1> DEFINE done == Committing(rs, c, g)
           p == [r \in DOMAIN rs.prev |-> IF r \in done THEN c ELSE rs.prev[r]]
           i == IF "instrument" \in done THEN InstrumentCommit(rs, c, g) ELSE rs.instrument
           n == IF "inter_core_channel" \in done THEN ChannelCommit(rs, c, g) ELSE rs.channel
           u == IF "qubit" \in done THEN QubitCommit(rs, c, g) ELSE rs.qubit
           range == Occupied(c, g)
<1>1. rs \in ResourceStates
  BY DEF Good
<1>2. PICK A \in Int : Settled(rs, A)
  BY DEF Good
<1>3. /\ OperandsOf(g) \subseteq Qubits /\ g.duration \in Nat /\ g.function \in Names
      /\ Affected(g) \subseteq Instruments /\ ~UsesChannels(g)
  BY RequestQubits
<1> DEFINE B == IF A > c + g.duration THEN A ELSE c + g.duration
<1>4. B \in Int /\ A <= B /\ c <= B /\ range \in KeyRanges /\ range.first = c /\ range.second <= B
  BY <1>3 DEF Occupied, RangePair, KeyRanges
<1>5. MIN \in Int /\ MIN <= A
  BY <1>2, ResourcesAssumption DEF Settled
<1> HIDE DEF range, B
<1>6. DOMAIN rs.prev = ResourceKeys /\ p \in [ResourceKeys -> Int] /\ \A r \in ResourceKeys : p[r] <= B
  <2>1. rs.prev \in [ResourceKeys -> Int]
    BY <1>1 DEF ResourceStates
  <2>2. \A r \in ResourceKeys : rs.prev[r] <= A
    BY <1>2 DEF Settled
  <2> HIDE DEF done
  <2>3. \A r \in ResourceKeys : rs.prev[r] \in Int /\ rs.prev[r] <= B
    BY <1>4, <2>1, <2>2
  <2> QED BY <1>4, <2>1, <2>3
<1>7. \A k \in Instruments : rs.instrument[k] \in Reservations /\ Below(rs.instrument[k], B)
  <2>1. \A k \in Instruments : rs.instrument[k] \in Reservations /\ Below(rs.instrument[k], A)
    BY <1>1, <1>2 DEF ResourceStates, Settled
  <2> QED BY <1>4, <2>1, BelowMore
<1>8. \A q \in Qubits : rs.qubit[q] \in Reservations /\ Below(rs.qubit[q], B)
  <2>1. \A q \in Qubits : rs.qubit[q] \in Reservations /\ Below(rs.qubit[q], A)
    BY <1>1, <1>2 DEF ResourceStates, Settled
  <2> QED BY <1>4, <2>1, BelowMore
<1>9. \A m \in Reservations, v \in Names \cup {""} : Below(m, B) =>
        Reserved(m, c, g, v) \in Reservations /\ Below(Reserved(m, c, g, v), B)
  BY <1>4, SetBelow DEF Reserved, range
<1>10. {} \in Reservations /\ Below({}, B)
  BY DEF Reservations, Below
<1>11. i \in [Instruments -> Reservations] /\ \A k \in Instruments : Below(i[k], B)
  <2> DEFINE cut == RangePair(MIN, range.first)
             new(k) == IF k \in Affected(g)
                       THEN Reserved(EraseRange(rs.instrument[k], cut), c, g, FunctionOf(rs, g))
                       ELSE rs.instrument[k]
  <2>1. cut \in KeyRanges /\ cut.first <= B /\ cut.second <= B
    BY <1>4, <1>5 DEF RangePair, KeyRanges
  <2>2. FunctionOf(rs, g) \in Names \cup {""}
    BY <1>3 DEF FunctionOf
  <2> HIDE DEF cut
  <2>3. \A k \in Instruments : EraseRange(rs.instrument[k], cut) \in Reservations
                               /\ Below(EraseRange(rs.instrument[k], cut), B)
    BY <1>4, <1>7, <2>1, EraseBelow
  <2>4. \A k \in Instruments : new(k) \in Reservations /\ Below(new(k), B)
    BY <1>7, <1>9, <2>2, <2>3
  <2>5. rs.config.direction = "FORWARD"
    BY <1>1 DEF ResourceStates
  <2>6. InstrumentCommit(rs, c, g) = [k \in Instruments |-> new(k)]
    BY <2>5 DEF InstrumentCommit, cut, range
  <2> HIDE DEF new, done
  <2>7. CASE i = InstrumentCommit(rs, c, g)
    BY <2>4, <2>6, <2>7
  <2>8. CASE i = rs.instrument
    <3>1. rs.instrument \in [Instruments -> Reservations]
      BY <1>1 DEF ResourceStates
    <3> QED BY <1>7, <2>8, <3>1
  <2> QED BY <2>7, <2>8
<1>12. u \in [Qubits -> Reservations] /\ \A q \in Qubits : Below(u[q], B)
  <2> DEFINE new(q) == IF q \in OperandsOf(g)
                       THEN Reserved(IF Optimize(rs) THEN {} ELSE rs.qubit[q], c, g, "") ELSE rs.qubit[q]
  <2>1. \A q \in Qubits : new(q) \in Reservations /\ Below(new(q), B)
    BY <1>8, <1>9, <1>10
  <2>2. QubitCommit(rs, c, g) = [q \in Qubits |-> new(q)]
    BY DEF QubitCommit
  <2> HIDE DEF new, done
  <2>3. CASE u = QubitCommit(rs, c, g)
    BY <2>1, <2>2, <2>3
  <2>4. CASE u = rs.qubit
    <3>1. rs.qubit \in [Qubits -> Reservations]
      BY <1>1 DEF ResourceStates
    <3> QED BY <1>8, <2>4, <3>1
  <2> QED BY <2>3, <2>4
<1>13. n \in [Cores -> [1 .. NumChannels -> Reservations]]
  <2>1. rs.channel \in [Cores -> [1 .. NumChannels -> Reservations]]
    BY <1>1 DEF ResourceStates
  <2>2. ChannelCommit(rs, c, g) = [core \in Cores |-> [s \in 1 .. NumChannels |-> rs.channel[core][s]]]
    BY <1>3 DEF ChannelCommit
  <2>3. [core \in Cores |-> [s \in 1 .. NumChannels |-> rs.channel[core][s]]]
          \in [Cores -> [1 .. NumChannels -> Reservations]]
    BY <2>1
  <2> HIDE DEF done
  <2> QED BY <2>1, <2>2, <2>3
<1>14. Reserve(rs, c, g) = [rs EXCEPT !.prev = p, !.instrument = i, !.channel = n, !.qubit = u]
  BY DEF Reserve
<1> HIDE DEF p, i, n, u, done
<1>15. /\ Reserve(rs, c, g) \in ResourceStates
       /\ Reserve(rs, c, g).prev = p /\ Reserve(rs, c, g).instrument = i /\ Reserve(rs, c, g).qubit = u
  BY <1>1, <1>6, <1>11, <1>12, <1>13, <1>14 DEF ResourceStates
<1>16. MIN <= B
  BY <1>4, <1>5
<1>17. Settled(Reserve(rs, c, g), B)
  BY <1>6, <1>11, <1>12, <1>15, <1>16 DEF Settled
<1> QED BY <1>4, <1>15, <1>17 DEF Good

-----------------------------------------------------------------------------
(* FreeCycle.                                                              *)

GateRecords ==
  [id : Nat, name : Names, operands : Seq(Qubits), cregs : Seq(Indices), bregs : Seq(Indices), cond : Seq(Indices)]

RealGates == {g \in GateRecords : HasOperands(g)}

Timeline == {y \in Objects : y[1] # "c"}

FreeCycles == [fcv : [Timeline -> Nat], rs : Good]

\* What a gate waits for.
Awaited(g) == Written(g) \cup ToSet(CondOf(g))

LEMMA GateWrites ==
  ASSUME NEW g \in RealGates
  PROVE  Written(g) = ToSet(QubitsOf(g)) \cup ToSet(BregsOf(g))
<1>1. g \in GateRecords /\ HasOperands(g)
  BY DEF RealGates
<1>2. QubitsOf(g) \in Seq(Objects) /\ BregsOf(g) \in Seq(Objects) /\ CondOf(g) \in Seq(Objects)
  BY <1>1 DEF HasOperands
<1>3. ToSet(QubitsOf(g) \o BregsOf(g)) = ToSet(QubitsOf(g)) \cup ToSet(BregsOf(g))
  <2> DEFINE s == QubitsOf(g)  t == BregsOf(g)
  <2>1. s \in Seq(Objects) /\ t \in Seq(Objects)
    BY <1>2
  <2> HIDE DEF s, t
  <2>2. DOMAIN (s \o t) = 1 .. Len(s) + Len(t) /\ Len(s) \in Nat /\ Len(t) \in Nat
        /\ DOMAIN s = 1 .. Len(s) /\ DOMAIN t = 1 .. Len(t)
    BY <2>1
  <2>3. ASSUME NEW k \in 1 .. Len(s) + Len(t) PROVE (s \o t)[k] \in ToSet(s) \cup ToSet(t)
    <3>1. CASE k \in 1 .. Len(s)
      BY <2>1, <2>2, <3>1 DEF ToSet
    <3>2. CASE k \notin 1 .. Len(s)
      <4>1. k - Len(s) \in 1 .. Len(t) /\ Len(s) + (k - Len(s)) = k
        BY <2>2, <3>2
      <4>2. (s \o t)[k] = t[k - Len(s)]
        BY <2>1, <4>1, Joining
      <4> QED BY <2>2, <4>1, <4>2 DEF ToSet
    <3> QED BY <3>1, <3>2
  <2>4. \A k \in 1 .. Len(s) : k \in 1 .. Len(s) + Len(t) /\ (s \o t)[k] = s[k]
    BY <2>1, <2>2
  <2>5. \A k \in 1 .. Len(t) : Len(s) + k \in 1 .. Len(s) + Len(t) /\ (s \o t)[Len(s) + k] = t[k]
    BY <2>1, <2>2
  <2>6. ToSet(s \o t) \subseteq ToSet(s) \cup ToSet(t)
    BY <2>2, <2>3 DEF ToSet
  <2>7. ToSet(s) \subseteq ToSet(s \o t) /\ ToSet(t) \subseteq ToSet(s \o t)
    BY <2>2, <2>4, <2>5 DEF ToSet
  <2>8. ToSet(s \o t) = ToSet(s) \cup ToSet(t)
    BY <2>6, <2>7
  <2> QED BY <2>8 DEF s, t
<1> QED BY <1>3 DEF Written

LEMMA GateObjects ==
  ASSUME NEW g \in RealGates
  PROVE  /\ Awaited(g) \subseteq Timeline /\ IsFiniteSet(Timeline) /\ Written(g) \subseteq Timeline
         /\ Duration[g.name] \in Nat
         /\ IsRequest(ForResources(g))
<1>1. g \in GateRecords /\ HasOperands(g)
  BY DEF RealGates
<1>2. QubitsOf(g) \in Seq(Objects) /\ BregsOf(g) \in Seq(Objects) /\ CondOf(g) \in Seq(Objects)
  BY <1>1 DEF HasOperands
<1>3. /\ \A i \in DOMAIN QubitsOf(g) : QubitsOf(g)[i][1] # "c"
      /\ \A i \in DOMAIN BregsOf(g) : BregsOf(g)[i][1] # "c"
      /\ \A i \in DOMAIN CondOf(g) : CondOf(g)[i][1] # "c"
  BY DEF QubitsOf, BregsOf, CondOf, Qubit, Breg
<1>4. /\ \A i \in DOMAIN QubitsOf(g) : QubitsOf(g)[i] \in Timeline
      /\ \A i \in DOMAIN BregsOf(g) : BregsOf(g)[i] \in Timeline
      /\ \A i \in DOMAIN CondOf(g) : CondOf(g)[i] \in Timeline
  BY <1>2, <1>3 DEF Timeline
<1>5. Written(g) = ToSet(QubitsOf(g)) \cup ToSet(BregsOf(g))
  BY GateWrites
<1>6. Awaited(g) \subseteq Timeline /\ Written(g) \subseteq Timeline
  BY <1>4, <1>5 DEF Awaited, ToSet
<1>7. IsFiniteSet(Timeline)
  <2>1. IsFiniteSet(Objects) /\ Timeline \subseteq Objects
    BY DurationAssumption DEF Timeline
  <2> QED BY <2>1, FS_Subset
<1>8. Duration[g.name] \in Nat
  BY <1>1, DurationAssumption DEF HasOperands
<1>9. ForResources(g) \in Requests /\ (ForResources(g).instrumented => Len(ForResources(g).qubits) = 1)
  <2>1. g.operands \in Seq(Qubits) /\ g.name \in Names
    BY <1>1 DEF GateRecords
  <2> QED BY <1>8, <2>1 DEF ForResources, Requests
<1> QED BY <1>6, <1>7, <1>8, <1>9 DEF IsRequest

LEMMA StartNoRc ==
  ASSUME NEW fc \in FreeCycles, NEW g \in RealGates
  PROVE  /\ StartCycleNoRc(fc, g) \in Nat
         /\ \A x \in Awaited(g) : fc.fcv[x] <= StartCycleNoRc(fc, g)
<1> DEFINE W == Awaited(g)
           S == {1} \cup {fc.fcv[x] : x \in W}
<1>1. W \subseteq Timeline /\ IsFiniteSet(Timeline)
  BY GateObjects
<1>2. \A x \in W : fc.fcv[x] \in Nat
  BY <1>1 DEF FreeCycles
<1>3. StartCycleNoRc(fc, g) = Largest(S)
  BY DEF StartCycleNoRc, Awaited
<1> HIDE DEF W
<1>4. IsFiniteSet(W)
  BY <1>1, FS_Subset
<1>5. IsFiniteSet({fc.fcv[x] : x \in W})
  BY <1>4, ImageFinite
<1>6. IsFiniteSet({1})
  BY FS_Singleton
<1>7. IsFiniteSet(S)
  BY <1>5, <1>6, FS_Union
<1>8. S \in SUBSET Nat /\ S # {} /\ \A x \in W : fc.fcv[x] \in S
  BY <1>2
<1> HIDE DEF S
<1>9. Largest(S) \in S /\ \A y \in S : y <= Largest(S)
  <2>1. S \in SUBSET Int
    BY <1>8
  <2> QED BY <1>7, <1>8, <2>1, LargestAndSmallest
<1> QED BY <1>3, <1>8, <1>9 DEF W

LEMMA StartWithRc ==
  ASSUME NEW fc \in FreeCycles, NEW g \in RealGates, NEW o
  PROVE  /\ StartCycle(fc, g, o) \in Nat
         /\ \A x \in Awaited(g) : fc.fcv[x] <= StartCycle(fc, g, o)
<1> DEFINE Av(c) == Available(fc.rs, c, ForResources(g))
           Steps(f) == f = [c \in Nat |-> IF Av(c) THEN c ELSE f[c + 1]]
           from == CHOOSE f : Steps(f)
           least == StartCycleNoRc(fc, g)
<1>1. least \in Nat /\ \A x \in Awaited(g) : fc.fcv[x] <= least /\ fc.fcv[x] \in Nat
  <2>1. Awaited(g) \subseteq Timeline
    BY GateObjects
  <2> QED BY <2>1, StartNoRc DEF FreeCycles
<1>2. StartCycle(fc, g, o) = IF UsesResources(o) THEN from[least] ELSE least
  BY DEF StartCycle
<1>3. PICK N \in Nat : \A c \in Nat : c >= N => Av(c)
  <2>1. fc.rs \in Good /\ IsRequest(ForResources(g))
    BY GateObjects DEF FreeCycles
  <2>2. PICK B \in Int : \A c \in Int : c > B => Av(c)
    BY <2>1, EventuallyFree
  <2> DEFINE M == IF B < 0 THEN 0 ELSE B + 1
  <2>3. M \in Nat /\ \A c \in Nat : c >= M => c \in Int /\ c > B
    OBVIOUS
  <2> HIDE DEF M, Av
  <2> QED BY <2>2, <2>3
<1> HIDE DEF Av, least
<1>4. \E f : Steps(f)
  <2> DEFINE later(c) == {d \in Nat : d >= c /\ Av(d)}
             h == [c \in Nat |-> Smallest(later(c))]
  <2>1. ASSUME NEW c \in Nat PROVE h[c] = IF Av(c) THEN c ELSE h[c + 1]
    <3>1. CASE Av(c)
      <4>1. c \in later(c) /\ \A d \in later(c) : d \in Nat /\ c <= d
        BY <3>1
      <4> HIDE DEF later
      <4>2. Smallest(later(c)) = c
        BY <4>1 DEF Smallest
      <4> QED BY <3>1, <4>2
    <3>2. CASE ~Av(c)
      <4>1. \A d \in Nat : d >= c /\ Av(d) <=> d >= c + 1 /\ Av(d)
        <5> SUFFICES ASSUME NEW d \in Nat PROVE d >= c /\ Av(d) <=> d >= c + 1 /\ Av(d)
          OBVIOUS
        <5>1. d >= c <=> d = c \/ d >= c + 1
          OBVIOUS
        <5> QED BY <3>2, <5>1
      <4>2. later(c) = later(c + 1) /\ c + 1 \in Nat
        BY <4>1
      <4> HIDE DEF later
      <4> QED BY <3>2, <4>2
    <3> QED BY <3>1, <3>2
  <2>2. h = [c \in Nat |-> h[c]]
    OBVIOUS
  <2> HIDE DEF h
  <2>3. Steps(h)
    BY <2>1, <2>2
  <2> QED BY <2>3
<1>5. Steps(from)
  <2> HIDE DEF Steps
  <2> QED BY <1>4
<1>6. \A c \in Nat : from[c] = IF Av(c) THEN c ELSE from[c + 1]
  <2> HIDE DEF from
  <2> QED BY <1>5
<1> HIDE DEF from, Steps
<1> DEFINE T == {k \in 0 .. N : from[N - k] \in Nat /\ N - k <= from[N - k]}
<1>7. 0 \in T
  BY <1>3, <1>6
<1>8. ASSUME NEW k \in 0 .. N, k < N, k \in T PROVE k + 1 \in T
  <2>1. N - (k + 1) \in Nat /\ N - (k + 1) + 1 = N - k /\ k + 1 \in 0 .. N
    BY <1>8
  <2>2. from[N - (k + 1)] = IF Av(N - (k + 1)) THEN N - (k + 1) ELSE from[N - k]
    BY <1>6, <2>1
  <2>3. from[N - k] \in Nat /\ N - k <= from[N - k]
    BY <1>8
  <2> QED BY <2>1, <2>2, <2>3
<1> HIDE DEF T
<1>9. \A k \in 0 .. N : k \in T
  BY <1>7, <1>8, StepByStep
<1>10. from[least] \in Nat /\ least <= from[least]
  <2>1. CASE least >= N
    BY <1>1, <1>3, <1>6, <2>1
  <2>2. CASE least < N
    <3>1. N - least \in 0 .. N /\ N - (N - least) = least
      BY <1>1, <2>2
    <3>2. N - least \in T
      BY <1>9, <3>1
    <3> QED BY <3>1, <3>2 DEF T
  <2> QED BY <1>1, <2>1, <2>2
<1>11. ASSUME NEW start \in Nat, least <= start
       PROVE  \A x \in Awaited(g) : fc.fcv[x] <= start
  BY <1>1, <1>11
<1> QED BY <1>1, <1>2, <1>10, <1>11

LEMMA AddCycles ==
  ASSUME NEW fc \in FreeCycles, NEW g \in RealGates, NEW start \in Nat, NEW o
  PROVE  /\ AddFc(fc, g, start, o) \in FreeCycles
         /\ \A x \in Timeline : AddFc(fc, g, start, o).fcv[x] =
              IF x \in Written(g) THEN start + Duration[g.name] ELSE fc.fcv[x]
<1> DEFINE v == [x \in Timeline |-> IF x \in Written(g) THEN start + Duration[g.name] ELSE fc.fcv[x]]
           r == IF UsesResources(o) THEN Reserve(fc.rs, start, ForResources(g)) ELSE fc.rs
<1>1. fc = [fcv |-> fc.fcv, rs |-> fc.rs] /\ fc.fcv \in [Timeline -> Nat] /\ fc.rs \in Good
  BY DEF FreeCycles
<1>2. start \in Int /\ Duration[g.name] \in Nat /\ IsRequest(ForResources(g))
  BY GateObjects
<1>3. Reserve(fc.rs, start, ForResources(g)) \in Good
  BY <1>1, <1>2, ReserveGood
<1>4. AddNoRc(fc, g, start) = [fcv |-> v, rs |-> fc.rs]
  BY <1>1 DEF AddNoRc
<1>5. AddFc(fc, g, start, o) = [fcv |-> v, rs |-> r]
  <2> HIDE DEF v
  <2> QED BY <1>4 DEF AddFc
<1>6. v \in [Timeline -> Nat] /\ r \in Good
  BY <1>1, <1>2, <1>3
<1> HIDE DEF r
<1> QED BY <1>5, <1>6 DEF FreeCycles

-----------------------------------------------------------------------------
(* Past, with gates of a set G.                                            *)

Placed(G) == [gate : G, cycle : Nat]

Mappings == [real : [Qubits -> Qubits], state : [Qubits -> {"none", "initialized", "live"}]]

Pasts(G) ==
  [map : Mappings, fc : FreeCycles, waiting : Seq(G), gates : Seq(Placed(G)), output : Seq(Placed(G)),
   failed : BOOLEAN]

\* The tentative schedule keeps gates that share what the first writes in order.
LEMMA TriedStarts ==
  ASSUME NEW G \in SUBSET RealGates, NEW p \in Pasts(G), NEW o
  PROVE  /\ DOMAIN Tried(p, o) = 1 .. Len(p.waiting)
         /\ \A n \in 1 .. Len(p.waiting) :
              /\ Tried(p, o)[n] \in Nat
              /\ \A x \in Awaited(p.waiting[n]) : p.fc.fcv[x] <= Tried(p, o)[n]
              /\ \A k \in 1 .. n - 1 : Written(p.waiting[k]) \cap Awaited(p.waiting[n]) # {}
                                         => Tried(p, o)[k] <= Tried(p, o)[n]
<1> DEFINE w == p.waiting
           N == Len(w)
           S == [fc : FreeCycles, start : Nat]
           next(fc, n) == [fc |-> AddFc(fc, w[n], StartCycle(fc, w[n], o), o), start |-> StartCycle(fc, w[n], o)]
           zero == [fc |-> p.fc, start |-> 0]
           Steps(f) == f = [n \in 0 .. N |-> IF n = 0 THEN zero ELSE next(f[n - 1].fc, n)]
           try == CHOOSE f : Steps(f)
<1>1. /\ N \in Nat /\ DOMAIN w = 1 .. N /\ (\A n \in 1 .. N : w[n] \in RealGates)
      /\ p.fc \in FreeCycles
  BY DEF Pasts
<1>2. Tried(p, o) = [n \in 1 .. N |-> try[n].start]
  BY <1>1 DEF Tried
<1>3. ASSUME NEW fc \in FreeCycles, NEW n \in 1 .. N PROVE next(fc, n) \in S
  <2>1. w[n] \in RealGates /\ StartCycle(fc, w[n], o) \in Nat
    BY <1>1, StartWithRc
  <2>2. AddFc(fc, w[n], StartCycle(fc, w[n], o), o) \in FreeCycles
    BY <2>1, AddCycles
  <2> QED BY <2>1, <2>2
<1>4. zero \in S
  BY <1>1
<1> HIDE DEF N, w
<1>5. \E f : Steps(f)
  <2> DEFINE H == [x \in S \X (1 .. N) |-> next(x[1].fc, x[2])]
  <2>1. \A s \in S, n \in 1 .. N : H[<<s, n>>] = next(s.fc, n) /\ s.fc \in FreeCycles
    OBVIOUS
  <2> HIDE DEF next, H, zero, S
  <2>2. \A s \in S, n \in 1 .. N : H[<<s, n>>] \in S
    BY <1>3, <2>1
  <2>3. PICK f : Iterates(f, N, S, zero, H)
    BY <1>1, <1>4, <2>2, StepsExist
  <2>4. ASSUME NEW n \in 0 .. N PROVE f[n] = IF n = 0 THEN zero ELSE next(f[n - 1].fc, n)
    <3>1. CASE n = 0
      BY <2>3, <3>1 DEF Iterates
    <3>2. CASE n # 0
      <4>1. n \in 1 .. N /\ n - 1 \in 0 .. N
        BY <1>1, <3>2
      <4>2. f[n - 1] \in S /\ f[n] = H[<<f[n - 1], n>>]
        BY <2>3, <4>1 DEF Iterates
      <4> QED BY <2>1, <3>2, <4>1, <4>2
    <3> QED BY <3>1, <3>2
  <2>5. f = [n \in 0 .. N |-> f[n]]
    BY <2>3 DEF Iterates
  <2>6. Steps(f)
    BY <2>4, <2>5
  <2> QED BY <2>6
<1>6. Steps(try)
  <2> HIDE DEF Steps
  <2> QED BY <1>5
<1>7. \A n \in 0 .. N : try[n] = IF n = 0 THEN zero ELSE next(try[n - 1].fc, n)
  <2> HIDE DEF try, next, zero
  <2> QED BY <1>6
<1> HIDE DEF try, Steps, next, zero, S
<1> DEFINE T == {n \in 0 .. N : try[n] \in S}
<1>8. \A n \in 0 .. N : try[n] \in S
  <2>1. 0 \in T
    BY <1>1, <1>4, <1>7
  <2>2. ASSUME NEW n \in 0 .. N, n < N, n \in T PROVE n + 1 \in T
    <3>1. n + 1 \in 1 .. N /\ n + 1 \in 0 .. N /\ (n + 1) - 1 = n /\ n + 1 # 0
      BY <1>1, <2>2
    <3>2. try[n + 1] = next(try[n].fc, n + 1)
      BY <1>7, <3>1
    <3>3. try[n].fc \in FreeCycles
      BY <2>2 DEF S
    <3> QED BY <1>3, <3>1, <3>2, <3>3
  <2> HIDE DEF T
  <2>3. \A n \in 0 .. N : n \in T
    BY <1>1, <2>1, <2>2, StepByStep
  <2> QED BY <2>3 DEF T
<1> HIDE DEF T
<1>9. ASSUME NEW n \in 1 .. N
      PROVE  /\ try[n - 1].fc \in FreeCycles /\ try[n].start \in Nat
             /\ \A x \in Awaited(w[n]) : try[n - 1].fc.fcv[x] <= try[n].start
             /\ \A x \in Timeline : try[n].fc.fcv[x] =
                  IF x \in Written(w[n]) THEN try[n].start + Duration[w[n].name] ELSE try[n - 1].fc.fcv[x]
             /\ Duration[w[n].name] \in Nat /\ Written(w[n]) \subseteq Awaited(w[n])
             /\ Awaited(w[n]) \subseteq Timeline
  <2>1. n \in 0 .. N /\ n - 1 \in 0 .. N /\ n # 0
    BY <1>1
  <2>2. try[n - 1].fc \in FreeCycles /\ try[n].start \in Nat
    BY <1>8, <2>1 DEF S
  <2>3. try[n] = next(try[n - 1].fc, n)
    BY <1>7, <2>1
  <2>4. /\ try[n].start = StartCycle(try[n - 1].fc, w[n], o)
        /\ try[n].fc = AddFc(try[n - 1].fc, w[n], try[n].start, o)
    BY <2>3 DEF next
  <2>5. w[n] \in RealGates
    BY <1>1
  <2>6. \A x \in Awaited(w[n]) : try[n - 1].fc.fcv[x] <= try[n].start
    BY <2>2, <2>4, <2>5, StartWithRc
  <2>7. \A x \in Timeline : try[n].fc.fcv[x] =
          IF x \in Written(w[n]) THEN try[n].start + Duration[w[n].name] ELSE try[n - 1].fc.fcv[x]
    BY <2>2, <2>4, <2>5, AddCycles
  <2>8. /\ Duration[w[n].name] \in Nat /\ Written(w[n]) \subseteq Awaited(w[n])
        /\ Awaited(w[n]) \subseteq Timeline
    BY <2>5, GateObjects DEF Awaited
  <2> QED BY <2>2, <2>6, <2>7, <2>8
<1>10. \A n \in 0 .. N : \A x \in Timeline : try[n].fc.fcv[x] \in Nat
  BY <1>8 DEF S, FreeCycles
<1>11. ASSUME NEW n \in 1 .. N, NEW x \in Timeline PROVE try[n - 1].fc.fcv[x] <= try[n].fc.fcv[x]
  <2>1. try[n - 1].fc.fcv[x] \in Nat /\ try[n].start \in Nat
    <3>1. n - 1 \in 0 .. N
      BY <1>1
    <3> QED BY <1>9, <1>10, <3>1
  <2>2. CASE x \in Written(w[n])
    <3>1. try[n - 1].fc.fcv[x] <= try[n].start
      BY <1>9, <2>2
    <3>2. try[n].fc.fcv[x] = try[n].start + Duration[w[n].name] /\ Duration[w[n].name] \in Nat
      BY <1>9, <2>2
    <3> QED BY <2>1, <3>1, <3>2
  <2>3. CASE x \notin Written(w[n])
    BY <1>9, <2>1, <2>3
  <2> QED BY <2>2, <2>3
<1> DEFINE M == {n \in 0 .. N : \A m \in 0 .. n, x \in Timeline : try[m].fc.fcv[x] <= try[n].fc.fcv[x]}
<1>12. \A n \in 0 .. N : \A m \in 0 .. n, x \in Timeline : try[m].fc.fcv[x] <= try[n].fc.fcv[x]
  <2>1. 0 \in M
    <3>1. 0 \in 0 .. N /\ \A m \in 0 .. 0 : m = 0
      BY <1>1
    <3>2. \A x \in Timeline : try[0].fc.fcv[x] <= try[0].fc.fcv[x]
      BY <1>10, <3>1
    <3> QED BY <3>1, <3>2
  <2>2. ASSUME NEW n \in 0 .. N, n < N, n \in M PROVE n + 1 \in M
    <3>1. n + 1 \in 1 .. N /\ n + 1 \in 0 .. N /\ (n + 1) - 1 = n
      BY <1>1, <2>2
    <3>2. ASSUME NEW m \in 0 .. n + 1, NEW x \in Timeline PROVE try[m].fc.fcv[x] <= try[n + 1].fc.fcv[x]
      <4>1. try[n].fc.fcv[x] <= try[n + 1].fc.fcv[x]
        BY <1>11, <3>1
      <4>2. /\ try[n].fc.fcv[x] \in Nat /\ try[n + 1].fc.fcv[x] \in Nat
        BY <1>10, <3>1
      <4>3. CASE m = n + 1
        BY <4>2, <4>3
      <4>4. CASE m \in 0 .. n
        <5>1. try[m].fc.fcv[x] <= try[n].fc.fcv[x]
          BY <2>2, <4>4
        <5>2. try[m].fc.fcv[x] \in Nat
          BY <1>1, <1>10, <4>4
        <5> QED BY <4>1, <4>2, <5>1, <5>2
      <4> QED BY <4>3, <4>4
    <3> QED BY <3>1, <3>2
  <2> HIDE DEF M
  <2>3. \A n \in 0 .. N : n \in M
    BY <1>1, <2>1, <2>2, StepByStep
  <2> QED BY <2>3 DEF M
<1> HIDE DEF M
<1>13. ASSUME NEW n \in 1 .. N, NEW x \in Awaited(w[n]) PROVE p.fc.fcv[x] <= try[n].start
  <2>1. n - 1 \in 0 .. N /\ 0 \in 0 .. n - 1 /\ 0 \in 0 .. N
    BY <1>1
  <2>2. x \in Timeline /\ try[n - 1].fc.fcv[x] <= try[n].start
    BY <1>9
  <2>3. try[0].fc.fcv[x] <= try[n - 1].fc.fcv[x]
    BY <1>12, <2>1, <2>2
  <2>4. try[0] = zero
    BY <1>7, <2>1
  <2>5. try[0].fc = p.fc
    BY <2>4 DEF zero
  <2>6. try[0].fc.fcv[x] \in Nat /\ try[n - 1].fc.fcv[x] \in Nat /\ try[n].start \in Nat
    BY <1>9, <1>10, <2>1, <2>2
  <2> QED BY <2>2, <2>3, <2>5, <2>6
<1>14. ASSUME NEW n \in 1 .. N, NEW k \in 1 .. n - 1, NEW x \in Written(w[k]), x \in Awaited(w[n])
       PROVE  try[k].start <= try[n].start
  <2>1. n - 1 \in 0 .. N /\ k \in 0 .. n - 1 /\ k \in 1 .. N /\ k \in 0 .. N
    BY <1>1
  <2>2. x \in Timeline /\ try[n - 1].fc.fcv[x] <= try[n].start
    BY <1>9, <1>14
  <2>3. try[k].fc.fcv[x] <= try[n - 1].fc.fcv[x]
    BY <1>12, <2>1, <2>2
  <2>4. try[k].fc.fcv[x] = try[k].start + Duration[w[k].name] /\ Duration[w[k].name] \in Nat /\ try[k].start \in Nat
    BY <1>9, <2>1, <2>2
  <2>5. try[n - 1].fc.fcv[x] \in Nat /\ try[n].start \in Nat
    BY <1>9, <1>10, <2>1, <2>2
  <2> QED BY <2>2, <2>3, <2>4, <2>5
<1>15. \A n \in 1 .. N : Tried(p, o)[n] = try[n].start
  BY <1>2
<1>16. ASSUME NEW n \in 1 .. N
       PROVE  /\ Tried(p, o)[n] \in Nat
              /\ \A x \in Awaited(w[n]) : p.fc.fcv[x] <= Tried(p, o)[n]
              /\ \A k \in 1 .. n - 1 : Written(w[k]) \cap Awaited(w[n]) # {} => Tried(p, o)[k] <= Tried(p, o)[n]
  <2>1. \A k \in 1 .. n - 1 : k \in 1 .. N
    BY <1>1
  <2> QED BY <1>9, <1>13, <1>14, <1>15, <2>1
<1>17. DOMAIN Tried(p, o) = 1 .. N
  BY <1>2
<1> QED BY <1>16, <1>17 DEF w, N

\* Nothing before it in the list keeps the gate at i back.
MayPlace(p, i, start) ==
  /\ i \in 1 .. Len(p.waiting) /\ start \in Nat
  /\ \A x \in Awaited(p.waiting[i]) : p.fc.fcv[x] <= start
  /\ \A k \in 1 .. i - 1 : Written(p.waiting[k]) \cap Awaited(p.waiting[i]) = {}

LEMMA EarliestPlaced ==
  ASSUME NEW G \in SUBSET RealGates, NEW p \in Pasts(G), NEW o, p.waiting # <<>>
  PROVE  \E i, start : MayPlace(p, i, start) /\ ScheduleOne(p, o) = Place(p, i, start, o)
<1> DEFINE w == p.waiting
           N == Len(w)
           starts == Tried(p, o)
           best == {i \in DOMAIN starts : \A j \in DOMAIN starts : starts[i] <= starts[j]}
           first == Smallest(best)
<1>1. N \in Nat /\ N # 0
  BY DEF Pasts
<1>2. /\ DOMAIN starts = 1 .. N
      /\ \A n \in 1 .. N :
           /\ starts[n] \in Nat
           /\ \A x \in Awaited(w[n]) : p.fc.fcv[x] <= starts[n]
           /\ \A k \in 1 .. n - 1 : Written(w[k]) \cap Awaited(w[n]) # {} => starts[k] <= starts[n]
  BY TriedStarts
<1>3. ScheduleOne(p, o) = Place(p, first, starts[first], o)
  BY DEF ScheduleOne, PlaceEarliest
<1> HIDE DEF starts, N, w
<1>4. best # {}
  <2> DEFINE V == {starts[x] : x \in 1 .. N}
  <2>1. IsFiniteSet(1 .. N) /\ 1 \in 1 .. N
    BY <1>1, FS_Interval
  <2>2. IsFiniteSet(V)
    BY <2>1, ImageFinite
  <2>3. V \in SUBSET Int /\ V # {}
    BY <1>2, <2>1
  <2> HIDE DEF V
  <2>4. PICK v \in V : \A y \in V : v <= y
    BY <2>2, <2>3, Extremes
  <2>5. PICK i \in 1 .. N : v = starts[i]
    BY DEF V
  <2>6. \A j \in 1 .. N : starts[j] \in V
    BY DEF V
  <2> QED BY <1>2, <2>4, <2>5, <2>6
<1>5. first \in best /\ \A y \in best : first <= y
  <2>1. best \in SUBSET Int
    BY <1>2
  <2>2. IsFiniteSet(best)
    <3>1. IsFiniteSet(1 .. N) /\ best \subseteq 1 .. N
      BY <1>1, <1>2, FS_Interval
    <3> HIDE DEF best
    <3> QED BY <3>1, FS_Subset
  <2> HIDE DEF best
  <2> QED BY <1>4, <2>1, <2>2, LargestAndSmallest
<1>6. first \in 1 .. N /\ \A j \in 1 .. N : starts[first] <= starts[j]
  <2> HIDE DEF first
  <2> QED BY <1>2, <1>5
<1>7. ASSUME NEW k \in 1 .. first - 1, Written(w[k]) \cap Awaited(w[first]) # {} PROVE FALSE
  <2> HIDE DEF first
  <2>1. k \in 1 .. N /\ ~(first <= k)
    BY <1>1, <1>6
  <2>2. starts[k] <= starts[first]
    BY <1>2, <1>6, <1>7
  <2>3. \A j \in 1 .. N : starts[k] <= starts[j]
    <3> SUFFICES ASSUME NEW j \in 1 .. N PROVE starts[k] <= starts[j]
      OBVIOUS
    <3>1. starts[k] \in Nat /\ starts[first] \in Nat /\ starts[j] \in Nat /\ starts[first] <= starts[j]
      BY <1>2, <1>6, <2>1
    <3> QED BY <2>2, <3>1
  <2>4. k \in best
    BY <1>2, <2>1, <2>3
  <2> QED BY <1>5, <2>1, <2>4
<1> HIDE DEF first
<1>8. starts[first] \in Nat /\ \A x \in Awaited(w[first]) : p.fc.fcv[x] <= starts[first]
  BY <1>2, <1>6
<1> QED BY <1>3, <1>6, <1>7, <1>8 DEF w, N, MayPlace

\* q is p with the gate at i placed at the cycle start.
Moved(p, i, start, o, q) ==
  /\ q.waiting = RemoveAt(p.waiting, i)
  /\ q.fc = AddFc(p.fc, p.waiting[i], start, o)
  /\ q.map = p.map /\ q.output = p.output /\ q.failed = p.failed
  /\ \E at \in 1 .. Len(p.gates) + 1 :
       /\ q.gates = InsertAt(p.gates, at, [gate |-> p.waiting[i], cycle |-> start])
       /\ \A k \in at .. Len(p.gates) : p.gates[k].cycle > start
       /\ at > 1 => p.gates[at - 1].cycle <= start

LEMMA PlaceFacts ==
  ASSUME NEW G \in SUBSET RealGates, NEW p \in Pasts(G), NEW o, NEW i \in 1 .. Len(p.waiting), NEW start \in Nat
  PROVE  Place(p, i, start, o) \in Pasts(G) /\ Moved(p, i, start, o, Place(p, i, start, o))
<1> DEFINE w == p.waiting
           g == p.gates
           e == [gate |-> w[i], cycle |-> start]
           below == {k \in DOMAIN g : g[k].cycle <= start}
           last == Largest({0} \cup below)
           q == Place(p, i, start, o)
<1>1. /\ w \in Seq(G) /\ g \in Seq(Placed(G)) /\ w[i] \in G /\ w[i] \in RealGates
      /\ p = [map |-> p.map, fc |-> p.fc, waiting |-> w, gates |-> g, output |-> p.output, failed |-> p.failed]
      /\ p.map \in Mappings /\ p.fc \in FreeCycles /\ p.output \in Seq(Placed(G)) /\ p.failed \in BOOLEAN
  BY DEF Pasts
<1>2. e \in Placed(G) /\ AddFc(p.fc, w[i], start, o) \in FreeCycles
  BY <1>1, AddCycles DEF Placed
<1>3. RemoveAt(w, i) \in Seq(G)
  BY <1>1, Removing
<1> HIDE DEF g, w
<1>4. Len(g) \in Nat /\ DOMAIN g = 1 .. Len(g) /\ \A k \in 1 .. Len(g) : g[k].cycle \in Nat
  <2>1. Len(g) \in Nat /\ DOMAIN g = 1 .. Len(g) /\ \A k \in 1 .. Len(g) : g[k] \in Placed(G)
    BY <1>1
  <2>2. \A x \in Placed(G) : x.cycle \in Nat
    BY DEF Placed
  <2> QED BY <2>1, <2>2
<1>5. last \in {0} \cup below /\ \A k \in below : k <= last
  <2>1. {0} \cup below \in SUBSET (0 .. Len(g)) /\ {0} \cup below \in SUBSET Int
    BY <1>4
  <2>2. IsFiniteSet(0 .. Len(g))
    <3>1. 0 \in Int /\ Len(g) \in Int
      BY <1>4
    <3> QED BY <3>1, FS_Interval
  <2> DEFINE S == {0} \cup below
  <2>3. S # {} /\ below \subseteq S
    OBVIOUS
  <2> HIDE DEF S, below
  <2>4. IsFiniteSet(S)
    BY <2>1, <2>2, FS_Subset DEF S
  <2>5. Largest(S) \in S /\ \A y \in S : y <= Largest(S)
    BY <2>1, <2>3, <2>4, LargestAndSmallest DEF S
  <2> QED BY <2>3, <2>5 DEF S
<1> HIDE DEF last
<1>6. last \in 0 .. Len(g) /\ (last # 0 => g[last].cycle <= start)
  BY <1>4, <1>5
<1>7. \A k \in last + 1 .. Len(g) : g[k].cycle > start
  <2> SUFFICES ASSUME NEW k \in last + 1 .. Len(g) PROVE g[k].cycle > start
    OBVIOUS
  <2>1. k \in 1 .. Len(g) /\ ~(k <= last)
    BY <1>4, <1>6
  <2>2. ~(g[k].cycle <= start)
    BY <1>4, <1>5, <2>1
  <2> QED BY <1>4, <2>1, <2>2
<1>8. InsertByCycle(g, w[i], start) = InsertAt(g, last + 1, e)
  BY DEF InsertByCycle, last
<1>9. last + 1 \in 1 .. Len(g) + 1 /\ (last + 1) - 1 = last
  BY <1>4, <1>6
<1>10. InsertAt(g, last + 1, e) \in Seq(Placed(G))
  BY <1>1, <1>2, <1>9, Inserting
<1> HIDE DEF e
<1>11. q = [map |-> p.map, fc |-> AddFc(p.fc, w[i], start, o), waiting |-> RemoveAt(w, i),
            gates |-> InsertAt(g, last + 1, e), output |-> p.output, failed |-> p.failed]
  <2> DEFINE a == AddFc(p.fc, w[i], start, o)  b == InsertByCycle(g, w[i], start)  c == RemoveAt(w, i)
  <2>1. q = [p EXCEPT !.fc = a, !.gates = b, !.waiting = c]
    BY DEF Place, w, g
  <2> HIDE DEF a, b, c, q
  <2>2. q = [map |-> p.map, fc |-> a, waiting |-> c, gates |-> b, output |-> p.output, failed |-> p.failed]
    BY <1>1, <2>1
  <2> QED BY <1>8, <2>2 DEF a, b, c
<1> HIDE DEF q
<1>12. q \in Pasts(G)
  BY <1>1, <1>2, <1>3, <1>10, <1>11 DEF Pasts
<1>13. last + 1 > 1 => g[(last + 1) - 1].cycle <= start
  BY <1>6, <1>9
<1>14. \E at \in 1 .. Len(g) + 1 : /\ q.gates = InsertAt(g, at, e)
                                   /\ \A k \in at .. Len(g) : g[k].cycle > start
                                   /\ at > 1 => g[at - 1].cycle <= start
  BY <1>7, <1>9, <1>11, <1>13
<1>15. /\ q.waiting = RemoveAt(w, i) /\ q.fc = AddFc(p.fc, w[i], start, o)
       /\ q.map = p.map /\ q.output = p.output /\ q.failed = p.failed
  BY <1>11
<1> QED BY <1>12, <1>14, <1>15 DEF q, e, g, w, Moved

\* What every round keeps, schedule() keeps; it leaves nothing waiting.
LEMMA Rounds ==
  ASSUME NEW G \in SUBSET RealGates, NEW I \in SUBSET Pasts(G), NEW p \in I, NEW o,
         \A q \in I : \A i, start : MayPlace(q, i, start) => Place(q, i, start, o) \in I
  PROVE  ScheduleWaiting(p, o) \in I /\ ScheduleWaiting(p, o).waiting = <<>>
<1> DEFINE N == Len(p.waiting)
           Steps(f) == f = [n \in 0 .. N |-> IF n = 0 THEN p ELSE ScheduleOne(f[n - 1], o)]
           rounds == CHOOSE f : Steps(f)
           H == [x \in I \X (1 .. N) |-> IF x[1].waiting = <<>> THEN x[1] ELSE ScheduleOne(x[1], o)]
<1>1. N \in Nat /\ p \in Pasts(G) /\ \A q \in I : q \in Pasts(G) /\ Len(q.waiting) \in Nat
                                       /\ (q.waiting = <<>> <=> Len(q.waiting) = 0)
  BY DEF Pasts
<1>2. ScheduleWaiting(p, o) = rounds[N]
  BY DEF ScheduleWaiting
<1>3. ASSUME NEW q \in I, q.waiting # <<>>
      PROVE  ScheduleOne(q, o) \in I /\ Len(ScheduleOne(q, o).waiting) = Len(q.waiting) - 1
  <2>1. q \in Pasts(G)
    BY <1>1
  <2>2. PICK i, start : MayPlace(q, i, start) /\ ScheduleOne(q, o) = Place(q, i, start, o)
    BY <1>3, <2>1, EarliestPlaced
  <2>3. i \in 1 .. Len(q.waiting) /\ start \in Nat
    BY <2>2 DEF MayPlace
  <2>4. Place(q, i, start, o).waiting = RemoveAt(q.waiting, i)
    <3>1. Moved(q, i, start, o, Place(q, i, start, o))
      BY <2>1, <2>3, PlaceFacts
    <3> QED BY <3>1 DEF Moved
  <2>5. q.waiting \in Seq(G)
    BY <2>1 DEF Pasts
  <2>6. Len(RemoveAt(q.waiting, i)) = Len(q.waiting) - 1
    BY <2>3, <2>5, Removing
  <2> QED BY <2>2, <2>4, <2>6
<1>4. \A q \in I, n \in 1 .. N : H[<<q, n>>] = IF q.waiting = <<>> THEN q ELSE ScheduleOne(q, o)
  OBVIOUS
<1> HIDE DEF H, N
<1>5. \A q \in I, n \in 1 .. N : H[<<q, n>>] \in I
  BY <1>3, <1>4
<1>6. PICK f : Iterates(f, N, I, p, H)
  BY <1>1, <1>5, StepsExist
<1> DEFINE T == {n \in 0 .. N : f[n] \in I /\ Len(f[n].waiting) = N - n}
<1>7. ASSUME NEW n \in 0 .. N, n < N, f[n] \in I, Len(f[n].waiting) = N - n
      PROVE  /\ f[n + 1] = ScheduleOne(f[n], o) /\ f[n + 1] \in I
             /\ Len(f[n + 1].waiting) = N - (n + 1)
  <2>1. n + 1 \in 1 .. N /\ (n + 1) - 1 = n /\ N - n # 0 /\ N - (n + 1) = (N - n) - 1
    BY <1>1, <1>7
  <2>2. f[n].waiting # <<>>
    BY <1>1, <1>7, <2>1
  <2>3. f[n + 1] = H[<<f[n], n + 1>>]
    BY <1>6, <2>1 DEF Iterates
  <2> QED BY <1>3, <1>4, <1>7, <2>1, <2>2, <2>3
<1>8. \A n \in 0 .. N : f[n] \in I /\ Len(f[n].waiting) = N - n
  <2>1. 0 \in T
    BY <1>1, <1>6 DEF Iterates, N
  <2>2. \A n \in 0 .. N : n < N /\ n \in T => n + 1 \in T
    BY <1>1, <1>7
  <2> HIDE DEF T
  <2>3. \A n \in 0 .. N : n \in T
    BY <1>1, <2>1, <2>2, StepByStep
  <2> QED BY <2>3 DEF T
<1> HIDE DEF T
<1>9. Steps(f)
  <2>1. ASSUME NEW n \in 0 .. N PROVE f[n] = IF n = 0 THEN p ELSE ScheduleOne(f[n - 1], o)
    <3>1. CASE n = 0
      BY <1>6, <3>1 DEF Iterates
    <3>2. CASE n # 0
      <4>1. n - 1 \in 0 .. N /\ n - 1 < N /\ (n - 1) + 1 = n
        BY <1>1, <3>2
      <4> QED BY <1>7, <1>8, <3>2, <4>1
    <3> QED BY <3>1, <3>2
  <2>2. f = [n \in 0 .. N |-> f[n]]
    BY <1>6 DEF Iterates
  <2> QED BY <2>1, <2>2
<1>10. Steps(rounds)
  <2> HIDE DEF Steps
  <2> QED BY <1>9
<1>11. \A n \in 0 .. N : rounds[n] = IF n = 0 THEN p ELSE ScheduleOne(rounds[n - 1], o)
  <2> HIDE DEF rounds
  <2> QED BY <1>10
<1> HIDE DEF rounds, Steps
<1> DEFINE R == {n \in 0 .. N : rounds[n] = f[n]}
<1>12. \A n \in 0 .. N : rounds[n] = f[n]
  <2>1. 0 \in R
    <3>1. 0 \in 0 .. N
      BY <1>1
    <3>2. rounds[0] = p /\ f[0] = p
      BY <1>6, <1>11, <3>1 DEF Iterates
    <3> QED BY <3>1, <3>2
  <2>2. ASSUME NEW n \in 0 .. N, n < N, n \in R PROVE n + 1 \in R
    <3>1. n + 1 \in 0 .. N /\ n + 1 # 0 /\ (n + 1) - 1 = n
      BY <1>1, <2>2
    <3>2. rounds[n + 1] = ScheduleOne(rounds[n], o)
      BY <1>11, <3>1
    <3>3. f[n + 1] = ScheduleOne(f[n], o)
      BY <1>7, <1>8, <2>2
    <3> QED BY <2>2, <3>1, <3>2, <3>3
  <2> HIDE DEF R
  <2>3. \A n \in 0 .. N : n \in R
    BY <1>1, <2>1, <2>2, StepByStep
  <2> QED BY <2>3 DEF R
<1>13. N \in 0 .. N /\ N - N = 0
  BY <1>1
<1>14. rounds[N] \in I /\ Len(rounds[N].waiting) = 0
  BY <1>8, <1>12, <1>13
<1> QED BY <1>1, <1>2, <1>14

LEMMA ScheduledPast ==
  ASSUME NEW G \in SUBSET RealGates, NEW p \in Pasts(G), NEW o
  PROVE  ScheduleWaiting(p, o) \in Pasts(G) /\ ScheduleWaiting(p, o).waiting = <<>>
<1>1. ASSUME NEW q \in Pasts(G), NEW i, NEW start, MayPlace(q, i, start)
      PROVE  Place(q, i, start, o) \in Pasts(G)
  <2>1. i \in 1 .. Len(q.waiting) /\ start \in Nat
    BY <1>1 DEF MayPlace
  <2> QED BY <2>1, PlaceFacts
<1> QED BY <1>1, Rounds

-----------------------------------------------------------------------------
(* Topology.                                                               *)

\* What Floyd-Warshall keeps from round to round: a table of distances.
IsDistance(t, d) ==
  /\ d \in [QubitsIn(t) \X QubitsIn(t) -> Nat]
  /\ \A a, b \in QubitsIn(t) : d[<<a, b>>] = 0 <=> a = b
  /\ \A a, b \in QubitsIn(t) : d[<<a, b>>] = 1 => b \in NeighborsOf(t, a)
  /\ \A a, b \in QubitsIn(t) : b \in NeighborsOf(t, a) => d[<<a, b>>] <= 1

Shortcut(t, d, k) ==
  [p \in QubitsIn(t) \X QubitsIn(t) |->
     IF d[p] > d[<<p[1], k>>] + d[<<k, p[2]>>] THEN d[<<p[1], k>>] + d[<<k, p[2]>>] ELSE d[p]]

\* No detour through a qubit below k is shorter.
NoShortcut(t, d, k) ==
  \A m \in QubitsIn(t) : m < k =>
    \A a, b \in QubitsIn(t) : d[<<a, b>>] <= d[<<a, m>>] + d[<<m, b>>]

LEMMA ShortcutFacts ==
  ASSUME NEW t, NEW d, IsDistance(t, d), NEW k \in QubitsIn(t), k \in Nat, NoShortcut(t, d, k)
  PROVE  IsDistance(t, Shortcut(t, d, k)) /\ NoShortcut(t, Shortcut(t, d, k), k + 1)
<1> DEFINE Q == QubitsIn(t)
           e == Shortcut(t, d, k)
           D(a, b) == d[<<a, b>>]
           E(a, b) == e[<<a, b>>]
<1>1. \A a, b \in Q : D(a, b) \in Nat
  BY DEF IsDistance
<1>2. \A a, b \in Q : E(a, b) = IF D(a, b) > D(a, k) + D(k, b) THEN D(a, k) + D(k, b) ELSE D(a, b)
  BY DEF Shortcut
<1>3. \A a, b \in Q : D(a, b) = 0 <=> a = b
  BY DEF IsDistance
<1>4. \A a, b \in Q : D(a, b) = 1 => b \in NeighborsOf(t, a)
  BY DEF IsDistance
<1>5. \A a, b \in Q : b \in NeighborsOf(t, a) => D(a, b) <= 1
  BY DEF IsDistance
<1>6. \A m \in Q : m < k => \A a, b \in Q : D(a, b) <= D(a, m) + D(m, b)
  BY DEF NoShortcut
<1>7. e = [p \in Q \X Q |-> e[p]] /\ \A a, b \in Q : e[<<a, b>>] = E(a, b)
  BY DEF Shortcut
<1>8. k \in Q /\ Q \subseteq Int
  BY DEF QubitsIn
<1> HIDE DEF D, E, e, Q
<1>9. \A a, b \in Q : E(a, b) \in Nat
  BY <1>1, <1>2, <1>8
<1>10. ASSUME NEW a \in Q, NEW b \in Q
       PROVE  /\ E(a, b) = 0 <=> a = b
              /\ E(a, b) = 1 => b \in NeighborsOf(t, a)
              /\ b \in NeighborsOf(t, a) => E(a, b) <= 1
  <2>1. D(a, b) \in Nat /\ D(a, k) \in Nat /\ D(k, b) \in Nat
    BY <1>1, <1>8
  <2>2. E(a, b) = IF D(a, b) > D(a, k) + D(k, b) THEN D(a, k) + D(k, b) ELSE D(a, b)
    BY <1>2
  <2>3. CASE D(a, b) > D(a, k) + D(k, b)
    <3>1. E(a, b) = D(a, k) + D(k, b) /\ D(a, b) # 0 /\ a # b
      BY <1>3, <2>1, <2>2, <2>3
    <3>2. E(a, b) # 0
      <4> SUFFICES ASSUME E(a, b) = 0 PROVE FALSE
        OBVIOUS
      <4>1. D(a, k) = 0 /\ D(k, b) = 0
        BY <2>1, <3>1
      <4> QED BY <1>3, <1>8, <3>1, <4>1
    <3>3. E(a, b) = 1 => b \in NeighborsOf(t, a)
      <4> SUFFICES ASSUME E(a, b) = 1 PROVE b \in NeighborsOf(t, a)
        OBVIOUS
      <4>1. (D(a, k) = 0 /\ D(k, b) = 1) \/ (D(a, k) = 1 /\ D(k, b) = 0)
        BY <2>1, <3>1
      <4> QED BY <1>3, <1>4, <1>8, <4>1
    <3>4. b \in NeighborsOf(t, a) => E(a, b) <= 1
      <4> SUFFICES ASSUME b \in NeighborsOf(t, a) PROVE E(a, b) <= 1
        OBVIOUS
      <4>1. D(a, b) <= 1
        BY <1>5
      <4> QED BY <2>1, <2>3, <3>1, <4>1
    <3> QED BY <3>1, <3>2, <3>3, <3>4
  <2>4. CASE ~(D(a, b) > D(a, k) + D(k, b))
    BY <1>3, <1>4, <1>5, <2>2, <2>4
  <2> QED BY <2>3, <2>4
<1>11. IsDistance(t, e)
  <2>1. \A p \in Q \X Q : e[p] \in Nat
    <3> SUFFICES ASSUME NEW a \in Q, NEW b \in Q PROVE e[<<a, b>>] \in Nat
      OBVIOUS
    <3>1. e[<<a, b>>] = E(a, b)
      BY <1>7
    <3> QED BY <1>9, <3>1
  <2>2. e \in [Q \X Q -> Nat]
    BY <1>7, <2>1
  <2>3. \A a, b \in Q : /\ e[<<a, b>>] = 0 <=> a = b
                        /\ e[<<a, b>>] = 1 => b \in NeighborsOf(t, a)
                        /\ b \in NeighborsOf(t, a) => e[<<a, b>>] <= 1
    <3> SUFFICES ASSUME NEW a \in Q, NEW b \in Q
                 PROVE  /\ e[<<a, b>>] = 0 <=> a = b
                        /\ e[<<a, b>>] = 1 => b \in NeighborsOf(t, a)
                        /\ b \in NeighborsOf(t, a) => e[<<a, b>>] <= 1
      OBVIOUS
    <3>1. e[<<a, b>>] = E(a, b)
      BY <1>7
    <3> QED BY <1>10, <3>1
  <2> QED BY <2>2, <2>3 DEF IsDistance, Q
<1>12. \A a \in Q : E(a, k) = D(a, k) /\ E(k, a) = D(k, a)
  <2> TAKE a \in Q
  <2>1. D(k, k) = 0 /\ D(a, k) \in Nat /\ D(k, a) \in Nat
    BY <1>1, <1>3, <1>8
  <2>2. E(a, k) = IF D(a, k) > D(a, k) + D(k, k) THEN D(a, k) + D(k, k) ELSE D(a, k)
    BY <1>2, <1>8
  <2>3. E(k, a) = IF D(k, a) > D(k, k) + D(k, a) THEN D(k, k) + D(k, a) ELSE D(k, a)
    BY <1>2, <1>8
  <2> QED BY <2>1, <2>2, <2>3
<1>13. \A a, b \in Q : E(a, b) <= D(a, b) /\ E(a, b) <= D(a, k) + D(k, b)
                       /\ (E(a, b) = D(a, b) \/ E(a, b) = D(a, k) + D(k, b))
  <2> TAKE a, b \in Q
  <2>1. D(a, b) \in Nat /\ D(a, k) \in Nat /\ D(k, b) \in Nat
    BY <1>1, <1>8
  <2>2. E(a, b) = IF D(a, b) > D(a, k) + D(k, b) THEN D(a, k) + D(k, b) ELSE D(a, b)
    BY <1>2
  <2> QED BY <2>1, <2>2
<1>14. ASSUME NEW m \in Q, m < k + 1, NEW a \in Q, NEW b \in Q
       PROVE  E(a, b) <= E(a, m) + E(m, b)
  <2>1. CASE m = k
    BY <1>12, <1>13, <2>1
  <2>2. CASE m # k
    <3>1. m < k
      BY <1>8, <1>14, <2>2
    <3>2. D(a, b) <= D(a, m) + D(m, b) /\ D(a, k) <= D(a, m) + D(m, k) /\ D(k, b) <= D(k, m) + D(m, b)
      BY <1>6, <1>8, <3>1
    <3>3. /\ D(a, b) \in Nat /\ D(a, k) \in Nat /\ D(k, b) \in Nat /\ D(a, m) \in Nat /\ D(m, b) \in Nat
          /\ D(m, k) \in Nat /\ D(k, m) \in Nat /\ E(a, b) \in Nat
      BY <1>1, <1>8, <1>9
    <3>4. E(a, b) <= D(a, b) /\ E(a, b) <= D(a, k) + D(k, b)
      BY <1>13
    <3>5. E(a, m) = D(a, m) \/ E(a, m) = D(a, k) + D(k, m)
      BY <1>13
    <3>6. E(m, b) = D(m, b) \/ E(m, b) = D(m, k) + D(k, b)
      BY <1>13
    <3> QED BY <3>2, <3>3, <3>4, <3>5, <3>6
  <2> QED BY <2>1, <2>2
<1>15. NoShortcut(t, e, k + 1)
  BY <1>14 DEF NoShortcut, Q, E
<1> QED BY <1>11, <1>15 DEF e

LEMMA DistanceTable ==
  ASSUME NEW t, IsTopology(t), ~t.full
  PROVE  IsDistance(t, SpecifiedDistances(t)) /\ NoShortcut(t, SpecifiedDistances(t), t.qubits)
<1> DEFINE Q == QubitsIn(t)
           N == t.qubits
           zero == [p \in Q \X Q |-> IF p[1] = p[2] THEN 0 ELSE IF p[2] \in NeighborsOf(t, p[1]) THEN 1 ELSE Unreachable]
           Steps(f) == f = [k \in 0 .. N |-> IF k = 0 THEN zero ELSE Shortcut(t, f[k - 1], k - 1)]
           shortest == CHOOSE f : Steps(f)
           Tables == [Q \X Q -> Int]
           H == [x \in Tables \X (1 .. N) |-> Shortcut(t, x[1], x[2] - 1)]
<1>1. SpecifiedDistances(t) = shortest[N]
  BY DEF SpecifiedDistances, Shortcut
<1>2. N \in Nat \ {0} /\ \A k \in Int : k \in Q <=> k \in 0 .. N - 1
  BY DEF IsTopology, QubitsIn
<1>3. zero \in Tables
  BY DEF Unreachable
<1>4. \A d \in Tables : \A k \in 1 .. N : Shortcut(t, d, k - 1) \in Tables
  <2> SUFFICES ASSUME NEW d \in Tables, NEW k \in 1 .. N PROVE Shortcut(t, d, k - 1) \in Tables
    OBVIOUS
  <2>1. k - 1 \in Q
    BY <1>2
  <2>2. \A a, b \in Q : d[<<a, b>>] \in Int
    OBVIOUS
  <2> QED BY <2>1, <2>2 DEF Shortcut
<1>5. \A d \in Tables : \A k \in 1 .. N : H[<<d, k>>] = Shortcut(t, d, k - 1)
  OBVIOUS
<1> HIDE DEF Tables, zero, H, N
<1>6. PICK f : Iterates(f, N, Tables, zero, H)
  <2>1. \A d \in Tables, k \in 1 .. N : H[<<d, k>>] \in Tables
    BY <1>4, <1>5
  <2> QED BY <1>2, <1>3, <2>1, StepsExist
<1>7. Steps(f)
  <2>1. ASSUME NEW k \in 0 .. N PROVE f[k] = IF k = 0 THEN zero ELSE Shortcut(t, f[k - 1], k - 1)
    <3>1. CASE k = 0
      BY <1>6, <3>1 DEF Iterates
    <3>2. CASE k # 0
      <4>1. k \in 1 .. N /\ k - 1 \in 0 .. N
        BY <1>2, <3>2
      <4>2. f[k - 1] \in Tables /\ f[k] = H[<<f[k - 1], k>>]
        BY <1>6, <4>1 DEF Iterates
      <4> QED BY <1>5, <3>2, <4>1, <4>2
    <3> QED BY <3>1, <3>2
  <2>2. f = [k \in 0 .. N |-> f[k]]
    BY <1>6 DEF Iterates
  <2> QED BY <2>1, <2>2
<1>8. Steps(shortest)
  <2> HIDE DEF Steps
  <2> QED BY <1>7
<1>9. \A k \in 0 .. N : shortest[k] = IF k = 0 THEN zero ELSE Shortcut(t, shortest[k - 1], k - 1)
  <2> HIDE DEF shortest
  <2> QED BY <1>8
<1> HIDE DEF shortest, Steps
<1> DEFINE T == {k \in 0 .. N : IsDistance(t, shortest[k]) /\ NoShortcut(t, shortest[k], k)}
<1>10. 0 \in T
  <2>1. \A a, b \in Q : zero[<<a, b>>] = IF a = b THEN 0 ELSE IF b \in NeighborsOf(t, a) THEN 1 ELSE Unreachable
    BY DEF zero
  <2>2. zero \in [Q \X Q -> Nat]
    BY DEF zero, Unreachable
  <2>3. Unreachable # 0 /\ Unreachable # 1
    BY DEF Unreachable
  <2>4. IsDistance(t, zero)
    BY <2>1, <2>2, <2>3 DEF IsDistance
  <2>5. NoShortcut(t, zero, 0)
    BY DEF NoShortcut, QubitsIn
  <2>6. 0 \in 0 .. N /\ shortest[0] = zero
    BY <1>2, <1>9
  <2> QED BY <2>4, <2>5, <2>6
<1>11. ASSUME NEW k \in 0 .. N, k < N, k \in T PROVE k + 1 \in T
  <2>1. k + 1 \in 0 .. N /\ k + 1 # 0 /\ (k + 1) - 1 = k /\ k \in Q /\ k \in Nat
    BY <1>2, <1>11
  <2>2. shortest[k + 1] = Shortcut(t, shortest[k], k)
    BY <1>9, <2>1
  <2>3. IsDistance(t, shortest[k]) /\ NoShortcut(t, shortest[k], k)
    BY <1>11
  <2>4. IsDistance(t, Shortcut(t, shortest[k], k)) /\ NoShortcut(t, Shortcut(t, shortest[k], k), k + 1)
    BY <2>1, <2>3, ShortcutFacts
  <2> QED BY <2>1, <2>2, <2>4
<1> HIDE DEF T
<1>12. N \in T
  <2>1. \A k \in 0 .. N : k \in T
    BY <1>2, <1>10, <1>11, StepByStep
  <2> QED BY <1>2, <2>1
<1> QED BY <1>1, <1>12 DEF T, N

\* get_distance() and get_min_hops(), as far as routing relies on them.
LEMMA DistanceFacts ==
  ASSUME NEW t, IsTopology(t), NEW a \in QubitsIn(t), NEW b \in QubitsIn(t)
  PROVE  /\ Distances(t)[<<a, b>>] \in Nat
         /\ Distances(t)[<<a, b>>] = 0 <=> a = b
         /\ Distances(t)[<<a, b>>] = 1 => b \in NeighborsOf(t, a)
         /\ ~t.full => ~IsInterCoreHop(t, a, b)
         /\ ~t.full => \A n \in QubitsIn(t) :
              n \in NeighborsOf(t, a) => Distances(t)[<<a, b>>] <= 1 + Distances(t)[<<n, b>>]
<1>1. CASE t.full
  <2>1. Distances(t)[<<a, b>>] = FullDistance(t, a, b)
    BY <1>1 DEF Distances
  <2> DEFINE far == {q \in {a, b} : ~IsCommQubit(t, q)}
  <2>2. Cardinality(far) \in Nat /\ (Cardinality(far) = 0 => far = {})
    <3>1. IsFiniteSet({a, b})
      <4>1. IsFiniteSet({a}) /\ IsFiniteSet({b}) /\ {a, b} = {a} \cup {b}
        BY FS_Singleton
      <4> QED BY <4>1, FS_Union
    <3>2. far \subseteq {a, b}
      OBVIOUS
    <3> HIDE DEF far
    <3>3. IsFiniteSet(far)
      BY <3>1, <3>2, FS_Subset
    <3> QED BY <3>3, FS_CardinalityType, FS_EmptySet
  <2>3. FullDistance(t, a, b) = IF a = b THEN 0 ELSE IF ~IsInterCoreHop(t, a, b) THEN 1 ELSE 1 + Cardinality(far)
    BY DEF FullDistance
  <2>4. b \in NeighborsOf(t, a) <=> a # b /\ (IsInterCoreHop(t, a, b) => far = {})
    BY <1>1 DEF NeighborsOf, FullNeighbors
  <2> HIDE DEF far
  <2> QED BY <1>1, <2>1, <2>2, <2>3, <2>4
<1>2. CASE ~t.full
  <2> DEFINE D == SpecifiedDistances(t)
  <2>1. Distances(t) = D
    BY <1>2 DEF Distances
  <2>2. IsDistance(t, D) /\ NoShortcut(t, D, t.qubits)
    BY <1>2, DistanceTable
  <2> HIDE DEF D
  <2>3. /\ D[<<a, b>>] \in Nat /\ (D[<<a, b>>] = 0 <=> a = b)
        /\ D[<<a, b>>] = 1 => b \in NeighborsOf(t, a)
    BY <2>2 DEF IsDistance
  <2>4. ASSUME NEW n \in QubitsIn(t), n \in NeighborsOf(t, a) PROVE D[<<a, b>>] <= 1 + D[<<n, b>>]
    <3>1. n < t.qubits
      BY DEF QubitsIn, IsTopology
    <3>2. D[<<a, b>>] <= D[<<a, n>>] + D[<<n, b>>]
      BY <2>2, <3>1 DEF NoShortcut
    <3>3. D[<<a, n>>] <= 1 /\ D[<<a, n>>] \in Nat /\ D[<<n, b>>] \in Nat
      BY <2>2, <2>4 DEF IsDistance
    <3> QED BY <2>3, <3>2, <3>3
  <2>5. ~IsInterCoreHop(t, a, b)
    <3>1. t.cores = 1 /\ t.qubits \in Nat \ {0}
      BY <1>2 DEF IsTopology
    <3>2. t.qubits \div 1 = t.qubits
      BY <3>1
    <3>3. a \div t.qubits = 0 /\ b \div t.qubits = 0
      BY <3>1 DEF QubitsIn
    <3> QED BY <3>1, <3>2, <3>3 DEF IsInterCoreHop, CoreIndex
  <2> QED BY <1>2, <2>1, <2>3, <2>4, <2>5
<1> QED BY <1>1, <1>2

-----------------------------------------------------------------------------
(* Paths.                                                                  *)

\* A swap can use the connection, in whatever direction it is.
Linked(t, a, b) == a # b /\ (b \in NeighborsOf(t, a) \/ a \in NeighborsOf(t, b))

Links(t) == {h \in Qubits \X Qubits : Linked(t, h[1], h[2])}

Chains(t) == {s \in Seq(Qubits) : \A i \in 1 .. Len(s) - 1 : Linked(t, s[i], s[i + 1])}

Routes(t, q) == {s \in Chains(t) : s # <<>> /\ s[1] = q}

Alters(t) == [source : Chains(t), target : Chains(t)]

LEMMA RouteExtended ==
  ASSUME NEW t, NEW q \in Qubits, NEW n, Linked(t, q, n), NEW s \in Routes(t, n)
  PROVE  <<q>> \o s \in Routes(t, q)
<1> DEFINE u == <<q>> \o s
<1>1. s \in Seq(Qubits) /\ s # <<>> /\ s[1] = n /\ \A i \in 1 .. Len(s) - 1 : Linked(t, s[i], s[i + 1])
  BY DEF Routes, Chains
<1>2. Len(s) \in Nat /\ Len(s) # 0
  BY <1>1
<1>3. u \in Seq(Qubits) /\ Len(u) = Len(s) + 1 /\ u[1] = q /\ \A i \in 1 .. Len(s) : u[i + 1] = s[i]
  BY <1>1
<1> HIDE DEF u
<1>4. ASSUME NEW i \in 1 .. Len(u) - 1 PROVE Linked(t, u[i], u[i + 1])
  <2>1. CASE i = 1
    <3>1. u[i + 1] = s[1]
      BY <1>2, <1>3, <2>1
    <3> QED BY <1>1, <1>3, <2>1, <3>1
  <2>2. CASE i # 1
    <3>1. i - 1 \in 1 .. Len(s) - 1 /\ (i - 1) + 1 = i /\ i - 1 \in 1 .. Len(s) /\ i \in 1 .. Len(s)
      BY <1>2, <1>3, <2>2
    <3>2. u[i] = s[i - 1] /\ u[i + 1] = s[i]
      BY <1>3, <3>1
    <3>3. Linked(t, s[i - 1], s[(i - 1) + 1])
      BY <1>1, <3>1
    <3> QED BY <3>1, <3>2, <3>3
  <2> QED BY <2>1, <2>2
<1>5. u # <<>>
  BY <1>2, <1>3
<1>6. u \in Chains(t)
  BY <1>3, <1>4 DEF Chains
<1> QED BY <1>3, <1>5, <1>6 DEF Routes, u

\* The paths that go on from each of the next qubits.
LEMMA PathsThrough ==
  ASSUME NEW n \in Nat, NEW q, NEW rest, NEW A, NEW B,
         \A i \in 1 .. n : rest[i] \in Seq(A) /\ \A j \in DOMAIN rest[i] : <<q>> \o rest[i][j] \in B
  PROVE  FlattenSeq([i \in 1 .. n |-> [j \in DOMAIN rest[i] |-> <<q>> \o rest[i][j]]]) \in Seq(B)
<1> DEFINE list(i) == [j \in DOMAIN rest[i] |-> <<q>> \o rest[i][j]]
<1>1. ASSUME NEW i \in 1 .. n PROVE list(i) \in Seq(B)
  <2>1. DOMAIN rest[i] = 1 .. Len(rest[i]) /\ Len(rest[i]) \in Nat
    BY DEF list
  <2>2. \A j \in DOMAIN rest[i] : <<q>> \o rest[i][j] \in B
    OBVIOUS
  <2> QED BY <2>1, <2>2
<1> HIDE DEF list
<1>2. [i \in 1 .. n |-> list(i)] \in Seq(Seq(B))
  BY <1>1
<1>3. FlattenSeq([i \in 1 .. n |-> list(i)]) \in Seq(B)
  BY <1>2, Flattened
<1> QED BY <1>3 DEF list

LEMMA NeighborsExist ==
  ASSUME NEW t, NEW q
  PROVE  NeighborsOf(t, q) \subseteq QubitsIn(t)
BY DEF NeighborsOf, FullNeighbors

LEMMA PathsAreRoutes ==
  ASSUME job \in Jobs, NEW src \in Qubits, NEW tgt \in Qubits
  PROVE  ShortestPaths(src, tgt) \in Seq(Routes(topology, src))
<1> DEFINE t == topology
           Q == QubitsIn(t)
           d == Distance[t]
           D(n) == d[<<n, tgt>>]
           B == Hops(src, tgt)
           next(q, b) == Ascending({n \in NeighborsOf(t, q) : D(n) < b})
           val(r, q, b) == FlattenSeq([i \in DOMAIN next(q, b) |->
                             [j \in DOMAIN r[next(q, b)[i]] |-> <<q>> \o r[next(q, b)[i]][j]]])
           row(r, b) == [q \in Q |-> IF q = tgt THEN << <<tgt>> >> ELSE val(r, q, b)]
           Rule(f) == f = [b \in 0 .. B |-> row(f[b - 1], b)]
           paths == CHOOSE f : Rule(f)
<1>1. ShortestPaths(src, tgt) = paths[B][src]
  BY DEF ShortestPaths
<1>2. IsTopology(t) /\ Q = Qubits /\ d = Distances(t)
  BY JobsAssumption DEF topology, Distance
<1>3. \A a, b \in Q : /\ d[<<a, b>>] \in Nat
                      /\ d[<<a, b>>] = 0 <=> a = b
                      /\ d[<<a, b>>] = 1 => b \in NeighborsOf(t, a)
                      /\ ~t.full => ~IsInterCoreHop(t, a, b)
                      /\ ~t.full => \A n \in Q : n \in NeighborsOf(t, a) => d[<<a, b>>] <= 1 + d[<<n, b>>]
  <2> SUFFICES ASSUME NEW a \in Q, NEW b \in Q
               PROVE  /\ d[<<a, b>>] \in Nat
                      /\ d[<<a, b>>] = 0 <=> a = b
                      /\ d[<<a, b>>] = 1 => b \in NeighborsOf(t, a)
                      /\ ~t.full => ~IsInterCoreHop(t, a, b)
                      /\ ~t.full => \A n \in Q : n \in NeighborsOf(t, a) => d[<<a, b>>] <= 1 + d[<<n, b>>]
    OBVIOUS
  <2> HIDE DEF t, d
  <2> QED BY <1>2, DistanceFacts
<1>4. B = IF CoreDistance(t, src, tgt) = d[<<src, tgt>>] THEN d[<<src, tgt>>] + 2 ELSE d[<<src, tgt>>]
  BY DEF Hops, MinHops
<1>5. B \in Nat /\ (src = tgt \/ t.full \/ B <= D(src))
  BY <1>2, <1>3, <1>4 DEF CoreDistance
<1>6. Q = 0 .. t.qubits - 1 /\ t.qubits \in Nat \ {0}
  BY <1>2 DEF QubitsIn, IsTopology
<1>7. \A q, n : n \in NeighborsOf(t, q) => n \in Q
  BY NeighborsExist
<1>8. t.full => \A q, n \in Q : n \in NeighborsOf(t, q) => n # q
  BY DEF NeighborsOf, FullNeighbors
<1> HIDE DEF t, Q, d, B
<1>9. ASSUME NEW q \in Q, NEW b \in Int
      PROVE  /\ next(q, b) \in Seq(Q) /\ Len(next(q, b)) \in Nat /\ DOMAIN next(q, b) = 1 .. Len(next(q, b))
             /\ \A i \in DOMAIN next(q, b) : next(q, b)[i] \in NeighborsOf(t, q) /\ D(next(q, b)[i]) < b
                                             /\ next(q, b)[i] \in Q
  <2> DEFINE S == {n \in NeighborsOf(t, q) : D(n) < b}
  <2>1. S \in SUBSET (0 .. t.qubits - 1) /\ t.qubits - 1 \in Nat
    BY <1>6, <1>7
  <2>2. S \subseteq Q /\ \A n \in S : n \in NeighborsOf(t, q) /\ D(n) < b /\ n \in Q
    BY <1>7
  <2> HIDE DEF S
  <2>3. Ascending(S) \in Seq(S)
    BY <2>1, KernelOrder
  <2> DEFINE list == Ascending(S)
  <2>4. list = next(q, b)
    BY DEF S
  <2> HIDE DEF list, next
  <2>5. list \in Seq(S)
    BY <2>3 DEF list
  <2>6. Len(list) \in Nat /\ DOMAIN list = 1 .. Len(list) /\ \A i \in DOMAIN list : list[i] \in S
    BY <2>5
  <2>7. list \in Seq(Q)
    BY <2>2, <2>5
  <2> QED BY <2>2, <2>4, <2>6, <2>7
<1> DEFINE Rows == [Q -> Seq(Seq(Qubits))]
           none == [q \in Q |-> <<>>]
           H == [x \in Rows \X (1 .. B) |-> row(x[1], x[2])]
<1>10. none \in Rows
  OBVIOUS
<1>11. ASSUME NEW r \in Rows, NEW q \in Q, NEW b \in Int PROVE val(r, q, b) \in Seq(Seq(Qubits))
  <2> DEFINE w == next(q, b)
             rest == [i \in DOMAIN w |-> r[w[i]]]
  <2>1. DOMAIN w = 1 .. Len(w) /\ Len(w) \in Nat /\ \A i \in DOMAIN w : w[i] \in Q
    BY <1>9
  <2>2. q \in Qubits
    BY <1>2
  <2>3. val(r, q, b) = FlattenSeq([i \in 1 .. Len(w) |-> [j \in DOMAIN rest[i] |-> <<q>> \o rest[i][j]]])
    BY <2>1
  <2>4. \A i \in 1 .. Len(w) : rest[i] \in Seq(Seq(Qubits))
    BY <2>1
  <2> HIDE DEF w, rest, val
  <2>5. \A i \in 1 .. Len(w) : \A j \in DOMAIN rest[i] : <<q>> \o rest[i][j] \in Seq(Qubits)
    <3> SUFFICES ASSUME NEW i \in 1 .. Len(w), NEW j \in DOMAIN rest[i] PROVE <<q>> \o rest[i][j] \in Seq(Qubits)
      OBVIOUS
    <3>1. rest[i][j] \in Seq(Qubits)
      BY <2>4
    <3> QED BY <2>2, <3>1
  <2>6. \A i \in 1 .. Len(w) : /\ rest[i] \in Seq(Seq(Qubits))
                               /\ \A j \in DOMAIN rest[i] : <<q>> \o rest[i][j] \in Seq(Qubits)
    BY <2>4, <2>5
  <2>7. FlattenSeq([i \in 1 .. Len(w) |-> [j \in DOMAIN rest[i] |-> <<q>> \o rest[i][j]]]) \in Seq(Seq(Qubits))
    BY ONLY <2>1, <2>6, PathsThrough, ZenonT(60)
  <2> QED BY <2>3, <2>7
<1>12. ASSUME NEW r \in Rows, NEW b \in Int PROVE row(r, b) \in Rows
  <2> HIDE DEF val
  <2>1. << <<tgt>> >> \in Seq(Seq(Qubits))
    OBVIOUS
  <2> QED BY <1>11, <2>1
<1>13. \A r \in Rows, b \in 1 .. B : H[<<r, b>>] = row(r, b) /\ b \in Int
  <2> HIDE DEF row, Rows
  <2> QED OBVIOUS
<1> HIDE DEF H, Rows
<1>14. PICK f : Iterates(f, B, Rows, row(none, 0), H)
  <2>1. \A r \in Rows, b \in 1 .. B : H[<<r, b>>] \in Rows
    BY <1>12, <1>13
  <2> HIDE DEF row, none
  <2>2. row(none, 0) \in Rows
    BY <1>10, <1>12
  <2> QED BY <1>5, <2>1, <2>2, StepsExist
<1>15. \A b \in 0 .. B : f[b] \in Rows /\ f[b] = row(IF b = 0 THEN none ELSE f[b - 1], b)
  <2> HIDE DEF row, none
  <2> SUFFICES ASSUME NEW b \in 0 .. B PROVE f[b] \in Rows /\ f[b] = row(IF b = 0 THEN none ELSE f[b - 1], b)
    OBVIOUS
  <2>1. CASE b = 0
    BY <1>14, <2>1 DEF Iterates
  <2>2. CASE b # 0
    <3>1. b \in 1 .. B /\ b - 1 \in 0 .. B
      BY <1>5, <2>2
    <3>2. f[b - 1] \in Rows /\ f[b] \in Rows /\ f[b] = H[<<f[b - 1], b>>]
      BY <1>14, <3>1 DEF Iterates
    <3>3. f[b] = row(f[b - 1], b)
      BY <1>13, <3>1, <3>2
    <3> QED BY <2>2, <3>2, <3>3
  <2> QED BY <2>1, <2>2
\* Nothing is nearer than 0.
<1>16. \A r, q : q \in Q => val(r, q, 0) = val(none, q, 0)
  <2> SUFFICES ASSUME NEW r, NEW q \in Q PROVE val(r, q, 0) = val(none, q, 0)
    OBVIOUS
  <2> DEFINE w == next(q, 0)
  <2>1. \A i \in DOMAIN w : FALSE
    <3>1. \A i \in DOMAIN w : w[i] \in Q /\ D(w[i]) < 0
      BY <1>9
    <3>2. \A n \in Q : D(n) \in Nat
      BY <1>2, <1>3
    <3> HIDE DEF w, D
    <3> QED BY <3>1, <3>2
  <2>2. [i \in DOMAIN w |-> [j \in DOMAIN r[w[i]] |-> <<q>> \o r[w[i]][j]]]
        = [i \in DOMAIN w |-> [j \in DOMAIN none[w[i]] |-> <<q>> \o none[w[i]][j]]]
    <3> HIDE DEF w
    <3> QED BY <2>1
  <2> QED BY <2>2
<1>17. \A r : row(r, 0) = row(none, 0)
  <2> HIDE DEF val
  <2> QED BY <1>16
<1> HIDE DEF row, none
<1>18. Rule(f)
  <2>1. \A b \in 0 .. B : f[b] = row(f[b - 1], b)
    BY <1>15, <1>17
  <2>2. f = [b \in 0 .. B |-> f[b]]
    BY <1>14 DEF Iterates
  <2> QED BY <2>1, <2>2
<1>19. Rule(paths)
  <2> HIDE DEF Rule
  <2> QED BY <1>18
<1>20. \A b \in 0 .. B : paths[b] = row(paths[b - 1], b)
  <2> HIDE DEF paths
  <2> QED BY <1>19
<1> HIDE DEF paths, Rule
<1> DEFINE Fine(q, b) == q = tgt \/ t.full \/ b <= D(q)
           T == {b \in 0 .. B : \A q \in Q : Fine(q, b) => paths[b][q] \in Seq(Routes(t, q))}
<1>21. ASSUME NEW b \in 0 .. B, b # 0 => b - 1 \in T PROVE b \in T
  <2> SUFFICES ASSUME NEW q \in Q, Fine(q, b) PROVE paths[b][q] \in Seq(Routes(t, q))
    OBVIOUS
  <2>1. q \in Qubits /\ paths[b][q] = IF q = tgt THEN << <<tgt>> >> ELSE val(paths[b - 1], q, b)
    BY <1>2, <1>20 DEF row
  <2>2. CASE q = tgt
    <3>1. <<tgt>> \in Seq(Qubits) /\ Len(<<tgt>>) = 1 /\ <<tgt>>[1] = tgt /\ <<tgt>> # <<>>
      OBVIOUS
    <3>2. <<tgt>> \in Chains(t)
      BY <3>1 DEF Chains
    <3>3. <<tgt>> \in Routes(t, tgt)
      BY <3>1, <3>2 DEF Routes
    <3> QED BY <2>1, <2>2, <3>3
  <2>3. CASE q # tgt
    <3> DEFINE w == next(q, b)
               rest == [i \in DOMAIN w |-> paths[b - 1][w[i]]]
    <3>1. /\ Len(w) \in Nat /\ DOMAIN w = 1 .. Len(w)
          /\ \A i \in DOMAIN w : w[i] \in NeighborsOf(t, q) /\ D(w[i]) < b /\ w[i] \in Q
      <4>1. b \in Int
        BY <1>5
      <4> QED BY <1>9, <4>1
    <3>2. val(paths[b - 1], q, b) = FlattenSeq([i \in 1 .. Len(w) |-> [j \in DOMAIN rest[i] |-> <<q>> \o rest[i][j]]])
      <4>1. [i \in DOMAIN w |-> [j \in DOMAIN paths[b - 1][w[i]] |-> <<q>> \o paths[b - 1][w[i]][j]]]
            = [i \in 1 .. Len(w) |-> [j \in DOMAIN rest[i] |-> <<q>> \o rest[i][j]]]
        <5> HIDE DEF w
        <5> QED BY <3>1
      <4> QED BY <4>1
    <3>3. ASSUME NEW n \in Q, n \in NeighborsOf(t, q), D(n) < b
          PROVE  Linked(t, q, n) /\ b - 1 \in T /\ Fine(n, b - 1)
      <4>1. D(n) \in Nat /\ D(q) \in Nat
        BY <1>2, <1>3
      <4>2. b - 1 \in T
        <5>1. b # 0
          BY <1>5, <3>3, <4>1
        <5> QED BY <1>21, <5>1
      <4>3. t.full \/ b <= D(q)
        BY <2>3
      <4>4. ~t.full => D(q) <= 1 + D(n)
        BY <1>2, <1>3, <3>3
      <4>5. n # q
        BY <1>8, <3>3, <4>1, <4>3
      <4> QED BY <3>3, <4>1, <4>2, <4>3, <4>4, <4>5 DEF Linked
    <3>4. ASSUME NEW i \in 1 .. Len(w)
          PROVE  rest[i] \in Seq(Chains(t)) /\ \A j \in DOMAIN rest[i] : <<q>> \o rest[i][j] \in Routes(t, q)
      <4> DEFINE n == w[i]
      <4>1. n \in Q /\ n \in NeighborsOf(t, q) /\ D(n) < b /\ rest[i] = paths[b - 1][n]
        BY <3>1
      <4> HIDE DEF w, n, rest
      <4>2. Linked(t, q, n) /\ b - 1 \in T /\ Fine(n, b - 1)
        BY <3>3, <4>1
      <4>3. rest[i] \in Seq(Routes(t, n))
        BY <4>1, <4>2
      <4>4. Routes(t, n) \subseteq Chains(t)
        BY DEF Routes
      <4>5. \A j \in DOMAIN rest[i] : <<q>> \o rest[i][j] \in Routes(t, q)
        <5>1. \A j \in DOMAIN rest[i] : rest[i][j] \in Routes(t, n)
          BY <4>3
        <5> QED BY <2>1, <4>2, <5>1, RouteExtended
      <4> QED BY <4>3, <4>4, <4>5
    <3> HIDE DEF w, rest, val
    <3>5. FlattenSeq([i \in 1 .. Len(w) |-> [j \in DOMAIN rest[i] |-> <<q>> \o rest[i][j]]]) \in Seq(Routes(t, q))
      BY ONLY <3>1, <3>4, PathsThrough, ZenonT(60)
    <3> QED BY <2>1, <2>3, <3>2, <3>5
  <2> QED BY <2>2, <2>3
<1> HIDE DEF T
<1>22. B \in T
  <2>1. 0 \in T
    BY <1>5, <1>21
  <2>2. \A b \in 0 .. B : b < B /\ b \in T => b + 1 \in T
    <3> SUFFICES ASSUME NEW b \in 0 .. B, b < B, b \in T PROVE b + 1 \in T
      OBVIOUS
    <3>1. b + 1 \in 0 .. B /\ (b + 1) - 1 = b
      BY <1>5
    <3> QED BY <1>21, <3>1
  <2>3. \A b \in 0 .. B : b \in T
    BY <1>5, <2>1, <2>2, StepByStep
  <2> QED BY <1>5, <2>3
<1>23. src \in Q /\ Fine(src, B)
  BY <1>2, <1>5
<1>24. paths[B][src] \in Seq(Routes(t, src))
  BY <1>22, <1>23 DEF T
<1> QED BY <1>1, <1>24 DEF t, B

LEMMA ChainParts ==
  ASSUME NEW t, NEW s \in Chains(t)
  PROVE  /\ \A a, b \in Int : 1 <= a /\ b <= Len(s) => SubSeq(s, a, b) \in Chains(t)
         /\ Reverse(s) \in Chains(t)
         /\ HopsAlong(s) \in Seq(Links(t))
<1>1. /\ s \in Seq(Qubits) /\ Len(s) \in Nat /\ DOMAIN s = 1 .. Len(s)
      /\ \A i \in 1 .. Len(s) - 1 : Linked(t, s[i], s[i + 1])
      /\ \A i \in 1 .. Len(s) : s[i] \in Qubits
  BY DEF Chains
<1>2. ASSUME NEW a \in Int, NEW b \in Int, 1 <= a, b <= Len(s) PROVE SubSeq(s, a, b) \in Chains(t)
  <2> DEFINE u == SubSeq(s, a, b)
             L == IF a <= b THEN b - a + 1 ELSE 0
  <2>1. L \in Nat /\ u = [i \in 1 .. L |-> s[a + i - 1]]
    BY <1>2
  <2>2. \A i \in 1 .. L : a + i - 1 \in 1 .. Len(s)
    BY <1>1, <1>2
  <2> HIDE DEF u, L
  <2>3. u \in Seq(Qubits) /\ Len(u) = L
    <3>1. \A i \in 1 .. L : s[a + i - 1] \in Qubits
      BY <1>1, <2>2
    <3> QED BY <2>1, <3>1
  <2>4. ASSUME NEW i \in 1 .. Len(u) - 1 PROVE Linked(t, u[i], u[i + 1])
    <3>1. i \in 1 .. L /\ i + 1 \in 1 .. L /\ a + i - 1 \in 1 .. Len(s) - 1 /\ (a + i - 1) + 1 = a + (i + 1) - 1
      <4>1. i \in 1 .. L /\ i + 1 \in 1 .. L /\ (a + i - 1) + 1 = a + (i + 1) - 1
        BY <1>2, <2>1, <2>3
      <4>2. a + i - 1 \in 1 .. Len(s) /\ a + (i + 1) - 1 \in 1 .. Len(s)
        BY <2>2, <4>1
      <4> QED BY <1>1, <1>2, <4>1, <4>2
    <3>2. u[i] = s[a + i - 1] /\ u[i + 1] = s[a + (i + 1) - 1]
      BY <2>1, <3>1
    <3> QED BY <1>1, <3>1, <3>2
  <2> HIDE DEF u
  <2> QED BY <2>3, <2>4 DEF Chains, u
<1>3. Reverse(s) \in Chains(t)
  <2> DEFINE u == Reverse(s)
  <2>1. u = [i \in 1 .. Len(s) |-> s[Len(s) - i + 1]]
    BY DEF Reverse
  <2>2. \A i \in 1 .. Len(s) : Len(s) - i + 1 \in 1 .. Len(s)
    BY <1>1
  <2> HIDE DEF u
  <2>3. u \in Seq(Qubits) /\ Len(u) = Len(s)
    BY <1>1, <2>1, <2>2
  <2>4. ASSUME NEW i \in 1 .. Len(u) - 1 PROVE Linked(t, u[i], u[i + 1])
    <3> DEFINE k == Len(s) - i
    <3>1. i \in 1 .. Len(s) /\ i + 1 \in 1 .. Len(s) /\ k \in 1 .. Len(s) - 1 /\ k + 1 = Len(s) - i + 1
          /\ k = Len(s) - (i + 1) + 1
      BY <1>1, <2>3
    <3>2. u[i] = s[k + 1] /\ u[i + 1] = s[k]
      BY <2>1, <3>1
    <3> HIDE DEF k
    <3>3. Linked(t, s[k], s[k + 1])
      BY <1>1, <3>1
    <3> QED BY <3>2, <3>3 DEF Linked
  <2>5. u \in Chains(t)
    BY <2>3, <2>4 DEF Chains
  <2> QED BY <2>5 DEF u
<1>4. HopsAlong(s) \in Seq(Links(t))
  <2> DEFINE hop(i) == <<s[i], s[i + 1]>>
             L == IF Len(s) = 0 THEN 0 ELSE Len(s) - 1
  <2>1. ASSUME NEW i \in 1 .. Len(s) - 1 PROVE hop(i) \in Links(t)
    <3>1. i \in 1 .. Len(s) /\ i + 1 \in 1 .. Len(s) /\ Linked(t, s[i], s[i + 1])
      BY <1>1
    <3> QED BY <1>1, <3>1 DEF Links
  <2>2. HopsAlong(s) = [i \in 1 .. Len(s) - 1 |-> hop(i)]
    BY DEF HopsAlong
  <2>3. L \in Nat /\ 1 .. Len(s) - 1 = 1 .. L
    BY <1>1
  <2> HIDE DEF hop, L
  <2> QED BY <2>1, <2>2, <2>3
<1> QED BY <1>2, <1>3, <1>4

LEMMA SplitAlters ==
  ASSUME NEW path \in Chains(topology)
  PROVE  Split(path) \in Seq(Alters(topology))
<1> DEFINE S == {r \in 2 .. Len(path) : ~IsInterCoreHop(topology, path[r - 1], path[r])}
           list == Ascending(S)
           rights == Reverse(list)
           alter(i) == [source |-> SubSeq(path, 1, rights[i] - 1),
                        target |-> Reverse(SubSeq(path, rights[i], Len(path)))]
<1>1. Len(path) \in Nat
  BY DEF Chains
<1>2. list \in Seq(S)
  <2>1. S \in SUBSET (0 .. Len(path))
    BY <1>1
  <2> HIDE DEF S
  <2> QED BY <1>1, <2>1, KernelOrder
<1>3. \A r \in S : r \in 2 .. Len(path)
  OBVIOUS
<1> HIDE DEF S, list
<1>4. Len(list) \in Nat /\ rights = [i \in 1 .. Len(list) |-> list[Len(list) - i + 1]]
  BY <1>2 DEF Reverse
<1>5. \A i \in 1 .. Len(list) : Len(list) - i + 1 \in 1 .. Len(list)
  BY <1>4
<1>6. \A i \in 1 .. Len(list) : list[i] \in S
  BY <1>2
<1> HIDE DEF rights
<1>7. DOMAIN rights = 1 .. Len(list) /\ \A i \in 1 .. Len(list) : rights[i] \in 2 .. Len(path)
  BY <1>3, <1>4, <1>5, <1>6
<1>8. ASSUME NEW i \in 1 .. Len(list) PROVE alter(i) \in Alters(topology)
  <2>1. /\ 1 \in Int /\ rights[i] - 1 \in Int /\ 1 <= 1 /\ rights[i] - 1 <= Len(path)
        /\ rights[i] \in Int /\ Len(path) \in Int /\ 1 <= rights[i] /\ Len(path) <= Len(path)
    BY <1>1, <1>7
  <2>2. SubSeq(path, 1, rights[i] - 1) \in Chains(topology) /\ SubSeq(path, rights[i], Len(path)) \in Chains(topology)
    BY <2>1, ChainParts
  <2>3. Reverse(SubSeq(path, rights[i], Len(path))) \in Chains(topology)
    BY <2>2, ChainParts
  <2> QED BY <2>2, <2>3 DEF Alters
<1>9. Split(path) = [i \in 1 .. Len(list) |-> alter(i)]
  BY <1>7 DEF Split, rights, list, S
<1> HIDE DEF alter
<1> QED BY <1>4, <1>8, <1>9

LEMMA AltersAre ==
  ASSUME job \in Jobs, NEW n, Reals(past, n)[1] \in Qubits, Reals(past, n)[2] \in Qubits
  PROVE  AltersOf(n) \in Seq(Alters(topology))
<1> DEFINE paths == ShortestPaths(Reals(past, n)[1], Reals(past, n)[2])
<1>1. paths \in Seq(Routes(topology, Reals(past, n)[1]))
  BY PathsAreRoutes
<1>2. AltersOf(n) = FlattenSeq([i \in DOMAIN paths |-> Split(paths[i])])
  BY DEF AltersOf
<1> HIDE DEF paths
<1>3. DOMAIN paths = 1 .. Len(paths) /\ Len(paths) \in Nat /\ \A i \in DOMAIN paths : paths[i] \in Chains(topology)
  BY <1>1 DEF Routes
<1>4. \A i \in DOMAIN paths : Split(paths[i]) \in Seq(Alters(topology))
  BY <1>3, SplitAlters
<1>5. [i \in DOMAIN paths |-> Split(paths[i])] \in Seq(Seq(Alters(topology)))
  BY <1>3, <1>4
<1> QED BY <1>2, <1>5, Flattened

LEMMA SwapsLinked ==
  ASSUME job \in Jobs, NEW alter \in Alters(topology), NEW mode \in {"one", "all", "earliest"}, NEW p
  PROVE  SwapsOf(alter, mode, p) \in Seq(Links(topology))
<1> DEFINE source == HopsAlong(alter.source)
           target == HopsAlong(alter.target)
           all == source \o target
           S == Links(topology)
<1>1. source \in Seq(S) /\ target \in Seq(S)
  BY ChainParts DEF Alters
<1>2. \A s \in Seq(S) : FirstOf(s) \in Seq(S)
  <2> SUFFICES ASSUME NEW s \in Seq(S) PROVE FirstOf(s) \in Seq(S)
    OBVIOUS
  <2>1. Len(s) \in Nat /\ Smallest({1, Len(s)}) = IF 1 <= Len(s) THEN 1 ELSE Len(s)
    <3>1. Len(s) \in Nat
      OBVIOUS
    <3>2. \A m \in Nat : Smallest({1, m}) = IF 1 <= m THEN 1 ELSE m
      BY DEF Smallest
    <3> QED BY <3>1, <3>2
  <2>2. Smallest({1, Len(s)}) \in 0 .. Len(s)
    BY <2>1
  <2> DEFINE k == Smallest({1, Len(s)})
  <2> HIDE DEF S, k
  <2>3. k \in 0 .. Len(s)
    BY <2>2 DEF k
  <2>4. SubSeq(s, 1, k) \in Seq(S)
    BY <2>3
  <2> QED BY <2>4 DEF FirstOf, k
<1> HIDE DEF S, source, target
<1>3. all \in Seq(S)
  BY <1>1
<1>4. source # <<>> => SubSeq(source, 1, 1) \in Seq(S)
  BY <1>1
<1>5. target # <<>> => SubSeq(target, 1, 1) \in Seq(S)
  BY <1>1
<1>6. SwapsOf(alter, mode, p) =
        CASE mode = "all" -> all
          [] mode = "one" -> FirstOf(all)
          [] mode = "earliest" ->
               IF source = <<>> \/ target = <<>> THEN FirstOf(all)
               ELSE IF FirstSwapEarliest(p.fc, source[1][1], source[1][2], target[1][1], target[1][2], settings)
                    THEN SubSeq(source, 1, 1) ELSE SubSeq(target, 1, 1)
  BY DEF SwapsOf, source, target
<1> HIDE DEF all
<1>7. FirstOf(all) \in Seq(S)
  BY <1>2, <1>3
<1>8. SwapsOf(alter, mode, p) \in Seq(S)
  BY <1>3, <1>4, <1>5, <1>6, <1>7
<1> QED BY <1>8 DEF S

-----------------------------------------------------------------------------
(* The gates that a job can come to.                                       *)

\* The demands of NearestNeighbours on one gate.
OnChip(t, g) ==
  ~IsWait(g) /\ Len(g.operands) = 2 =>
    LET a == g.operands[1]  b == g.operands[2]
    IN /\ b \in NeighborsOf(t, a) \/ (g.id = 0 /\ a \in NeighborsOf(t, b))
       /\ IsInterCoreHop(t, a, b) <=> (g.id = 0 /\ g.name \in {"tswap", "tmove"})

\* The mapper's own, or those of the program with real operands.
OfProgram(j, g) ==
  IF g.id = 0 THEN g = NewGate(g.name, g.operands) /\ g.name \in OwnNames
  ELSE /\ g.id \in DOMAIN j.program
       /\ g = [j.program[g.id] EXCEPT !.operands = g.operands]
       /\ Len(g.operands) = Len(j.program[g.id].operands)
       /\ \A i, k \in DOMAIN g.operands :
            j.program[g.id].operands[i] = j.program[g.id].operands[k] => g.operands[i] = g.operands[k]

MappedGates(j) ==
  {g \in RealGates : /\ Len(g.operands) \in IF IsClassical(g) THEN {0} ELSE {1, 2}
                     /\ OfProgram(j, g) /\ OnChip(j.topology, g)}

LEMMA OwnGate ==
  ASSUME NEW j \in Jobs, NEW name \in OwnNames, NEW operands \in Seq(Qubits), Len(operands) \in {1, 2},
         OnChip(j.topology, NewGate(name, operands))
  PROVE  NewGate(name, operands) \in MappedGates(j)
<1> DEFINE g == NewGate(name, operands)
<1>1. g = [id |-> 0, name |-> name, operands |-> operands, cregs |-> <<>>, bregs |-> <<>>, cond |-> <<>>]
  BY DEF NewGate
<1>2. OnChip(j.topology, g)
  OBVIOUS
<1> HIDE DEF g
<1>3. g.id = 0 /\ g.name = name /\ g.operands = operands /\ g.cregs = <<>> /\ g.bregs = <<>> /\ g.cond = <<>>
  BY <1>1
<1>4. name \in Names /\ ~IsClassical(g) /\ name \notin {"cnot", "cz", "cphase"} /\ name \notin ZRotations \cup XRotations
  BY <1>3, JobsAssumption DEF OwnNames, IsClassical, ZRotations, XRotations
<1>5. g \in GateRecords
  BY <1>1, <1>4 DEF GateRecords
<1>6. HasOperands(g)
  <2>1. \A q \in Qubits : Qubit(q) \in Objects
    BY JobsAssumption
  <2>2. QubitsOf(g) \in Seq(Objects)
    BY <1>3, <2>1 DEF QubitsOf
  <2>3. CregsOf(g) = <<>> /\ BregsOf(g) = <<>> /\ CondOf(g) = <<>>
    BY <1>3 DEF CregsOf, BregsOf, CondOf
  <2> QED BY <1>3, <1>4, <2>2, <2>3 DEF HasOperands
<1>7. OfProgram(j, g)
  BY <1>3 DEF OfProgram, g
<1> QED BY <1>2, <1>3, <1>4, <1>5, <1>6, <1>7 DEF MappedGates, RealGates, g

\* The mapper's gates: an initialisation, and moves and swaps between linked qubits.
LEMMA OwnGates ==
  ASSUME NEW j \in Jobs, NEW a \in Qubits, NEW b \in Qubits, Linked(j.topology, a, b)
  PROVE  /\ NewGate("prepz", <<b>>) \in MappedGates(j)
         /\ NewGate(MoveName(j.topology, a, b), <<a, b>>) \in MappedGates(j)
         /\ NewGate(SwapName(j.topology, a, b), <<a, b>>) \in MappedGates(j)
<1> DEFINE t == j.topology
<1>1. /\ <<b>> \in Seq(Qubits) /\ Len(<<b>>) = 1
      /\ <<a, b>> \in Seq(Qubits) /\ Len(<<a, b>>) = 2 /\ <<a, b>>[1] = a /\ <<a, b>>[2] = b
  OBVIOUS
<1>2. "prepz" \in OwnNames /\ MoveName(t, a, b) \in OwnNames /\ SwapName(t, a, b) \in OwnNames
  BY DEF OwnNames, MoveName, SwapName
<1>3. \A name, operands : /\ NewGate(name, operands).operands = operands /\ NewGate(name, operands).name = name
                          /\ NewGate(name, operands).id = 0
  BY DEF NewGate
<1>4. OnChip(t, NewGate("prepz", <<b>>))
  BY <1>1, <1>3 DEF OnChip
<1>5. \A name \in {MoveName(t, a, b), SwapName(t, a, b)} : IsInterCoreHop(t, a, b) <=> name \in {"tswap", "tmove"}
  BY DEF MoveName, SwapName
<1> HIDE DEF t
<1>6. \A name \in {MoveName(t, a, b), SwapName(t, a, b)} : OnChip(t, NewGate(name, <<a, b>>))
  <2> SUFFICES ASSUME NEW name \in {MoveName(t, a, b), SwapName(t, a, b)}
               PROVE  OnChip(t, NewGate(name, <<a, b>>))
    OBVIOUS
  <2> DEFINE g == NewGate(name, <<a, b>>)
  <2>1. g.id = 0 /\ g.name = name /\ g.operands[1] = a /\ g.operands[2] = b
    BY <1>1, <1>3
  <2> HIDE DEF g
  <2>2. b \in NeighborsOf(t, a) \/ (g.id = 0 /\ a \in NeighborsOf(t, b))
    BY <2>1 DEF Linked, t
  <2>3. IsInterCoreHop(t, a, b) <=> (g.id = 0 /\ g.name \in {"tswap", "tmove"})
    BY <1>5, <2>1
  <2> QED BY <2>1, <2>2, <2>3 DEF OnChip, g
<1> QED BY <1>1, <1>2, <1>4, <1>6, OwnGate DEF t

-----------------------------------------------------------------------------
(* Swaps.                                                                  *)

\* What add_swap() adds, and the state of the mapping in which it swaps.
SwapMade(p, q, gates, map, r0, r1) ==
  q = [p EXCEPT !.waiting = p.waiting \o gates, !.map = Mapping!Swap(map, r0, r1),
                !.failed = p.failed \/ ~Mapping!SwapAsserts(map, r0, r1)]

NoSwap(p, gates, map, a, b) == ~IsLive(p, a) /\ ~IsLive(p, b) /\ gates = <<>> /\ map = p.map

MoveMade(p, t, gates, map, a, b) ==
  /\ IsLive(p, a) /\ ~IsLive(p, b)
  /\ LET move == NewGate(MoveName(t, a, b), <<a, b>>)
     IN IF p.map.state[b] # "none" THEN gates = <<move>> /\ map = p.map
        ELSE gates = <<NewGate("prepz", <<b>>), move>> /\ map = Mapping!SetState(p.map, b, "initialized")

WholeSwap(p, t, gates, map, a, b) == gates = <<NewGate(SwapName(t, a, b), <<a, b>>)>> /\ map = p.map

AnySwap(p, t, gates, map, r0, r1) ==
  \/ NoSwap(p, gates, map, r0, r1)
  \/ MoveMade(p, t, gates, map, r0, r1) \/ MoveMade(p, t, gates, map, r1, r0)
  \/ WholeSwap(p, t, gates, map, r0, r1) \/ WholeSwap(p, t, gates, map, r1, r0)

LEMMA AddSwapCases ==
  ASSUME NEW p, NEW t, NEW r0, NEW r1, r0 # r1, NEW o
  PROVE  \E gates, map : /\ SwapMade(p, AddSwap(p, t, r0, r1, o), gates, map, r0, r1)
                         /\ AnySwap(p, t, gates, map, r0, r1)
<1> DEFINE from  == IF o.moves /\ ~IsLive(p, r0) THEN r1 ELSE r0
           to    == IF from = r0 THEN r1 ELSE r0
           moves == IF o.moves /\ ~IsLive(p, to) THEN MoveGates(p, t, from, to, o) ELSE <<>>
           map   == IF p.map.state[to] = "none" THEN Mapping!SetState(p.map, to, "initialized") ELSE p.map
           swapped(gates, m) == [Add(p, gates) EXCEPT !.map = Mapping!Swap(m, r0, r1),
                                                      !.failed = @ \/ ~Mapping!SwapAsserts(m, r0, r1)]
           q == AddSwap(p, t, r0, r1, o)
<1>1. CASE ~IsLive(p, r0) /\ ~IsLive(p, r1)
  <2>1. q = swapped(<<>>, p.map)
    BY <1>1 DEF AddSwap
  <2>2. SwapMade(p, q, <<>>, p.map, r0, r1)
    BY <2>1 DEF SwapMade, Add
  <2> QED BY <1>1, <2>2 DEF AnySwap, NoSwap
<1>2. CASE (IsLive(p, r0) \/ IsLive(p, r1)) /\ moves # <<>>
  <2>1. q = swapped(moves, map)
    BY <1>2 DEF AddSwap
  <2>2. SwapMade(p, q, moves, map, r0, r1)
    BY <2>1 DEF SwapMade, Add
  <2>3. o.moves /\ ~IsLive(p, to)
    BY <1>2
  <2>4. /\ (from = r0 /\ to = r1) \/ (from = r1 /\ to = r0)
        /\ IsLive(p, from)
    BY <1>2, <2>3
  <2>5. moves = MoveGates(p, t, from, to, o)
    BY <2>3
  <2>6. moves = IF p.map.state[to] # "none" THEN <<NewGate(MoveName(t, from, to), <<from, to>>)>>
                ELSE <<NewGate("prepz", <<to>>), NewGate(MoveName(t, from, to), <<from, to>>)>>
    <3> HIDE DEF from, to, moves
    <3>1. moves # <<>>
      BY <1>2
    <3> DEFINE a == NewGate("prepz", <<to>>)  b == NewGate(MoveName(t, from, to), <<from, to>>)
    <3> HIDE DEF a, b
    <3>2. <<a>> \o <<b>> = <<a, b>>
      <4> DEFINE u == <<a>>  v == <<b>>  w == u \o v
      <4>1. u \in Seq({a, b}) /\ v \in Seq({a, b}) /\ Len(u) = 1 /\ Len(v) = 1 /\ u[1] = a /\ v[1] = b
        OBVIOUS
      <4> HIDE DEF u, v
      <4>2. w \in Seq({a, b}) /\ Len(w) = 2 /\ w[1] = a /\ w[2] = b
        <5>1. w \in Seq({a, b}) /\ Len(w) = Len(u) + Len(v)
              /\ (\A k \in 1 .. Len(u) : w[k] = u[k]) /\ (\A k \in 1 .. Len(v) : w[Len(u) + k] = v[k])
          <6>1. u \in Seq({a, b}) /\ v \in Seq({a, b})
            BY <4>1
          <6> QED BY ONLY <6>1, Joining
        <5> HIDE DEF w
        <5>2. 1 \in 1 .. Len(u) /\ 1 \in 1 .. Len(v) /\ Len(u) + 1 = 2 /\ Len(u) + Len(v) = 2
          BY <4>1
        <5> QED BY <4>1, <5>1, <5>2
      <4> HIDE DEF w
      <4>3. w = <<a, b>>
        BY <4>2
      <4> QED BY <4>3 DEF u, v, w
    <3> QED BY <2>5, <3>1, <3>2 DEF MoveGates, a, b
  <2> HIDE DEF moves, from, to, q
  <2>7. MoveMade(p, t, moves, map, from, to)
    BY <2>3, <2>4, <2>6 DEF MoveMade
  <2>8. AnySwap(p, t, moves, map, r0, r1)
    BY <2>4, <2>7 DEF AnySwap
  <2> QED BY <2>2, <2>8 DEF q
<1>3. CASE (IsLive(p, r0) \/ IsLive(p, r1)) /\ moves = <<>>
  <2>1. q = swapped(SwapGates(p, t, from, to, o), p.map)
    <3> HIDE DEF moves
    <3> QED BY <1>3 DEF AddSwap, moves
  <2>2. SwapMade(p, q, SwapGates(p, t, from, to, o), p.map, r0, r1)
    BY <2>1 DEF SwapMade, Add
  <2>3. (from = r0 /\ to = r1) \/ (from = r1 /\ to = r0)
    OBVIOUS
  <2>4. \E a, b : /\ (a = r0 /\ b = r1) \/ (a = r1 /\ b = r0)
                  /\ SwapGates(p, t, from, to, o) = <<NewGate(SwapName(t, a, b), <<a, b>>)>>
    <3> HIDE DEF from, to
    <3> QED BY <2>3 DEF SwapGates
  <2>5. AnySwap(p, t, SwapGates(p, t, from, to, o), p.map, r0, r1)
    BY <2>4 DEF AnySwap, WholeSwap
  <2> QED BY <2>2, <2>5
<1> QED BY <1>1, <1>2, <1>3

LEMMA SwapTyped ==
  ASSUME NEW j \in Jobs, NEW p \in Pasts(MappedGates(j)), NEW r0 \in Qubits, NEW r1 \in Qubits,
         Linked(j.topology, r0, r1), NEW o
  PROVE  AddSwap(p, j.topology, r0, r1, o) \in Pasts(MappedGates(j))
<1> DEFINE G == MappedGates(j)
           t == j.topology
           q == AddSwap(p, t, r0, r1, o)
<1>1. PICK gates, map : SwapMade(p, q, gates, map, r0, r1) /\ AnySwap(p, t, gates, map, r0, r1)
  <2>1. r0 # r1
    BY DEF Linked
  <2> QED BY <2>1, AddSwapCases
<1>2. /\ NewGate("prepz", <<r1>>) \in G /\ NewGate(MoveName(t, r0, r1), <<r0, r1>>) \in G
      /\ NewGate(SwapName(t, r0, r1), <<r0, r1>>) \in G
  BY OwnGates
<1>3. /\ NewGate("prepz", <<r0>>) \in G /\ NewGate(MoveName(t, r1, r0), <<r1, r0>>) \in G
      /\ NewGate(SwapName(t, r1, r0), <<r1, r0>>) \in G
  <2>1. Linked(j.topology, r1, r0)
    BY DEF Linked
  <2> QED BY <2>1, OwnGates
<1>4. p = [map |-> p.map, fc |-> p.fc, waiting |-> p.waiting, gates |-> p.gates, output |-> p.output,
           failed |-> p.failed]
      /\ p.map \in Mappings /\ p.fc \in FreeCycles /\ p.waiting \in Seq(G) /\ p.gates \in Seq(Placed(G))
      /\ p.output \in Seq(Placed(G)) /\ p.failed \in BOOLEAN
  BY DEF Pasts
<1> HIDE DEF q, G, t
<1> DEFINE z0 == NewGate("prepz", <<r0>>)
           z1 == NewGate("prepz", <<r1>>)
           m0 == NewGate(MoveName(t, r0, r1), <<r0, r1>>)
           m1 == NewGate(MoveName(t, r1, r0), <<r1, r0>>)
           s0 == NewGate(SwapName(t, r0, r1), <<r0, r1>>)
           s1 == NewGate(SwapName(t, r1, r0), <<r1, r0>>)
<1>14. gates \in {<<>>, <<m0>>, <<m1>>, <<s0>>, <<s1>>, <<z1, m0>>, <<z0, m1>>}
  BY <1>1 DEF AnySwap, NoSwap, MoveMade, WholeSwap
<1>13. gates \in Seq(G)
  <2> HIDE DEF z0, z1, m0, m1, s0, s1
  <2>1. {z0, z1, m0, m1, s0, s1} \subseteq G
    BY <1>2, <1>3 DEF z0, z1, m0, m1, s0, s1
  <2>2. <<z1, m0>> \in Seq(G) /\ <<z0, m1>> \in Seq(G)
    BY <2>1
  <2>3. <<>> \in Seq(G) /\ \A g \in G : <<g>> \in Seq(G)
    OBVIOUS
  <2> QED BY <1>14, <2>1, <2>2, <2>3
<1>5. gates \in Seq(G) /\ map \in Mappings
  <2>1. CASE map = p.map
    BY <1>4, <1>13, <2>1
  <2>2. CASE map # p.map
    <3>1. PICK b \in {r0, r1} : map = Mapping!SetState(p.map, b, "initialized")
      BY <1>1, <2>2 DEF AnySwap, NoSwap, MoveMade, WholeSwap
    <3>3. p.map = [real |-> p.map.real, state |-> p.map.state] /\ p.map.real \in [Qubits -> Qubits]
          /\ p.map.state \in [Qubits -> {"none", "initialized", "live"}]
      BY <1>4 DEF Mappings
    <3>4. map = [real |-> p.map.real, state |-> [p.map.state EXCEPT ![b] = "initialized"]]
      BY <3>1, <3>3 DEF Mapping!SetState
    <3>5. [p.map.state EXCEPT ![b] = "initialized"] \in [Qubits -> {"none", "initialized", "live"}]
      BY <3>3
    <3> QED BY <1>13, <3>3, <3>4, <3>5 DEF Mappings
  <2> QED BY <2>1, <2>2
<1>6. Mapping!Swap(map, r0, r1) \in Mappings
  <2>1. map.real \in [Qubits -> Qubits] /\ map.state \in [Qubits -> {"none", "initialized", "live"}]
    BY <1>5 DEF Mappings
  <2> DEFINE real == [v \in Qubits |-> IF v = Mapping!GetVirtual(map, r0) THEN r1
                                       ELSE IF v = Mapping!GetVirtual(map, r1) THEN r0 ELSE map.real[v]]
             state == [map.state EXCEPT ![r0] = map.state[r1], ![r1] = map.state[r0]]
  <2>2. real \in [Qubits -> Qubits]
    BY <2>1
  <2>3. state \in [Qubits -> {"none", "initialized", "live"}]
    BY <2>1
  <2>4. Mapping!Swap(map, r0, r1) = [real |-> real, state |-> state]
    BY DEF Mapping!Swap
  <2> HIDE DEF real, state
  <2> QED BY <2>2, <2>3, <2>4 DEF Mappings
<1>7. p.waiting \o gates \in Seq(G)
  BY <1>4, <1>5
<1> DEFINE m == Mapping!Swap(map, r0, r1)
           w == p.waiting \o gates
           f == p.failed \/ ~Mapping!SwapAsserts(map, r0, r1)
<1>8. f \in BOOLEAN
  BY <1>4
<1>9. q = [p EXCEPT !.waiting = w, !.map = m, !.failed = f]
  BY <1>1 DEF SwapMade
<1> HIDE DEF m, w, f
<1>10. q = [map |-> m, fc |-> p.fc, waiting |-> w, gates |-> p.gates, output |-> p.output, failed |-> f]
  BY <1>4, <1>9
<1>11. m \in Mappings /\ w \in Seq(G)
  BY <1>6, <1>7 DEF m, w
<1>12. q \in Pasts(G)
  BY <1>4, <1>8, <1>10, <1>11 DEF Pasts
<1> QED BY <1>12 DEF q, G, t

\* What every swap and every round keeps, add_swaps() keeps.
LEMMA SwapsAdded ==
  ASSUME job \in Jobs, NEW I, I \subseteq Pasts(MappedGates(job)), NEW p \in I, NEW alter \in Alters(topology),
         NEW mode \in {"one", "all", "earliest"},
         \A q \in I : \A h \in Links(topology) : AddSwap(q, topology, h[1], h[2], settings) \in I,
         \A q \in I : \A i, start : MayPlace(q, i, start) => Place(q, i, start, settings) \in I
  PROVE  AddSwaps(p, alter, mode) \in I /\ AddSwaps(p, alter, mode).waiting = <<>>
<1> DEFINE swaps == SwapsOf(alter, mode, p)
           N == Len(swaps)
           next(q, n) == AddSwap(q, topology, swaps[n][1], swaps[n][2], settings)
           Steps(f) == f = [n \in 0 .. N |-> IF n = 0 THEN p ELSE next(f[n - 1], n)]
           added == CHOOSE f : Steps(f)
           H == [x \in I \X (1 .. N) |-> next(x[1], x[2])]
<1>1. AddSwaps(p, alter, mode) = ScheduleWaiting(added[N], settings)
  BY DEF AddSwaps
<1>2. N \in Nat /\ \A n \in 1 .. N : swaps[n] \in Links(topology)
  <2>1. swaps \in Seq(Links(topology))
    BY SwapsLinked
  <2> HIDE DEF swaps
  <2> QED BY <2>1
<1> HIDE DEF swaps, N
<1>3. \A q \in I, n \in 1 .. N : next(q, n) \in I
  BY <1>2
<1>4. \A q \in I, n \in 1 .. N : H[<<q, n>>] = next(q, n)
  OBVIOUS
<1> HIDE DEF next, H
<1>5. PICK f : Iterates(f, N, I, p, H)
  <2>1. \A q \in I, n \in 1 .. N : H[<<q, n>>] \in I
    BY <1>3, <1>4
  <2> QED BY <1>2, <2>1, StepsExist
<1>6. Steps(f)
  <2>1. ASSUME NEW n \in 0 .. N PROVE f[n] = IF n = 0 THEN p ELSE next(f[n - 1], n)
    <3>1. CASE n = 0
      BY <1>5, <3>1 DEF Iterates
    <3>2. CASE n # 0
      <4>1. n \in 1 .. N /\ n - 1 \in 0 .. N
        BY <1>2, <3>2
      <4>2. f[n - 1] \in I /\ f[n] = H[<<f[n - 1], n>>]
        BY <1>5, <4>1 DEF Iterates
      <4> QED BY <1>4, <3>2, <4>1, <4>2
    <3> QED BY <3>1, <3>2
  <2>2. f = [n \in 0 .. N |-> f[n]]
    BY <1>5 DEF Iterates
  <2> QED BY <2>1, <2>2
<1>7. Steps(added)
  <2> HIDE DEF Steps
  <2> QED BY <1>6
<1>8. \A n \in 0 .. N : added[n] = IF n = 0 THEN p ELSE next(added[n - 1], n)
  <2> HIDE DEF added
  <2> QED BY <1>7
<1> HIDE DEF added, Steps
<1> DEFINE T == {n \in 0 .. N : added[n] \in I}
<1>9. added[N] \in I
  <2>1. 0 \in T
    BY <1>2, <1>8
  <2>2. ASSUME NEW n \in 0 .. N, n < N, n \in T PROVE n + 1 \in T
    <3>1. n + 1 \in 1 .. N /\ n + 1 \in 0 .. N /\ (n + 1) - 1 = n /\ n + 1 # 0
      BY <1>2, <2>2
    <3>2. added[n + 1] = next(added[n], n + 1)
      BY <1>8, <3>1
    <3> QED BY <1>3, <2>2, <3>1, <3>2
  <2> HIDE DEF T
  <2>3. \A n \in 0 .. N : n \in T
    BY <1>2, <2>1, <2>2, StepByStep
  <2> QED BY <1>2, <2>3 DEF T
<1>10. MappedGates(job) \in SUBSET RealGates
  BY DEF MappedGates
<1>11. ScheduleWaiting(added[N], settings) \in I /\ ScheduleWaiting(added[N], settings).waiting = <<>>
  BY <1>9, <1>10, Rounds
<1> QED BY <1>1, <1>11

-----------------------------------------------------------------------------
(* The program and its graph.                                              *)

LEMMA EmptySequences ==
  /\ \A S : \A s \in Seq(S), t \in Seq(S) : s \o t = <<>> <=> (s = <<>> /\ t = <<>>)
  /\ \A S, e, c : \A s \in Seq(S) : OnEach(s, e, c) = <<>> <=> s = <<>>
<1>1. ASSUME NEW S, NEW s \in Seq(S), NEW t \in Seq(S)
      PROVE  s \o t = <<>> <=> (s = <<>> /\ t = <<>>)
  <2>1. Len(s \o t) = Len(s) + Len(t) /\ Len(s) \in Nat /\ Len(t) \in Nat
    BY <1>1
  <2> QED BY <2>1
<1>2. ASSUME NEW S, NEW e, NEW c, NEW s \in Seq(S)
      PROVE  OnEach(s, e, c) = <<>> <=> s = <<>>
  <2>1. DOMAIN OnEach(s, e, c) = DOMAIN s /\ DOMAIN s = 1 .. Len(s) /\ Len(s) \in Nat
    BY <1>2 DEF OnEach
  <2>2. CASE s = <<>>
    <3>1. OnEach(s, e, c) = [i \in {} |-> [object |-> s[i], event |-> e, commutes |-> c]]
      BY <2>1, <2>2 DEF OnEach
    <3>2. <<>> = [i \in {} |-> [object |-> s[i], event |-> e, commutes |-> c]]
      OBVIOUS
    <3> QED BY <2>2, <3>1, <3>2
  <2>3. CASE s # <<>>
    <3>1. 1 \in DOMAIN s
      BY <1>2, <2>3
    <3>2. DOMAIN <<>> = {}
      OBVIOUS
    <3> QED BY <2>1, <2>3, <3>1, <3>2
  <2> QED BY <2>2, <2>3
<1> QED BY <1>1, <1>2

\* Whether a gate does anything to an object.
Acts(g) ==
  \/ g.cond # <<>>
  \/ IF g.name = "display" THEN AllObjects # <<>>
     ELSE IF IsClassical(g) THEN g.cregs # <<>>
     ELSE g.operands # <<>> \/ g.cregs # <<>> \/ g.bregs # <<>>

LEMMA Acting ==
  ASSUME NEW g \in RealGates, NEW o
  PROVE  EventsOf(g, o) # <<>> <=> Acts(g)
<1> DEFINE s == ConditionEvents(g)
           t == Signature(g, o)
<1>1. /\ g.operands \in Seq(Qubits) /\ g.cregs \in Seq(Indices) /\ g.bregs \in Seq(Indices)
      /\ g.cond \in Seq(Indices) /\ HasOperands(g)
  BY DEF RealGates, GateRecords
<1>2. IsGate(g)
  BY <1>1 DEF IsGate
<1>3. /\ QubitsOf(g) \in Seq(Objects) /\ CregsOf(g) \in Seq(Objects) /\ BregsOf(g) \in Seq(Objects)
      /\ CondOf(g) \in Seq(Objects)
  BY <1>1 DEF HasOperands
<1>4. /\ QubitsOf(g) = <<>> <=> g.operands = <<>>
      /\ CregsOf(g) = <<>> <=> g.cregs = <<>>
      /\ BregsOf(g) = <<>> <=> g.bregs = <<>>
      /\ CondOf(g) = <<>> <=> g.cond = <<>>
  <2>1. ASSUME NEW S, NEW x \in Seq(S), NEW T, NEW y \in Seq(T), DOMAIN x = DOMAIN y
        PROVE  x = <<>> <=> y = <<>>
    <3>1. ASSUME NEW U, NEW z \in Seq(U) PROVE z = <<>> <=> DOMAIN z = {}
      <4>1. DOMAIN z = 1 .. Len(z) /\ Len(z) \in Nat
        OBVIOUS
      <4>2. Len(z) # 0 => 1 \in DOMAIN z
        BY <4>1
      <4> QED BY <4>1, <4>2
    <3>2. (x = <<>> <=> DOMAIN x = {}) /\ (y = <<>> <=> DOMAIN y = {})
      BY ONLY <3>1, x \in Seq(S), y \in Seq(T)
    <3> QED BY <2>1, <3>2
  <2>2. /\ DOMAIN QubitsOf(g) = DOMAIN g.operands /\ DOMAIN CregsOf(g) = DOMAIN g.cregs
        /\ DOMAIN BregsOf(g) = DOMAIN g.bregs /\ DOMAIN CondOf(g) = DOMAIN g.cond
    BY DEF QubitsOf, CregsOf, BregsOf, CondOf
  <2>3. QubitsOf(g) = <<>> <=> g.operands = <<>>
    BY ONLY <1>1, <1>3, <2>1, <2>2
  <2>4. CregsOf(g) = <<>> <=> g.cregs = <<>>
    BY ONLY <1>1, <1>3, <2>1, <2>2
  <2>5. BregsOf(g) = <<>> <=> g.bregs = <<>>
    BY ONLY <1>1, <1>3, <2>1, <2>2
  <2>6. CondOf(g) = <<>> <=> g.cond = <<>>
    BY ONLY <1>1, <1>3, <2>1, <2>2
  <2> QED BY <2>3, <2>4, <2>5, <2>6
<1>8. ASSUME NEW x \in Seq(Objects), NEW e, NEW c PROVE OnEach(x, e, c) = <<>> <=> x = <<>>
  BY EmptySequences
<1>5. s = <<>> <=> g.cond = <<>>
  <2>1. OnEach(CondOf(g), "read", TRUE) = <<>> <=> CondOf(g) = <<>>
    BY <1>3, <1>8
  <2> QED BY <1>4, <2>1 DEF ConditionEvents
<1>6. t # <<>> <=> IF g.name = "display" THEN AllObjects # <<>>
                   ELSE IF IsClassical(g) THEN g.cregs # <<>>
                   ELSE g.operands # <<>> \/ g.cregs # <<>> \/ g.bregs # <<>>
  <2>1. CASE g.name = "display"
    <3>1. t = OnEach(AllObjects, "default", FALSE)
      BY <2>1 DEF Signature, IsClassical, ZRotations, XRotations
    <3>2. AllObjects \in Seq(Objects)
      BY AllOfThem
    <3>3. t = <<>> <=> AllObjects = <<>>
      BY <1>8, <3>1, <3>2
    <3> QED BY <2>1, <3>3
  <2>2. CASE IsClassical(g)
    <3>1. t = OnEach(CregsOf(g), "default", FALSE) /\ g.name # "display"
      BY <2>2 DEF Signature, IsClassical, ZRotations, XRotations
    <3>2. t = <<>> <=> CregsOf(g) = <<>>
      BY <1>3, <1>8, <3>1
    <3> QED BY <1>4, <2>2, <3>1, <3>2
  <2>3. CASE g.name \in {"cnot", "cz", "cphase"} \cup ZRotations \cup XRotations
    <3>1. g.operands # <<>>
      <4>1. Len(g.operands) = 2 \/ Len(g.operands) = 1
        BY <1>1, <2>3 DEF HasOperands
      <4> QED BY <4>1
    <3>2. g.name # "display" /\ ~IsClassical(g)
      BY <2>3 DEF IsClassical, ZRotations, XRotations
    <3>3. t # <<>>
      <4>1. CASE g.name = "cnot"
        <5> DEFINE a == OnEach(<<QubitsOf(g)[1]>>, "z", o.multi)
                   b == OnEach(<<QubitsOf(g)[2]>>, "x", o.multi)
        <5>1. t = a \o b
          BY <4>1 DEF Signature, IsClassical, ZRotations, XRotations
        <5>2. DOMAIN a = {1} /\ DOMAIN b = {1}
          BY DEF OnEach
        <5>3. t \in Seq(Events(o)) /\ TouchesAll(g, t)
          BY <1>2, SignatureLegal
        <5>4. PICK q : q \in ToSet(g.operands)
          <6>1. 1 \in DOMAIN g.operands
            BY <1>1, <3>1
          <6> QED BY <6>1 DEF ToSet
        <5>5. \E i \in DOMAIN t : t[i].object = Qubit(q)
          BY <3>2, <5>3, <5>4 DEF TouchesAll
        <5> HIDE DEF t
        <5> QED BY <5>3, <5>5
      <4>2. CASE g.name # "cnot"
        <5>1. t = OnEach(QubitsOf(g), "z", o.multi) \/ t = OnEach(QubitsOf(g), "z", o.single)
              \/ t = OnEach(QubitsOf(g), "x", o.single)
          BY <2>3, <3>2, <4>2 DEF Signature, IsClassical, ZRotations, XRotations
        <5>2. t = <<>> <=> QubitsOf(g) = <<>>
          BY <1>3, <1>8, <5>1
        <5> QED BY <1>4, <3>1, <5>2
      <4> QED BY <4>1, <4>2
    <3> QED BY <3>1, <3>2, <3>3
  <2>4. CASE ~(g.name \in {"display", "cnot", "cz", "cphase"} \cup ZRotations \cup XRotations) /\ ~IsClassical(g)
    <3> DEFINE x == QubitsOf(g) \o CregsOf(g)
    <3>1. t = OnEach(x \o BregsOf(g), "default", FALSE)
      BY <2>4 DEF Signature, x, IsClassical, ZRotations, XRotations
    <3>2. x \in Seq(Objects) /\ (x = <<>> <=> QubitsOf(g) = <<>> /\ CregsOf(g) = <<>>)
      BY <1>3, EmptySequences
    <3> HIDE DEF x
    <3>3. x \o BregsOf(g) \in Seq(Objects) /\ (x \o BregsOf(g) = <<>> <=> x = <<>> /\ BregsOf(g) = <<>>)
      BY <1>3, <3>2, EmptySequences
    <3>4. t = <<>> <=> x \o BregsOf(g) = <<>>
      BY <1>8, <3>1, <3>3
    <3>5. g.name # "display" /\ ~IsClassical(g)
      BY <2>4
    <3> QED BY <1>4, <3>2, <3>3, <3>4, <3>5
  <2> QED BY <2>1, <2>2, <2>3, <2>4
<1>7. s \o t = <<>> <=> s = <<>> /\ t = <<>>
  <2>1. t \in Seq(Events(o))
    BY <1>2, SignatureLegal
  <2>2. s \in Seq(Events(o))
    <3>1. \A i \in DOMAIN CondOf(g) : KindOf("read", CondOf(g)[i])
      BY DEF CondOf, KindOf
    <3>2. Suits("read", TRUE) /\ "read" \in AnyKind /\ TRUE \in Commutation(o)
      BY AllSuit DEF EventKinds, AnyKind
    <3> QED BY <1>3, <3>1, <3>2, OnEachLegal DEF ConditionEvents
  <2> HIDE DEF s, t
  <2> QED BY <2>1, <2>2, EmptySequences
<1> QED BY <1>5, <1>6, <1>7 DEF EventsOf, Acts

\* The program is a kernel, with any options of the scheduler or the mapper.
LEMMA ProgramKernel ==
  ASSUME NEW j \in Jobs, NEW o
  PROVE  /\ IsKernel(j.program, o)
         /\ \A n \in DOMAIN j.program : j.program[n] \in RealGates /\ Acts(j.program[n])
<1> DEFINE p == j.program
<1>1. IsProgram(p) /\ IsKernel(p, j.schedule)
  BY JobsAssumption, ScheduleAssumption
<1> HIDE DEF p
<1>2. \A n \in DOMAIN p : p[n] \in RealGates
  <2>1. p \in Seq(GateRecords) /\ \A n \in DOMAIN p : HasOperands(p[n])
    BY <1>1 DEF IsProgram, GateRecords
  <2>2. ASSUME NEW n \in DOMAIN p PROVE p[n] \in GateRecords
    BY <2>1
  <2> QED BY <2>1, <2>2 DEF RealGates
<1>3. \A n \in DOMAIN p : Acts(p[n])
  BY <1>1, <1>2, Acting DEF IsKernel
<1>4. \A n \in DOMAIN p : EventsOf(p[n], o) # <<>>
  BY <1>2, <1>3, Acting
<1>5. IsKernel(p, o)
  BY <1>1, <1>4 DEF IsKernel
<1> QED BY <1>2, <1>3, <1>5 DEF p

\* So are mapped gates.
LEMMA MappedKernel ==
  ASSUME NEW j \in Jobs, NEW k \in Seq(MappedGates(j)), NEW o
  PROVE  IsKernel(k, o)
<1>1. DOMAIN k = 1 .. Len(k) /\ \A n \in DOMAIN k : k[n] \in MappedGates(j)
  OBVIOUS
<1>2. k \in Seq(ToSet(k))
  BY DEF ToSet
<1>3. ASSUME NEW n \in DOMAIN k
      PROVE  /\ HasOperands(k[n]) /\ EventsOf(k[n], o) # <<>> /\ k[n].operands \in Seq(Qubits)
             /\ IsClassical(k[n]) => k[n].operands = <<>>
  <2> DEFINE g == k[n]
  <2>1. /\ g \in RealGates /\ Len(g.operands) \in (IF IsClassical(g) THEN {0} ELSE {1, 2}) /\ OfProgram(j, g)
        /\ HasOperands(g) /\ g.operands \in Seq(Qubits)
    BY <1>1 DEF MappedGates, RealGates, GateRecords
  <2> HIDE DEF g
  <2>2. IsClassical(g) => g.operands = <<>>
    BY <2>1
  <2>3. Acts(g)
    <3>1. CASE g.id = 0
      <4>1. g.name \in OwnNames
        BY <2>1, <3>1 DEF OfProgram
      <4>2. ~IsClassical(g) /\ g.name # "display"
        BY <4>1 DEF OwnNames, IsClassical
      <4>3. g.operands # <<>>
        <5>1. Len(g.operands) \in {1, 2}
          BY <2>1, <4>2
        <5> DEFINE l == Len(g.operands)
        <5>2. g.operands = <<>> => l = 0
          OBVIOUS
        <5> HIDE DEF l
        <5>4. l \in {1, 2}
          BY <5>1 DEF l
        <5>3. l # 0
          BY <5>4
        <5> QED BY <5>2, <5>3
      <4> QED BY <4>2, <4>3 DEF Acts
    <3>2. CASE g.id # 0
      <4> DEFINE h == j.program[g.id]
      <4>1. g.id \in DOMAIN j.program /\ g = [h EXCEPT !.operands = g.operands] /\ Len(g.operands) = Len(h.operands)
        BY <2>1, <3>2 DEF OfProgram
      <4>2. h \in RealGates /\ Acts(h)
        BY <4>1, ProgramKernel
      <4>3. g.name = h.name /\ g.cregs = h.cregs /\ g.bregs = h.bregs /\ g.cond = h.cond
        BY <4>1, <4>2 DEF RealGates, GateRecords
      <4>4. h.operands \in Seq(Qubits)
        BY <4>2 DEF RealGates, GateRecords
      <4>5. g.operands = <<>> <=> h.operands = <<>>
        BY <2>1, <4>1, <4>4
      <4> QED BY <4>2, <4>3, <4>5 DEF Acts, IsClassical
    <3> QED BY <3>1, <3>2
  <2>4. EventsOf(g, o) # <<>>
    BY <2>1, <2>3, Acting
  <2> QED BY <2>1, <2>2, <2>4 DEF g
<1> QED BY <1>2, <1>3 DEF IsKernel

\* set_kernel() builds the graph of the program.
LEMMA ProgramGraph ==
  ASSUME NEW k, NEW o, IsKernel(k, o), IsDag(GraphOf(k, o))
  PROVE  Demands(k, o, GraphOf(k, o))
<1> DEFINE L == Len(k)
           Next1(g, n) == AddGate(g, n, k[n], o)
           Steps(f) == f = [n \in 0 .. L |-> IF n = 0 THEN EmptyGraph ELSE Next1(f[n - 1], n)]
           graphs == CHOOSE f : Steps(f)
<1>1. L \in Nat
  BY KernelNodes
<1>2. GraphOf(k, o) = AddSink(graphs[L], L + 1)
  BY DEF GraphOf
<1> HIDE DEF L, Next1
<1>3. Steps(graphs)
  <2> DEFINE To(f, m) == f[0] = EmptyGraph /\ \A n \in 1 .. m : f[n] = Next1(f[n - 1], n)
             T == {m \in 0 .. L : \E f : To(f, m)}
  <2>1. 0 \in T
    <3> DEFINE f == [n \in 0 .. 0 |-> EmptyGraph]
    <3>1. To(f, 0)
      OBVIOUS
    <3> HIDE DEF To, f
    <3> QED BY <1>1, <3>1
  <2>2. ASSUME NEW m \in 0 .. L, m < L, m \in T PROVE m + 1 \in T
    <3>1. PICK f : To(f, m)
      BY <2>2
    <3> DEFINE h == [n \in 0 .. m + 1 |-> IF n = m + 1 THEN Next1(f[m], m + 1) ELSE f[n]]
    <3>2. m \in Nat /\ m + 1 \in 0 .. L
      BY <1>1, <2>2
    <3>3. h[0] = EmptyGraph
      BY <3>1, <3>2
    <3>4. ASSUME NEW n \in 1 .. m + 1 PROVE h[n] = Next1(h[n - 1], n)
      <4>1. CASE n = m + 1
        BY <3>2, <4>1
      <4>2. CASE n \in 1 .. m
        BY <3>1, <3>2, <4>2
      <4> QED BY <3>2, <4>1, <4>2
    <3>5. To(h, m + 1)
      BY <3>3, <3>4
    <3> QED BY <3>2, <3>5
  <2>3. L \in T
    <3> HIDE DEF T
    <3> QED BY <1>1, <2>1, <2>2, StepByStep
  <2>4. PICK f : To(f, L)
    BY <2>3
  <2>5. Steps([n \in 0 .. L |-> f[n]])
    <3> DEFINE h == [n \in 0 .. L |-> f[n]]
    <3>1. ASSUME NEW n \in 0 .. L PROVE h[n] = IF n = 0 THEN EmptyGraph ELSE Next1(h[n - 1], n)
      BY <1>1, <2>4
    <3> QED BY <3>1
  <2> HIDE DEF Steps
  <2> QED BY <2>5
<1>4. \A n \in 0 .. L : graphs[n] = IF n = 0 THEN EmptyGraph ELSE Next1(graphs[n - 1], n)
  <2> HIDE DEF graphs
  <2> QED BY <1>3
<1> HIDE DEF graphs, Steps
<1> DEFINE T == {n \in 0 .. L : Records(graphs[n], GateHistory(k, o, n), n)}
<1>5. 0 \in T
  BY <1>1, <1>4, NothingHistory, SourceRecorded
<1>6. ASSUME NEW n \in 0 .. L, n < L, n \in T PROVE n + 1 \in T
  <2>1. n \in Nat /\ n + 1 \in 0 .. L /\ n + 1 # 0 /\ (n + 1) - 1 = n
    BY <1>1, <1>6
  <2>2. graphs[n + 1] = AddGate(graphs[n], n + 1, k[n + 1], o)
    BY <1>4, <2>1 DEF Next1
  <2> QED BY <1>6, <2>1, <2>2, GateRecorded DEF L
<1>7. L \in T
  <2> HIDE DEF T
  <2> QED BY <1>1, <1>5, <1>6, StepByStep
<1>8. Records(GraphOf(k, o), WholeHistory(k, o), Len(k) + 1)
  BY <1>2, <1>7, SinkRecorded DEF L
<1> QED BY <1>8, ClosedDemands

LEMMA ReleasedNodes ==
  ASSUME NEW k, NEW o, IsKernel(k, o), NEW g, Demands(k, o, g), NEW n, NEW S
  PROVE  Released(g, n, S, "FORWARD") \subseteq Nodes(k)
<1>1. Nodes(k) = 0 .. Len(k) + 1 /\ Len(k) \in Nat
  BY KernelNodes
<1>2. \A a \in g.arcs : a[2] \in Nodes(k)
  BY <1>1 DEF Demands
<1> QED BY <1>2 DEF Released, Depending, After

-----------------------------------------------------------------------------
(* Choosing an alternative.                                                *)

LEMMA LastTimes ==
  ASSUME job \in Jobs, NEW fc \in FreeCycles
  PROVE  GetMax(fc) \in Int
<1> DEFINE S == {fc.fcv[x] : x \in Timeline}
<1>1. fc.fcv \in [Timeline -> Nat]
  BY DEF FreeCycles
<1>2. IsFiniteSet(S)
  <2>1. IsFiniteSet(Timeline)
    BY DurationAssumption, FS_Subset DEF Timeline
  <2> QED BY <2>1, ImageFinite
<1>3. S # {}
  <2>1. QubitsIn(topology) = Qubits /\ IsTopology(topology)
    BY JobsAssumption DEF topology
  <2>2. 0 \in Qubits
    BY <2>1 DEF IsTopology, QubitsIn
  <2>3. Qubit(0) \in Objects /\ Qubit(0)[1] # "c"
    BY <2>2, JobsAssumption DEF Qubit
  <2>4. Qubit(0) \in Timeline
    BY <2>3 DEF Timeline
  <2> QED BY <2>4
<1>4. GetMax(fc) = Largest(S)
  BY <1>1 DEF GetMax
<1>5. S \in SUBSET Int
  BY <1>1
<1> HIDE DEF S
<1> QED BY <1>2, <1>3, <1>4, <1>5, LargestAndSmallest

LEMMA TiesBroken ==
  ASSUME job \in Jobs, NEW A, NEW alters \in Seq(A), alters # <<>>
  PROVE  TieBreak(alters) \subseteq A
<1>1. settings.tie \in {"first", "last", "random", "critical"}
  BY JobsAssumption DEF IsSettings, settings
<1>2. Head(alters) \in A /\ Last(alters) \in A /\ ToSet(alters) \subseteq A
  <2>1. DOMAIN alters = 1 .. Len(alters) /\ Len(alters) \in Nat /\ Len(alters) # 0
    OBVIOUS
  <2>2. \A i \in DOMAIN alters : alters[i] \in A
    OBVIOUS
  <2>3. 1 \in DOMAIN alters /\ Len(alters) \in DOMAIN alters
    BY <2>1
  <2> QED BY <2>1, <2>2, <2>3 DEF Last, ToSet
<1> QED BY <1>1, <1>2 DEF TieBreak

LEMMA BestAreSome ==
  ASSUME NEW A, NEW alters \in Seq(A), alters # <<>>, NEW score, \A i \in DOMAIN alters : score[i] \in Int
  PROVE  Best(alters, score) \in Seq(A) /\ Best(alters, score) # <<>>
<1> DEFINE N == Len(alters)
           S == {i \in DOMAIN alters : \A j \in DOMAIN alters : score[i] <= score[j]}
           list == Ascending(S)
<1>1. N \in Nat /\ DOMAIN alters = 1 .. N /\ N # 0 /\ \A i \in 1 .. N : alters[i] \in A
  OBVIOUS
<1> HIDE DEF N
<1>2. list \in Seq(S) /\ \A r \in S : \E i \in DOMAIN list : list[i] = r
  <2>1. S \in SUBSET (0 .. N)
    BY <1>1
  <2> HIDE DEF S
  <2> QED BY <1>1, <2>1, KernelOrder
<1>3. \E r : r \in S
  <2> DEFINE V == {score[i] : i \in 1 .. N}
  <2>1. IsFiniteSet(V)
    <3>1. IsFiniteSet(1 .. N)
      BY <1>1, FS_Interval
    <3> QED BY <3>1, ImageFinite
  <2>2. V \in SUBSET Int /\ V # {}
    <3>1. 1 \in 1 .. N
      BY <1>1
    <3> QED BY <1>1, <3>1
  <2> HIDE DEF V
  <2>3. Smallest(V) \in V /\ \A y \in V : Smallest(V) <= y
    BY <2>1, <2>2, LargestAndSmallest
  <2>4. PICK i \in 1 .. N : Smallest(V) = score[i]
    BY <2>3 DEF V
  <2>5. ASSUME NEW j \in DOMAIN alters PROVE score[i] <= score[j]
    <3>1. score[j] \in V
      BY <1>1 DEF V
    <3> QED BY <2>3, <2>4, <3>1
  <2>6. i \in S
    BY <1>1, <2>5
  <2> QED BY <2>6
<1>4. list # <<>>
  <2> HIDE DEF S, list
  <2>1. PICK i : i \in DOMAIN list
    BY <1>2, <1>3
  <2> QED BY <2>1
<1>5. \A i \in DOMAIN list : alters[list[i]] \in A
  <2>1. \A i \in DOMAIN list : list[i] \in S
    <3> HIDE DEF S, list
    <3> QED BY <1>2
  <2> HIDE DEF list
  <2>2. \A i \in S : i \in 1 .. N
    BY <1>1
  <2> QED BY <1>1, <2>1, <2>2
<1>6. Best(alters, score) = [i \in DOMAIN list |-> alters[list[i]]]
  BY DEF Best
<1>7. DOMAIN list = 1 .. Len(list) /\ Len(list) \in Nat /\ Len(list) # 0
  <2> HIDE DEF S, list
  <2> QED BY <1>2, <1>4
<1> HIDE DEF S, list
<1>8. [i \in 1 .. Len(list) |-> alters[list[i]]] \in Seq(A)
  BY <1>5, <1>7
<1>9. 1 \in DOMAIN Best(alters, score)
  BY <1>6, <1>7
<1> QED BY <1>6, <1>7, <1>8, <1>9

LEMMA AnyPast ==
  ASSUME job \in Jobs, NEW o
  PROVE  /\ \A q \in Pasts(MappedGates(job)) : \A h \in Links(topology) :
              AddSwap(q, topology, h[1], h[2], o) \in Pasts(MappedGates(job))
         /\ \A q \in Pasts(MappedGates(job)) : \A i, start :
              MayPlace(q, i, start) => Place(q, i, start, o) \in Pasts(MappedGates(job))
<1>1. ASSUME NEW q \in Pasts(MappedGates(job)), NEW h \in Links(topology)
      PROVE  AddSwap(q, topology, h[1], h[2], o) \in Pasts(MappedGates(job))
  <2>1. h[1] \in Qubits /\ h[2] \in Qubits /\ Linked(topology, h[1], h[2])
    BY DEF Links
  <2> QED BY <2>1, SwapTyped DEF topology
<1>2. ASSUME NEW q \in Pasts(MappedGates(job)), NEW i, NEW start, MayPlace(q, i, start)
      PROVE  Place(q, i, start, o) \in Pasts(MappedGates(job))
  <2>1. i \in 1 .. Len(q.waiting) /\ start \in Nat
    BY <1>2 DEF MayPlace
  <2>2. MappedGates(job) \in SUBSET RealGates
    BY DEF MappedGates
  <2> QED BY <2>1, <2>2, PlaceFacts
<1> QED BY <1>1, <1>2

LEMMA AlterSelected ==
  ASSUME job \in Jobs, past \in Pasts(MappedGates(job)), NEW alters \in Seq(Alters(topology)), alters # <<>>
  PROVE  SelectAlter(alters) \subseteq Alters(topology)
<1>1. CASE settings.heuristic \in {"base", "base_rc"}
  BY <1>1, TiesBroken DEF SelectAlter
<1>2. CASE settings.heuristic \notin {"base", "base_rc"}
  <2> DEFINE score == [i \in DOMAIN alters |-> Extension(alters[i])]
             P == Pasts(MappedGates(job))
  <2>1. SelectAlter(alters) = TieBreak(Best(alters, score))
    BY <1>2 DEF SelectAlter
  <2>2. ASSUME NEW i \in DOMAIN alters PROVE score[i] \in Int
    <3>1. alters[i] \in Alters(topology)
      OBVIOUS
    <3> DEFINE after == AddSwaps(past, alters[i], "all")
    <3>2. after \in P
      <4> HIDE DEF P
      <4>0. P \subseteq P /\ "all" \in {"one", "all", "earliest"} /\ P \subseteq Pasts(MappedGates(job))
        BY DEF P
      <4>1. /\ \A q \in P : \A h \in Links(topology) : AddSwap(q, topology, h[1], h[2], settings) \in P
            /\ \A q \in P : \A x, start : MayPlace(q, x, start) => Place(q, x, start, settings) \in P
        BY AnyPast DEF P
      <4>2. past \in P
        BY DEF P
      <4> QED BY <3>1, <4>0, <4>1, <4>2, SwapsAdded
    <3> HIDE DEF after
    <3>3. after.fc \in FreeCycles /\ past.fc \in FreeCycles
      BY <3>2 DEF Pasts
    <3>4. GetMax(after.fc) \in Int /\ GetMax(past.fc) \in Int
      BY <3>3, LastTimes
    <3>5. score[i] = GetMax(after.fc) - GetMax(past.fc)
      BY DEF Extension, after
    <3> QED BY <3>4, <3>5
  <2> HIDE DEF score
  <2>3. Best(alters, score) \in Seq(Alters(topology)) /\ Best(alters, score) # <<>>
    BY <2>2, BestAreSome
  <2> QED BY <2>1, <2>3, TiesBroken
<1> QED BY <1>1, <1>2

-----------------------------------------------------------------------------
(* The gates of the program.                                               *)

LEMMA NextToEachOther ==
  ASSUME job \in Jobs, NEW a \in Qubits, NEW b \in Qubits, Hops(a, b) = 1
  PROVE  b \in NeighborsOf(topology, a) /\ ~IsInterCoreHop(topology, a, b)
<1> DEFINE t == topology
           D == Distances(t)[<<a, b>>]
           C == CoreDistance(t, a, b)
<1>1. IsTopology(t) /\ QubitsIn(t) = Qubits
  BY JobsAssumption DEF topology
<1>2. Distance[t] = Distances(t)
  <2>1. t \in {j.topology : j \in Jobs}
    BY DEF topology
  <2> QED BY <2>1 DEF Distance
<1>3. Hops(a, b) = IF C = D THEN D + 2 ELSE D
  BY <1>2 DEF Hops, MinHops
<1>4. D \in Nat /\ (D = 1 => b \in NeighborsOf(t, a))
  BY <1>1, DistanceFacts
<1>5. C = IF IsInterCoreHop(t, a, b) THEN 1 ELSE 0
  BY DEF CoreDistance
<1> HIDE DEF D, C, t
<1>6. D = 1 /\ C # D
  BY <1>3, <1>4
<1>7. b \in NeighborsOf(t, a) /\ ~IsInterCoreHop(t, a, b)
  BY <1>4, <1>5, <1>6
<1> QED BY <1>7 DEF t

\* The operands that make_real() puts in place.
RealOperands(p, g) == [i \in DOMAIN g.operands |-> GetReal(p, g.operands[i])]

Ready(p, n) == IsWait(program[n]) \/ Len(program[n].operands) = 1 \/ Adjacent(p, n)

LEMMA ProgramGate ==
  ASSUME job \in Jobs, NEW n \in DOMAIN program
  PROVE  /\ program[n] \in RealGates /\ program[n].id = n /\ n \in Nat \ {0}
         /\ Len(program[n].operands) \in IF IsClassical(program[n]) THEN {0} ELSE {1, 2}
<1>1. IsProgram(program)
  BY JobsAssumption DEF program
<1>2. program[n] \in RealGates
  BY ProgramKernel DEF program
<1> HIDE DEF program
<1>3. DOMAIN program = 1 .. Len(program) /\ Len(program) \in Nat
  BY <1>1 DEF IsProgram
<1>4. n \in Nat \ {0}
  BY <1>3
<1>5. program[n].id = n /\ Len(program[n].operands) \in IF IsClassical(program[n]) THEN {0} ELSE {1, 2}
  BY <1>1 DEF IsProgram
<1> QED BY <1>2, <1>4, <1>5

LEMMA RealGate ==
  ASSUME job \in Jobs, NEW p, p.map \in Mappings, NEW n \in DOMAIN program, Ready(p, n)
  PROVE  [program[n] EXCEPT !.operands = RealOperands(p, program[n])] \in MappedGates(job)
<1> DEFINE h == program[n]
           reals == RealOperands(p, h)
           g == [h EXCEPT !.operands = reals]
<1>1. /\ h \in RealGates /\ h.id = n /\ n # 0
      /\ Len(h.operands) \in IF IsClassical(h) THEN {0} ELSE {1, 2}
  BY ProgramGate
<1>2. p.map.real \in [Qubits -> Qubits]
  BY DEF Mappings
<1> HIDE DEF h
<1>3. h.operands \in Seq(Qubits) /\ h \in GateRecords /\ HasOperands(h)
  BY <1>1 DEF RealGates, GateRecords
<1>4. DOMAIN h.operands = 1 .. Len(h.operands) /\ Len(h.operands) \in Nat
      /\ \A i \in DOMAIN h.operands : h.operands[i] \in Qubits
  BY <1>3
<1>5. \A i \in 1 .. Len(h.operands) : reals[i] = p.map.real[h.operands[i]] /\ reals[i] \in Qubits
  BY <1>2, <1>4 DEF RealOperands, GetReal
<1>6. reals \in Seq(Qubits) /\ Len(reals) = Len(h.operands) /\ DOMAIN reals = 1 .. Len(h.operands)
  <2>1. reals = [i \in 1 .. Len(h.operands) |-> reals[i]]
    BY <1>4 DEF RealOperands
  <2> HIDE DEF reals
  <2> QED BY <1>4, <1>5, <2>1
<1> HIDE DEF reals
<1>7. /\ g \in GateRecords /\ g.id = h.id /\ g.name = h.name /\ g.operands = reals
      /\ g.cregs = h.cregs /\ g.bregs = h.bregs /\ g.cond = h.cond
  BY <1>3, <1>6 DEF GateRecords
<1>8. HasOperands(g)
  <2>1. CregsOf(g) = CregsOf(h) /\ BregsOf(g) = BregsOf(h) /\ CondOf(g) = CondOf(h)
    BY <1>7 DEF CregsOf, BregsOf, CondOf
  <2>2. QubitsOf(g) \in Seq(Objects)
    <3>1. \A i \in 1 .. Len(h.operands) : Qubit(reals[i]) \in Objects
      BY <1>5, JobsAssumption
    <3>2. QubitsOf(g) = [i \in 1 .. Len(h.operands) |-> Qubit(reals[i])]
      BY <1>6, <1>7 DEF QubitsOf
    <3> QED BY <1>4, <3>1, <3>2
  <2>3. /\ h.name \in Names
        /\ CregsOf(h) \in Seq(Objects) /\ BregsOf(h) \in Seq(Objects) /\ CondOf(h) \in Seq(Objects)
        /\ h.name \in {"cnot", "cz", "cphase"} => Len(h.operands) = 2
        /\ h.name \in ZRotations \cup XRotations => Len(h.operands) = 1
    BY <1>3 DEF HasOperands
  <2> HIDE DEF g
  <2> QED BY <1>6, <1>7, <2>1, <2>2, <2>3 DEF HasOperands
<1>9. OfProgram(job, g)
  <2>1. g.id # 0 /\ g.id \in DOMAIN job.program /\ job.program[g.id] = h
    BY <1>1, <1>7 DEF h, program
  <2>2. g = [h EXCEPT !.operands = g.operands]
    BY <1>7
  <2>3. \A i, k \in DOMAIN g.operands : h.operands[i] = h.operands[k] => g.operands[i] = g.operands[k]
    BY <1>5, <1>6, <1>7
  <2> HIDE DEF g
  <2> QED BY <1>6, <1>7, <2>1, <2>2, <2>3 DEF OfProgram
<1>10. OnChip(job.topology, g)
  <2> SUFFICES ASSUME ~IsWait(g), Len(g.operands) = 2
               PROVE  OnChip(job.topology, g)
    BY DEF OnChip
  <2>1. ~IsWait(h) /\ Len(h.operands) = 2
    BY <1>6, <1>7 DEF IsWait
  <2>2. Adjacent(p, n)
    BY <2>1 DEF Ready, h
  <2>3. 1 \in DOMAIN h.operands /\ 2 \in DOMAIN h.operands
    BY <1>4, <2>1
  <2>4. /\ g.operands[1] = reals[1] /\ g.operands[2] = reals[2] /\ reals[1] \in Qubits /\ reals[2] \in Qubits
        /\ reals[1] = GetReal(p, h.operands[1]) /\ reals[2] = GetReal(p, h.operands[2])
    BY <1>4, <1>5, <1>7, <2>3 DEF GetReal
  <2>5. Hops(reals[1], reals[2]) = 1
    <3>1. Hops(Reals(p, n)[1], Reals(p, n)[2]) = 1
      BY <2>2 DEF Adjacent
    <3>2. Reals(p, n)[1] = reals[1] /\ Reals(p, n)[2] = reals[2]
      BY <2>4 DEF Reals, h
    <3> QED BY <3>1, <3>2
  <2>6. reals[2] \in NeighborsOf(job.topology, reals[1]) /\ ~IsInterCoreHop(job.topology, reals[1], reals[2])
    BY <2>4, <2>5, NextToEachOther DEF topology
  <2>7. g.id # 0
    BY <1>1, <1>7
  <2> HIDE DEF g
  <2> QED BY <2>4, <2>6, <2>7 DEF OnChip
<1>11. Len(g.operands) \in IF IsClassical(g) THEN {0} ELSE {1, 2}
  BY <1>1, <1>6, <1>7 DEF IsClassical
<1> HIDE DEF g
<1>12. g \in MappedGates(job)
  BY <1>7, <1>8, <1>9, <1>10, <1>11 DEF MappedGates, RealGates
<1> QED BY <1>12 DEF g, reals, h


\* map_routed_gate() before it schedules.
MadeReal(p, g, o) ==
  [p EXCEPT !.map = [p.map EXCEPT !.state =
                       [r \in DOMAIN p.map.state |-> IF r \in ToSet(RealOperands(p, g)) THEN StateAfter(g, o)
                                                      ELSE p.map.state[r]]],
            !.waiting = p.waiting \o <<[g EXCEPT !.operands = RealOperands(p, g)]>>]

LEMMA RoutedIsMadeReal ==
  ASSUME NEW p, NEW G, p \in Pasts(G), NEW g, NEW o
  PROVE  MapRoutedGate(p, g, o) = ScheduleWaiting(MadeReal(p, g, o), o)
<1> DEFINE reals == [i \in DOMAIN g.operands |-> GetReal(p, g.operands[i])]
           map == [p.map EXCEPT !.state =
                     [r \in DOMAIN @ |-> IF r \in ToSet(reals) THEN StateAfter(g, o) ELSE @[r]]]
           new == [g EXCEPT !.operands = reals]
<1>1. MapRoutedGate(p, g, o) = ScheduleWaiting(Add([p EXCEPT !.map = map], <<new>>), o)
  BY DEF MapRoutedGate, AddAndSchedule
<1>2. MadeReal(p, g, o) = [p EXCEPT !.map = map, !.waiting = p.waiting \o <<new>>]
  BY DEF MadeReal, RealOperands
<1> HIDE DEF map, new
<1>3. Add([p EXCEPT !.map = map], <<new>>) = [p EXCEPT !.map = map, !.waiting = p.waiting \o <<new>>]
  BY DEF Add, Pasts
<1> QED BY <1>1, <1>2, <1>3

LEMMA MadeRealTyped ==
  ASSUME job \in Jobs, NEW p \in Pasts(MappedGates(job)), NEW n \in DOMAIN program, Ready(p, n)
  PROVE  MadeReal(p, program[n], settings) \in Pasts(MappedGates(job))
<1> DEFINE G == MappedGates(job)
           h == program[n]
           g == [h EXCEPT !.operands = RealOperands(p, h)]
           state == [r \in DOMAIN p.map.state |-> IF r \in ToSet(RealOperands(p, h)) THEN StateAfter(h, settings)
                                                  ELSE p.map.state[r]]
<1>1. p = [map |-> p.map, fc |-> p.fc, waiting |-> p.waiting, gates |-> p.gates, output |-> p.output,
           failed |-> p.failed]
      /\ p.map \in Mappings /\ p.fc \in FreeCycles /\ p.waiting \in Seq(G) /\ p.gates \in Seq(Placed(G))
      /\ p.output \in Seq(Placed(G)) /\ p.failed \in BOOLEAN
  BY DEF Pasts
<1>2. g \in G
  BY <1>1, RealGate
<1>3. p.map = [real |-> p.map.real, state |-> p.map.state] /\ p.map.real \in [Qubits -> Qubits]
      /\ p.map.state \in [Qubits -> {"none", "initialized", "live"}]
  BY <1>1 DEF Mappings
<1>4. state \in [Qubits -> {"none", "initialized", "live"}]
  <2>1. StateAfter(h, settings) \in {"none", "initialized", "live"}
    BY DEF StateAfter
  <2> QED BY <1>3, <2>1
<1>5. MadeReal(p, h, settings) = [p EXCEPT !.map = [p.map EXCEPT !.state = state], !.waiting = p.waiting \o <<g>>]
  BY DEF MadeReal
<1> HIDE DEF G, g, h, state
<1>6. [p.map EXCEPT !.state = state] = [real |-> p.map.real, state |-> state]
  BY <1>3
<1>7. [p.map EXCEPT !.state = state] \in Mappings
  BY <1>3, <1>4, <1>6 DEF Mappings
<1>8. p.waiting \o <<g>> \in Seq(G)
  <2>1. <<g>> \in Seq(G)
    BY <1>2
  <2> QED BY <1>1, <2>1
<1> DEFINE m == [p.map EXCEPT !.state = state]
           w == p.waiting \o <<g>>
<1> HIDE DEF m, w
<1>9. MadeReal(p, h, settings) = [map |-> m, fc |-> p.fc, waiting |-> w, gates |-> p.gates, output |-> p.output,
                                 failed |-> p.failed]
  BY <1>1, <1>5 DEF m, w
<1>10. m \in Mappings /\ w \in Seq(G)
  BY <1>7, <1>8 DEF m, w
<1>11. MadeReal(p, h, settings) \in Pasts(G)
  BY <1>1, <1>9, <1>10 DEF Pasts
<1> QED BY <1>11 DEF G, h

\* What scheduling keeps, mapping a gate keeps.
LEMMA GateRouted ==
  ASSUME job \in Jobs, NEW I, I \subseteq Pasts(MappedGates(job)), NEW p \in Pasts(MappedGates(job)),
         NEW n \in DOMAIN program, MadeReal(p, program[n], settings) \in I,
         \A q \in I : \A i, start : MayPlace(q, i, start) => Place(q, i, start, settings) \in I
  PROVE  MapRoutedGate(p, program[n], settings) \in I
         /\ MapRoutedGate(p, program[n], settings).waiting = <<>>
<1>1. MapRoutedGate(p, program[n], settings) = ScheduleWaiting(MadeReal(p, program[n], settings), settings)
  BY RoutedIsMadeReal
<1>2. MappedGates(job) \in SUBSET RealGates
  BY DEF MappedGates
<1> QED BY <1>1, <1>2, Rounds

LEMMA ClassicalGate ==
  ASSUME job \in Jobs, NEW n \in DOMAIN program, IsClassical(program[n])
  PROVE  program[n] \in MappedGates(job)
<1> DEFINE h == program[n]
<1>1. /\ h \in RealGates /\ h.id = n /\ n # 0 /\ Len(h.operands) = 0
  BY ProgramGate
<1>2. OfProgram(job, h)
  <2>1. h = [h EXCEPT !.operands = h.operands]
    BY <1>1 DEF RealGates, GateRecords
  <2>2. n \in DOMAIN job.program /\ h = job.program[n]
    BY DEF program
  <2> HIDE DEF h
  <2> QED BY <1>1, <2>1, <2>2 DEF OfProgram
<1>3. OnChip(job.topology, h)
  <2> HIDE DEF h
  <2> QED BY <1>1 DEF OnChip
<1>4. IsClassical(h)
  OBVIOUS
<1> HIDE DEF h
<1>5. h \in MappedGates(job)
  BY <1>1, <1>2, <1>3, <1>4 DEF MappedGates
<1> QED BY <1>5 DEF h

LEMMA Bypassing ==
  ASSUME NEW G, NEW p \in Pasts(G), NEW gates \in Seq(G)
  PROVE  /\ Bypass(p, gates) \in Pasts(G) /\ Bypass(p, gates).waiting = p.waiting
         /\ FlushAll(p) \in Pasts(G) /\ FlushAll(p).waiting = p.waiting
<1> DEFINE new == [i \in DOMAIN gates |-> [gate |-> gates[i], cycle |-> 0]]
           flushed == p.output \o p.gates
<1>1. p = [map |-> p.map, fc |-> p.fc, waiting |-> p.waiting, gates |-> p.gates, output |-> p.output,
           failed |-> p.failed]
      /\ p.map \in Mappings /\ p.fc \in FreeCycles /\ p.waiting \in Seq(G) /\ p.gates \in Seq(Placed(G))
      /\ p.output \in Seq(Placed(G)) /\ p.failed \in BOOLEAN
  BY DEF Pasts
<1>2. flushed \in Seq(Placed(G))
  BY <1>1
<1>3. FlushAll(p) = [p EXCEPT !.output = flushed, !.gates = <<>>]
  BY DEF FlushAll
<1> HIDE DEF flushed
<1>4. FlushAll(p) = [map |-> p.map, fc |-> p.fc, waiting |-> p.waiting, gates |-> <<>>, output |-> flushed,
                     failed |-> p.failed]
  BY <1>1, <1>3
<1>5. FlushAll(p) \in Pasts(G)
  <2>1. <<>> \in Seq(Placed(G))
    OBVIOUS
  <2> QED BY <1>1, <1>2, <1>4, <2>1 DEF Pasts
<1>6. new \in Seq(Placed(G))
  <2>1. DOMAIN gates = 1 .. Len(gates) /\ Len(gates) \in Nat /\ \A i \in DOMAIN gates : gates[i] \in G
    OBVIOUS
  <2>2. \A i \in 1 .. Len(gates) : [gate |-> gates[i], cycle |-> 0] \in Placed(G)
    BY <2>1 DEF Placed
  <2> QED BY <2>1, <2>2
<1>7. CASE gates # <<>>
  <2> DEFINE all == flushed \o new
  <2>1. Bypass(p, gates) = [FlushAll(p) EXCEPT !.output = FlushAll(p).output \o new]
    BY <1>7 DEF Bypass
  <2>2. FlushAll(p).output = flushed
    BY <1>4
  <2>3. all \in Seq(Placed(G))
    BY <1>2, <1>6
  <2> HIDE DEF new, all
  <2>4. Bypass(p, gates) = [FlushAll(p) EXCEPT !.output = all]
    BY <2>1, <2>2 DEF all
  <2>5. Bypass(p, gates) = [map |-> p.map, fc |-> p.fc, waiting |-> p.waiting, gates |-> <<>>, output |-> all,
                            failed |-> p.failed]
    BY <1>4, <2>4
  <2>6. <<>> \in Seq(Placed(G))
    OBVIOUS
  <2>7. Bypass(p, gates) \in Pasts(G)
    BY <1>1, <2>3, <2>5, <2>6 DEF Pasts
  <2> QED BY <1>4, <1>5, <2>5, <2>7
<1>8. CASE gates = <<>>
  BY <1>4, <1>5, <1>8 DEF Bypass
<1> QED BY <1>7, <1>8

-----------------------------------------------------------------------------
(* The mapper, step by step.                                               *)

RouteInv ==
  /\ job \in Jobs /\ past \in Pasts(MappedGates(job)) /\ past.waiting = <<>>
  /\ circuit \in Seq(Placed(MappedGates(job))) /\ position \in Nat \ {0}
  /\ future = [graph |-> future.graph, avlist |-> future.avlist, scheduled |-> future.scheduled]
  /\ future.avlist \subseteq Nodes(program)
  /\ phase = "route" => Demands(program, settings, future.graph)

LEMMA FirstPast == job \in Jobs => InitialPast(InitialMapping) \in Pasts(MappedGates(job))
<1> SUFFICES ASSUME job \in Jobs PROVE InitialPast(InitialMapping) \in Pasts(MappedGates(job))
  OBVIOUS
<1> DEFINE state == IF settings.initialized THEN "initialized" ELSE "none"
           map == [real |-> [v \in Qubits |-> v], state |-> [r \in Qubits |-> state]]
<1>1. InitialMapping = map
  BY DEF InitialMapping, Mapping!NewMapping
<1>2. map \in Mappings
  BY DEF Mappings
<1>3. InitialFreeCycle \in FreeCycles
  <2>1. [x \in Timeline |-> 1] \in [Timeline -> Nat]
    OBVIOUS
  <2>2. InitialFreeCycle = [fcv |-> [x \in Timeline |-> 1],
                            rs |-> InitialResources([ResourceConfig EXCEPT !.direction = "FORWARD"])]
    BY DEF InitialFreeCycle, Timeline
  <2> HIDE DEF Good
  <2> QED BY <2>1, <2>2, InitiallyGood DEF FreeCycles
<1> HIDE DEF map
<1>4. \A G : <<>> \in Seq(G) /\ <<>> \in Seq(Placed(G))
  OBVIOUS
<1> QED BY <1>1, <1>2, <1>3, <1>4 DEF Pasts, InitialPast

LEMMA RouteStarts == Init => RouteInv
<1> SUFFICES ASSUME Init PROVE RouteInv
  OBVIOUS
<1>1. /\ job \in Jobs /\ phase = "start" /\ future = [graph |-> EmptyGraph, avlist |-> {}, scheduled |-> {}] /\ past = InitialPast(InitialMapping)
      /\ circuit = <<>> /\ position = 1
  BY DEF Init, MapperInit
<1>2. past \in Pasts(MappedGates(job))
  BY <1>1, FirstPast
<1>3. past.waiting = <<>>
  BY <1>1 DEF InitialPast
<1>4. circuit \in Seq(Placed(MappedGates(job)))
  BY <1>1
<1> QED BY <1>1, <1>2, <1>3, <1>4 DEF RouteInv

\* What the mapper takes from the list of available gates.
LEMMA Available1 ==
  ASSUME RouteInv, NEW n \in future.avlist
  PROVE  /\ n \in 0 .. Len(program) + 1
         /\ ~IsDummy(n) => n \in DOMAIN program
         /\ First(future.avlist) \subseteq future.avlist
<1>1. IsKernel(program, settings)
  BY ProgramKernel DEF RouteInv, program
<1>2. DOMAIN program = 1 .. Len(program) /\ Nodes(program) = 0 .. Len(program) + 1 /\ Len(program) \in Nat
  BY <1>1, KernelNodes
<1>3. n \in 0 .. Len(program) + 1
  BY <1>2 DEF RouteInv
<1> HIDE DEF program
<1> QED BY <1>2, <1>3 DEF IsDummy, Sink, First

LEMMA CompletedNodes ==
  ASSUME RouteInv, phase = "route", NEW S
  PROVE  /\ CompletedGates(future, S) = [graph |-> CompletedGates(future, S).graph,
                                         avlist |-> CompletedGates(future, S).avlist,
                                         scheduled |-> CompletedGates(future, S).scheduled]
         /\ CompletedGates(future, S).avlist \subseteq Nodes(program)
         /\ CompletedGates(future, S).graph = future.graph
<1>1. IsKernel(program, settings) /\ Demands(program, settings, future.graph) /\ future.avlist \subseteq Nodes(program)
      /\ future = [graph |-> future.graph, avlist |-> future.avlist, scheduled |-> future.scheduled]
  BY ProgramKernel DEF RouteInv, program
<1> DEFINE list == (future.avlist \ S) \cup UNION {Released(future.graph, n, future.scheduled \cup S, "FORWARD") : n \in S}
           done == future.scheduled \cup S
<1>2. CompletedGates(future, S) = [future EXCEPT !.avlist = list, !.scheduled = done]
  BY DEF CompletedGates
<1>3. list \subseteq Nodes(program)
  <2>1. \A n \in S : Released(future.graph, n, future.scheduled \cup S, "FORWARD") \subseteq Nodes(program)
    BY <1>1, ReleasedNodes
  <2> QED BY <1>1, <2>1
<1> HIDE DEF list, done
<1>4. CompletedGates(future, S) = [graph |-> future.graph, avlist |-> list, scheduled |-> done]
  BY <1>1, <1>2
<1> QED BY <1>3, <1>4


\* The list that MapNonQuantum passes on.
LEMMA BypassedGates ==
  ASSUME RouteInv, NEW list \in InOrder(Bypassed)
  PROVE  /\ [i \in DOMAIN list |-> program[list[i]]] \in Seq(MappedGates(job))
         /\ list \in Seq(Bypassed) /\ \A i, j \in DOMAIN list : i # j => list[i] # list[j]
         /\ \A n \in Bypassed : n \in DOMAIN program /\ IsClassical(program[n])
<1>1. IsKernel(program, settings) /\ job \in Jobs
  BY ProgramKernel DEF RouteInv, program
<1>2. DOMAIN program = 1 .. Len(program) /\ Nodes(program) = 0 .. Len(program) + 1 /\ Len(program) \in Nat
  BY <1>1, KernelNodes
<1> DEFINE K == Cardinality(Bypassed)
<1>3. Bypassed \subseteq Nodes(program)
  BY DEF RouteInv, Bypassed, NonQuantum
<1>4. K \in Nat
  <2>1. IsFiniteSet(Nodes(program))
    BY <1>2, FS_Interval
  <2>2. IsFiniteSet(Bypassed)
    BY <1>3, <2>1, FS_Subset
  <2> QED BY <2>2, FS_CardinalityType
<1>5. list \in SetToSeqs(Bypassed)
  BY DEF InOrder
<1>6. list \in [1 .. K -> Bypassed] /\ \A i, j \in 1 .. K : i # j => list[i] # list[j]
  BY <1>5 DEF SetToSeqs
<1>7. ASSUME NEW n \in Bypassed
      PROVE  n \in DOMAIN program /\ IsClassical(program[n]) /\ program[n] \in MappedGates(job)
  <2>1. n \in future.avlist /\ ~IsDummy(n) /\ IsClassical(program[n])
    BY DEF Bypassed, NonQuantum
  <2>2. n \in DOMAIN program
    BY <2>1, Available1
  <2> QED BY <1>1, <2>1, <2>2, ClassicalGate
<1> HIDE DEF K
<1>8. DOMAIN list = 1 .. K /\ \A i \in 1 .. K : list[i] \in Bypassed
  BY <1>6
<1>9. list \in Seq(Bypassed)
  BY <1>4, <1>6
<1>10. [i \in 1 .. K |-> program[list[i]]] \in Seq(MappedGates(job))
  BY <1>4, <1>7, <1>8
<1> QED BY <1>6, <1>7, <1>8, <1>9, <1>10

\* Neither routing nor the schedule changes anything about the kernel.
Elsewhere == UNCHANGED <<job, phase, circuit, position>>

LEMMA FutureStep ==
  ASSUME RouteInv, phase = "route", Elsewhere, NEW S, future' = CompletedGates(future, S),
         past' \in Pasts(MappedGates(job)), past'.waiting = <<>>
  PROVE  RouteInv'
<1>1. /\ future' = [graph |-> future'.graph, avlist |-> future'.avlist, scheduled |-> future'.scheduled]
      /\ future'.avlist \subseteq Nodes(program) /\ future'.graph = future.graph
  BY CompletedNodes
<1> QED BY <1>1 DEF RouteInv, Elsewhere, program, settings

LEMMA RoutedStep ==
  ASSUME RouteInv, NEW p \in Pasts(MappedGates(job)), NEW n \in DOMAIN program, Ready(p, n)
  PROVE  /\ MapRoutedGate(p, program[n], settings) \in Pasts(MappedGates(job))
         /\ MapRoutedGate(p, program[n], settings).waiting = <<>>
<1> DEFINE P == Pasts(MappedGates(job))
<1>1. MadeReal(p, program[n], settings) \in P /\ P \subseteq P /\ job \in Jobs
  BY MadeRealTyped DEF RouteInv
<1>2. \A q \in P : \A x, start : MayPlace(q, x, start) => Place(q, x, start, settings) \in P
  BY <1>1, AnyPast
<1>3. P \subseteq Pasts(MappedGates(job)) /\ p \in Pasts(MappedGates(job))
  OBVIOUS
<1> HIDE DEF P
<1>4. MapRoutedGate(p, program[n], settings) \in P /\ MapRoutedGate(p, program[n], settings).waiting = <<>>
  BY <1>1, <1>2, <1>3, GateRouted
<1> QED BY <1>4 DEF P


\* What is left to do when no other gate is available.
LEMMA OnlyQuantum ==
  ASSUME RouteInv, NonQuantum = {}, NEW n \in future.avlist
  PROVE  n \in DOMAIN program /\ ~IsClassical(program[n])
<1>1. ~IsDummy(n) /\ ~IsClassical(program[n])
  BY DEF NonQuantum
<1> QED BY <1>1, Available1

LEMMA RealsAre ==
  ASSUME job \in Jobs, NEW p, p.map \in Mappings, NEW n \in DOMAIN program, Len(program[n].operands) = 2
  PROVE  Reals(p, n)[1] \in Qubits /\ Reals(p, n)[2] \in Qubits
<1>1. program[n].operands \in Seq(Qubits)
  BY ProgramGate DEF RealGates, GateRecords
<1>2. program[n].operands[1] \in Qubits /\ program[n].operands[2] \in Qubits
  <2> DEFINE s == program[n].operands
  <2>1. 1 \in 1 .. Len(s) /\ 2 \in 1 .. Len(s)
    OBVIOUS
  <2> QED BY <1>1, <2>1
<1>3. p.map.real \in [Qubits -> Qubits]
  BY DEF Mappings
<1> QED BY <1>2, <1>3 DEF Reals, GetReal

\* The gates to route have two operands.
LEMMA TwoOperands ==
  ASSUME RouteInv, NonQuantum = {}, Single = {}, NEW n \in future.avlist
  PROVE  n \in DOMAIN program /\ Len(program[n].operands) = 2
<1>1. n \in DOMAIN program /\ ~IsClassical(program[n]) /\ job \in Jobs
  BY OnlyQuantum DEF RouteInv
<1>2. Len(program[n].operands) \in {1, 2}
  BY <1>1, ProgramGate
<1>3. Len(program[n].operands) # 1
  BY DEF Single
<1> QED BY <1>1, <1>2, <1>3

LEMMA RouteStep ==
  ASSUME RouteInv, phase = "route", Route
  PROVE  RouteInv'
<1>1. PICK n \in First(future.avlist) :
        AltersOf(n) # <<>> /\ \E alter \in SelectAlter(AltersOf(n)) : CommitAlter(n, alter)
  BY DEF Route
<1>2. PICK alter \in SelectAlter(AltersOf(n)) : CommitAlter(n, alter)
  BY <1>1
<1>3. NonQuantum = {} /\ Single = {} /\ n \in future.avlist /\ Elsewhere
  BY <1>1 DEF Route, Stuck, First, Elsewhere
<1>4. n \in DOMAIN program /\ Len(program[n].operands) = 2
  BY <1>3, TwoOperands
<1>5. job \in Jobs /\ past \in Pasts(MappedGates(job)) /\ past.map \in Mappings
  BY DEF RouteInv, Pasts
<1>6. AltersOf(n) \in Seq(Alters(topology))
  BY <1>4, <1>5, RealsAre, AltersAre
<1>7. alter \in Alters(topology)
  BY <1>1, <1>2, <1>5, <1>6, AlterSelected
<1> DEFINE q == AddSwaps(past, alter, settings.swaps)
<1>8. q \in Pasts(MappedGates(job)) /\ q.waiting = <<>>
  <2> DEFINE P == Pasts(MappedGates(job))
  <2>1. P \subseteq Pasts(MappedGates(job)) /\ past \in P
    BY <1>5
  <2>2. /\ \A x \in P : \A h \in Links(topology) : AddSwap(x, topology, h[1], h[2], settings) \in P
        /\ \A x \in P : \A i, start : MayPlace(x, i, start) => Place(x, i, start, settings) \in P
    BY <1>5, AnyPast
  <2>3. settings.swaps \in {"one", "all", "earliest"}
    BY <1>5, JobsAssumption DEF IsSettings, settings
  <2> HIDE DEF P
  <2>4. q \in P /\ q.waiting = <<>>
    BY <1>5, <1>7, <2>1, <2>2, <2>3, SwapsAdded
  <2> QED BY <2>4 DEF P
<1>9. MapIfAdjacent(q, n)
  BY <1>2 DEF CommitAlter
<1> HIDE DEF q
<1>10. CASE Adjacent(q, n)
  <2>1. past' = MapRoutedGate(q, program[n], settings) /\ future' = CompletedGates(future, {n})
    BY <1>9, <1>10 DEF MapIfAdjacent, CompletedGate
  <2>2. Ready(q, n)
    BY <1>10 DEF Ready
  <2>3. past' \in Pasts(MappedGates(job)) /\ past'.waiting = <<>>
    BY <1>4, <1>8, <2>1, <2>2, RoutedStep
  <2> QED BY <1>3, <2>1, <2>3, FutureStep
<1>11. CASE ~Adjacent(q, n)
  <2>1. past' = q /\ future' = future
    BY <1>9, <1>11 DEF MapIfAdjacent
  <2> QED BY <1>3, <1>8, <2>1 DEF RouteInv, Elsewhere, program, settings
<1> QED BY <1>10, <1>11

LEMMA EasyStep ==
  ASSUME RouteInv, phase = "route", MapNonQuantum \/ MapSingle \/ MapNeighbours
  PROVE  RouteInv'
<1>1. CASE MapNonQuantum
  <2>1. PICK list \in InOrder(Bypassed) : past' = Bypass(past, [i \in DOMAIN list |-> program[list[i]]])
    BY <1>1 DEF MapNonQuantum
  <2>2. past' \in Pasts(MappedGates(job)) /\ past'.waiting = <<>>
    <3>1. [i \in DOMAIN list |-> program[list[i]]] \in Seq(MappedGates(job))
      BY BypassedGates
    <3> QED BY <2>1, <3>1, Bypassing DEF RouteInv
  <2>3. future' = CompletedGates(future, NonQuantum) /\ Elsewhere
    BY <1>1 DEF MapNonQuantum, Elsewhere
  <2> QED BY <2>2, <2>3, FutureStep
<1>2. ASSUME MapSingle \/ MapNeighbours
      PROVE  \E n \in DOMAIN program : Ready(past, n) /\ Complete(n)
  <2>1. CASE MapSingle
    <3>1. PICK n \in First(Single) : Complete(n)
      BY <2>1 DEF MapSingle
    <3>2. n \in future.avlist /\ (IsWait(program[n]) \/ Len(program[n].operands) = 1) /\ NonQuantum = {}
      BY <2>1 DEF First, Single, MapSingle
    <3>3. n \in DOMAIN program
      BY <3>2, OnlyQuantum
    <3> QED BY <3>1, <3>2, <3>3 DEF Ready
  <2>2. CASE MapNeighbours
    <3>1. PICK n \in First(Neighbours) : Complete(n)
      BY <2>2 DEF MapNeighbours
    <3>2. n \in future.avlist /\ Adjacent(past, n) /\ NonQuantum = {}
      BY <2>2 DEF First, Neighbours, MapNeighbours
    <3>3. n \in DOMAIN program
      BY <3>2, OnlyQuantum
    <3> QED BY <3>1, <3>2, <3>3 DEF Ready
  <2> QED BY <1>2, <2>1, <2>2
<1>3. CASE MapSingle \/ MapNeighbours
  <2>1. PICK n \in DOMAIN program : Ready(past, n) /\ Complete(n)
    BY <1>2, <1>3
  <2>2. past' = MapRoutedGate(past, program[n], settings) /\ future' = CompletedGates(future, {n}) /\ Elsewhere
    BY <2>1 DEF Complete, CompletedGate, Elsewhere
  <2>3. past' \in Pasts(MappedGates(job)) /\ past'.waiting = <<>>
    BY <2>1, <2>2, RoutedStep DEF RouteInv
  <2> QED BY <2>2, <2>3, FutureStep
<1> QED BY <1>1, <1>3

LEMMA StartStep ==
  ASSUME RouteInv, SetKernel
  PROVE  RouteInv'
<1> DEFINE g == GraphOf(program, settings)
<1>1. /\ future' = [graph |-> g, avlist |-> {0}, scheduled |-> {}]
      /\ phase' = "route" => IsDag(g)
      /\ UNCHANGED <<job, past, circuit, position>>
  BY DEF SetKernel
<1>2. IsKernel(program, settings)
  BY ProgramKernel DEF RouteInv, program
<1>3. phase' = "route" => Demands(program, settings, g)
  BY <1>1, <1>2, ProgramGraph
<1>4. 0 \in Nodes(program)
  BY <1>2, KernelNodes
<1> HIDE DEF g
<1> QED BY <1>1, <1>3, <1>4 DEF RouteInv, program, settings

LEMMA LastStep ==
  ASSUME RouteInv, FinishRoute \/ Decompose \/ FinishDecompose
  PROVE  RouteInv'
<1> DEFINE G == MappedGates(job)
<1>1. job \in Jobs /\ past \in Pasts(G) /\ past.waiting = <<>> /\ position \in Nat \ {0}
      /\ circuit \in Seq(Placed(G))
  BY DEF RouteInv
<1>2. UNCHANGED job /\ phase' # "route"
  BY DEF FinishRoute, Decompose, FinishDecompose
<1>3. FlushAll(past) \in Pasts(G) /\ FlushAll(past).waiting = <<>>
  <2>1. <<>> \in Seq(G)
    OBVIOUS
  <2> QED BY <1>1, <2>1, Bypassing
<1>4. FlushAll(past).output \in Seq(Placed(G))
  BY <1>3 DEF Pasts
<1>5. CASE FinishRoute
  <2>1. /\ circuit' = FlushAll(past).output /\ past' = InitialPast(InitialMapping) /\ position' = 1
        /\ UNCHANGED future
    BY <1>5 DEF FinishRoute
  <2>2. past' \in Pasts(G) /\ past'.waiting = <<>>
    BY <1>1, <2>1, FirstPast DEF InitialPast
  <2> QED BY <1>1, <1>2, <1>4, <2>1, <2>2 DEF RouteInv, program, settings
<1>6. CASE Decompose
  <2>1. /\ past' = AddAndSchedule(past, circuit[position].gate, settings)
        /\ position' = position + 1 /\ position <= Len(circuit) /\ UNCHANGED <<future, circuit>>
    BY <1>6 DEF Decompose
  <2>2. circuit[position].gate \in G
    <3>1. position \in 1 .. Len(circuit) /\ Len(circuit) \in Nat
      BY <1>1, <2>1
    <3>2. circuit[position] \in Placed(G)
      BY <1>1, <3>1
    <3> QED BY <3>2 DEF Placed
  <2> DEFINE h == circuit[position].gate
  <2>3. Add(past, <<h>>) \in Pasts(G)
    <3> HIDE DEF h, G
    <3>1. past = [map |-> past.map, fc |-> past.fc, waiting |-> past.waiting, gates |-> past.gates,
                  output |-> past.output, failed |-> past.failed]
          /\ past.map \in Mappings /\ past.fc \in FreeCycles /\ past.waiting \in Seq(G)
          /\ past.gates \in Seq(Placed(G)) /\ past.output \in Seq(Placed(G)) /\ past.failed \in BOOLEAN
      BY <1>1 DEF Pasts
    <3>2. <<h>> \in Seq(G)
      BY <2>2 DEF h
    <3>3. past.waiting \o <<h>> \in Seq(G)
      BY <3>1, <3>2
    <3> DEFINE w == past.waiting \o <<h>>
    <3>4. Add(past, <<h>>) = [past EXCEPT !.waiting = w]
      BY DEF Add
    <3> HIDE DEF w
    <3>5. Add(past, <<h>>) = [map |-> past.map, fc |-> past.fc, waiting |-> w, gates |-> past.gates,
                              output |-> past.output, failed |-> past.failed]
      BY <3>1, <3>4
    <3>6. w \in Seq(G)
      BY <3>3 DEF w
    <3> QED BY <3>1, <3>5, <3>6 DEF Pasts
  <2>4. past' \in Pasts(G) /\ past'.waiting = <<>>
    <3>1. G \in SUBSET RealGates
      BY DEF MappedGates
    <3>2. past' = ScheduleWaiting(Add(past, <<h>>), settings)
      BY <2>1 DEF AddAndSchedule
    <3> HIDE DEF G, h
    <3> QED BY <2>3, <3>1, <3>2, ScheduledPast
  <2> QED BY <1>1, <1>2, <2>1, <2>4 DEF RouteInv, program, settings
<1>7. CASE FinishDecompose
  <2>1. circuit' = FlushAll(past).output /\ past' = FlushAll(past) /\ UNCHANGED <<future, position>>
    BY <1>7 DEF FinishDecompose
  <2> QED BY <1>1, <1>2, <1>3, <1>4, <2>1 DEF RouteInv, program, settings
<1> QED BY <1>5, <1>6, <1>7

LEMMA MapperStep ==
  ASSUME RouteInv, [Next]_vars
  PROVE  RouteInv'
<1>1. CASE UNCHANGED mapperVars
  BY <1>1 DEF RouteInv, mapperVars, program, settings
<1>2. CASE Map
  <2>1. MapperNext
    BY <1>2 DEF Map
  <2>2. CASE SetKernel
    BY <2>2, StartStep
  <2>3. CASE MapNonQuantum \/ MapSingle \/ MapNeighbours
    <3>1. phase = "route"
      BY <2>3 DEF MapNonQuantum, MapSingle, MapNeighbours
    <3> QED BY <2>3, <3>1, EasyStep
  <2>4. CASE Route
    <3>1. phase = "route"
      BY <2>4 DEF Route, Stuck
    <3> QED BY <2>4, <3>1, RouteStep
  <2>5. CASE RouteNowhere \/ RouteAll
    <3>1. phase' # "route" /\ UNCHANGED <<job, future, past, circuit, position>>
      BY <2>5 DEF RouteNowhere, RouteAll
    <3> QED BY <3>1 DEF RouteInv, program, settings
  <2>6. CASE FinishRoute \/ Decompose \/ FinishDecompose
    BY <2>6, LastStep
  <2> QED BY <2>1, <2>2, <2>3, <2>4, <2>5, <2>6 DEF MapperNext
<1> QED BY <1>1, <1>2 DEF Next, Hand, RunScheduler, vars

\* Whatever the mapper has scheduled or delivered is a gate of its own or one of the
\* program's on real qubits, on a chip that allows it; nothing waits between two steps;
\* what is available are nodes of a graph that demands what the program does.
THEOREM RouteInvariant == Spec => []RouteInv
<1>1. RouteInv /\ [Next]_vars => RouteInv'
  BY MapperStep
<1> QED BY RouteStarts, <1>1, PTL DEF Spec

\* The gates that the mapper has delivered so far.
LEMMA OutputTyped ==
  ASSUME RouteInv
  PROVE  Output \in Seq(MappedGates(job))
<1> DEFINE G == MappedGates(job)
<1>1. ASSUME NEW s \in Seq(Placed(G)) PROVE GatesOf(s) \in Seq(G)
  <2>1. DOMAIN s = 1 .. Len(s) /\ Len(s) \in Nat /\ \A i \in DOMAIN s : s[i] \in Placed(G)
    BY <1>1
  <2>2. \A i \in 1 .. Len(s) : s[i].gate \in G
    BY <2>1 DEF Placed
  <2> QED BY <2>1, <2>2 DEF GatesOf
<1>2. past.output \in Seq(Placed(G)) /\ past.gates \in Seq(Placed(G)) /\ circuit \in Seq(Placed(G))
  BY DEF RouteInv, Pasts
<1> HIDE DEF G
<1>3. past.output \o past.gates \in Seq(Placed(G))
  BY <1>2
<1>4. Output \in Seq(G)
  BY <1>1, <1>2, <1>3 DEF Output
<1> QED BY <1>4 DEF G

\* Every two-qubit gate of the program ends up on a pair of neighbours inside a core, in the
\* direction of the connection, and the mapper's own gates use connections (mapper.cc:135,
\* past.cc:425).
THEOREM OnNeighbours == Spec => []NearestNeighbours
<1>1. RouteInv => NearestNeighbours
  <2> SUFFICES ASSUME RouteInv, NEW i \in DOMAIN Output, ~IsWait(Output[i]), Len(Output[i].operands) = 2
               PROVE  LET g == Output[i]  a == g.operands[1]  b == g.operands[2]
                      IN /\ b \in NeighborsOf(topology, a) \/ (g.id = 0 /\ a \in NeighborsOf(topology, b))
                         /\ IsInterCoreHop(topology, a, b) <=> (g.id = 0 /\ g.name \in {"tswap", "tmove"})
    BY DEF NearestNeighbours
  <2>1. Output[i] \in MappedGates(job)
    <3>1. Output \in Seq(MappedGates(job))
      BY OutputTyped
    <3> QED BY <3>1
  <2> HIDE DEF Output
  <2>2. OnChip(job.topology, Output[i])
    BY <2>1 DEF MappedGates
  <2> QED BY <2>2 DEF OnChip, topology
<1> QED BY RouteInvariant, <1>1, PTL

\* What the old scheduler is given, from the mapper or without it, is a kernel.
KernelGiven ==
  job \in Jobs /\ options = job.schedule /\ kernel \in {<<>>, program} \cup Seq(MappedGates(job))

LEMMA KernelStep ==
  ASSUME KernelGiven, RouteInv, [Next]_vars
  PROVE  KernelGiven'
<1>1. CASE Map
  <2>1. UNCHANGED <<job, options, kernel>>
    BY <1>1, JobKept DEF Map, schedulerVars, graphVars
  <2> QED BY <2>1 DEF KernelGiven, program
<1>2. CASE UNCHANGED vars
  BY <1>2 DEF vars, mapperVars, schedulerVars, graphVars, KernelGiven, program
<1>3. CASE Hand
  <2>1. /\ UNCHANGED <<job, options, mapperVars>>
        /\ kernel' = IF job.mapped THEN GatesOf(circuit) ELSE program
        /\ job.mapped => phase = "mapped"
    BY <1>3 DEF Hand, mapperVars
  <2>2. job.mapped => Output = GatesOf(circuit)
    BY <2>1 DEF Output
  <2>3. job.mapped => GatesOf(circuit) \in Seq(MappedGates(job))
    BY <2>2, OutputTyped
  <2> QED BY <2>1, <2>3 DEF KernelGiven, program
<1>4. CASE RunScheduler
  <2>1. UNCHANGED <<job, options, kernel>>
    BY <1>4 DEF RunScheduler, mapperVars, SchedulerNext, InitGate, FinishInit, ListStep, AdvanceCurrCycle,
                FinishListing, UniformMove, UniformNextCycle, FinishUniform, graphVars
  <2> QED BY <2>1 DEF KernelGiven, program
<1> QED BY <1>1, <1>2, <1>3, <1>4 DEF Next

\* Whatever the scheduler is given, from the mapper or without it, is a kernel that it can
\* schedule: gates of the platform on qubits of the chip, none of which acts on nothing.
THEOREM KernelsFit == Spec => []IsKernel(kernel, options)
<1>1. Init => KernelGiven
  BY DEF Init, MapperInit, StartOf, KernelGiven
<1>2. KernelGiven /\ RouteInv /\ [Next]_vars => KernelGiven'
  BY KernelStep
<1>3. KernelGiven => IsKernel(kernel, options)
  <2> SUFFICES ASSUME KernelGiven PROVE IsKernel(kernel, options)
    OBVIOUS
  <2>1. CASE kernel = <<>>
    BY <2>1 DEF IsKernel, ToSet
  <2>2. CASE kernel = program
    BY <2>2, ProgramKernel DEF KernelGiven, program
  <2>3. CASE kernel \in Seq(MappedGates(job))
    BY <2>3, MappedKernel DEF KernelGiven
  <2> QED BY <2>1, <2>2, <2>3 DEF KernelGiven
<1> QED BY <1>1, <1>2, <1>3, RouteInvariant, PTL DEF Spec

\* So the schedule of every job, mapped or not, keeps what must stay in order in order, keeps
\* gates on the same qubit apart, and is as short as any without resources.
THEOREM EveryJobIsScheduled == Spec => [](ConflictsScheduled /\ ShortestCircuit)
<1>1. SchedulerInv /\ IsKernel(kernel, options) => ConflictsScheduled /\ ShortestCircuit
  BY DoneOrder, DoneShortest
<1> QED BY <1>1, KernelsFit, SchedulerInvariant, PTL

-----------------------------------------------------------------------------
(* Replaying gates: what one gate does.                                    *)

Contents == {Zero, Unknown} \cup {StateOf(v) : v \in Qubits}

States ==
  [content : [Qubits -> Contents], value : [Qubits -> {"unused", "zero", "live"}], ok : BOOLEAN, zeroes : BOOLEAN]

Run(s, g) == IF g.id = 0 THEN RunInserted(s, g) ELSE RunProgramGate(s, g)

\* The qubits of the program that a gate of it acts on.
VirtualsOf(g) == IF g.id = 0 THEN <<>> ELSE program[g.id].operands

LEMMA ContentsDiffer ==
  /\ Zero # Unknown
  /\ \A v : StateOf(v) # Zero /\ StateOf(v) # Unknown
  /\ \A v, w : StateOf(v) = StateOf(w) => v = w
<1>1. Len(<<"zero">>) = 1 /\ \A v : Len(<<"state", v>>) = 2
  OBVIOUS
<1>2. \A v, w : <<"state", v>> = <<"state", w>> => v = w
  OBVIOUS
<1>3. <<"zero">>[1] = "zero" /\ \A v : <<"state", v>>[1] = "state"
  OBVIOUS
<1> QED BY <1>1, <1>2, <1>3 DEF Zero, Unknown, StateOf

LEMMA StartTyped == Start \in States
BY DEF Start, States, Contents

\* The operands and virtual operands of a gate of the mapper.
LEMMA GateShape ==
  ASSUME job \in Jobs, NEW g \in MappedGates(job)
  PROVE  /\ g.operands \in Seq(Qubits) /\ Len(g.operands) \in {0, 1, 2}
         /\ DOMAIN g.operands = 1 .. Len(g.operands)
         /\ \A i \in DOMAIN g.operands : g.operands[i] \in Qubits
         /\ g.id = 0 => /\ g.name \in OwnNames /\ Len(g.operands) \in {1, 2}
                        /\ g.operands[1] \in Qubits /\ g.operands[Len(g.operands)] \in Qubits
                        /\ g.bregs = <<>> /\ g.cond = <<>>
         /\ g.id # 0 => /\ g.id \in DOMAIN program /\ g.name = program[g.id].name
                        /\ g.bregs = program[g.id].bregs /\ g.cond = program[g.id].cond
                        /\ VirtualsOf(g) \in Seq(Qubits) /\ DOMAIN VirtualsOf(g) = DOMAIN g.operands
                        /\ \A i, k \in DOMAIN g.operands :
                             VirtualsOf(g)[i] = VirtualsOf(g)[k] => g.operands[i] = g.operands[k]
<1>1. /\ g \in RealGates /\ Len(g.operands) \in (IF IsClassical(g) THEN {0} ELSE {1, 2}) /\ OfProgram(job, g)
      /\ g.operands \in Seq(Qubits)
  BY DEF MappedGates, RealGates, GateRecords
<1>2. DOMAIN g.operands = 1 .. Len(g.operands) /\ \A i \in DOMAIN g.operands : g.operands[i] \in Qubits
  BY <1>1
<1>3. ASSUME g.id = 0
      PROVE  /\ g.name \in OwnNames /\ Len(g.operands) \in {1, 2}
             /\ g.operands[1] \in Qubits /\ g.operands[Len(g.operands)] \in Qubits
             /\ g.bregs = <<>> /\ g.cond = <<>>
  <2>1. g = NewGate(g.name, g.operands) /\ g.name \in OwnNames
    BY <1>1, <1>3 DEF OfProgram
  <2>2. ~IsClassical(g)
    BY <2>1 DEF OwnNames, IsClassical
  <2>3. Len(g.operands) \in {1, 2}
    BY <1>1, <2>2
  <2>4. 1 \in DOMAIN g.operands /\ Len(g.operands) \in DOMAIN g.operands
    BY <1>2, <2>3
  <2>5. NewGate(g.name, g.operands).bregs = <<>> /\ NewGate(g.name, g.operands).cond = <<>>
    BY DEF NewGate
  <2> QED BY <1>2, <2>1, <2>3, <2>4, <2>5
<1>4. ASSUME g.id # 0
      PROVE  /\ g.id \in DOMAIN program /\ g.name = program[g.id].name
             /\ g.bregs = program[g.id].bregs /\ g.cond = program[g.id].cond
             /\ VirtualsOf(g) \in Seq(Qubits) /\ DOMAIN VirtualsOf(g) = DOMAIN g.operands
             /\ \A i, k \in DOMAIN g.operands :
                  VirtualsOf(g)[i] = VirtualsOf(g)[k] => g.operands[i] = g.operands[k]
  <2> DEFINE h == program[g.id]
  <2>1. /\ g.id \in DOMAIN program /\ g = [h EXCEPT !.operands = g.operands] /\ Len(g.operands) = Len(h.operands)
        /\ \A i, k \in DOMAIN g.operands : h.operands[i] = h.operands[k] => g.operands[i] = g.operands[k]
    BY <1>1, <1>4 DEF OfProgram, program
  <2>2. h \in RealGates
    BY <2>1, ProgramGate
  <2>3. h.operands \in Seq(Qubits)
    BY <2>2 DEF RealGates, GateRecords
  <2>4. VirtualsOf(g) = h.operands
    BY <1>4 DEF VirtualsOf
  <2> HIDE DEF h
  <2>5. g.name = h.name /\ g.bregs = h.bregs /\ g.cond = h.cond
    BY <2>1, <2>2 DEF RealGates, GateRecords
  <2>6. DOMAIN h.operands = DOMAIN g.operands
    BY <1>2, <2>1, <2>3
  <2> QED BY <2>1, <2>3, <2>4, <2>5, <2>6 DEF h
<1>5. Len(g.operands) \in {0, 1, 2}
  BY <1>1
<1> QED BY <1>1, <1>2, <1>3, <1>4, <1>5

-----------------------------------------------------------------------------
(* Replaying gates: what a gate changes lies at its operands.              *)

Ops(g) == {g.operands[i] : i \in DOMAIN g.operands}

Virtuals(g) == {VirtualsOf(g)[i] : i \in DOMAIN VirtualsOf(g)}

LastOp(g) == g.operands[Len(g.operands)]

\* What is in an operand afterwards, whether the gate finds what it should, and whether it finds
\* |0> where it relies on it.
Put(s, g, r) ==
  IF g.id # 0 THEN StateOf(VirtualsOf(g)[CHOOSE i \in DOMAIN g.operands : g.operands[i] = r])
  ELSE IF g.name = "prepz" THEN IF r = g.operands[1] THEN Zero ELSE s.content[r]
  ELSE IF r = g.operands[1] THEN s.content[LastOp(g)]
  ELSE IF r = LastOp(g) THEN s.content[g.operands[1]] ELSE s.content[r]

Fine(s, g) ==
  IF g.id # 0 THEN \A i \in DOMAIN VirtualsOf(g) :
                     IF s.value[VirtualsOf(g)[i]] = "live" THEN s.content[g.operands[i]] = StateOf(VirtualsOf(g)[i])
                     ELSE ~HasState(s, g.operands[i])
  ELSE IF g.name = "prepz" THEN ~HasState(s, g.operands[1])
  ELSE IF g.name \in {"move", "tmove"} THEN ~HasState(s, LastOp(g)) ELSE TRUE

Pure(s, g) ==
  IF g.id # 0 THEN \A i \in DOMAIN VirtualsOf(g) :
                     s.value[VirtualsOf(g)[i]] = "zero" => s.content[g.operands[i]] = Zero
  ELSE IF g.name \in {"move", "tmove"} THEN s.content[LastOp(g)] = Zero ELSE TRUE

Effect(s, g) ==
  [content |-> [r \in Qubits |-> IF r \in Ops(g) THEN Put(s, g, r) ELSE s.content[r]],
   value   |-> [v \in Qubits |-> IF v \in Virtuals(g) THEN "live" ELSE s.value[v]],
   ok      |-> s.ok /\ Fine(s, g),
   zeroes  |-> s.zeroes /\ Pure(s, g)]

LEMMA ProgramEffect ==
  ASSUME job \in Jobs, ~Resets, NEW g \in MappedGates(job), g.id # 0, NEW s \in States
  PROVE  RunProgramGate(s, g) = Effect(s, g)
<1> DEFINE h == g.operands
           w == VirtualsOf(g)
<1>1. w = program[g.id].operands /\ g.id \in DOMAIN program /\ g.name = program[g.id].name
  BY GateShape DEF VirtualsOf
<1>2. (settings.prep_only_initializes /\ g.name = "prepz") = FALSE
  BY <1>1 DEF Resets
<1>3. DOMAIN w = DOMAIN h
  BY GateShape
<1>4. \A r : (\E i \in DOMAIN h : h[i] = r) <=> r \in Ops(g)
  BY DEF Ops
<1>5. \A v : (\E i \in DOMAIN w : w[i] = v) <=> v \in Virtuals(g)
  BY DEF Virtuals
<1> DEFINE content == [r \in Qubits |-> IF ~(\E i \in DOMAIN h : h[i] = r) THEN s.content[r]
                                        ELSE StateOf(w[CHOOSE i \in DOMAIN h : h[i] = r])]
           value == [v \in Qubits |-> IF ~(\E i \in DOMAIN w : w[i] = v) THEN s.value[v] ELSE "live"]
           found(i) == IF s.value[w[i]] = "live" THEN s.content[h[i]] = StateOf(w[i]) ELSE ~HasState(s, h[i])
           ok == s.ok /\ \A i \in DOMAIN w : found(i)
           zeroes == s.zeroes /\ \A i \in DOMAIN w : s.value[w[i]] = "zero" => s.content[h[i]] = Zero
<1>6. RunProgramGate(s, g) = [content |-> content, value |-> value, ok |-> ok, zeroes |-> zeroes]
  BY <1>1, <1>2 DEF RunProgramGate
<1>7. content = [r \in Qubits |-> IF r \in Ops(g) THEN Put(s, g, r) ELSE s.content[r]]
  <2>1. \A r : Put(s, g, r) = StateOf(w[CHOOSE i \in DOMAIN h : h[i] = r])
    BY DEF Put
  <2> HIDE DEF w, h
  <2> QED BY <1>4, <2>1
<1>8. value = [v \in Qubits |-> IF v \in Virtuals(g) THEN "live" ELSE s.value[v]]
  BY <1>5
<1>9. Fine(s, g) <=> \A i \in DOMAIN w : found(i)
  BY DEF Fine
<1>10. Pure(s, g) <=> \A i \in DOMAIN w : s.value[w[i]] = "zero" => s.content[h[i]] = Zero
  BY DEF Pure
<1>11. ok = (s.ok /\ Fine(s, g)) /\ zeroes = (s.zeroes /\ Pure(s, g))
  BY <1>9, <1>10
<1> HIDE DEF content, value, ok, zeroes
<1> QED BY <1>6, <1>7, <1>8, <1>11 DEF Effect

LEMMA InsertedEffect ==
  ASSUME job \in Jobs, NEW g \in MappedGates(job), g.id = 0, NEW s \in States
  PROVE  RunInserted(s, g) = Effect(s, g)
<1> DEFINE a == g.operands[1]
           b == LastOp(g)
<1>1. /\ g.name \in OwnNames /\ a \in Qubits /\ b \in Qubits /\ Len(g.operands) \in {1, 2}
      /\ DOMAIN g.operands = 1 .. Len(g.operands)
  BY GateShape DEF LastOp
<1>2. Ops(g) = {a, b}
  <2> DEFINE l == Len(g.operands)
  <2>1. l \in {1, 2}
    BY <1>1
  <2> HIDE DEF l
  <2>2. 1 .. l = {1, l}
    BY <2>1
  <2> QED BY <1>1, <2>2 DEF Ops, LastOp, l
<1>3. Virtuals(g) = {}
  BY DEF Virtuals, VirtualsOf
<1>4. /\ s = [content |-> s.content, value |-> s.value, ok |-> s.ok, zeroes |-> s.zeroes]
      /\ s.content \in [Qubits -> Contents] /\ s.value \in [Qubits -> {"unused", "zero", "live"}]
      /\ s.ok \in BOOLEAN /\ s.zeroes \in BOOLEAN
  BY DEF States
<1>9. ASSUME NEW c, NEW k, NEW z
      PROVE  /\ [s EXCEPT !.content = c] = [content |-> c, value |-> s.value, ok |-> s.ok, zeroes |-> s.zeroes]
             /\ [s EXCEPT !.content = c, !.ok = k] = [content |-> c, value |-> s.value, ok |-> k, zeroes |-> s.zeroes]
             /\ [s EXCEPT !.content = c, !.ok = k, !.zeroes = z] = [content |-> c, value |-> s.value, ok |-> k, zeroes |-> z]
  <2> DEFINE x == [s EXCEPT !.content = c]
             y == [x EXCEPT !.ok = k]
  <2>1. x = [content |-> c, value |-> s.value, ok |-> s.ok, zeroes |-> s.zeroes]
    BY ONLY <1>4
  <2>2. [s EXCEPT !.content = c, !.ok = k] = y /\ [s EXCEPT !.content = c, !.ok = k, !.zeroes = z] = [y EXCEPT !.zeroes = z]
    BY ONLY <1>4
  <2> HIDE DEF x
  <2>3. y = [content |-> c, value |-> s.value, ok |-> k, zeroes |-> s.zeroes]
    BY ONLY <2>1
  <2> HIDE DEF y
  <2>4. [y EXCEPT !.zeroes = z] = [content |-> c, value |-> s.value, ok |-> k, zeroes |-> z]
    BY ONLY <2>3
  <2> QED BY <2>1, <2>2, <2>3, <2>4 DEF x
<1> DEFINE content == [r \in Qubits |-> IF r \in Ops(g) THEN Put(s, g, r) ELSE s.content[r]]
           ok == s.ok /\ Fine(s, g)
           zeroes == s.zeroes /\ Pure(s, g)
<1>5. Effect(s, g) = [content |-> content, value |-> s.value, ok |-> ok, zeroes |-> zeroes]
  <2>1. [v \in Qubits |-> IF v \in Virtuals(g) THEN "live" ELSE s.value[v]] = s.value
    BY <1>3, <1>4
  <2> QED BY <2>1 DEF Effect
<1>6. CASE g.name = "prepz"
  <2>1. RunInserted(s, g) = [s EXCEPT !.content[a] = Zero, !.ok = @ /\ ~HasState(s, a)]
    BY <1>6 DEF RunInserted
  <2>2. content = [s.content EXCEPT ![a] = Zero]
    BY <1>1, <1>2, <1>4, <1>6 DEF Put
  <2>3. ok = (s.ok /\ ~HasState(s, a)) /\ zeroes = s.zeroes
    BY <1>4, <1>6 DEF Fine, Pure
  <2> DEFINE fine == s.ok /\ ~HasState(s, a)
             new == [s.content EXCEPT ![a] = Zero]
  <2>4. RunInserted(s, g) = [s EXCEPT !.content = new, !.ok = fine]
    BY <2>1, <1>4
  <2> HIDE DEF content, ok, zeroes, a, b, fine, new
  <2>5. [s EXCEPT !.content = new, !.ok = fine] = [content |-> new, value |-> s.value, ok |-> fine, zeroes |-> s.zeroes]
    BY <1>9
  <2> QED BY <1>5, <2>2, <2>3, <2>4, <2>5 DEF fine, new
<1>7. CASE g.name \in {"move", "tmove"}
  <2>1. RunInserted(s, g) = [s EXCEPT !.content = [@ EXCEPT ![b] = s.content[a], ![a] = s.content[b]],
                                      !.ok = @ /\ ~HasState(s, b), !.zeroes = @ /\ s.content[b] = Zero]
    BY <1>7 DEF RunInserted, LastOp
  <2>2. content = [s.content EXCEPT ![b] = s.content[a], ![a] = s.content[b]]
    <3>1. \A r \in Qubits : r \in Ops(g) => Put(s, g, r) = IF r = a THEN s.content[b] ELSE s.content[a]
      BY <1>2, <1>7 DEF Put
    <3> HIDE DEF a, b
    <3> QED BY <1>1, <1>2, <1>4, <3>1
  <2>3. ok = (s.ok /\ ~HasState(s, b)) /\ zeroes = (s.zeroes /\ s.content[b] = Zero)
    BY <1>4, <1>7 DEF Fine, Pure
  <2> DEFINE fine == s.ok /\ ~HasState(s, b)
             pure == s.zeroes /\ s.content[b] = Zero
             new == [s.content EXCEPT ![b] = s.content[a], ![a] = s.content[b]]
  <2>4. RunInserted(s, g) = [s EXCEPT !.content = new, !.ok = fine, !.zeroes = pure]
    BY <2>1, <1>4
  <2> HIDE DEF content, ok, zeroes, a, b, fine, pure, new
  <2>5. [s EXCEPT !.content = new, !.ok = fine, !.zeroes = pure]
          = [content |-> new, value |-> s.value, ok |-> fine, zeroes |-> pure]
    BY ONLY <1>9
  <2> QED BY <1>5, <2>2, <2>3, <2>4, <2>5 DEF fine, pure, new
<1>8. CASE g.name \in {"swap", "tswap"}
  <2>1. RunInserted(s, g) = [s EXCEPT !.content = [@ EXCEPT ![b] = s.content[a], ![a] = s.content[b]]]
    BY <1>8 DEF RunInserted, LastOp
  <2>2. content = [s.content EXCEPT ![b] = s.content[a], ![a] = s.content[b]]
    <3>1. \A r \in Qubits : r \in Ops(g) => Put(s, g, r) = IF r = a THEN s.content[b] ELSE s.content[a]
      BY <1>2, <1>8 DEF Put
    <3> HIDE DEF a, b
    <3> QED BY <1>1, <1>2, <1>4, <3>1
  <2>3. ok = s.ok /\ zeroes = s.zeroes
    BY <1>4, <1>8 DEF Fine, Pure
  <2> DEFINE new == [s.content EXCEPT ![b] = s.content[a], ![a] = s.content[b]]
  <2>4. RunInserted(s, g) = [s EXCEPT !.content = new]
    BY <2>1, <1>4
  <2> HIDE DEF content, ok, zeroes, a, b, new
  <2>5. [s EXCEPT !.content = new]
          = [content |-> new, value |-> s.value, ok |-> s.ok, zeroes |-> s.zeroes]
    BY <1>9
  <2> QED BY <1>5, <2>2, <2>3, <2>4, <2>5 DEF new
<1> QED BY <1>1, <1>6, <1>7, <1>8 DEF OwnNames

\* What running a gate does.
LEMMA RunEffect ==
  ASSUME job \in Jobs, ~Resets, NEW g \in MappedGates(job), NEW s \in States
  PROVE  Run(s, g) = Effect(s, g) /\ Run(s, g) \in States /\ Ops(g) \subseteq Qubits
<1>1. Run(s, g) = Effect(s, g)
  BY ProgramEffect, InsertedEffect DEF Run
<1>2. Ops(g) \subseteq Qubits
  BY GateShape DEF Ops
<1>3. /\ s.content \in [Qubits -> Contents] /\ s.value \in [Qubits -> {"unused", "zero", "live"}]
      /\ s.ok \in BOOLEAN /\ s.zeroes \in BOOLEAN
  BY DEF States
<1>4. \A r \in Ops(g) : Put(s, g, r) \in Contents
  <2> SUFFICES ASSUME NEW r \in Ops(g) PROVE Put(s, g, r) \in Contents
    OBVIOUS
  <2>1. CASE g.id # 0
    <3> DEFINE i == CHOOSE k \in DOMAIN g.operands : g.operands[k] = r
    <3>1. i \in DOMAIN g.operands
      BY DEF Ops
    <3>2. DOMAIN VirtualsOf(g) = DOMAIN g.operands /\ VirtualsOf(g) \in Seq(Qubits)
      BY <2>1, GateShape
    <3>3. VirtualsOf(g)[i] \in Qubits
      BY <3>1, <3>2
    <3> QED BY <2>1, <3>3 DEF Put, Contents
  <2>2. CASE g.id = 0
    <3>1. g.operands[1] \in Qubits /\ LastOp(g) \in Qubits /\ r \in Qubits
      BY <1>2, <2>2, GateShape DEF LastOp
    <3> QED BY <1>3, <2>2, <3>1 DEF Put, Contents
  <2> QED BY <2>1, <2>2
<1>5. Fine(s, g) \in BOOLEAN /\ Pure(s, g) \in BOOLEAN
  BY DEF Fine, Pure, HasState
<1>6. Effect(s, g) \in States
  <2> DEFINE content == [r \in Qubits |-> IF r \in Ops(g) THEN Put(s, g, r) ELSE s.content[r]]
             value == [v \in Qubits |-> IF v \in Virtuals(g) THEN "live" ELSE s.value[v]]
             ok == s.ok /\ Fine(s, g)
             zeroes == s.zeroes /\ Pure(s, g)
  <2>1. content \in [Qubits -> Contents] /\ value \in [Qubits -> {"unused", "zero", "live"}]
    BY <1>3, <1>4
  <2>2. ok \in BOOLEAN /\ zeroes \in BOOLEAN
    OBVIOUS
  <2>3. Effect(s, g) = [content |-> content, value |-> value, ok |-> ok, zeroes |-> zeroes]
    BY DEF Effect
  <2> HIDE DEF content, value, ok, zeroes
  <2> QED BY <2>1, <2>2, <2>3 DEF States
<1> QED BY <1>1, <1>2, <1>6

\* It depends on nothing else.
Alike(s, t, g) ==
  (\A r \in Ops(g) : s.content[r] = t.content[r]) /\ (\A v \in Virtuals(g) : s.value[v] = t.value[v])

LEMMA EffectLocal ==
  ASSUME job \in Jobs, NEW g \in MappedGates(job), NEW s, NEW t, Alike(s, t, g)
  PROVE  /\ \A r \in Ops(g) : Put(s, g, r) = Put(t, g, r)
         /\ Fine(s, g) <=> Fine(t, g)
         /\ Pure(s, g) <=> Pure(t, g)
<1>1. CASE g.id = 0
  <2>1. g.operands[1] \in Ops(g) /\ LastOp(g) \in Ops(g)
    <3> DEFINE l == Len(g.operands)
    <3>1. l \in {1, 2} /\ DOMAIN g.operands = 1 .. l
      BY <1>1, GateShape
    <3> HIDE DEF l
    <3>2. 1 \in DOMAIN g.operands /\ l \in DOMAIN g.operands
      BY <3>1
    <3> QED BY <3>2 DEF Ops, LastOp, l
  <2> QED BY <1>1, <2>1 DEF Put, Fine, Pure, Alike, HasState
<1>2. CASE g.id # 0
  <2>1. DOMAIN VirtualsOf(g) = DOMAIN g.operands
    BY <1>2, GateShape
  <2>2. \A i \in DOMAIN VirtualsOf(g) : VirtualsOf(g)[i] \in Virtuals(g) /\ g.operands[i] \in Ops(g)
    BY <2>1 DEF Ops, Virtuals
  <2> QED BY <1>2, <2>2 DEF Put, Fine, Pure, Alike, HasState
<1> QED BY <1>1, <1>2

\* No two qubits hold the state of one qubit of the program, and none that of an unused one.
Distinct(s) ==
  /\ \A r, v \in Qubits : s.content[r] = StateOf(v) => s.value[v] = "live"
  /\ \A q, r, v \in Qubits : s.content[q] = StateOf(v) /\ s.content[r] = StateOf(v) => q = r

LEMMA StartDistinct == Distinct(Start)
BY ContentsDiffer DEF Distinct, Start

LEMMA RunDistinct ==
  ASSUME job \in Jobs, ~Resets, NEW g \in MappedGates(job), NEW s \in States, Distinct(s), Run(s, g).ok
  PROVE  s.ok /\ Fine(s, g) /\ Distinct(Run(s, g))
<1> DEFINE t == Effect(s, g)
<1>1. Run(s, g) = t /\ Ops(g) \subseteq Qubits
  BY RunEffect
<1>2. s.ok /\ Fine(s, g)
  <2>1. t.ok = (s.ok /\ Fine(s, g)) /\ t.ok
    BY <1>1 DEF Effect
  <2> QED BY ONLY <2>1
<1>3. \A r \in Qubits : t.content[r] = IF r \in Ops(g) THEN Put(s, g, r) ELSE s.content[r]
  BY DEF Effect
<1>4. \A v \in Qubits : t.value[v] = IF v \in Virtuals(g) THEN "live" ELSE s.value[v]
  BY DEF Effect
<1> HIDE DEF t
<1>5. CASE g.id = 0
  <2>1. Virtuals(g) = {}
    BY <1>5 DEF Virtuals, VirtualsOf
  <2>2. g.operands[1] \in Qubits /\ LastOp(g) \in Qubits /\ g.name \in OwnNames
    BY <1>5, GateShape DEF LastOp
  <2>3. g.operands[1] \in Ops(g) /\ LastOp(g) \in Ops(g)
    <3> DEFINE l == Len(g.operands)
    <3>1. l \in {1, 2} /\ DOMAIN g.operands = 1 .. l
      BY <1>5, GateShape
    <3> HIDE DEF l
    <3>2. 1 \in DOMAIN g.operands /\ l \in DOMAIN g.operands
      BY <3>1
    <3> QED BY <3>2 DEF Ops, LastOp, l
  <2>4. CASE g.name = "prepz"
    <3>1. \A r \in Qubits : t.content[r] = IF r = g.operands[1] THEN Zero ELSE s.content[r]
      BY <1>3, <1>5, <2>3, <2>4 DEF Put
    <3> QED BY <1>1, <1>2, <1>4, <2>1, <3>1, ContentsDiffer DEF Distinct
  <2>5. CASE g.name # "prepz"
    <3> DEFINE a == g.operands[1]
               b == LastOp(g)
    <3>1. \A r \in Qubits : t.content[r] = IF r = a THEN s.content[b] ELSE IF r = b THEN s.content[a] ELSE s.content[r]
      BY <1>3, <1>5, <2>3, <2>5 DEF Put
    <3>2. a \in Qubits /\ b \in Qubits /\ \A v \in Qubits : t.value[v] = s.value[v]
      BY <1>4, <2>1, <2>2
    <3> HIDE DEF a, b
    <3>3. Distinct(t)
      BY <3>1, <3>2 DEF Distinct
    <3> QED BY <1>1, <1>2, <3>3
  <2> QED BY <2>4, <2>5
<1>6. CASE g.id # 0
  <2> DEFINE w == VirtualsOf(g)
             h == g.operands
  <2>1. /\ DOMAIN w = DOMAIN h /\ \A i \in DOMAIN w : w[i] \in Qubits /\ h[i] \in Qubits
        /\ \A i, k \in DOMAIN w : w[i] = w[k] => h[i] = h[k]
    BY <1>6, GateShape
  <2>2. \A r \in Ops(g) : \E i \in DOMAIN w : h[i] = r /\ Put(s, g, r) = StateOf(w[i])
    <3> SUFFICES ASSUME NEW r \in Ops(g) PROVE \E i \in DOMAIN w : h[i] = r /\ Put(s, g, r) = StateOf(w[i])
      OBVIOUS
    <3> DEFINE i == CHOOSE k \in DOMAIN h : h[k] = r
    <3>1. i \in DOMAIN h /\ h[i] = r
      BY DEF Ops
    <3>2. Put(s, g, r) = StateOf(w[i])
      BY <1>6 DEF Put
    <3> QED BY <2>1, <3>1, <3>2
  <2>3. \A i \in DOMAIN w : w[i] \in Virtuals(g) /\ h[i] \in Ops(g)
    BY <2>1 DEF Virtuals, Ops
  <2>4. \A i \in DOMAIN w : s.value[w[i]] = "live" => s.content[h[i]] = StateOf(w[i])
    BY <1>2, <1>6 DEF Fine
  <2> HIDE DEF w, h
  <2>5. ASSUME NEW r \in Qubits, NEW v \in Qubits, t.content[r] = StateOf(v)
        PROVE  /\ t.value[v] = "live"
               /\ r \in Ops(g) => \E i \in DOMAIN w : h[i] = r /\ w[i] = v
               /\ r \notin Ops(g) => s.content[r] = StateOf(v) /\ s.value[v] = "live"
    <3>1. CASE r \in Ops(g)
      <4>1. PICK i \in DOMAIN w : h[i] = r /\ Put(s, g, r) = StateOf(w[i])
        BY <2>2, <3>1
      <4>2. StateOf(w[i]) = StateOf(v)
        BY <1>3, <2>5, <3>1, <4>1
      <4>3. w[i] = v
        BY <4>2, ContentsDiffer
      <4> QED BY <1>4, <2>3, <3>1, <4>1, <4>3
    <3>2. CASE r \notin Ops(g)
      <4>1. s.content[r] = StateOf(v)
        BY <1>3, <2>5, <3>2
      <4>2. s.value[v] = "live"
        BY <4>1 DEF Distinct
      <4> QED BY <1>4, <3>2, <4>1, <4>2
    <3> QED BY <3>1, <3>2
  <2>6. ASSUME NEW q \in Qubits, NEW r \in Qubits, NEW v \in Qubits, t.content[q] = StateOf(v), t.content[r] = StateOf(v),
               q \in Ops(g)
        PROVE  q = r
    <3>1. PICK i \in DOMAIN w : h[i] = q /\ w[i] = v
      BY <2>5, <2>6
    <3>2. CASE r \in Ops(g)
      <4>1. PICK k \in DOMAIN w : h[k] = r /\ w[k] = v
        BY <2>5, <2>6, <3>2
      <4> QED BY <2>1, <3>1, <4>1
    <3>3. CASE r \notin Ops(g)
      <4>1. s.content[r] = StateOf(v) /\ s.value[v] = "live"
        BY <2>5, <2>6, <3>3
      <4>2. s.content[q] = StateOf(v)
        BY <2>4, <3>1, <4>1
      <4> QED BY <4>1, <4>2 DEF Distinct
    <3> QED BY <3>2, <3>3
  <2>7. ASSUME NEW q \in Qubits, NEW r \in Qubits, NEW v \in Qubits, t.content[q] = StateOf(v), t.content[r] = StateOf(v)
        PROVE  q = r
    <3>1. CASE q \in Ops(g)
      BY <2>6, <2>7, <3>1
    <3>2. CASE r \in Ops(g)
      BY <2>6, <2>7, <3>2
    <3>3. CASE q \notin Ops(g) /\ r \notin Ops(g)
      <4>1. s.content[r] = StateOf(v) /\ s.content[q] = StateOf(v)
        BY <2>5, <2>7, <3>3
      <4> QED BY <4>1 DEF Distinct
    <3> QED BY <3>1, <3>2, <3>3
  <2>8. Distinct(t)
    BY <2>5, <2>7 DEF Distinct
  <2> QED BY <1>1, <1>2, <2>8
<1> QED BY <1>5, <1>6

\* Gates on different qubits can be exchanged, and are of different qubits of the program.
Separate(g, h) == Ops(g) \cap Ops(h) = {}

LEMMA ApartVirtuals ==
  ASSUME job \in Jobs, ~Resets, NEW g \in MappedGates(job), NEW h \in MappedGates(job), Separate(g, h),
         NEW s \in States, Distinct(s), Run(Run(s, g), h).ok
  PROVE  Virtuals(g) \cap Virtuals(h) = {}
<1> SUFFICES ASSUME NEW v \in Virtuals(g), v \in Virtuals(h) PROVE FALSE
  OBVIOUS
<1> DEFINE t == Effect(s, g)
<1>1. Run(s, g) = t /\ t \in States /\ Ops(g) \subseteq Qubits
  BY RunEffect
<1>2. Run(t, h) = Effect(t, h) /\ Ops(h) \subseteq Qubits
  BY <1>1, RunEffect
<1>3. t.ok /\ Fine(t, h)
  <2>1. Effect(t, h).ok = (t.ok /\ Fine(t, h))
    BY DEF Effect
  <2>2. Effect(t, h).ok
    BY <1>1, <1>2
  <2> QED BY ONLY <2>1, <2>2
<1>4. s.ok /\ Fine(s, g)
  BY <1>3 DEF Effect
<1>5. g.id # 0 /\ h.id # 0
  BY DEF Virtuals, VirtualsOf
<1>6. /\ DOMAIN VirtualsOf(g) = DOMAIN g.operands /\ DOMAIN VirtualsOf(h) = DOMAIN h.operands
      /\ VirtualsOf(g) \in Seq(Qubits) /\ VirtualsOf(h) \in Seq(Qubits)
  BY <1>5, GateShape
<1>7. PICK i \in DOMAIN VirtualsOf(g) : VirtualsOf(g)[i] = v
  BY DEF Virtuals
<1>8. PICK k \in DOMAIN VirtualsOf(h) : VirtualsOf(h)[k] = v
  BY DEF Virtuals
<1>9. v \in Qubits /\ g.operands[i] \in Ops(g) /\ h.operands[k] \in Ops(h)
  BY <1>6, <1>7, <1>8 DEF Ops
<1>10. t.value[v] = "live"
  BY <1>9 DEF Effect
<1>11. t.content[h.operands[k]] = StateOf(v)
  BY <1>3, <1>5, <1>8, <1>10 DEF Fine
<1>12. h.operands[k] \in Qubits /\ h.operands[k] \notin Ops(g)
  BY <1>2, <1>9 DEF Separate
<1>13. s.content[h.operands[k]] = StateOf(v)
  BY <1>11, <1>12 DEF Effect
<1>14. s.value[v] = "live"
  BY <1>9, <1>12, <1>13 DEF Distinct
<1>15. s.content[g.operands[i]] = StateOf(v)
  BY <1>4, <1>5, <1>7, <1>14 DEF Fine
<1>16. g.operands[i] = h.operands[k]
  BY <1>1, <1>9, <1>12, <1>13, <1>15 DEF Distinct
<1> QED BY <1>9, <1>16 DEF Separate

LEMMA RunsCommute ==
  ASSUME job \in Jobs, ~Resets, NEW g \in MappedGates(job), NEW h \in MappedGates(job), Separate(g, h),
         Virtuals(g) \cap Virtuals(h) = {}, NEW s \in States
  PROVE  Run(Run(s, g), h) = Run(Run(s, h), g)
<1> DEFINE t == Effect(s, g)
           u == Effect(s, h)
<1>1. /\ Run(s, g) = t /\ t \in States /\ Run(s, h) = u /\ u \in States
      /\ Ops(g) \subseteq Qubits /\ Ops(h) \subseteq Qubits
  BY RunEffect
<1>2. Run(t, h) = Effect(t, h) /\ Run(u, g) = Effect(u, g)
  BY <1>1, RunEffect
<1>3. Virtuals(g) \subseteq Qubits /\ Virtuals(h) \subseteq Qubits
  <2>1. ASSUME NEW x \in MappedGates(job) PROVE Virtuals(x) \subseteq Qubits
    <3>1. CASE x.id = 0
      BY <3>1 DEF Virtuals, VirtualsOf
    <3>2. CASE x.id # 0
      BY <3>2, GateShape DEF Virtuals
    <3> QED BY <3>1, <3>2
  <2> QED BY <2>1
<1>4. Alike(s, t, h)
  BY <1>1, <1>3 DEF Alike, Effect, Separate
<1>5. Alike(s, u, g)
  BY <1>1, <1>3 DEF Alike, Effect, Separate
<1>6. /\ \A r \in Ops(h) : Put(s, h, r) = Put(t, h, r)
      /\ Fine(s, h) <=> Fine(t, h)
      /\ Pure(s, h) <=> Pure(t, h)
  BY <1>4, EffectLocal
<1>7. /\ \A r \in Ops(g) : Put(s, g, r) = Put(u, g, r)
      /\ Fine(s, g) <=> Fine(u, g)
      /\ Pure(s, g) <=> Pure(u, g)
  BY <1>5, EffectLocal
<1>8. [r \in Qubits |-> IF r \in Ops(h) THEN Put(t, h, r) ELSE t.content[r]]
        = [r \in Qubits |-> IF r \in Ops(g) THEN Put(u, g, r) ELSE u.content[r]]
  <2>1. \A r \in Qubits : (IF r \in Ops(h) THEN Put(t, h, r) ELSE t.content[r])
                            = IF r \in Ops(h) THEN Put(s, h, r) ELSE IF r \in Ops(g) THEN Put(s, g, r) ELSE s.content[r]
    BY <1>6 DEF Effect
  <2>2. \A r \in Qubits : (IF r \in Ops(g) THEN Put(u, g, r) ELSE u.content[r])
                            = IF r \in Ops(g) THEN Put(s, g, r) ELSE IF r \in Ops(h) THEN Put(s, h, r) ELSE s.content[r]
    BY <1>7 DEF Effect
  <2> HIDE DEF t, u
  <2> QED BY <2>1, <2>2 DEF Separate
<1>9. [v \in Qubits |-> IF v \in Virtuals(h) THEN "live" ELSE t.value[v]]
        = [v \in Qubits |-> IF v \in Virtuals(g) THEN "live" ELSE u.value[v]]
  BY DEF Effect
<1>10. t.ok = (s.ok /\ Fine(s, g)) /\ u.ok = (s.ok /\ Fine(s, h))
       /\ t.zeroes = (s.zeroes /\ Pure(s, g)) /\ u.zeroes = (s.zeroes /\ Pure(s, h))
  BY DEF Effect
<1> HIDE DEF t, u
<1>11. (t.ok /\ Fine(t, h)) = (u.ok /\ Fine(u, g)) /\ (t.zeroes /\ Pure(t, h)) = (u.zeroes /\ Pure(u, g))
  BY <1>6, <1>7, <1>10
<1>12. Effect(t, h) = Effect(u, g)
  BY <1>8, <1>9, <1>11 DEF Effect
<1> QED BY <1>1, <1>2, <1>12

-----------------------------------------------------------------------------
(* Replaying gates: the states on the way.                                 *)

\* Of a set, one element after the other is taken.
Folds(it, S, c, X, a, G) ==
  /\ it \in [SUBSET S -> X]
  /\ \A s \in SUBSET S : it[s] = IF s = {} THEN a ELSE G[<<it[s \ {c[s]}], c[s]>>]

LEMMA FoldsExist ==
  ASSUME NEW S, IsFiniteSet(S), NEW c, \A s \in SUBSET S : s # {} => c[s] \in s,
         NEW X, NEW a \in X, NEW G, \A x \in X, i \in S : G[<<x, i>>] \in X
  PROVE  \E it : Folds(it, S, c, X, a, G)
<1> DEFINE N == Cardinality(S)
           Y == [SUBSET S -> X]
           first == [s \in SUBSET S |-> a]
           next(it) == [s \in SUBSET S |-> IF s = {} THEN a ELSE G[<<it[s \ {c[s]}], c[s]>>]]
           H == [p \in Y \X (1 .. N) |-> next(p[1])]
<1>1. N \in Nat
  BY FS_CardinalityType
<1>2. ASSUME NEW it \in Y PROVE next(it) \in Y
  <2>1. ASSUME NEW s \in SUBSET S, s # {} PROVE G[<<it[s \ {c[s]}], c[s]>>] \in X
    <3>1. c[s] \in S /\ s \ {c[s]} \in SUBSET S
      BY <2>1
    <3>2. it[s \ {c[s]}] \in X
      BY <3>1
    <3> QED BY <3>1, <3>2
  <2> QED BY <2>1
<1>3. first \in Y
  OBVIOUS
<1>4. \A x \in Y, n \in 1 .. N : H[<<x, n>>] = next(x) /\ H[<<x, n>>] \in Y
  <2> HIDE DEF next, Y
  <2> QED BY <1>2
<1>5. PICK f : Iterates(f, N, Y, first, H)
  <2> HIDE DEF Y, H, N, first
  <2> QED BY <1>1, <1>3, <1>4, StepsExist
<1>6. f \in [0 .. N -> Y] /\ f[0] = first /\ \A n \in 1 .. N : f[n] = next(f[n - 1])
  <2>1. f \in [0 .. N -> Y] /\ f[0] = first /\ \A n \in 1 .. N : f[n] = H[<<f[n - 1], n>>]
    BY <1>5 DEF Iterates
  <2>2. \A n \in 1 .. N : f[n - 1] \in Y
    BY <1>1, <2>1
  <2> HIDE DEF H, Y, next
  <2> QED BY <1>4, <2>1, <2>2
<1> DEFINE it == [s \in SUBSET S |-> f[Cardinality(s)][s]]
<1>7. ASSUME NEW s \in SUBSET S
      PROVE  IsFiniteSet(s) /\ Cardinality(s) \in 0 .. N
  BY <1>1, FS_Subset, FS_CardinalityType
<1>8. it \in Y
  <2>1. \A s \in SUBSET S : f[Cardinality(s)] \in Y
    BY <1>6, <1>7
  <2> QED BY <2>1
<1>9. ASSUME NEW s \in SUBSET S
      PROVE  it[s] = IF s = {} THEN a ELSE G[<<it[s \ {c[s]}], c[s]>>]
  <2>1. CASE s = {}
    <3>1. Cardinality(s) = 0
      BY <2>1, FS_EmptySet
    <3> QED BY <1>6, <2>1, <3>1
  <2>2. CASE s # {}
    <3> DEFINE r == s \ {c[s]}
    <3>1. c[s] \in s /\ r \in SUBSET S
      BY <2>2
    <3>2. Cardinality(r) = Cardinality(s) - 1
      BY <1>7, <3>1, FS_RemoveElement
    <3>3. Cardinality(s) \in 1 .. N
      BY <1>7, <3>1, <3>2
    <3>4. f[Cardinality(s)] = next(f[Cardinality(s) - 1])
      BY <1>6, <3>3
    <3>5. it[r] = f[Cardinality(s) - 1][r]
      BY <3>1, <3>2
    <3> HIDE DEF r, it
    <3>6. it[s] = f[Cardinality(s)][s]
      BY DEF it
    <3> QED BY <2>2, <3>4, <3>5, <3>6 DEF r
  <2> QED BY <2>1, <2>2
<1> HIDE DEF it
<1> QED BY <1>8, <1>9 DEF Folds

\* The states on the way through a list of gates.
Trace(list, f) ==
  /\ f \in [0 .. Len(list) -> States] /\ f[0] = Start
  /\ \A n \in 1 .. Len(list) : f[n] = Run(f[n - 1], list[n])

LEMMA ReplaySteps ==
  ASSUME job \in Jobs, ~Resets, NEW list \in Seq(MappedGates(job))
  PROVE  \E f : Trace(list, f) /\ Replay(list) = f[Len(list)]
<1> DEFINE N == Len(list)
           S == DOMAIN list
           m(s) == CHOOSE x \in s : \A y \in s : x >= y
           c == [s \in SUBSET S |-> m(s)]
           G == [p \in States \X S |-> Run(p[1], list[p[2]])]
           Rule(it) == it = [s \in SUBSET S |-> IF s = {} THEN Start ELSE Run(it[s \ {m(s)}], list[m(s)])]
           it == CHOOSE it : Rule(it)
           f == [j \in 0 .. N |-> it[1 .. j]]
<1>1. Replay(list) = it[S]
  BY DEF Replay, FoldLeft, MapThenFoldSet, Max, Run
<1>2. S = 1 .. N /\ N \in Nat /\ IsFiniteSet(S) /\ S \in SUBSET (0 .. N) /\ \A i \in S : list[i] \in MappedGates(job)
  BY FS_Interval
<1>3. ASSUME NEW s \in SUBSET S, s # {}
      PROVE  c[s] \in s /\ c[s] = m(s)
  <2>1. \E x \in s : \A y \in s : y <= x
    BY <1>2, <1>3, FirstAndLast
  <2>2. \A x, y \in s : y <= x <=> x >= y
    BY <1>2
  <2> QED BY <2>1, <2>2
<1>4. \A j \in 1 .. N : m(1 .. j) = j
  <2> TAKE j \in 1 .. N
  <2>1. \A x \in 1 .. j : (\A y \in 1 .. j : x >= y) <=> x = j
    OBVIOUS
  <2> QED BY <2>1
<1>5. \A x \in States, i \in S : G[<<x, i>>] = Run(x, list[i]) /\ G[<<x, i>>] \in States
  BY <1>2, RunEffect
<1>6. PICK jt : Folds(jt, S, c, States, Start, G)
  <2>1. Start \in States /\ \A s \in SUBSET S : s # {} => c[s] \in s
    BY <1>3, StartTyped
  <2>2. \A x \in States, i \in S : G[<<x, i>>] \in States
    BY <1>5
  <2> HIDE DEF S, G, c
  <2> QED BY <1>2, <2>1, <2>2, FoldsExist
<1>7. Rule(jt)
  <2>1. ASSUME NEW s \in SUBSET S
        PROVE  jt[s] = IF s = {} THEN Start ELSE Run(jt[s \ {m(s)}], list[m(s)])
    <3>1. jt[s] = IF s = {} THEN Start ELSE G[<<jt[s \ {c[s]}], c[s]>>]
      BY <1>6 DEF Folds
    <3>2. CASE s = {}
      BY <3>1, <3>2
    <3>3. CASE s # {}
      <4>1. c[s] \in S /\ c[s] = m(s) /\ s \ {c[s]} \in SUBSET S
        BY <1>3, <3>3
      <4>2. jt[s \ {c[s]}] \in States
        BY <1>6, <4>1 DEF Folds
      <4> HIDE DEF G, c, m, S
      <4> QED BY <1>5, <3>1, <3>3, <4>1, <4>2
    <3> QED BY <3>2, <3>3
  <2> HIDE DEF m
  <2>2. jt = [s \in SUBSET S |-> jt[s]]
    BY <1>6 DEF Folds
  <2> QED BY <2>1, <2>2
<1>8. Rule(it)
  <2> HIDE DEF Rule
  <2> QED BY <1>7
<1> HIDE DEF it, m
<1>9. \A s \in SUBSET S : s # {} => m(s) \in s
  BY <1>3
<1>10. f[0] = Start
  <2>1. 1 .. 0 = {} /\ {} \in SUBSET S
    OBVIOUS
  <2> QED BY <1>2, <1>8, <2>1
<1>11. ASSUME NEW j \in 1 .. N
      PROVE  f[j] = Run(f[j - 1], list[j])
  <2>1. /\ 1 .. j \in SUBSET S /\ 1 .. j # {} /\ (1 .. j) \ {j} = 1 .. j - 1
        /\ j \in 0 .. N /\ j - 1 \in 0 .. N
    <3>1. j \in Nat /\ 1 <= j /\ j <= N
      BY <1>2
    <3>2. \A i : i \in (1 .. j) \ {j} <=> i \in 1 .. j - 1
      BY <3>1
    <3>3. (1 .. j) \ {j} = 1 .. j - 1
      BY <3>2
    <3>4. 1 .. j \in SUBSET S
      BY <1>2, <3>1
    <3>5. j \in 1 .. j
      BY <3>1
    <3>6. j \in 0 .. N /\ j - 1 \in 0 .. N
      BY <1>2, <3>1
    <3> QED BY <3>3, <3>4, <3>5, <3>6
  <2>2. it[1 .. j] = Run(it[1 .. j - 1], list[j])
    BY <1>4, <1>8, <2>1
  <2> QED BY <2>1, <2>2
<1>12. it[S] = f[N]
  BY <1>2
<1> HIDE DEF f, S, N
<1>13. f[0] \in States
  BY <1>10, StartTyped
<1>14. \A n \in 0 .. N : f[n] \in States
  <2> DEFINE T == {n \in 0 .. N : f[n] \in States}
  <2>1. 0 \in T
    BY <1>2, <1>13
  <2>2. ASSUME NEW n \in 0 .. N, n < N, n \in T PROVE n + 1 \in T
    <3>1. n + 1 \in 1 .. N /\ (n + 1) - 1 = n
      BY <1>2, <2>2
    <3>2. f[n + 1] = Run(f[n], list[n + 1])
      BY <1>11, <3>1
    <3>3. list[n + 1] \in MappedGates(job)
      BY <1>2, <3>1
    <3> QED BY <2>2, <3>1, <3>2, <3>3, RunEffect
  <2> HIDE DEF T
  <2>3. \A n \in 0 .. N : n \in T
    BY <1>2, <2>1, <2>2, StepByStep
  <2> QED BY <2>3 DEF T
<1>15. f \in [0 .. N -> States]
  <2>1. f = [j \in 0 .. N |-> f[j]]
    BY DEF f
  <2> QED BY <1>14, <2>1
<1> QED BY <1>1, <1>10, <1>11, <1>12, <1>15 DEF Trace, N

LEMMA TraceEnds ==
  ASSUME job \in Jobs, ~Resets, NEW list \in Seq(MappedGates(job)), NEW f, Trace(list, f),
         NEW m \in 0 .. Len(list), NEW h, h[0] = Start, \A n \in 1 .. m : h[n] = Run(h[n - 1], list[n])
  PROVE  \A n \in 0 .. m : h[n] = f[n]
<1> DEFINE T == {n \in 0 .. m : h[n] = f[n]}
<1>1. m \in Nat /\ f[0] = Start /\ \A n \in 1 .. m : f[n] = Run(f[n - 1], list[n])
  BY DEF Trace
<1>2. 0 \in T
  BY <1>1
<1>3. ASSUME NEW n \in 0 .. m, n < m, n \in T PROVE n + 1 \in T
  <2>1. n + 1 \in 1 .. m /\ (n + 1) - 1 = n
    BY <1>1, <1>3
  <2>2. h[n + 1] = Run(h[n], list[n + 1]) /\ f[n + 1] = Run(f[n], list[n + 1]) /\ h[n] = f[n]
    BY <1>1, <1>3, <2>1
  <2> QED BY <2>1, <2>2
<1> HIDE DEF T
<1>4. \A n \in 0 .. m : n \in T
  BY <1>1, <1>2, <1>3, StepByStep
<1> QED BY <1>4 DEF T

\* Every trace ends like the replay.
LEMMA TraceReplay ==
  ASSUME job \in Jobs, ~Resets, NEW list \in Seq(MappedGates(job)), NEW f, Trace(list, f)
  PROVE  f[Len(list)] = Replay(list)
<1>1. PICK h : Trace(list, h) /\ Replay(list) = h[Len(list)]
  BY ReplaySteps
<1>2. Len(list) \in 0 .. Len(list) /\ f[0] = Start /\ \A n \in 1 .. Len(list) : f[n] = Run(f[n - 1], list[n])
  BY DEF Trace
<1>3. \A n \in 0 .. Len(list) : f[n] = h[n]
  BY <1>1, <1>2, TraceEnds
<1> QED BY <1>1, <1>2, <1>3

LEMMA RunOk ==
  ASSUME job \in Jobs, ~Resets, NEW g \in MappedGates(job), NEW s \in States
  PROVE  /\ Run(s, g).ok = (s.ok /\ Fine(s, g)) /\ Run(s, g).zeroes = (s.zeroes /\ Pure(s, g))
         /\ Run(s, g).ok => s.ok
<1>1. Run(s, g) = Effect(s, g)
  BY RunEffect
<1>2. Effect(s, g).ok = (s.ok /\ Fine(s, g)) /\ Effect(s, g).zeroes = (s.zeroes /\ Pure(s, g))
  BY DEF Effect
<1>3. Run(s, g).ok = (s.ok /\ Fine(s, g)) /\ Run(s, g).zeroes = (s.zeroes /\ Pure(s, g))
  BY <1>1, <1>2
<1> QED BY <1>3

\* When all is well in the end, it is on the way.
LEMMA TraceSound ==
  ASSUME job \in Jobs, ~Resets, NEW list \in Seq(MappedGates(job)), NEW f, Trace(list, f), f[Len(list)].ok
  PROVE  \A n \in 0 .. Len(list) : f[n] \in States /\ f[n].ok /\ Distinct(f[n])
<1> DEFINE N == Len(list)
<1>1. N \in Nat /\ f \in [0 .. N -> States] /\ f[0] = Start
      /\ \A n \in 1 .. N : f[n] = Run(f[n - 1], list[n]) /\ list[n] \in MappedGates(job)
  BY DEF Trace
<1>2. f[N].ok
  OBVIOUS
<1> HIDE DEF N
<1> DEFINE T == {n \in 0 .. N : f[N - n].ok}
           D == {n \in 0 .. N : Distinct(f[n])}
<1>3. 0 \in T
  BY <1>1, <1>2
<1>4. ASSUME NEW n \in 0 .. N, n < N, n \in T PROVE n + 1 \in T
  <2>1. N - n \in 1 .. N /\ (N - n) - 1 = N - (n + 1) /\ N - (n + 1) \in 0 .. N /\ n + 1 \in 0 .. N
    BY <1>1, <1>4
  <2>2. f[N - n] = Run(f[N - (n + 1)], list[N - n]) /\ list[N - n] \in MappedGates(job) /\ f[N - (n + 1)] \in States
    BY <1>1, <2>1
  <2>3. Run(f[N - (n + 1)], list[N - n]).ok
    BY <1>4, <2>2
  <2> QED BY <2>1, <2>2, <2>3, RunOk
<1>5. \A n \in 0 .. N : n \in T
  <2> HIDE DEF T
  <2> QED BY <1>1, <1>3, <1>4, StepByStep
<1>6. ASSUME NEW n \in 0 .. N PROVE f[n].ok /\ f[n] \in States
  <2>1. N - n \in 0 .. N /\ N - (N - n) = n
    BY <1>1
  <2>2. N - n \in T
    BY <1>5, <2>1
  <2> QED BY <1>1, <2>1, <2>2
<1> HIDE DEF T
<1>7. 0 \in D
  BY <1>1, StartDistinct
<1>8. ASSUME NEW n \in 0 .. N, n < N, n \in D PROVE n + 1 \in D
  <2>1. n + 1 \in 1 .. N /\ n + 1 \in 0 .. N /\ (n + 1) - 1 = n
    BY <1>1, <1>8
  <2>2. f[n + 1] = Run(f[n], list[n + 1]) /\ list[n + 1] \in MappedGates(job) /\ f[n] \in States
    BY <1>1, <2>1
  <2>3. Run(f[n], list[n + 1]).ok /\ Distinct(f[n])
    BY <1>6, <1>8, <2>1, <2>2
  <2> QED BY <2>1, <2>2, <2>3, RunDistinct
<1>9. \A n \in 0 .. N : n \in D
  <2> HIDE DEF D
  <2> QED BY <1>1, <1>7, <1>8, StepByStep
<1> QED BY <1>6, <1>9 DEF N

\* A list and what follows it.
LEMMA ReplayFirst ==
  ASSUME job \in Jobs, ~Resets, NEW list \in Seq(MappedGates(job)), NEW rest \in Seq(MappedGates(job)),
         NEW f, Trace(list \o rest, f)
  PROVE  Len(list) \in 0 .. Len(list \o rest) /\ f[Len(list)] = Replay(list)
<1> DEFINE all == list \o rest
           N == Len(list)
<1>1. all \in Seq(MappedGates(job)) /\ Len(all) = N + Len(rest) /\ \A k \in 1 .. N : all[k] = list[k]
  BY Joining
<1>2. N \in Nat /\ Len(rest) \in Nat /\ N \in 0 .. Len(all)
  BY <1>1
<1>3. PICK h : Trace(list, h) /\ Replay(list) = h[N]
  BY ReplaySteps
<1>4. h[0] = Start /\ \A n \in 1 .. N : h[n] = Run(h[n - 1], all[n])
  BY <1>1, <1>3 DEF Trace
<1>7. Trace(all, f)
  OBVIOUS
<1> HIDE DEF all, N
<1>5. \A n \in 0 .. N : h[n] = f[n]
  <2>1. /\ job \in Jobs /\ ~Resets /\ all \in Seq(MappedGates(job)) /\ Trace(all, f) /\ N \in 0 .. Len(all)
        /\ h[0] = Start /\ \A n \in 1 .. N : h[n] = Run(h[n - 1], all[n])
    BY <1>1, <1>2, <1>4, <1>7
  <2> QED BY ONLY <2>1, TraceEnds, ZenonT(60)
<1>6. N \in 0 .. N
  BY <1>2
<1> QED BY <1>2, <1>3, <1>5, <1>6 DEF all, N

LEMMA ReplayBefore ==
  ASSUME job \in Jobs, ~Resets, NEW list \in Seq(MappedGates(job)), NEW rest \in Seq(MappedGates(job)),
         Replay(list \o rest).ok
  PROVE  Replay(list) \in States /\ Replay(list).ok /\ Distinct(Replay(list))
<1> DEFINE all == list \o rest
<1>1. all \in Seq(MappedGates(job))
  BY Joining
<1>2. PICK f : Trace(all, f) /\ Replay(all) = f[Len(all)]
  BY <1>1, ReplaySteps
<1>3. Len(list) \in 0 .. Len(all) /\ f[Len(list)] = Replay(list)
  BY <1>2, ReplayFirst
<1>4. f[Len(all)].ok
  BY <1>2
<1> HIDE DEF all
<1>5. \A n \in 0 .. Len(all) : f[n] \in States /\ f[n].ok /\ Distinct(f[n])
  BY <1>1, <1>2, <1>4, TraceSound
<1> QED BY <1>3, <1>5

LEMMA ReplayNext ==
  ASSUME job \in Jobs, ~Resets, NEW list \in Seq(MappedGates(job)), NEW g \in MappedGates(job)
  PROVE  Replay(list \o <<g>>) = Run(Replay(list), g) /\ Replay(list) \in States
<1>1. <<g>> \in Seq(MappedGates(job)) /\ Len(<<g>>) = 1 /\ <<g>>[1] = g
  OBVIOUS
<1>2. list \o <<g>> \in Seq(MappedGates(job)) /\ Len(list \o <<g>>) = Len(list) + 1 /\ (list \o <<g>>)[Len(list) + 1] = g
  BY <1>1, Joining
<1>3. PICK f : Trace(list \o <<g>>, f) /\ Replay(list \o <<g>>) = f[Len(list \o <<g>>)]
  BY <1>2, ReplaySteps
<1>4. Len(list) \in 0 .. Len(list \o <<g>>) /\ f[Len(list)] = Replay(list)
  BY <1>1, <1>3, ReplayFirst
<1>5. Len(list) \in Nat /\ Len(list) + 1 \in 1 .. Len(list \o <<g>>) /\ (Len(list) + 1) - 1 = Len(list)
  BY <1>2
<1>6. f[Len(list) + 1] = Run(f[Len(list)], g) /\ f[Len(list)] \in States
  BY <1>2, <1>3, <1>4, <1>5 DEF Trace
<1> QED BY <1>2, <1>3, <1>4, <1>6

-----------------------------------------------------------------------------
(* Replaying gates: another order.                                         *)

Exchanged(list, k) == [list EXCEPT ![k] = list[k + 1], ![k + 1] = list[k]]

LEMMA ExchangedReplay ==
  ASSUME job \in Jobs, ~Resets, NEW list \in Seq(MappedGates(job)), NEW k \in 1 .. Len(list) - 1,
         Separate(list[k], list[k + 1]), Replay(list).ok
  PROVE  /\ Exchanged(list, k) \in Seq(MappedGates(job)) /\ Len(Exchanged(list, k)) = Len(list)
         /\ Replay(Exchanged(list, k)) = Replay(list)
         /\ Virtuals(list[k]) \cap Virtuals(list[k + 1]) = {}
<1> DEFINE N == Len(list)
           new == Exchanged(list, k)
           g == list[k]
           h == list[k + 1]
<1>1. N \in Nat /\ k \in 1 .. N /\ k + 1 \in 1 .. N /\ k \in Nat /\ g \in MappedGates(job) /\ h \in MappedGates(job)
  OBVIOUS
<1>2. /\ new \in Seq(MappedGates(job)) /\ Len(new) = N
      /\ new[k] = h /\ new[k + 1] = g /\ \A n \in 1 .. N : n # k /\ n # k + 1 => new[n] = list[n]
  BY <1>1 DEF Exchanged
<1>3. PICK f : Trace(list, f) /\ Replay(list) = f[N]
  BY ReplaySteps
<1>4. \A n \in 0 .. N : f[n] \in States /\ f[n].ok /\ Distinct(f[n])
  BY <1>3, TraceSound
<1>5. f \in [0 .. N -> States] /\ f[0] = Start /\ \A n \in 1 .. N : f[n] = Run(f[n - 1], list[n])
  BY <1>3 DEF Trace
<1>6. k - 1 \in 0 .. N /\ k \in 0 .. N /\ k + 1 \in 0 .. N /\ (k + 1) - 1 = k
  BY <1>1
<1>7. f[k] = Run(f[k - 1], g) /\ f[k + 1] = Run(f[k], h)
  BY <1>1, <1>5, <1>6
<1> DEFINE s == f[k - 1]
           e == [f EXCEPT ![k] = Run(s, h)]
<1>8. s \in States /\ Distinct(s) /\ Run(Run(s, g), h).ok
  BY <1>4, <1>6, <1>7
<1> HIDE DEF s, g, h, new, N
<1>9. Virtuals(g) \cap Virtuals(h) = {}
  BY <1>1, <1>8, ApartVirtuals DEF g, h
<1>10. Run(Run(s, g), h) = Run(Run(s, h), g)
  BY <1>1, <1>8, <1>9, RunsCommute DEF g, h
<1>11. Run(s, h) \in States
  BY <1>1, <1>8, RunEffect
<1>12. e \in [0 .. N -> States] /\ e[k] = Run(s, h) /\ \A n \in 0 .. N : n # k => e[n] = f[n]
  BY <1>5, <1>6, <1>11
<1> HIDE DEF e
<1>13. ASSUME NEW n \in 1 .. N PROVE e[n] = Run(e[n - 1], new[n])
  <2>1. n - 1 \in 0 .. N /\ n \in 0 .. N /\ n \in Nat
    BY <1>1
  <2>2. CASE n = k
    <3>1. n - 1 # k
      BY <1>1, <2>2
    <3> QED BY <1>2, <1>12, <2>1, <2>2, <3>1 DEF s
  <2>3. CASE n = k + 1
    <3>1. n # k /\ n - 1 = k
      BY <1>1, <2>3
    <3> QED BY <1>2, <1>7, <1>10, <1>12, <2>1, <2>3, <3>1 DEF s
  <2>4. CASE n # k /\ n # k + 1
    <3>1. n - 1 # k
      BY <1>1, <2>1, <2>4
    <3> QED BY <1>2, <1>5, <1>12, <2>1, <2>4, <3>1
  <2> QED BY <2>2, <2>3, <2>4
<1>14. e[0] = Start /\ e[N] = f[N]
  <2>1. 0 # k /\ N # k /\ 0 \in 0 .. N /\ N \in 0 .. N
    BY <1>1
  <2> QED BY <1>5, <1>12, <2>1
<1>15. Trace(new, e)
  BY <1>2, <1>12, <1>13, <1>14 DEF Trace
<1>16. Replay(new) = e[N]
  BY <1>2, <1>15, TraceReplay
<1> QED BY <1>2, <1>3, <1>9, <1>14, <1>16 DEF N, g, h, new

\* What is at p moves to the front, to at.
MovedTo(list, p, at) ==
  [k \in DOMAIN list |-> IF k < at THEN list[k] ELSE IF k = at THEN list[p] ELSE IF k <= p THEN list[k - 1] ELSE list[k]]

LEMMA MovedList ==
  ASSUME NEW S, NEW list \in Seq(S), NEW p \in 1 .. Len(list), NEW at \in 1 .. p
  PROVE  /\ MovedTo(list, p, at) \in Seq(S) /\ Len(MovedTo(list, p, at)) = Len(list)
         /\ DOMAIN MovedTo(list, p, at) = 1 .. Len(list)
         /\ \A k \in 1 .. Len(list) : MovedTo(list, p, at)[k] =
              IF k < at THEN list[k] ELSE IF k = at THEN list[p] ELSE IF k <= p THEN list[k - 1] ELSE list[k]
<1> DEFINE N == Len(list)
           new == MovedTo(list, p, at)
<1>1. N \in Nat /\ DOMAIN list = 1 .. N /\ \A k \in 1 .. N : list[k] \in S
  OBVIOUS
<1>2. \A k \in 1 .. N : new[k] = IF k < at THEN list[k] ELSE IF k = at THEN list[p] ELSE IF k <= p THEN list[k - 1] ELSE list[k]
  BY <1>1 DEF MovedTo
<1>3. DOMAIN new = 1 .. N /\ new = [k \in 1 .. N |-> new[k]]
  BY <1>1 DEF MovedTo
<1>4. \A k \in 1 .. N : new[k] \in S
  <2> SUFFICES ASSUME NEW k \in 1 .. N PROVE new[k] \in S
    OBVIOUS
  <2>1. at <= k /\ k # at /\ k <= p => k - 1 \in 1 .. N
    BY <1>1
  <2>2. p \in 1 .. N
    OBVIOUS
  <2> QED BY <1>1, <1>2, <2>1, <2>2
<1> HIDE DEF new, N
<1>5. new \in Seq(S) /\ Len(new) = N
  BY <1>1, <1>3, <1>4
<1> QED BY <1>2, <1>3, <1>5 DEF new, N

LEMMA MovedReplay ==
  ASSUME job \in Jobs, ~Resets, NEW list \in Seq(MappedGates(job)), NEW p \in 1 .. Len(list), NEW at \in 1 .. p,
         \A k \in at .. p - 1 : Separate(list[k], list[p]), Replay(list).ok
  PROVE  /\ Replay(MovedTo(list, p, at)) = Replay(list)
         /\ \A k \in at .. p - 1 : Virtuals(list[k]) \cap Virtuals(list[p]) = {}
<1> DEFINE M == p - at
           T == {j \in 0 .. M : /\ Replay(MovedTo(list, p, p - j)) = Replay(list)
                                /\ \A k \in p - j .. p - 1 : Virtuals(list[k]) \cap Virtuals(list[p]) = {}}
<1>1. M \in Nat /\ p \in Nat /\ at \in Nat /\ 1 <= at /\ at <= p /\ p <= Len(list) /\ Len(list) \in Nat
  OBVIOUS
<1>2. 0 \in T
  <2>1. MovedTo(list, p, p) = list
    <3>1. \A k \in DOMAIN list : k \in Int
      OBVIOUS
    <3>2. \A k \in DOMAIN list : (IF k < p THEN list[k] ELSE IF k = p THEN list[p] ELSE IF k <= p THEN list[k - 1] ELSE list[k]) = list[k]
      BY <1>1, <3>1
    <3> QED BY <3>2 DEF MovedTo
  <2>2. p - 0 = p /\ p .. p - 1 = {}
    BY <1>1
  <2> QED BY <1>1, <2>1, <2>2
<1>3. ASSUME NEW j \in 0 .. M, j < M, j \in T PROVE j + 1 \in T
  <2> DEFINE k == p - (j + 1)
             old == MovedTo(list, p, p - j)
             new == MovedTo(list, p, k)
  <2>1. k \in Nat /\ at <= k /\ k < p /\ k + 1 = p - j /\ k \in 1 .. Len(list) - 1 /\ k + 1 \in 1 .. p /\ k \in 1 .. p
        /\ j + 1 \in 0 .. M /\ k \in at .. p - 1 /\ k \in 1 .. Len(list) /\ k + 1 \in 1 .. Len(list)
    BY <1>1, <1>3
  <2> HIDE DEF k
  <2>2. /\ old \in Seq(MappedGates(job)) /\ Len(old) = Len(list)
        /\ \A n \in 1 .. Len(list) : old[n] =
             IF n < k + 1 THEN list[n] ELSE IF n = k + 1 THEN list[p] ELSE IF n <= p THEN list[n - 1] ELSE list[n]
    <3>1. list \in Seq(MappedGates(job)) /\ p \in 1 .. Len(list) /\ k + 1 \in 1 .. p
      BY <2>1
    <3> DEFINE m == k + 1
    <3>2. m \in 1 .. p
      BY <3>1
    <3> HIDE DEF m
    <3>3. /\ MovedTo(list, p, m) \in Seq(MappedGates(job)) /\ Len(MovedTo(list, p, m)) = Len(list)
          /\ \A n \in 1 .. Len(list) : MovedTo(list, p, m)[n] =
               IF n < m THEN list[n] ELSE IF n = m THEN list[p] ELSE IF n <= p THEN list[n - 1] ELSE list[n]
      BY ONLY <3>1, <3>2, MovedList
    <3>4. old = MovedTo(list, p, m)
      BY <2>1 DEF m
    <3> HIDE DEF old
    <3> QED BY ONLY <3>3, <3>4 DEF m
  <2>3. /\ new \in Seq(MappedGates(job)) /\ Len(new) = Len(list)
        /\ \A n \in 1 .. Len(list) : new[n] =
             IF n < k THEN list[n] ELSE IF n = k THEN list[p] ELSE IF n <= p THEN list[n - 1] ELSE list[n]
    <3>1. list \in Seq(MappedGates(job)) /\ p \in 1 .. Len(list) /\ k \in 1 .. p
      BY <2>1
    <3> QED BY ONLY <3>1, MovedList
  <2>4. Replay(old) = Replay(list) /\ \A n \in p - j .. p - 1 : Virtuals(list[n]) \cap Virtuals(list[p]) = {}
    BY <1>3
  <2> HIDE DEF old, new
  <2>5. old[k] = list[k] /\ old[k + 1] = list[p]
    BY <2>1, <2>2
  <2>6. k \in 1 .. Len(old) - 1 /\ Separate(old[k], old[k + 1])
    BY <2>1, <2>2, <2>5
  <2>7. Replay(old).ok
    BY <2>4
  <2>8. /\ Exchanged(old, k) \in Seq(MappedGates(job)) /\ Len(Exchanged(old, k)) = Len(old)
        /\ Replay(Exchanged(old, k)) = Replay(old)
        /\ Virtuals(old[k]) \cap Virtuals(old[k + 1]) = {}
    BY <2>2, <2>6, <2>7, ExchangedReplay
  <2>9. Exchanged(old, k) = new
    <3>1. \A n \in 1 .. Len(list) : Exchanged(old, k)[n] = new[n]
      <4> SUFFICES ASSUME NEW n \in 1 .. Len(list) PROVE Exchanged(old, k)[n] = new[n]
        OBVIOUS
      <4>1. n \in DOMAIN old /\ k \in DOMAIN old /\ k + 1 \in DOMAIN old
        BY <2>1, <2>2
      <4>2. Exchanged(old, k)[n] = IF n = k + 1 THEN old[k] ELSE IF n = k THEN old[k + 1] ELSE old[n]
        BY <2>1, <4>1 DEF Exchanged
      <4>3. n = k + 1 => new[n] = list[k]
        BY <2>1, <2>3
      <4>4. n = k => new[n] = list[p]
        BY <2>1, <2>3
      <4>5. n # k /\ n # k + 1 => new[n] = old[n]
        BY <2>1, <2>2, <2>3
      <4> QED BY <2>1, <2>5, <4>2, <4>3, <4>4, <4>5
    <3> DEFINE ex == Exchanged(old, k)
    <3>2. ex \in Seq(MappedGates(job)) /\ Len(ex) = Len(list) /\ \A n \in 1 .. Len(list) : ex[n] = new[n]
      BY <2>2, <2>8, <3>1
    <3> HIDE DEF ex
    <3>3. ex = new
      <4>1. ex = [n \in 1 .. Len(list) |-> ex[n]] /\ new = [n \in 1 .. Len(list) |-> new[n]]
        BY <2>3, <3>2
      <4> QED BY <3>2, <4>1
    <3> QED BY <3>3 DEF ex
  <2>10. \A n \in k .. p - 1 : n = k \/ n \in p - j .. p - 1
    BY <2>1
  <2>11. Replay(new) = Replay(list) /\ \A n \in k .. p - 1 : Virtuals(list[n]) \cap Virtuals(list[p]) = {}
    BY <2>4, <2>5, <2>8, <2>9, <2>10
  <2> QED BY <2>1, <2>11 DEF k, new
<1> HIDE DEF T
<1>4. \A j \in 0 .. M : j \in T
  BY <1>1, <1>2, <1>3, StepByStep
<1>5. M \in T /\ p - M = at
  BY <1>1, <1>4
<1> HIDE DEF M
<1> QED BY <1>5 DEF T

-----------------------------------------------------------------------------
(* What the mapper has in hand, in one line: output, gates in their order, *)
(* waiting gates, and those still to come.                                 *)

Line(q, rest) ==
  LET a == Len(q.output)  b == Len(q.gates)  c == Len(q.waiting)
  IN [k \in 1 .. a + b + c + Len(rest) |->
        IF k <= a THEN q.output[k].gate
        ELSE IF k <= a + b THEN q.gates[k - a].gate
        ELSE IF k <= a + b + c THEN q.waiting[k - (a + b)] ELSE rest[k - (a + b + c)]]

Parts(list, q, rest, a, b, c, d) ==
  /\ a = Len(q.output) /\ b = Len(q.gates) /\ c = Len(q.waiting) /\ d = Len(rest)
  /\ a \in Nat /\ b \in Nat /\ c \in Nat /\ d \in Nat
  /\ Len(list) = a + b + c + d
  /\ \A k \in 1 .. a : list[k] = q.output[k].gate
  /\ \A k \in 1 .. b : list[a + k] = q.gates[k].gate
  /\ \A k \in 1 .. c : list[a + b + k] = q.waiting[k]
  /\ \A k \in 1 .. d : list[a + b + c + k] = rest[k]

LEMMA LineFacts ==
  ASSUME NEW G, NEW q \in Pasts(G), NEW rest \in Seq(G)
  PROVE  /\ Line(q, rest) \in Seq(G)
         /\ Parts(Line(q, rest), q, rest, Len(q.output), Len(q.gates), Len(q.waiting), Len(rest))
<1> DEFINE L == Line(q, rest)
           a == Len(q.output)
           b == Len(q.gates)
           c == Len(q.waiting)
           d == Len(rest)
           N == a + b + c + d
           item(k) == IF k <= a THEN q.output[k].gate
                      ELSE IF k <= a + b THEN q.gates[k - a].gate
                      ELSE IF k <= a + b + c THEN q.waiting[k - (a + b)] ELSE rest[k - (a + b + c)]
<1>0. a \in Nat /\ b \in Nat /\ c \in Nat /\ d \in Nat
  <2>1. q.output \in Seq(Placed(G)) /\ q.gates \in Seq(Placed(G)) /\ q.waiting \in Seq(G)
    BY DEF Pasts
  <2> QED BY <2>1
<1>1. /\ \A k \in 1 .. a : q.output[k].gate \in G
      /\ \A k \in 1 .. b : q.gates[k].gate \in G
      /\ \A k \in 1 .. c : q.waiting[k] \in G
      /\ \A k \in 1 .. d : rest[k] \in G
  <2>1. q.output \in Seq(Placed(G)) /\ q.gates \in Seq(Placed(G)) /\ q.waiting \in Seq(G)
    BY DEF Pasts
  <2>2. \A x \in Placed(G) : x.gate \in G
    BY DEF Placed
  <2> QED BY <2>1, <2>2
<1>2. L = [k \in 1 .. N |-> item(k)]
  BY DEF Line
<1> HIDE DEF L, a, b, c, d
<1>3. ASSUME NEW k \in 1 .. N PROVE item(k) \in G
  <2>1. CASE k <= a
    BY <1>1, <2>1
  <2>2. CASE ~(k <= a) /\ k <= a + b
    <3>1. k - a \in 1 .. b
      BY ONLY <1>0, <2>2, k \in 1 .. N
    <3> QED BY <1>1, <2>2, <3>1
  <2>3. CASE ~(k <= a) /\ ~(k <= a + b) /\ k <= a + b + c
    <3>1. k - (a + b) \in 1 .. c
      BY ONLY <1>0, <2>3, k \in 1 .. N
    <3> QED BY <1>1, <2>3, <3>1
  <2>4. CASE ~(k <= a) /\ ~(k <= a + b) /\ ~(k <= a + b + c)
    <3>1. k - (a + b + c) \in 1 .. d
      BY ONLY <1>0, <2>4, k \in 1 .. N
    <3> QED BY <1>1, <2>4, <3>1
  <2> QED BY <2>1, <2>2, <2>3, <2>4
<1>4. N \in Nat
  BY ONLY <1>0
<1>5. L \in Seq(G) /\ Len(L) = N /\ DOMAIN L = 1 .. N
  <2> HIDE DEF item, N
  <2> QED BY <1>2, <1>3, <1>4
<1>6. \A k \in 1 .. a : k \in 1 .. N /\ item(k) = q.output[k].gate
  <2> SUFFICES ASSUME NEW k \in 1 .. a PROVE k \in 1 .. N /\ item(k) = q.output[k].gate
    OBVIOUS
  <2>1. k <= a /\ k \in 1 .. N
    BY ONLY <1>0, k \in 1 .. a
  <2> QED BY <2>1
<1>7. \A k \in 1 .. b : a + k \in 1 .. N /\ item(a + k) = q.gates[k].gate
  <2> SUFFICES ASSUME NEW k \in 1 .. b PROVE a + k \in 1 .. N /\ item(a + k) = q.gates[k].gate
    OBVIOUS
  <2>1. ~(a + k <= a) /\ a + k <= a + b /\ (a + k) - a = k /\ a + k \in 1 .. N
    BY ONLY <1>0, k \in 1 .. b
  <2> QED BY <2>1
<1>8. \A k \in 1 .. c : a + b + k \in 1 .. N /\ item(a + b + k) = q.waiting[k]
  <2> SUFFICES ASSUME NEW k \in 1 .. c PROVE a + b + k \in 1 .. N /\ item(a + b + k) = q.waiting[k]
    OBVIOUS
  <2>1. /\ ~(a + b + k <= a) /\ ~(a + b + k <= a + b) /\ a + b + k <= a + b + c /\ (a + b + k) - (a + b) = k
        /\ a + b + k \in 1 .. N
    BY ONLY <1>0, k \in 1 .. c
  <2> QED BY <2>1
<1>9. \A k \in 1 .. d : a + b + c + k \in 1 .. N /\ item(a + b + c + k) = rest[k]
  <2> SUFFICES ASSUME NEW k \in 1 .. d PROVE a + b + c + k \in 1 .. N /\ item(a + b + c + k) = rest[k]
    OBVIOUS
  <2>1. /\ ~(a + b + c + k <= a) /\ ~(a + b + c + k <= a + b) /\ ~(a + b + c + k <= a + b + c)
        /\ (a + b + c + k) - (a + b + c) = k /\ a + b + c + k \in 1 .. N
    BY ONLY <1>0, k \in 1 .. d
  <2> QED BY <2>1
<1>10. \A k \in 1 .. N : L[k] = item(k)
  BY <1>2
<1> HIDE DEF item, N
<1>11. Parts(L, q, rest, a, b, c, d)
  <2>1. a = Len(q.output) /\ b = Len(q.gates) /\ c = Len(q.waiting) /\ d = Len(rest)
    BY DEF a, b, c, d
  <2>2. Len(L) = a + b + c + d
    BY <1>5 DEF N
  <2> QED BY <1>0, <1>6, <1>7, <1>8, <1>9, <1>10, <2>1, <2>2 DEF Parts
<1> QED BY <1>5, <1>11 DEF L, a, b, c, d

\* Lists with the same elements are the same.
LEMMA SameLists ==
  ASSUME NEW S, NEW s \in Seq(S), NEW t \in Seq(S), Len(s) = Len(t), \A k \in 1 .. Len(s) : s[k] = t[k]
  PROVE  s = t
<1>1. s = [k \in 1 .. Len(s) |-> s[k]] /\ t = [k \in 1 .. Len(s) |-> t[k]]
  OBVIOUS
<1> QED BY <1>1

\* A position in such a line lies in one of its parts.
LEMMA FourParts ==
  ASSUME NEW a \in Nat, NEW b \in Nat, NEW c \in Nat, NEW d \in Nat, NEW n \in 1 .. a + b + c + d
  PROVE  \/ n \in 1 .. a
         \/ \E k \in 1 .. b : n = a + k
         \/ \E k \in 1 .. c : n = a + b + k
         \/ \E k \in 1 .. d : n = a + b + c + k
<1>1. n <= a => n \in 1 .. a
  OBVIOUS
<1>2. ~(n <= a) /\ n <= a + b => n - a \in 1 .. b /\ n = a + (n - a)
  OBVIOUS
<1>3. ~(n <= a + b) /\ n <= a + b + c => n - (a + b) \in 1 .. c /\ n = a + b + (n - (a + b))
  OBVIOUS
<1>4. ~(n <= a + b + c) => n - (a + b + c) \in 1 .. d /\ n = a + b + c + (n - (a + b + c))
  OBVIOUS
<1> QED BY <1>1, <1>2, <1>3, <1>4

\* Nothing is free before what has been scheduled ends.
FcBound(q) ==
  \A k \in DOMAIN q.gates : \A x \in Written(q.gates[k].gate) :
    q.gates[k].cycle + Duration[q.gates[k].gate.name] <= q.fc.fcv[x]

\* A gate that is scheduled moves to the front, past gates that have nothing to do with it.
Hurried(q, n, rest, p, at) ==
  /\ p \in 1 .. Len(Line(q, rest)) /\ at \in 1 .. p
  /\ Line(n, rest) = MovedTo(Line(q, rest), p, at)
  /\ \A k \in at .. p - 1 : Written(Line(q, rest)[k]) \cap Awaited(Line(q, rest)[p]) = {}

LEMMA LinePlaced ==
  ASSUME NEW G \in SUBSET RealGates, NEW q \in Pasts(G), FcBound(q), NEW rest \in Seq(G), NEW o,
         NEW i, NEW start, MayPlace(q, i, start)
  PROVE  FcBound(Place(q, i, start, o)) /\ \E p, at : Hurried(q, Place(q, i, start, o), rest, p, at)
<1> DEFINE n == Place(q, i, start, o)
           w == q.waiting
           g == q.gates
           e == [gate |-> w[i], cycle |-> start]
           a == Len(q.output)
           b == Len(g)
           c == Len(w)
           d == Len(rest)
<1>1. /\ i \in 1 .. c /\ start \in Nat
      /\ \A x \in Awaited(w[i]) : q.fc.fcv[x] <= start
      /\ \A k \in 1 .. i - 1 : Written(w[k]) \cap Awaited(w[i]) = {}
  BY DEF MayPlace
<1>2. n \in Pasts(G) /\ Moved(q, i, start, o, n)
  BY <1>1, PlaceFacts
<1>3. PICK j \in 1 .. b + 1 : n.gates = InsertAt(g, j, e) /\ \A k \in j .. b : g[k].cycle > start
  BY <1>2 DEF Moved
<1>4. n.waiting = RemoveAt(w, i) /\ n.output = q.output /\ n.fc = AddFc(q.fc, w[i], start, o)
  BY <1>2 DEF Moved
<1>5. /\ w \in Seq(G) /\ g \in Seq(Placed(G)) /\ q.fc \in FreeCycles /\ q.output \in Seq(Placed(G))
      /\ n.waiting \in Seq(G) /\ n.gates \in Seq(Placed(G))
  BY <1>2 DEF Pasts
<1>6. /\ a \in Nat /\ b \in Nat /\ c \in Nat /\ d \in Nat /\ w[i] \in G /\ w[i] \in RealGates
      /\ \A k \in 1 .. b : g[k].gate \in RealGates /\ g[k].cycle \in Nat
  <2>1. \A x \in Placed(G) : x.gate \in RealGates /\ x.cycle \in Nat
    BY DEF Placed
  <2> QED BY <1>1, <1>5, <2>1
<1>7. e \in Placed(G)
  BY <1>1, <1>6 DEF Placed
<1> HIDE DEF n, w, g, e
<1>8. /\ Len(n.gates) = b + 1 /\ n.gates[j] = e
      /\ \A k \in 1 .. j - 1 : n.gates[k] = g[k]
      /\ \A k \in j .. b : n.gates[k + 1] = g[k]
  BY <1>3, <1>5, <1>7, Inserting
<1>9. /\ Len(n.waiting) = c - 1
      /\ \A k \in 1 .. i - 1 : n.waiting[k] = w[k]
      /\ \A k \in i + 1 .. c : n.waiting[k - 1] = w[k]
  <2>1. i \in 1 .. Len(w) /\ w \in Seq(G)
    BY <1>1, <1>5
  <2>2. /\ Len(RemoveAt(w, i)) = Len(w) - 1
        /\ \A k \in 1 .. i - 1 : RemoveAt(w, i)[k] = w[k]
        /\ \A k \in i + 1 .. Len(w) : RemoveAt(w, i)[k - 1] = w[k]
    BY ONLY <2>1, Removing
  <2> QED BY <1>4, <2>2
<1>10. /\ \A x \in Timeline : n.fc.fcv[x] = IF x \in Written(w[i]) THEN start + Duration[w[i].name] ELSE q.fc.fcv[x]
       /\ Duration[w[i].name] \in Nat /\ Written(w[i]) \subseteq Awaited(w[i]) /\ Written(w[i]) \subseteq Timeline
  <2>1. \A x \in Timeline : n.fc.fcv[x] = IF x \in Written(w[i]) THEN start + Duration[w[i].name] ELSE q.fc.fcv[x]
    BY <1>1, <1>4, <1>5, <1>6, AddCycles
  <2>2. Duration[w[i].name] \in Nat /\ Written(w[i]) \subseteq Timeline
    BY <1>6, GateObjects
  <2> QED BY <2>1, <2>2 DEF Awaited
<1>11. \A k \in 1 .. b : \A x \in Written(g[k].gate) : g[k].cycle + Duration[g[k].gate.name] <= q.fc.fcv[x]
                                                     /\ x \in Timeline /\ Duration[g[k].gate.name] \in Nat
                                                     /\ q.fc.fcv[x] \in Nat
  <2>1. DOMAIN g = 1 .. b
    BY <1>5
  <2>2. \A k \in 1 .. b : Written(g[k].gate) \subseteq Timeline /\ Duration[g[k].gate.name] \in Nat
    BY <1>6, GateObjects
  <2>3. \A x \in Timeline : q.fc.fcv[x] \in Nat
    BY <1>5 DEF FreeCycles
  <2> QED BY <2>1, <2>2, <2>3 DEF FcBound, g
<1>12. ASSUME NEW k \in 1 .. b, NEW x \in Written(g[k].gate)
       PROVE  g[k].cycle + Duration[g[k].gate.name] <= n.fc.fcv[x]
  <2>1. /\ g[k].cycle + Duration[g[k].gate.name] <= q.fc.fcv[x] /\ x \in Timeline /\ q.fc.fcv[x] \in Nat
        /\ Duration[g[k].gate.name] \in Nat /\ g[k].cycle \in Nat
    BY <1>6, <1>11
  <2>2. CASE x \in Written(w[i])
    <3>1. q.fc.fcv[x] <= start /\ n.fc.fcv[x] = start + Duration[w[i].name]
      BY <1>1, <1>10, <2>1, <2>2
    <3>2. start <= n.fc.fcv[x] /\ n.fc.fcv[x] \in Nat
      BY <1>1, <1>10, <3>1
    <3>3. start \in Nat
      BY <1>1
    <3> DEFINE u == g[k].cycle + Duration[g[k].gate.name]
               v == n.fc.fcv[x]
               y == q.fc.fcv[x]
    <3>4. u \in Nat /\ y \in Nat /\ v \in Nat /\ u <= y /\ y <= start /\ start <= v
      BY ONLY <2>1, <3>1, <3>2
    <3> HIDE DEF u, v, y
    <3>5. u <= v
      BY ONLY <3>3, <3>4
    <3> QED BY <3>5 DEF u, v
  <2>3. CASE x \notin Written(w[i])
    BY <1>10, <2>1, <2>3
  <2> QED BY <2>2, <2>3
<1>13. \A k \in 1 .. b + 1 : k = j \/ (k \in 1 .. j - 1 /\ k \in 1 .. b) \/ (k - 1 \in j .. b /\ k - 1 \in 1 .. b /\ (k - 1) + 1 = k)
  BY <1>3, <1>6
<1>14. FcBound(n)
  <2> SUFFICES ASSUME NEW k \in DOMAIN n.gates, NEW x \in Written(n.gates[k].gate)
               PROVE  n.gates[k].cycle + Duration[n.gates[k].gate.name] <= n.fc.fcv[x]
    BY DEF FcBound
  <2>1. k \in 1 .. b + 1
    BY <1>5, <1>8
  <2>2. CASE k = j
    <3>1. n.gates[k].gate = w[i] /\ n.gates[k].cycle = start
      BY <1>8, <2>2 DEF e
    <3>2. n.fc.fcv[x] = start + Duration[w[i].name]
      BY <1>10, <3>1
    <3> QED BY <1>1, <1>10, <3>1, <3>2
  <2>3. CASE k \in 1 .. j - 1 /\ k \in 1 .. b
    <3>1. n.gates[k] = g[k]
      BY <1>8, <2>3
    <3> QED BY <1>12, <2>3, <3>1
  <2>4. CASE k - 1 \in j .. b /\ k - 1 \in 1 .. b /\ (k - 1) + 1 = k
    <3>1. n.gates[k] = g[k - 1]
      BY <1>8, <2>4
    <3> QED BY <1>12, <2>4, <3>1
  <2> QED BY <1>13, <2>1, <2>2, <2>3, <2>4
<1> DEFINE L == Line(q, rest)
           M == Line(n, rest)
           p == a + b + i
           at == a + j
<1>22. a = Len(q.output) /\ b = Len(q.gates) /\ c = Len(q.waiting) /\ d = Len(rest)
       /\ a = Len(n.output) /\ b + 1 = Len(n.gates) /\ c - 1 = Len(n.waiting)
  BY <1>4, <1>8, <1>9 DEF g, w
<1> HIDE DEF a, b, c, d, L, M
<1>15. /\ L \in Seq(G) /\ Len(L) = a + b + c + d
       /\ \A k \in 1 .. a : L[k] = q.output[k].gate
       /\ \A k \in 1 .. b : L[a + k] = g[k].gate
       /\ \A k \in 1 .. c : L[a + b + k] = w[k]
       /\ \A k \in 1 .. d : L[a + b + c + k] = rest[k]
  <2>1. L \in Seq(G) /\ Parts(L, q, rest, a, b, c, d)
    BY LineFacts DEF L, a, b, c, d, g, w
  <2> QED BY <2>1 DEF Parts, g, w
<1>16. /\ M \in Seq(G) /\ Len(M) = a + (b + 1) + (c - 1) + d
       /\ \A k \in 1 .. a : M[k] = q.output[k].gate
       /\ \A k \in 1 .. b + 1 : M[a + k] = n.gates[k].gate
       /\ \A k \in 1 .. c - 1 : M[a + (b + 1) + k] = n.waiting[k]
       /\ \A k \in 1 .. d : M[a + (b + 1) + (c - 1) + k] = rest[k]
  <2>1. M \in Seq(G) /\ Parts(M, n, rest, Len(n.output), Len(n.gates), Len(n.waiting), Len(rest))
    BY <1>2, LineFacts DEF M
  <2>2. Parts(M, n, rest, a, b + 1, c - 1, d)
    BY <1>22, <2>1
  <2> QED BY <1>4, <2>1, <2>2 DEF Parts
<1>17. /\ p \in Nat /\ at \in Nat /\ p \in 1 .. Len(L) /\ at \in 1 .. p /\ Len(M) = Len(L) /\ at <= p
       /\ j \in Nat /\ i \in Nat /\ c - 1 \in Nat /\ b + 1 \in Nat
  BY <1>1, <1>3, <1>6, <1>15, <1>16
<1>18. L[p] = w[i]
  BY <1>1, <1>15
<1>19. M = MovedTo(L, p, at)
  <2>1. /\ MovedTo(L, p, at) \in Seq(G) /\ Len(MovedTo(L, p, at)) = Len(L)
        /\ \A k \in 1 .. Len(L) : MovedTo(L, p, at)[k] =
             IF k < at THEN L[k] ELSE IF k = at THEN L[p] ELSE IF k <= p THEN L[k - 1] ELSE L[k]
    BY <1>15, <1>17, MovedList
  <2>2. ASSUME NEW k \in 1 .. Len(M) PROVE M[k] = MovedTo(L, p, at)[k]
    <3>1. k \in 1 .. a + (b + 1) + (c - 1) + d /\ k \in 1 .. Len(L)
      BY <1>16, <1>17
    <3>2. CASE k \in 1 .. a
      <4>1. k < at
        BY <1>3, <1>6, <3>2
      <4> QED BY <1>15, <1>16, <2>1, <3>1, <3>2, <4>1
    <3>3. ASSUME NEW m \in 1 .. b + 1, k = a + m PROVE M[k] = MovedTo(L, p, at)[k]
      <4>1. M[k] = n.gates[m].gate
        BY <1>16, <3>3
      <4>2. CASE m = j
        <5>1. k = at /\ ~(k < at)
          BY <1>17, <3>3, <4>2
        <5>2. n.gates[m].gate = w[i]
          BY <1>8, <4>2 DEF e
        <5> QED BY <1>18, <2>1, <3>1, <4>1, <5>1, <5>2
      <4>3. CASE m \in 1 .. j - 1 /\ m \in 1 .. b
        <5>1. k < at
          BY <1>3, <1>6, <3>3, <4>3
        <5>2. n.gates[m] = g[m] /\ L[k] = g[m].gate
          BY <1>8, <1>15, <3>3, <4>3
        <5> QED BY <2>1, <3>1, <4>1, <5>1, <5>2
      <4>4. CASE m - 1 \in j .. b /\ m - 1 \in 1 .. b /\ (m - 1) + 1 = m
        <5>1. ~(k < at) /\ k # at /\ k <= p /\ k - 1 = a + (m - 1)
          BY <1>1, <1>3, <1>6, <3>3, <4>4
        <5>2. n.gates[m] = g[m - 1] /\ L[a + (m - 1)] = g[m - 1].gate
          BY <1>8, <1>15, <4>4
        <5> QED BY <2>1, <3>1, <4>1, <5>1, <5>2
      <4> QED BY <1>13, <4>2, <4>3, <4>4
    <3>4. ASSUME NEW m \in 1 .. c - 1, k = a + (b + 1) + m PROVE M[k] = MovedTo(L, p, at)[k]
      <4>1. M[k] = n.waiting[m]
        BY <1>16, <3>4
      <4>2. CASE m < i
        <5>1. m \in 1 .. i - 1 /\ m \in 1 .. c /\ ~(k < at) /\ k # at /\ k <= p /\ k - 1 = a + b + m
          BY <1>1, <1>3, <1>6, <3>4, <4>2
        <5>2. n.waiting[m] = w[m] /\ L[a + b + m] = w[m]
          BY <1>9, <1>15, <5>1
        <5> QED BY <2>1, <3>1, <4>1, <5>1, <5>2
      <4>3. CASE ~(m < i)
        <5>1. m + 1 \in i + 1 .. c /\ m + 1 \in 1 .. c /\ (m + 1) - 1 = m /\ k = a + b + (m + 1)
              /\ ~(k < at) /\ k # at /\ ~(k <= p)
          BY <1>1, <1>3, <1>6, <3>4, <4>3
        <5>2. n.waiting[m] = w[m + 1] /\ L[a + b + (m + 1)] = w[m + 1]
          BY <1>9, <1>15, <5>1
        <5> QED BY <2>1, <3>1, <4>1, <5>1, <5>2
      <4> QED BY <4>2, <4>3
    <3>5. ASSUME NEW m \in 1 .. d, k = a + (b + 1) + (c - 1) + m PROVE M[k] = MovedTo(L, p, at)[k]
      <4>1. M[k] = rest[m]
        BY <1>16, <3>5
      <4>2. k = a + b + c + m /\ ~(k < at) /\ k # at /\ ~(k <= p)
        BY <1>1, <1>3, <1>6, <3>5
      <4>3. L[a + b + c + m] = rest[m]
        BY <1>15
      <4> QED BY <2>1, <3>1, <4>1, <4>2, <4>3
    <3> QED BY <1>6, <1>17, <3>1, <3>2, <3>3, <3>4, <3>5, FourParts
  <2> HIDE DEF p, at
  <2> QED BY <1>16, <1>17, <2>1, <2>2, SameLists
<1>20. ASSUME NEW k \in at .. p - 1 PROVE Written(L[k]) \cap Awaited(L[p]) = {}
  <2>1. CASE k <= a + b
    <3> DEFINE m == k - a
    <3>1. m \in 1 .. b /\ m \in j .. b /\ a + m = k
      BY <1>3, <1>6, <1>17, <2>1
    <3> HIDE DEF m
    <3>2. L[k] = g[m].gate /\ g[m].cycle > start
      BY <1>3, <1>15, <3>1
    <3>3. ASSUME NEW x \in Written(g[m].gate), x \in Awaited(w[i]) PROVE FALSE
      <4>1. g[m].cycle + Duration[g[m].gate.name] <= q.fc.fcv[x] /\ Duration[g[m].gate.name] \in Nat
            /\ q.fc.fcv[x] \in Nat /\ g[m].cycle \in Nat
        BY <1>6, <1>11, <3>1
      <4>2. q.fc.fcv[x] <= start
        BY <1>1, <3>3
      <4> QED BY <1>1, <3>2, <4>1, <4>2
    <3> QED BY <1>18, <3>2, <3>3
  <2>2. CASE ~(k <= a + b)
    <3> DEFINE m == k - (a + b)
    <3>1. m \in 1 .. i - 1 /\ m \in 1 .. c /\ a + b + m = k
      BY <1>1, <1>6, <1>17, <2>2
    <3> HIDE DEF m
    <3>2. L[k] = w[m]
      BY <1>15, <3>1
    <3> QED BY <1>1, <1>18, <3>1, <3>2
  <2> QED BY <2>1, <2>2
<1>21. Hurried(q, n, rest, p, at)
  <2> HIDE DEF p, at
  <2> QED BY <1>17, <1>19, <1>20 DEF Hurried, L, M
<1> QED BY <1>14, <1>21 DEF n

-----------------------------------------------------------------------------
(* The mapper's account of where states are.                               *)

\* Virtual qubits are on real qubits one to one, states where the map says, and qubits that
\* hold one are known to; when qubits start in |0>, so is every qubit that holds none.
Tracked(s, map) ==
  /\ \A v, w \in Qubits : map.real[v] = map.real[w] => v = w
  /\ \A r \in Qubits : \E v \in Qubits : map.real[v] = r
  /\ \A v \in Qubits : s.value[v] = "live" => s.content[map.real[v]] = StateOf(v)
  /\ \A r \in Qubits : map.state[r] = "live" <=> HasState(s, r)
  /\ settings.initialized =>
       /\ s.zeroes
       /\ \A r \in Qubits : map.state[r] # "none" /\ (map.state[r] = "initialized" => s.content[r] = Zero)

LEMMA QubitNumbers ==
  ASSUME job \in Jobs
  PROVE  Qubits \subseteq Int
<1>1. IsTopology(job.topology) /\ QubitsIn(job.topology) = Qubits
  BY JobsAssumption
<1> QED BY <1>1 DEF QubitsIn, IsTopology

\* What swap() does to a map that is one to one.
Exchange(map, a, b, v, w) ==
  [real  |-> [u \in Qubits |-> IF u = v THEN b ELSE IF u = w THEN a ELSE map.real[u]],
   state |-> [r \in Qubits |-> IF r = a THEN map.state[b] ELSE IF r = b THEN map.state[a] ELSE map.state[r]]]

LEMMA MapSwapped ==
  ASSUME job \in Jobs, NEW map \in Mappings, NEW a \in Qubits, NEW b \in Qubits, a # b, NEW s, Tracked(s, map)
  PROVE  /\ \E v, w \in Qubits : /\ map.real[v] = a /\ map.real[w] = b /\ v # w
                                 /\ Mapping!Swap(map, a, b) = Exchange(map, a, b, v, w)
         /\ Mapping!SwapAsserts(map, a, b)
<1>1. PICK v \in Qubits : map.real[v] = a
  BY DEF Tracked
<1>2. PICK w \in Qubits : map.real[w] = b
  BY DEF Tracked
<1>3. ASSUME NEW u \in Qubits PROVE Mapping!GetVirtual(map, map.real[u]) = u
  <2>1. Mapping!VirtualsAt(map, map.real[u]) = {u}
    BY DEF Tracked, Mapping!VirtualsAt
  <2>2. u <= u
    BY QubitNumbers
  <2>3. (CHOOSE x \in {u} : \A y \in {u} : x <= y) = u
    BY <2>2
  <2> QED BY <2>1, <2>3 DEF Mapping!GetVirtual
<1>4. Mapping!GetVirtual(map, a) = v /\ Mapping!GetVirtual(map, b) = w /\ v # w
  BY <1>1, <1>2, <1>3
<1>5. Mapping!SwapAsserts(map, a, b)
  BY <1>4, UndefinedAssumption DEF Mapping!SwapAsserts
<1>6. map.state \in [Qubits -> {"none", "initialized", "live"}]
  BY DEF Mappings
<1>7. Mapping!Swap(map, a, b) = Exchange(map, a, b, v, w)
  <2>1. [map.state EXCEPT ![a] = map.state[b], ![b] = map.state[a]]
          = [r \in Qubits |-> IF r = a THEN map.state[b] ELSE IF r = b THEN map.state[a] ELSE map.state[r]]
    BY <1>6
  <2> QED BY <1>4, <2>1 DEF Mapping!Swap, Exchange
<1> QED BY <1>1, <1>2, <1>4, <1>5, <1>7

LEMMA ExchangeSymmetric ==
  ASSUME NEW map \in Mappings, NEW a, NEW b, a # b, NEW v, NEW w, v # w
  PROVE  Exchange(map, a, b, v, w) = Exchange(map, b, a, w, v)
<1>1. \A u \in Qubits : (IF u = v THEN b ELSE IF u = w THEN a ELSE map.real[u])
                          = (IF u = w THEN a ELSE IF u = v THEN b ELSE map.real[u])
  OBVIOUS
<1>2. \A r \in Qubits : (IF r = a THEN map.state[b] ELSE IF r = b THEN map.state[a] ELSE map.state[r])
                          = (IF r = b THEN map.state[a] ELSE IF r = a THEN map.state[b] ELSE map.state[r])
  OBVIOUS
<1> QED BY <1>1, <1>2 DEF Exchange

LEMMA SwapSymmetric ==
  ASSUME job \in Jobs, NEW map \in Mappings, NEW a \in Qubits, NEW b \in Qubits, a # b, NEW s, Tracked(s, map)
  PROVE  Mapping!Swap(map, a, b) = Mapping!Swap(map, b, a)
<1>1. PICK v, w \in Qubits : /\ map.real[v] = a /\ map.real[w] = b /\ v # w
                             /\ Mapping!Swap(map, a, b) = Exchange(map, a, b, v, w)
  BY MapSwapped
<1>2. PICK x, y \in Qubits : /\ map.real[x] = b /\ map.real[y] = a /\ x # y
                             /\ Mapping!Swap(map, b, a) = Exchange(map, b, a, x, y)
  BY MapSwapped
<1>3. x = w /\ y = v
  BY <1>1, <1>2 DEF Tracked
<1> QED BY <1>1, <1>2, <1>3, ExchangeSymmetric

\* When the contents are exchanged, too, the account stays right.
LEMMA TrackedSwap ==
  ASSUME job \in Jobs, NEW map \in Mappings, NEW a \in Qubits, NEW b \in Qubits, a # b, NEW s, Tracked(s, map),
         NEW t, t.value = s.value, settings.initialized => t.zeroes,
         \A r \in Qubits : t.content[r] = IF r = a THEN s.content[b] ELSE IF r = b THEN s.content[a] ELSE s.content[r]
  PROVE  Tracked(t, Mapping!Swap(map, a, b))
<1>1. PICK v, w \in Qubits : /\ map.real[v] = a /\ map.real[w] = b /\ v # w
                             /\ Mapping!Swap(map, a, b) = Exchange(map, a, b, v, w)
  BY MapSwapped
<1> DEFINE new == Exchange(map, a, b, v, w)
<1>2. /\ \A u \in Qubits : new.real[u] = IF u = v THEN b ELSE IF u = w THEN a ELSE map.real[u]
      /\ \A r \in Qubits : new.state[r] = IF r = a THEN map.state[b] ELSE IF r = b THEN map.state[a] ELSE map.state[r]
  BY DEF Exchange
<1>3. \A u \in Qubits : map.real[u] \in Qubits
  BY DEF Mappings
<1> HIDE DEF new
<1>4. \A x, y \in Qubits : new.real[x] = new.real[y] => x = y
  <2> SUFFICES ASSUME NEW x \in Qubits, NEW y \in Qubits, new.real[x] = new.real[y] PROVE x = y
    OBVIOUS
  <2>1. \A u \in Qubits : (map.real[u] = a => u = v) /\ (map.real[u] = b => u = w)
    BY <1>1 DEF Tracked
  <2> QED BY <1>1, <1>2, <2>1 DEF Tracked
<1>5. \A r \in Qubits : \E u \in Qubits : new.real[u] = r
  <2> SUFFICES ASSUME NEW r \in Qubits PROVE \E u \in Qubits : new.real[u] = r
    OBVIOUS
  <2>1. PICK u \in Qubits : map.real[u] = r
    BY DEF Tracked
  <2>2. CASE u = v
    BY <1>1, <1>2, <2>1, <2>2
  <2>3. CASE u = w
    BY <1>1, <1>2, <2>1, <2>3
  <2> QED BY <1>1, <1>2, <2>1, <2>2, <2>3
<1>6. \A u \in Qubits : t.value[u] = "live" => t.content[new.real[u]] = StateOf(u)
  <2> SUFFICES ASSUME NEW u \in Qubits, t.value[u] = "live" PROVE t.content[new.real[u]] = StateOf(u)
    OBVIOUS
  <2>1. s.content[map.real[u]] = StateOf(u) /\ map.real[u] \in Qubits
    BY <1>3 DEF Tracked
  <2>2. u # v => map.real[u] # a
    BY <1>1 DEF Tracked
  <2>3. u # w => map.real[u] # b
    BY <1>1 DEF Tracked
  <2> QED BY <1>1, <1>2, <2>1, <2>2, <2>3
<1>7. \A r \in Qubits : new.state[r] = "live" <=> HasState(t, r)
  BY <1>2 DEF Tracked, HasState
<1>8. settings.initialized =>
        /\ t.zeroes
        /\ \A r \in Qubits : new.state[r] # "none" /\ (new.state[r] = "initialized" => t.content[r] = Zero)
  BY <1>2 DEF Tracked
<1>9. Tracked(t, new)
  BY <1>4, <1>5, <1>6, <1>7, <1>8 DEF Tracked
<1> QED BY <1>1, <1>9 DEF new

\* Between qubits without states, only the map changes.
LEMMA TrackedNoSwap ==
  ASSUME job \in Jobs, NEW map \in Mappings, NEW a \in Qubits, NEW b \in Qubits, a # b, NEW s, Tracked(s, map),
         map.state[a] # "live", map.state[b] # "live"
  PROVE  Tracked(s, Mapping!Swap(map, a, b))
<1>1. PICK v, w \in Qubits : /\ map.real[v] = a /\ map.real[w] = b /\ v # w
                             /\ Mapping!Swap(map, a, b) = Exchange(map, a, b, v, w)
  BY MapSwapped
<1> DEFINE new == Exchange(map, a, b, v, w)
<1>2. /\ \A u \in Qubits : new.real[u] = IF u = v THEN b ELSE IF u = w THEN a ELSE map.real[u]
      /\ \A r \in Qubits : new.state[r] = IF r = a THEN map.state[b] ELSE IF r = b THEN map.state[a] ELSE map.state[r]
  BY DEF Exchange
<1> HIDE DEF new
<1>3. \A r \in Qubits : map.state[r] \in {"none", "initialized", "live"}
  BY DEF Mappings
<1>4. \A x, y \in Qubits : new.real[x] = new.real[y] => x = y
  <2> SUFFICES ASSUME NEW x \in Qubits, NEW y \in Qubits, new.real[x] = new.real[y] PROVE x = y
    OBVIOUS
  <2>1. \A u \in Qubits : (map.real[u] = a => u = v) /\ (map.real[u] = b => u = w)
    BY <1>1 DEF Tracked
  <2> QED BY <1>1, <1>2, <2>1 DEF Tracked
<1>5. \A r \in Qubits : \E u \in Qubits : new.real[u] = r
  <2> SUFFICES ASSUME NEW r \in Qubits PROVE \E u \in Qubits : new.real[u] = r
    OBVIOUS
  <2>1. PICK u \in Qubits : map.real[u] = r
    BY DEF Tracked
  <2>2. CASE u = v
    BY <1>1, <1>2, <2>1, <2>2
  <2>3. CASE u = w
    BY <1>1, <1>2, <2>1, <2>3
  <2> QED BY <1>1, <1>2, <2>1, <2>2, <2>3
<1>6. ~HasState(s, a) /\ ~HasState(s, b)
  BY DEF Tracked
<1>7. s.value[v] # "live" /\ s.value[w] # "live"
  BY <1>1, <1>6, ContentsDiffer DEF Tracked, HasState
<1>8. \A u \in Qubits : s.value[u] = "live" => s.content[new.real[u]] = StateOf(u)
  BY <1>2, <1>7 DEF Tracked
<1>9. \A r \in Qubits : new.state[r] = "live" <=> HasState(s, r)
  BY <1>2, <1>6 DEF Tracked
<1>10. settings.initialized =>
         /\ s.zeroes
         /\ \A r \in Qubits : new.state[r] # "none" /\ (new.state[r] = "initialized" => s.content[r] = Zero)
  BY <1>2, <1>3 DEF Tracked
<1>11. Tracked(s, new)
  BY <1>4, <1>5, <1>8, <1>9, <1>10 DEF Tracked
<1> QED BY <1>1, <1>11 DEF new

\* An initialisation.
LEMMA TrackedInit ==
  ASSUME NEW map \in Mappings, NEW b \in Qubits, NEW s, Tracked(s, map), map.state[b] # "live",
         NEW t, t.value = s.value, t.zeroes = s.zeroes,
         \A r \in Qubits : t.content[r] = IF r = b THEN Zero ELSE s.content[r]
  PROVE  Tracked(t, Mapping!SetState(map, b, "initialized")) /\ Mapping!SetState(map, b, "initialized") \in Mappings
<1> DEFINE new == Mapping!SetState(map, b, "initialized")
<1>1. /\ map = [real |-> map.real, state |-> map.state] /\ map.real \in [Qubits -> Qubits]
      /\ map.state \in [Qubits -> {"none", "initialized", "live"}]
  BY DEF Mappings
<1>2. new = [real |-> map.real, state |-> [map.state EXCEPT ![b] = "initialized"]]
  BY <1>1 DEF Mapping!SetState
<1>3. \A r \in Qubits : new.state[r] = IF r = b THEN "initialized" ELSE map.state[r]
  BY <1>1, <1>2
<1>4. new \in Mappings /\ new.real = map.real
  BY <1>1, <1>2 DEF Mappings
<1> HIDE DEF new
<1>5. ~HasState(s, b)
  BY DEF Tracked
<1>6. \A u \in Qubits : t.value[u] = "live" => t.content[new.real[u]] = StateOf(u)
  <2> SUFFICES ASSUME NEW u \in Qubits, t.value[u] = "live" PROVE t.content[new.real[u]] = StateOf(u)
    OBVIOUS
  <2>1. s.content[map.real[u]] = StateOf(u) /\ map.real[u] \in Qubits
    BY <1>1 DEF Tracked
  <2>2. map.real[u] # b
    BY <1>5, <2>1, ContentsDiffer DEF HasState
  <2> QED BY <1>4, <2>1, <2>2
<1>7. \A r \in Qubits : new.state[r] = "live" <=> HasState(t, r)
  BY <1>3, ContentsDiffer DEF Tracked, HasState
<1>8. Tracked(t, new)
  BY <1>3, <1>4, <1>6, <1>7 DEF Tracked
<1> QED BY <1>4, <1>8 DEF new

-----------------------------------------------------------------------------
(* What one more gate does to the account.                                 *)

\* Gates that the schedule may exchange act on different qubits.
LEMMA SeparateGates ==
  ASSUME NEW g \in RealGates, NEW h \in RealGates, Written(g) \cap Awaited(h) = {}
  PROVE  Separate(g, h)
<1>1. ASSUME NEW x \in RealGates, NEW r \in Ops(x) PROVE Qubit(r) \in Written(x)
  <2>1. PICK i \in DOMAIN x.operands : x.operands[i] = r
    BY DEF Ops
  <2>2. i \in DOMAIN QubitsOf(x) /\ QubitsOf(x)[i] = Qubit(r)
    BY <2>1 DEF QubitsOf
  <2>3. Qubit(r) \in ToSet(QubitsOf(x))
    BY <2>2 DEF ToSet
  <2> QED BY <2>3, GateWrites
<1>2. ASSUME NEW r \in Ops(g), r \in Ops(h) PROVE FALSE
  <2>1. Qubit(r) \in Written(g) /\ Qubit(r) \in Written(h)
    BY <1>1, <1>2
  <2> QED BY <2>1 DEF Awaited
<1> QED BY <1>2 DEF Separate

\* A gate of the program, where the map says, finds its states and leaves them there.
LEMMA TrackedGate ==
  ASSUME job \in Jobs, ~Resets, NEW g \in MappedGates(job), g.id # 0, NEW map \in Mappings, NEW new \in Mappings,
         \A i \in DOMAIN g.operands : g.operands[i] = map.real[VirtualsOf(g)[i]],
         new.real = map.real, \A r \in Qubits : new.state[r] = IF r \in Ops(g) THEN "live" ELSE map.state[r],
         NEW s \in States, s.ok, Distinct(s), Tracked(s, map)
  PROVE  Run(s, g).ok /\ Tracked(Run(s, g), new)
<1> DEFINE w == VirtualsOf(g)
           h == g.operands
           t == Run(s, g)
<1>1. /\ w \in Seq(Qubits) /\ DOMAIN w = DOMAIN h /\ \A i \in DOMAIN h : h[i] \in Qubits
      /\ \A i, k \in DOMAIN h : w[i] = w[k] => h[i] = h[k]
  BY GateShape
<1>2. \A i \in DOMAIN h : w[i] \in Qubits /\ h[i] = map.real[w[i]]
  BY <1>1
<1>3. t.ok = (s.ok /\ Fine(s, g)) /\ t.zeroes = (s.zeroes /\ Pure(s, g))
  BY RunOk
<1>4. t = Effect(s, g) /\ Ops(g) \subseteq Qubits /\ s.content \in [Qubits -> Contents]
  BY RunEffect DEF States
<1>5. /\ \A r \in Qubits : t.content[r] = IF r \in Ops(g) THEN Put(s, g, r) ELSE s.content[r]
      /\ \A v \in Qubits : t.value[v] = IF v \in Virtuals(g) THEN "live" ELSE s.value[v]
  BY <1>4 DEF Effect
<1>6. \A v, x \in Qubits : map.real[v] = map.real[x] => v = x
  BY DEF Tracked
<1>7. ASSUME NEW i \in DOMAIN h, s.value[w[i]] # "live" PROVE ~HasState(s, h[i])
  <2>1. s.content[h[i]] \in Contents
    BY <1>1, <1>4
  <2> SUFFICES ASSUME HasState(s, h[i]) PROVE FALSE
    OBVIOUS
  <2>2. PICK v \in Qubits : s.content[h[i]] = StateOf(v)
    BY <2>1 DEF HasState, Contents
  <2>3. s.value[v] = "live"
    BY <1>1, <2>2 DEF Distinct
  <2>4. s.content[map.real[v]] = StateOf(v) /\ map.real[v] \in Qubits
    BY <2>3 DEF Tracked, Mappings
  <2>5. map.real[v] = h[i]
    BY <1>1, <2>2, <2>4 DEF Distinct
  <2>6. v = w[i]
    BY <1>2, <1>6, <2>5
  <2> QED BY <1>7, <2>3, <2>6
<1>8. Fine(s, g)
  <2>1. \A i \in DOMAIN w : s.value[w[i]] = "live" => s.content[h[i]] = StateOf(w[i])
    BY <1>1, <1>2 DEF Tracked
  <2>2. \A i \in DOMAIN w : s.value[w[i]] # "live" => ~HasState(s, h[i])
    BY <1>1, <1>7
  <2> QED BY <2>1, <2>2 DEF Fine
<1>9. ASSUME settings.initialized PROVE Pure(s, g)
  <2>1. ASSUME NEW i \in DOMAIN w, s.value[w[i]] = "zero" PROVE s.content[h[i]] = Zero
    <3>1. ~HasState(s, h[i]) /\ h[i] \in Qubits
      BY <1>1, <1>7, <2>1
    <3>2. map.state[h[i]] # "live" /\ map.state[h[i]] # "none" /\ map.state[h[i]] \in {"none", "initialized", "live"}
      BY <1>9, <3>1 DEF Tracked, Mappings
    <3> QED BY <1>9, <3>1, <3>2 DEF Tracked
  <2> QED BY <2>1 DEF Pure
<1> HIDE DEF w, h, t
<1>10. ASSUME NEW i \in DOMAIN h PROVE Put(s, g, h[i]) = StateOf(w[i]) /\ h[i] \in Ops(g) /\ w[i] \in Virtuals(g)
  <2> DEFINE k == CHOOSE j \in DOMAIN h : h[j] = h[i]
  <2>1. k \in DOMAIN h /\ h[k] = h[i]
    OBVIOUS
  <2>2. w[k] = w[i]
    <3> HIDE DEF k
    <3> QED BY <1>2, <1>6, <2>1
  <2>3. Put(s, g, h[i]) = StateOf(w[k])
    BY DEF Put, w, h
  <2>4. h[i] \in Ops(g) /\ w[i] \in Virtuals(g)
    BY <1>1 DEF Ops, Virtuals, w, h
  <2> QED BY <2>2, <2>3, <2>4
<1>11. \A v \in Virtuals(g) : \E i \in DOMAIN h : v = w[i]
  BY <1>1 DEF Virtuals, w
<1>12. \A r \in Ops(g) : \E i \in DOMAIN h : r = h[i]
  BY DEF Ops, h
<1>13. \A v \in Qubits : t.value[v] = "live" => t.content[new.real[v]] = StateOf(v)
  <2> SUFFICES ASSUME NEW v \in Qubits, t.value[v] = "live" PROVE t.content[map.real[v]] = StateOf(v)
    OBVIOUS
  <2>0. map.real[v] \in Qubits
    BY DEF Mappings
  <2>1. CASE v \in Virtuals(g)
    <3>1. PICK i \in DOMAIN h : v = w[i]
      BY <1>11, <2>1
    <3> QED BY <1>2, <1>5, <1>10, <2>0, <3>1
  <2>2. CASE v \notin Virtuals(g)
    <3>1. map.real[v] \notin Ops(g)
      BY <1>2, <1>6, <1>10, <1>12, <2>2
    <3>2. s.content[map.real[v]] = StateOf(v)
      BY <1>5, <2>2 DEF Tracked
    <3> QED BY <1>5, <2>0, <3>1, <3>2
  <2> QED BY <2>1, <2>2
<1>14. \A r \in Qubits : new.state[r] = "live" <=> HasState(t, r)
  <2> SUFFICES ASSUME NEW r \in Qubits PROVE new.state[r] = "live" <=> HasState(t, r)
    OBVIOUS
  <2>1. CASE r \in Ops(g)
    <3>1. PICK i \in DOMAIN h : r = h[i]
      BY <1>12, <2>1
    <3>2. t.content[r] = StateOf(w[i])
      BY <1>5, <1>10, <2>1, <3>1
    <3> QED BY <2>1, <3>2, ContentsDiffer DEF HasState
  <2>2. CASE r \notin Ops(g)
    BY <1>5, <2>2 DEF Tracked, HasState
  <2> QED BY <2>1, <2>2
<1>15. ASSUME settings.initialized
       PROVE  /\ t.zeroes
              /\ \A r \in Qubits : new.state[r] # "none" /\ (new.state[r] = "initialized" => t.content[r] = Zero)
  <2>1. s.zeroes /\ \A r \in Qubits : map.state[r] # "none" /\ (map.state[r] = "initialized" => s.content[r] = Zero)
    BY <1>15 DEF Tracked
  <2>2. t.zeroes
    BY <1>3, <1>9, <1>15, <2>1
  <2> QED BY <1>5, <2>1, <2>2
<1>16. Tracked(t, new)
  <2>1. \A r \in Qubits : \E v \in Qubits : new.real[v] = r
    BY DEF Tracked
  <2> QED BY <1>6, <1>13, <1>14, <1>15, <2>1 DEF Tracked
<1>17. t.ok
  BY <1>3, <1>8
<1> QED BY <1>16, <1>17 DEF t

-----------------------------------------------------------------------------
(* Which gates of the program there are so far, and in which order.        *)

\* The gates of D are there once each, no others are, and gates that share a qubit or a bit
\* and are in conflict are in the order of the program.
InStep(list, D) ==
  /\ \A n \in D : \E k \in DOMAIN list : list[k].id = n
  /\ \A k \in DOMAIN list : list[k].id # 0 => list[k].id \in D
  /\ \A k, l \in DOMAIN list : list[k].id # 0 /\ list[k].id = list[l].id => k = l
  /\ \A k, l \in DOMAIN list :
       list[k].id # 0 /\ list[l].id # 0 /\ list[k].id < list[l].id
       /\ KnownToPast(program[list[k].id], program[list[l].id], settings) => k < l

\* What FreeCycle knows of gates that share neither a written bit nor a qubit of the program.
LEMMA Unknowing ==
  ASSUME job \in Jobs, NEW g \in MappedGates(job), NEW h \in MappedGates(job), g.id # 0, h.id # 0,
         KnownToPast(program[g.id], program[h.id], settings)
  PROVE  Virtuals(g) \cap Virtuals(h) # {} \/ \E x \in ToSet(BregsOf(g)) : x \in Written(g) /\ x \in Awaited(h)
<1> DEFINE p == program[g.id]
           q == program[h.id]
<1>1. g.bregs = p.bregs /\ h.bregs = q.bregs /\ h.cond = q.cond
  BY GateShape
<1>2. BregsOf(p) = BregsOf(g) /\ BregsOf(q) = BregsOf(h) /\ CondOf(q) = CondOf(h)
  BY <1>1 DEF BregsOf, CondOf
<1>3. g \in RealGates /\ h \in RealGates
  BY DEF MappedGates
<1>4. Written(g) = ToSet(QubitsOf(g)) \cup ToSet(BregsOf(g)) /\ Written(h) = ToSet(QubitsOf(h)) \cup ToSet(BregsOf(h))
  BY <1>3, GateWrites
<1>5. CASE ToSet(QubitsOf(p)) \cap ToSet(QubitsOf(q)) # {}
  <2>1. PICK x : x \in ToSet(QubitsOf(p)) /\ x \in ToSet(QubitsOf(q))
    BY <1>5
  <2>2. PICK i \in DOMAIN p.operands : x = Qubit(p.operands[i])
    BY <2>1 DEF ToSet, QubitsOf
  <2>3. PICK j \in DOMAIN q.operands : x = Qubit(q.operands[j])
    BY <2>1 DEF ToSet, QubitsOf
  <2>4. p.operands[i] = q.operands[j]
    BY <2>2, <2>3 DEF Qubit
  <2>5. VirtualsOf(g) = p.operands /\ VirtualsOf(h) = q.operands
    BY DEF VirtualsOf
  <2> HIDE DEF p, q
  <2>6. p.operands[i] \in Virtuals(g) /\ p.operands[i] \in Virtuals(h)
    BY <2>4, <2>5 DEF Virtuals
  <2> QED BY <2>6
<1>6. CASE ToSet(BregsOf(p)) \cap ToSet(BregsOf(q) \o CondOf(q)) # {}
  <2>1. PICK x : x \in ToSet(BregsOf(g)) /\ x \in ToSet(BregsOf(h) \o CondOf(h))
    BY <1>2, <1>6
  <2>2. BregsOf(h) \in Seq(Objects) /\ CondOf(h) \in Seq(Objects)
    BY <1>3 DEF RealGates, HasOperands
  <2> DEFINE s == BregsOf(h)  t == CondOf(h)
  <2> HIDE DEF s, t
  <2>3. PICK i \in DOMAIN (s \o t) : x = (s \o t)[i]
    BY <2>1 DEF ToSet, s, t
  <2>4. s \in Seq(Objects) /\ t \in Seq(Objects)
    BY <2>2 DEF s, t
  <2>5. x \in ToSet(s) \cup ToSet(t)
    <3>1. DOMAIN (s \o t) = 1 .. Len(s) + Len(t) /\ Len(s) \in Nat /\ Len(t) \in Nat
          /\ DOMAIN s = 1 .. Len(s) /\ DOMAIN t = 1 .. Len(t)
      BY <2>4
    <3>2. CASE i \in 1 .. Len(s)
      BY <2>3, <2>4, <3>1, <3>2 DEF ToSet
    <3>3. CASE i \notin 1 .. Len(s)
      <4>1. i - Len(s) \in 1 .. Len(t) /\ Len(s) + (i - Len(s)) = i
        BY <2>3, <3>1, <3>3
      <4>2. (s \o t)[i] = t[i - Len(s)]
        BY <2>4, <4>1, Joining
      <4> QED BY <2>3, <3>1, <4>1, <4>2 DEF ToSet
    <3> QED BY <3>2, <3>3
  <2>6. x \in Awaited(h) /\ x \in Written(g)
    BY <1>4, <2>1, <2>5 DEF Awaited, s, t
  <2> QED BY <2>1, <2>6
<1> QED BY <1>5, <1>6 DEF KnownToPast

\* Moving a gate past others that have nothing to do with it changes nothing.
LEMMA InStepMoved ==
  ASSUME job \in Jobs, NEW list \in Seq(MappedGates(job)), NEW D, InStep(list, D),
         NEW p \in 1 .. Len(list), NEW at \in 1 .. p,
         \A k \in at .. p - 1 : Written(list[k]) \cap Awaited(list[p]) = {},
         \A k \in at .. p - 1 : Virtuals(list[k]) \cap Virtuals(list[p]) = {}
  PROVE  InStep(MovedTo(list, p, at), D)
<1> DEFINE N == Len(list)
           new == MovedTo(list, p, at)
           From(k) == IF k < at THEN k ELSE IF k = at THEN p ELSE IF k <= p THEN k - 1 ELSE k
           To(j) == IF j = p THEN at ELSE IF j < at THEN j ELSE IF j <= p THEN j + 1 ELSE j
<1>1. /\ N \in Nat /\ DOMAIN list = 1 .. N /\ DOMAIN new = 1 .. N /\ \A k \in 1 .. N : list[k] \in MappedGates(job)
      /\ \A k \in 1 .. N : new[k] = IF k < at THEN list[k] ELSE IF k = at THEN list[p]
                                    ELSE IF k <= p THEN list[k - 1] ELSE list[k]
  BY MovedList
<1>2. p \in 1 .. N /\ at \in 1 .. p
  OBVIOUS
<1> HIDE DEF N, new
<1>3. \A k \in 1 .. N : From(k) \in 1 .. N /\ new[k] = list[From(k)]
  BY <1>1, <1>2
<1>4. \A j \in 1 .. N : To(j) \in 1 .. N /\ From(To(j)) = j
  BY <1>1, <1>2
<1>5. \A k, l \in 1 .. N : From(k) = From(l) => k = l
  BY <1>1, <1>2
<1>6. \A k, l \in 1 .. N : From(k) < From(l) => k < l \/ (From(l) = p /\ From(k) \in at .. p - 1)
  BY <1>1, <1>2
<1> HIDE DEF From, To
<1>7. ASSUME NEW n \in D PROVE \E k \in DOMAIN new : new[k].id = n
  <2>1. PICK j \in 1 .. N : list[j].id = n
    BY <1>1 DEF InStep
  <2> QED BY <1>1, <1>3, <1>4, <2>1
<1>8. ASSUME NEW k \in DOMAIN new, new[k].id # 0 PROVE new[k].id \in D
  <2>1. From(k) \in DOMAIN list /\ new[k] = list[From(k)]
    BY <1>1, <1>3
  <2> QED BY <1>8, <2>1 DEF InStep
<1>9. ASSUME NEW k \in DOMAIN new, NEW l \in DOMAIN new, new[k].id # 0, new[k].id = new[l].id
      PROVE  k = l
  <2> DEFINE i == From(k)
             j == From(l)
  <2>1. i \in 1 .. N /\ j \in 1 .. N /\ new[k] = list[i] /\ new[l] = list[j]
    BY <1>1, <1>3
  <2>2. i = j
    <3> HIDE DEF i, j
    <3>1. i \in DOMAIN list /\ j \in DOMAIN list /\ list[i].id # 0 /\ list[i].id = list[j].id
      BY <1>1, <1>9, <2>1
    <3>2. \A x, y \in DOMAIN list : list[x].id # 0 /\ list[x].id = list[y].id => x = y
      BY DEF InStep
    <3> QED BY ONLY <3>1, <3>2
  <2> QED BY <1>1, <1>5, <2>2
<1>10. ASSUME NEW k \in DOMAIN new, NEW l \in DOMAIN new, new[k].id # 0, new[l].id # 0, new[k].id < new[l].id,
              KnownToPast(program[new[k].id], program[new[l].id], settings)
       PROVE  k < l
  <2> DEFINE i == From(k)
             j == From(l)
  <2>1. i \in 1 .. N /\ j \in 1 .. N /\ new[k] = list[i] /\ new[l] = list[j]
    BY <1>1, <1>3
  <2>2. i < j
    BY <1>1, <1>10, <2>1 DEF InStep
  <2>3. ~(j = p /\ i \in at .. p - 1)
    <3> SUFFICES ASSUME j = p, i \in at .. p - 1 PROVE FALSE
      OBVIOUS
    <3>1. Written(list[i]) \cap Awaited(list[p]) = {} /\ Virtuals(list[i]) \cap Virtuals(list[p]) = {}
      OBVIOUS
    <3>2. /\ list[i] \in MappedGates(job) /\ list[p] \in MappedGates(job) /\ list[i].id # 0 /\ list[p].id # 0
          /\ KnownToPast(program[list[i].id], program[list[p].id], settings)
      BY <1>1, <1>10, <2>1
    <3>3. \/ Virtuals(list[i]) \cap Virtuals(list[p]) # {}
          \/ \E x \in ToSet(BregsOf(list[i])) : x \in Written(list[i]) /\ x \in Awaited(list[p])
      BY <3>2, Unknowing
    <3> QED BY <3>1, <3>3
  <2> QED BY <1>1, <1>6, <2>2, <2>3
<1>11. InStep(new, D)
  BY <1>7, <1>8, <1>9, <1>10 DEF InStep
<1> QED BY <1>11 DEF new

\* A gate of the mapper at the end is none of the program's.
LEMMA InStepOwn ==
  ASSUME NEW G, NEW list \in Seq(G), NEW D, InStep(list, D), NEW g \in G, g.id = 0
  PROVE  InStep(list \o <<g>>, D)
<1> DEFINE N == Len(list)
           new == list \o <<g>>
<1>1. /\ N \in Nat /\ DOMAIN list = 1 .. N /\ DOMAIN new = 1 .. N + 1 /\ new[N + 1] = g
      /\ \A k \in 1 .. N : new[k] = list[k]
  OBVIOUS
<1> HIDE DEF N, new
<1>2. \A k \in 1 .. N + 1 : new[k].id # 0 => k \in 1 .. N
  BY <1>1
<1>3. \A k \in 1 .. N : k \in 1 .. N + 1
  BY <1>1
<1>4. InStep(new, D)
  BY <1>1, <1>2, <1>3 DEF InStep
<1> QED BY <1>4 DEF new

\* A gate of the program may follow when none that has to come later is there yet.
LEMMA InStepNext ==
  ASSUME NEW G, NEW list \in Seq(G), NEW D, D \subseteq Nat, InStep(list, D), NEW g \in G, g.id \in Nat \ {0}, g.id \notin D,
         \A m \in D : ~(g.id < m /\ KnownToPast(program[g.id], program[m], settings))
  PROVE  InStep(list \o <<g>>, D \cup {g.id})
<1> DEFINE N == Len(list)
           new == list \o <<g>>
           n == g.id
<1>1. /\ N \in Nat /\ DOMAIN list = 1 .. N /\ DOMAIN new = 1 .. N + 1 /\ new[N + 1].id = n
      /\ \A k \in 1 .. N : new[k] = list[k]
  OBVIOUS
<1>2. n \in Nat \ {0} /\ n \notin D /\ \A m \in D : ~(n < m /\ KnownToPast(program[n], program[m], settings))
  OBVIOUS
<1> HIDE DEF N, new, n
<1>3. \A k \in 1 .. N + 1 : k = N + 1 \/ (k \in 1 .. N /\ k < N + 1)
  BY <1>1
<1>4. \A k \in 1 .. N : k \in 1 .. N + 1
  BY <1>1
<1>5. N + 1 \in 1 .. N + 1
  BY <1>1
<1>6. \A m \in D \cup {n} : \E k \in DOMAIN new : new[k].id = m
  BY <1>1, <1>4, <1>5 DEF InStep
<1>7. \A k \in DOMAIN new : new[k].id # 0 => new[k].id \in D \cup {n}
  BY <1>1, <1>3 DEF InStep
<1>8. \A k, l \in DOMAIN new : new[k].id # 0 /\ new[k].id = new[l].id => k = l
  <2>1. \A k \in 1 .. N : new[k].id # 0 => new[k].id # n
    BY <1>1, <1>2 DEF InStep
  <2> QED BY <1>1, <1>2, <1>3, <2>1 DEF InStep
<1>9. ASSUME NEW k \in DOMAIN new, NEW l \in DOMAIN new, new[k].id # 0, new[l].id # 0, new[k].id < new[l].id,
             KnownToPast(program[new[k].id], program[new[l].id], settings)
      PROVE  k < l
  <2>1. CASE k = N + 1
    <3>1. l = N + 1 \/ l \in 1 .. N
      BY <1>1, <1>3
    <3>2. CASE l \in 1 .. N
      <4>1. new[l].id \in D
        BY <1>1, <1>9, <3>2 DEF InStep
      <4> QED BY <1>1, <1>2, <1>9, <2>1, <4>1
    <3>3. CASE l = N + 1
      BY <1>1, <1>2, <1>9, <2>1, <3>3
    <3> QED BY <3>1, <3>2, <3>3
  <2>2. CASE k \in 1 .. N /\ l = N + 1
    BY <1>1, <1>3, <2>2
  <2>3. CASE k \in 1 .. N /\ l \in 1 .. N
    BY <1>1, <1>9, <2>3 DEF InStep
  <2> QED BY <1>1, <1>3, <2>1, <2>2, <2>3
<1>10. InStep(new, D \cup {n})
  BY <1>6, <1>7, <1>8, <1>9 DEF InStep
<1> QED BY <1>10 DEF new, n

-----------------------------------------------------------------------------
(* The line as a whole, when gates move from one of its parts to another.  *)

LEMMA Regrouped ==
  ASSUME NEW S, NEW s \in Seq(S), NEW t \in Seq(S), NEW u \in Seq(S)
  PROVE  (s \o t) \o u = s \o (t \o u) /\ s \o <<>> = s /\ <<>> \o s = s
<1> DEFINE x == (s \o t) \o u
           y == s \o (t \o u)
<1>1. /\ s \o t \in Seq(S) /\ t \o u \in Seq(S) /\ x \in Seq(S) /\ y \in Seq(S)
      /\ Len(x) = Len(s) + Len(t) + Len(u) /\ Len(y) = Len(s) + Len(t) + Len(u)
      /\ Len(s \o t) = Len(s) + Len(t) /\ Len(s) \in Nat /\ Len(t) \in Nat /\ Len(u) \in Nat
  OBVIOUS
<1>2. ASSUME NEW k \in 1 .. Len(x) PROVE x[k] = y[k]
  <2>1. CASE k <= Len(s)
    BY <1>1, <2>1
  <2>2. CASE ~(k <= Len(s)) /\ k <= Len(s) + Len(t)
    BY <1>1, <2>2
  <2>3. CASE ~(k <= Len(s) + Len(t))
    BY <1>1, <2>3
  <2> QED BY <2>1, <2>2, <2>3
<1>3. x = y
  <2> HIDE DEF x, y
  <2>1. Len(x) = Len(y)
    BY <1>1
  <2> QED BY <1>1, <1>2, <2>1, SameLists
<1>4. s \o <<>> = s /\ <<>> \o s = s
  OBVIOUS
<1> QED BY <1>3, <1>4

LEMMA GatesTyped ==
  ASSUME NEW G, NEW s \in Seq(Placed(G)), NEW t \in Seq(Placed(G))
  PROVE  /\ GatesOf(s) \in Seq(G) /\ Len(GatesOf(s)) = Len(s) /\ DOMAIN GatesOf(s) = 1 .. Len(s)
         /\ \A k \in 1 .. Len(s) : GatesOf(s)[k] = s[k].gate
         /\ GatesOf(s \o t) = GatesOf(s) \o GatesOf(t)
<1>1. ASSUME NEW x \in Seq(Placed(G))
      PROVE  /\ GatesOf(x) \in Seq(G) /\ Len(GatesOf(x)) = Len(x) /\ DOMAIN GatesOf(x) = 1 .. Len(x)
             /\ \A k \in 1 .. Len(x) : GatesOf(x)[k] = x[k].gate
  <2>1. DOMAIN x = 1 .. Len(x) /\ Len(x) \in Nat /\ \A i \in DOMAIN x : x[i] \in Placed(G)
    BY <1>1
  <2>2. \A i \in 1 .. Len(x) : x[i].gate \in G
    BY <2>1 DEF Placed
  <2>3. GatesOf(x) = [i \in 1 .. Len(x) |-> x[i].gate]
    BY <2>1 DEF GatesOf
  <2> QED BY <2>1, <2>2, <2>3
<1>2. s \o t \in Seq(Placed(G)) /\ Len(s \o t) = Len(s) + Len(t) /\ Len(s) \in Nat /\ Len(t) \in Nat
      /\ (\A k \in 1 .. Len(s) : (s \o t)[k] = s[k]) /\ \A k \in 1 .. Len(t) : (s \o t)[Len(s) + k] = t[k]
  OBVIOUS
<1> DEFINE x == GatesOf(s \o t)
           y == GatesOf(s) \o GatesOf(t)
<1>3. x \in Seq(G) /\ Len(x) = Len(s) + Len(t) /\ \A k \in 1 .. Len(x) : x[k] = (s \o t)[k].gate
  BY <1>1, <1>2
<1>4. y \in Seq(G) /\ Len(y) = Len(s) + Len(t)
      /\ (\A k \in 1 .. Len(s) : y[k] = s[k].gate) /\ \A k \in 1 .. Len(t) : y[Len(s) + k] = t[k].gate
  <2>1. /\ GatesOf(s) \in Seq(G) /\ Len(GatesOf(s)) = Len(s) /\ \A k \in 1 .. Len(s) : GatesOf(s)[k] = s[k].gate
        /\ GatesOf(t) \in Seq(G) /\ Len(GatesOf(t)) = Len(t) /\ \A k \in 1 .. Len(t) : GatesOf(t)[k] = t[k].gate
    BY <1>1
  <2> DEFINE p == GatesOf(s)
             r == GatesOf(t)
  <2> HIDE DEF p, r
  <2>2. /\ p \in Seq(G) /\ Len(p) = Len(s) /\ \A k \in 1 .. Len(s) : p[k] = s[k].gate
        /\ r \in Seq(G) /\ Len(r) = Len(t) /\ \A k \in 1 .. Len(t) : r[k] = t[k].gate
    BY <2>1 DEF p, r
  <2>3. /\ p \o r \in Seq(G) /\ Len(p \o r) = Len(p) + Len(r) /\ (\A k \in 1 .. Len(p) : (p \o r)[k] = p[k])
        /\ \A k \in 1 .. Len(r) : (p \o r)[Len(p) + k] = r[k]
    <3>1. p \in Seq(G) /\ r \in Seq(G)
      BY <2>2
    <3> QED BY ONLY <3>1, Joining
  <2>4. y = p \o r
    BY DEF p, r
  <2> HIDE DEF y
  <2> QED BY <2>2, <2>3, <2>4
<1> HIDE DEF x, y
<1>5. ASSUME NEW k \in 1 .. Len(x) PROVE x[k] = y[k]
  <2>1. CASE k <= Len(s)
    BY <1>2, <1>3, <1>4, <2>1
  <2>2. CASE ~(k <= Len(s))
    <3>1. k - Len(s) \in 1 .. Len(t) /\ k = Len(s) + (k - Len(s))
      BY <1>2, <1>3, <2>2
    <3> QED BY <1>2, <1>3, <1>4, <3>1
  <2> QED BY <2>1, <2>2
<1>6. x = y
  BY <1>3, <1>4, <1>5, SameLists
<1> QED BY <1>1, <1>6 DEF x, y

LEMMA LineIs ==
  ASSUME NEW G, NEW q \in Pasts(G), NEW rest \in Seq(G)
  PROVE  /\ Line(q, rest) = ((GatesOf(q.output) \o GatesOf(q.gates)) \o q.waiting) \o rest
         /\ GatesOf(q.output) \in Seq(G) /\ GatesOf(q.gates) \in Seq(G) /\ q.waiting \in Seq(G)
<1> DEFINE L == Line(q, rest)
           a == Len(q.output)
           b == Len(q.gates)
           c == Len(q.waiting)
           d == Len(rest)
           x == GatesOf(q.output)
           y == GatesOf(q.gates)
           w == q.waiting
           M == ((x \o y) \o w) \o rest
<1>1. L \in Seq(G) /\ Parts(L, q, rest, a, b, c, d)
  BY LineFacts
<1>2. q.output \in Seq(Placed(G)) /\ q.gates \in Seq(Placed(G)) /\ w \in Seq(G)
  BY DEF Pasts
<1>3. /\ x \in Seq(G) /\ Len(x) = a /\ \A k \in 1 .. a : x[k] = q.output[k].gate
      /\ y \in Seq(G) /\ Len(y) = b /\ \A k \in 1 .. b : y[k] = q.gates[k].gate
  <2>1. q.output \in Seq(Placed(G)) /\ q.gates \in Seq(Placed(G))
    BY <1>2
  <2>2. /\ GatesOf(q.output) \in Seq(G) /\ Len(GatesOf(q.output)) = Len(q.output)
        /\ \A k \in 1 .. Len(q.output) : GatesOf(q.output)[k] = q.output[k].gate
    BY ONLY <2>1, GatesTyped
  <2>3. /\ GatesOf(q.gates) \in Seq(G) /\ Len(GatesOf(q.gates)) = Len(q.gates)
        /\ \A k \in 1 .. Len(q.gates) : GatesOf(q.gates)[k] = q.gates[k].gate
    BY ONLY <2>1, GatesTyped
  <2> QED BY ONLY <2>2, <2>3 DEF x, y, a, b
<1>4. /\ Len(L) = a + b + c + d /\ a \in Nat /\ b \in Nat /\ c \in Nat /\ d \in Nat
      /\ (\A k \in 1 .. a : L[k] = q.output[k].gate) /\ (\A k \in 1 .. b : L[a + k] = q.gates[k].gate)
      /\ (\A k \in 1 .. c : L[a + b + k] = w[k]) /\ (\A k \in 1 .. d : L[a + b + c + k] = rest[k])
  BY <1>1 DEF Parts
<1>5. Len(w) = c /\ Len(rest) = d
  OBVIOUS
<1> HIDE DEF L, a, b, c, d, x, y, w
<1>6. /\ x \o y \in Seq(G) /\ Len(x \o y) = a + b
      /\ (\A k \in 1 .. a : (x \o y)[k] = x[k]) /\ \A k \in 1 .. b : (x \o y)[a + k] = y[k]
  <2>1. /\ x \o y \in Seq(G) /\ Len(x \o y) = Len(x) + Len(y) /\ (\A k \in 1 .. Len(x) : (x \o y)[k] = x[k])
        /\ \A k \in 1 .. Len(y) : (x \o y)[Len(x) + k] = y[k]
    <3>1. x \in Seq(G) /\ y \in Seq(G)
      BY <1>3
    <3> QED BY ONLY <3>1, Joining
  <2> QED BY <1>3, <2>1
<1> DEFINE z == x \o y
<1>7. /\ z \o w \in Seq(G) /\ Len(z \o w) = a + b + c
      /\ (\A k \in 1 .. a + b : (z \o w)[k] = z[k]) /\ \A k \in 1 .. c : (z \o w)[a + b + k] = w[k]
  <2> HIDE DEF z
  <2>1. z \in Seq(G) /\ Len(z) = a + b
    BY <1>6 DEF z
  <2>2. /\ z \o w \in Seq(G) /\ Len(z \o w) = Len(z) + Len(w) /\ (\A k \in 1 .. Len(z) : (z \o w)[k] = z[k])
        /\ \A k \in 1 .. Len(w) : (z \o w)[Len(z) + k] = w[k]
    <3>1. z \in Seq(G) /\ w \in Seq(G)
      BY <1>2, <2>1
    <3> QED BY ONLY <3>1, Joining
  <2> QED BY <1>5, <2>1, <2>2
<1> DEFINE u == z \o w
<1>8. /\ M \in Seq(G) /\ Len(M) = a + b + c + d
      /\ (\A k \in 1 .. a + b + c : M[k] = u[k]) /\ \A k \in 1 .. d : M[a + b + c + k] = rest[k]
  <2> HIDE DEF u
  <2>1. u \in Seq(G) /\ Len(u) = a + b + c
    BY <1>7 DEF u
  <2>2. M = u \o rest
    BY DEF u
  <2>3. /\ u \o rest \in Seq(G) /\ Len(u \o rest) = Len(u) + Len(rest)
        /\ (\A k \in 1 .. Len(u) : (u \o rest)[k] = u[k])
        /\ \A k \in 1 .. Len(rest) : (u \o rest)[Len(u) + k] = rest[k]
    BY <2>1
  <2> HIDE DEF M
  <2> QED BY <1>5, <2>1, <2>2, <2>3
<1> HIDE DEF M, z, u
<1>9. ASSUME NEW n \in 1 .. Len(L) PROVE L[n] = M[n]
  <2>1. \/ n \in 1 .. a
        \/ \E k \in 1 .. b : n = a + k
        \/ \E k \in 1 .. c : n = a + b + k
        \/ \E k \in 1 .. d : n = a + b + c + k
    BY <1>4, FourParts
  <2>2. CASE n \in 1 .. a
    <3>1. n \in 1 .. a + b /\ n \in 1 .. a + b + c
      BY <1>4, <2>2
    <3>2. M[n] = u[n] /\ u[n] = z[n] /\ z[n] = x[n]
      BY <1>6, <1>7, <1>8, <2>2, <3>1 DEF z, u
    <3> QED BY <1>3, <1>4, <2>2, <3>2
  <2>3. ASSUME NEW k \in 1 .. b, n = a + k PROVE L[n] = M[n]
    <3>1. n \in 1 .. a + b /\ n \in 1 .. a + b + c
      BY <1>4, <2>3
    <3>2. M[n] = u[n] /\ u[n] = z[n] /\ z[n] = y[k]
      BY <1>6, <1>7, <1>8, <2>3, <3>1 DEF z, u
    <3> QED BY <1>3, <1>4, <2>3, <3>2
  <2>4. ASSUME NEW k \in 1 .. c, n = a + b + k PROVE L[n] = M[n]
    <3>1. n \in 1 .. a + b + c
      BY <1>4, <2>4
    <3>2. M[n] = u[n] /\ u[n] = w[k]
      BY <1>7, <1>8, <2>4, <3>1 DEF u
    <3> QED BY <1>4, <2>4, <3>2
  <2>5. ASSUME NEW k \in 1 .. d, n = a + b + c + k PROVE L[n] = M[n]
    BY <1>4, <1>8, <2>5
  <2> QED BY <2>1, <2>2, <2>3, <2>4, <2>5
<1>10. L = M
  BY <1>1, <1>4, <1>8, <1>9, SameLists
<1> QED BY <1>2, <1>3, <1>10 DEF M, L, x, y, w

\* New waiting gates were the first of those to come.
LEMMA LineMore ==
  ASSUME NEW G, NEW q \in Pasts(G), NEW r \in Pasts(G), NEW rest \in Seq(G), NEW more \in Seq(G),
         r.output = q.output, r.gates = q.gates, r.waiting = q.waiting \o more
  PROVE  Line(r, rest) = Line(q, more \o rest) /\ more \o rest \in Seq(G)
<1> DEFINE z == GatesOf(q.output) \o GatesOf(q.gates)
           w == q.waiting
<1>1. more \o rest \in Seq(G)
  BY Joining
<1>2. /\ Line(q, more \o rest) = (z \o w) \o (more \o rest)
      /\ GatesOf(q.output) \in Seq(G) /\ GatesOf(q.gates) \in Seq(G) /\ w \in Seq(G)
  BY <1>1, LineIs
<1>3. Line(r, rest) = (z \o (w \o more)) \o rest
  BY LineIs
<1>4. z \in Seq(G)
  BY <1>2, Joining
<1> HIDE DEF z, w
<1>5. z \o (w \o more) = (z \o w) \o more /\ z \o w \in Seq(G)
  <2>1. z \o w \in Seq(G)
    BY <1>2, <1>4, Joining
  <2>2. (z \o w) \o more = z \o (w \o more)
    <3>1. z \in Seq(G) /\ w \in Seq(G) /\ more \in Seq(G)
      BY <1>2, <1>4
    <3> QED BY ONLY <3>1, Regrouped
  <2> QED BY <2>1, <2>2
<1> DEFINE u == z \o w
<1>6. u \in Seq(G)
  BY <1>5
<1> HIDE DEF u
<1>7. (u \o more) \o rest = u \o (more \o rest)
  BY <1>6, Regrouped
<1> QED BY <1>1, <1>2, <1>3, <1>5, <1>7 DEF u

\* So they come at the end.
LEMMA LineEnds ==
  ASSUME NEW G, NEW q \in Pasts(G), NEW more \in Seq(G)
  PROVE  Line(q, more) = Line(q, <<>>) \o more /\ Line(q, <<>>) \in Seq(G)
<1> DEFINE u == (GatesOf(q.output) \o GatesOf(q.gates)) \o q.waiting
<1>1. <<>> \in Seq(G)
  OBVIOUS
<1>2. Line(q, <<>>) = u \o <<>> /\ Line(q, more) = u \o more /\ Line(q, <<>>) \in Seq(G)
  BY <1>1, LineIs, LineFacts
<1>3. u \in Seq(G)
  <2>1. GatesOf(q.output) \in Seq(G) /\ GatesOf(q.gates) \in Seq(G) /\ q.waiting \in Seq(G)
    BY <1>1, LineIs
  <2> DEFINE z == GatesOf(q.output) \o GatesOf(q.gates)
  <2>2. z \in Seq(G)
    BY <2>1, Joining
  <2> HIDE DEF z
  <2>3. z \o q.waiting \in Seq(G)
    BY <2>1, <2>2, Joining
  <2> QED BY <2>3 DEF z
<1> HIDE DEF u
<1>4. u \o <<>> = u
  BY <1>3, Regrouped
<1> QED BY <1>2, <1>4

\* Nor does it matter when the scheduled gates go to the output, and gates that need no
\* scheduling go there at once when none is waiting.
LEMMA LineFlushed ==
  ASSUME NEW G, NEW q \in Pasts(G), q.waiting = <<>>, NEW rest \in Seq(G), NEW new \in Seq(Placed(G)), NEW r \in Pasts(G),
         r.output = (q.output \o q.gates) \o new, r.gates = <<>>, r.waiting = <<>>
  PROVE  Line(r, rest) = Line(q, GatesOf(new) \o rest) /\ GatesOf(new) \in Seq(G)
<1> DEFINE x == GatesOf(q.output)
           y == GatesOf(q.gates)
           z == x \o y
           more == GatesOf(new)
<1>1. q.output \in Seq(Placed(G)) /\ q.gates \in Seq(Placed(G)) /\ q.output \o q.gates \in Seq(Placed(G))
  <2>1. q.output \in Seq(Placed(G)) /\ q.gates \in Seq(Placed(G))
    BY DEF Pasts
  <2> QED BY <2>1, Joining
<1>2. x \in Seq(G) /\ y \in Seq(G) /\ more \in Seq(G) /\ GatesOf(q.output \o q.gates) = z
  BY <1>1, GatesTyped
<1>3. GatesOf((q.output \o q.gates) \o new) = z \o more
  <2> DEFINE o == q.output \o q.gates
  <2>1. o \in Seq(Placed(G)) /\ GatesOf(o) = z
    BY <1>1, <1>2
  <2> HIDE DEF o, z, more
  <2>2. GatesOf(o \o new) = GatesOf(o) \o GatesOf(new)
    BY <2>1, GatesTyped
  <2> QED BY <2>1, <2>2 DEF o, more
<1>4. z \in Seq(G) /\ more \o rest \in Seq(G) /\ GatesOf(<<>>) = <<>>
  <2>1. GatesOf(<<>>) = <<>>
    BY DEF GatesOf
  <2> QED BY <1>2, <2>1, Joining
<1>5. Line(q, more \o rest) = (z \o <<>>) \o (more \o rest)
  BY <1>4, LineIs
<1>6. Line(r, rest) = (((z \o more) \o <<>>) \o <<>>) \o rest
  <2>1. /\ r \in Pasts(G) /\ rest \in Seq(G)
        /\ r.output = (q.output \o q.gates) \o new /\ r.gates = <<>> /\ r.waiting = <<>>
    OBVIOUS
  <2>2. Line(r, rest) = ((GatesOf(r.output) \o GatesOf(r.gates)) \o r.waiting) \o rest
    BY ONLY <2>1, LineIs
  <2>3. GatesOf(r.output) = z \o more /\ GatesOf(r.gates) = <<>>
    BY <1>3, <1>4, <2>1
  <2> HIDE DEF z, more
  <2> QED BY ONLY <2>1, <2>2, <2>3
<1> HIDE DEF z, more
<1>7. z \o <<>> = z
  BY <1>4, Regrouped
<1> DEFINE u == z \o more
<1>8. u \in Seq(G)
  BY <1>2, <1>4, Joining
<1> HIDE DEF u
<1>9. u \o <<>> = u
  BY <1>8, Regrouped
<1>10. Line(r, rest) = (z \o more) \o rest
  BY <1>6, <1>9 DEF u
<1>11. (z \o more) \o rest = z \o (more \o rest)
  <2>1. z \in Seq(G) /\ more \in Seq(G) /\ rest \in Seq(G)
    BY <1>2, <1>4
  <2>2. \A s \in Seq(G), t \in Seq(G), v \in Seq(G) : (s \o t) \o v = s \o (t \o v)
    BY ONLY Regrouped
  <2> QED BY ONLY <2>1, <2>2
<1> QED BY <1>2, <1>5, <1>7, <1>10, <1>11 DEF more

-----------------------------------------------------------------------------
(* Swaps keep the account right.                                           *)

LEMMA OwnRun ==
  ASSUME job \in Jobs, ~Resets, NEW s \in States, NEW a \in Qubits, NEW b \in Qubits, a # b,
         NEW name \in {"move", "tmove", "swap", "tswap"}, NewGate(name, <<a, b>>) \in MappedGates(job)
  PROVE  LET t == Run(s, NewGate(name, <<a, b>>))
         IN /\ t \in States /\ t.value = s.value
            /\ \A r \in Qubits : t.content[r] = IF r = a THEN s.content[b] ELSE IF r = b THEN s.content[a] ELSE s.content[r]
            /\ s.ok /\ ~HasState(s, b) => t.ok
            /\ s.ok /\ name \in {"swap", "tswap"} => t.ok
            /\ s.zeroes /\ (name \in {"swap", "tswap"} \/ s.content[b] = Zero) => t.zeroes
<1> DEFINE g == NewGate(name, <<a, b>>)
           t == Run(s, g)
<1>1. g.id = 0 /\ g.name = name /\ g.operands = <<a, b>>
  BY DEF NewGate
<1>2. t = Effect(s, g) /\ t \in States
  BY RunEffect
<1>3. t.ok = (s.ok /\ Fine(s, g)) /\ t.zeroes = (s.zeroes /\ Pure(s, g))
  BY RunOk
<1> HIDE DEF g, t
<1>4. <<a, b>>[1] = a /\ <<a, b>>[2] = b /\ Len(<<a, b>>) = 2 /\ DOMAIN <<a, b>> = {1, 2}
  OBVIOUS
<1>5. g.operands[1] = a /\ LastOp(g) = b
  BY <1>1, <1>4 DEF LastOp
<1>6. Ops(g) = {a, b}
  BY <1>1, <1>4 DEF Ops
<1>7. Virtuals(g) = {}
  BY <1>1 DEF Virtuals, VirtualsOf
<1>8. t.value = s.value
  <2>1. s.value \in [Qubits -> {"unused", "zero", "live"}]
    BY DEF States
  <2>2. t.value = [v \in Qubits |-> s.value[v]]
    BY <1>2, <1>7 DEF Effect
  <2> QED BY <2>1, <2>2
<1>9. \A r \in Qubits : t.content[r] = IF r = a THEN s.content[b] ELSE IF r = b THEN s.content[a] ELSE s.content[r]
  <2>1. \A r \in Qubits : t.content[r] = IF r \in Ops(g) THEN Put(s, g, r) ELSE s.content[r]
    BY <1>2 DEF Effect
  <2>2. Put(s, g, a) = s.content[b] /\ Put(s, g, b) = s.content[a]
    BY <1>1, <1>5 DEF Put
  <2> QED BY <1>6, <2>1, <2>2
<1>10. (s.ok /\ ~HasState(s, b) => t.ok) /\ (s.ok /\ name \in {"swap", "tswap"} => t.ok)
  <2>1. (~HasState(s, b) => Fine(s, g)) /\ (name \in {"swap", "tswap"} => Fine(s, g))
    BY <1>1, <1>5 DEF Fine
  <2> QED BY <1>3, <2>1
<1>11. s.zeroes /\ (name \in {"swap", "tswap"} \/ s.content[b] = Zero) => t.zeroes
  <2>1. name \in {"swap", "tswap"} \/ s.content[b] = Zero => Pure(s, g)
    BY <1>1, <1>5 DEF Pure
  <2> QED BY <1>3, <2>1
<1> QED BY <1>2, <1>8, <1>9, <1>10, <1>11 DEF t, g

LEMMA InitRun ==
  ASSUME job \in Jobs, ~Resets, NEW s \in States, NEW b \in Qubits, NewGate("prepz", <<b>>) \in MappedGates(job)
  PROVE  LET t == Run(s, NewGate("prepz", <<b>>))
         IN /\ t \in States /\ t.value = s.value /\ t.zeroes = s.zeroes
            /\ \A r \in Qubits : t.content[r] = IF r = b THEN Zero ELSE s.content[r]
            /\ s.ok /\ ~HasState(s, b) => t.ok
<1> DEFINE g == NewGate("prepz", <<b>>)
           t == Run(s, g)
<1>1. g.id = 0 /\ g.name = "prepz" /\ g.operands = <<b>>
  BY DEF NewGate
<1>2. t = Effect(s, g) /\ t \in States
  BY RunEffect
<1>3. t.ok = (s.ok /\ Fine(s, g)) /\ t.zeroes = (s.zeroes /\ Pure(s, g))
  BY RunOk
<1> HIDE DEF g, t
<1>4. <<b>>[1] = b /\ DOMAIN <<b>> = {1}
  OBVIOUS
<1>5. g.operands[1] = b /\ Ops(g) = {b} /\ Virtuals(g) = {}
  BY <1>1, <1>4 DEF Ops, Virtuals, VirtualsOf
<1>6. t.value = s.value
  <2>1. s.value \in [Qubits -> {"unused", "zero", "live"}]
    BY DEF States
  <2>2. t.value = [v \in Qubits |-> s.value[v]]
    BY <1>2, <1>5 DEF Effect
  <2> QED BY <2>1, <2>2
<1>7. \A r \in Qubits : t.content[r] = IF r = b THEN Zero ELSE s.content[r]
  <2>1. \A r \in Qubits : t.content[r] = IF r \in Ops(g) THEN Put(s, g, r) ELSE s.content[r]
    BY <1>2 DEF Effect
  <2>2. Put(s, g, b) = Zero
    BY <1>1, <1>5 DEF Put
  <2> QED BY <1>5, <2>1, <2>2
<1>8. s.ok /\ ~HasState(s, b) => t.ok
  <2>1. ~HasState(s, b) => Fine(s, g)
    BY <1>1, <1>5 DEF Fine
  <2> QED BY <1>3, <2>1
<1>9. t.zeroes = s.zeroes
  <2>1. Pure(s, g) /\ s.zeroes \in BOOLEAN
    BY <1>1 DEF Pure, States
  <2> QED BY <1>3, <2>1
<1> QED BY <1>2, <1>6, <1>7, <1>8, <1>9 DEF t, g

\* A move, from a to b, on whose state nothing rests.
LEMMA MoveTracked ==
  ASSUME job \in Jobs, ~Resets, NEW s \in States, s.ok, NEW map \in Mappings, Tracked(s, map),
         NEW a \in Qubits, NEW b \in Qubits, a # b, map.state[b] # "live",
         NEW name \in {"move", "tmove"}, NewGate(name, <<a, b>>) \in MappedGates(job)
  PROVE  /\ Run(s, NewGate(name, <<a, b>>)) \in States /\ Run(s, NewGate(name, <<a, b>>)).ok
         /\ Tracked(Run(s, NewGate(name, <<a, b>>)), Mapping!Swap(map, a, b))
<1> DEFINE t == Run(s, NewGate(name, <<a, b>>))
<1>1. /\ t \in States /\ t.value = s.value
      /\ \A r \in Qubits : t.content[r] = IF r = a THEN s.content[b] ELSE IF r = b THEN s.content[a] ELSE s.content[r]
      /\ s.ok /\ ~HasState(s, b) => t.ok
      /\ s.zeroes /\ s.content[b] = Zero => t.zeroes
  BY OwnRun
<1> HIDE DEF t
<1>2. ~HasState(s, b)
  BY DEF Tracked
<1>3. settings.initialized => t.zeroes
  <2> SUFFICES ASSUME settings.initialized PROVE t.zeroes
    OBVIOUS
  <2>1. map.state[b] = "initialized"
    <3>1. map.state[b] # "none" /\ map.state[b] \in {"none", "initialized", "live"}
      BY DEF Tracked, Mappings
    <3> QED BY <3>1
  <2>2. s.zeroes /\ s.content[b] = Zero
    BY <2>1 DEF Tracked
  <2> QED BY <1>1, <2>2
<1>4. t.value = s.value
  BY <1>1
<1>5. \A r \in Qubits : t.content[r] = IF r = a THEN s.content[b] ELSE IF r = b THEN s.content[a] ELSE s.content[r]
  BY <1>1
<1>6. Tracked(t, Mapping!Swap(map, a, b))
  BY <1>3, <1>4, <1>5, TrackedSwap
<1> QED BY <1>1, <1>2, <1>6 DEF t

LEMMA TwoJoined ==
  ASSUME NEW a, NEW b
  PROVE  <<a>> \o <<b>> = <<a, b>>
<1> DEFINE u == <<a>>  v == <<b>>  w == u \o v
<1>1. u \in Seq({a, b}) /\ v \in Seq({a, b}) /\ Len(u) = 1 /\ Len(v) = 1 /\ u[1] = a /\ v[1] = b
  OBVIOUS
<1> HIDE DEF u, v
<1>2. w \in Seq({a, b}) /\ Len(w) = 2 /\ w[1] = a /\ w[2] = b
  <2>1. w \in Seq({a, b}) /\ Len(w) = Len(u) + Len(v)
        /\ (\A k \in 1 .. Len(u) : w[k] = u[k]) /\ (\A k \in 1 .. Len(v) : w[Len(u) + k] = v[k])
    BY <1>1, Joining
  <2> HIDE DEF w
  <2>2. 1 \in 1 .. Len(u) /\ 1 \in 1 .. Len(v) /\ Len(u) + 1 = 2 /\ Len(u) + Len(v) = 2
    BY <1>1
  <2> QED BY <1>1, <2>1, <2>2
<1> HIDE DEF w
<1>3. w = <<a, b>>
  BY <1>2
<1> QED BY <1>3 DEF u, v, w

LEMMA OwnAppended ==
  ASSUME job \in Jobs, ~Resets, NEW list \in Seq(MappedGates(job)), NEW D, InStep(list, D),
         NEW g \in MappedGates(job), g.id = 0
  PROVE  /\ list \o <<g>> \in Seq(MappedGates(job)) /\ InStep(list \o <<g>>, D)
         /\ Replay(list \o <<g>>) = Run(Replay(list), g) /\ Replay(list) \in States
<1>1. <<g>> \in Seq(MappedGates(job))
  OBVIOUS
<1>2. list \o <<g>> \in Seq(MappedGates(job))
  BY <1>1, Joining
<1> QED BY <1>2, ReplayNext, InStepOwn

\* What has to hold of the gates of a swap between a and b and the mapping it starts from.
Carried(list, D, gates, map, a, b) ==
  /\ gates \in Seq(MappedGates(job)) /\ map \in Mappings /\ InStep(list \o gates, D)
  /\ Replay(list \o gates).ok /\ Tracked(Replay(list \o gates), Mapping!Swap(map, a, b))
  /\ \E s \in States : Tracked(s, map)

LEMMA MoveCarried ==
  ASSUME job \in Jobs, ~Resets, NEW list \in Seq(MappedGates(job)), NEW D, InStep(list, D), Replay(list).ok,
         NEW p, p.map \in Mappings, Tracked(Replay(list), p.map), NEW a \in Qubits, NEW b \in Qubits,
         Linked(topology, a, b), NEW gates, NEW map, MoveMade(p, topology, gates, map, a, b)
  PROVE  Carried(list, D, gates, map, a, b)
<1> DEFINE G == MappedGates(job)
           init == NewGate("prepz", <<b>>)
           name == MoveName(topology, a, b)
           move == NewGate(name, <<a, b>>)
           s == Replay(list)
<1>1. init \in G /\ move \in G
  BY OwnGates DEF topology
<1>2. init.id = 0 /\ move.id = 0 /\ name \in {"move", "tmove"}
  BY DEF NewGate, MoveName
<1>3. a # b
  BY DEF Linked
<1>4. p.map.state[b] # "live"
  BY DEF MoveMade, IsLive
<1>5. s \in States /\ s.ok /\ Tracked(s, p.map)
  BY <1>1, <1>2, OwnAppended
<1>6. CASE p.map.state[b] # "none"
  <2>1. gates = <<move>> /\ map = p.map
    BY <1>6 DEF MoveMade
  <2>2. Run(s, move).ok /\ Tracked(Run(s, move), Mapping!Swap(p.map, a, b))
    BY <1>1, <1>2, <1>3, <1>4, <1>5, MoveTracked
  <2> HIDE DEF move, s, G, name
  <2>3. InStep(list \o <<move>>, D) /\ Replay(list \o <<move>>) = Run(s, move)
    BY <1>1, <1>2, OwnAppended DEF s, G
  <2>4. <<move>> \in Seq(G)
    BY <1>1
  <2> QED BY <1>5, <2>1, <2>2, <2>3, <2>4 DEF Carried, G
<1>7. CASE p.map.state[b] = "none"
  <2>1. gates = <<init, move>> /\ map = Mapping!SetState(p.map, b, "initialized")
    BY <1>7 DEF MoveMade
  <2> DEFINE t == Run(s, init)
             one == list \o <<init>>
  <2>2. /\ t \in States /\ t.value = s.value /\ t.zeroes = s.zeroes
        /\ \A r \in Qubits : t.content[r] = IF r = b THEN Zero ELSE s.content[r]
        /\ s.ok /\ ~HasState(s, b) => t.ok
    BY <1>1, <1>5, InitRun
  <2>3. ~HasState(s, b)
    BY <1>4, <1>5 DEF Tracked
  <2>4. one \in Seq(G) /\ InStep(one, D) /\ Replay(one) = t
    BY <1>1, <1>2, OwnAppended
  <2> HIDE DEF t, one, s
  <2>5. t.ok
    BY <1>5, <2>2, <2>3
  <2>6. Tracked(t, map) /\ map \in Mappings
    <3>1. t.value = s.value /\ t.zeroes = s.zeroes
          /\ \A r \in Qubits : t.content[r] = IF r = b THEN Zero ELSE s.content[r]
      BY <2>2
    <3> QED BY <1>4, <1>5, <2>1, <3>1, TrackedInit
  <2>7. map.state[b] # "live"
    <3>1. map.state = [p.map.state EXCEPT ![b] = "initialized"]
      BY <2>1 DEF Mapping!SetState, Mappings
    <3>2. p.map.state \in [Qubits -> {"none", "initialized", "live"}]
      BY DEF Mappings
    <3> QED BY <3>1, <3>2
  <2>8. Run(t, move).ok /\ Tracked(Run(t, move), Mapping!Swap(map, a, b))
    BY <1>1, <1>2, <1>3, <2>2, <2>5, <2>6, <2>7, MoveTracked
  <2> HIDE DEF move, init, name
  <2>9. InStep(one \o <<move>>, D) /\ Replay(one \o <<move>>) = Run(t, move)
    BY <1>1, <1>2, <2>4, OwnAppended
  <2>10. one \o <<move>> = list \o gates /\ gates \in Seq(G)
    <3>1. <<init>> \in Seq(G) /\ <<move>> \in Seq(G) /\ <<init, move>> \in Seq(G)
      BY <1>1
    <3>2. <<init>> \o <<move>> = <<init, move>>
      BY TwoJoined
    <3>3. (list \o <<init>>) \o <<move>> = list \o (<<init>> \o <<move>>)
      BY <3>1, Regrouped
    <3> QED BY <2>1, <3>1, <3>2, <3>3 DEF one
  <2> HIDE DEF G
  <2> QED BY <2>2, <2>6, <2>8, <2>9, <2>10 DEF Carried, G
<1> QED BY <1>6, <1>7

LEMMA SwapCarried ==
  ASSUME job \in Jobs, ~Resets, NEW list \in Seq(MappedGates(job)), NEW D, InStep(list, D), Replay(list).ok,
         NEW p, p.map \in Mappings, Tracked(Replay(list), p.map), NEW a \in Qubits, NEW b \in Qubits,
         Linked(topology, a, b), NEW gates, NEW map, WholeSwap(p, topology, gates, map, a, b)
  PROVE  Carried(list, D, gates, map, a, b)
<1> DEFINE G == MappedGates(job)
           name == SwapName(topology, a, b)
           swap == NewGate(name, <<a, b>>)
           s == Replay(list)
<1>1. swap \in G
  BY OwnGates DEF topology
<1>2. swap.id = 0 /\ name \in {"swap", "tswap"}
  BY DEF NewGate, SwapName
<1>3. a # b
  BY DEF Linked
<1>4. s \in States /\ s.ok /\ Tracked(s, p.map)
  BY <1>1, <1>2, OwnAppended
<1>5. gates = <<swap>> /\ map = p.map
  BY DEF WholeSwap
<1> DEFINE t == Run(s, swap)
<1>6. /\ t.value = s.value
      /\ \A r \in Qubits : t.content[r] = IF r = a THEN s.content[b] ELSE IF r = b THEN s.content[a] ELSE s.content[r]
      /\ s.ok /\ name \in {"swap", "tswap"} => t.ok
      /\ s.zeroes /\ (name \in {"swap", "tswap"} \/ s.content[b] = Zero) => t.zeroes
  BY <1>1, <1>2, <1>3, <1>4, OwnRun
<1>7. InStep(list \o <<swap>>, D) /\ Replay(list \o <<swap>>) = t
  BY <1>1, <1>2, OwnAppended
<1> HIDE DEF t, s, swap, name
<1>8. t.ok
  BY <1>2, <1>4, <1>6
<1>9. settings.initialized => t.zeroes
  BY <1>2, <1>4, <1>6 DEF Tracked
<1>10. Tracked(t, Mapping!Swap(map, a, b))
  <2>1. t.value = s.value
        /\ \A r \in Qubits : t.content[r] = IF r = a THEN s.content[b] ELSE IF r = b THEN s.content[a] ELSE s.content[r]
    BY <1>6
  <2> QED BY <1>3, <1>4, <1>5, <1>9, <2>1, TrackedSwap
<1>11. <<swap>> \in Seq(G)
  BY <1>1
<1> HIDE DEF G
<1> QED BY <1>4, <1>5, <1>7, <1>8, <1>10, <1>11 DEF Carried, G

LEMMA AnyCarried ==
  ASSUME job \in Jobs, ~Resets, NEW list \in Seq(MappedGates(job)), NEW D, InStep(list, D), Replay(list).ok,
         NEW p, p.map \in Mappings, Tracked(Replay(list), p.map), NEW a \in Qubits, NEW b \in Qubits,
         Linked(topology, a, b), NEW gates, NEW map, AnySwap(p, topology, gates, map, a, b)
  PROVE  Carried(list, D, gates, map, a, b) /\ Mapping!SwapAsserts(map, a, b)
<1>1. Linked(topology, b, a) /\ a # b
  BY DEF Linked
<1>2. Carried(list, D, gates, map, a, b) \/ Carried(list, D, gates, map, b, a)
  <2>1. CASE MoveMade(p, topology, gates, map, a, b)
    BY <2>1, MoveCarried
  <2>2. CASE MoveMade(p, topology, gates, map, b, a)
    BY <1>1, <2>2, MoveCarried
  <2>3. CASE WholeSwap(p, topology, gates, map, a, b)
    BY <2>3, SwapCarried
  <2>4. CASE WholeSwap(p, topology, gates, map, b, a)
    BY <1>1, <2>4, SwapCarried
  <2>5. CASE NoSwap(p, gates, map, a, b)
    <3>1. gates = <<>> /\ map = p.map /\ map.state[a] # "live" /\ map.state[b] # "live"
      BY <2>5 DEF NoSwap, IsLive
    <3>2. <<>> \in Seq(MappedGates(job)) /\ list \o <<>> = list
      BY Regrouped
    <3>3. Replay(list) \in States
      <4>1. Replay(list \o <<>>).ok
        BY <3>2
      <4> QED BY <3>2, <4>1, ReplayBefore
    <3>4. Tracked(Replay(list), Mapping!Swap(map, a, b))
      BY <1>1, <3>1, TrackedNoSwap
    <3> QED BY <3>1, <3>2, <3>3, <3>4 DEF Carried
  <2> QED BY <2>1, <2>2, <2>3, <2>4, <2>5 DEF AnySwap
<1>3. map \in Mappings /\ \E s \in States : Tracked(s, map)
  BY <1>2 DEF Carried
<1>4. PICK s \in States : Tracked(s, map)
  BY <1>3
<1>5. Mapping!Swap(map, a, b) = Mapping!Swap(map, b, a)
  BY <1>1, <1>3, <1>4, SwapSymmetric
<1>6. Mapping!SwapAsserts(map, a, b)
  BY <1>1, <1>3, <1>4, MapSwapped
<1> QED BY <1>2, <1>5, <1>6 DEF Carried

\* The past and the gates it will be given have placed every gate of D, each finding its states.
Sound(q, rest, D) ==
  /\ q \in Pasts(MappedGates(job)) /\ FcBound(q) /\ rest \in Seq(MappedGates(job))
  /\ Replay(Line(q, rest)).ok /\ InStep(Line(q, rest), D)

\* Scheduling a gate that waits changes nothing of this.
LEMMA SoundPlaced ==
  ASSUME job \in Jobs, ~Resets, NEW q, NEW rest, NEW D, Sound(q, rest, D),
         NEW i, NEW start, MayPlace(q, i, start), NEW o
  PROVE  LET n == Place(q, i, start, o)
         IN /\ Sound(n, rest, D) /\ Replay(Line(n, rest)) = Replay(Line(q, rest))
            /\ n.map = q.map /\ n.failed = q.failed /\ n.output = q.output
<1> DEFINE G == MappedGates(job)
           n == Place(q, i, start, o)
           list == Line(q, rest)
<1>1. /\ G \in SUBSET RealGates /\ q \in Pasts(G) /\ FcBound(q) /\ rest \in Seq(G)
      /\ Replay(list).ok /\ InStep(list, D)
  BY DEF Sound, MappedGates
<1>2. i \in 1 .. Len(q.waiting) /\ start \in Nat
  BY DEF MayPlace
<1>3. n \in Pasts(G) /\ n.map = q.map /\ n.failed = q.failed /\ n.output = q.output
  <2>1. n \in Pasts(G) /\ Moved(q, i, start, o, n)
    <3> HIDE DEF G
    <3> QED BY <1>1, <1>2, PlaceFacts
  <2> HIDE DEF n
  <2> QED BY <2>1 DEF Moved
<1>4. FcBound(n) /\ \E p, at : Hurried(q, n, rest, p, at)
  <2> HIDE DEF G
  <2> QED BY <1>1, LinePlaced
<1>5. PICK p, at : Hurried(q, n, rest, p, at)
  BY <1>4
<1>6. /\ p \in 1 .. Len(list) /\ at \in 1 .. p /\ Line(n, rest) = MovedTo(list, p, at)
      /\ \A k \in at .. p - 1 : Written(list[k]) \cap Awaited(list[p]) = {}
  BY <1>5 DEF Hurried
<1>7. list \in Seq(G)
  <2> HIDE DEF G
  <2> QED BY <1>1, LineFacts
<1> HIDE DEF list, G, n
<1>8. ASSUME NEW k \in at .. p - 1 PROVE Separate(list[k], list[p])
  <2>1. k \in 1 .. Len(list) /\ p \in 1 .. Len(list)
    BY <1>6, <1>7
  <2>2. list[k] \in G /\ list[p] \in G
    BY <1>7, <2>1
  <2>3. list[k] \in RealGates /\ list[p] \in RealGates
    BY <1>1, <2>2
  <2>4. Written(list[k]) \cap Awaited(list[p]) = {}
    BY <1>6, <1>8
  <2> QED BY <2>3, <2>4, SeparateGates
<1>9. /\ Replay(MovedTo(list, p, at)) = Replay(list)
      /\ \A k \in at .. p - 1 : Virtuals(list[k]) \cap Virtuals(list[p]) = {}
  BY <1>1, <1>6, <1>7, <1>8, MovedReplay DEF G
<1>10. InStep(MovedTo(list, p, at), D)
  BY <1>1, <1>6, <1>7, <1>9, InStepMoved DEF G
<1> QED BY <1>1, <1>3, <1>4, <1>6, <1>9, <1>10 DEF Sound, list, G, n

\* The past keeps track of where the states of the virtual qubits are.
Routed(q, D) ==
  /\ Sound(q, <<>>, D) /\ ~q.failed /\ Tracked(Replay(Line(q, <<>>)), q.map)

LEMMA RoutedPlaced ==
  ASSUME job \in Jobs, ~Resets, NEW q, NEW D, Routed(q, D), NEW i, NEW start, MayPlace(q, i, start), NEW o
  PROVE  Routed(Place(q, i, start, o), D)
<1> DEFINE n == Place(q, i, start, o)
<1>1. Sound(q, <<>>, D) /\ ~q.failed /\ Tracked(Replay(Line(q, <<>>)), q.map)
  BY DEF Routed
<1>2. /\ Sound(n, <<>>, D) /\ Replay(Line(n, <<>>)) = Replay(Line(q, <<>>))
      /\ n.map = q.map /\ n.failed = q.failed
  BY <1>1, SoundPlaced
<1> HIDE DEF n
<1>3. Routed(n, D)
  BY <1>1, <1>2 DEF Routed
<1> QED BY <1>3 DEF n

LEMMA LineGrown ==
  ASSUME NEW G, NEW q \in Pasts(G), NEW n \in Pasts(G), NEW more \in Seq(G),
         n.output = q.output, n.gates = q.gates, n.waiting = q.waiting \o more
  PROVE  Line(n, <<>>) = Line(q, <<>>) \o more
<1>1. <<>> \in Seq(G)
  OBVIOUS
<1>2. Line(n, <<>>) = Line(q, more \o <<>>)
  <2>1. \A rest \in Seq(G) : Line(n, rest) = Line(q, more \o rest)
    BY LineMore
  <2> QED BY <1>1, <2>1
<1>3. more \o <<>> = more
  BY <1>1, Regrouped
<1>4. Line(q, more) = Line(q, <<>>) \o more
  BY LineEnds
<1> QED BY <1>2, <1>3, <1>4

LEMMA RoutedSwap ==
  ASSUME job \in Jobs, ~Resets, NEW q, NEW D, Routed(q, D), NEW a \in Qubits, NEW b \in Qubits, Linked(topology, a, b)
  PROVE  Routed(AddSwap(q, topology, a, b, settings), D)
<1> DEFINE G == MappedGates(job)
           n == AddSwap(q, topology, a, b, settings)
           list == Line(q, <<>>)
<1>1. /\ q \in Pasts(G) /\ FcBound(q) /\ <<>> \in Seq(G) /\ Replay(list).ok /\ InStep(list, D)
      /\ ~q.failed /\ Tracked(Replay(list), q.map)
  BY DEF Routed, Sound
<1>2. a # b
  BY DEF Linked
<1>3. PICK gates, map : SwapMade(q, n, gates, map, a, b) /\ AnySwap(q, topology, gates, map, a, b)
  BY <1>2, AddSwapCases
<1>4. n \in Pasts(G)
  BY <1>1, SwapTyped DEF topology
<1>5. list \in Seq(G)
  <2> HIDE DEF G
  <2> QED BY <1>1, LineFacts
<1>6. q.map \in Mappings
  BY <1>1 DEF Pasts
<1> HIDE DEF n, list
<1>7. Carried(list, D, gates, map, a, b) /\ Mapping!SwapAsserts(map, a, b)
  BY <1>1, <1>3, <1>5, <1>6, AnyCarried DEF G
<1>8. /\ gates \in Seq(G) /\ InStep(list \o gates, D)
      /\ Replay(list \o gates).ok /\ Tracked(Replay(list \o gates), Mapping!Swap(map, a, b))
  BY <1>7 DEF Carried, G
<1>9. /\ n.waiting = q.waiting \o gates /\ n.output = q.output /\ n.gates = q.gates /\ n.fc = q.fc
      /\ n.map = Mapping!Swap(map, a, b) /\ ~n.failed
  <2>1. q = [map |-> q.map, fc |-> q.fc, waiting |-> q.waiting, gates |-> q.gates, output |-> q.output,
             failed |-> q.failed]
    BY <1>1 DEF Pasts
  <2> DEFINE w == q.waiting \o gates  m == Mapping!Swap(map, a, b)  f == q.failed \/ ~Mapping!SwapAsserts(map, a, b)
  <2>2. n = [q EXCEPT !.waiting = w, !.map = m, !.failed = f]
    BY <1>3 DEF SwapMade
  <2>3. ~f
    BY <1>1, <1>7
  <2> HIDE DEF w, m, f
  <2>4. n.waiting = w /\ n.map = m /\ n.failed = f /\ n.output = q.output /\ n.gates = q.gates /\ n.fc = q.fc
    BY <2>1, <2>2
  <2> QED BY <2>3, <2>4 DEF w, m
<1>10. Line(n, <<>>) = list \o gates
  <2> HIDE DEF G
  <2>1. q \in Pasts(G) /\ n \in Pasts(G) /\ gates \in Seq(G)
        /\ n.output = q.output /\ n.gates = q.gates /\ n.waiting = q.waiting \o gates
    BY <1>1, <1>4, <1>8, <1>9
  <2>2. Line(n, <<>>) = Line(q, <<>>) \o gates
    BY ONLY <2>1, LineGrown
  <2> QED BY <2>2 DEF list
<1>11. FcBound(n)
  BY <1>1, <1>9 DEF FcBound
<1>12. Routed(n, D)
  BY <1>1, <1>4, <1>8, <1>9, <1>10, <1>11 DEF Routed, Sound, G
<1> QED BY <1>12 DEF n

\* A gate of the program that becomes real waits with the qubits where its states are.
LEMMA RoutedReal ==
  ASSUME job \in Jobs, ~Resets, NEW q, NEW D, D \subseteq Nat, Routed(q, D), NEW n \in DOMAIN program, n \notin D,
         Ready(q, n), \A m \in D : ~(n < m /\ KnownToPast(program[n], program[m], settings))
  PROVE  Routed(MadeReal(q, program[n], settings), D \cup {n})
<1> DEFINE G == MappedGates(job)
           h == program[n]
           reals == RealOperands(q, h)
           g == [h EXCEPT !.operands = reals]
           state == [r \in DOMAIN q.map.state |-> IF r \in ToSet(reals) THEN StateAfter(h, settings) ELSE q.map.state[r]]
           new == [q.map EXCEPT !.state = state]
           r == MadeReal(q, h, settings)
           list == Line(q, <<>>)
<1>1. /\ q \in Pasts(G) /\ FcBound(q) /\ <<>> \in Seq(G) /\ Replay(list).ok /\ InStep(list, D)
      /\ ~q.failed /\ Tracked(Replay(list), q.map)
  BY DEF Routed, Sound
<1>2. q.map \in Mappings
  BY <1>1 DEF Pasts
<1>3. g \in G
  BY <1>2, RealGate
<1>4. h \in RealGates /\ h.id = n /\ n \in Nat \ {0}
  BY ProgramGate
<1>5. r \in Pasts(G)
  BY <1>1, MadeRealTyped
<1>6. list \in Seq(G)
  <2> HIDE DEF G
  <2> QED BY <1>1, LineFacts
<1>7. StateAfter(h, settings) = "live"
  BY DEF StateAfter, Resets
<1>8. g.operands = reals /\ g.id = n
  BY <1>4 DEF RealGates, GateRecords
<1>9. DOMAIN reals = DOMAIN h.operands /\ \A i \in DOMAIN reals : reals[i] = q.map.real[h.operands[i]]
  BY DEF RealOperands, GetReal
<1>10. VirtualsOf(g) = h.operands
  BY <1>4, <1>8 DEF VirtualsOf
<1>11. ToSet(reals) = Ops(g)
  BY <1>8 DEF ToSet, Ops
<1>12. r = [q EXCEPT !.map = new, !.waiting = q.waiting \o <<g>>]
  BY DEF MadeReal
<1> HIDE DEF r, g, list, reals, h
<1>13. /\ r.map = new /\ r.waiting = q.waiting \o <<g>> /\ r.output = q.output /\ r.gates = q.gates /\ r.fc = q.fc
       /\ r.failed = q.failed
  <2>1. q = [map |-> q.map, fc |-> q.fc, waiting |-> q.waiting, gates |-> q.gates, output |-> q.output,
             failed |-> q.failed]
    BY <1>1 DEF Pasts
  <2> DEFINE w == q.waiting \o <<g>>
  <2>2. r = [q EXCEPT !.map = new, !.waiting = w]
    BY <1>12
  <2> HIDE DEF new, w
  <2>3. r.map = new /\ r.waiting = w /\ r.output = q.output /\ r.gates = q.gates /\ r.fc = q.fc /\ r.failed = q.failed
    BY <2>1, <2>2
  <2> QED BY <2>3 DEF w
<1>14. new.real = q.map.real /\ \A x \in Qubits : new.state[x] = IF x \in Ops(g) THEN "live" ELSE q.map.state[x]
  BY <1>2, <1>7, <1>11 DEF Mappings
<1>15. new \in Mappings
  BY <1>5, <1>13 DEF Pasts
<1> HIDE DEF new
<1> DEFINE s == Replay(list)
<1>16. s \in States /\ s.ok /\ Distinct(s) /\ Replay(list \o <<g>>) = Run(s, g)
  <2>1. list \o <<>> = list
    BY <1>1, <1>6, Regrouped
  <2>2. Replay(list \o <<>>).ok
    BY <1>1, <2>1
  <2>3. <<>> \in Seq(MappedGates(job)) /\ list \in Seq(MappedGates(job))
    BY <1>6
  <2>4. s \in States /\ s.ok /\ Distinct(s)
    BY <2>2, <2>3, ReplayBefore
  <2> QED BY <1>3, <2>3, <2>4, ReplayNext
<1>17. Tracked(s, q.map)
  BY <1>1
<1> HIDE DEF s
<1>18. g.id # 0 /\ \A i \in DOMAIN g.operands : g.operands[i] = q.map.real[VirtualsOf(g)[i]]
  BY <1>4, <1>8, <1>9, <1>10
<1>19. Run(s, g).ok /\ Tracked(Run(s, g), new)
  BY <1>2, <1>3, <1>14, <1>15, <1>16, <1>17, <1>18, TrackedGate DEF G
<1>20. InStep(list \o <<g>>, D \cup {n})
  <2>1. g.id \in Nat \ {0} /\ g.id \notin D /\ \A m \in D : ~(g.id < m /\ KnownToPast(program[g.id], program[m], settings))
    BY <1>4, <1>8
  <2>2. g \in G /\ list \in Seq(G) /\ D \subseteq Nat /\ InStep(list, D)
    BY <1>1, <1>3, <1>6
  <2> HIDE DEF G
  <2>3. InStep(list \o <<g>>, D \cup {g.id})
    BY ONLY <2>1, <2>2, InStepNext
  <2> QED BY <1>8, <2>3
<1>21. Line(r, <<>>) = list \o <<g>>
  <2>1. <<g>> \in Seq(G)
    BY <1>3
  <2> HIDE DEF G
  <2> QED BY <1>1, <1>5, <1>13, <2>1, LineGrown DEF list
<1>22. FcBound(r)
  BY <1>1, <1>13 DEF FcBound
<1>23. Routed(r, D \cup {n})
  BY <1>1, <1>5, <1>13, <1>16, <1>19, <1>20, <1>21, <1>22 DEF Routed, Sound
<1> QED BY <1>23 DEF r, h

\* Mapping a gate of the program that needs no routing any more.
LEMMA RoutedGate ==
  ASSUME job \in Jobs, ~Resets, NEW q, NEW D, D \subseteq Nat, Routed(q, D), NEW n \in DOMAIN program, n \notin D,
         Ready(q, n), \A m \in D : ~(n < m /\ KnownToPast(program[n], program[m], settings))
  PROVE  /\ Routed(MapRoutedGate(q, program[n], settings), D \cup {n})
         /\ MapRoutedGate(q, program[n], settings).waiting = <<>>
<1> DEFINE P == Pasts(MappedGates(job))
           I == {p \in P : Routed(p, D \cup {n})}
           r == MadeReal(q, program[n], settings)
<1>1. q \in P
  BY DEF Routed, Sound
<1>2. r \in P
  BY <1>1, MadeRealTyped
<1>3. Routed(r, D \cup {n})
  BY RoutedReal
<1>4. \A p \in I : \A i, start : MayPlace(p, i, start) => Place(p, i, start, settings) \in I
  <2>1. ASSUME NEW p \in I, NEW i, NEW start, MayPlace(p, i, start) PROVE Routed(Place(p, i, start, settings), D \cup {n})
    BY <2>1, RoutedPlaced
  <2>2. ASSUME NEW p \in I, NEW i, NEW start, MayPlace(p, i, start) PROVE Place(p, i, start, settings) \in P
    BY <2>2, AnyPast
  <2> QED BY <2>1, <2>2
<1>5. I \subseteq Pasts(MappedGates(job)) /\ q \in Pasts(MappedGates(job)) /\ r \in I
  BY <1>1, <1>2, <1>3
<1> HIDE DEF I
<1>6. MapRoutedGate(q, program[n], settings) \in I /\ MapRoutedGate(q, program[n], settings).waiting = <<>>
  BY <1>4, <1>5, GateRouted
<1> QED BY <1>6 DEF I

\* Swaps leave the states of the virtual qubits where the mapping says.
LEMMA RoutedSwaps ==
  ASSUME job \in Jobs, ~Resets, NEW q, NEW D, Routed(q, D), NEW alter \in Alters(topology),
         NEW mode \in {"one", "all", "earliest"}
  PROVE  Routed(AddSwaps(q, alter, mode), D) /\ AddSwaps(q, alter, mode).waiting = <<>>
<1> DEFINE P == Pasts(MappedGates(job))
           I == {p \in P : Routed(p, D)}
<1>1. q \in I
  BY DEF Routed, Sound
<1>2. \A p \in I : \A i, start : MayPlace(p, i, start) => Place(p, i, start, settings) \in I
  <2>1. ASSUME NEW p \in I, NEW i, NEW start, MayPlace(p, i, start) PROVE Routed(Place(p, i, start, settings), D)
    BY <2>1, RoutedPlaced
  <2>2. ASSUME NEW p \in I, NEW i, NEW start, MayPlace(p, i, start) PROVE Place(p, i, start, settings) \in P
    BY <2>2, AnyPast
  <2> QED BY <2>1, <2>2
<1>3. \A p \in I : \A h \in Links(topology) : AddSwap(p, topology, h[1], h[2], settings) \in I
  <2>1. ASSUME NEW p \in I, NEW h \in Links(topology)
        PROVE  AddSwap(p, topology, h[1], h[2], settings) \in P /\ Routed(AddSwap(p, topology, h[1], h[2], settings), D)
    <3>1. h[1] \in Qubits /\ h[2] \in Qubits /\ Linked(topology, h[1], h[2])
      BY DEF Links
    <3>2. p \in P /\ Routed(p, D)
      OBVIOUS
    <3>3. Routed(AddSwap(p, topology, h[1], h[2], settings), D)
      BY <3>1, <3>2, RoutedSwap
    <3> QED BY <3>2, <3>3, AnyPast
  <2> QED BY <2>1
<1>4. I \subseteq Pasts(MappedGates(job))
  OBVIOUS
<1> HIDE DEF I
<1>5. AddSwaps(q, alter, mode) \in I /\ AddSwaps(q, alter, mode).waiting = <<>>
  BY <1>1, <1>2, <1>3, <1>4, SwapsAdded
<1> QED BY <1>5 DEF I

\* Classical gates: they have no qubits, so they find every state and change none.
LEMMA ClassicalRun ==
  ASSUME job \in Jobs, ~Resets, NEW list \in Seq(MappedGates(job)), Replay(list).ok, NEW D, D \subseteq Nat,
         InStep(list, D), NEW map \in Mappings, Tracked(Replay(list), map),
         NEW n \in DOMAIN program, IsClassical(program[n]), n \notin D,
         \A m \in D : ~(n < m /\ KnownToPast(program[n], program[m], settings))
  PROVE  /\ list \o <<program[n]>> \in Seq(MappedGates(job)) /\ Replay(list \o <<program[n]>>).ok
         /\ InStep(list \o <<program[n]>>, D \cup {n}) /\ Tracked(Replay(list \o <<program[n]>>), map)
<1> DEFINE G == MappedGates(job)
           g == program[n]
           s == Replay(list)
<1>1. g \in G
  BY ClassicalGate
<1>2. g.id = n /\ n \in Nat \ {0} /\ Len(g.operands) \in {0} /\ g \in RealGates
  BY ProgramGate
<1>3. g.operands = <<>>
  BY <1>2 DEF RealGates, GateRecords
<1>4. s \in States /\ s.ok /\ Distinct(s) /\ Replay(list \o <<g>>) = Run(s, g)
  <2>1. list \o <<>> = list /\ <<>> \in Seq(G)
    BY Regrouped
  <2>2. Replay(list \o <<>>).ok
    BY <2>1
  <2>3. s \in States /\ s.ok /\ Distinct(s)
    BY <2>1, <2>2, ReplayBefore
  <2> QED BY <1>1, <2>3, ReplayNext
<1>5. g.id # 0 /\ Ops(g) = {} /\ \A i \in DOMAIN g.operands : g.operands[i] = map.real[VirtualsOf(g)[i]]
  BY <1>2, <1>3 DEF Ops
<1>6. Tracked(s, map) /\ map.real = map.real
      /\ \A r \in Qubits : map.state[r] = IF r \in Ops(g) THEN "live" ELSE map.state[r]
  BY <1>5
<1> HIDE DEF g, s
<1>7. Run(s, g).ok /\ Tracked(Run(s, g), map)
  BY <1>1, <1>4, <1>5, <1>6, TrackedGate
<1>8. InStep(list \o <<g>>, D \cup {n})
  <2>1. g.id \in Nat \ {0} /\ g.id \notin D /\ \A m \in D : ~(g.id < m /\ KnownToPast(program[g.id], program[m], settings))
    BY <1>2
  <2>2. g \in G /\ list \in Seq(G) /\ D \subseteq Nat /\ InStep(list, D)
    BY <1>1
  <2> HIDE DEF G
  <2>3. InStep(list \o <<g>>, D \cup {g.id})
    BY ONLY <2>1, <2>2, InStepNext
  <2> QED BY <1>2, <2>3
<1>9. list \o <<g>> \in Seq(G)
  <2>1. <<g>> \in Seq(G)
    BY <1>1
  <2> HIDE DEF G
  <2> QED BY <2>1, Joining DEF G
<1> QED BY <1>4, <1>7, <1>8, <1>9 DEF g

LEMMA OneMore ==
  ASSUME NEW S, NEW f, NEW k \in Nat, \A i \in 1 .. k + 1 : f[i] \in S
  PROVE  /\ [i \in 1 .. k |-> f[i]] \in Seq(S)
         /\ [i \in 1 .. k + 1 |-> f[i]] = [i \in 1 .. k |-> f[i]] \o <<f[k + 1]>>
<1> DEFINE s == [i \in 1 .. k |-> f[i]]  t == [i \in 1 .. k + 1 |-> f[i]]  u == <<f[k + 1]>>  w == s \o u
<1>1. s \in Seq(S) /\ t \in Seq(S) /\ u \in Seq(S) /\ Len(s) = k /\ Len(t) = k + 1 /\ Len(u) = 1 /\ u[1] = f[k + 1]
      /\ (\A i \in 1 .. k : s[i] = f[i]) /\ (\A i \in 1 .. k + 1 : t[i] = f[i])
  OBVIOUS
<1> HIDE DEF s, t, u
<1>2. /\ w \in Seq(S) /\ Len(w) = Len(s) + Len(u) /\ (\A i \in 1 .. Len(s) : w[i] = s[i])
      /\ \A i \in 1 .. Len(u) : w[Len(s) + i] = u[i]
  BY <1>1, Joining
<1> HIDE DEF w
<1>3. ASSUME NEW i \in 1 .. Len(t) PROVE t[i] = w[i]
  <2>1. CASE i \in 1 .. k
    BY <1>1, <1>2, <2>1
  <2>2. CASE i = k + 1
    <3>1. 1 \in 1 .. Len(u) /\ Len(s) + 1 = k + 1
      BY <1>1
    <3> QED BY <1>1, <1>2, <2>2, <3>1
  <2> QED BY <1>1, <2>1, <2>2
<1>4. Len(t) = Len(w)
  BY <1>1, <1>2
<1>5. t = w
  BY ONLY <1>1, <1>2, <1>3, <1>4, SameLists
<1> QED BY <1>1, <1>5 DEF s, t, u, w

ProgramGates(list) == [i \in DOMAIN list |-> program[list[i]]]

\* Gates that bypass the schedule are delivered at once.
LEMMA RoutedBypass ==
  ASSUME job \in Jobs, ~Resets, NEW q, NEW D, D \subseteq Nat, Routed(q, D), q.waiting = <<>>,
         NEW S, \A n \in S : n \in DOMAIN program /\ IsClassical(program[n]) /\ n \notin D,
         \A n \in S : \A m \in D \cup S : ~(n < m /\ KnownToPast(program[n], program[m], settings)),
         NEW list \in Seq(S), \A i, k \in DOMAIN list : i # k => list[i] # list[k]
  PROVE  Routed(Bypass(q, ProgramGates(list)), D \cup ToSet(list))
<1> SUFFICES Routed(Bypass(q, [i \in DOMAIN list |-> program[list[i]]]), D \cup {list[i] : i \in DOMAIN list})
  BY DEF ProgramGates, ToSet
<1> DEFINE G == MappedGates(job)
           N == Len(list)
           f == [i \in 1 .. N |-> program[list[i]]]
           pre(k) == [i \in 1 .. k |-> f[i]]
           Did(k) == D \cup {list[i] : i \in 1 .. k}
           line == Line(q, <<>>)
           RunsTo(k) == /\ line \o pre(k) \in Seq(G) /\ Replay(line \o pre(k)).ok /\ InStep(line \o pre(k), Did(k))
                    /\ Tracked(Replay(line \o pre(k)), q.map)
           T == {k \in 0 .. N : RunsTo(k)}
<1>1. N \in Nat /\ DOMAIN list = 1 .. N /\ \A i \in 1 .. N : list[i] \in S
  OBVIOUS
<1> HIDE DEF N
<1>2. /\ q \in Pasts(G) /\ FcBound(q) /\ <<>> \in Seq(G) /\ Replay(line).ok /\ InStep(line, D)
      /\ ~q.failed /\ Tracked(Replay(line), q.map)
  BY DEF Routed, Sound
<1>3. q.map \in Mappings
  BY <1>2 DEF Pasts
<1>4. line \in Seq(G)
  <2> HIDE DEF G
  <2> QED BY <1>2, LineFacts
<1> HIDE DEF line
<1>5. \A i \in 1 .. N : f[i] = program[list[i]] /\ f[i] \in G
  BY <1>1, ClassicalGate
<1> HIDE DEF f
<1>6. 0 \in T
  <2>1. pre(0) = <<>> /\ Did(0) = D
    OBVIOUS
  <2>2. line \o <<>> = line
    <3> HIDE DEF G
    <3> QED BY <1>2, <1>4, Regrouped
  <2>3. RunsTo(0)
    BY <1>2, <1>4, <2>1, <2>2
  <2> HIDE DEF RunsTo
  <2> QED BY <1>1, <2>3
<1>7. ASSUME NEW k \in 0 .. N, k < N, k \in T PROVE k + 1 \in T
  <2>1. k + 1 \in 1 .. N /\ k \in Nat /\ k + 1 \in 0 .. N
    BY <1>1, <1>7
  <2>2. RunsTo(k)
    BY <1>7
  <2> DEFINE n == list[k + 1]
             u == line \o pre(k)
  <2>3. n \in S /\ f[k + 1] = program[n]
    BY <1>1, <1>5, <2>1
  <2>4. n \in DOMAIN program /\ IsClassical(program[n]) /\ n \notin Did(k)
    <3>1. \A i \in 1 .. k : list[i] # n
      BY <1>1, <2>1
    <3> QED BY <2>3, <3>1
  <2>5. Did(k) \subseteq Nat /\ Did(k) \subseteq D \cup S
    <3>1. S \subseteq Nat
      BY ProgramGate
    <3>2. \A i \in 1 .. k : list[i] \in S
      BY <1>1, <1>7
    <3> QED BY <3>1, <3>2
  <2>6. \A m \in Did(k) : ~(n < m /\ KnownToPast(program[n], program[m], settings))
    BY <2>3, <2>5
  <2>7. pre(k) \in Seq(G) /\ pre(k + 1) = pre(k) \o <<program[n]>>
    <3>1. \A i \in 1 .. k + 1 : f[i] \in G
      BY <1>5, <1>7, <2>1
    <3> HIDE DEF G
    <3> QED BY <2>1, <2>3, <3>1, OneMore
  <2>8. line \o pre(k + 1) = u \o <<program[n]>>
    <3>1. <<program[n]>> \in Seq(G)
      BY <1>5, <2>1, <2>3
    <3> DEFINE one == <<program[n]>>  p == pre(k)
    <3> HIDE DEF G, one, pre, p
    <3>2. (line \o p) \o one = line \o (p \o one)
      BY <1>4, <2>7, <3>1, Regrouped DEF one, p
    <3> QED BY <2>7, <3>2 DEF one, p
  <2>9. Did(k + 1) = Did(k) \cup {n}
    <3>1. 1 .. k + 1 = (1 .. k) \cup {k + 1}
      BY <2>1
    <3> QED BY <3>1
  <2>10. u \in Seq(G) /\ Replay(u).ok /\ InStep(u, Did(k)) /\ Tracked(Replay(u), q.map)
    BY <2>2
  <2> HIDE DEF n, u, Did, pre
  <2>11. /\ u \o <<program[n]>> \in Seq(G) /\ Replay(u \o <<program[n]>>).ok
         /\ InStep(u \o <<program[n]>>, Did(k) \cup {n}) /\ Tracked(Replay(u \o <<program[n]>>), q.map)
    BY <1>3, <2>4, <2>5, <2>6, <2>10, ClassicalRun
  <2>12. RunsTo(k + 1)
    BY <2>8, <2>9, <2>11
  <2> HIDE DEF RunsTo
  <2> QED BY <2>1, <2>12
<1> HIDE DEF T
<1>8. \A k \in 0 .. N : k \in T
  BY <1>1, <1>6, <1>7, StepByStep
<1>9. RunsTo(N)
  <2> HIDE DEF RunsTo
  <2>1. N \in 0 .. N
    BY <1>1
  <2> QED BY <1>8, <2>1 DEF T
<1> DEFINE gates == [i \in DOMAIN list |-> program[list[i]]]
           r == Bypass(q, gates)
<1>10. pre(N) = gates /\ Did(N) = D \cup {list[i] : i \in DOMAIN list}
  BY <1>1, <1>5
<1>11. gates \in Seq(G)
  <2>1. \A i \in 1 .. N : program[list[i]] \in G
    BY <1>5
  <2> HIDE DEF G
  <2> QED BY <1>1, <2>1
<1>12. r \in Pasts(G) /\ r.waiting = <<>>
  <2> HIDE DEF G, gates
  <2> QED BY <1>2, <1>11, Bypassing
<1>13. CASE gates = <<>>
  <2>1. line \o <<>> = line
    <3> HIDE DEF G
    <3> QED BY <1>2, <1>4, Regrouped
  <2>2. r = q
    BY <1>13 DEF Bypass
  <2>3. InStep(line, D \cup {list[i] : i \in DOMAIN list})
    <3>1. InStep(line \o pre(N), Did(N))
      BY <1>9
    <3>2. pre(N) = <<>> /\ Did(N) = D \cup {list[i] : i \in DOMAIN list}
      BY <1>10, <1>13
    <3> HIDE DEF line, pre, Did
    <3> QED BY ONLY <2>1, <3>1, <3>2
  <2> HIDE DEF r
  <2> QED BY <1>2, <2>2, <2>3 DEF Routed, Sound, line, r
<1>14. CASE gates # <<>>
  <2> DEFINE new == [i \in DOMAIN gates |-> [gate |-> gates[i], cycle |-> 0]]
  <2>1. r = [FlushAll(q) EXCEPT !.output = @ \o new]
    BY <1>14 DEF Bypass
  <2>2. /\ r.output = (q.output \o q.gates) \o new /\ r.gates = <<>> /\ r.map = q.map /\ r.failed = q.failed
    <3>1. q = [map |-> q.map, fc |-> q.fc, waiting |-> q.waiting, gates |-> q.gates, output |-> q.output,
               failed |-> q.failed]
      BY <1>2 DEF Pasts
    <3> HIDE DEF new, r
    <3> DEFINE z == q.output \o q.gates
               y == FlushAll(q)
    <3>2. y = [q EXCEPT !.output = z, !.gates = <<>>]
      BY DEF FlushAll
    <3> HIDE DEF z
    <3>3. y = [map |-> q.map, fc |-> q.fc, waiting |-> q.waiting, gates |-> <<>>, output |-> z, failed |-> q.failed]
      BY <3>1, <3>2
    <3> DEFINE x == y.output \o new
    <3>4. r = [y EXCEPT !.output = x]
      BY <2>1
    <3> HIDE DEF x, y
    <3>5. r.output = x /\ r.gates = <<>> /\ r.map = q.map /\ r.failed = q.failed /\ y.output = z
      BY <3>3, <3>4
    <3> QED BY <3>5 DEF x, z
  <2>3. new \in Seq(Placed(G)) /\ GatesOf(new) = gates
    <3>1. DOMAIN gates = 1 .. N /\ \A i \in 1 .. N : gates[i] \in G
      BY <1>1, <1>5
    <3>2. gates = [i \in 1 .. N |-> gates[i]]
      BY <3>1
    <3> HIDE DEF gates, G
    <3>3. new \in Seq(Placed(G)) /\ DOMAIN new = 1 .. N
      BY <1>1, <3>1 DEF Placed
    <3>4. \A i \in 1 .. N : new[i].gate = gates[i]
      BY <3>1
    <3> HIDE DEF new
    <3> QED BY <3>2, <3>3, <3>4 DEF GatesOf
  <2> HIDE DEF new, r, gates
  <2>4. Line(r, <<>>) = Line(q, gates \o <<>>)
    <3> HIDE DEF G
    <3>1. /\ q \in Pasts(G) /\ q.waiting = <<>> /\ new \in Seq(Placed(G)) /\ r \in Pasts(G)
          /\ r.output = (q.output \o q.gates) \o new /\ r.gates = <<>> /\ r.waiting = <<>>
      BY <1>2, <1>12, <2>2, <2>3
    <3>2. \A rest \in Seq(G) : Line(r, rest) = Line(q, GatesOf(new) \o rest)
      BY ONLY <3>1, LineFlushed
    <3> QED BY <1>2, <2>3, <3>2
  <2>5. Line(r, <<>>) = line \o gates
    <3> HIDE DEF G
    <3>1. gates \o <<>> = gates
      BY <1>2, <1>11, Regrouped
    <3>2. Line(q, gates) = Line(q, <<>>) \o gates
      BY <1>2, <1>11, LineEnds
    <3> QED BY <2>4, <3>1, <3>2 DEF line
  <2>6. FcBound(r)
    BY <2>2 DEF FcBound
  <2>7. /\ Replay(line \o gates).ok /\ InStep(line \o gates, D \cup {list[i] : i \in DOMAIN list})
        /\ Tracked(Replay(line \o gates), q.map)
    BY <1>9, <1>10
  <2>8. Routed(r, D \cup {list[i] : i \in DOMAIN list})
    BY <1>2, <1>12, <2>2, <2>5, <2>6, <2>7 DEF Routed, Sound
  <2> QED BY <2>8 DEF r, gates
<1> QED BY <1>13, <1>14

\* In the beginning every virtual qubit is where the mapping starts.
LEMMA RoutedFirst ==
  ASSUME job \in Jobs, ~Resets
  PROVE  Routed(InitialPast(InitialMapping), {})
<1> DEFINE G == MappedGates(job)
           q == InitialPast(InitialMapping)
<1>1. q \in Pasts(G)
  BY FirstPast
<1>2. q.output = <<>> /\ q.gates = <<>> /\ q.waiting = <<>> /\ q.map = InitialMapping /\ ~q.failed
  BY DEF InitialPast
<1>3. <<>> \in Seq(G)
  OBVIOUS
<1> HIDE DEF q
<1>4. Line(q, <<>>) = <<>>
  <2>1. GatesOf(<<>>) = <<>>
    BY DEF GatesOf
  <2>2. Line(q, <<>>) = ((<<>> \o <<>>) \o <<>>) \o <<>>
    <3> HIDE DEF G
    <3>1. \A rest \in Seq(G) : Line(q, rest) = ((GatesOf(q.output) \o GatesOf(q.gates)) \o q.waiting) \o rest
      BY <1>1, LineIs
    <3> QED BY <1>2, <1>3, <2>1, <3>1
  <2>3. <<>> \o <<>> = <<>>
    BY <1>3, Regrouped
  <2> QED BY <2>2, <2>3
<1>5. Replay(<<>>) = Start
  <2>1. PICK f : Trace(<<>>, f) /\ Replay(<<>>) = f[Len(<<>>)]
    BY <1>3, ReplaySteps
  <2> QED BY <2>1 DEF Trace
<1>6. Start.ok /\ Start.zeroes /\ (\A v \in Qubits : Start.value[v] # "live")
      /\ \A r \in Qubits : ~HasState(Start, r) /\ (settings.initialized => Start.content[r] = Zero)
  BY DEF Start, HasState
<1>7. Tracked(Start, InitialMapping)
  <2> DEFINE word == IF settings.initialized THEN "initialized" ELSE "none"
  <2>1. InitialMapping.real = [v \in Qubits |-> v] /\ InitialMapping.state = [r \in Qubits |-> word]
    BY DEF InitialMapping, Mapping!NewMapping
  <2>2. word # "live" /\ (settings.initialized => word # "none")
    OBVIOUS
  <2> HIDE DEF word
  <2>3. (\A v \in Qubits : InitialMapping.real[v] = v) /\ \A r \in Qubits : InitialMapping.state[r] = word
    BY <2>1
  <2> QED BY <1>6, <2>2, <2>3 DEF Tracked
<1>8. InStep(<<>>, {})
  BY DEF InStep
<1>9. FcBound(q)
  BY <1>2 DEF FcBound
<1>10. Routed(q, {})
  BY <1>1, <1>2, <1>3, <1>4, <1>5, <1>6, <1>7, <1>8, <1>9 DEF Routed, Sound
<1> QED BY <1>10 DEF q

-----------------------------------------------------------------------------
(* What is available.                                                      *)

\* A gate comes before no conflicting gate of a set that needs nothing from outside.
LEMMA ClosedOrder ==
  ASSUME NEW k, NEW o, IsKernel(k, o), NEW g, Demands(k, o, g), NEW X \in SUBSET Nodes(k),
         \A m \in X : Before(g, m) \subseteq X, NEW n \in DOMAIN k, n \notin X, NEW m \in DOMAIN k, m \in X, n < m
  PROVE  ~InConflict(k[n], k[m], o)
<1> SUFFICES ASSUME InConflict(k[n], k[m], o) PROVE FALSE
  OBVIOUS
<1> DEFINE d == Durations(k)
           c == AsapCycles(k, g)
           B == c[m] + 1
           e == [x \in Nodes(k) |-> IF x \in X THEN c[x] ELSE c[x] + B]
<1>1. c \in [Nodes(k) -> Int] /\ (\A x \in Nodes(k) : 0 <= c[x]) /\ Respects(c, d, g.arcs)
  BY AsapSolved
<1>2. Len(k) \in Nat /\ Nodes(k) = 0 .. Len(k) + 1 /\ DOMAIN k = 1 .. Len(k) /\ d \in [Nodes(k) -> Nat]
  BY KernelNodes
<1> HIDE DEF c, d
<1>3. m \in Nodes(k) /\ n \in Nodes(k) /\ c[m] \in Int /\ c[n] \in Int /\ 0 <= c[m] /\ 0 <= c[n]
  BY <1>1, <1>2
<1>4. B \in Int /\ 0 <= B
  BY <1>3
<1>5. e \in [Nodes(k) -> Int] /\ e[m] = c[m] /\ e[n] = c[n] + B
  BY <1>1, <1>3, <1>4
<1>6. ASSUME NEW a \in g.arcs PROVE Ends(e, d, a[1], a[2])
  <2>1. a[1] \in Nodes(k) /\ a[2] \in Nodes(k)
    BY <1>2 DEF Demands
  <2>2. c[a[1]] + d[a[1]] <= c[a[2]] /\ c[a[1]] \in Int /\ c[a[2]] \in Int /\ d[a[1]] \in Nat
    BY <1>1, <1>2, <2>1 DEF Respects, Ends
  <2>3. a[2] \in X => a[1] \in X
    BY DEF Before
  <2>4. e[a[1]] = (IF a[1] \in X THEN c[a[1]] ELSE c[a[1]] + B) /\ e[a[2]] = (IF a[2] \in X THEN c[a[2]] ELSE c[a[2]] + B)
    BY <2>1
  <2> HIDE DEF B, e
  <2> QED BY <1>4, <2>2, <2>3, <2>4 DEF Ends
<1>7. MeetsAll(k, o, e)
  <2> HIDE DEF e
  <2>1. Respects(e, d, g.arcs)
    BY <1>6 DEF Respects
  <2> QED BY <1>5, <2>1 DEF Demands, d
<1>8. Ends(e, d, n, m)
  BY <1>7 DEF MeetsAll, d
<1>9. d[n] \in Nat
  BY <1>2, <1>3
<1> HIDE DEF e
<1> QED BY <1>3, <1>5, <1>8, <1>9 DEF Ends

\* The available nodes are those that need nothing but what has been scheduled.
FutureInv(f) ==
  /\ f.scheduled \subseteq Nodes(program) /\ f.avlist \subseteq Nodes(program) \ f.scheduled
  /\ \A n \in f.avlist \cup f.scheduled : Before(f.graph, n) \subseteq f.scheduled
  /\ \A n \in 0 .. Len(program) : Before(f.graph, n) \subseteq f.scheduled => n \in f.avlist \cup f.scheduled

LEMMA FutureStarts ==
  ASSUME IsKernel(program, settings), NEW g, Demands(program, settings, g)
  PROVE  FutureInv([graph |-> g, avlist |-> {0}, scheduled |-> {}])
<1>1. Len(program) \in Nat /\ Nodes(program) = 0 .. Len(program) + 1 /\ DOMAIN program = 1 .. Len(program)
  BY KernelNodes
<1>2. Before(g, 0) = {}
  <2>1. \A a \in g.arcs : a[2] \in 1 .. Len(program) + 1
    BY DEF Demands
  <2> QED BY <1>1, <2>1 DEF Before
<1>3. ASSUME NEW n \in 0 .. Len(program), n # 0 PROVE Before(g, n) # {}
  <2>1. n \in 1 .. Len(program) + 1 /\ Len(program) # 0
    BY <1>1, <1>3
  <2>2. program # <<>>
    BY <2>1
  <2> QED BY <2>1, <2>2, HasBefore
<1>4. 0 \in Nodes(program)
  BY <1>1
<1> QED BY <1>2, <1>3, <1>4 DEF FutureInv

LEMMA FutureCompleted ==
  ASSUME NEW f, f = [graph |-> f.graph, avlist |-> f.avlist, scheduled |-> f.scheduled],
         IsKernel(program, settings), Demands(program, settings, f.graph), FutureInv(f), NEW S \in SUBSET f.avlist
  PROVE  /\ FutureInv(CompletedGates(f, S)) /\ CompletedGates(f, S).scheduled = f.scheduled \cup S
<1> DEFINE released == UNION {Released(f.graph, n, f.scheduled \cup S, "FORWARD") : n \in S}
           list == (f.avlist \ S) \cup released
           done == f.scheduled \cup S
           h == CompletedGates(f, S)
<1>1. h = [f EXCEPT !.avlist = list, !.scheduled = done]
  BY DEF CompletedGates
<1>2. \A m : m \in released <=> \E n \in S : m \in After(f.graph, n) /\ Before(f.graph, m) \subseteq done
  BY DEF Released, Depending, Needed
<1>3. \A n, m : m \in After(f.graph, n) <=> \E a \in f.graph.arcs : a[1] = n /\ a[2] = m
  BY DEF After
<1>4. \A n, m : n \in Before(f.graph, m) <=> \E a \in f.graph.arcs : a[1] = n /\ a[2] = m
  BY DEF Before
<1>5. \A m : m \in released <=> \E n \in S : n \in Before(f.graph, m) /\ Before(f.graph, m) \subseteq done
  <2> HIDE DEF released, done
  <2>1. \A n, m : m \in After(f.graph, n) <=> n \in Before(f.graph, m)
    BY <1>3, <1>4
  <2> QED BY <1>2, <2>1
<1>6. released \subseteq Nodes(program)
  <2>1. \A n \in S : Released(f.graph, n, f.scheduled \cup S, "FORWARD") \subseteq Nodes(program)
    BY ReleasedNodes
  <2> QED BY <2>1
<1> HIDE DEF h, released
<1>7. h.avlist = list /\ h.scheduled = done /\ h.graph = f.graph
  <2> HIDE DEF list, done
  <2> QED BY <1>1
<1>8. \A m \in released : m \notin f.avlist \cup f.scheduled
  <2> SUFFICES ASSUME NEW m \in released, m \in f.avlist \cup f.scheduled PROVE FALSE
    OBVIOUS
  <2>1. PICK n \in S : n \in Before(f.graph, m)
    BY <1>5
  <2>2. n \in f.scheduled /\ n \in f.avlist
    BY <2>1 DEF FutureInv
  <2> QED BY <2>2 DEF FutureInv
<1>9. done \subseteq Nodes(program) /\ list \subseteq Nodes(program) \ done
  BY <1>6, <1>8 DEF FutureInv
<1>10. \A n \in list \cup done : Before(f.graph, n) \subseteq done
  BY <1>5 DEF FutureInv
<1>11. ASSUME NEW n \in 0 .. Len(program), Before(f.graph, n) \subseteq done PROVE n \in list \cup done
  <2>1. CASE Before(f.graph, n) \subseteq f.scheduled
    BY <2>1 DEF FutureInv
  <2>2. CASE ~(Before(f.graph, n) \subseteq f.scheduled)
    <3>1. n \in released
      BY <1>5, <1>11, <2>2
    <3> QED BY <3>1
  <2> QED BY <2>1, <2>2
<1> HIDE DEF list, done
<1>12. FutureInv(h)
  BY <1>7, <1>9, <1>10, <1>11 DEF FutureInv
<1> QED BY <1>7, <1>12 DEF h, done

\* When nothing is available any more everything has been scheduled.
LEMMA FutureEnds ==
  ASSUME NEW f, IsKernel(program, settings), Demands(program, settings, f.graph), FutureInv(f), f.avlist = {}
  PROVE  DOMAIN program \subseteq f.scheduled
<1> DEFINE L == Len(program)
           left == (0 .. L) \ f.scheduled
<1>1. L \in Nat /\ DOMAIN program = 1 .. L
  BY KernelNodes
<1>2. \A a \in f.graph.arcs : a[1] < a[2] /\ a[1] \in 0 .. L
  BY DEF Demands
<1>3. ASSUME left # {} PROVE FALSE
  <2>1. left \in SUBSET (0 .. L)
    OBVIOUS
  <2> HIDE DEF left, L
  <2>2. PICK x \in left : \A y \in left : x <= y
    BY <1>1, <1>3, <2>1, FirstAndLast
  <2>3. Before(f.graph, x) \subseteq f.scheduled
    <3> SUFFICES ASSUME NEW m \in Before(f.graph, x), m \notin f.scheduled PROVE FALSE
      OBVIOUS
    <3>1. m < x /\ m \in 0 .. L
      BY <1>2 DEF Before
    <3>2. m \in left
      BY <3>1 DEF left
    <3> QED BY <1>1, <2>1, <2>2, <3>1, <3>2
  <2>4. x \in 0 .. L /\ x \notin f.scheduled
    BY DEF left
  <2> QED BY <2>3, <2>4 DEF FutureInv, L
<1> QED BY <1>1, <1>3

\* An available gate comes before no conflicting gate that is scheduled or available, too.
LEMMA FutureOrder ==
  ASSUME NEW f, IsKernel(program, settings), Demands(program, settings, f.graph), FutureInv(f),
         NEW n \in DOMAIN program, n \in f.avlist, NEW m \in DOMAIN program, m \in f.avlist \cup f.scheduled
  PROVE  ~(n < m /\ KnownToPast(program[n], program[m], settings))
<1> SUFFICES ASSUME n < m PROVE ~InConflict(program[n], program[m], settings)
  BY DEF KnownToPast
<1> DEFINE X == f.scheduled \cup {m}
<1>1. Len(program) \in Nat /\ DOMAIN program = 1 .. Len(program)
  BY KernelNodes
<1>2. n # m
  BY <1>1
<1>3. X \in SUBSET Nodes(program) /\ n \notin X /\ m \in X /\ \A x \in X : Before(f.graph, x) \subseteq X
  BY <1>2 DEF FutureInv
<1> HIDE DEF X
<1> QED BY <1>3, ClosedOrder

-----------------------------------------------------------------------------
(* When gates that depend on each other are scheduled.                     *)

EndsBy(e, f) == e.cycle + Duration[e.gate.name] <= f.cycle

\* f is a gate of the program that needs a bit of e, which comes before it.
FeedsTo(e, f) ==
  /\ e.gate.id # 0 /\ f.gate.id # 0 /\ e.gate.id < f.gate.id
  /\ KnownToPast(program[e.gate.id], program[f.gate.id], settings)
  /\ \E x \in ToSet(BregsOf(e.gate)) : x \in Written(e.gate) /\ x \in Awaited(f.gate)

\* Of two gates on one qubit the first ends before the second starts; so do gates and those
\* that need their bits.
Timed(list) ==
  \A k, l \in DOMAIN list :
    /\ k < l /\ ~Separate(list[k].gate, list[l].gate) => EndsBy(list[k], list[l])
    /\ FeedsTo(list[k], list[l]) => EndsBy(list[k], list[l])

\* A gate that is scheduled comes after those that it depends on, and before none.
LEMMA TimedPlaced ==
  ASSUME job \in Jobs, NEW q, NEW rest, NEW D, Sound(q, rest, D), Timed(q.gates),
         NEW i, NEW start, MayPlace(q, i, start), NEW o
  PROVE  Timed(Place(q, i, start, o).gates)
<1> DEFINE G == MappedGates(job)
           n == Place(q, i, start, o)
           w == q.waiting
           g == q.gates
           h == n.gates
           e == [gate |-> w[i], cycle |-> start]
           a == Len(q.output)
           b == Len(g)
           L == Line(q, rest)
<1>1. /\ G \in SUBSET RealGates /\ q \in Pasts(G) /\ FcBound(q) /\ rest \in Seq(G) /\ InStep(L, D)
  BY DEF Sound, MappedGates
<1>2. /\ i \in 1 .. Len(w) /\ start \in Nat
      /\ \A x \in Awaited(w[i]) : q.fc.fcv[x] <= start
  BY DEF MayPlace
<1>3. n \in Pasts(G) /\ Moved(q, i, start, o, n)
  <2> HIDE DEF G
  <2> QED BY <1>1, <1>2, PlaceFacts
<1>4. PICK j \in 1 .. b + 1 : h = InsertAt(g, j, e) /\ \A k \in j .. b : g[k].cycle > start
  BY <1>3 DEF Moved
<1>5. w \in Seq(G) /\ g \in Seq(Placed(G)) /\ q.fc \in FreeCycles /\ h \in Seq(Placed(G))
  BY <1>1, <1>3 DEF Pasts
<1>6. /\ b \in Nat /\ Len(w) \in Nat /\ w[i] \in G /\ w[i] \in RealGates
      /\ \A k \in 1 .. b : g[k].gate \in RealGates /\ g[k].cycle \in Nat
  <2>1. \A x \in Placed(G) : x.gate \in RealGates /\ x.cycle \in Nat
    BY <1>1 DEF Placed
  <2> HIDE DEF G
  <2> QED BY <1>1, <1>2, <1>5, <2>1
<1>7. e \in Placed(G) /\ e.gate = w[i] /\ e.cycle = start
  BY <1>2, <1>6 DEF Placed
<1>8. a \in Nat /\ a = Len(q.output)
  BY <1>1 DEF Pasts
<1>9. /\ L \in Seq(G) /\ Parts(L, q, rest, a, b, Len(w), Len(rest))
  <2> HIDE DEF G
  <2> QED BY <1>1, LineFacts
<1> HIDE DEF n, w, g, h, e, a, b, L, G
<1>10. /\ Len(h) = b + 1 /\ h[j] = e
       /\ \A k \in 1 .. j - 1 : h[k] = g[k]
       /\ \A k \in j .. b : h[k + 1] = g[k]
  <2>1. g \in Seq(Placed(G)) /\ j \in 1 .. Len(g) + 1 /\ e \in Placed(G)
    BY <1>4, <1>5, <1>7 DEF b
  <2>2. /\ Len(InsertAt(g, j, e)) = Len(g) + 1 /\ InsertAt(g, j, e)[j] = e
        /\ \A k \in 1 .. j - 1 : InsertAt(g, j, e)[k] = g[k]
        /\ \A k \in j .. Len(g) : InsertAt(g, j, e)[k + 1] = g[k]
    BY ONLY <2>1, Inserting
  <2> QED BY <1>4, <2>2 DEF b
<1>11. ASSUME NEW k \in 1 .. b, NEW x \in Written(g[k].gate), x \in Awaited(w[i]) PROVE EndsBy(g[k], e)
  <2>1. g[k].cycle + Duration[g[k].gate.name] <= q.fc.fcv[x]
    <3>1. k \in DOMAIN q.gates
      BY <1>5, <1>6 DEF b, g
    <3> QED BY <1>1, <1>11, <3>1 DEF FcBound, g
  <2>2. q.fc.fcv[x] <= start
    BY <1>2, <1>11
  <2>3. g[k].cycle \in Nat /\ Duration[g[k].gate.name] \in Nat /\ x \in Timeline
    BY <1>6, <1>11, GateObjects
  <2>4. q.fc.fcv[x] \in Nat
    BY <1>5, <2>3 DEF FreeCycles
  <2> QED BY <1>2, <1>7, <2>1, <2>2, <2>3, <2>4 DEF EndsBy
<1>12. ASSUME NEW k \in 1 .. b, ~Separate(g[k].gate, w[i]) PROVE EndsBy(g[k], e)
  <2>1. Written(g[k].gate) \cap Awaited(w[i]) # {}
    BY <1>6, <1>12, SeparateGates
  <2> QED BY <1>11, <2>1
<1>13. ASSUME NEW k \in j .. b PROVE Separate(g[k].gate, w[i]) /\ Separate(w[i], g[k].gate)
  <2>1. k \in 1 .. b /\ g[k].cycle > start
    BY <1>4, <1>6
  <2>2. g[k].cycle \in Nat /\ Duration[g[k].gate.name] \in Nat
    BY <1>6, <2>1, GateObjects
  <2>3. ~EndsBy(g[k], e)
    <3>1. e.cycle = start /\ start \in Nat
      BY <1>2, <1>7
    <3> QED BY ONLY <2>1, <2>2, <3>1 DEF EndsBy
  <2>4. Separate(g[k].gate, w[i])
    BY <1>12, <2>1, <2>3
  <2> QED BY <2>4 DEF Separate
<1>14. ASSUME NEW k \in 1 .. b PROVE ~FeedsTo(e, g[k])
  <2> SUFFICES ASSUME FeedsTo(e, g[k]) PROVE FALSE
    OBVIOUS
  <2>1. L[a + k] = g[k].gate /\ L[a + b + i] = w[i] /\ Len(L) = a + b + Len(w) + Len(rest) /\ Len(rest) \in Nat
    BY <1>2, <1>9 DEF Parts, g, w
  <2>2. a + k \in DOMAIN L /\ a + b + i \in DOMAIN L /\ ~(a + b + i < a + k)
    <3>1. DOMAIN L = 1 .. Len(L)
      BY <1>9
    <3>2. /\ a \in Nat /\ b \in Nat /\ k \in 1 .. b /\ Len(w) \in Nat /\ i \in 1 .. Len(w)
          /\ Len(L) = a + b + Len(w) + Len(rest) /\ Len(rest) \in Nat
      BY <1>2, <1>6, <1>8, <2>1
    <3>3. a + k \in 1 .. Len(L) /\ a + b + i \in 1 .. Len(L) /\ ~(a + b + i < a + k)
      BY ONLY <3>2
    <3> QED BY <3>1, <3>3
  <2>3. /\ L[a + b + i].id # 0 /\ L[a + k].id # 0 /\ L[a + b + i].id < L[a + k].id
        /\ KnownToPast(program[L[a + b + i].id], program[L[a + k].id], settings)
    BY <1>7, <2>1 DEF FeedsTo
  <2> QED BY <1>1, <2>2, <2>3 DEF InStep
<1>15. \A k \in 1 .. b + 1 : k = j \/ (k \in 1 .. j - 1 /\ k \in 1 .. b) \/ (k - 1 \in j .. b /\ k - 1 \in 1 .. b /\ (k - 1) + 1 = k)
  BY <1>4, <1>6
<1>16. ASSUME NEW k \in 1 .. b, NEW l \in 1 .. b
       PROVE  /\ k < l /\ ~Separate(g[k].gate, g[l].gate) => EndsBy(g[k], g[l])
              /\ FeedsTo(g[k], g[l]) => EndsBy(g[k], g[l])
  <2>1. k \in DOMAIN g /\ l \in DOMAIN g
    BY <1>5 DEF b
  <2> QED BY <2>1 DEF Timed, g
<1>17. ASSUME NEW k \in 1 .. b + 1, k # j
       PROVE  \E m \in 1 .. b : h[k] = g[m] /\ (k < j => m = k) /\ (k > j => m = k - 1 /\ m \in j .. b)
  <2>1. CASE k \in 1 .. j - 1 /\ k \in 1 .. b
    <3>1. h[k] = g[k] /\ ~(k > j)
      BY <1>4, <1>6, <1>10, <2>1
    <3> QED BY <2>1, <3>1
  <2>2. CASE k - 1 \in j .. b /\ k - 1 \in 1 .. b /\ (k - 1) + 1 = k
    <3>1. h[k] = g[k - 1] /\ ~(k < j)
      BY <1>4, <1>6, <1>10, <2>2
    <3> QED BY <2>2, <3>1
  <2> QED BY <1>15, <1>17, <2>1, <2>2
<1>18. ASSUME NEW k \in 1 .. b + 1, NEW l \in 1 .. b + 1
       PROVE  /\ k < l /\ ~Separate(h[k].gate, h[l].gate) => EndsBy(h[k], h[l])
              /\ FeedsTo(h[k], h[l]) => EndsBy(h[k], h[l])
  <2>1. CASE k = j /\ l = j
    <3>1. w[i].id \in Nat
      BY <1>6 DEF RealGates, GateRecords
    <3>2. h[k] = e /\ h[l] = e /\ ~(k < l)
      BY <1>4, <1>10, <2>1
    <3> QED BY <1>7, <3>1, <3>2 DEF FeedsTo
  <2>2. CASE k = j /\ l # j
    <3>1. PICK m \in 1 .. b : h[l] = g[m] /\ (l < j => m = l) /\ (l > j => m = l - 1 /\ m \in j .. b)
      BY <1>17, <2>2
    <3>2. ~FeedsTo(h[k], h[l])
      BY <1>10, <1>14, <2>2, <3>1
    <3>3. k < l => Separate(h[k].gate, h[l].gate)
      BY <1>7, <1>10, <1>13, <2>2, <3>1
    <3> QED BY <3>2, <3>3
  <2>3. CASE k # j /\ l = j
    <3>1. PICK m \in 1 .. b : h[k] = g[m]
      BY <1>17, <2>3
    <3>2. h[l] = e
      BY <1>10, <2>3
    <3>3. ~Separate(h[k].gate, h[l].gate) => EndsBy(h[k], h[l])
      BY <1>7, <1>12, <3>1, <3>2
    <3>4. FeedsTo(h[k], h[l]) => EndsBy(h[k], h[l])
      BY <1>7, <1>11, <3>1, <3>2 DEF FeedsTo
    <3> QED BY <3>3, <3>4
  <2>4. CASE k # j /\ l # j
    <3>1. PICK m \in 1 .. b : h[k] = g[m] /\ (k < j => m = k) /\ (k > j => m = k - 1 /\ m \in j .. b)
      BY <1>17, <2>4
    <3>2. PICK p \in 1 .. b : h[l] = g[p] /\ (l < j => p = l) /\ (l > j => p = l - 1 /\ p \in j .. b)
      BY <1>17, <2>4
    <3>3. k < l => m < p
      BY <1>4, <1>6, <2>4, <3>1, <3>2
    <3> QED BY <1>16, <3>1, <3>2, <3>3
  <2> QED BY <2>1, <2>2, <2>3, <2>4
<1>19. DOMAIN h = 1 .. b + 1
  BY <1>5, <1>10
<1>20. Timed(h)
  BY <1>18, <1>19 DEF Timed
<1> QED BY <1>20 DEF h, n

-----------------------------------------------------------------------------
(* The states of the virtual qubits.                                       *)

\* The gates of what is left of a circuit.
Coming(circ, pos) == [k \in 1 .. Len(circ) - pos + 1 |-> circ[pos - 1 + k].gate]

Delivered(list) ==
  /\ Replay(list).ok /\ InStep(list, DOMAIN program)
  /\ settings.initialized => Replay(list).zeroes

FaithAt(ph, q, f, circ, pos) ==
  ~Resets /\ ph # "failed" =>
    /\ ph \in {"start", "route", "decompose", "mapped"} /\ ~q.failed
    /\ ph = "start" => Routed(q, {}) /\ circ = <<>>
    /\ ph = "route" => FutureInv(f) /\ Routed(q, f.scheduled \cap DOMAIN program)
    /\ ph = "decompose" => /\ Sound(q, Coming(circ, pos), DOMAIN program) /\ q.output = <<>> /\ Timed(q.gates)
                           /\ Replay(Line(q, Coming(circ, pos))) = Replay(GatesOf(circ))
    /\ ph \in {"decompose", "mapped"} => Delivered(GatesOf(circ))
    /\ ph = "mapped" => Timed(circ)

\* Until it fails the mapper knows where the states are, and has what it delivers in order.
FaithInv == FaithAt(phase, past, future, circuit, position)

\* The job stays the same, so whatever runs on a list of gates does.
LEMMA SameGateRun ==
  ASSUME job' = job, NEW s, NEW g
  PROVE  RunProgramGate(s, g)' = RunProgramGate(s, g)
BY DEF RunProgramGate, program, settings

LEMMA SameStart ==
  ASSUME job' = job
  PROVE  Start' = Start
BY DEF Start, settings

LEMMA SameTrace ==
  ASSUME job' = job, NEW list, NEW f
  PROVE  Trace(list, f)' <=> Trace(list, f)
<1>1. ASSUME NEW s, NEW g PROVE Run(s, g)' = Run(s, g)
  BY SameGateRun DEF Run
<1> QED BY <1>1, SameStart DEF Trace

LEMMA ReplayIsTrace ==
  \A list : job \in Jobs /\ ~Resets /\ list \in Seq(MappedGates(job)) => \E f : Trace(list, f) /\ Replay(list) = f[Len(list)]
BY ReplaySteps

LEMMA ReplayIsTraceNext ==
  (\A list : job \in Jobs /\ ~Resets /\ list \in Seq(MappedGates(job)) => \E f : Trace(list, f) /\ Replay(list) = f[Len(list)])'
BY ReplayIsTrace, PTL

LEMMA SameReplay ==
  ASSUME job' = job, job \in Jobs, ~Resets, NEW list \in Seq(MappedGates(job))
  PROVE  Replay(list)' = Replay(list)
<1>1. job' \in Jobs /\ ~Resets' /\ list \in Seq(MappedGates(job'))
  BY DEF Resets, settings, program
<1>2. PICK f : Trace(list, f)' /\ Replay(list)' = f[Len(list)]
  BY ReplayIsTraceNext, <1>1
<1>3. Trace(list, f)
  BY <1>2, SameTrace
<1> QED BY <1>2, <1>3, TraceReplay

LEMMA NamedReplay ==
  /\ \A x, q, rest : x = Line(q, rest) => Replay(x) = Replay(Line(q, rest))
  /\ \A x, circ : x = GatesOf(circ) => Replay(x) = Replay(GatesOf(circ))
OBVIOUS

LEMMA NamedReplayNext ==
  (/\ \A x, q, rest : x = Line(q, rest) => Replay(x) = Replay(Line(q, rest))
   /\ \A x, circ : x = GatesOf(circ) => Replay(x) = Replay(GatesOf(circ)))'
BY NamedReplay, PTL

LEMMA SameLine ==
  ASSUME job' = job, job \in Jobs, ~Resets, NEW q \in Pasts(MappedGates(job)), NEW rest \in Seq(MappedGates(job))
  PROVE  Replay(Line(q, rest))' = Replay(Line(q, rest))
<1>1. Line(q, rest) \in Seq(MappedGates(job))
  BY LineFacts
<1>2. PICK x : x = Line(q, rest)
  OBVIOUS
<1>3. Replay(x)' = Replay(x)
  BY <1>1, <1>2, SameReplay
<1>4. Replay(x)' = Replay(Line(q, rest))'
  BY <1>2, NamedReplayNext
<1> QED BY <1>2, <1>3, <1>4

LEMMA SameCircuit ==
  ASSUME job' = job, job \in Jobs, ~Resets, NEW circ \in Seq(Placed(MappedGates(job)))
  PROVE  Replay(GatesOf(circ))' = Replay(GatesOf(circ))
<1>1. GatesOf(circ) \in Seq(MappedGates(job))
  BY GatesTyped
<1>2. PICK x : x = GatesOf(circ)
  OBVIOUS
<1>3. Replay(x)' = Replay(x)
  BY <1>1, <1>2, SameReplay
<1>4. Replay(x)' = Replay(GatesOf(circ))'
  BY <1>2, NamedReplayNext
<1> QED BY <1>2, <1>3, <1>4

LEMMA SameSound ==
  ASSUME job' = job, job \in Jobs, ~Resets, NEW q, NEW rest, NEW D, Sound(q, rest, D)
  PROVE  Sound(q, rest, D)'
<1>1. q \in Pasts(MappedGates(job)) /\ rest \in Seq(MappedGates(job))
  BY DEF Sound
<1>2. Replay(Line(q, rest))' = Replay(Line(q, rest))
  BY <1>1, SameLine
<1>3. InStep(Line(q, rest), D)'
  <2>1. PICK x : x = Line(q, rest)
    OBVIOUS
  <2>2. InStep(x, D)
    BY <2>1 DEF Sound
  <2>3. InStep(x, D)'
    BY <2>2 DEF InStep, program, settings
  <2> QED BY <2>1, <2>3 DEF InStep
<1> QED BY <1>1, <1>2, <1>3 DEF Sound

LEMMA SameRouted ==
  ASSUME job' = job, job \in Jobs, ~Resets, NEW q, NEW D, Routed(q, D)
  PROVE  Routed(q, D)'
<1>1. q \in Pasts(MappedGates(job)) /\ <<>> \in Seq(MappedGates(job))
  BY DEF Routed, Sound
<1>2. Replay(Line(q, <<>>))' = Replay(Line(q, <<>>))
  <2>1. PICK x : x = <<>>
    OBVIOUS
  <2>2. \A rest \in Seq(MappedGates(job)) : Replay(Line(q, rest))' = Replay(Line(q, rest))
    BY <1>1, SameLine
  <2> QED BY <1>1, <2>1, <2>2
<1>3. Sound(q, <<>>, D)'
  <2>1. \A rest : Sound(q, rest, D) => Sound(q, rest, D)'
    BY SameSound
  <2>2. Sound(q, <<>>, D)
    BY DEF Routed
  <2> QED BY <2>1, <2>2
<1>4. Tracked(Replay(Line(q, <<>>)), q.map) /\ ~q.failed
  BY DEF Routed
<1>5. Tracked(Replay(Line(q, <<>>)), q.map)'
  BY <1>2, <1>4 DEF Tracked, settings
<1> QED BY <1>3, <1>4, <1>5 DEF Routed

LEMMA SameDelivered ==
  ASSUME job' = job, job \in Jobs, ~Resets, NEW circ \in Seq(Placed(MappedGates(job))), Delivered(GatesOf(circ))
  PROVE  Delivered(GatesOf(circ))'
<1>1. Replay(GatesOf(circ))' = Replay(GatesOf(circ))
  BY SameCircuit
<1>2. InStep(GatesOf(circ), DOMAIN program)'
  <2>1. PICK x : x = GatesOf(circ)
    OBVIOUS
  <2>2. InStep(x, DOMAIN program)
    BY <2>1 DEF Delivered
  <2>3. InStep(x, DOMAIN program)'
    BY <2>2 DEF InStep, program, settings
  <2> QED BY <2>1, <2>3 DEF InStep, program, settings
<1> QED BY <1>1, <1>2 DEF Delivered, settings

LEMMA SameTimed ==
  ASSUME job' = job, NEW list, Timed(list)
  PROVE  Timed(list)'
BY DEF Timed, FeedsTo, program, settings

LEMMA SameFaith ==
  ASSUME job' = job, job \in Jobs, NEW ph, NEW q, NEW f, NEW circ \in Seq(Placed(MappedGates(job))), NEW pos,
         FaithAt(ph, q, f, circ, pos)
  PROVE  FaithAt(ph, q, f, circ, pos)'
<1> SUFFICES ASSUME ~Resets', ph # "failed"
             PROVE  /\ ph \in {"start", "route", "decompose", "mapped"} /\ ~q.failed
                    /\ ph = "start" => Routed(q, {})' /\ circ = <<>>
                    /\ ph = "route" => FutureInv(f)' /\ Routed(q, f.scheduled \cap DOMAIN program)'
                    /\ ph = "decompose" => /\ Sound(q, Coming(circ, pos), DOMAIN program)' /\ q.output = <<>>
                                           /\ Timed(q.gates)'
                                           /\ Replay(Line(q, Coming(circ, pos)))' = Replay(GatesOf(circ))'
                    /\ ph \in {"decompose", "mapped"} => Delivered(GatesOf(circ))'
                    /\ ph = "mapped" => Timed(circ)'
  BY DEF FaithAt
<1>1. ~Resets
  BY DEF Resets, settings, program
<1>2. /\ ph \in {"start", "route", "decompose", "mapped"} /\ ~q.failed
      /\ ph = "start" => Routed(q, {}) /\ circ = <<>>
      /\ ph = "route" => FutureInv(f) /\ Routed(q, f.scheduled \cap DOMAIN program)
      /\ ph = "decompose" => /\ Sound(q, Coming(circ, pos), DOMAIN program) /\ q.output = <<>> /\ Timed(q.gates)
                             /\ Replay(Line(q, Coming(circ, pos))) = Replay(GatesOf(circ))
      /\ ph \in {"decompose", "mapped"} => Delivered(GatesOf(circ))
      /\ ph = "mapped" => Timed(circ)
  BY <1>1 DEF FaithAt
<1>3. ph = "start" => Routed(q, {})'
  <2>1. \A D : Routed(q, D) => Routed(q, D)'
    BY <1>1, SameRouted
  <2>2. PICK x : x = {}
    OBVIOUS
  <2> QED BY <1>2, <2>1, <2>2
<1>4. ph = "route" => FutureInv(f)' /\ Routed(q, f.scheduled \cap DOMAIN program)'
  <2> SUFFICES ASSUME ph = "route" PROVE FutureInv(f)' /\ Routed(q, f.scheduled \cap DOMAIN program)'
    OBVIOUS
  <2>1. FutureInv(f)'
    BY <1>2 DEF FutureInv, program
  <2>2. PICK D : D = f.scheduled \cap DOMAIN program
    OBVIOUS
  <2>3. Routed(q, D)'
    BY <1>1, <1>2, <2>2, SameRouted
  <2> QED BY <2>1, <2>2, <2>3 DEF Routed, Sound, InStep, program
<1>5. ph = "decompose" => /\ Sound(q, Coming(circ, pos), DOMAIN program)'
                          /\ Replay(Line(q, Coming(circ, pos)))' = Replay(GatesOf(circ))'
  <2> SUFFICES ASSUME ph = "decompose"
               PROVE  /\ Sound(q, Coming(circ, pos), DOMAIN program)'
                      /\ Replay(Line(q, Coming(circ, pos)))' = Replay(GatesOf(circ))'
    OBVIOUS
  <2>1. PICK rest : rest = Coming(circ, pos)
    OBVIOUS
  <2>2. PICK D : D = DOMAIN program
    OBVIOUS
  <2>3. Sound(q, rest, D)
    BY <1>2, <2>1, <2>2
  <2>4. Sound(q, rest, D)'
    BY <1>1, <2>3, SameSound
  <2>5. q \in Pasts(MappedGates(job)) /\ rest \in Seq(MappedGates(job))
    BY <2>3 DEF Sound
  <2>6. Replay(Line(q, rest))' = Replay(Line(q, rest))
    BY <1>1, <2>5, SameLine
  <2>7. Replay(GatesOf(circ))' = Replay(GatesOf(circ))
    BY <1>1, SameCircuit
  <2> QED BY <1>2, <2>1, <2>2, <2>4, <2>6, <2>7 DEF Sound, InStep, program
<1>6. ph \in {"decompose", "mapped"} => Delivered(GatesOf(circ))'
  BY <1>1, <1>2, SameDelivered
<1>7. (ph = "decompose" => Timed(q.gates)') /\ (ph = "mapped" => Timed(circ)')
  <2> SUFFICES ASSUME NEW list, Timed(list) PROVE Timed(list)'
    BY <1>2
  <2> QED BY SameTimed
<1> QED BY <1>2, <1>3, <1>4, <1>5, <1>6, <1>7

LEMMA NamedFaith ==
  \A ph, q, f, circ, pos :
    ph = phase /\ q = past /\ f = future /\ circ = circuit /\ pos = position
      => (FaithAt(ph, q, f, circ, pos) <=> FaithInv)
BY DEF FaithInv

LEMMA NamedFaithNext ==
  (\A ph, q, f, circ, pos :
    ph = phase /\ q = past /\ f = future /\ circ = circuit /\ pos = position
      => (FaithAt(ph, q, f, circ, pos) <=> FaithInv))'
BY NamedFaith, PTL

\* What holds of the next state with today's job holds in the next state.
LEMMA FaithNext ==
  ASSUME job' = job, job \in Jobs, circuit' \in Seq(Placed(MappedGates(job))),
         FaithAt(phase', past', future', circuit', position')
  PROVE  FaithInv'
<1>1. PICK ph, q, f, circ, pos : ph = phase' /\ q = past' /\ f = future' /\ circ = circuit' /\ pos = position'
  OBVIOUS
<1>2. FaithAt(ph, q, f, circ, pos) /\ circ \in Seq(Placed(MappedGates(job)))
  BY <1>1
<1>3. FaithAt(ph, q, f, circ, pos)'
  BY <1>2, SameFaith
<1> QED BY <1>1, <1>3, NamedFaithNext

LEMMA LineOut ==
  ASSUME NEW G, NEW q \in Pasts(G), q.waiting = <<>>
  PROVE  Line(q, <<>>) = GatesOf(q.output \o q.gates)
<1>1. <<>> \in Seq(G)
  OBVIOUS
<1>2. q.output \in Seq(Placed(G)) /\ q.gates \in Seq(Placed(G))
  BY DEF Pasts
<1>3. \A rest \in Seq(G) : Line(q, rest) = ((GatesOf(q.output) \o GatesOf(q.gates)) \o q.waiting) \o rest
  BY LineIs
<1> DEFINE z == GatesOf(q.output) \o GatesOf(q.gates)
<1>4. z = GatesOf(q.output \o q.gates) /\ GatesOf(q.output) \in Seq(G) /\ GatesOf(q.gates) \in Seq(G)
  BY <1>2, GatesTyped
<1>5. z \in Seq(G)
  BY <1>4, Joining
<1>6. Line(q, <<>>) = (z \o <<>>) \o <<>>
  BY <1>1, <1>3
<1> HIDE DEF z
<1>7. z \o <<>> = z
  BY <1>1, <1>5, Regrouped
<1> QED BY <1>4, <1>6, <1>7

LEMMA FaithStarts == Init => FaithInv
<1> SUFFICES ASSUME Init PROVE FaithInv
  OBVIOUS
<1>1. job \in Jobs /\ phase = "start" /\ past = InitialPast(InitialMapping) /\ circuit = <<>>
  BY DEF Init, MapperInit
<1>2. ~past.failed
  BY <1>1 DEF InitialPast
<1>3. ~Resets => Routed(past, {})
  BY <1>1, RoutedFirst
<1> QED BY <1>1, <1>2, <1>3 DEF FaithInv, FaithAt

\* The program before anything has been mapped.
LEMMA FaithSet ==
  ASSUME RouteInv, FaithInv, SetKernel
  PROVE  FaithInv'
<1> DEFINE g == GraphOf(program, settings)
           f == [graph |-> g, avlist |-> {0}, scheduled |-> {}]
<1>1. /\ future' = f /\ phase = "start"
      /\ phase' \in {"route", "failed"} /\ (phase' = "route" => IsDag(g))
      /\ UNCHANGED <<job, past, circuit, position>>
  BY DEF SetKernel
<1>2. IsKernel(program, settings)
  BY ProgramKernel DEF RouteInv, program
<1>3. phase' = "route" => FutureInv(f)
  <2>1. phase' = "route" => Demands(program, settings, g)
    BY <1>1, <1>2, ProgramGraph
  <2> HIDE DEF g
  <2> QED BY <1>2, <2>1, FutureStarts
<1>4. ~Resets => Routed(past, {}) /\ ~past.failed
  BY <1>1 DEF FaithInv, FaithAt
<1>5. f.scheduled \cap DOMAIN program = {}
  OBVIOUS
<1> HIDE DEF f
<1>6. FaithAt(phase', past', future', circuit', position')
  BY <1>1, <1>3, <1>4, <1>5 DEF FaithAt
<1>7. circuit' \in Seq(Placed(MappedGates(job))) /\ job \in Jobs
  BY <1>1 DEF RouteInv
<1> QED BY <1>1, <1>6, <1>7, FaithNext

\* A step of the routing that completes a set of available gates.
LEMMA FaithStep ==
  ASSUME RouteInv, FaithInv, phase = "route", Elsewhere, NEW S \in SUBSET future.avlist,
         future' = CompletedGates(future, S),
         ~Resets => Routed(past', (future.scheduled \cup S) \cap DOMAIN program)
  PROVE  FaithInv'
<1>1. /\ future = [graph |-> future.graph, avlist |-> future.avlist, scheduled |-> future.scheduled]
      /\ IsKernel(program, settings) /\ Demands(program, settings, future.graph) /\ job \in Jobs
  BY ProgramKernel DEF RouteInv, program
<1>2. ~Resets => FutureInv(future)
  BY DEF FaithInv, FaithAt
<1>3. ~Resets => FutureInv(future') /\ future'.scheduled = future.scheduled \cup S
  BY <1>1, <1>2, FutureCompleted
<1>4. ~Resets => ~past'.failed
  BY DEF Routed
<1>5. phase' = "route" /\ job' = job /\ circuit' = circuit
  BY DEF Elsewhere
<1>6. FaithAt(phase', past', future', circuit', position')
  BY <1>3, <1>4, <1>5 DEF FaithAt
<1>7. circuit' \in Seq(Placed(MappedGates(job)))
  BY <1>5 DEF RouteInv
<1> QED BY <1>1, <1>5, <1>6, <1>7, FaithNext

\* What is known while gates are routed, for an available gate of the program.
LEMMA FaithRoute ==
  ASSUME RouteInv, FaithInv, phase = "route", ~Resets
  PROVE  /\ job \in Jobs /\ FutureInv(future) /\ Routed(past, future.scheduled \cap DOMAIN program)
         /\ future.scheduled \cap DOMAIN program \subseteq Nat
         /\ \A n \in DOMAIN program : n \in future.avlist =>
              /\ n \notin future.scheduled
              /\ \A m \in DOMAIN program : m \in future.avlist \cup future.scheduled =>
                   ~(n < m /\ KnownToPast(program[n], program[m], settings))
<1>1. IsKernel(program, settings) /\ Demands(program, settings, future.graph) /\ job \in Jobs
  BY ProgramKernel DEF RouteInv, program
<1>2. FutureInv(future) /\ Routed(past, future.scheduled \cap DOMAIN program)
  BY DEF FaithInv, FaithAt
<1>3. DOMAIN program \subseteq Nat
  BY <1>1, ProgramGate
<1> QED BY <1>1, <1>2, <1>3, FutureOrder DEF FutureInv

LEMMA AllListed ==
  ASSUME NEW S, IsFiniteSet(S), NEW list \in SetToSeqs(S)
  PROVE  {list[i] : i \in DOMAIN list} = S
<1> DEFINE K == Cardinality(S)
           D == 1 .. K
<1>1. K \in Nat
  BY FS_CardinalityType
<1>2. list \in [D -> S] /\ \A i, j \in D : i # j => list[i] # list[j]
  BY DEF SetToSeqs
<1>3. IsFiniteSet(D) /\ Cardinality(D) = K
  <2> HIDE DEF K
  <2>1. 1 \in Int /\ K \in Int
    BY <1>1
  <2>2. Cardinality(D) = IF 1 > K THEN 0 ELSE K - 1 + 1
    BY <2>1, FS_Interval
  <2> QED BY <1>1, <2>1, <2>2, FS_Interval
<1>4. list \in Injection(D, S)
  BY <1>2 DEF Injection, IsInjective
<1>5. list \in Surjection(D, S)
  BY <1>3, <1>4, FS_Injection
<1> QED BY <1>2, <1>5 DEF Surjection

\* Classical gates leave the states of the qubits alone.
LEMMA FaithBypass ==
  ASSUME RouteInv, FaithInv, MapNonQuantum
  PROVE  FaithInv'
<1>1. PICK list \in InOrder(Bypassed) : past' = Bypass(past, [i \in DOMAIN list |-> program[list[i]]])
  BY DEF MapNonQuantum
<1>2. phase = "route" /\ Elsewhere /\ future' = CompletedGates(future, NonQuantum) /\ past.waiting = <<>>
  BY DEF MapNonQuantum, Elsewhere, RouteInv
<1>3. NonQuantum \in SUBSET future.avlist
  BY DEF NonQuantum
<1>4. ASSUME ~Resets
      PROVE  Routed(past', (future.scheduled \cup NonQuantum) \cap DOMAIN program)
  <2> DEFINE D == future.scheduled \cap DOMAIN program
             gates == [i \in DOMAIN list |-> program[list[i]]]
             done == {list[i] : i \in DOMAIN list}
  <2>1. /\ job \in Jobs /\ Routed(past, D) /\ D \subseteq Nat
        /\ \A n \in DOMAIN program : n \in future.avlist =>
              /\ n \notin future.scheduled
              /\ \A m \in DOMAIN program : m \in future.avlist \cup future.scheduled =>
                   ~(n < m /\ KnownToPast(program[n], program[m], settings))
    BY <1>2, <1>4, FaithRoute
  <2>2. /\ list \in Seq(Bypassed) /\ \A i, k \in DOMAIN list : i # k => list[i] # list[k]
        /\ \A n \in Bypassed : n \in DOMAIN program /\ IsClassical(program[n])
    BY BypassedGates
  <2>3. \A n \in Bypassed : n \in future.avlist /\ n \in DOMAIN program
    BY <2>2 DEF Bypassed, NonQuantum
  <2>4. \A n \in Bypassed : n \in DOMAIN program /\ IsClassical(program[n]) /\ n \notin D
    BY <2>1, <2>2, <2>3
  <2>5. \A n \in Bypassed : \A m \in D \cup Bypassed : ~(n < m /\ KnownToPast(program[n], program[m], settings))
    <3> SUFFICES ASSUME NEW n \in Bypassed, NEW m \in D \cup Bypassed
                 PROVE  ~(n < m /\ KnownToPast(program[n], program[m], settings))
      OBVIOUS
    <3>1. m \in DOMAIN program /\ m \in future.avlist \cup future.scheduled
      BY <2>3
    <3> QED BY <2>1, <2>3, <3>1
  <2>6. done = Bypassed
    <3>1. IsFiniteSet(Bypassed)
      <4>1. IsKernel(program, settings)
        BY ProgramKernel DEF RouteInv, program
      <4>2. Nodes(program) = 0 .. Len(program) + 1 /\ Len(program) \in Nat
        BY <4>1, KernelNodes
      <4>3. IsFiniteSet(Nodes(program))
        BY <4>2, FS_Interval
      <4>4. Bypassed \subseteq Nodes(program)
        BY DEF RouteInv, Bypassed, NonQuantum
      <4> QED BY <4>3, <4>4, FS_Subset
    <3>2. list \in SetToSeqs(Bypassed)
      BY DEF InOrder
    <3> QED BY <3>1, <3>2, AllListed
  <2>7. (future.scheduled \cup NonQuantum) \cap DOMAIN program = D \cup Bypassed
    <3>1. \A n \in NonQuantum : n \in DOMAIN program => n \in Bypassed
      <4> SUFFICES ASSUME NEW n \in NonQuantum, n \in DOMAIN program PROVE ~IsDummy(n)
        BY DEF Bypassed
      <4>1. IsKernel(program, settings)
        BY ProgramKernel DEF RouteInv, program
      <4>2. DOMAIN program = 1 .. Len(program) /\ Len(program) \in Nat
        BY <4>1, KernelNodes
      <4> QED BY <4>2 DEF IsDummy, Sink
    <3>2. Bypassed \subseteq NonQuantum
      BY DEF Bypassed
    <3> QED BY <2>2, <3>1, <3>2
  <2> HIDE DEF D
  <2>8. Routed(Bypass(past, gates), D \cup done)
    <3> HIDE DEF done
    <3> DEFINE S == Bypassed
    <3>1. /\ job \in Jobs /\ ~Resets /\ D \subseteq Nat /\ Routed(past, D) /\ past.waiting = <<>>
          /\ \A x \in S : x \in DOMAIN program /\ IsClassical(program[x]) /\ x \notin D
          /\ \A x \in S : \A m \in D \cup S : ~(x < m /\ KnownToPast(program[x], program[m], settings))
          /\ list \in Seq(S) /\ \A i, k \in DOMAIN list : i # k => list[i] # list[k]
      BY <1>2, <1>4, <2>1, <2>2, <2>4, <2>5
    <3> HIDE DEF S
    <3>2. Routed(Bypass(past, ProgramGates(list)), D \cup ToSet(list))
      BY ONLY <3>1, RoutedBypass
    <3> QED BY <3>2 DEF done, gates, ProgramGates, ToSet
  <2> HIDE DEF done, gates
  <2>9. Routed(past', D \cup Bypassed)
    BY <1>1, <2>6, <2>8 DEF gates
  <2> QED BY <2>7, <2>9
<1> QED BY <1>2, <1>3, <1>4, FaithStep

\* A gate on adjacent qubits, or on one qubit.
LEMMA FaithGate ==
  ASSUME RouteInv, FaithInv, phase = "route", Elsewhere, NEW q, NEW n \in DOMAIN program, n \in future.avlist, Ready(q, n),
         ~Resets => Routed(q, future.scheduled \cap DOMAIN program),
         past' = MapRoutedGate(q, program[n], settings), future' = CompletedGates(future, {n})
  PROVE  FaithInv'
<1>1. ASSUME ~Resets
      PROVE  Routed(past', (future.scheduled \cup {n}) \cap DOMAIN program)
  <2> DEFINE D == future.scheduled \cap DOMAIN program
  <2>1. /\ job \in Jobs /\ D \subseteq Nat
        /\ \A x \in DOMAIN program : x \in future.avlist =>
              /\ x \notin future.scheduled
              /\ \A m \in DOMAIN program : m \in future.avlist \cup future.scheduled =>
                   ~(x < m /\ KnownToPast(program[x], program[m], settings))
    BY <1>1, FaithRoute
  <2>2. n \notin D /\ \A m \in D : ~(n < m /\ KnownToPast(program[n], program[m], settings))
    BY <2>1
  <2>3. (future.scheduled \cup {n}) \cap DOMAIN program = D \cup {n}
    OBVIOUS
  <2>4. Routed(q, D)
    BY <1>1
  <2> HIDE DEF D
  <2>5. Routed(MapRoutedGate(q, program[n], settings), D \cup {n})
    BY <1>1, <2>1, <2>2, <2>4, RoutedGate
  <2> QED BY <2>3, <2>5
<1>2. {n} \in SUBSET future.avlist
  OBVIOUS
<1> QED BY <1>1, <1>2, FaithStep

LEMMA FaithEasy ==
  ASSUME RouteInv, FaithInv, MapSingle \/ MapNeighbours
  PROVE  FaithInv'
<1>1. PICK n \in DOMAIN program : n \in future.avlist /\ Ready(past, n) /\ Complete(n)
  <2>1. CASE MapSingle
    <3>1. PICK n \in First(Single) : Complete(n)
      BY <2>1 DEF MapSingle
    <3>2. n \in future.avlist /\ (IsWait(program[n]) \/ Len(program[n].operands) = 1) /\ NonQuantum = {}
      BY <2>1 DEF First, Single, MapSingle
    <3>3. n \in DOMAIN program
      BY <3>2, OnlyQuantum
    <3> QED BY <3>1, <3>2, <3>3 DEF Ready
  <2>2. CASE MapNeighbours
    <3>1. PICK n \in First(Neighbours) : Complete(n)
      BY <2>2 DEF MapNeighbours
    <3>2. n \in future.avlist /\ Adjacent(past, n) /\ NonQuantum = {}
      BY <2>2 DEF First, Neighbours, MapNeighbours
    <3>3. n \in DOMAIN program
      BY <3>2, OnlyQuantum
    <3> QED BY <3>1, <3>2, <3>3 DEF Ready
  <2> QED BY <2>1, <2>2
<1>2. past' = MapRoutedGate(past, program[n], settings) /\ future' = CompletedGates(future, {n}) /\ Elsewhere
  BY <1>1 DEF Complete, CompletedGate, Elsewhere
<1>3. phase = "route"
  BY DEF MapSingle, MapNeighbours
<1>4. ~Resets => Routed(past, future.scheduled \cap DOMAIN program)
  BY <1>3 DEF FaithInv, FaithAt
<1> QED BY <1>1, <1>2, <1>3, <1>4, FaithGate

\* Swaps, and the gate if they have brought its qubits together.
LEMMA FaithSwaps ==
  ASSUME RouteInv, FaithInv, Route
  PROVE  FaithInv'
<1>1. PICK n \in First(future.avlist) :
        AltersOf(n) # <<>> /\ \E alter \in SelectAlter(AltersOf(n)) : CommitAlter(n, alter)
  BY DEF Route
<1>2. PICK alter \in SelectAlter(AltersOf(n)) : CommitAlter(n, alter)
  BY <1>1
<1>3. NonQuantum = {} /\ Single = {} /\ n \in future.avlist /\ Elsewhere /\ phase = "route"
  BY <1>1 DEF Route, Stuck, First, Elsewhere
<1>4. n \in DOMAIN program /\ Len(program[n].operands) = 2
  BY <1>3, TwoOperands
<1>5. job \in Jobs /\ past \in Pasts(MappedGates(job)) /\ past.map \in Mappings
  BY DEF RouteInv, Pasts
<1>6. AltersOf(n) \in Seq(Alters(topology))
  BY <1>4, <1>5, RealsAre, AltersAre
<1>7. alter \in Alters(topology)
  BY <1>1, <1>2, <1>5, <1>6, AlterSelected
<1> DEFINE q == AddSwaps(past, alter, settings.swaps)
           D == future.scheduled \cap DOMAIN program
<1>8. ~Resets => Routed(q, D)
  <2>1. ~Resets => Routed(past, D)
    BY <1>3 DEF FaithInv, FaithAt
  <2>2. settings.swaps \in {"one", "all", "earliest"}
    BY <1>5, JobsAssumption DEF IsSettings, settings
  <2> HIDE DEF D
  <2> QED BY <1>5, <1>7, <2>1, <2>2, RoutedSwaps
<1>9. MapIfAdjacent(q, n)
  BY <1>2 DEF CommitAlter
<1> HIDE DEF q
<1>10. CASE Adjacent(q, n)
  <2>1. past' = MapRoutedGate(q, program[n], settings) /\ future' = CompletedGates(future, {n})
    BY <1>9, <1>10 DEF MapIfAdjacent, CompletedGate
  <2>2. Ready(q, n)
    BY <1>10 DEF Ready
  <2> QED BY <1>3, <1>4, <1>8, <2>1, <2>2, FaithGate
<1>11. CASE ~Adjacent(q, n)
  <2>1. past' = q /\ future' = future
    BY <1>9, <1>11 DEF MapIfAdjacent
  <2>2. phase' = "route" /\ job' = job /\ circuit' = circuit
    BY <1>3 DEF Elsewhere
  <2>3. ~Resets => FutureInv(future)
    BY <1>3 DEF FaithInv, FaithAt
  <2>4. ~Resets => ~q.failed
    BY <1>8 DEF Routed
  <2>5. FaithAt(phase', past', future', circuit', position')
    BY <1>8, <2>1, <2>2, <2>3, <2>4 DEF FaithAt
  <2>6. circuit' \in Seq(Placed(MappedGates(job)))
    BY <2>2 DEF RouteInv
  <2> QED BY <1>5, <2>2, <2>5, <2>6, FaithNext
<1> QED BY <1>10, <1>11

LEMMA FaithFails ==
  ASSUME RouteInv, FaithInv, RouteNowhere \/ RouteAll
  PROVE  FaithInv'
<1>1. phase' = "failed" /\ job' = job /\ circuit' = circuit
  BY DEF RouteNowhere, RouteAll
<1>2. FaithAt(phase', past', future', circuit', position')
  BY <1>1 DEF FaithAt
<1>3. circuit' \in Seq(Placed(MappedGates(job))) /\ job \in Jobs
  BY <1>1 DEF RouteInv
<1> QED BY <1>1, <1>2, <1>3, FaithNext

-----------------------------------------------------------------------------
(* Decomposing: what the mapper has delivered passes through a past again. *)

LEMMA LineEmpty ==
  ASSUME NEW G, NEW q \in Pasts(G), q.output = <<>>, q.gates = <<>>, q.waiting = <<>>, NEW rest \in Seq(G)
  PROVE  Line(q, rest) = rest
<1>1. GatesOf(<<>>) = <<>>
  BY DEF GatesOf
<1>2. Line(q, rest) = ((<<>> \o <<>>) \o <<>>) \o rest
  BY <1>1, LineIs
<1>3. <<>> \o <<>> = <<>> /\ <<>> \o rest = rest
  BY Regrouped
<1> QED BY <1>2, <1>3

LEMMA LineAdded ==
  ASSUME NEW G, NEW q \in Pasts(G), NEW r \in Pasts(G), NEW rest \in Seq(G), NEW h \in G,
         r.output = q.output, r.gates = q.gates, r.waiting = q.waiting \o <<h>>
  PROVE  Line(r, rest) = Line(q, <<h>> \o rest)
<1> DEFINE z == GatesOf(q.output) \o GatesOf(q.gates)
           w == q.waiting
           more == <<h>>
<1>1. more \in Seq(G) /\ r.waiting = w \o more
  OBVIOUS
<1> HIDE DEF more
<1>2. more \o rest \in Seq(G)
  BY <1>1, Joining
<1>3. /\ Line(q, more \o rest) = (z \o w) \o (more \o rest)
      /\ GatesOf(q.output) \in Seq(G) /\ GatesOf(q.gates) \in Seq(G) /\ w \in Seq(G)
  BY <1>2, LineIs
<1>4. Line(r, rest) = (z \o r.waiting) \o rest
  BY LineIs
<1>5. z \in Seq(G)
  BY <1>3, Joining
<1> HIDE DEF z, w
<1>6. z \o (w \o more) = (z \o w) \o more /\ z \o w \in Seq(G)
  <2>1. z \in Seq(G) /\ w \in Seq(G) /\ more \in Seq(G)
    BY <1>1, <1>3, <1>5
  <2>2. z \o w \in Seq(G)
    BY ONLY <2>1, Joining
  <2>3. (z \o w) \o more = z \o (w \o more)
    BY ONLY <2>1, Regrouped
  <2> QED BY <2>2, <2>3
<1> DEFINE u == z \o w
<1>7. u \in Seq(G)
  BY <1>6
<1> HIDE DEF u
<1>8. (u \o more) \o rest = u \o (more \o rest)
  <2>1. u \in Seq(G) /\ more \in Seq(G) /\ rest \in Seq(G)
    BY <1>1, <1>7
  <2> QED BY ONLY <2>1, Regrouped
<1> QED BY <1>1, <1>3, <1>4, <1>6, <1>8 DEF u, more

LEMMA ComingTyped ==
  ASSUME NEW G, NEW circ \in Seq(Placed(G)), NEW pos \in Nat \ {0}
  PROVE  /\ Coming(circ, pos) \in Seq(G) /\ (pos > Len(circ) => Coming(circ, pos) = <<>>)
         /\ pos <= Len(circ) => /\ Len(Coming(circ, pos)) = Len(circ) - pos + 1
                                /\ \A k \in 1 .. Len(circ) - pos + 1 : Coming(circ, pos)[k] = circ[pos - 1 + k].gate
<1> DEFINE L == Len(circ)
           c == Coming(circ, pos)
<1>1. L \in Nat /\ \A k \in 1 .. L : circ[k].gate \in G
  <2>1. L \in Nat /\ \A k \in 1 .. L : circ[k] \in Placed(G)
    OBVIOUS
  <2> QED BY <2>1 DEF Placed
<1>2. c = [k \in 1 .. L - pos + 1 |-> circ[pos - 1 + k].gate]
  BY DEF Coming
<1> HIDE DEF L, c
<1>3. CASE pos > L
  <2>1. 1 .. L - pos + 1 = {}
    BY <1>1, <1>3
  <2>2. c = <<>>
    BY <1>2, <2>1
  <2> QED BY <1>1, <1>3, <2>2 DEF L, c
<1>4. CASE pos <= L
  <2>1. L - pos + 1 \in Nat /\ \A k \in 1 .. L - pos + 1 : pos - 1 + k \in 1 .. L
    BY <1>1, <1>4
  <2>2. \A k \in 1 .. L - pos + 1 : circ[pos - 1 + k].gate \in G
    BY <1>1, <2>1
  <2>3. c \in Seq(G) /\ Len(c) = L - pos + 1 /\ \A k \in 1 .. L - pos + 1 : c[k] = circ[pos - 1 + k].gate
    BY <1>2, <2>1, <2>2
  <2> QED BY <1>1, <1>4, <2>3 DEF L, c
<1> QED BY <1>1, <1>3, <1>4

LEMMA ComingFirst ==
  ASSUME NEW G, NEW circ \in Seq(Placed(G))
  PROVE  Coming(circ, 1) = GatesOf(circ) /\ GatesOf(circ) \in Seq(G)
<1>1. Len(circ) \in Nat /\ Len(circ) - 1 + 1 = Len(circ) /\ DOMAIN circ = 1 .. Len(circ)
  OBVIOUS
<1>2. \A k \in 1 .. Len(circ) : circ[1 - 1 + k] = circ[k]
  <2>1. \A k \in 1 .. Len(circ) : 1 - 1 + k = k
    OBVIOUS
  <2> QED BY <2>1
<1>3. Coming(circ, 1) = GatesOf(circ)
  BY <1>1, <1>2 DEF Coming, GatesOf
<1> QED BY <1>3, GatesTyped

LEMMA ComingNext ==
  ASSUME NEW G, NEW circ \in Seq(Placed(G)), NEW pos \in 1 .. Len(circ)
  PROVE  /\ circ[pos].gate \in G /\ Coming(circ, pos + 1) \in Seq(G)
         /\ Coming(circ, pos) = <<circ[pos].gate>> \o Coming(circ, pos + 1)
<1> DEFINE L == Len(circ)
           c == Coming(circ, pos)
           d == Coming(circ, pos + 1)
           u == <<circ[pos].gate>>
           w == u \o d
<1>1. L \in Nat /\ pos \in Nat \ {0} /\ pos + 1 \in Nat \ {0} /\ pos <= L
  OBVIOUS
<1>2. circ[pos].gate \in G
  <2>1. circ[pos] \in Placed(G)
    BY <1>1
  <2> QED BY <2>1 DEF Placed
<1>3. c \in Seq(G) /\ Len(c) = L - pos + 1 /\ \A k \in 1 .. L - pos + 1 : c[k] = circ[pos - 1 + k].gate
  BY <1>1, ComingTyped
<1>4. /\ d \in Seq(G) /\ (pos + 1 > L => d = <<>>)
      /\ pos + 1 <= L => /\ Len(d) = L - (pos + 1) + 1
                         /\ \A k \in 1 .. L - (pos + 1) + 1 : d[k] = circ[(pos + 1) - 1 + k].gate
  BY <1>1, ComingTyped
<1>5. u \in Seq(G) /\ Len(u) = 1 /\ u[1] = circ[pos].gate
  BY <1>2
<1> HIDE DEF c, d, u, L
<1>6. Len(d) = L - pos
  <2>1. CASE pos + 1 > L
    <3>1. d = <<>> /\ L - pos = 0
      BY <1>1, <1>4, <2>1
    <3> QED BY <3>1
  <2>2. CASE pos + 1 <= L
    BY <1>1, <1>4, <2>2
  <2> QED BY <1>1, <2>1, <2>2
<1>7. /\ w \in Seq(G) /\ Len(w) = Len(u) + Len(d) /\ (\A k \in 1 .. Len(u) : w[k] = u[k])
      /\ \A k \in 1 .. Len(d) : w[Len(u) + k] = d[k]
  <2>1. u \in Seq(G) /\ d \in Seq(G)
    BY <1>4, <1>5
  <2> QED BY ONLY <2>1, Joining
<1> HIDE DEF w
<1>8. ASSUME NEW k \in 1 .. Len(c) PROVE c[k] = w[k]
  <2>1. CASE k = 1
    <3>1. pos - 1 + 1 = pos /\ 1 \in 1 .. Len(u) /\ 1 \in 1 .. L - pos + 1
      BY <1>1, <1>5
    <3> QED BY <1>3, <1>5, <1>7, <2>1, <3>1
  <2>2. CASE k # 1
    <3>1. k - 1 \in 1 .. L - pos /\ k \in 1 .. L - pos + 1
      BY <1>1, <1>3, <2>2
    <3>2. pos + 1 <= L /\ (pos + 1) - 1 + (k - 1) = pos - 1 + k /\ k - 1 \in 1 .. L - (pos + 1) + 1 /\ 1 + (k - 1) = k
      BY <1>1, <3>1
    <3>3. d[k - 1] = circ[(pos + 1) - 1 + (k - 1)].gate
      BY <1>4, <3>2
    <3>4. w[Len(u) + (k - 1)] = d[k - 1]
      BY <1>6, <1>7, <3>1
    <3> QED BY <1>3, <1>5, <3>1, <3>2, <3>3, <3>4
  <2> QED BY <2>1, <2>2
<1>9. Len(c) = Len(w)
  BY <1>1, <1>3, <1>5, <1>6, <1>7
<1>10. c = w
  BY ONLY <1>3, <1>7, <1>8, <1>9, SameLists
<1> QED BY <1>2, <1>4, <1>10 DEF c, d, u, w

\* Routing is done: everything has been mapped.
LEMMA FaithFinish ==
  ASSUME RouteInv, FaithInv, FinishRoute
  PROVE  FaithInv'
<1> DEFINE G == MappedGates(job)
           circ == past.output \o past.gates
           q == InitialPast(InitialMapping)
           D == DOMAIN program
<1>1. /\ phase = "route" /\ future.avlist = {} /\ job' = job
      /\ circuit' = FlushAll(past).output /\ past' = q /\ phase' = "decompose" /\ position' = 1
  BY DEF FinishRoute
<1>2. job \in Jobs /\ past \in Pasts(G) /\ past.waiting = <<>>
  BY DEF RouteInv
<1>3. circuit' = circ /\ circ \in Seq(Placed(G))
  <2>1. past = [map |-> past.map, fc |-> past.fc, waiting |-> past.waiting, gates |-> past.gates,
                output |-> past.output, failed |-> past.failed]
        /\ past.output \in Seq(Placed(G)) /\ past.gates \in Seq(Placed(G))
    BY <1>2 DEF Pasts
  <2>2. circ \in Seq(Placed(G))
    BY <2>1
  <2>3. FlushAll(past) = [past EXCEPT !.output = circ, !.gates = <<>>]
    BY DEF FlushAll
  <2> HIDE DEF circ
  <2>4. FlushAll(past).output = circ
    BY <2>1, <2>3
  <2> QED BY <1>1, <2>2, <2>4
<1>4. q \in Pasts(G) /\ q.output = <<>> /\ q.gates = <<>> /\ q.waiting = <<>> /\ ~q.failed /\ FcBound(q)
  <2>1. q.output = <<>> /\ q.gates = <<>> /\ q.waiting = <<>> /\ ~q.failed
    BY DEF InitialPast
  <2>2. q \in Pasts(G)
    BY <1>2, FirstPast
  <2> HIDE DEF q
  <2> QED BY <2>1, <2>2 DEF FcBound
<1> HIDE DEF q
<1>5. ASSUME ~Resets
      PROVE  /\ Sound(q, Coming(circ, 1), D) /\ Replay(Line(q, Coming(circ, 1))) = Replay(GatesOf(circ))
             /\ Delivered(GatesOf(circ))
  <2>1. /\ FutureInv(future) /\ Routed(past, future.scheduled \cap DOMAIN program)
        /\ IsKernel(program, settings) /\ Demands(program, settings, future.graph)
    BY <1>1, <1>5, ProgramKernel DEF FaithInv, FaithAt, RouteInv, program
  <2>2. future.scheduled \cap DOMAIN program = D
    BY <1>1, <2>1, FutureEnds
  <2>3. Routed(past, D)
    BY <2>1, <2>2
  <2>4. GatesOf(circ) = Line(past, <<>>)
    <3> HIDE DEF G
    <3> QED BY <1>2, LineOut
  <2>5. Coming(circ, 1) = GatesOf(circ) /\ GatesOf(circ) \in Seq(G)
    <3> HIDE DEF G
    <3> QED BY <1>3, ComingFirst
  <2> HIDE DEF circ
  <2>6. Line(q, Coming(circ, 1)) = GatesOf(circ)
    <3> HIDE DEF G
    <3> QED BY <1>4, <2>5, LineEmpty
  <2>7. Replay(GatesOf(circ)).ok /\ InStep(GatesOf(circ), D) /\ Tracked(Replay(GatesOf(circ)), past.map)
    BY <2>3, <2>4 DEF Routed, Sound
  <2>8. settings.initialized => Replay(GatesOf(circ)).zeroes
    BY <2>7 DEF Tracked
  <2> QED BY <1>4, <2>5, <2>6, <2>7, <2>8 DEF Sound, Delivered
<1> HIDE DEF circ
<1>6. Timed(q.gates)
  BY <1>4 DEF Timed
<1>7. FaithAt(phase', past', future', circuit', position')
  BY <1>1, <1>3, <1>4, <1>5, <1>6 DEF FaithAt
<1> QED BY <1>1, <1>2, <1>3, <1>7, FaithNext

LEMMA FaithDecompose ==
  ASSUME RouteInv, FaithInv, Decompose
  PROVE  FaithInv'
<1> DEFINE G == MappedGates(job)
           h == circuit[position].gate
           D == DOMAIN program
           r == Add(past, <<h>>)
           rest == Coming(circuit, position + 1)
<1>1. /\ phase = "decompose" /\ position <= Len(circuit) /\ job' = job /\ phase' = "decompose"
      /\ past' = ScheduleWaiting(r, settings) /\ position' = position + 1 /\ circuit' = circuit
  BY DEF Decompose, AddAndSchedule
<1>2. /\ job \in Jobs /\ past \in Pasts(G) /\ past.waiting = <<>> /\ position \in Nat \ {0}
      /\ circuit \in Seq(Placed(G)) /\ G \in SUBSET RealGates
  BY DEF RouteInv, MappedGates
<1>3. h \in G /\ rest \in Seq(G) /\ Coming(circuit, position) = <<h>> \o rest
  <2>1. position \in 1 .. Len(circuit)
    BY <1>1, <1>2
  <2> HIDE DEF G
  <2> QED BY <1>2, <2>1, ComingNext
<1> HIDE DEF h, rest
<1>4. r \in Pasts(G) /\ r.output = past.output /\ r.gates = past.gates /\ r.waiting = past.waiting \o <<h>>
      /\ r.failed = past.failed /\ r.fc = past.fc
  <2> HIDE DEF G
  <2>1. past = [map |-> past.map, fc |-> past.fc, waiting |-> past.waiting, gates |-> past.gates,
                output |-> past.output, failed |-> past.failed]
        /\ past.map \in Mappings /\ past.fc \in FreeCycles /\ past.waiting \in Seq(G)
        /\ past.gates \in Seq(Placed(G)) /\ past.output \in Seq(Placed(G)) /\ past.failed \in BOOLEAN
    BY <1>2 DEF Pasts
  <2>2. <<h>> \in Seq(G)
    BY <1>3
  <2>3. past.waiting \o <<h>> \in Seq(G)
    BY <2>1, <2>2
  <2> DEFINE w == past.waiting \o <<h>>
  <2>4. r = [past EXCEPT !.waiting = w]
    BY DEF Add
  <2> HIDE DEF w, r
  <2>5. r = [map |-> past.map, fc |-> past.fc, waiting |-> w, gates |-> past.gates,
             output |-> past.output, failed |-> past.failed]
    BY <2>1, <2>4
  <2>6. w \in Seq(G)
    BY <2>3 DEF w
  <2>7. r \in Pasts(G)
    BY <2>1, <2>5, <2>6 DEF Pasts
  <2> QED BY <2>5, <2>7 DEF w
<1> HIDE DEF r
<1>5. ASSUME ~Resets
      PROVE  /\ Sound(past', rest, D) /\ past'.output = <<>> /\ ~past'.failed /\ Timed(past'.gates)
             /\ Replay(Line(past', rest)) = Replay(GatesOf(circuit)) /\ Delivered(GatesOf(circuit))
  <2> DEFINE R == Replay(GatesOf(circuit))
             I == {p \in Pasts(G) : /\ Sound(p, rest, D) /\ p.output = <<>> /\ ~p.failed /\ Timed(p.gates)
                               /\ Replay(Line(p, rest)) = R}
  <2>1. /\ Sound(past, <<h>> \o rest, D) /\ past.output = <<>> /\ ~past.failed /\ Timed(past.gates)
        /\ Replay(Line(past, <<h>> \o rest)) = R /\ Delivered(GatesOf(circuit))
    BY <1>1, <1>3, <1>5 DEF FaithInv, FaithAt
  <2> HIDE DEF R
  <2>2. Line(r, rest) = Line(past, <<h>> \o rest)
    <3> HIDE DEF G
    <3>1. /\ past \in Pasts(G) /\ r \in Pasts(G) /\ rest \in Seq(G) /\ h \in G
          /\ r.output = past.output /\ r.gates = past.gates /\ r.waiting = past.waiting \o <<h>>
      BY <1>2, <1>3, <1>4
    <3> QED BY ONLY <3>1, LineAdded
  <2>3. FcBound(r)
    <3>1. FcBound(past)
      BY <2>1 DEF Sound
    <3> QED BY <1>4, <3>1 DEF FcBound
  <2>4. Sound(r, rest, D)
    BY <1>3, <1>4, <2>1, <2>2, <2>3 DEF Sound
  <2>5. r \in I
    BY <1>4, <2>1, <2>2, <2>4
  <2>6. ASSUME NEW p \in I, NEW i, NEW start, MayPlace(p, i, start) PROVE Place(p, i, start, settings) \in I
    <3> DEFINE n == Place(p, i, start, settings)
    <3>1. Sound(p, rest, D) /\ p.output = <<>> /\ ~p.failed /\ Timed(p.gates) /\ Replay(Line(p, rest)) = R
      OBVIOUS
    <3>2. /\ Sound(n, rest, D) /\ Replay(Line(n, rest)) = Replay(Line(p, rest))
          /\ n.map = p.map /\ n.failed = p.failed /\ n.output = p.output
      BY <1>2, <1>5, <2>6, <3>1, SoundPlaced
    <3>3. Timed(n.gates)
      BY <1>2, <2>6, <3>1, TimedPlaced
    <3> HIDE DEF n
    <3>4. n \in Pasts(G)
      BY <3>2 DEF Sound
    <3>5. n \in I
      BY <3>1, <3>2, <3>3, <3>4
    <3> QED BY <3>5 DEF n
  <2>7. I \in SUBSET Pasts(G)
    OBVIOUS
  <2> HIDE DEF I
  <2>8. past' \in I
    <3> HIDE DEF G
    <3>1. ScheduleWaiting(r, settings) \in I
      BY <1>2, <2>5, <2>6, <2>7, Rounds
    <3> QED BY <1>1, <3>1
  <2> QED BY <2>1, <2>8 DEF I, R
<1>6. FaithAt(phase', past', future', circuit', position')
  BY <1>1, <1>5 DEF FaithAt, rest
<1> QED BY <1>1, <1>2, <1>6, FaithNext

LEMMA FaithEnd ==
  ASSUME RouteInv, FaithInv, FinishDecompose
  PROVE  FaithInv'
<1> DEFINE G == MappedGates(job)
           circ == past.output \o past.gates
           D == DOMAIN program
<1>1. /\ phase = "decompose" /\ position > Len(circuit) /\ job' = job
      /\ circuit' = FlushAll(past).output /\ past' = FlushAll(past) /\ phase' = "mapped"
  BY DEF FinishDecompose
<1>2. /\ job \in Jobs /\ past \in Pasts(G) /\ past.waiting = <<>> /\ circuit \in Seq(Placed(G))
      /\ position \in Nat \ {0}
  BY DEF RouteInv
<1>3. circuit' = circ /\ circ \in Seq(Placed(G)) /\ past'.failed = past.failed
  <2>1. past = [map |-> past.map, fc |-> past.fc, waiting |-> past.waiting, gates |-> past.gates,
                output |-> past.output, failed |-> past.failed]
        /\ past.output \in Seq(Placed(G)) /\ past.gates \in Seq(Placed(G))
    BY <1>2 DEF Pasts
  <2>2. circ \in Seq(Placed(G))
    BY <2>1
  <2>3. FlushAll(past) = [past EXCEPT !.output = circ, !.gates = <<>>]
    BY DEF FlushAll
  <2> HIDE DEF circ
  <2>4. FlushAll(past).output = circ /\ FlushAll(past).failed = past.failed
    BY <2>1, <2>3
  <2> QED BY <1>1, <2>2, <2>4
<1>4. ASSUME ~Resets
      PROVE  Delivered(GatesOf(circ)) /\ ~past.failed /\ Timed(circ)
  <2>1. /\ Sound(past, Coming(circuit, position), D) /\ ~past.failed /\ Timed(past.gates) /\ past.output = <<>>
        /\ Replay(Line(past, Coming(circuit, position))) = Replay(GatesOf(circuit)) /\ Delivered(GatesOf(circuit))
    BY <1>1, <1>4 DEF FaithInv, FaithAt
  <2>2. Coming(circuit, position) = <<>>
    <3> HIDE DEF G
    <3> QED BY <1>1, <1>2, ComingTyped
  <2>3. GatesOf(circ) = Line(past, <<>>)
    <3> HIDE DEF G
    <3> QED BY <1>2, LineOut
  <2>6. circ = past.gates
    <3>1. past.gates \in Seq(Placed(G))
      BY <1>2 DEF Pasts
    <3>2. \A s \in Seq(Placed(G)) : <<>> \o s = s
      BY Regrouped
    <3> QED BY <2>1, <3>1, <3>2
  <2> HIDE DEF circ
  <2>4. Line(past, Coming(circuit, position)) = GatesOf(circ)
    BY <2>2, <2>3
  <2>5. Replay(GatesOf(circ)).ok /\ InStep(GatesOf(circ), D) /\ Replay(GatesOf(circ)) = Replay(GatesOf(circuit))
    BY <2>1, <2>4 DEF Sound
  <2> QED BY <2>1, <2>5, <2>6 DEF Delivered
<1> HIDE DEF circ
<1>5. FaithAt(phase', past', future', circuit', position')
  BY <1>1, <1>3, <1>4 DEF FaithAt
<1> QED BY <1>1, <1>2, <1>3, <1>5, FaithNext

LEMMA FaithMoves ==
  ASSUME RouteInv, FaithInv, [Next]_vars
  PROVE  FaithInv'
<1>1. CASE UNCHANGED mapperVars
  <2>1. /\ job' = job /\ phase' = phase /\ past' = past /\ future' = future /\ circuit' = circuit
        /\ position' = position
    BY <1>1 DEF mapperVars
  <2>2. FaithAt(phase', past', future', circuit', position')
    BY <2>1 DEF FaithInv
  <2>3. job \in Jobs /\ circuit' \in Seq(Placed(MappedGates(job)))
    BY <2>1 DEF RouteInv
  <2> QED BY <2>1, <2>2, <2>3, FaithNext
<1>2. CASE Map
  <2>1. MapperNext
    BY <1>2 DEF Map
  <2>2. CASE SetKernel
    BY <2>2, FaithSet
  <2>3. CASE MapNonQuantum
    BY <2>3, FaithBypass
  <2>4. CASE MapSingle \/ MapNeighbours
    BY <2>4, FaithEasy
  <2>5. CASE Route
    BY <2>5, FaithSwaps
  <2>6. CASE RouteNowhere \/ RouteAll
    BY <2>6, FaithFails
  <2>7. CASE FinishRoute
    BY <2>7, FaithFinish
  <2>8. CASE Decompose
    BY <2>8, FaithDecompose
  <2>9. CASE FinishDecompose
    BY <2>9, FaithEnd
  <2> QED BY <2>1, <2>2, <2>3, <2>4, <2>5, <2>6, <2>7, <2>8, <2>9 DEF MapperNext
<1> QED BY <1>1, <1>2 DEF Next, Hand, RunScheduler, vars

\* The inductive invariant of the mapper: the gates it has made, those that wait and those
\* still to come are, one after another, a program that finds every state where it should.
THEOREM FaithAlways == Spec => [](RouteInv /\ FaithInv)
<1>1. Init => RouteInv /\ FaithInv
  BY RouteStarts, FaithStarts
<1>2. RouteInv /\ FaithInv /\ [Next]_vars => (RouteInv /\ FaithInv)'
  BY MapperStep, FaithMoves
<1> QED BY <1>1, <1>2, PTL DEF Spec

\* In a list that is in step with the program every gate occurs once.
LEMMA OncePerGate ==
  ASSUME NEW G, NEW list \in Seq(G), InStep(list, DOMAIN program), NEW n \in DOMAIN program, n # 0
  PROVE  /\ Cardinality({i \in DOMAIN list : list[i].id = n}) = 1
         /\ \E k \in DOMAIN list : {i \in DOMAIN list : list[i].id = n} = {k}
<1>1. PICK k \in DOMAIN list : list[k].id = n
  BY DEF InStep
<1>2. \A i \in DOMAIN list : list[i].id = n => i = k
  BY <1>1 DEF InStep
<1>3. {i \in DOMAIN list : list[i].id = n} = {k}
  BY <1>1, <1>2
<1> QED BY <1>3, FS_Singleton

LEMMA FaithfulNow ==
  ASSUME RouteInv, FaithInv
  PROVE  MappingFaithful
<1> SUFFICES ASSUME job.mapped, phase # "failed", ~Resets
             PROVE  /\ Replay(Output).ok /\ ~past.failed
                    /\ phase = "route" =>
                         /\ \A v \in Qubits : Replay(Output).value[v] = "live"
                                                 => Replay(Output).content[past.map.real[v]] = StateOf(v)
                         /\ \A r \in Qubits : past.map.state[r] = "live" <=> HasState(Replay(Output), r)
                    /\ settings.initialized => InitializedAreZero(Replay(Output))
                    /\ phase \in {"decompose", "mapped"} =>
                         \A n \in DOMAIN program : Cardinality({i \in DOMAIN Output : Output[i].id = n}) = 1
  BY DEF MappingFaithful
<1>1. /\ phase \in {"start", "route", "decompose", "mapped"} /\ ~past.failed
      /\ phase = "start" => circuit = <<>>
      /\ phase = "route" => FutureInv(future) /\ Routed(past, future.scheduled \cap DOMAIN program)
      /\ phase \in {"decompose", "mapped"} => Delivered(GatesOf(circuit))
  BY DEF FaithInv, FaithAt
<1>2. /\ job \in Jobs /\ past \in Pasts(MappedGates(job)) /\ past.waiting = <<>>
      /\ circuit \in Seq(Placed(MappedGates(job)))
  BY DEF RouteInv
<1>3. CASE phase = "start"
  <2>1. Output = <<>>
    BY <1>1, <1>3 DEF Output, GatesOf
  <2>2. <<>> \in Seq(MappedGates(job))
    OBVIOUS
  <2>3. PICK f : Trace(<<>>, f) /\ Replay(<<>>) = f[Len(<<>>)]
    BY <1>2, <2>2, ReplaySteps
  <2>4. Replay(<<>>) = Start
    BY <2>3 DEF Trace
  <2>5. Start.ok /\ Start.zeroes
    BY DEF Start
  <2> QED BY <1>1, <1>3, <2>1, <2>4, <2>5 DEF InitializedAreZero
<1>4. CASE phase = "route"
  <2>1. Output = Line(past, <<>>)
    <3>1. Output = GatesOf(past.output \o past.gates)
      BY <1>4 DEF Output
    <3> QED BY <1>2, <3>1, LineOut
  <2>2. Replay(Output).ok /\ Tracked(Replay(Output), past.map)
    BY <1>1, <1>4, <2>1 DEF Routed, Sound
  <2> QED BY <1>1, <1>4, <2>2 DEF Tracked, InitializedAreZero
<1>5. CASE phase \in {"decompose", "mapped"}
  <2>1. Output = GatesOf(circuit)
    BY <1>5 DEF Output
  <2>2. Replay(Output).ok /\ InStep(Output, DOMAIN program) /\ (settings.initialized => Replay(Output).zeroes)
    BY <1>1, <1>5, <2>1 DEF Delivered
  <2>3. Output \in Seq(MappedGates(job))
    BY <1>2, <2>1, GatesTyped
  <2>4. 0 \notin DOMAIN program
    <3>1. IsKernel(program, settings)
      BY ProgramKernel DEF RouteInv, program
    <3>2. DOMAIN program = 1 .. Len(program) /\ Len(program) \in Nat
      BY <3>1, KernelNodes
    <3> QED BY <3>2
  <2>5. \A n \in DOMAIN program : Cardinality({i \in DOMAIN Output : Output[i].id = n}) = 1
    <3>1. \A list \in Seq(MappedGates(job)) : InStep(list, DOMAIN program) =>
            \A n \in DOMAIN program : Cardinality({i \in DOMAIN list : list[i].id = n}) = 1
      BY <2>4, OncePerGate
    <3> QED BY <2>2, <2>3, <3>1
  <2> QED BY <1>1, <1>5, <2>2, <2>5 DEF InitializedAreZero
<1> QED BY <1>1, <1>3, <1>4, <1>5

\* Unless the program resets qubits in a way that leaves them without a state: running what
\* the mapper has delivered so far, every gate of the program finds the states of its
\* virtual qubits in its real operands, no initialisation or move overwrites a state, the
\* mapper's own account of where the states are agrees, and no gate is lost or doubled.
THEOREM MapperIsFaithful == Spec => []MappingFaithful
<1>1. RouteInv /\ FaithInv => MappingFaithful
  BY FaithfulNow
<1> QED BY FaithAlways, <1>1, PTL

-----------------------------------------------------------------------------
(* The state of a virtual qubit, and the time.                             *)

\* Where the state of a virtual qubit goes when a gate runs: it came from an operand if it is in one.
LEMMA StateMoves ==
  ASSUME job \in Jobs, ~Resets, NEW g \in MappedGates(job), NEW s \in States, Run(s, g).ok,
         NEW v \in Qubits, s.value[v] = "live"
  PROVE  /\ Run(s, g).value[v] = "live"
         /\ \A r \in Qubits : Run(s, g).content[r] = StateOf(v) =>
              IF r \in Ops(g) THEN \E q \in Ops(g) : s.content[q] = StateOf(v) ELSE s.content[r] = StateOf(v)
         /\ v \in Virtuals(g) => \E q \in Ops(g) : s.content[q] = StateOf(v)
<1>1. Run(s, g) = Effect(s, g) /\ Ops(g) \subseteq Qubits
  BY RunEffect
<1>2. Fine(s, g)
  BY RunOk
<1>3. g.id # 0 => DOMAIN VirtualsOf(g) = DOMAIN g.operands
  BY GateShape
<1>4. /\ Effect(s, g).value = [w \in Qubits |-> IF w \in Virtuals(g) THEN "live" ELSE s.value[w]]
      /\ Effect(s, g).content = [r \in Qubits |-> IF r \in Ops(g) THEN Put(s, g, r) ELSE s.content[r]]
  BY DEF Effect
<1>5. ASSUME NEW i \in DOMAIN VirtualsOf(g), VirtualsOf(g)[i] = v, g.id # 0
      PROVE  \E q \in Ops(g) : s.content[q] = StateOf(v)
  <2>1. s.content[g.operands[i]] = StateOf(v)
    BY <1>2, <1>5 DEF Fine
  <2>2. g.operands[i] \in Ops(g)
    BY <1>3, <1>5 DEF Ops
  <2> QED BY <2>1, <2>2
<1>6. ASSUME v \in Virtuals(g) PROVE \E q \in Ops(g) : s.content[q] = StateOf(v)
  <2>1. PICK i \in DOMAIN VirtualsOf(g) : VirtualsOf(g)[i] = v
    BY <1>6 DEF Virtuals
  <2>2. g.id # 0
    BY <2>1 DEF VirtualsOf
  <2> QED BY <1>5, <2>1, <2>2
<1>7. ASSUME NEW r \in Ops(g), Put(s, g, r) = StateOf(v)
      PROVE  \E q \in Ops(g) : s.content[q] = StateOf(v)
  <2>1. CASE g.id # 0
    <3> DEFINE i == CHOOSE k \in DOMAIN g.operands : g.operands[k] = r
    <3>1. i \in DOMAIN g.operands
      BY DEF Ops
    <3>2. StateOf(VirtualsOf(g)[i]) = StateOf(v)
      BY <1>7, <2>1 DEF Put
    <3> HIDE DEF i
    <3>3. VirtualsOf(g)[i] = v
      BY <3>2, ContentsDiffer
    <3> QED BY <1>3, <1>5, <2>1, <3>1, <3>3
  <2>2. CASE g.id = 0
    <3>1. g.operands[1] \in Ops(g) /\ LastOp(g) \in Ops(g)
      <4> DEFINE l == Len(g.operands)
      <4>1. l \in {1, 2} /\ DOMAIN g.operands = 1 .. l
        BY <2>2, GateShape
      <4> HIDE DEF l
      <4>2. 1 \in DOMAIN g.operands /\ l \in DOMAIN g.operands
        BY <4>1
      <4> QED BY <4>2 DEF Ops, LastOp, l
    <3>2. Zero # StateOf(v)
      BY ContentsDiffer
    <3>3. Put(s, g, r) \in {Zero, s.content[r], s.content[LastOp(g)], s.content[g.operands[1]]}
      BY <2>2 DEF Put
    <3> QED BY <1>7, <3>1, <3>2, <3>3
  <2> QED BY <2>1, <2>2
<1> QED BY <1>1, <1>4, <1>6, <1>7

\* Gates on one virtual qubit: wherever its state is moved in between, each ends before the next starts.
LEMMA StateChain ==
  ASSUME job \in Jobs, ~Resets, NEW circ \in Seq(Placed(MappedGates(job))), Replay(GatesOf(circ)).ok, Timed(circ),
         NEW k \in DOMAIN circ, NEW l \in DOMAIN circ, k < l,
         NEW v \in Virtuals(circ[k].gate), v \in Virtuals(circ[l].gate)
  PROVE  EndsBy(circ[k], circ[l])
<1> DEFINE G == MappedGates(job)
           list == GatesOf(circ)
           N == Len(list)
<1>1. /\ list \in Seq(G) /\ N = Len(circ) /\ DOMAIN list = 1 .. N /\ DOMAIN circ = 1 .. N /\ N \in Nat
      /\ \A n \in 1 .. N : list[n] = circ[n].gate /\ list[n] \in G
  <2>1. /\ list \in Seq(G) /\ Len(list) = Len(circ) /\ DOMAIN list = 1 .. Len(circ)
        /\ \A n \in 1 .. Len(circ) : list[n] = circ[n].gate
    <3>1. circ \in Seq(Placed(G))
      OBVIOUS
    <3> HIDE DEF G
    <3> QED BY <3>1, GatesTyped
  <2>2. DOMAIN circ = 1 .. Len(circ) /\ Len(circ) \in Nat
    OBVIOUS
  <2> HIDE DEF list, G
  <2> QED BY <2>1, <2>2
<1>2. PICK f : Trace(list, f) /\ Replay(list) = f[N]
  BY <1>1, ReplaySteps
<1>3. \A n \in 0 .. N : f[n] \in States /\ f[n].ok /\ Distinct(f[n])
  BY <1>1, <1>2, TraceSound
<1>4. \A n \in 1 .. N : f[n] = Run(f[n - 1], list[n])
  BY <1>2 DEF Trace
<1> HIDE DEF list, N
<1>5. v \in Qubits
  <2>1. list[k] \in G /\ v \in Virtuals(list[k])
    BY <1>1
  <2>2. list[k].id # 0
    BY <2>1 DEF Virtuals, VirtualsOf
  <2>3. VirtualsOf(list[k]) \in Seq(Qubits)
    BY <2>1, <2>2, GateShape
  <2> QED BY <2>1, <2>3 DEF Virtuals
<1>6. \A n \in 1 .. N : circ[n].cycle \in Nat /\ Duration[circ[n].gate.name] \in Nat
  <2>1. \A n \in 1 .. N : circ[n] \in Placed(G)
    BY <1>1
  <2>2. \A n \in 1 .. N : circ[n].cycle \in Nat /\ circ[n].gate \in RealGates
    BY <2>1 DEF Placed, MappedGates
  <2> QED BY <2>2, GateObjects
<1>7. ASSUME NEW m \in 1 .. N, NEW n \in 1 .. N, m < n, NEW r \in Ops(list[m]), r \in Ops(list[n])
      PROVE  EndsBy(circ[m], circ[n])
  <2>1. ~Separate(circ[m].gate, circ[n].gate)
    BY <1>1, <1>7 DEF Separate
  <2> QED BY <1>1, <1>7, <2>1 DEF Timed
<1> DEFINE Known(n) == /\ f[n].value[v] = "live"
                       /\ \A r \in Qubits : f[n].content[r] = StateOf(v) =>
                            \A i \in n + 1 .. N : r \in Ops(list[i]) => EndsBy(circ[k], circ[i])
           T == {m \in 0 .. N - k : Known(k + m)}
<1>8. k \in 1 .. N /\ l \in 1 .. N /\ N - k \in Nat
  BY <1>1
<1>9. Known(k)
  <2> DEFINE g == list[k]
             s == f[k - 1]
  <2>1. g \in G /\ s \in States /\ s.ok /\ Distinct(s) /\ f[k] = Run(s, g) /\ Run(s, g).ok /\ v \in Virtuals(g)
        /\ Distinct(f[k])
    <3>1. k - 1 \in 0 .. N /\ k \in 0 .. N
      BY <1>1, <1>8
    <3> QED BY <1>1, <1>3, <1>4, <1>8, <3>1
  <2> HIDE DEF g, s
  <2>2. f[k] = Effect(s, g)
    BY <2>1, RunEffect
  <2>3. f[k].value[v] = "live"
    BY <1>5, <2>1, <2>2 DEF Effect
  <2>4. ASSUME NEW r \in Qubits, f[k].content[r] = StateOf(v) PROVE r \in Ops(g)
    <3> SUFFICES ASSUME r \notin Ops(g) PROVE FALSE
      OBVIOUS
    <3>1. s.content[r] = StateOf(v)
      BY <2>2, <2>4 DEF Effect
    <3>2. s.value[v] = "live"
      BY <1>5, <2>1, <3>1 DEF Distinct
    <3>3. PICK q \in Ops(g) : s.content[q] = StateOf(v)
      BY <1>5, <2>1, <3>2, StateMoves
    <3>4. q \in Qubits
      BY <2>1, RunEffect
    <3> QED BY <1>5, <2>1, <3>1, <3>3, <3>4 DEF Distinct
  <2>5. ASSUME NEW r \in Qubits, f[k].content[r] = StateOf(v), NEW i \in k + 1 .. N, r \in Ops(list[i])
        PROVE  EndsBy(circ[k], circ[i])
    <3>1. i \in 1 .. N /\ k < i
      BY <1>1, <1>8
    <3>2. r \in Ops(list[k])
      BY <2>4, <2>5 DEF g
    <3> QED BY <1>7, <1>8, <2>5, <3>1, <3>2
  <2> QED BY <2>3, <2>5
<1>10. ASSUME NEW n \in k .. N, n < N, Known(n) PROVE Known(n + 1)
  <2> DEFINE g == list[n + 1]
             s == f[n]
  <2>1. n + 1 \in 1 .. N /\ n \in 0 .. N /\ n + 1 \in 0 .. N /\ (n + 1) - 1 = n /\ n + 1 \in n + 1 .. N
    BY <1>1, <1>8, <1>10
  <2>2. g \in G /\ s \in States /\ f[n + 1] = Run(s, g) /\ Run(s, g).ok /\ s.value[v] = "live"
    BY <1>1, <1>3, <1>4, <1>10, <2>1
  <2>3. /\ Run(s, g).value[v] = "live" /\ Ops(g) \subseteq Qubits
        /\ \A r \in Qubits : Run(s, g).content[r] = StateOf(v) =>
             IF r \in Ops(g) THEN \E q \in Ops(g) : s.content[q] = StateOf(v) ELSE s.content[r] = StateOf(v)
    <3> HIDE DEF g, s
    <3> QED BY <1>5, <2>2, StateMoves, RunEffect
  <2>4. ASSUME NEW r \in Qubits, f[n + 1].content[r] = StateOf(v), NEW i \in (n + 1) + 1 .. N, r \in Ops(list[i])
        PROVE  EndsBy(circ[k], circ[i])
    <3>1. i \in 1 .. N /\ i \in n + 1 .. N /\ n + 1 < i
      BY <1>1, <1>8, <2>1
    <3>2. CASE r \notin Ops(g)
      <4>1. s.content[r] = StateOf(v)
        BY <2>2, <2>3, <2>4, <3>2
      <4> QED BY <1>10, <2>4, <3>1, <4>1
    <3>3. CASE r \in Ops(g)
      <4>1. PICK q \in Ops(g) : s.content[q] = StateOf(v)
        BY <2>2, <2>3, <2>4, <3>3
      <4>2. EndsBy(circ[k], circ[n + 1])
        BY <1>10, <2>1, <2>3, <4>1
      <4>3. EndsBy(circ[n + 1], circ[i])
        BY <1>7, <2>1, <2>4, <3>1, <3>3
      <4>4. circ[k].cycle \in Nat /\ circ[n + 1].cycle \in Nat /\ circ[i].cycle \in Nat
            /\ Duration[circ[k].gate.name] \in Nat /\ Duration[circ[n + 1].gate.name] \in Nat
        BY <1>6, <1>8, <2>1, <3>1
      <4>5. /\ circ[k].cycle + Duration[circ[k].gate.name] <= circ[n + 1].cycle
            /\ circ[n + 1].cycle + Duration[circ[n + 1].gate.name] <= circ[i].cycle
        BY <4>2, <4>3 DEF EndsBy
      <4>6. circ[k].cycle + Duration[circ[k].gate.name] <= circ[i].cycle
        <5> DEFINE a == circ[k].cycle  b == circ[n + 1].cycle  c == circ[i].cycle
                   d == Duration[circ[k].gate.name]  e == Duration[circ[n + 1].gate.name]
        <5>1. a \in Nat /\ b \in Nat /\ c \in Nat /\ d \in Nat /\ e \in Nat /\ a + d <= b /\ b + e <= c
          BY <4>4, <4>5
        <5> HIDE DEF a, b, c, d, e
        <5>2. a + d <= c
          BY ONLY <5>1
        <5> QED BY <5>2 DEF a, c, d
      <4> QED BY <4>6 DEF EndsBy
    <3> QED BY <3>2, <3>3
  <2> QED BY <2>2, <2>3, <2>4
<1> HIDE DEF Known
<1>11. \A m \in 0 .. N - k : m \in T
  <2>1. 0 \in T
    <3>1. k + 0 = k /\ 0 \in 0 .. N - k
      BY <1>8
    <3> QED BY <1>9, <3>1
  <2>2. ASSUME NEW m \in 0 .. N - k, m < N - k, m \in T PROVE m + 1 \in T
    <3>1. k + m \in k .. N /\ k + m < N /\ k + (m + 1) = (k + m) + 1 /\ m + 1 \in 0 .. N - k
      <4>1. N \in Nat /\ k \in 1 .. N /\ m \in 0 .. N - k /\ m < N - k
        BY <1>1, <1>8, <2>2
      <4> QED BY ONLY <4>1
    <3>2. Known(k + m)
      BY <2>2
    <3>3. Known((k + m) + 1)
      BY <1>10, <3>1, <3>2
    <3>4. Known(k + (m + 1))
      BY <3>1, <3>3
    <3> QED BY <3>1, <3>4
  <2> HIDE DEF T
  <2> QED BY <1>8, <2>1, <2>2, StepByStep
<1>12. Known(l - 1)
  <2>1. (l - 1) - k \in 0 .. N - k /\ k + ((l - 1) - k) = l - 1
    BY <1>1, <1>8
  <2>2. Known(k + ((l - 1) - k))
    BY <1>11, <2>1
  <2> QED BY <2>1, <2>2
<1> DEFINE g == list[l]
           s == f[l - 1]
<1>13. g \in G /\ s \in States /\ Run(s, g).ok /\ v \in Virtuals(g) /\ s.value[v] = "live" /\ Ops(g) \subseteq Qubits
  <2>1. l - 1 \in 0 .. N /\ l \in 0 .. N
    BY <1>1, <1>8
  <2>2. g \in G /\ s \in States /\ Run(s, g).ok /\ v \in Virtuals(g) /\ s.value[v] = "live"
    BY <1>1, <1>3, <1>4, <1>8, <1>12, <2>1 DEF Known
  <2> HIDE DEF g, s
  <2> QED BY <2>2, RunEffect
<1>14. PICK q \in Ops(g) : s.content[q] = StateOf(v)
  <2> HIDE DEF g, s
  <2> QED BY <1>5, <1>13, StateMoves
<1>15. l \in (l - 1) + 1 .. N
  BY <1>1, <1>8
<1> QED BY <1>12, <1>13, <1>14, <1>15 DEF Known

LEMMA DependenciesNow ==
  ASSUME RouteInv, FaithInv
  PROVE  DependenciesKept
<1> SUFFICES ASSUME phase = "mapped", ~Resets, NEW m \in DOMAIN program, NEW n \in DOMAIN program,
                    m < n, KnownToPast(program[m], program[n], settings)
             PROVE  Kept(m, n)
  BY DEF DependenciesKept
<1> DEFINE G == MappedGates(job)
           list == GatesOf(circuit)
<1>1. job \in Jobs /\ circuit \in Seq(Placed(G))
  BY DEF RouteInv
<1>2. Replay(list).ok /\ InStep(list, DOMAIN program) /\ Timed(circuit)
  BY DEF FaithInv, FaithAt, Delivered
<1>3. /\ list \in Seq(G) /\ DOMAIN list = DOMAIN circuit /\ DOMAIN circuit \subseteq Int
      /\ \A i \in DOMAIN circuit : list[i] = circuit[i].gate /\ list[i] \in G
  <2>1. /\ list \in Seq(G) /\ DOMAIN list = 1 .. Len(circuit)
        /\ \A i \in 1 .. Len(circuit) : list[i] = circuit[i].gate
    <3> HIDE DEF G
    <3> QED BY <1>1, GatesTyped
  <2>2. DOMAIN circuit = 1 .. Len(circuit) /\ Len(circuit) \in Nat
    BY <1>1
  <2> HIDE DEF list, G
  <2> QED BY <2>1, <2>2
<1>4. m # 0 /\ n # 0
  <2>1. IsKernel(program, settings)
    BY ProgramKernel DEF RouteInv, program
  <2>2. DOMAIN program = 1 .. Len(program) /\ Len(program) \in Nat
    BY <2>1, KernelNodes
  <2> QED BY <2>2
<1> HIDE DEF list
<1>5. PICK k \in DOMAIN circuit : list[k].id = m /\ PlaceIn(m) = k
  <2>1. PICK k \in DOMAIN circuit : list[k].id = m
    BY <1>2, <1>3 DEF InStep
  <2>2. \A i \in DOMAIN circuit : circuit[i].gate.id = m <=> i = k
    BY <1>2, <1>3, <1>4, <2>1 DEF InStep
  <2> QED BY <2>1, <2>2 DEF PlaceIn
<1>6. PICK l \in DOMAIN circuit : list[l].id = n /\ PlaceIn(n) = l
  <2>1. PICK l \in DOMAIN circuit : list[l].id = n
    BY <1>2, <1>3 DEF InStep
  <2>2. \A i \in DOMAIN circuit : circuit[i].gate.id = n <=> i = l
    BY <1>2, <1>3, <1>4, <2>1 DEF InStep
  <2> QED BY <2>1, <2>2 DEF PlaceIn
<1>7. k < l
  BY <1>2, <1>3, <1>4, <1>5, <1>6 DEF InStep
<1> DEFINE g == circuit[k].gate
           h == circuit[l].gate
<1>8. g \in G /\ h \in G /\ g.id = m /\ h.id = n /\ g.name = program[m].name
  <2>1. g \in G /\ h \in G /\ g.id = m /\ h.id = n
    BY <1>3, <1>5, <1>6
  <2> HIDE DEF g, h
  <2> QED BY <1>1, <1>4, <2>1, GateShape
<1>9. EndsBy(circuit[k], circuit[l])
  <2>1. Virtuals(g) \cap Virtuals(h) # {} \/ \E x \in ToSet(BregsOf(g)) : x \in Written(g) /\ x \in Awaited(h)
    <3>1. g.id # 0 /\ h.id # 0 /\ KnownToPast(program[g.id], program[h.id], settings)
      BY <1>4, <1>8
    <3> HIDE DEF g, h
    <3> QED BY <1>1, <1>8, <3>1, Unknowing
  <2>2. CASE Virtuals(g) \cap Virtuals(h) # {}
    <3>1. PICK v : v \in Virtuals(g) /\ v \in Virtuals(h)
      BY <2>2
    <3> QED BY <1>1, <1>2, <1>7, <3>1, StateChain DEF list
  <2>3. CASE \E x \in ToSet(BregsOf(g)) : x \in Written(g) /\ x \in Awaited(h)
    <3>1. FeedsTo(circuit[k], circuit[l])
      BY <1>4, <1>8, <2>3 DEF FeedsTo
    <3> QED BY <1>2, <3>1 DEF Timed
  <2> QED BY <2>1, <2>2, <2>3
<1>10. circuit[k].cycle + Duration[program[m].name] <= circuit[l].cycle
  BY <1>8, <1>9 DEF EndsBy
<1> QED BY <1>5, <1>6, <1>7, <1>10 DEF Kept

\* Unless the program resets qubits in that way, the mapper only reorders gates that commute:
\* of two gates of the program that share a qubit, wherever it has been moved, or a bit that
\* the first one writes, the second starts after the first has ended.
THEOREM DependenciesSurviveMapping == Spec => []DependenciesKept
<1>1. RouteInv /\ FaithInv => DependenciesKept
  BY DependenciesNow
<1> QED BY FaithAlways, <1>1, PTL

=============================================================================
