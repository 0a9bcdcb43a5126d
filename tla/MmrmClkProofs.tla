---------------------------- MODULE MmrmClkProofs ----------------------------
(***************************************************************************)
(* What mmrm_sw_check_peak_current compares with the threshold is the      *)
(* current of all entries, for any number of clients and any currents: the *)
(* invariant is MmrmInv, and the sums over the table of clients are        *)
(* reasoned about by induction over the places of the table, which rests   *)
(* on the least number principle.                                          *)
(***************************************************************************)
EXTENDS MmrmClk, NaturalLemmas

\* The partial sums of a table of values.
PartialSums(g, value) ==
  g = [n \in 0 .. NumClients |-> IF n = 0 THEN 0 ELSE g[n - 1] + value[n]]

\* Induction over the table, for the set G of places at which a claim holds.
LEMMA TableInduction ==
  ASSUME NEW G, 0 \in G, \A n \in Clients : n - 1 \in G => n \in G
  PROVE  0 .. NumClients \subseteq G
<1>. DEFINE Bad == (0 .. NumClients) \ G
<1>. SUFFICES ASSUME Bad # {} PROVE FALSE
  OBVIOUS
<1>1. Bad \in SUBSET Nat
  BY SizesAssumption
<1>2. PICK m \in Bad : \A y \in Bad : m <= y
  <2>. HIDE DEF Bad
  <2>. QED  BY <1>1, LeastNumber
<1>3. m \in Clients /\ m - 1 \in 0 .. NumClients /\ ~(m <= m - 1)
  BY SizesAssumption DEF Clients
<1>. QED  BY <1>2, <1>3

\* The recursion over the table has a solution: one up to an entry can be
\* carried on to the next.
LEMMA SumsExist ==
  ASSUME NEW value \in [Clients -> Int]
  PROVE  \E g : PartialSums(g, value)
<1>. DEFINE Upto(m, g) == /\ g \in [0 .. m -> Int] /\ g[0] = 0
                          /\ \A n \in 1 .. m : g[n] = g[n - 1] + value[n]
            G == {m \in 0 .. NumClients : \E g : Upto(m, g)}
<1>1. 0 \in G
  <2>1. Upto(0, [n \in 0 .. 0 |-> 0])
    OBVIOUS
  <2>2. 0 \in 0 .. NumClients
    BY SizesAssumption
  <2>. QED  BY <2>1, <2>2
<1>2. ASSUME NEW m \in Clients, m - 1 \in G PROVE m \in G
  <2>1. m \in Nat /\ m # 0 /\ m \in 0 .. NumClients
    BY SizesAssumption DEF Clients
  <2>2. PICK g : Upto(m - 1, g)
    BY <1>2
  <2>. DEFINE h == [n \in 0 .. m |-> IF n = m THEN g[m - 1] + value[m] ELSE g[n]]
  <2>3. h \in [0 .. m -> Int]
    <3>. SUFFICES ASSUME NEW n \in 0 .. m PROVE h[n] \in Int
      OBVIOUS
    <3>. QED  BY <2>1, <2>2
  <2>4. h[0] = 0
    BY <2>1, <2>2
  <2>5. ASSUME NEW n \in 1 .. m PROVE h[n] = h[n - 1] + value[n]
    BY <2>1, <2>2
  <2>6. Upto(m, h)
    BY <2>3, <2>4, <2>5
  <2>. QED  BY <2>1, <2>6
<1>3. NumClients \in G
  <2>1. NumClients \in 0 .. NumClients
    BY SizesAssumption
  <2>. HIDE DEF G
  <2>. QED  BY <1>1, <1>2, <2>1, TableInduction
<1>4. PICK g : Upto(NumClients, g)
  BY <1>3
<1>5. \A n \in 0 .. NumClients : g[n] = IF n = 0 THEN 0 ELSE g[n - 1] + value[n]
  BY <1>4, SizesAssumption
<1>6. g \in [0 .. NumClients -> Int]
  BY <1>4
<1>. QED  BY <1>5, <1>6 DEF PartialSums

\* What SumTable computes.
LEMMA SumTableIsSum ==
  ASSUME NEW value \in [Clients -> Int]
  PROVE  \E g \in [0 .. NumClients -> Int] :
           /\ g[0] = 0
           /\ \A n \in Clients : g[n] = g[n - 1] + value[n]
           /\ SumTable(value) = g[NumClients]
<1>. DEFINE g == CHOOSE h : PartialSums(h, value)
<1>1. PartialSums(g, value)
  BY SumsExist
<1>2. SumTable(value) = g[NumClients]
  BY DEF SumTable, PartialSums
<1>. HIDE DEF g
<1>3. g[0] = 0 /\ \A n \in Clients : n - 1 \in 0 .. NumClients /\ g[n] = g[n - 1] + value[n]
  BY <1>1, SizesAssumption DEF PartialSums, Clients
<1>. DEFINE G == {n \in 0 .. NumClients : g[n] \in Int}
<1>4. 0 \in G /\ \A n \in Clients : n - 1 \in G => n \in G
  BY <1>3, SizesAssumption, SMTT(30) DEF Clients
<1>5. 0 .. NumClients \subseteq G
  <2>. HIDE DEF G
  <2>. QED  BY <1>4, TableInduction
<1>6. g \in [0 .. NumClients -> Int]
  BY <1>1, <1>5 DEF PartialSums
<1>. QED  BY <1>2, <1>3, <1>6

\* The sum of a table in which one value changes.
LEMMA SumChange ==
  ASSUME NEW v \in [Clients -> Int], NEW w \in [Clients -> Int], NEW c \in Clients,
         \A n \in Clients \ {c} : w[n] = v[n]
  PROVE  SumTable(w) = SumTable(v) - v[c] + w[c]
<1>1. PICK g \in [0 .. NumClients -> Int] :
        /\ g[0] = 0 /\ \A n \in Clients : g[n] = g[n - 1] + v[n]
        /\ SumTable(v) = g[NumClients]
  BY SumTableIsSum
<1>2. PICK h \in [0 .. NumClients -> Int] :
        /\ h[0] = 0 /\ \A n \in Clients : h[n] = h[n - 1] + w[n]
        /\ SumTable(w) = h[NumClients]
  BY SumTableIsSum
<1>. DEFINE G == {n \in 0 .. NumClients : h[n] = g[n] + IF n < c THEN 0 ELSE w[c] - v[c]}
<1>3. 0 \in G
  BY <1>1, <1>2, SizesAssumption DEF Clients
<1>4. ASSUME NEW n \in Clients, n - 1 \in G PROVE n \in G
  <2>0. n \in 0 .. NumClients /\ n \in Int /\ n - 1 \in 0 .. NumClients /\ c \in Int
    BY SizesAssumption DEF Clients
  <2>1. /\ g[n] = g[n - 1] + v[n] /\ h[n] = h[n - 1] + w[n]
        /\ g[n - 1] \in Int /\ h[n - 1] \in Int /\ v[n] \in Int /\ w[n] \in Int
        /\ v[c] \in Int /\ w[c] \in Int
    BY <1>1, <1>2, <2>0
  <2>2. CASE n < c
    BY <1>4, <2>0, <2>1, <2>2
  <2>3. CASE n = c
    BY <1>4, <2>0, <2>1, <2>3
  <2>4. CASE n > c
    <3>1. w[n] = v[n] /\ ~(n < c) /\ ~(n - 1 < c)
      BY <2>0, <2>4
    <3>. QED  BY <1>4, <2>0, <2>1, <3>1
  <2>. QED  BY <2>0, <2>2, <2>3, <2>4
<1>5. NumClients \in G
  <2>1. NumClients \in 0 .. NumClients
    BY SizesAssumption
  <2>. HIDE DEF G
  <2>. QED  BY <1>3, <1>4, <2>1, TableInduction
<1>6. ~(NumClients < c) /\ g[NumClients] \in Int /\ v[c] \in Int /\ w[c] \in Int
  BY SizesAssumption DEF Clients
<1>. QED  BY <1>1, <1>2, <1>5, <1>6

\* The sum of a table with larger values is larger.
LEMMA SumMonotonic ==
  ASSUME NEW v \in [Clients -> Int], NEW w \in [Clients -> Int],
         \A n \in Clients : v[n] <= w[n]
  PROVE  SumTable(v) <= SumTable(w)
<1>1. PICK g \in [0 .. NumClients -> Int] :
        /\ g[0] = 0 /\ \A n \in Clients : g[n] = g[n - 1] + v[n]
        /\ SumTable(v) = g[NumClients]
  BY SumTableIsSum
<1>2. PICK h \in [0 .. NumClients -> Int] :
        /\ h[0] = 0 /\ \A n \in Clients : h[n] = h[n - 1] + w[n]
        /\ SumTable(w) = h[NumClients]
  BY SumTableIsSum
<1>. DEFINE G == {n \in 0 .. NumClients : g[n] <= h[n]}
<1>3. 0 \in G
  BY <1>1, <1>2, SizesAssumption DEF Clients
<1>4. ASSUME NEW n \in Clients, n - 1 \in G PROVE n \in G
  <2>1. /\ n \in 0 .. NumClients /\ n - 1 \in 0 .. NumClients
        /\ g[n] = g[n - 1] + v[n] /\ h[n] = h[n - 1] + w[n]
        /\ g[n - 1] \in Int /\ h[n - 1] \in Int /\ v[n] \in Int /\ w[n] \in Int
    BY <1>1, <1>2, SizesAssumption, SMTT(40) DEF Clients
  <2>. QED  BY <1>4, <2>1
<1>5. NumClients \in G
  <2>1. NumClients \in 0 .. NumClients
    BY SizesAssumption
  <2>. HIDE DEF G
  <2>. QED  BY <1>3, <1>4, <2>1, TableInduction
<1>. QED  BY <1>1, <1>2, <1>5

\* A table of zeros.
LEMMA SumZero == SumTable([n \in Clients |-> 0]) = 0
<1>. DEFINE zero == [n \in Clients |-> 0]
<1>1. PICK g \in [0 .. NumClients -> Int] :
        /\ g[0] = 0 /\ \A n \in Clients : g[n] = g[n - 1] + zero[n]
        /\ SumTable(zero) = g[NumClients]
  <2>1. zero \in [Clients -> Int]
    OBVIOUS
  <2>. HIDE DEF zero
  <2>. QED  BY <2>1, SumTableIsSum
<1>. DEFINE G == {n \in 0 .. NumClients : g[n] = 0}
<1>2. 0 \in G /\ \A n \in Clients : n - 1 \in G => n \in G
  BY <1>1, SizesAssumption DEF Clients
<1>3. NumClients \in G
  <2>1. NumClients \in 0 .. NumClients
    BY SizesAssumption
  <2>. HIDE DEF G
  <2>. QED  BY <1>2, <2>1, TableInduction
<1>. QED  BY <1>1, <1>3

\* A sum of numbers is a number, and of natural numbers a natural number that is
\* not below any of them.
LEMMA SumType ==
  ASSUME NEW v \in [Clients -> Int]
  PROVE  /\ SumTable(v) \in Int
         /\ v \in [Clients -> Nat] =>
              /\ SumTable(v) \in Nat
              /\ \A c \in Clients : v[c] <= SumTable(v)
<1>1. SumTable(v) \in Int
  BY SumTableIsSum, SizesAssumption
<1>. DEFINE zero == [n \in Clients |-> 0]
<1>2. SumTable(zero) = 0
  BY SumZero
<1>3. ASSUME v \in [Clients -> Nat], NEW c \in Clients PROVE v[c] <= SumTable(v)
  <2>. DEFINE one == [n \in Clients |-> IF n = c THEN v[c] ELSE 0]
  <2>1. /\ zero \in [Clients -> Int] /\ one \in [Clients -> Int] /\ zero[c] = 0 /\ one[c] = v[c]
        /\ \A n \in Clients \ {c} : one[n] = zero[n]
        /\ \A n \in Clients : one[n] <= v[n]
    BY <1>3
  <2>. HIDE DEF one, zero
  <2>2. SumTable(one) = SumTable(zero) - zero[c] + one[c]
    BY <2>1, SumChange
  <2>3. SumTable(one) <= SumTable(v)
    BY <2>1, SumMonotonic
  <2>. QED  BY <1>1, <1>2, <1>3, <2>1, <2>2, <2>3
<1>4. ASSUME v \in [Clients -> Nat] PROVE SumTable(v) \in Nat
  <2>1. zero \in [Clients -> Int] /\ \A n \in Clients : zero[n] <= v[n]
    BY <1>4
  <2>. HIDE DEF zero
  <2>2. SumTable(zero) <= SumTable(v)
    BY <2>1, SumMonotonic
  <2>. QED  BY <1>1, <1>2, <2>2
<1>. QED  BY <1>1, <1>3, <1>4

-----------------------------------------------------------------------------
(* The invariant. *)

\* TypeOK, but for the sign of the sum, which is up to the values of the device tree.
Shape ==
  /\ registered \subseteq Clients /\ unset \subseteq Clients /\ skewed \in BOOLEAN
  /\ entry \in [Clients -> [rate : AllRates, reserve : BOOLEAN, blocks : Nat]]
  /\ \A c \in Running : c \in registered /\ entry[c].blocks \in 1 .. MaxBlocks[c]
  /\ aggreg_val \in Int /\ aggreg_level \in Levels
  /\ throttled \subseteq [client : Clients, delta : Nat, prev : Levels]
  /\ clock \in [Clients -> AllRates]
  /\ call \in [Clients -> [pc : {"idle", "flag", "admit", "set"}, rate : AllRates,
                           reserve : BOOLEAN, blocks : Nat]]

\* A request in flight is that of a registered client, and was checked.
CallsChecked ==
  \A c \in Clients :
    /\ call[c].pc # "idle" => c \in registered
    /\ call[c].pc = "admit" => ValidBlocks(c, call[c].rate, call[c].blocks)

\* The level of the rail is that of some client.
LevelInUse == ~skewed => \E c \in Clients : LevelOf(c) = aggreg_level

MmrmInv == Shape /\ CallsChecked /\ LevelInUse /\ AggregExact

-----------------------------------------------------------------------------
(* Levels and currents. *)

\* The level of a rate.
LEMMA RateLevel ==
  ASSUME NEW r \in AllRates
  PROVE  Level(r) \in Levels
BY SizesAssumption DEF Level, Levels, AllRates, Off

\* The levels a request is compared with, mmrm_sw_check_req_level's included.
LEMMA LevelTypes ==
  ASSUME Shape, NEW c \in Clients
  PROVE  LevelOf(c) \in Levels /\ Level(call[c].rate) \in Levels /\ Adjusted(c) \in Levels
<1>1. \A d \in Clients : LevelOf(d) \in Levels /\ Level(call[d].rate) \in Levels
  BY RateLevel DEF Shape, LevelOf
<1>2. ASSUME NEW req \in Levels PROVE CheckReqLevel(c, req) \in Levels
  <2>. DEFINE between == {d \in Running \ {c} : req < LevelOf(d) /\ LevelOf(d) < aggreg_level}
  <2>1. between # {} => Max(between) \in Clients
    <3>1. between \in SUBSET (0 .. NumClients) /\ NumClients \in Nat /\ between \subseteq Clients
      BY SizesAssumption DEF Running, Clients
    <3>. HIDE DEF between
    <3>. QED  BY <3>1, MaxIsLargest
  <2>. QED  BY <1>1, <2>1 DEF CheckReqLevel, Shape
<1>. QED  BY <1>1, <1>2 DEF Adjusted

\* Currents are natural numbers.
LEMMA CurrentTypes ==
  ASSUME Shape, NEW c \in Clients, NEW at \in Levels
  PROVE  /\ Booked(c, at) \in Nat
         /\ NewCur(c) \in Nat
<1>1. LevelOf(c) \in Levels /\ Level(call[c].rate) \in Levels /\ Adjusted(c) \in Levels
  BY LevelTypes
<1>2. \A v, a \in Levels : Current[c][v][a] \in Nat
  BY CurrentAssumption
<1>3. entry[c].blocks \in Nat /\ call[c].blocks \in Nat
  BY DEF Shape
<1>4. \A x, y \in Nat : x * y \in Nat
  OBVIOUS
<1>. QED  BY <1>1, <1>2, <1>3, <1>4 DEF Booked, NewCur

\* The level a request takes the rail to is that of a client once it is granted.
LEMMA AdjustedInUse ==
  ASSUME Shape, NEW c \in Clients,
         entry' = [entry EXCEPT ![c] = Granted(c)]
  PROVE  \E d \in Clients : LevelOf(d)' = Adjusted(c)
<1>. DEFINE req == Level(call[c].rate)
            others == Running \ {c}
            between == {d \in others : req < LevelOf(d) /\ LevelOf(d) < aggreg_level}
<1>1. LevelOf(c)' = req
  BY DEF Shape, LevelOf, Granted
<1>2. \A d \in Clients \ {c} : LevelOf(d)' = LevelOf(d)
  BY DEF Shape, LevelOf
<1>3. others \subseteq Clients \ {c}
  BY DEF Running
<1>4. between # {} => Max(between) \in Clients \ {c}
  <2>1. between \in SUBSET (0 .. NumClients) /\ NumClients \in Nat /\ between \subseteq Clients \ {c}
    BY <1>3, SizesAssumption DEF Clients
  <2>. HIDE DEF between
  <2>. QED  BY <2>1, MaxIsLargest
<1>5. Adjusted(c) = IF req >= aggreg_level THEN req
                    ELSE IF \E d \in others : LevelOf(d) = aggreg_level THEN aggreg_level
                    ELSE IF between # {} THEN LevelOf(Max(between))
                    ELSE req
  BY DEF Adjusted, CheckReqLevel
<1>. HIDE DEF req, between, others
<1>. QED  BY <1>1, <1>2, <1>3, <1>4, <1>5

\* The current of some of the clients, and of all, in a table.
LEMMA TotalType ==
  ASSUME Shape, NEW at \in Levels, NEW S
  PROVE  Total(S, at) \in Nat
<1>. DEFINE v == [d \in Clients |-> IF d \in S THEN Booked(d, at) ELSE 0]
<1>1. v \in [Clients -> Nat] /\ v \in [Clients -> Int]
  BY CurrentTypes
<1>2. Total(S, at) = SumTable(v)
  BY DEF Total
<1>. HIDE DEF v
<1>. QED  BY <1>1, <1>2, SumType

\* The same after a step.
LEMMA TotalTypeNext ==
  ASSUME Shape', NEW at \in Levels
  PROVE  Total(Clients, at)' \in Nat
<1>. DEFINE v == [d \in Clients |-> Booked(d, at)']
<1>1. ASSUME NEW d \in Clients PROVE Booked(d, at)' \in Nat
  <2>1. entry'[d].rate \in AllRates /\ entry'[d].blocks \in Nat
    BY DEF Shape
  <2>2. Level(entry'[d].rate) \in Levels
    BY <2>1, RateLevel
  <2>3. Current[d][Level(entry'[d].rate)][at] \in Nat
    BY <2>2, CurrentAssumption
  <2>4. \A x, y \in Nat : x * y \in Nat
    OBVIOUS
  <2>. QED  BY <2>1, <2>3, <2>4 DEF Booked, LevelOf
<1>2. v \in [Clients -> Nat] /\ v \in [Clients -> Int]
  BY <1>1
<1>3. Total(Clients, at)' = SumTable(v)
  BY DEF Total
<1>. HIDE DEF v
<1>. QED  BY <1>2, <1>3, SumType

\* What the entry of one client adds to the current of all.
LEMMA GrantExact ==
  ASSUME Shape, Shape', NEW c \in Clients,
         aggreg_level' = Adjusted(c),
         entry' = [entry EXCEPT ![c] = Granted(c)]
  PROVE  /\ Recalculated(c) => Total(Clients, aggreg_level)' = Total(Clients \ {c}, Adjusted(c)) + NewCur(c)
         /\ ~Recalculated(c) =>
              Total(Clients, aggreg_level)' = Total(Clients, aggreg_level) - OldCur(c) + NewCur(c)
<1>. DEFINE L == Adjusted(c)
            w == [d \in Clients |-> Booked(d, aggreg_level)']
            others == [d \in Clients |-> IF d \in Clients \ {c} THEN Booked(d, L) ELSE 0]
            all == [d \in Clients |-> Booked(d, L)]
<1>1. L \in Levels
  BY LevelTypes
<1>2. \A d \in Clients : Booked(d, L) \in Nat /\ NewCur(c) \in Nat
  BY <1>1, CurrentTypes
<1>3. \A d \in Clients \ {c} : Booked(d, aggreg_level)' = Booked(d, L)
  BY DEF Booked, LevelOf, Shape
<1>4. Booked(c, aggreg_level)' = NewCur(c)
  BY DEF Booked, LevelOf, NewCur, Granted, Shape
<1>5. w \in [Clients -> Int] /\ others \in [Clients -> Int] /\ all \in [Clients -> Int]
  BY <1>2, <1>3, <1>4
<1>6. Total(Clients, aggreg_level)' = SumTable(w)
  BY DEF Total
<1>7. Total(Clients \ {c}, L) = SumTable(others) /\ Total(Clients, L) = SumTable(all)
  BY DEF Total
<1>8. SumTable(w) = SumTable(others) - others[c] + w[c]
  <2>1. \A d \in Clients \ {c} : w[d] = others[d]
    BY <1>3
  <2>. HIDE DEF w, others
  <2>. QED  BY <1>5, <2>1, SumChange
<1>9. SumTable(w) = SumTable(all) - all[c] + w[c]
  <2>1. \A d \in Clients \ {c} : w[d] = all[d]
    BY <1>3
  <2>. HIDE DEF w, all
  <2>. QED  BY <1>5, <2>1, SumChange
<1>10. others[c] = 0 /\ w[c] = NewCur(c) /\ all[c] = Booked(c, L)
  BY <1>4
<1>11. SumTable(others) \in Int
  <2>. HIDE DEF others
  <2>. QED  BY <1>5, SumType
<1>12. CASE Recalculated(c)
  BY <1>2, <1>6, <1>7, <1>8, <1>10, <1>11, <1>12
<1>13. CASE ~Recalculated(c)
  <2>1. L = aggreg_level
    BY <1>13 DEF Recalculated
  <2>. HIDE DEF L, w, all
  <2>. QED  BY <1>6, <1>7, <1>9, <1>10, <1>13, <2>1 DEF OldCur
<1>. QED  BY <1>12, <1>13

-----------------------------------------------------------------------------
(* Each step keeps the invariant. *)

\* The invariant holds when the manager is probed.
LEMMA InitMmrm == Init => MmrmInv
<1>. SUFFICES ASSUME Init PROVE MmrmInv
  OBVIOUS
<1>1. Shape
  <2>1. Off \in AllRates /\ 0 \in Levels /\ 0 \in Nat /\ 0 \in Int
    BY SizesAssumption DEF AllRates, Levels
  <2>2. Running = {}
    BY DEF Init, Running
  <2>. QED  BY <2>1, <2>2 DEF Init, Shape, Idle
<1>2. CallsChecked
  BY DEF Init, CallsChecked, Idle
<1>3. LevelInUse
  <2>1. 1 \in Clients
    BY SizesAssumption DEF Clients
  <2>2. LevelOf(1) = aggreg_level
    BY <2>1 DEF Init, LevelOf, Level
  <2>. QED  BY <2>1, <2>2 DEF LevelInUse
<1>4. AggregExact
  <2>. DEFINE v == [d \in Clients |-> IF d \in Clients THEN Booked(d, aggreg_level) ELSE 0]
  <2>1. v = [d \in Clients |-> 0]
    BY DEF Init, Booked
  <2>2. Total(Clients, aggreg_level) = SumTable([d \in Clients |-> 0])
    BY <2>1 DEF Total
  <2>. QED  BY <2>2, SumZero DEF Init, AggregExact
<1>. QED  BY <1>1, <1>2, <1>3, <1>4 DEF MmrmInv

\* A step that changes neither entries nor sum keeps what is said of the two.
LEMMA BookKept ==
  ASSUME MmrmInv, UNCHANGED <<book, skewed>>
  PROVE  LevelInUse' /\ AggregExact'
<1>1. UNCHANGED <<entry, aggreg_val, aggreg_level, skewed>>
  BY DEF book
<1>2. Total(Clients, aggreg_level)' = Total(Clients, aggreg_level)
  BY <1>1 DEF Total, Booked, LevelOf
<1>. QED  BY <1>1, <1>2 DEF MmrmInv, LevelInUse, AggregExact, LevelOf

\* The current of all entries after a request is granted is what was compared with
\* the threshold.
LEMMA GrantTotal ==
  ASSUME MmrmInv, Shape', NEW c \in Clients,
         entry' = [entry EXCEPT ![c] = Granted(c)], aggreg_level' = Adjusted(c),
         Recalculated(c) \/ ~skewed
  PROVE  Total(Clients, aggreg_level)' = Asked(c)
<1>1. Adjusted(c) \in Levels
  BY LevelTypes DEF MmrmInv
<1>2. NewCur(c) \in Nat /\ OldCur(c) \in Nat /\ aggreg_val \in Int
  BY CurrentTypes DEF MmrmInv, Shape, OldCur
<1>3. CASE Recalculated(c)
  <2>1. Total(Clients \ {c}, Adjusted(c)) \in Nat
    BY <1>1, TotalType DEF MmrmInv
  <2>2. Total(Clients, aggreg_level)' = Total(Clients \ {c}, Adjusted(c)) + NewCur(c)
    BY <1>3, GrantExact DEF MmrmInv
  <2>. QED  BY <1>2, <1>3, <2>1, <2>2 DEF Asked, PeakCur, DeltaCur
<1>4. CASE ~Recalculated(c)
  <2>1. aggreg_val = Total(Clients, aggreg_level)
    BY <1>4 DEF MmrmInv, AggregExact
  <2>2. Total(Clients, aggreg_level)' = Total(Clients, aggreg_level) - OldCur(c) + NewCur(c)
    BY <1>4, GrantExact DEF MmrmInv
  <2>. QED  BY <1>2, <1>4, <2>1, <2>2 DEF Asked, PeakCur, DeltaCur
<1>. QED  BY <1>3, <1>4

\* A request that is granted without throttling anybody.
LEMMA GrantStep ==
  ASSUME MmrmInv, NEW c \in Clients, NEW val \in Int, NEW list,
         list \subseteq throttled,
         call[c].pc = "admit",
         Grant(c, val, list, entry),
         val = IF Asked(c) <= 0 THEN 0 ELSE Asked(c),
         skewed' = (skewed /\ ~Recalculated(c)),
         UNCHANGED <<clock, unset>>
  PROVE  MmrmInv'
<1>1. Adjusted(c) \in Levels /\ LevelOf(c) \in Levels
  BY LevelTypes DEF MmrmInv
<1>2. ValidBlocks(c, call[c].rate, call[c].blocks) /\ c \in registered
  BY DEF MmrmInv, CallsChecked
<1>3. /\ entry' = [entry EXCEPT ![c] = Granted(c)] /\ aggreg_val' = val
      /\ aggreg_level' = Adjusted(c) /\ throttled' = list /\ registered' = registered
  BY DEF Grant
<1>4. call' = [call EXCEPT ![c] = IF call[c].reserve THEN Idle ELSE [call[c] EXCEPT !.pc = "set"]]
  BY DEF Grant, GoOn
<1>5. Shape'
  <2>1. entry' \in [Clients -> [rate : AllRates, reserve : BOOLEAN, blocks : Nat]]
    BY <1>3 DEF MmrmInv, Shape, Granted
  <2>2. \A d \in Running' : d \in registered' /\ entry'[d].blocks \in 1 .. MaxBlocks[d]
    BY <1>2, <1>3 DEF MmrmInv, Shape, Running, Granted, ValidBlocks
  <2>3. call' \in [Clients -> [pc : {"idle", "flag", "admit", "set"}, rate : AllRates,
                               reserve : BOOLEAN, blocks : Nat]]
    BY <1>4 DEF MmrmInv, Shape, Idle, AllRates, Off
  <2>. QED  BY <1>1, <1>3, <2>1, <2>2, <2>3 DEF MmrmInv, Shape
<1>6. CallsChecked'
  BY <1>2, <1>3, <1>4 DEF MmrmInv, Shape, CallsChecked, Idle, ValidBlocks
<1>7. LevelInUse'
  BY <1>3, AdjustedInUse DEF MmrmInv, LevelInUse
<1>8. AggregExact'
  <2>. SUFFICES ASSUME ~skewed' PROVE aggreg_val' = Total(Clients, aggreg_level)'
    BY DEF AggregExact
  <2>1. Total(Clients, aggreg_level)' = Asked(c)
    BY <1>3, <1>5, GrantTotal
  <2>2. Total(Clients, aggreg_level)' \in Nat
    <3>1. (\A at \in Levels : Total(Clients, at) \in Nat)'
      BY <1>5, TotalTypeNext
    <3>. QED  BY <1>5, <3>1 DEF Shape
  <2>. QED  BY <1>3, <2>1, <2>2
<1>. QED  BY <1>5, <1>6, <1>7, <1>8 DEF MmrmInv

\* A client that is throttled is of low priority and runs.
LEMMA VictimRuns ==
  ASSUME Shape, NEW c \in Clients, Candidates(DeltaCur(c)) # {}
  PROVE  /\ \E i \in DOMAIN ThrottleList : Victim(c) = ThrottleList[i]
         /\ Victim(c) \in Clients \ High
         /\ Saving(Victim(c)) \in Nat
         /\ entry[Victim(c)].rate # Off
<1>. DEFINE i == Min(Candidates(DeltaCur(c)))
<1>1. i \in DOMAIN ThrottleList /\ DeltaCur(c) >= 0 /\ Saving(ThrottleList[i]) > DeltaCur(c)
  <2>1. Candidates(DeltaCur(c)) \in SUBSET Nat
    BY CurrentAssumption DEF Candidates
  <2>2. i \in Candidates(DeltaCur(c))
    BY <2>1, MinIsLeast
  <2>. HIDE DEF i
  <2>. QED  BY <2>2 DEF Candidates
<1>2. Victim(c) = ThrottleList[i]
  BY DEF Victim
<1>. HIDE DEF i
<1>3. Victim(c) \in Clients \ High
  BY <1>1, <1>2, CurrentAssumption
<1>. DEFINE d == Victim(c)
<1>4. /\ LevelOf(d) \in Levels /\ aggreg_level \in Levels /\ 0 \in Levels
      /\ Current[d][LevelOf(d)][aggreg_level] \in Nat /\ Current[d][0][aggreg_level] \in Nat
  <2>1. LevelOf(d) \in Levels /\ aggreg_level \in Levels /\ 0 \in Levels
    BY <1>3, LevelTypes, SizesAssumption DEF Shape, Levels
  <2>. QED  BY <1>3, <2>1, CurrentAssumption
<1>5. DeltaCur(c) \in Int
  <2>1. aggreg_level \in Levels
    BY DEF Shape
  <2>2. NewCur(c) \in Nat /\ OldCur(c) \in Nat
    BY <2>1, CurrentTypes DEF OldCur
  <2>. QED  BY <2>2 DEF DeltaCur
<1>6. Saving(d) \in Int /\ Saving(d) > 0
  BY <1>1, <1>2, <1>4, <1>5 DEF Saving
<1>7. entry[d].rate # Off
  <2>. SUFFICES ASSUME entry[d].rate = Off PROVE FALSE
    OBVIOUS
  <2>1. LevelOf(d) = 0
    BY DEF LevelOf, Level
  <2>. QED  BY <1>4, <1>6, <2>1 DEF Saving
<1>. QED  BY <1>1, <1>2, <1>3, <1>6, <1>7

\* What a request comes to is an integer.
LEMMA AskedType ==
  ASSUME Shape, NEW c \in Clients
  PROVE  Asked(c) \in Int
<1>1. aggreg_level \in Levels /\ Adjusted(c) \in Levels /\ aggreg_val \in Int
  BY LevelTypes DEF Shape
<1>2. NewCur(c) \in Nat /\ OldCur(c) \in Nat /\ Total(Clients \ {c}, Adjusted(c)) \in Nat
  BY <1>1, CurrentTypes, TotalType DEF OldCur
<1>. QED  BY <1>1, <1>2 DEF Asked, PeakCur, DeltaCur

\* A request of high priority that throttles a client.
LEMMA ThrottleStep ==
  ASSUME MmrmInv, NEW c \in Clients, AdmitThrottle(c)
  PROVE  MmrmInv'
<1>. DEFINE d == Victim(c)
            val == Asked(c) - Saving(d)
            info == [client |-> d, delta |-> Saving(d), prev |-> LevelOf(d)]
<1>1. /\ call[c].pc = "admit" /\ c \in High /\ Candidates(DeltaCur(c)) # {} /\ skewed' = TRUE
      /\ Grant(c, val, StillThrottled(throttled \cup {info}, val),
               [entry EXCEPT ![d].rate = LowSvs, ![d].reserve = FALSE])
      /\ clock' = IF entry[d].reserve THEN clock ELSE [clock EXCEPT ![d] = LowSvs]
      /\ unset' = IF entry[d].reserve THEN unset \cup {d} ELSE unset \ {d}
  BY DEF AdmitThrottle, MayThrottle
<1>2. d \in Clients /\ d # c /\ Saving(d) \in Nat /\ entry[d].rate # Off /\ Asked(c) \in Int
  BY <1>1, VictimRuns, AskedType DEF MmrmInv
<1>3. Adjusted(c) \in Levels /\ LevelOf(d) \in Levels /\ LowSvs \in AllRates
  <2>1. LowSvs \in AllRates
    BY SizesAssumption DEF LowSvs, AllRates, Levels
  <2>. QED  BY <1>2, <2>1, LevelTypes DEF MmrmInv
<1>. HIDE DEF d
<1>4. ValidBlocks(c, call[c].rate, call[c].blocks) /\ c \in registered
  BY <1>1 DEF MmrmInv, CallsChecked
<1>5. /\ entry' = [[entry EXCEPT ![d].rate = LowSvs, ![d].reserve = FALSE] EXCEPT ![c] = Granted(c)]
      /\ aggreg_val' = val /\ aggreg_level' = Adjusted(c) /\ registered' = registered
      /\ throttled' = StillThrottled(throttled \cup {info}, val)
  BY <1>1 DEF Grant
<1>6. call' = [call EXCEPT ![c] = IF call[c].reserve THEN Idle ELSE [call[c] EXCEPT !.pc = "set"]]
  BY <1>1 DEF Grant, GoOn
<1>7. Shape'
  <2>1. entry' \in [Clients -> [rate : AllRates, reserve : BOOLEAN, blocks : Nat]]
    <3>. DEFINE low == [entry EXCEPT ![d].rate = LowSvs, ![d].reserve = FALSE]
    <3>1. low \in [Clients -> [rate : AllRates, reserve : BOOLEAN, blocks : Nat]]
      BY <1>2, <1>3, ZenonT(60) DEF MmrmInv, Shape
    <3>2. Granted(c) \in [rate : AllRates, reserve : BOOLEAN, blocks : Nat]
      BY DEF MmrmInv, Shape, Granted
    <3>3. entry' = [low EXCEPT ![c] = Granted(c)]
      BY <1>5
    <3>. HIDE DEF low
    <3>. QED  BY <3>1, <3>2, <3>3
  <2>2. \A e \in Clients : entry'[e].blocks = IF e = c THEN call[c].blocks ELSE entry[e].blocks
    BY <1>2, <1>5 DEF MmrmInv, Shape, Granted
  <2>3. \A e \in Clients : entry'[e].rate # Off => IF e = c THEN call[c].rate # Off ELSE entry[e].rate # Off
    BY <1>2, <1>5 DEF MmrmInv, Shape, Granted
  <2>4. \A e \in Running' : e \in registered' /\ entry'[e].blocks \in 1 .. MaxBlocks[e]
    BY <1>4, <1>5, <2>2, <2>3 DEF MmrmInv, Shape, Running, ValidBlocks
  <2>5. call' \in [Clients -> [pc : {"idle", "flag", "admit", "set"}, rate : AllRates,
                               reserve : BOOLEAN, blocks : Nat]]
    BY <1>6 DEF MmrmInv, Shape, Idle, AllRates, Off
  <2>6. throttled' \subseteq [client : Clients, delta : Nat, prev : Levels]
    <3>1. info \in [client : Clients, delta : Nat, prev : Levels]
      BY <1>2, <1>3
    <3>. HIDE DEF info
    <3>. QED  BY <1>5, <3>1 DEF MmrmInv, Shape, StillThrottled
  <2>7. clock' \in [Clients -> AllRates] /\ unset' \subseteq Clients /\ aggreg_val' \in Int
    BY <1>1, <1>2, <1>3, <1>5 DEF MmrmInv, Shape
  <2>. QED  BY <1>1, <1>3, <1>5, <2>1, <2>4, <2>5, <2>6, <2>7 DEF MmrmInv, Shape
<1>8. CallsChecked'
  BY <1>4, <1>5, <1>6 DEF MmrmInv, Shape, CallsChecked, Idle, ValidBlocks
<1>9. LevelInUse' /\ AggregExact'
  BY <1>1 DEF LevelInUse, AggregExact
<1>. QED  BY <1>7, <1>8, <1>9 DEF MmrmInv

\* A step of a client keeps the invariant.
LEMMA ClientStep ==
  ASSUME MmrmInv, NEW c \in Clients,
         \/ mmrm_sw_clk_client_register(c)
         \/ mmrm_sw_clk_client_deregister(c)
         \/ \E r \in Requests(c) : SetVal(c, r.rate, r.reserve, r.blocks)
         \/ FlagReserve(c)
         \/ AdmitNone(c) \/ AdmitFits(c) \/ AdmitThrottle(c) \/ AdmitUnthrottled(c) \/ Refuse(c)
         \/ SetClkRate(c) \/ SetClkRateFails(c)
  PROVE  MmrmInv'
<1>t. call[c].reserve \in BOOLEAN /\ Idle.pc = "idle"
  BY DEF MmrmInv, Shape, Idle
<1>1. CASE mmrm_sw_clk_client_register(c)
  <2>1. LevelInUse' /\ AggregExact'
    BY <1>1, BookKept DEF mmrm_sw_clk_client_register
  <2>2. Shape' /\ CallsChecked'
    BY <1>1 DEF mmrm_sw_clk_client_register, MmrmInv, Shape, CallsChecked, Running, book, ValidBlocks
  <2>. QED  BY <2>1, <2>2 DEF MmrmInv
<1>2. CASE mmrm_sw_clk_client_deregister(c)
  <2>1. Shape' /\ CallsChecked'
    <3>1. /\ entry' = [entry EXCEPT ![c].rate = Off] /\ registered' = registered \ {c} /\ call[c].pc = "idle"
          /\ UNCHANGED <<aggreg_val, aggreg_level, throttled, clock, call>>
          /\ unset' \subseteq unset \cup {c} /\ skewed' = (skewed \/ entry[c].rate # Off)
      BY <1>2, <1>t DEF mmrm_sw_clk_client_deregister
    <3>2. Off \in AllRates
      BY DEF AllRates
    <3>3. \A d \in Clients : entry'[d].rate # Off => d # c /\ entry'[d] = entry[d]
      BY <3>1 DEF MmrmInv, Shape
    <3>4. Shape'
      BY <3>1, <3>2, <3>3 DEF MmrmInv, Shape, Running
    <3>. QED  BY <3>1, <3>4 DEF MmrmInv, CallsChecked, ValidBlocks
  <2>2. CASE entry[c].rate = Off
    <3>1. UNCHANGED <<entry, aggreg_val, aggreg_level, throttled, skewed>>
      BY <1>2, <2>2 DEF mmrm_sw_clk_client_deregister, MmrmInv, Shape
    <3>2. LevelInUse' /\ AggregExact'
      BY <3>1, BookKept DEF book
    <3>. QED  BY <2>1, <3>2 DEF MmrmInv
  <2>3. CASE entry[c].rate # Off
    BY <1>2, <2>1, <2>3 DEF mmrm_sw_clk_client_deregister, MmrmInv, LevelInUse, AggregExact
  <2>. QED  BY <2>2, <2>3
<1>3. CASE \E r \in Requests(c) : SetVal(c, r.rate, r.reserve, r.blocks)
  <2>1. PICK r \in Requests(c) : SetVal(c, r.rate, r.reserve, r.blocks)
    BY <1>3
  <2>2. LevelInUse' /\ AggregExact'
    BY <2>1, BookKept DEF SetVal
  <2>3. r.rate \in AllRates /\ r.reserve \in BOOLEAN /\ r.blocks \in Nat
    BY SizesAssumption DEF Requests
  <2>4. PICK pc \in {"admit", "flag"} :
          /\ call' = [call EXCEPT ![c] = [pc |-> pc, rate |-> r.rate, reserve |-> r.reserve, blocks |-> r.blocks]]
          /\ pc = "admit" => ValidBlocks(c, r.rate, r.blocks)
          /\ c \in registered
    BY <2>1 DEF SetVal
  <2>5. UNCHANGED <<registered, book, clock, skewed, unset>>
    BY <2>1 DEF SetVal
  <2>6. Shape'
    BY <2>3, <2>4, <2>5 DEF MmrmInv, Shape, Running, book
  <2>7. CallsChecked'
    BY <2>3, <2>4, <2>5 DEF MmrmInv, Shape, CallsChecked, ValidBlocks
  <2>. QED  BY <2>2, <2>6, <2>7 DEF MmrmInv
<1>4. CASE FlagReserve(c)
  <2>1. /\ entry' = [entry EXCEPT ![c].reserve = call[c].reserve]
        /\ call' = [call EXCEPT ![c] = IF call[c].reserve THEN Idle ELSE [call[c] EXCEPT !.pc = "set"]]
        /\ UNCHANGED <<registered, aggreg_val, aggreg_level, throttled, clock, skewed, unset>>
        /\ call[c].pc = "flag"
    BY <1>4 DEF FlagReserve, GoOn
  <2>2. \A d \in Clients : entry'[d].rate = entry[d].rate /\ entry'[d].blocks = entry[d].blocks
    BY <2>1 DEF MmrmInv, Shape
  <2>3. Shape'
    <3>1. call' \in [Clients -> [pc : {"idle", "flag", "admit", "set"}, rate : AllRates,
                                 reserve : BOOLEAN, blocks : Nat]]
      BY <2>1 DEF MmrmInv, Shape, Idle, AllRates, Off
    <3>2. entry' \in [Clients -> [rate : AllRates, reserve : BOOLEAN, blocks : Nat]]
      BY <1>t, <2>1 DEF MmrmInv, Shape
    <3>3. Running' = Running
      BY <2>2 DEF Running
    <3>4. \A d \in Running' : d \in registered' /\ entry'[d].blocks \in 1 .. MaxBlocks[d]
      BY <2>1, <2>2, <3>3 DEF MmrmInv, Shape, Running
    <3>. QED  BY <2>1, <3>1, <3>2, <3>4 DEF MmrmInv, Shape
  <2>4. CallsChecked'
    BY <1>t, <2>1 DEF MmrmInv, Shape, CallsChecked, ValidBlocks
  <2>5. Total(Clients, aggreg_level)' = Total(Clients, aggreg_level)
    <3>1. \A d \in Clients : Booked(d, aggreg_level)' = Booked(d, aggreg_level)
      BY <2>1, <2>2 DEF Booked, LevelOf
    <3>. QED  BY <3>1 DEF Total
  <2>. QED  BY <2>1, <2>2, <2>3, <2>4, <2>5 DEF MmrmInv, LevelInUse, AggregExact, LevelOf
<1>5. CASE AdmitNone(c)
  <2>1. Asked(c) <= 0 /\ Grant(c, 0, throttled, entry) /\ call[c].pc = "admit"
        /\ skewed' = (skewed /\ ~Recalculated(c)) /\ UNCHANGED <<clock, unset>>
    BY <1>5 DEF AdmitNone
  <2>. QED  BY <2>1, GrantStep
<1>6. CASE AdmitFits(c) \/ AdmitUnthrottled(c)
  <2>0. Asked(c) \in Int
    BY AskedType DEF MmrmInv
  <2>1. Asked(c) > 0 /\ Grant(c, Asked(c), StillThrottled(throttled, Asked(c)), entry) /\ call[c].pc = "admit"
        /\ skewed' = (skewed /\ ~Recalculated(c)) /\ UNCHANGED <<clock, unset>>
    BY <1>6, <2>0 DEF AdmitFits, AdmitUnthrottled, Fits, Overshoots
  <2>2. StillThrottled(throttled, Asked(c)) \subseteq throttled
    BY DEF StillThrottled
  <2>3. Asked(c) = IF Asked(c) <= 0 THEN 0 ELSE Asked(c)
    BY <2>0, <2>1
  <2>. QED  BY <2>0, <2>1, <2>2, <2>3, GrantStep
<1>7. CASE AdmitThrottle(c)
  BY <1>7, ThrottleStep
<1>8. CASE Refuse(c) \/ SetClkRate(c) \/ SetClkRateFails(c)
  <2>1. /\ call' = [call EXCEPT ![c] = Idle] /\ UNCHANGED <<registered, book, skewed>>
        /\ clock' \in {clock, [clock EXCEPT ![c] = call[c].rate]}
        /\ unset' \subseteq unset \cup {c}
    BY <1>8 DEF Refuse, SetClkRate, SetClkRateFails
  <2>2. LevelInUse' /\ AggregExact'
    BY <2>1, BookKept
  <2>3. Shape'
    <3>1. Idle \in [pc : {"idle", "flag", "admit", "set"}, rate : AllRates, reserve : BOOLEAN, blocks : Nat]
      BY DEF Idle, AllRates, Off
    <3>2. clock' \in [Clients -> AllRates]
      BY <2>1 DEF MmrmInv, Shape
    <3>. QED  BY <2>1, <3>1, <3>2 DEF MmrmInv, Shape, Running, book
  <2>4. CallsChecked'
    BY <1>t, <2>1 DEF MmrmInv, Shape, CallsChecked, ValidBlocks
  <2>. QED  BY <2>2, <2>3, <2>4 DEF MmrmInv
<1>. QED  BY <1>1, <1>2, <1>3, <1>4, <1>5, <1>6, <1>7, <1>8

-----------------------------------------------------------------------------
\* Types, the requests in flight, the level of the rail and the sum belong together
\* in every state, for any number of clients and any currents.
THEOREM MmrmInvariant == Spec => []MmrmInv
<1>1. MmrmInv /\ [Next]_vars => MmrmInv'
  <2>. SUFFICES ASSUME MmrmInv, [Next]_vars PROVE MmrmInv'
    OBVIOUS
  <2>1. CASE UNCHANGED vars
    <3>1. LevelInUse' /\ AggregExact'
      BY <2>1, BookKept DEF vars
    <3>2. Shape' /\ CallsChecked'
      BY <2>1 DEF vars, book, MmrmInv, Shape, CallsChecked, Running, ValidBlocks
    <3>. QED  BY <3>1, <3>2 DEF MmrmInv
  <2>2. CASE Next
    BY <2>2, ClientStep DEF Next
  <2>. QED  BY <2>1, <2>2
<1>. QED  BY <1>1, InitMmrm, PTL DEF Spec

\* mmrm_sw_check_peak_current compares requests with the current of all entries: the
\* sum that is carried on by differences is exact.
THEOREM MmrmAggregExact == Spec => []AggregExact
<1>1. MmrmInv => AggregExact
  BY DEF MmrmInv
<1>. QED  BY <1>1, MmrmInvariant, PTL

\* The sum is enough for the highest level in use, although mmrm_sw_check_req_level
\* does not always find that level.
THEOREM MmrmSumIsSafe == Spec => []SumIsSafe
<1>1. MmrmInv => SumIsSafe
  <2>. DEFINE S == {LevelOf(c) : c \in Clients}
              top == Max(S)
  <2>. SUFFICES ASSUME MmrmInv, ~skewed PROVE Total(Clients, top) <= aggreg_val
    BY DEF SumIsSafe
  <2>1. \A c \in Clients : LevelOf(c) \in Levels
    BY LevelTypes DEF MmrmInv
  <2>2. aggreg_level \in S /\ aggreg_level \in Levels
    BY DEF MmrmInv, LevelInUse, Shape
  <2>3. top \in S /\ aggreg_level <= top
    <3>1. MMRM_VDD_LEVEL_MAX - 1 \in Nat /\ S \in SUBSET (0 .. MMRM_VDD_LEVEL_MAX - 1) /\ S # {}
      BY <2>1, <2>2, SizesAssumption DEF Levels
    <3>. HIDE DEF S
    <3>. QED  BY <2>2, <3>1, MaxIsLargest
  <2>4. top \in Levels
    BY <2>1, <2>3
  <2>. HIDE DEF top
  <2>. DEFINE v == [c \in Clients |-> Booked(c, top)]
              w == [c \in Clients |-> Booked(c, aggreg_level)]
  <2>5. v \in [Clients -> Int] /\ w \in [Clients -> Int]
    BY <2>2, <2>4, CurrentTypes DEF MmrmInv
  <2>6. ASSUME NEW c \in Clients PROVE v[c] <= w[c]
    <3>1. CASE entry[c].rate = Off
      BY <3>1 DEF Booked
    <3>2. CASE entry[c].rate # Off
      <4>. DEFINE x == Current[c][LevelOf(c)][top]
                  y == Current[c][LevelOf(c)][aggreg_level]
                  k == entry[c].blocks
      <4>1. x \in Nat /\ y \in Nat /\ x <= y
        BY <2>1, <2>2, <2>3, <2>4, CurrentAssumption
      <4>2. k \in Nat
        BY DEF MmrmInv, Shape
      <4>3. v[c] = x * k /\ w[c] = y * k
        BY <3>2 DEF Booked
      <4>. HIDE DEF x, y, k, v, w
      <4>. QED  BY <4>1, <4>2, <4>3
    <3>. QED  BY <3>1, <3>2
  <2>7. SumTable(v) <= SumTable(w)
    <3>. HIDE DEF v, w
    <3>. QED  BY <2>5, <2>6, SumMonotonic
  <2>8. Total(Clients, top) = SumTable(v) /\ Total(Clients, aggreg_level) = SumTable(w)
    BY DEF Total
  <2>. QED  BY <2>7, <2>8 DEF MmrmInv, AggregExact
<1>. QED  BY <1>1, MmrmInvariant, PTL

-----------------------------------------------------------------------------
(* The clocks. *)

\* A request that has been entered is that of the entry, and between requests the
\* clock runs at the rate of the entry.
ClocksSet ==
  \A c \in Clients :
    /\ call[c].pc \in {"flag", "set"} => entry[c].rate = call[c].rate
    /\ call[c].pc \in {"idle", "admit"} /\ ~entry[c].reserve /\ c \notin unset
         => clock[c] = entry[c].rate

\* The steps of a client keep ClocksSet, when none is throttled between the check and
\* the end of its request.
LEMMA ClocksKept ==
  ASSUME QuietThrottle, MmrmInv, ClocksSet, [Next]_vars
  PROVE  ClocksSet'
<1>1. CASE UNCHANGED vars
  BY <1>1 DEF vars, book, ClocksSet
<1>2. ASSUME NEW c \in Clients, mmrm_sw_clk_client_register(c) PROVE ClocksSet'
  BY <1>2 DEF mmrm_sw_clk_client_register, book, ClocksSet
<1>3. ASSUME NEW c \in Clients, mmrm_sw_clk_client_deregister(c) PROVE ClocksSet'
  <2>1. /\ entry' = [entry EXCEPT ![c].rate = Off] /\ call[c].pc = "idle"
        /\ unset' = IF entry[c].rate # Off THEN unset \cup {c} ELSE unset
        /\ UNCHANGED <<clock, call>>
    BY <1>3 DEF mmrm_sw_clk_client_deregister, Idle
  <2>2. \A d \in Clients : /\ entry'[d].reserve = entry[d].reserve
                           /\ entry'[d].rate = IF d = c THEN Off ELSE entry[d].rate
    BY <2>1 DEF MmrmInv, Shape
  <2>. QED  BY <2>1, <2>2 DEF ClocksSet
<1>4. ASSUME NEW c \in Clients, NEW r \in Requests(c), SetVal(c, r.rate, r.reserve, r.blocks)
      PROVE  ClocksSet'
  <2>1. PICK pc \in {"admit", "flag"} :
          /\ call' = [call EXCEPT ![c] = [pc |-> pc, rate |-> r.rate, reserve |-> r.reserve, blocks |-> r.blocks]]
          /\ pc = "flag" => entry[c].rate = r.rate
    BY <1>4 DEF SetVal
  <2>2. UNCHANGED <<entry, clock, unset>> /\ call[c].pc = "idle"
    BY <1>4 DEF SetVal, book, Idle
  <2>. QED  BY <2>1, <2>2 DEF ClocksSet, MmrmInv, Shape
<1>5. ASSUME NEW c \in Clients, FlagReserve(c) PROVE ClocksSet'
  <2>1. /\ entry' = [entry EXCEPT ![c].reserve = call[c].reserve] /\ call[c].pc = "flag"
        /\ call' = [call EXCEPT ![c] = IF call[c].reserve THEN Idle ELSE [call[c] EXCEPT !.pc = "set"]]
        /\ UNCHANGED <<clock, unset>>
    BY <1>5 DEF FlagReserve, GoOn
  <2>2. \A d \in Clients : /\ entry'[d].rate = entry[d].rate
                           /\ entry'[d].reserve = IF d = c THEN call[c].reserve ELSE entry[d].reserve
    BY <2>1 DEF MmrmInv, Shape
  <2>3. \A d \in Clients : d # c => call'[d] = call[d]
    BY <2>1 DEF MmrmInv, Shape
  <2>4. IF call[c].reserve THEN call'[c].pc = "idle" ELSE call'[c].pc = "set" /\ call'[c].rate = call[c].rate
    BY <2>1 DEF MmrmInv, Shape, Idle
  <2>. QED  BY <2>1, <2>2, <2>3, <2>4 DEF ClocksSet
<1>6. ASSUME NEW c \in Clients, AdmitNone(c) \/ AdmitFits(c) \/ AdmitUnthrottled(c) PROVE ClocksSet'
  <2>1. /\ entry' = [entry EXCEPT ![c] = Granted(c)] /\ call[c].pc = "admit"
        /\ call' = [call EXCEPT ![c] = IF call[c].reserve THEN Idle ELSE [call[c] EXCEPT !.pc = "set"]]
        /\ UNCHANGED <<clock, unset>>
    BY <1>6 DEF AdmitNone, AdmitFits, AdmitUnthrottled, Grant, GoOn
  <2>2. \A d \in Clients : d # c => call'[d] = call[d] /\ entry'[d] = entry[d]
    BY <2>1 DEF MmrmInv, Shape
  <2>3. entry'[c].rate = call[c].rate /\ entry'[c].reserve = call[c].reserve
    BY <2>1 DEF MmrmInv, Shape, Granted
  <2>4. IF call[c].reserve THEN call'[c].pc = "idle" ELSE call'[c].pc = "set" /\ call'[c].rate = call[c].rate
    BY <2>1 DEF MmrmInv, Shape, Idle
  <2>. QED  BY <2>1, <2>2, <2>3, <2>4 DEF ClocksSet
<1>7. ASSUME NEW c \in Clients, AdmitThrottle(c) PROVE ClocksSet'
  <2>. DEFINE v == Victim(c)
  <2>1. /\ call[c].pc = "admit" /\ c \in High /\ Candidates(DeltaCur(c)) # {}
        /\ call[v].pc \notin {"flag", "set"}
        /\ entry' = [[entry EXCEPT ![v].rate = LowSvs, ![v].reserve = FALSE] EXCEPT ![c] = Granted(c)]
        /\ call' = [call EXCEPT ![c] = IF call[c].reserve THEN Idle ELSE [call[c] EXCEPT !.pc = "set"]]
        /\ clock' = IF entry[v].reserve THEN clock ELSE [clock EXCEPT ![v] = LowSvs]
        /\ unset' = IF entry[v].reserve THEN unset \cup {v} ELSE unset \ {v}
    BY <1>7 DEF AdmitThrottle, MayThrottle, Grant, GoOn
  <2>2. v \in Clients /\ v # c
    BY <2>1, VictimRuns DEF MmrmInv
  <2>. HIDE DEF v
  <2>3. \A d \in Clients \ {c, v} : call'[d] = call[d] /\ entry'[d] = entry[d] /\ clock'[d] = clock[d]
    BY <2>1, <2>2 DEF MmrmInv, Shape
  <2>4. entry'[c].rate = call[c].rate /\ entry'[c].reserve = call[c].reserve
    BY <2>1, <2>2 DEF MmrmInv, Shape, Granted
  <2>5. IF call[c].reserve THEN call'[c].pc = "idle" ELSE call'[c].pc = "set" /\ call'[c].rate = call[c].rate
    BY <2>1 DEF MmrmInv, Shape, Idle
  <2>6. entry'[v].rate = LowSvs /\ call'[v] = call[v] /\ (~entry[v].reserve => clock'[v] = LowSvs)
    BY <2>1, <2>2 DEF MmrmInv, Shape
  <2>7. \A d \in Clients \ {v} : d \in unset' <=> d \in unset
    BY <2>1
  <2>8. ASSUME NEW d \in Clients
        PROVE  /\ call'[d].pc \in {"flag", "set"} => entry'[d].rate = call'[d].rate
               /\ call'[d].pc \in {"idle", "admit"} /\ ~entry'[d].reserve /\ d \notin unset'
                    => clock'[d] = entry'[d].rate
    <3>1. CASE d = c
      BY <2>4, <2>5, <3>1
    <3>2. CASE d = v
      BY <2>1, <2>2, <2>6, <3>2
    <3>3. CASE d \notin {c, v}
      BY <2>3, <2>7, <3>3 DEF ClocksSet
    <3>. QED  BY <3>1, <3>2, <3>3
  <2>. QED  BY <2>8 DEF ClocksSet
<1>8. ASSUME NEW c \in Clients, Refuse(c) \/ SetClkRate(c) \/ SetClkRateFails(c) PROVE ClocksSet'
  <2>1. call' = [call EXCEPT ![c] = Idle] /\ UNCHANGED entry
    BY <1>8 DEF Refuse, SetClkRate, SetClkRateFails, book
  <2>2. \A d \in Clients : d # c => call'[d] = call[d]
    BY <2>1 DEF MmrmInv, Shape
  <2>3. call'[c].pc = "idle"
    BY <2>1 DEF MmrmInv, Shape, Idle
  <2>4. CASE Refuse(c)
    BY <2>1, <2>2, <2>3, <2>4 DEF Refuse, ClocksSet
  <2>5. CASE SetClkRate(c)
    BY <2>1, <2>2, <2>3, <2>5 DEF SetClkRate, ClocksSet, MmrmInv, Shape
  <2>6. CASE SetClkRateFails(c)
    BY <2>1, <2>2, <2>3, <2>6 DEF SetClkRateFails, ClocksSet
  <2>. QED  BY <1>8, <2>4, <2>5, <2>6
<1>. QED  BY <1>1, <1>2, <1>3, <1>4, <1>5, <1>6, <1>7, <1>8 DEF Next

\* Without a request in flight, a client that mmrm_sw_clk_client_setval answered with
\* success and did not only reserve runs at the rate of its entry.
THEOREM MmrmConfiguredRate == QuietThrottle /\ Spec => []ConfiguredRate
<1>1. Init => ClocksSet
  BY DEF Init, ClocksSet, Idle
<1>2. MmrmInv /\ ClocksSet => ConfiguredRate
  BY DEF MmrmInv, Shape, ClocksSet, ConfiguredRate, Idle
<1>3. QuietThrottle /\ MmrmInv /\ ClocksSet /\ [Next]_vars => ClocksSet'
  BY ClocksKept
<1>. SUFFICES ASSUME QuietThrottle PROVE Spec => []ConfiguredRate
  OBVIOUS
<1>4. MmrmInv /\ ClocksSet /\ [Next]_vars => ClocksSet'
  BY <1>3
<1>. QED  BY <1>1, <1>2, <1>4, MmrmInvariant, PTL DEF Spec

-----------------------------------------------------------------------------
(* Requests of low priority. *)

\* A request of a client of low priority that mmrm_sw_check_peak_current grants, in
\* whatever order the requests come to the mutex, leaves the current of all clients
\* below the threshold.
THEOREM MmrmLowStaysBelow == Spec => LowStaysBelow
<1>. DEFINE Low(c) == call[c].pc = "admit" /\ call'[c].pc # "admit" /\ ~skewed'
                        /\ entry'[c] = Granted(c) /\ entry'[c] # entry[c]
                        => Total(Clients, aggreg_level)' < Threshold
<1>1. MmrmInv /\ MmrmInv' /\ [Next]_vars => [\A c \in Clients \ High : Low(c)]_vars
  <2>. SUFFICES ASSUME MmrmInv, MmrmInv', Next, NEW c \in Clients \ High,
                       call[c].pc = "admit", call'[c].pc # "admit", ~skewed',
                       entry'[c] # entry[c]
                PROVE  Total(Clients, aggreg_level)' < Threshold
    BY DEF vars
  <2>1. PICK d \in Clients :
          \/ mmrm_sw_clk_client_register(d)
          \/ mmrm_sw_clk_client_deregister(d)
          \/ \E r \in Requests(d) : SetVal(d, r.rate, r.reserve, r.blocks)
          \/ FlagReserve(d)
          \/ AdmitNone(d) \/ AdmitFits(d) \/ AdmitThrottle(d) \/ AdmitUnthrottled(d) \/ Refuse(d)
          \/ SetClkRate(d) \/ SetClkRateFails(d)
    BY DEF Next
  <2>2. \E x : call' = call \/ call' = [call EXCEPT ![d] = x]
    BY <2>1 DEF mmrm_sw_clk_client_register, mmrm_sw_clk_client_deregister, SetVal, FlagReserve,
                AdmitNone, AdmitFits, AdmitThrottle, AdmitUnthrottled, Refuse, SetClkRate,
                SetClkRateFails, Grant, GoOn
  <2>3. d = c
    BY <2>2 DEF MmrmInv, Shape
  <2>4. AdmitNone(c) \/ AdmitFits(c)
    BY <2>1, <2>3 DEF mmrm_sw_clk_client_register, mmrm_sw_clk_client_deregister, SetVal, FlagReserve,
                AdmitThrottle, MayThrottle, AdmitUnthrottled, Refuse, SetClkRate, SetClkRateFails, Idle, book
  <2>5. /\ entry' = [entry EXCEPT ![c] = Granted(c)] /\ aggreg_level' = Adjusted(c)
        /\ skewed' = (skewed /\ ~Recalculated(c))
        /\ Asked(c) <= 0 \/ Asked(c) < Threshold
    BY <2>4 DEF AdmitNone, AdmitFits, Grant, Fits
  <2>6. Total(Clients, aggreg_level)' = Asked(c)
    BY <2>5, GrantTotal DEF MmrmInv
  <2>7. Asked(c) \in Int
    BY AskedType DEF MmrmInv
  <2>. QED  BY <2>5, <2>6, <2>7, SizesAssumption
<1>. QED  BY <1>1, MmrmInvariant, PTL DEF Spec, LowStaysBelow

-----------------------------------------------------------------------------
(* The sign of the sum. *)

\* Entries and requests have the rates that clients ask for, or the lowest.
RatesAsked ==
  \A c \in Clients : /\ entry[c].rate \in Rates[c] \cup {Off, LowSvs}
                     /\ call[c].rate \in Rates[c] \cup {Off}

\* Every step keeps RatesAsked.
LEMMA RatesKept ==
  ASSUME MmrmInv, RatesAsked, [Next]_vars
  PROVE  RatesAsked'
<1>1. CASE UNCHANGED vars
  BY <1>1 DEF vars, book, RatesAsked
<1>2. CASE Next
  <2>1. PICK d \in Clients :
          \/ mmrm_sw_clk_client_register(d)
          \/ mmrm_sw_clk_client_deregister(d)
          \/ \E r \in Requests(d) : SetVal(d, r.rate, r.reserve, r.blocks)
          \/ FlagReserve(d)
          \/ AdmitNone(d) \/ AdmitFits(d) \/ AdmitThrottle(d) \/ AdmitUnthrottled(d) \/ Refuse(d)
          \/ SetClkRate(d) \/ SetClkRateFails(d)
    BY <1>2 DEF Next
  <2>2. \A c \in Clients : call'[c].rate \in Rates[c] \cup {Off}
    <3>1. ASSUME NEW r \in Requests(d), SetVal(d, r.rate, r.reserve, r.blocks)
          PROVE  \A c \in Clients : call'[c].rate \in Rates[c] \cup {Off}
      <4>1. r.rate \in Rates[d]
        BY DEF Requests
      <4>. QED  BY <3>1, <4>1 DEF SetVal, RatesAsked, MmrmInv, Shape
    <3>2. CASE mmrm_sw_clk_client_register(d) \/ mmrm_sw_clk_client_deregister(d)
      BY <3>2 DEF mmrm_sw_clk_client_register, mmrm_sw_clk_client_deregister, RatesAsked
    <3>3. CASE Refuse(d) \/ SetClkRate(d) \/ SetClkRateFails(d)
      BY <3>3, SMTT(40) DEF Refuse, SetClkRate, SetClkRateFails, RatesAsked, MmrmInv, Shape, Idle
    <3>4. CASE FlagReserve(d) \/ AdmitNone(d) \/ AdmitFits(d) \/ AdmitThrottle(d) \/ AdmitUnthrottled(d)
      <4>1. call' = [call EXCEPT ![d] = IF call[d].reserve THEN Idle ELSE [call[d] EXCEPT !.pc = "set"]]
        BY <3>4 DEF FlagReserve, AdmitNone, AdmitFits, AdmitThrottle, AdmitUnthrottled, Grant, GoOn
      <4>. QED  BY <4>1 DEF RatesAsked, MmrmInv, Shape, Idle
    <3>. QED  BY <2>1, <3>1, <3>2, <3>3, <3>4
  <2>3. \A c \in Clients : entry'[c].rate \in Rates[c] \cup {Off, LowSvs}
    <3>1. CASE \/ mmrm_sw_clk_client_register(d)
               \/ \E r \in Requests(d) : SetVal(d, r.rate, r.reserve, r.blocks)
               \/ Refuse(d) \/ SetClkRate(d) \/ SetClkRateFails(d)
      BY <3>1 DEF mmrm_sw_clk_client_register, SetVal, Refuse, SetClkRate, SetClkRateFails, book, RatesAsked
    <3>2. CASE mmrm_sw_clk_client_deregister(d) \/ FlagReserve(d)
      BY <3>2, SMTT(40) DEF mmrm_sw_clk_client_deregister, FlagReserve, RatesAsked, MmrmInv, Shape
    <3>3. CASE AdmitNone(d) \/ AdmitFits(d) \/ AdmitUnthrottled(d)
      <4>1. entry' = [entry EXCEPT ![d] = Granted(d)]
        BY <3>3 DEF AdmitNone, AdmitFits, AdmitUnthrottled, Grant
      <4>. QED  BY <4>1 DEF RatesAsked, MmrmInv, Shape, Granted
    <3>4. CASE AdmitThrottle(d)
      <4>. DEFINE v == Victim(d)
      <4>1. entry' = [[entry EXCEPT ![v].rate = LowSvs, ![v].reserve = FALSE] EXCEPT ![d] = Granted(d)]
        BY <3>4 DEF AdmitThrottle, Grant
      <4>. HIDE DEF v
      <4>. QED  BY <4>1 DEF RatesAsked, MmrmInv, Shape, Granted
    <3>. QED  BY <2>1, <3>1, <3>2, <3>3, <3>4
  <2>. QED  BY <2>2, <2>3 DEF RatesAsked
<1>. QED  BY <1>1, <1>2

\* Throttling saves no more than the request asked for.
LEMMA SavingFits ==
  ASSUME SmallVictims, MmrmInv, RatesAsked, NEW c \in Clients, AdmitThrottle(c)
  PROVE  aggreg_val' >= 0
<1>. DEFINE d == Victim(c)
<1>1. /\ aggreg_val' = Asked(c) - Saving(d)
      /\ Asked(c) > 0 /\ ~(0 < Asked(c) /\ Asked(c) < Threshold) /\ Candidates(DeltaCur(c)) # {}
  BY DEF AdmitThrottle, Grant, Overshoots, Fits
<1>2. Asked(c) \in Int /\ Threshold \in Nat
  BY AskedType, SizesAssumption DEF MmrmInv
<1>3. /\ \E i \in DOMAIN ThrottleList : d = ThrottleList[i]
      /\ d \in Clients /\ Saving(d) \in Nat /\ entry[d].rate # Off
  BY <1>1, VictimRuns DEF MmrmInv
<1>4. aggreg_level \in Levels /\ LevelOf(d) \in Levels /\ 0 \in Levels
  BY <1>3, LevelTypes, SizesAssumption DEF MmrmInv, Shape, Levels
<1>. HIDE DEF d
<1>. DEFINE x == Current[d][LevelOf(d)][aggreg_level]
            y == Current[d][0][aggreg_level]
<1>5. x \in Nat /\ y \in Nat /\ Saving(d) = x - y
  BY <1>3, <1>4, CurrentAssumption DEF Saving
<1>6. Saving(d) <= Threshold
  <2>1. CASE entry[d].rate \in Rates[d] \ {Off}
    <3>1. x <= Threshold
      BY <1>3, <1>4, <2>1 DEF SmallVictims, LevelOf
    <3>. HIDE DEF x, y
    <3>. QED  BY <1>2, <1>5, <3>1
  <2>2. CASE entry[d].rate = LowSvs
    <3>1. x = y
      BY <2>2 DEF LevelOf, Level, LowSvs, Off
    <3>. HIDE DEF x, y
    <3>. QED  BY <1>2, <1>5, <3>1
  <2>. QED  BY <1>3, <2>1, <2>2 DEF RatesAsked
<1>. QED  BY <1>1, <1>2, <1>3, <1>6

\* TypeOK: the requests are checked before they are entered, only clients that are
\* registered run, and the sum does not go below zero.
THEOREM MmrmTypeOK == SmallVictims /\ Spec => []TypeOK
<1>. SUFFICES ASSUME SmallVictims PROVE Spec => []TypeOK
  OBVIOUS
<1>. DEFINE I == RatesAsked /\ aggreg_val >= 0
<1>1. Init => I
  BY DEF Init, RatesAsked, Idle
<1>2. MmrmInv /\ MmrmInv' /\ I /\ [Next]_vars => I'
  <2>. SUFFICES ASSUME MmrmInv, MmrmInv', I, [Next]_vars PROVE aggreg_val' >= 0
    BY RatesKept
  <2>1. CASE UNCHANGED aggreg_val
    BY <2>1
  <2>2. ASSUME NEW c \in Clients, AdmitThrottle(c) PROVE aggreg_val' >= 0
    BY <2>2, SavingFits
  <2>3. ASSUME NEW c \in Clients, AdmitNone(c) \/ AdmitFits(c) \/ AdmitUnthrottled(c)
        PROVE  aggreg_val' >= 0
    <3>1. Asked(c) \in Int
      BY AskedType DEF MmrmInv
    <3>2. aggreg_val' = 0 \/ (aggreg_val' = Asked(c) /\ Asked(c) > 0)
      BY <2>3, <3>1 DEF AdmitNone, AdmitFits, AdmitUnthrottled, Grant, Fits, Overshoots
    <3>. QED  BY <3>1, <3>2
  <2>4. \/ UNCHANGED aggreg_val
        \/ \E c \in Clients : AdmitThrottle(c) \/ AdmitNone(c) \/ AdmitFits(c) \/ AdmitUnthrottled(c)
    BY DEF Next, vars, book, mmrm_sw_clk_client_register, mmrm_sw_clk_client_deregister, SetVal,
           FlagReserve, Refuse, SetClkRate, SetClkRateFails
  <2>. QED  BY <2>1, <2>2, <2>3, <2>4
<1>3. MmrmInv /\ I => TypeOK
  <2>1. \A x \in Int : x >= 0 => x \in Nat
    OBVIOUS
  <2>. QED  BY <2>1 DEF MmrmInv, Shape, TypeOK
<1>. HIDE DEF I
<1>. QED  BY <1>1, <1>2, <1>3, MmrmInvariant, PTL DEF Spec

=============================================================================
