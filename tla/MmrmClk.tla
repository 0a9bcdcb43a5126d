------------------------------- MODULE MmrmClk -------------------------------
(***************************************************************************)
(* The multimedia resource manager: clients ask for clock rates, and a     *)
(* rate is granted if the current of all of them, at the voltage of the    *)
(* highest level in use, stays below a threshold.  For a client of high    *)
(* priority a client of low priority is throttled to its lowest rate.      *)
(*                                                                         *)
(* Each client has a thread.  A request is checked without the mutex,      *)
(* admitted under it (one step, which includes the notifier of a throttled *)
(* client), and then set in the clock, again without the mutex.  There is  *)
(* one rate for each voltage level, so that vdd_level follows from         *)
(* clk_rate.  The list of throttled clients is a set: entries that agree   *)
(* are told alike.  A reinstated client is only told, and what it asks for *)
(* then is a request like others.  Left out: allocations that fail,        *)
(* requests for rates the clock does not have, allow_multiple_register.    *)
(***************************************************************************)
EXTENDS Integers, Sequences, FiniteSetsExt

CONSTANTS
  NumClients,        \* tot_clk_clients
  High,              \* the clients with MMRM_CLIENT_PRIOR_HIGH
  ThrottleList,      \* throttle_clients_info, in the order of the device tree
  MMRM_VDD_LEVEL_MAX,
  Current,           \* client, its level, level of the rail: current_ma
  MaxBlocks,         \* client: max_num_hw_blocks
  Threshold,         \* peak_cur_data.threshold
  Rates,             \* client: the rates it asks for
  Blocks,            \* client: num_hw_blocks of its requests
  Reservers,         \* clients that ask with MMRM_CLIENT_DATA_FLAG_RESERVE_ONLY too
  ThrottleFeature,   \* what msm_mmrm_enable_throttle_feature > 0 may be (debugfs, sysfs)
  OneDrift,          \* bound: a running client leaves, or a clock fails, when the rest agrees
  QuietThrottle      \* no client is throttled between the check and the end of its request

Clients == 1 .. NumClients
Levels == 0 .. MMRM_VDD_LEVEL_MAX - 1
Off == 0                              \* clk_rate 0, otherwise a rate is its level + 1
AllRates == {Off} \cup {l + 1 : l \in Levels}
LowSvs == 1                           \* freq[MMRM_VDD_LEVEL_LOW_SVS]

ASSUME SizesAssumption ==
  /\ NumClients \in Nat \ {0} /\ MMRM_VDD_LEVEL_MAX \in Nat \ {0} /\ Threshold \in Nat \ {0}
  /\ MaxBlocks \in [Clients -> Nat] /\ Blocks \in [Clients -> SUBSET Nat]
  /\ Rates \in [Clients -> SUBSET AllRates] /\ Reservers \subseteq Clients
  /\ ThrottleFeature \subseteq BOOLEAN /\ OneDrift \in BOOLEAN /\ QuietThrottle \in BOOLEAN

\* The device tree lists low priority clients, once each.  A higher level of the
\* client takes more current, a higher voltage of the rail less.
ASSUME CurrentAssumption ==
  /\ High \subseteq Clients
  /\ ThrottleList \in Seq(Clients \ High)
  /\ Current \in [Clients -> [Levels -> [Levels -> Nat]]]
  /\ \A c \in Clients, v \in Levels, a \in Levels, b \in Levels :
       a <= b => /\ Current[c][v][b] <= Current[c][v][a]
                 /\ Current[c][a][v] <= Current[c][b][v]

VARIABLES
  registered,    \* clients with a clk in their entry
  entry,         \* clk_client_tbl: clk_rate, reserve, num_hw_blocks
  aggreg_val, aggreg_level,
  throttled,     \* throttled_clients
  clock,         \* client: the rate its clock runs at
  call,          \* client: where its request is, and what it asks for
  skewed,        \* history: the sum is not exact since a throttle or a deregistration
  unset          \* history: clients whose clock was not set as their entry was

book == <<entry, aggreg_val, aggreg_level, throttled>>
vars == <<registered, book, clock, call, skewed, unset>>

Idle == [pc |-> "idle", rate |-> Off, reserve |-> FALSE, blocks |-> 0]

Init ==
  /\ registered = {}
  /\ entry = [c \in Clients |-> [rate |-> Off, reserve |-> FALSE, blocks |-> 0]]
  /\ aggreg_val = 0 /\ aggreg_level = 0
  /\ throttled = {}
  /\ clock = [c \in Clients |-> Off]
  /\ call = [c \in Clients |-> Idle]
  /\ skewed = FALSE /\ unset = {}

Level(rate) == IF rate = Off THEN 0 ELSE rate - 1

-----------------------------------------------------------------------------
(* Registration. *)

mmrm_sw_clk_client_register(c) ==
  /\ c \notin registered
  /\ registered' = registered \cup {c}
  /\ UNCHANGED <<book, clock, call, skewed, unset>>

\* The rate is forgotten; the sum and the clock are left as they are.
mmrm_sw_clk_client_deregister(c) ==
  /\ c \in registered /\ call[c] = Idle
  /\ OneDrift => entry[c].rate = Off \/ ~skewed
  /\ registered' = registered \ {c}
  /\ entry' = [entry EXCEPT ![c].rate = Off]
  /\ skewed' = (skewed \/ entry[c].rate # Off)
  /\ unset' = IF entry[c].rate # Off THEN unset \cup {c} ELSE unset
  /\ UNCHANGED <<aggreg_val, aggreg_level, throttled, clock, call>>

-----------------------------------------------------------------------------
(* mmrm_sw_clk_client_setval, up to the mutex. *)

\* Mutant: the number of hardware blocks is not checked.
AnyBlocks(c, rate, blocks) == TRUE

ValidBlocks(c, rate, blocks) == rate # Off => blocks \in 1 .. MaxBlocks[c]

\* What a request for the rate and the blocks of the entry comes to.
Skips(c, reserve) == entry[c].reserve = reserve

SetVal(c, rate, reserve, blocks) ==
  LET same == entry[c].rate = rate /\ entry[c].blocks = blocks
      pc == IF ~same THEN "admit" ELSE "flag"
  IN /\ c \in registered /\ call[c] = Idle
     /\ IF same THEN ~Skips(c, reserve) ELSE ValidBlocks(c, rate, blocks)
     /\ call' = [call EXCEPT ![c] = [pc |-> pc, rate |-> rate, reserve |-> reserve, blocks |-> blocks]]
     /\ UNCHANGED <<registered, book, clock, skewed, unset>>

\* Mutant: the clock is not set for a rate that was reserved.
GoOnIfChanged(c) ==
  call' = [call EXCEPT ![c] = IF @.reserve \/ @.pc = "flag" THEN Idle ELSE [@ EXCEPT !.pc = "set"]]

\* A reservation returns here, the others go on to the clock.
GoOn(c) == call' = [call EXCEPT ![c] = IF @.reserve THEN Idle ELSE [@ EXCEPT !.pc = "set"]]

FlagReserve(c) ==
  /\ call[c].pc = "flag"
  /\ entry' = [entry EXCEPT ![c].reserve = call[c].reserve]
  /\ GoOn(c)
  /\ UNCHANGED <<registered, aggreg_val, aggreg_level, throttled, clock, skewed, unset>>

-----------------------------------------------------------------------------
(* mmrm_sw_check_peak_current *)

Running == {c \in Clients : entry[c].rate # Off}
LevelOf(c) == Level(entry[c].rate)

\* The current of client c with the rail at a level.
Booked(c, at) ==
  IF entry[c].rate = Off THEN 0 ELSE Current[c][LevelOf(c)][at] * entry[c].blocks

\* The loop over clk_client_tbl that adds a value for each entry.
SumTable(value) ==
  LET sum[n \in 0 .. NumClients] == IF n = 0 THEN 0 ELSE sum[n - 1] + value[n]
  IN sum[NumClients]

\* mmrm_sw_calculate_total_current
Total(S, at) == SumTable([c \in Clients |-> IF c \in S THEN Booked(c, at) ELSE 0])

\* Mutant: the level of the rail is never lowered.
LevelKept(c, req) == IF req < aggreg_level THEN aggreg_level ELSE req

\* mmrm_sw_check_req_level: the entry that is taken is the last one in the table
\* whose level is between the two, not the highest.
CheckReqLevel(c, req) ==
  LET others == Running \ {c}
      between == {d \in others : req < LevelOf(d) /\ LevelOf(d) < aggreg_level}
  IN IF req >= aggreg_level THEN req
     ELSE IF \E d \in others : LevelOf(d) = aggreg_level THEN aggreg_level
     ELSE IF between # {} THEN LevelOf(Max(between))
     ELSE req

Adjusted(c) == CheckReqLevel(c, Level(call[c].rate))
Recalculated(c) == Adjusted(c) # aggreg_level

NewCur(c) ==
  IF call[c].rate = Off THEN 0
  ELSE Current[c][Level(call[c].rate)][Adjusted(c)] * call[c].blocks

\* Mutant: the hardware blocks of the old rate are not counted.
OldCurOfOneBlock(c) ==
  IF entry[c].rate = Off THEN 0 ELSE Current[c][LevelOf(c)][aggreg_level]

OldCur(c) == Booked(c, aggreg_level)

PeakCur(c) ==
  IF Recalculated(c) THEN Total(Clients \ {c}, Adjusted(c)) + NewCur(c) ELSE aggreg_val
DeltaCur(c) == IF Recalculated(c) THEN 0 ELSE NewCur(c) - OldCur(c)
Asked(c) == PeakCur(c) + DeltaCur(c)

\* What throttling client d saves: its hardware blocks are not counted.
Saving(d) == Current[d][LevelOf(d)][aggreg_level] - Current[d][0][aggreg_level]

\* The places of the clients that can be throttled; a negative delta is compared
\* as an unsigned number, which no saving exceeds.
Candidates(delta) ==
  {i \in DOMAIN ThrottleList : delta >= 0 /\ Saving(ThrottleList[i]) > delta}

Victim(c) == ThrottleList[Min(Candidates(DeltaCur(c)))]

\* mmrm_reinstate_throttled_client: who is left on the list
StillThrottled(list, val) == {e \in list : val + e.delta > Threshold}

Granted(c) == [rate |-> call[c].rate, reserve |-> call[c].reserve, blocks |-> call[c].blocks]

\* The end of an admission with a new sum; list is that of throttled clients.
Grant(c, val, list, entries) ==
  /\ aggreg_val' = val
  /\ aggreg_level' = Adjusted(c)
  /\ throttled' = list
  /\ entry' = [entries EXCEPT ![c] = Granted(c)]
  /\ GoOn(c)
  /\ UNCHANGED registered

\* Nothing is left on: nobody is reinstated.
AdmitNone(c) ==
  /\ call[c].pc = "admit" /\ Asked(c) <= 0
  /\ Grant(c, 0, throttled, entry)
  /\ skewed' = (skewed /\ ~Recalculated(c))
  /\ UNCHANGED <<clock, unset>>

\* Mutant: a sum that reaches the threshold is granted.
FitsExactly(c) == 0 < Asked(c) /\ Asked(c) <= Threshold

Fits(c) == 0 < Asked(c) /\ Asked(c) < Threshold

AdmitFits(c) ==
  /\ call[c].pc = "admit" /\ Fits(c)
  /\ Grant(c, Asked(c), StillThrottled(throttled, Asked(c)), entry)
  /\ skewed' = (skewed /\ ~Recalculated(c))
  /\ UNCHANGED <<clock, unset>>

Overshoots(c) == Asked(c) > 0 /\ ~Fits(c)

\* A request that overshoots: others may be throttled for it, or it is refused.
MayThrottle(c) == c \in High /\ TRUE \in ThrottleFeature
MayNotThrottle(c) == c \notin High \/ FALSE \in ThrottleFeature

\* mmrm_sw_throttle_low_priority_client, and the request is granted.
AdmitThrottle(c) ==
  LET d == Victim(c)
      val == Asked(c) - Saving(d)
      info == [client |-> d, delta |-> Saving(d), prev |-> LevelOf(d)]
  IN /\ call[c].pc = "admit" /\ Overshoots(c) /\ MayThrottle(c)
     /\ Candidates(DeltaCur(c)) # {}
     /\ QuietThrottle => call[d].pc \notin {"flag", "set"}
     /\ Grant(c, val, StillThrottled(throttled \cup {info}, val),
              [entry EXCEPT ![d].rate = LowSvs, ![d].reserve = FALSE])
     /\ clock' = IF entry[d].reserve THEN clock ELSE [clock EXCEPT ![d] = LowSvs]
     /\ unset' = IF entry[d].reserve THEN unset \cup {d} ELSE unset \ {d}
     /\ skewed' = TRUE

\* Nobody can be throttled, and the request is granted all the same.
AdmitUnthrottled(c) ==
  /\ call[c].pc = "admit" /\ Overshoots(c) /\ MayThrottle(c)
  /\ Candidates(DeltaCur(c)) = {}
  /\ Grant(c, Asked(c), StillThrottled(throttled, Asked(c)), entry)
  /\ skewed' = (skewed /\ ~Recalculated(c))
  /\ UNCHANGED <<clock, unset>>

\* The priority is low, throttling is switched off, or the notifier or the clock
\* of the victim fails.
Refuse(c) ==
  /\ call[c].pc = "admit" /\ Overshoots(c)
  /\ MayNotThrottle(c) \/ Candidates(DeltaCur(c)) # {}
  /\ call' = [call EXCEPT ![c] = Idle]
  /\ UNCHANGED <<registered, book, clock, skewed, unset>>

-----------------------------------------------------------------------------
(* clk_set_rate, after the mutex is released, and its failure. *)

SetClkRate(c) ==
  /\ call[c].pc = "set"
  /\ clock' = [clock EXCEPT ![c] = call[c].rate]
  /\ unset' = unset \ {c}
  /\ call' = [call EXCEPT ![c] = Idle]
  /\ UNCHANGED <<registered, book, skewed>>

SetClkRateFails(c) ==
  /\ call[c].pc = "set" /\ (OneDrift => unset = {})
  /\ unset' = unset \cup {c}
  /\ call' = [call EXCEPT ![c] = Idle]
  /\ UNCHANGED <<registered, book, clock, skewed>>

Requests(c) ==
  {r \in [rate : Rates[c], reserve : BOOLEAN, blocks : Blocks[c]] : r.reserve => c \in Reservers}

Next ==
  \E c \in Clients :
    \/ mmrm_sw_clk_client_register(c)
    \/ mmrm_sw_clk_client_deregister(c)
    \/ \E r \in Requests(c) : SetVal(c, r.rate, r.reserve, r.blocks)
    \/ FlagReserve(c)
    \/ AdmitNone(c) \/ AdmitFits(c) \/ AdmitThrottle(c) \/ AdmitUnthrottled(c) \/ Refuse(c)
    \/ SetClkRate(c) \/ SetClkRateFails(c)

Spec == Init /\ [][Next]_vars

-----------------------------------------------------------------------------

\* No block of a client that can be throttled takes more current, at a rate it asks
\* for, than the threshold leaves for all clients: otherwise
\* the sum may go below zero when a client is throttled.
SmallVictims ==
  \A i \in DOMAIN ThrottleList :
    LET d == ThrottleList[i]
    IN \A r \in Rates[d] \ {Off}, a \in Levels : Current[d][Level(r)][a] <= Threshold

TypeOK ==
  /\ registered \subseteq Clients /\ unset \subseteq Clients /\ skewed \in BOOLEAN
  /\ entry \in [Clients -> [rate : AllRates, reserve : BOOLEAN, blocks : Nat]]
  /\ \A c \in Running : c \in registered /\ entry[c].blocks \in 1 .. MaxBlocks[c]
  /\ aggreg_val \in Nat /\ aggreg_level \in Levels
  /\ throttled \subseteq [client : Clients, delta : Nat, prev : Levels]
  /\ clock \in [Clients -> AllRates]
  /\ call \in [Clients -> [pc : {"idle", "flag", "admit", "set"}, rate : AllRates,
                           reserve : BOOLEAN, blocks : Nat]]

\* The sum that requests are compared with is the current of the entries at the
\* level of the rail, although it is mostly carried on by differences; throttling
\* and deregistering a running client spoil it until it is calculated anew.
AggregExact == ~skewed => aggreg_val = Total(Clients, aggreg_level)

\* The current at the highest level any client runs at is not above the sum,
\* although the level is not always the highest one.
SumIsSafe ==
  LET top == Max({LevelOf(c) : c \in Clients})
  IN ~skewed => Total(Clients, top) <= aggreg_val

\* A request of a client of low priority, however it overlaps with others, never
\* takes the current of all clients to the threshold.
LowStaysBelow ==
  [][\A c \in Clients \ High :
       call[c].pc = "admit" /\ call'[c].pc # "admit" /\ ~skewed'
         /\ entry'[c] = Granted(c) /\ entry'[c] # entry[c]
         => Total(Clients, aggreg_level)' < Threshold]_vars

\* A client without a request in flight whose rate is not just reserved runs at the
\* rate of its entry, unless its clock failed, or it was throttled while it only had
\* a reservation.
ConfiguredRate ==
  \A c \in registered :
    call[c] = Idle /\ ~entry[c].reserve /\ c \notin unset => clock[c] = entry[c].rate

\* The sum stays below the threshold ("peak overshoot, do not update peak data").
PeakKept == aggreg_val < Threshold
=============================================================================
