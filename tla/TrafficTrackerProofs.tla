------------------------ MODULE TrafficTrackerProofs ------------------------
(***************************************************************************)
(* TrafficTracker never counts a byte twice, for all directions, configs   *)
(* and bounds, whatever reboots, restarts, failing writes and months come, *)
(* and the total of a month never falls.                                   *)
(***************************************************************************)
EXTENDS TrafficTracker, TLAPS

\* The kernel's counters go back at most to the installation, and, once the
\* host booted in this month, at most to the month's begin.
HostOK ==
    \A c \in Config : \A d \in Dir :
        /\ mark[c][d] <= sent[c][d]
        /\ raw[c][d] <= sent[c][d]
        /\ covers[c] => raw[c][d] <= sent[c][d] - mark[c][d]

\* The sample of s was taken in the boot of now, or everything the kernel
\* counts now came after it.
SameBoot(s, c) == \A d \in Dir : raw[c][d] - s.last[d] = sent[c][d] - s.at[d]
BootedSince(s, c) == \A d \in Dir : raw[c][d] <= sent[c][d] - s.at[d]

\* What s, in memory or in the file, says of its config c.
StateOf(s, c) ==
    /\ s.period <= period[c]
    /\ \A d \in Dir : s.at[d] <= sent[c][d]
    /\ s.period = period[c] => \A d \in Dir : s.from[d] <= mark[c][d]
    /\ s.period < period[c] => \A d \in Dir : s.at[d] <= mark[c][d]
    /\ s.boot = "other" => BootedSince(s, c)
    /\ s.baseline = Zero => SameBoot(s, c) \/ BootedSince(s, c)
    /\ s.baseline # Zero => s.baseline = s.from /\ s.last = Zero

StateOK(s) ==
    /\ \A d \in Dir : s.total[d] <= s.at[d] - s.from[d]
    /\ s.config # None => StateOf(s, s.config)

CountInv == TypeOK /\ HostOK /\ StateOK(mem) /\ (file # None => StateOK(file))

----------------------------------------------------------------------------
(* The state and its parts are of their types.                             *)

LEMMA HeldType == TypeOK => Held \in TrafficState
  BY DEF TypeOK, Held

LEMMA StateType ==
    ASSUME NEW s \in TrafficState
    PROVE  /\ s.config \in Config \cup {None} /\ s.period \in Nat
           /\ s.last \in Bytes /\ s.total \in Bytes /\ s.baseline \in Bytes
           /\ s.boot \in {"unknown", "this", "other"}
           /\ s.at \in Bytes /\ s.from \in Bytes
  BY DEF TrafficState

LEMMA ZeroType == Zero \in Bytes /\ \A d \in Dir : Zero[d] = 0
  BY DEF Zero, Bytes

LEMMA SumType ==
    ASSUME NEW x \in Bytes, NEW y \in Bytes
    PROVE  /\ Plus(x, y) \in Bytes /\ Minus(x, y) \in Bytes
           /\ \A d \in Dir : Plus(x, y)[d] = x[d] + y[d]
           /\ \A d \in Dir : Minus(x, y)[d] = IF x[d] >= y[d] THEN x[d] - y[d] ELSE 0
           /\ \A d \in Dir : x[d] \in Nat /\ y[d] \in Nat
  BY DEF Plus, Minus, Bytes

LEMMA EmptyOK == Empty \in TrafficState /\ StateOK(Empty)
  BY ZeroType DEF Empty, TrafficState, StateOK

LEMMA HeldOK == CountInv => Held \in TrafficState /\ StateOK(Held)
  BY HeldType DEF CountInv, Held, TypeOK

LEMMA HostType ==
    ASSUME TypeOK, NEW c \in Config
    PROVE  /\ sent[c] \in Bytes /\ mark[c] \in Bytes /\ raw[c] \in Bytes
           /\ period[c] \in Nat
           /\ \A d \in Dir : sent[c][d] \in Nat /\ mark[c][d] \in Nat /\ raw[c][d] \in Nat
  BY DEF TypeOK, Bytes

----------------------------------------------------------------------------
(* A sample records a total and where it counts from. It keeps the         *)
(* invariant if the total is no more than what was carried since, and that *)
(* is no later than the month's begin.                                     *)

LEMMA RecordOK ==
    ASSUME CountInv, NEW known, NEW outcome,
           NEW total \in Bytes, NEW from \in Bytes,
           \A d \in Dir : total[d] <= sent[config][d] - from[d],
           \A d \in Dir : from[d] <= mark[config][d],
           Record(known, total, from, outcome)
    PROVE  CountInv'
  <1> DEFINE s == [config |-> config, period |-> period[config], last |-> Now,
                   total |-> total, baseline |-> Zero,
                   boot |-> IF known THEN "this" ELSE "unknown",
                   at |-> sent[config], from |-> from]
  <1>1. /\ mem' = s /\ loaded' = TRUE
        /\ file' = s \/ file' = file \/ file' = None
        /\ sent' = sent /\ mark' = mark /\ raw' = raw /\ period' = period
        /\ covers' = covers /\ config' = config
    BY DEF Record, Save, host
  <1>2. config \in Config /\ TypeOK
    BY DEF CountInv, TypeOK
  <1>3. s \in TrafficState
    BY <1>2, HostType, ZeroType DEF TrafficState, Now
  <1>4. TypeOK'
    BY <1>1, <1>2, <1>3 DEF TypeOK
  <1>5. HostOK'
    BY <1>1 DEF CountInv, HostOK
  <1>6. StateOK(s)'
    <2>1. config # None
      BY <1>2, TrafficAssumption
    <2>2. \A d \in Dir : /\ sent[config][d] \in Nat /\ raw[config][d] \in Nat
                         /\ s.last[d] = raw[config][d] /\ s.at[d] = sent[config][d]
      BY <1>2, HostType DEF Now
    <2>3. StateOf(s, config)'
      BY <1>1, <1>2, <2>2, HostType
      DEF StateOf, SameBoot, BootedSince, Now
    <2> QED
      BY <1>1, <2>1, <2>2, <2>3 DEF StateOK
  <1>s. s' = s
    BY <1>1 DEF Now
  <1> HIDE DEF s
  <1>7. StateOK(mem)'
    BY <1>1, <1>6, <1>s DEF StateOK, StateOf, SameBoot, BootedSince
  <1>8. file' # None => StateOK(file)'
    <2>1. CASE file' = s
      BY <1>6, <1>s, <2>1 DEF StateOK, StateOf, SameBoot, BootedSince
    <2>2. CASE file' = file
      BY <1>1, <2>2 DEF CountInv, StateOK, StateOf, SameBoot, BootedSince
    <2> QED
      BY <1>1, <2>1, <2>2
  <1> QED
    BY <1>4, <1>5, <1>7, <1>8 DEF CountInv

----------------------------------------------------------------------------
(* Each way out of a sample.                                               *)

\* The facts every sample rests on.
LEMMA SampleFacts ==
    ASSUME CountInv
    PROVE  /\ TypeOK /\ config \in Config /\ config # None
           /\ Held \in TrafficState
           /\ Held.total \in Bytes /\ Held.from \in Bytes /\ Held.at \in Bytes
           /\ Held.last \in Bytes /\ Held.baseline \in Bytes
           /\ Held.period \in Nat
           /\ Now \in Bytes /\ Now = raw[config] /\ mark[config] \in Bytes
           /\ \A d \in Dir :
                /\ sent[config][d] \in Nat /\ mark[config][d] \in Nat
                /\ Now[d] \in Nat /\ Held.total[d] \in Nat
                /\ Held.from[d] \in Nat /\ Held.at[d] \in Nat
                /\ Held.last[d] \in Nat /\ Held.baseline[d] \in Nat
                /\ mark[config][d] <= sent[config][d]
                /\ Now[d] <= sent[config][d]
                /\ covers[config] => Now[d] <= sent[config][d] - mark[config][d]
                /\ Held.total[d] <= Held.at[d] - Held.from[d]
           /\ Held.config = config => StateOf(Held, config)
  <1>1. TypeOK /\ config \in Config /\ config # None
    BY TrafficAssumption DEF CountInv, TypeOK
  <1>2. Held \in TrafficState /\ StateOK(Held)
    BY HeldOK
  <1>3. /\ Held.total \in Bytes /\ Held.from \in Bytes /\ Held.at \in Bytes
        /\ Held.last \in Bytes /\ Held.baseline \in Bytes /\ Held.period \in Nat
    BY <1>2, StateType
  <1>4. /\ sent[config] \in Bytes /\ Now \in Bytes /\ mark[config] \in Bytes
        /\ Now = raw[config]
    BY <1>1, HostType DEF Now
  <1>5. \A d \in Dir :
          /\ mark[config][d] <= sent[config][d]
          /\ Now[d] <= sent[config][d]
          /\ covers[config] => Now[d] <= sent[config][d] - mark[config][d]
    BY <1>1 DEF CountInv, HostOK, Now
  <1>6. /\ \A d \in Dir : Held.total[d] <= Held.at[d] - Held.from[d]
        /\ Held.config = config => StateOf(Held, config)
    BY <1>1, <1>2 DEF StateOK
  <1>7. \A d \in Dir :
          /\ sent[config][d] \in Nat /\ mark[config][d] \in Nat
          /\ Now[d] \in Nat /\ Held.total[d] \in Nat
          /\ Held.from[d] \in Nat /\ Held.at[d] \in Nat
          /\ Held.last[d] \in Nat /\ Held.baseline[d] \in Nat
    BY <1>3, <1>4 DEF Bytes
  <1> QED
    BY <1>1, <1>2, <1>3, <1>4, <1>5, <1>6, <1>7

LEMMA AfterRebootOK ==
    ASSUME CountInv, NEW known, NEW outcome, SampleAfterReboot(known, outcome)
    PROVE  CountInv'
  <1> USE SampleFacts
  <1>1. /\ Held.config = config /\ Held.period = period[config]
        /\ Held.boot = "other"
        /\ Record(known, Plus(Held.total, Now), Held.from, outcome)
    BY DEF SampleAfterReboot, RebootSeen, SamePeriod
  <1>2. \A d \in Dir : Now[d] <= sent[config][d] - Held.at[d]
    BY <1>1 DEF StateOf, BootedSince
  <1>3. Plus(Held.total, Now) \in Bytes
        /\ \A d \in Dir : Plus(Held.total, Now)[d] <= sent[config][d] - Held.from[d]
    BY <1>2, SumType
  <1>4. \A d \in Dir : Held.from[d] <= mark[config][d]
    BY <1>1 DEF StateOf
  <1> QED
    BY <1>1, <1>3, <1>4, RecordOK

LEMMA RepairOK ==
    ASSUME CountInv, NEW known, NEW outcome, SampleRepair(known, outcome)
    PROVE  CountInv'
  <1> USE SampleFacts
  <1>1. /\ Held.config = config /\ Held.period = period[config]
        /\ covers[config]
        /\ Record(known, Now, Held.from, outcome)
    BY DEF SampleRepair, Behind, SamePeriod, CoversPeriod
  <1>2. \A d \in Dir : Held.from[d] <= mark[config][d]
    BY <1>1 DEF StateOf
  <1>3. \A d \in Dir : Now[d] <= sent[config][d] - Held.from[d]
    BY <1>1, <1>2
  <1> QED
    BY <1>1, <1>2, <1>3, RecordOK

LEMMA OlderFileOK ==
    ASSUME CountInv, NEW known, NEW outcome, SampleOlderFile(known, outcome)
    PROVE  CountInv'
  <1> USE SampleFacts
  <1>1. CASE SamePeriod
    <2>1. /\ Held.config = config /\ Held.period = period[config]
          /\ Held.baseline # Zero
          /\ Record(known, Minus(Now, Held.baseline), Held.from, outcome)
      BY <1>1 DEF SampleOlderFile, FromOlderFile, SamePeriod
    <2>2. /\ Held.baseline = Held.from
          /\ \A d \in Dir : Held.from[d] <= mark[config][d]
      BY <2>1 DEF StateOf
    <2>3. /\ Minus(Now, Held.baseline) \in Bytes
          /\ \A d \in Dir : Minus(Now, Held.baseline)[d]
                              <= sent[config][d] - Held.from[d]
      BY <2>2, SumType
    <2> QED
      BY <2>1, <2>2, <2>3, RecordOK
  <1>2. CASE ~SamePeriod
    <2>1. Record(known, Zero, mark[config], outcome)
      BY <1>2 DEF SampleOlderFile
    <2>2. \A d \in Dir : Zero[d] <= sent[config][d] - mark[config][d]
      BY ZeroType
    <2> QED
      BY <2>1, <2>2, ZeroType, RecordOK
  <1> QED
    BY <1>1, <1>2

LEMMA InitializeOK ==
    ASSUME CountInv, NEW known, NEW outcome, SampleInitialize(known, outcome)
    PROVE  CountInv'
  <1> USE SampleFacts
  <1> DEFINE total == IF CoversPeriod(known) THEN Now ELSE Zero
  <1>1. Record(known, total, mark[config], outcome)
    BY DEF SampleInitialize
  <1>2. /\ total \in Bytes
        /\ \A d \in Dir : total[d] <= sent[config][d] - mark[config][d]
    BY ZeroType DEF CoversPeriod
  <1> QED
    BY <1>1, <1>2, RecordOK

LEMMA DeltaOK ==
    ASSUME CountInv, NEW known, NEW outcome, SampleDelta(known, outcome)
    PROVE  CountInv'
  <1> USE SampleFacts
  <1>1. Held.config = config /\ StateOf(Held, config)
    BY DEF SampleDelta, OtherCounter
  <1>2. /\ Delta(known) \in Bytes
        /\ \A d \in Dir : Delta(known)[d] <= sent[config][d] - Held.at[d]
    <2>1. SameBoot(Held, config) \/ BootedSince(Held, config)
      BY <1>1 DEF SampleDelta, FromOlderFile, StateOf
    <2>2. CASE Dropped /\ CoversPeriod(known)
      <3>1. BootedSince(Held, config)
        BY <1>1, <2>1, <2>2 DEF SameBoot, Dropped, StateOf
      <3> QED
        BY <2>2, <3>1 DEF Delta, BootedSince
    <2>3. CASE ~(Dropped /\ CoversPeriod(known))
      <3>1. Delta(known) = Minus(Now, Held.last)
        BY <2>3 DEF Delta
      <3>2. \A d \in Dir : Held.at[d] <= sent[config][d]
        BY <1>1 DEF StateOf
      <3> QED
        BY <2>1, <3>1, <3>2, SumType DEF SameBoot, BootedSince
    <2> QED
      BY <2>2, <2>3
  <1>3. CASE Held.period = period[config]
    <2>1. Record(known, Plus(Held.total, Delta(known)), Held.from, outcome)
      BY <1>3 DEF SampleDelta
    <2>2. \A d \in Dir : Held.from[d] <= mark[config][d]
      BY <1>1, <1>3 DEF StateOf
    <2>3. /\ Plus(Held.total, Delta(known)) \in Bytes
          /\ \A d \in Dir : Plus(Held.total, Delta(known))[d]
                              <= sent[config][d] - Held.from[d]
      BY <1>2, SumType
    <2> QED
      BY <2>1, <2>2, <2>3, RecordOK
  <1>4. CASE Held.period # period[config] /\ CoversPeriod(known)
    <2>1. Record(known, Now, mark[config], outcome)
      BY <1>4 DEF SampleDelta
    <2>2. \A d \in Dir : Now[d] <= sent[config][d] - mark[config][d]
      BY <1>4 DEF CoversPeriod
    <2> QED
      BY <2>1, <2>2, RecordOK
  <1>5. CASE Held.period # period[config] /\ ~CoversPeriod(known)
    <2>1. Record(known, Delta(known), Held.at, outcome)
      BY <1>5 DEF SampleDelta
    <2>2. Held.period < period[config]
      BY <1>1, <1>5, HostType DEF StateOf
    <2>3. \A d \in Dir : Held.at[d] <= mark[config][d]
      BY <1>1, <2>2 DEF StateOf
    <2> QED
      BY <1>2, <2>1, <2>3, RecordOK
  <1> QED
    BY <1>3, <1>4, <1>5

----------------------------------------------------------------------------
(* The host and the agent's life.                                          *)

\* A step that changes neither memory nor file keeps the invariant if it
\* keeps what is said of each state.
LEMMA HostStep ==
    ASSUME CountInv, TypeOK', HostOK', UNCHANGED <<mem, file>>,
           \A s \in TrafficState, c \in Config : StateOf(s, c) => StateOf(s, c)'
    PROVE  CountInv'
  <1>1. \A s \in TrafficState : StateOK(s) => StateOK(s)'
    BY StateType DEF StateOK
  <1>2. mem \in TrafficState /\ (file # None => file \in TrafficState)
    BY DEF CountInv, TypeOK
  <1> QED
    BY <1>1, <1>2 DEF CountInv, StateOK, StateOf, SameBoot, BootedSince

LEMMA CarryOK ==
    ASSUME CountInv, NEW c \in Config, NEW d \in Dir, Carry(c, d)
    PROVE  CountInv'
  <1>1. TypeOK
    BY DEF CountInv
  <1>2. /\ sent' \in [Config -> Bytes] /\ raw' \in [Config -> Bytes]
        /\ \A b \in Config : \A e \in Dir :
             \/ sent'[b][e] = sent[b][e] /\ raw'[b][e] = raw[b][e]
             \/ sent'[b][e] = sent[b][e] + 1 /\ raw'[b][e] = raw[b][e] + 1
    BY <1>1 DEF Carry, TypeOK, Bytes
  <1>3. UNCHANGED <<mark, period, covers, config, mem, loaded, file>>
    BY DEF Carry
  <1>4. TypeOK'
    BY <1>1, <1>2, <1>3 DEF TypeOK
  <1>5. HostOK'
    BY <1>1, <1>2, <1>3, HostType DEF CountInv, HostOK
  <1>6. ASSUME NEW s \in TrafficState, NEW b \in Config, StateOf(s, b)
        PROVE  StateOf(s, b)'
    <2>1. \A e \in Dir : /\ s.at[e] \in Nat /\ s.last[e] \in Nat
                         /\ sent[b][e] \in Nat /\ raw[b][e] \in Nat
      BY <1>1, StateType, HostType DEF Bytes
    <2>2. SameBoot(s, b) => SameBoot(s, b)'
      <3> SUFFICES ASSUME SameBoot(s, b), NEW e \in Dir
                   PROVE  raw'[b][e] - s.last[e] = sent'[b][e] - s.at[e]
        BY DEF SameBoot
      <3>1. raw[b][e] - s.last[e] = sent[b][e] - s.at[e]
        BY DEF SameBoot
      <3>2. /\ s.at[e] \in Nat /\ s.last[e] \in Nat
            /\ sent[b][e] \in Nat /\ raw[b][e] \in Nat
        BY <2>1
      <3>3. CASE sent'[b][e] = sent[b][e] /\ raw'[b][e] = raw[b][e]
        BY <3>1, <3>3
      <3>4. CASE sent'[b][e] = sent[b][e] + 1 /\ raw'[b][e] = raw[b][e] + 1
        BY <3>1, <3>2, <3>4
      <3> QED
        BY <1>2, <3>3, <3>4
    <2>3. BootedSince(s, b) => BootedSince(s, b)'
      BY <1>2, <2>1 DEF BootedSince
    <2>4. (\A e \in Dir : s.at[e] <= sent[b][e]) => \A e \in Dir : s.at[e] <= sent'[b][e]
      BY <1>2, <2>1
    <2> QED
      BY <1>3, <1>6, <2>2, <2>3, <2>4 DEF StateOf
  <1> QED
    BY <1>3, <1>4, <1>5, <1>6, HostStep

LEMMA ResetDayOK ==
    ASSUME CountInv, NEW c \in Config, ResetDay(c)
    PROVE  CountInv'
  <1>1. TypeOK
    BY DEF CountInv
  <1>2. UNCHANGED <<sent, raw, config, mem, loaded, file>>
    BY DEF ResetDay
  <1>3. TypeOK'
    BY <1>1, <1>2 DEF ResetDay, TypeOK
  <1>4. \A b \in Config :
          \/ /\ period'[b] = period[b] /\ mark'[b] = mark[b]
             /\ covers'[b] = covers[b]
          \/ /\ period'[b] = period[b] + 1 /\ mark'[b] = sent[b]
             /\ covers'[b] = FALSE
    BY <1>1 DEF ResetDay, TypeOK
  <1>5. HostOK'
    BY <1>1, <1>2, <1>4, HostType DEF CountInv, HostOK
  <1>6. ASSUME NEW s \in TrafficState, NEW b \in Config, StateOf(s, b)
        PROVE  StateOf(s, b)'
    <2>1. /\ s.period \in Nat /\ period[b] \in Nat
      BY <1>1, StateType, HostType
    <2>2. SameBoot(s, b)' = SameBoot(s, b) /\ BootedSince(s, b)' = BootedSince(s, b)
      BY <1>2 DEF SameBoot, BootedSince
    <2> QED
      BY <1>2, <1>4, <1>6, <2>1, <2>2 DEF StateOf
  <1> QED
    BY <1>2, <1>3, <1>5, <1>6, HostStep

LEMMA RestartOK ==
    ASSUME CountInv, NEW c \in Config, AgentRestart(c)
    PROVE  CountInv'
  <1>1. /\ mem' = Empty /\ loaded' = FALSE /\ config' = c /\ file' = file
        /\ UNCHANGED <<sent, mark, raw, period, covers>>
    BY DEF AgentRestart, host
  <1>2. TypeOK' /\ HostOK'
    BY <1>1, EmptyOK DEF CountInv, TypeOK, HostOK
  <1>3. StateOK(mem)'
    BY <1>1, EmptyOK DEF StateOK, Empty
  <1>4. file' # None => StateOK(file)'
    BY <1>1 DEF CountInv, StateOK, StateOf, SameBoot, BootedSince
  <1> QED
    BY <1>2, <1>3, <1>4 DEF CountInv

LEMMA RebootOK ==
    ASSUME CountInv, Reboot
    PROVE  CountInv'
  <1>1. TypeOK
    BY DEF CountInv
  <1>2. /\ mem' = Empty /\ loaded' = FALSE
        /\ \A c \in Config : raw'[c] = Zero /\ covers'[c] = TRUE
        /\ raw' \in [Config -> Bytes] /\ covers' \in [Config -> BOOLEAN]
        /\ UNCHANGED <<sent, mark, period, config>>
    BY ZeroType DEF Reboot
  <1>3. file # None => /\ file \in TrafficState /\ StateOK(file)
                       /\ Rebooted(file) \in TrafficState
    BY <1>1 DEF CountInv, TypeOK, Rebooted, TrafficState
  <1>4. TypeOK'
    BY <1>1, <1>2, <1>3, EmptyOK DEF TypeOK, Reboot
  <1>5. HostOK'
    BY <1>1, <1>2, ZeroType, HostType DEF CountInv, HostOK
  <1>6. StateOK(mem)'
    BY <1>2, EmptyOK DEF StateOK, Empty
  <1>7. ASSUME file' # None
        PROVE  StateOK(file)'
    <2>1. file # None /\ file' = Rebooted(file)
      BY <1>7 DEF Reboot
    <2>2. /\ file'.config = file.config /\ file'.period = file.period
          /\ file'.last = file.last /\ file'.total = file.total
          /\ file'.baseline = file.baseline
          /\ file'.at = file.at /\ file'.from = file.from
      BY <1>3, <2>1 DEF Rebooted, TrafficState
    <2>3. ASSUME file.config # None
          PROVE  StateOf(file, file.config)'
      <3> DEFINE b == file.config
      <3>1. b \in Config /\ StateOf(file, b)
        BY <1>3, <2>1, <2>3, StateType DEF StateOK
      <3>2. \A d \in Dir : /\ file.at[d] \in Nat /\ file'.at[d] = file.at[d]
                           /\ sent[b][d] \in Nat /\ raw'[b][d] = 0
                           /\ file.at[d] <= sent[b][d]
        BY <1>1, <1>2, <1>3, <2>1, <2>2, <3>1, StateType, HostType, ZeroType
        DEF Bytes, StateOf
      <3>3. \A d \in Dir : raw'[b][d] <= sent'[b][d] - file'.at[d]
        BY <1>2, <3>2
      <3> HIDE DEF b
      <3>4. /\ file'.period <= period'[b]
            /\ \A d \in Dir : file'.at[d] <= sent'[b][d]
            /\ file'.period = period'[b] => \A d \in Dir : file'.from[d] <= mark'[b][d]
            /\ file'.period < period'[b] => \A d \in Dir : file'.at[d] <= mark'[b][d]
            /\ file'.baseline # Zero => file'.baseline = file'.from /\ file'.last = Zero
        BY <1>2, <2>2, <3>1 DEF StateOf
      <3>5. b' = b
        BY <2>2 DEF b
      <3> QED
        BY <3>3, <3>4, <3>5 DEF StateOf, BootedSince, b
    <2> QED
      BY <1>3, <2>1, <2>2, <2>3 DEF StateOK
  <1> QED
    BY <1>4, <1>5, <1>6, <1>7 DEF CountInv

----------------------------------------------------------------------------
(* The theorems.                                                           *)

LEMMA InitOK == Init => CountInv
  <1> SUFFICES ASSUME Init PROVE CountInv
    OBVIOUS
  <1>1. /\ sent \in [Config -> Bytes] /\ raw = sent /\ mark \in [Config -> Bytes]
        /\ period = [c \in Config |-> 1] /\ covers \in [Config -> BOOLEAN]
        /\ config \in Config /\ mem = Empty /\ loaded = FALSE
    BY ZeroType DEF Init, Bytes
  <1>2. \A c \in Config : \A d \in Dir :
          /\ sent[c][d] \in Nat /\ mark[c][d] \in Nat
          /\ mark[c][d] <= sent[c][d]
          /\ covers[c] => mark[c][d] = 0
    BY <1>1, ZeroType DEF Init, Bytes
  <1>3. HostOK
    BY <1>1, <1>2 DEF HostOK
  <1>4. ASSUME NEW c \in Config
        PROVE  OlderFile(c) \in TrafficState /\ StateOK(OlderFile(c))
    <2>1. /\ OlderFile(c) \in TrafficState
          /\ OlderFile(c).config = c /\ OlderFile(c).period = 1
          /\ OlderFile(c).last = Zero /\ OlderFile(c).total = Zero
          /\ OlderFile(c).baseline = mark[c] /\ OlderFile(c).boot = "unknown"
          /\ OlderFile(c).at = mark[c] /\ OlderFile(c).from = mark[c]
      BY <1>1, ZeroType DEF OlderFile, Empty, TrafficState
    <2>2. mark[c] = Zero => BootedSince(OlderFile(c), c)
      BY <1>1, <1>2, <2>1, ZeroType DEF BootedSince
    <2>3. StateOf(OlderFile(c), c)
      BY <1>1, <1>2, <2>1, <2>2 DEF StateOf
    <2> QED
      BY <1>2, <2>1, <2>3, ZeroType DEF StateOK
  <1>5. file # None => file \in TrafficState /\ StateOK(file)
    <2>1. ASSUME file # None
          PROVE  \E c \in Config : file = OlderFile(c)
      BY <2>1 DEF Init
    <2> QED
      BY <1>4, <2>1
  <1>6. TypeOK
    <2>1. period \in [Config -> Nat \ {0}]
      BY <1>1
    <2>2. file \in TrafficState \cup {None} /\ mem \in TrafficState
      BY <1>1, <1>5, EmptyOK
    <2>3. loaded \in BOOLEAN
      BY <1>1
    <2> QED
      BY <1>1, <2>1, <2>2, <2>3 DEF TypeOK
  <1> QED
    BY <1>1, <1>3, <1>5, <1>6, EmptyOK DEF CountInv

LEMMA StepOK == CountInv /\ [Next]_vars => CountInv'
  <1> SUFFICES ASSUME CountInv, [Next]_vars PROVE CountInv'
    OBVIOUS
  <1>1. CASE UNCHANGED vars
    BY <1>1 DEF vars, CountInv, TypeOK, HostOK, StateOK, StateOf, SameBoot,
                BootedSince
  <1>2. ASSUME NEW known, NEW outcome, Sample(known, outcome)
        PROVE  CountInv'
    BY <1>2, AfterRebootOK, RepairOK, OlderFileOK, InitializeOK, DeltaOK
    DEF Sample
  <1> QED
    BY <1>1, <1>2, CarryOK, ResetDayOK, RestartOK, RebootOK DEF Next

LEMMA Invariance == Spec => []CountInv
  BY InitOK, StepOK, PTL DEF Spec

\* Every variable keeps its type: no sample makes a total negative.
THEOREM TrafficTypes == Spec => []TypeOK
  BY Invariance, PTL DEF CountInv

\* No byte is counted twice: a total is never more than what was carried
\* since the month began, or since the last sample before it.
THEOREM NoOvercount == Spec => []NeverOvercounts
  <1>1. CountInv => NeverOvercounts
    <2> SUFFICES ASSUME CountInv PROVE NeverOvercounts
      OBVIOUS
    <2>1. mem \in TrafficState /\ StateOK(mem)
      BY DEF CountInv, TypeOK
    <2> QED
      BY <2>1 DEF NeverOvercounts, StateOK, StateOf
  <1> QED
    BY <1>1, Invariance, PTL
----------------------------------------------------------------------------
(* The total of a month never falls.                                       *)

\* An agent that has not sampled holds nothing, and only an older agent's file, which
\* has no total, has a baseline.
NothingToLose ==
    /\ ~loaded => mem = Empty
    /\ mem.baseline = Zero
    /\ file # None /\ file.baseline # Zero => file.total = Zero

\* What one step does to the total the agent would report.
Keeps ==
    /\ Held'.config = Held.config /\ Held'.period = Held.period
    /\ loaded => loaded' \/ file = mem
    => \A d \in Dir : Held'.total[d] >= Held.total[d]

LEMMA HeldAsOld ==
    ASSUME TypeOK, NothingToLose
    PROVE  Held.baseline # Zero => Held.total = Zero
  BY DEF Held, NothingToLose

\* A sample's way out either starts another month or adds to the total.
LEMMA RecordKeeps ==
    ASSUME CountInv, NothingToLose, NEW known, NEW outcome, NEW total, NEW from,
           Record(known, total, from, outcome),
           SamePeriod => \A d \in Dir : total[d] >= Held.total[d]
    PROVE  NothingToLose' /\ Keeps
  <1> DEFINE s == [config |-> config, period |-> period[config], last |-> Now,
                   total |-> total, baseline |-> Zero,
                   boot |-> IF known THEN "this" ELSE "unknown",
                   at |-> sent[config], from |-> from]
  <1>1. /\ mem' = s /\ loaded' = TRUE
        /\ file' = s \/ file' = file \/ file' = None
    BY DEF Record, Save
  <1>2. Held' = s
    BY <1>1 DEF Held
  <1>3. /\ s.config = config /\ s.period = period[config] /\ s.total = total
        /\ s.baseline = Zero
    OBVIOUS
  <1> HIDE DEF s
  <1>4. NothingToLose'
    BY <1>1, <1>3 DEF NothingToLose
  <1>5. Keeps
    BY <1>2, <1>3 DEF Keeps, SamePeriod
  <1> QED BY <1>4, <1>5

LEMMA SampleKeeps ==
    ASSUME CountInv, NothingToLose, NEW known, NEW outcome, Sample(known, outcome)
    PROVE  NothingToLose' /\ Keeps
  <1>1. /\ TypeOK /\ config \in Config /\ Held \in TrafficState /\ period[config] # 0
        /\ Now \in Bytes
    BY HeldOK, HostType DEF CountInv, TypeOK, Now
  <1>2. /\ Held.total \in Bytes /\ Held.last \in Bytes /\ Held.baseline \in Bytes
        /\ \A d \in Dir : Held.total[d] \in Nat
    BY <1>1, StateType DEF Bytes
  <1>3. CASE SampleAfterReboot(known, outcome)
    <2>1. \A d \in Dir : Plus(Held.total, Now)[d] >= Held.total[d]
      BY <1>1, <1>2, SumType
    <2> QED BY <1>3, <2>1, RecordKeeps DEF SampleAfterReboot
  <1>4. CASE SampleRepair(known, outcome)
    BY <1>4, RecordKeeps DEF SampleRepair, Behind
  <1>5. CASE SampleOlderFile(known, outcome)
    <2>1. Held.total = Zero
      BY <1>1, <1>5, HeldAsOld DEF SampleOlderFile, FromOlderFile
    <2>2. \A d \in Dir : Minus(Now, Held.baseline)[d] >= Held.total[d]
      BY <1>1, <1>2, <2>1, SumType, ZeroType
    <2> QED BY <1>5, <2>2, RecordKeeps DEF SampleOlderFile
  <1>6. CASE SampleInitialize(known, outcome)
    <2>1. ~SamePeriod
      BY <1>1, <1>6 DEF SampleInitialize, OtherCounter, SamePeriod
    <2> QED BY <1>6, <2>1, RecordKeeps DEF SampleInitialize
  <1>7. CASE SampleDelta(known, outcome)
    <2>1. Delta(known) \in Bytes
      BY <1>1, <1>2, SumType DEF Delta
    <2>2. \A d \in Dir : Plus(Held.total, Delta(known))[d] >= Held.total[d]
      BY <1>2, <2>1, SumType
    <2>3. CASE Held.period = period[config]
      BY <1>7, <2>2, <2>3, RecordKeeps DEF SampleDelta
    <2>4. CASE Held.period # period[config]
      BY <1>7, <2>4, RecordKeeps DEF SampleDelta, SamePeriod
    <2> QED BY <2>3, <2>4
  <1> QED BY <1>3, <1>4, <1>5, <1>6, <1>7 DEF Sample

\* A restart or a reboot loses at most what was never saved.
LEMMA ForgetKeeps ==
    ASSUME CountInv, NothingToLose, mem' = Empty, loaded' = FALSE,
           file' = file \/ (file # None /\ file' = Rebooted(file))
    PROVE  NothingToLose' /\ Keeps
  <1>1. file # None => file \in TrafficState
    BY DEF CountInv, TypeOK
  <1>2. file # None =>
          /\ Rebooted(file) \in TrafficState
          /\ Rebooted(file).config = file.config /\ Rebooted(file).period = file.period
          /\ Rebooted(file).total = file.total /\ Rebooted(file).baseline = file.baseline
    BY <1>1 DEF Rebooted, TrafficState
  <1>3. /\ file' # None <=> file # None
        /\ file # None => /\ file'.total = file.total /\ file'.baseline = file.baseline
                          /\ file'.config = file.config /\ file'.period = file.period
    BY <1>1, <1>2, NoFileAssumption
  <1>4. NothingToLose'
    BY <1>3 DEF NothingToLose, Empty
  <1>5. Held \in TrafficState /\ \A d \in Dir : Held.total[d] \in Nat
    BY HeldOK, StateType DEF Bytes
  <1>6. CASE file = None
    <2>1. Held = mem /\ Held' = Empty
      BY <1>3, <1>6 DEF Held
    <2>2. mem \in TrafficState
      BY DEF CountInv, TypeOK
    <2>3. loaded /\ file = mem => FALSE
      BY <1>6, <2>2, NoFileAssumption
    <2> QED BY <1>4, <1>5, <2>1, <2>3 DEF Keeps, NothingToLose
  <1>7. CASE file # None
    <2>1. Held' = file'
      BY <1>3, <1>7 DEF Held
    <2>2. ~loaded \/ file = mem => Held = file
      BY <1>7 DEF Held
    <2> QED BY <1>3, <1>4, <1>5, <1>7, <2>1, <2>2 DEF Keeps
  <1> QED BY <1>6, <1>7

LEMMA TotalStep == CountInv /\ NothingToLose /\ [Next]_vars => NothingToLose' /\ Keeps
  <1> SUFFICES ASSUME CountInv, NothingToLose, [Next]_vars
               PROVE  NothingToLose' /\ Keeps
    OBVIOUS
  <1>1. ASSUME UNCHANGED <<mem, loaded, file>> PROVE NothingToLose' /\ Keeps
    <2>1. Held' = Held /\ \A d \in Dir : Held.total[d] \in Nat
      BY <1>1, HeldOK, StateType DEF Held, Bytes
    <2> QED BY <1>1, <2>1 DEF NothingToLose, Keeps
  <1>2. ASSUME NEW c \in Config, NEW d \in Dir, Carry(c, d) PROVE NothingToLose' /\ Keeps
    BY <1>1, <1>2 DEF Carry
  <1>3. ASSUME NEW c \in Config, ResetDay(c) PROVE NothingToLose' /\ Keeps
    BY <1>1, <1>3 DEF ResetDay
  <1>4. ASSUME NEW c \in Config, AgentRestart(c) PROVE NothingToLose' /\ Keeps
    BY <1>4, ForgetKeeps DEF AgentRestart
  <1>5. ASSUME Reboot PROVE NothingToLose' /\ Keeps
    BY <1>5, ForgetKeeps DEF Reboot
  <1>6. ASSUME UNCHANGED vars PROVE NothingToLose' /\ Keeps
    BY <1>1, <1>6 DEF vars
  <1> QED BY <1>2, <1>3, <1>4, <1>5, <1>6, SampleKeeps DEF Next

\* Within a month the reported total never falls, across reboots and restarts too, if
\* what was reported had been saved (adjustSinceBoot, save, load).
THEOREM TotalsOnlyGrow == Spec => TotalNeverFalls
  <1>1. Init => NothingToLose
    <2> SUFFICES ASSUME Init PROVE NothingToLose
      OBVIOUS
    <2>1. mem = Empty /\ loaded = FALSE /\ (file = None \/ \E c \in Config : file = OlderFile(c))
      BY DEF Init
    <2>2. \A c \in Config : OlderFile(c).total = Zero
      BY DEF OlderFile, Empty
    <2> QED BY <2>1, <2>2 DEF NothingToLose, Empty
  <1>2. CountInv /\ NothingToLose /\ [Next]_vars => NothingToLose' /\ Keeps
    BY TotalStep
  <1> QED BY <1>1, <1>2, Invariance, PTL DEF Spec, TotalNeverFalls, Keeps
=============================================================================
