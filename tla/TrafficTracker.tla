--------------------------- MODULE TrafficTracker ---------------------------
(***************************************************************************)
(* The agent's monthly traffic counter (trafficResetTracker): the kernel   *)
(* counts bytes since boot, the panel shows bytes since the reset day.     *)
(* Each sample turns one into the other from the state of the last sample, *)
(* which is kept in memory and in a file.  The host reboots, the agent     *)
(* restarts with the same or other settings, the month ends, the boot time *)
(* may be unreadable and the file may fail to be written.                  *)
(*                                                                         *)
(* A config stands for a reset day and an interface filter: each has its   *)
(* own month and its own counters.  Boot times are kept as far as the code *)
(* compares them: unknown, the present boot's, another boot's.             *)
(***************************************************************************)
EXTENDS Integers, Functions

CONSTANTS
    Dir,           \* up and down
    Config,        \* reset day and interface filter the agent may run with
    MaxBytes,      \* bound on the bytes of all configs and directions
    MaxPeriod,     \* bound on the months
    SaveOutcomes,  \* what save() may come to
    BootTimeFails, \* may host.Info fail?
    None           \* no config, no file

ASSUME TrafficAssumption ==
    /\ MaxBytes \in Nat /\ MaxPeriod \in Nat \ {0}
    /\ SaveOutcomes \subseteq {"saved", "failed", "lost"}
    /\ BootTimeFails \in BOOLEAN
    /\ None \notin Config

VARIABLES
    sent,   \* bytes each config's interfaces ever carried
    mark,   \* what sent was when the config's month began
    raw,    \* the kernel's counters, since boot
    period, \* the month of each config
    covers, \* did the host boot in this month?
    config, \* what the agent runs with
    mem,    \* the tracker's state
    loaded, \* was the file read since the agent started?
    file    \* traffic-state.json

host == <<sent, mark, raw, period, covers>>
vars == <<sent, mark, raw, period, covers, config, mem, loaded, file>>

Bytes == [Dir -> Nat]
Zero == [d \in Dir |-> 0]
Plus(x, y) == [d \in Dir |-> x[d] + y[d]]
\* x - y, where it is not negative
Minus(x, y) == [d \in Dir |-> IF x[d] >= y[d] THEN x[d] - y[d] ELSE 0]

\* trafficResetState. at and from are history: what sent was at the sample,
\* and from where on total counts.
TrafficState == [config : Config \cup {None}, period : Nat, last : Bytes,
                 total : Bytes, baseline : Bytes,
                 boot : {"unknown", "this", "other"}, at : Bytes, from : Bytes]

Empty == [config |-> None, period |-> 0, last |-> Zero, total |-> Zero,
          baseline |-> Zero, boot |-> "unknown", at |-> Zero, from |-> Zero]

ASSUME NoFileAssumption == None \notin TrafficState

TypeOK ==
    /\ sent \in [Config -> Bytes] /\ mark \in [Config -> Bytes]
    /\ raw \in [Config -> Bytes]
    /\ period \in [Config -> Nat \ {0}]
    /\ covers \in [Config -> BOOLEAN]
    /\ config \in Config
    /\ mem \in TrafficState
    /\ loaded \in BOOLEAN
    /\ file \in TrafficState \cup {None}

\* A file of an older agent held the counters of the month's begin only.
OlderFile(c) == [Empty EXCEPT !.config = c, !.period = period[c],
                              !.baseline = mark[c], !.at = mark[c],
                              !.from = mark[c]]

\* The agent is installed on a host that has been up for a while.
Init ==
    /\ \E b \in [Dir -> 0..1] : sent = [c \in Config |-> b]
    /\ raw = sent
    /\ period = [c \in Config |-> 1]
    /\ covers \in [Config -> BOOLEAN]
    /\ \/ mark = sent
       \/ mark = [c \in Config |-> Zero]
    /\ \A c \in Config : covers[c] => mark[c] = Zero
    /\ config \in Config
    /\ mem = Empty
    /\ loaded = FALSE
    /\ file \in {None} \cup {OlderFile(c) : c \in Config}

----------------------------------------------------------------------------
(* The host.                                                               *)

Carry(c, d) ==
    /\ SumFunction([b \in Config |-> SumFunction(sent[b])]) < MaxBytes
    /\ sent' = [sent EXCEPT ![c][d] = @ + 1]
    /\ raw' = [raw EXCEPT ![c][d] = @ + 1]
    /\ UNCHANGED <<mark, period, covers, config, mem, loaded, file>>

\* lastTrafficResetDate moves on.
ResetDay(c) ==
    /\ period[c] < MaxPeriod
    /\ period' = [period EXCEPT ![c] = @ + 1]
    /\ mark' = [mark EXCEPT ![c] = sent[c]]
    /\ covers' = [covers EXCEPT ![c] = FALSE]
    /\ UNCHANGED <<sent, raw, config, mem, loaded, file>>

\* newTrafficResetTracker: nothing is loaded before the first sample.
AgentRestart(c) ==
    /\ config' = c
    /\ mem' = Empty
    /\ loaded' = FALSE
    /\ UNCHANGED <<host, file>>

Rebooted(s) == IF s.boot = "this" THEN [s EXCEPT !.boot = "other"] ELSE s

Reboot ==
    /\ raw' = [c \in Config |-> Zero]
    /\ covers' = [c \in Config |-> TRUE]
    /\ mem' = Empty
    /\ loaded' = FALSE
    /\ file' = IF file = None THEN None ELSE Rebooted(file)
    /\ UNCHANGED <<sent, mark, period, config>>

----------------------------------------------------------------------------
(* A sample: adjustSinceBoot, one action for each way out of it.           *)

\* load
Held == IF loaded \/ file = None THEN mem ELSE file

SamePeriod == Held.config = config /\ Held.period = period[config]
CoversPeriod(known) == known /\ covers[config]
Now == raw[config]

\* save writes a temporary file, removes the old one and renames: it leaves
\* the new file, the old one or, ended or failing in between, none.
Save(s, outcome) ==
    file' = IF outcome = "saved" THEN s ELSE IF outcome = "failed" THEN file ELSE None

\* What every way out records of the sample. SampleDelta leaves the baseline
\* alone in the code; only an older file has one, and that never gets there.
Record(known, total, from, outcome) ==
    LET s == [config |-> config, period |-> period[config], last |-> Now,
              total |-> total, baseline |-> Zero,
              boot |-> IF known THEN "this" ELSE "unknown",
              at |-> sent[config], from |-> from]
    IN /\ mem' = s
       /\ loaded' = TRUE
       /\ Save(s, outcome)
       /\ UNCHANGED <<host, config>>

RebootSeen(known) == SamePeriod /\ CoversPeriod(known) /\ Held.boot = "other"

\* The first sample after a reboot in this month adds the new boot's bytes.
SampleAfterReboot(known, outcome) ==
    /\ RebootSeen(known)
    /\ Record(known, Plus(Held.total, Now), Held.from, outcome)

\* Fault: one direction is enough.
BehindEither(known) ==
    /\ SamePeriod /\ CoversPeriod(known)
    /\ \E d \in Dir : Now[d] > Held.total[d]

Behind(known) ==
    /\ SamePeriod /\ CoversPeriod(known)
    /\ \A d \in Dir : Now[d] >= Held.total[d]
    /\ \E d \in Dir : Now[d] > Held.total[d]

\* The kernel counts more since a boot in this month than the state does.
SampleRepair(known, outcome) ==
    /\ ~RebootSeen(known) /\ Behind(known)
    /\ Record(known, Now, Held.from, outcome)

FromOlderFile == Held.last = Zero /\ Held.baseline # Zero

SampleOlderFile(known, outcome) ==
    /\ ~RebootSeen(known) /\ ~Behind(known) /\ FromOlderFile
    /\ IF SamePeriod
       THEN Record(known, Minus(Now, Held.baseline), Held.from, outcome)
       ELSE Record(known, Zero, mark[config], outcome)

OtherCounter == Held.config # config \/ Held.period = 0

\* No usable state: the month begins with the boot's bytes or with nothing.
SampleInitialize(known, outcome) ==
    /\ ~RebootSeen(known) /\ ~Behind(known) /\ ~FromOlderFile /\ OtherCounter
    /\ Record(known, IF CoversPeriod(known) THEN Now ELSE Zero, mark[config],
              outcome)

Dropped == \E d \in Dir : Now[d] < Held.last[d]

\* Fault: a counter that fell is not noticed.
DeltaAbsolute(known) == Now

\* What was carried since the last sample; after a drop, since the boot.
Delta(known) ==
    IF Dropped /\ CoversPeriod(known) THEN Now ELSE Minus(Now, Held.last)

\* The ordinary sample. A month that ended takes what came since the last
\* sample along, unless the boot lies within the new month.
SampleDelta(known, outcome) ==
    /\ ~RebootSeen(known) /\ ~Behind(known) /\ ~FromOlderFile /\ ~OtherCounter
    /\ IF Held.period = period[config]
       THEN Record(known, Plus(Held.total, Delta(known)), Held.from, outcome)
       ELSE IF CoversPeriod(known)
       THEN Record(known, Now, mark[config], outcome)
       ELSE Record(known, Delta(known), Held.at, outcome)

Sample(known, outcome) ==
    \/ SampleAfterReboot(known, outcome) \/ SampleRepair(known, outcome)
    \/ SampleOlderFile(known, outcome) \/ SampleInitialize(known, outcome)
    \/ SampleDelta(known, outcome)

----------------------------------------------------------------------------
Next ==
    \/ \E c \in Config, d \in Dir : Carry(c, d)
    \/ \E c \in Config : ResetDay(c) \/ AgentRestart(c)
    \/ Reboot
    \/ \E known \in {TRUE, ~BootTimeFails}, outcome \in SaveOutcomes :
          Sample(known, outcome)

Spec == Init /\ [][Next]_vars

----------------------------------------------------------------------------
(* Properties.                                                             *)

\* No byte is counted twice: whatever reboots, restarts, failing writes and
\* months came between, a total is at most what was carried since the month
\* began, or since the last sample before it.
NeverOvercounts ==
    \A d \in Dir :
        /\ mem.total[d] <= mem.at[d] - mem.from[d]
        /\ mem.config # None => mem.at[d] <= sent[mem.config][d]
        /\ mem.config # None /\ mem.period = period[mem.config] =>
             mem.from[d] <= mark[mem.config][d]

\* Within a month the total never falls, across reboots and restarts too, if
\* the state that was reported had been saved.
TotalNeverFalls ==
    [][/\ Held'.config = Held.config /\ Held'.period = Held.period
       /\ loaded => loaded' \/ file = mem
       => \A d \in Dir : Held'.total[d] >= Held.total[d]]_vars
=============================================================================
