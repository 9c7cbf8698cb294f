------------------------------ MODULE KModule ------------------------------
(***************************************************************************)
(* The life cycle of the kernel module: loading it, which makes the entries *)
(* of /proc/KU one by one and may run out of memory at each, its timer,     *)
(* whose handler registers it again, and unloading it, while the handler    *)
(* may be running on another core.  The part of the handler that moves the  *)
(* boundaries is the Tick of SingleCP and of SocketCP.                      *)
(***************************************************************************)
EXTENDS CpuUsage

CONSTANT MaxLoads   \* bound: how often the module is loaded

ASSUME LoadsAssumption == MaxLoads \in Nat

VARIABLES
  mod,        \* "absent", "loading", "live", "leaving", or "oops" when code
              \* or memory of an absent module has been used
  step,       \* next call of init_simpleproc or exit_simpleproc
  proc,       \* names that /proc shows
  ptrmng,     \* the timer's memory: "null", "allocated", "freed"
  timer,      \* the timer is pending
  tick,       \* where the timer's handler is: "none", "sample", "rearm"
  loads,      \* how often the module was loaded
  load, prev, \* history: the last load and the one before: whether it ended
              \* well, and what ran out of memory in it
  overlap     \* history: the handler was running when its timer was deleted

loadVars == <<loads, load, prev>>
lifeVars == <<mod, step, proc, ptrmng, timer, tick, loadVars, overlap>>
vars == <<cpuVars, lifeVars>>

Entries == <<"user", "system", "intr", "total", "dynamic">>
Names == {"KU"} \cup {Entries[i] : i \in DOMAIN Entries}
NoLoad == [ok |-> FALSE, oom |-> "no"]

Init ==
  /\ UsageInit
  /\ mod = "absent" /\ step = 0
  /\ proc = {}
  /\ ptrmng = "null" /\ timer = FALSE /\ tick = "none"
  /\ loads = 0 /\ load = [ok |-> TRUE, oom |-> "no"] /\ prev = NoLoad
  /\ overlap = FALSE

(* remove_proc_entry: what is in a directory goes with it. *)
RemoveAll(names) == IF "KU" \in names THEN {} ELSE proc \ names

(* insmod: the module's variables are new.  (While a timer or a handler of  *)
(* the old module is still around, what happens next is Oops.)              *)
Insmod ==
  /\ mod = "absent" /\ ~timer /\ tick = "none"
  /\ loads < MaxLoads
  /\ mod' = "loading" /\ step' = 0 /\ ptrmng' = "null"
  /\ loads' = loads + 1 /\ load' = NoLoad /\ prev' = load
  /\ FreshUsage
  /\ UNCHANGED <<proc, timer, tick, overlap>>

(* init_simpleproc returns an error: the module is not loaded. *)
InitFails(oom) ==
  /\ mod' = "absent" /\ step' = 0
  /\ load' = [load EXCEPT !.oom = oom]
  /\ UNCHANGED <<cpuVars, ptrmng, timer, tick, loads, prev, overlap>>
InitGoesOn == step' = step + 1 /\ UNCHANGED <<cpuVars, mod, timer, tick, loadVars, overlap>>

(* proc_mkdir fails when the name exists. *)
MutOnMkdirFailure == proc
OnMkdirFailure == RemoveAll({"KU"})
ProcMkdir ==
  /\ mod = "loading" /\ step = 0
  /\ \/ "KU" \notin proc /\ proc' = {"KU"} /\ UNCHANGED ptrmng /\ InitGoesOn
     \/ \E oom \in {"entry"} \cup (IF "KU" \in proc THEN {"no"} ELSE {}) :
          proc' = OnMkdirFailure /\ InitFails(oom)

(* proc_create of an entry, and its error path. *)
MutOnCreateFailure(k) == RemoveAll({Entries[i] : i \in 1..k})
OnCreateFailure(k) == RemoveAll({Entries[i] : i \in 1..k} \cup {"KU"})
ProcCreate ==
  /\ mod = "loading" /\ step \in DOMAIN Entries
  /\ \/ proc' = proc \cup {Entries[step]} /\ UNCHANGED ptrmng /\ InitGoesOn
     \/ proc' = OnCreateFailure(step) /\ InitFails("entry")

(* kmalloc; its error path leaves the entries. *)
Kmalloc ==
  /\ mod = "loading" /\ step = Len(Entries) + 1
  /\ UNCHANGED proc
  /\ \/ ptrmng' = "allocated" /\ InitGoesOn
     \/ InitFails("kmalloc")

(* kerneltimer_registertimer, and the end of init_simpleproc. *)
StartTimer ==
  /\ mod = "loading" /\ step = Len(Entries) + 2
  /\ timer' = TRUE
  /\ mod' = "live" /\ step' = 0
  /\ load' = [load EXCEPT !.ok = TRUE]
  /\ UNCHANGED <<cpuVars, proc, ptrmng, tick, loads, prev, overlap>>

(* The timer expires and its handler starts. *)
HasCode == mod \in {"live", "leaving"}
Expire ==
  /\ HasCode /\ timer /\ tick = "none"
  /\ timer' = FALSE /\ tick' = "sample"
  /\ cpu' = 0 /\ field' = 1
  /\ UNCHANGED <<cpustat, before, after, percentages, growths, unread, measured,
                 mod, step, proc, ptrmng, loadVars, overlap>>
Sample ==
  /\ HasCode /\ tick = "sample" /\ ~Sampled
  /\ ReadCounter \/ Compute
  /\ UNCHANGED lifeVars
(* The place of the controller, whose tick SingleCP and SocketCP model: it  *)
(* keeps its hands off everything here.                                     *)
Control ==
  /\ HasCode /\ tick = "sample" /\ Sampled
  /\ tick' = "rearm"
  /\ UNCHANGED <<cpuVars, mod, step, proc, ptrmng, timer, loadVars, overlap>>
Rearm ==
  /\ HasCode /\ tick = "rearm"
  /\ tick' = "none" /\ timer' = TRUE
  /\ UNCHANGED <<cpuVars, mod, step, proc, ptrmng, loadVars, overlap>>

(* exit_simpleproc: del_timer, which does not wait for the handler, kfree,  *)
(* and the removal of the entries; then the module's memory goes.           *)
MutDelTimer ==   \* the timer is not deleted
  /\ mod = "live"
  /\ mod' = "leaving"
  /\ overlap' = (tick # "none")
  /\ UNCHANGED <<cpuVars, step, proc, ptrmng, timer, tick, loadVars>>
DelTimer ==
  /\ mod = "live"
  /\ mod' = "leaving"
  /\ timer' = FALSE
  /\ overlap' = (tick # "none")
  /\ UNCHANGED <<cpuVars, step, proc, ptrmng, tick, loadVars>>
Kfree ==
  /\ mod = "leaving" /\ ptrmng = "allocated"
  /\ ptrmng' = "freed"
  /\ UNCHANGED <<cpuVars, mod, step, proc, timer, tick, loadVars, overlap>>
RemoveEntries ==
  /\ mod = "leaving" /\ ptrmng = "freed"
  /\ proc' = RemoveAll(Names)
  /\ mod' = "absent"
  /\ UNCHANGED <<cpuVars, step, ptrmng, timer, tick, loadVars, overlap>>

(* A handler that runs on, a timer that expires, or an entry that a process *)
(* opens, when the module is gone.                                          *)
Oops ==
  /\ mod = "absent"
  /\ timer \/ tick # "none" \/ proc \ {"KU"} # {}
  /\ mod' = "oops"
  /\ UNCHANGED <<cpuVars, step, proc, ptrmng, timer, tick, loadVars, overlap>>

TimePasses == \E c \in Cpus, g \in Growth :
  /\ mod # "oops" /\ Grow(c, g) /\ UNCHANGED lifeVars

TickStep == Expire \/ Sample \/ Control \/ Rearm
InitStep == ProcMkdir \/ ProcCreate \/ Kmalloc \/ StartTimer
ExitStep == Kfree \/ RemoveEntries
Next == Insmod \/ InitStep \/ TickStep \/ DelTimer \/ ExitStep \/ Oops \/ TimePasses

Spec == Init /\ [][Next]_vars
-----------------------------------------------------------------------------
(* Every variable keeps its type. *)
TypeOK ==
  /\ cpustat \in [Cpus -> Times] /\ before \in [Cpus -> Times] /\ after \in [Cpus -> Times]
  /\ \A p \in {p_user, p_system, p_irq, p_total, p_dynamic} : p \in [Cpus -> 0..100]
  /\ cpu \in 0..MAX_CPUS /\ field \in 1..(Len(Order) + 1)
  /\ growths \in 0..MaxGrowths
  /\ unread \in [Cpus -> Times] /\ measured \in [Cpus -> Times]
  /\ mod \in {"absent", "loading", "live", "leaving", "oops"}
  /\ step \in 0..(Len(Entries) + 2)
  /\ proc \subseteq Names
  /\ ptrmng \in {"null", "allocated", "freed"}
  /\ timer \in BOOLEAN /\ tick \in {"none", "sample", "rearm"}
  /\ loads \in 0..MaxLoads
  /\ {load, prev} \subseteq [ok : BOOLEAN, oom : {"no", "entry", "kmalloc"}]
  /\ overlap \in BOOLEAN

(* The percentages from which a tick moves the boundaries are the shares of *)
(* the time since the tick before (since boot, in the first one), although  *)
(* the counters go on while they are read: no time is lost or counted       *)
(* twice, and a core without idle time does not divide by zero.             *)
SharesExact == tick = "rearm" => \A c \in Cpus : SharesOf(c)

(* Code or memory of an unloaded module is used in two cases only: rmmod    *)
(* deleted the timer while its handler was running (del_timer does not      *)
(* wait), or the last load failed in kmalloc and left its entries.          *)
UnloadSafe == mod = "oops" => overlap \/ load.oom = "kmalloc"

(* An insmod that gets all the memory it asks for fails only right after    *)
(* one that failed in kmalloc: it removes what that one left, so that it is *)
(* the only one to fail for that.                                           *)
OneFailureAfterLeak ==
  mod = "absent" /\ ~load.ok /\ load.oom = "no" => prev.oom = "kmalloc"

(* Every other way for the module to be absent leaves nothing in /proc. *)
ProcClean == mod = "absent" /\ load.oom # "kmalloc" => proc = {}
=============================================================================
