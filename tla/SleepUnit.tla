------------------------------ MODULE SleepUnit ------------------------------
(***************************************************************************)
(* The clock gate of CV32E40P (rtl/cv32e40p_sleep_unit.sv) around the core *)
(* of Controller.tla, for COREV_CLUSTER = 0: the clock is off until        *)
(* fetch_enable_i and while the core sleeps after wfi.                     *)
(*                                                                         *)
(* One step is one edge of clk_ungated_i.  The inputs that reach the gate  *)
(* combinationally are variables, so that clock_en and core_sleep_o are    *)
(* state functions.                                                        *)
(***************************************************************************)
EXTENDS Controller

ASSUME SleepUnitAssumption == Clusters = {FALSE}

VARIABLES
  fetch_enable_q, core_busy_q,
  fetch_enable_i, debug_req_i, irq_i,     \* lines of the core in this cycle
  units_busy                              \* if_busy_i || lsu_busy_i || apu_busy_i

lines     == <<fetch_enable_i, debug_req_i, irq_i, units_busy>>
sleepVars == <<vars, fetch_enable_q, core_busy_q, lines>>

Pins == [debug_req |-> debug_req_i, irq |-> irq_i]

ctrl_busyAsleep == ctrl_fsm_cs # "WAIT_SLEEP"    \* mutant: SLEEP is left out

ctrl_busy == ~ \/ ctrl_fsm_cs = "WAIT_SLEEP"
               \/ ctrl_fsm_cs = "SLEEP" /\ ~wake_from_sleep(Pins)

core_busy_dCtrlOnly == ctrl_busy    \* mutant: outstanding transactions are forgotten

core_busy_d == units_busy \/ ctrl_busy

clock_en == fetch_enable_q /\ (wake_from_sleep(Pins) \/ core_busy_q)

core_sleepEarly == fetch_enable_q /\ ~core_busy_d    \* mutant: before the clock stops

core_sleep == fetch_enable_q /\ ~clock_en

SleepInit ==
  /\ Init
  /\ fetch_enable_q = FALSE /\ core_busy_q = FALSE
  /\ fetch_enable_i \in BOOLEAN /\ debug_req_i \in DebugReqs /\ irq_i \in Irqs
  /\ units_busy = FALSE

(* Without instr_req_o and with an empty pipeline nothing new is started:  *)
(* the units can only finish what they were doing.  One pulse of           *)
(* fetch_enable_i is enough.                                               *)
LinesEdge ==
  /\ fetch_enable_i' \in (IF fetch_enable_q' THEN {FALSE} ELSE BOOLEAN)
  /\ debug_req_i' \in DebugReqs /\ irq_i' \in Irqs
  /\ units_busy' \in BOOLEAN
  /\ ctrl_fsm_cs' \in {"RESET", "WAIT_SLEEP", "SLEEP"} => (units_busy' => units_busy)

DebugLatchEdgeGated(c) ==    \* mutant: the latch is on the gated clock
  IF clock_en THEN DebugReqEdge(c) ELSE UNCHANGED debug_req_q

DebugLatchEdge(c) == DebugReqEdge(c)

SleepEdge ==
  /\ fetch_enable_q' = (fetch_enable_q \/ fetch_enable_i)
  /\ core_busy_q' = core_busy_d

ClockEdge(c) ==
  /\ c.debug_req = debug_req_i /\ c.irq = irq_i /\ c.fetch_enable = fetch_enable_q
  /\ \/ clock_en /\ Cycle(c)
     \/ ~clock_en /\ UNCHANGED clocked
  /\ DebugLatchEdge(c) /\ SleepEdge /\ LinesEdge
  /\ UNCHANGED COREV_CLUSTER

SleepNext == \E c \in Input : ClockEdge(c)

(* Fetching is enabled at some time; again and again operations and        *)
(* bus transactions finish.                                                *)
SleepSpec ==
  /\ SleepInit /\ [][SleepNext]_sleepVars
  /\ WF_sleepVars(\E c \in Input :
       Prompt(c) /\ ClockEdge(c) /\ (fetch_enable_i' \/ fetch_enable_q') /\ ~units_busy')

-----------------------------------------------------------------------------
(* Properties *)

(* The clock stops only when there is nothing to be done: before           *)
(* fetch_enable_i, or asleep with an empty pipeline and no transaction     *)
(* outstanding whose answer would be missed (a_clock_en_3, a_clock_en_4,   *)
(* a_not_busy_during_sleep).                                               *)
StopsOnlyIdle ==
  ~clock_en =>
    /\ ctrl_fsm_cs = "RESET" \/ (ctrl_fsm_cs = "SLEEP" /\ ~wake_from_sleep(Pins))
    /\ ~units_busy /\ ~instr_valid_id /\ ex = Bubble

(* While core_sleep_o is raised clk_i may be gated outside the core as     *)
(* well (docs/source/sleep.rst): no register of the core, not even one on  *)
(* the free-running clock, would change (a_gate_clk_i).                    *)
ExternalGateSafe ==
  [][core_sleep => UNCHANGED <<vars, fetch_enable_q, core_busy_q>>]_sleepVars

(* wfi does stop the clock, once the units have finished.                  *)
FallsAsleep == ctrl_fsm_cs = "SLEEP" ~> core_sleep \/ wake_from_sleep(Pins)

(* A debug request of one cycle is served even if it comes before          *)
(* fetch_enable_i or while the clock is off.                               *)
DebugPulseServed == debug_req_i ~> debug_mode_q
=============================================================================
