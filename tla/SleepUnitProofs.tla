--------------------------- MODULE SleepUnitProofs ---------------------------
(***************************************************************************)
(* Theorems about SleepUnit.tla: the clock stops only when nothing would   *)
(* be lost, for every program and every behaviour of the request lines.    *)
(***************************************************************************)
EXTENDS SleepUnit, ControllerProofs

(* Why the clock may be off: before fetch_enable_i nothing has started;    *)
(* later the controller was asleep and the units idle one cycle ago, and   *)
(* neither can have changed since.                                         *)
GateInv ==
  /\ fetch_enable_q \in BOOLEAN /\ core_busy_q \in BOOLEAN
  /\ ~fetch_enable_q => ctrl_fsm_cs = "RESET" /\ ~units_busy
  /\ fetch_enable_q /\ ~core_busy_q => ctrl_fsm_cs = "SLEEP" /\ ~units_busy

SleepInv == CtrlInv /\ GateInv

LEMMA SleepInvInit == SleepInit => SleepInv
  <1>1. SleepInit => CtrlInv
    BY CtrlInvInit DEF SleepInit
  <1>2. SleepInit => GateInv
    BY DEF SleepInit, Init, GateInv
  <1> QED
    BY <1>1, <1>2 DEF SleepInv

(* The wake-up logic sees the same lines as the controller. *)
LEMMA SamePins ==
  ASSUME NEW c, c.debug_req = debug_req_i, c.irq = irq_i
  PROVE  wake_from_sleep(c) <=> wake_from_sleep(Pins)
  BY DEF wake_from_sleep, irq_wu, debug_req_pending, Pins

LEMMA FallingAsleep ==
  ASSUME NEW c, Cycle(c),
         ctrl_fsm_cs = "WAIT_SLEEP" \/ (ctrl_fsm_cs = "SLEEP" /\ ~wake_from_sleep(c))
  PROVE  ctrl_fsm_cs' = "SLEEP"
  <1>1. WaitSleep(c) \/ Sleep(c)
    BY DEF Cycle, Reset, BootSet, FirstFetch, DecodeBranchTaken, DecodeEmpty, DecodeDebug,
       DecodeIrq, DecodeInstr, FlushEx, FlushWb, XretJump, DbgWaitBranch, DbgFlush,
       DbgTakenId, DbgTakenIf, ElwExe, IrqFlushElw
  <1>2. CASE WaitSleep(c)
    BY <1>2 DEF WaitSleep, Edge, Default
  <1>3. CASE Sleep(c)
    <2>1. ctrl_fsm_cs = "SLEEP" /\ ~wake_from_sleep(c)
      BY <1>3 DEF Sleep
    <2>2. Edge(c, [Default EXCEPT !.halt_if = TRUE, !.halt_id = TRUE])
      BY <1>3, <2>1 DEF Sleep
    <2> QED BY <2>1, <2>2 DEF Edge, Default
  <1> QED
    BY <1>1, <1>2, <1>3

LEMMA CtrlInvClockEdge ==
  ASSUME CtrlInv, NEW c \in Input, ClockEdge(c)
  PROVE  CtrlInv'
  <1>1. DebugReqEdge(c) /\ UNCHANGED COREV_CLUSTER
    BY DEF ClockEdge, DebugLatchEdge
  <1>2. CASE Cycle(c)
    BY <1>1, <1>2, CtrlInvStep DEF Next
  <1>3. CASE UNCHANGED clocked
    <2>1. debug_req_q' \in BOOLEAN
      BY <1>1, InputTypes DEF DebugReqEdge, CtrlInv, TypeOK
    <2> QED BY <1>1, <1>3, <2>1
              DEF CtrlInv, TypeOK, InFlight, DebugFsmInv, clocked, ctrlVars, pipeVars, csrVars
  <1> QED
    BY <1>2, <1>3 DEF ClockEdge

LEMMA GateInvClockEdge ==
  ASSUME SleepInv, NEW c \in Input, ClockEdge(c)
  PROVE  GateInv'
  <1>1. /\ fetch_enable_q' = (fetch_enable_q \/ fetch_enable_i)
        /\ core_busy_q' = core_busy_d
        /\ ctrl_fsm_cs' \in {"RESET", "WAIT_SLEEP", "SLEEP"} => (units_busy' => units_busy)
    BY DEF ClockEdge, SleepEdge, LinesEdge
  <1>2. fetch_enable_q' \in BOOLEAN /\ core_busy_q' \in BOOLEAN
    BY <1>1 DEF core_busy_d
  <1>3. ASSUME ~fetch_enable_q'
        PROVE  ctrl_fsm_cs' = "RESET" /\ ~units_busy'
    <2>1. ~fetch_enable_q /\ ctrl_fsm_cs = "RESET" /\ ~units_busy
      BY <1>1, <1>3 DEF SleepInv, GateInv
    <2>2. UNCHANGED clocked
      BY <2>1 DEF ClockEdge, clock_en
    <2> QED BY <1>1, <2>1, <2>2 DEF clocked, ctrlVars
  <1>4. ASSUME ~core_busy_q'
        PROVE  ctrl_fsm_cs' = "SLEEP" /\ ~units_busy'
    <2>1. ~units_busy /\ ~ctrl_busy
      BY <1>1, <1>4 DEF core_busy_d
    <2>2. ctrl_fsm_cs = "WAIT_SLEEP" \/ (ctrl_fsm_cs = "SLEEP" /\ ~wake_from_sleep(Pins))
      BY <2>1 DEF ctrl_busy
    <2>3. CASE clock_en
      BY <1>1, <2>1, <2>2, <2>3, SamePins, FallingAsleep DEF ClockEdge
    <2>4. CASE ~clock_en
      <3>1. ctrl_fsm_cs = "SLEEP"
        BY <2>2, <2>4 DEF clock_en, SleepInv, GateInv
      <3>2. UNCHANGED ctrl_fsm_cs
        BY <2>4 DEF ClockEdge, clocked, ctrlVars
      <3> QED BY <1>1, <2>1, <3>1, <3>2
    <2> QED BY <2>3, <2>4
  <1> QED
    BY <1>2, <1>3, <1>4 DEF GateInv

LEMMA SleepInvStep == SleepInv /\ [SleepNext]_sleepVars => SleepInv'
  <1>1. SleepInv /\ SleepNext => SleepInv'
    BY CtrlInvClockEdge, GateInvClockEdge DEF SleepInv, SleepNext
  <1>2. SleepInv /\ UNCHANGED sleepVars => SleepInv'
    BY DEF SleepInv, GateInv, CtrlInv, TypeOK, InFlight, DebugFsmInv, sleepVars, lines,
       vars, clocked, ctrlVars, pipeVars, csrVars
  <1> QED
    BY <1>1, <1>2

LEMMA SleepInvariant == SleepSpec => []SleepInv
  BY SleepInvInit, SleepInvStep, PTL DEF SleepSpec

-----------------------------------------------------------------------------
(* Theorems *)

(* The clock is off only before fetch_enable_i, or while the controller    *)
(* sleeps with no reason to wake up, an empty pipeline and every unit      *)
(* idle: no answer of the bus, no instruction is missed.                   *)
THEOREM ClockStopsIdle == SleepSpec => []StopsOnlyIdle
  <1>1. SleepInv => StopsOnlyIdle
    BY DEF SleepInv, GateInv, StopsOnlyIdle, clock_en, CtrlInv, InFlight, Drained, Emptying
  <1> QED
    BY <1>1, SleepInvariant, PTL

(* While core_sleep_o is raised no register changes, not even those on the *)
(* free-running clock: the clock may be gated outside the core as well.    *)
THEOREM ExternalGating == SleepSpec => ExternalGateSafe
  <1>1. SleepInv /\ [SleepNext]_sleepVars
        => [core_sleep => UNCHANGED <<vars, fetch_enable_q, core_busy_q>>]_sleepVars
    <2> SUFFICES ASSUME SleepInv, SleepNext, core_sleep
                 PROVE  UNCHANGED <<vars, fetch_enable_q, core_busy_q>>
      OBVIOUS
    <2>1. PICK c \in Input : ClockEdge(c)
      BY DEF SleepNext
    <2>2. fetch_enable_q /\ ~clock_en /\ ~core_busy_q /\ ~wake_from_sleep(Pins)
      BY DEF core_sleep, clock_en
    <2>3. ctrl_fsm_cs = "SLEEP" /\ ~units_busy
      BY <2>2 DEF SleepInv, GateInv
    <2>4. UNCHANGED clocked /\ UNCHANGED COREV_CLUSTER
      BY <2>1, <2>2 DEF ClockEdge
    <2>5. UNCHANGED debug_req_q
      BY <2>1, <2>2 DEF ClockEdge, DebugLatchEdge, DebugReqEdge, wake_from_sleep,
         debug_req_pending, Pins, SleepInv, CtrlInv, TypeOK
    <2>6. UNCHANGED <<fetch_enable_q, core_busy_q>>
      BY <2>1, <2>2, <2>3 DEF ClockEdge, SleepEdge, core_busy_d, ctrl_busy, SleepInv, GateInv
    <2> QED BY <2>4, <2>5, <2>6 DEF vars
  <1> QED
    BY <1>1, SleepInvariant, PTL DEF SleepSpec, ExternalGateSafe
=============================================================================
