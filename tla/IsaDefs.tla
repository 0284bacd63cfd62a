------------------------------ MODULE IsaDefs ------------------------------
(***************************************************************************)
(* The vocabulary shared by the machine the software sees (Isa.tla) and    *)
(* the pipeline that implements it (Controller.tla).  Addresses are        *)
(* instruction slots: NextPC(p) is the instruction after p, whatever its     *)
(* size.                                                                   *)
(***************************************************************************)
EXTENDS Integers

CONSTANTS NPC,                                 \* instruction slots
          BootPC, ExcPC, IrqPC,                \* boot_addr_i, mtvec
          DbgPC, DbgExcPC,                     \* dm_halt_addr_i, dm_exception_addr_i
          TriggerPC                            \* tdata2

PC == 0 .. NPC - 1
NextPC(p) == (p + 1) % NPC

Bit(v, i) == (v \div 2^i) % 2 = 1

Ops == {"alu", "jump", "branch", "fencei", "wfi", "elw",
        "ecall", "ebreak", "illegal", "mret", "dret",
        "csr_mstatus", "csr_mepc", "csr_mie", "csr_dcsr", "csr_dpc", "csr_tdata1"}

(* arg: the target of a jump or a branch, the value a CSR instruction      *)
(* writes; where it is an address, any address.                            *)
InstrType == {i \in [op : Ops, arg : Nat] :
                i.op \in {"jump", "branch", "csr_mepc", "csr_dpc"} => i.arg \in PC}

DebugOnly == {"dret", "csr_dcsr", "csr_dpc"}   \* illegal outside Debug Mode

ASSUME IsaAssumption ==
  /\ NPC \in Nat \ {0}
  /\ {BootPC, ExcPC, IrqPC, DbgPC, DbgExcPC, TriggerPC} \subseteq PC

MStatus == [mie : BOOLEAN, mpie : BOOLEAN]
DCsr    == [step : BOOLEAN, stepie : BOOLEAN, ebreakm : BOOLEAN,
            cause : {"none", "ebreak", "trigger", "haltreq", "step"}]

MStatusOf(v)     == [mie |-> Bit(v, 0), mpie |-> Bit(v, 1)]
DCsrOf(v, cause) == [step |-> Bit(v, 0), stepie |-> Bit(v, 1), ebreakm |-> Bit(v, 2),
                     cause |-> cause]

ResetMStatus == MStatusOf(0)
ResetDCsr    == DCsrOf(0, "none")
=============================================================================
