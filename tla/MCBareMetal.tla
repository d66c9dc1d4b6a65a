----------------------------- MODULE MCBareMetal -----------------------------
(***************************************************************************)
(* The board with one of its bare-metal programs: those that measure the   *)
(* timer interrupt (IrqMonitor), those that print (UartHello), or any that *)
(* multiplies and divides (PicoPcpi).                                      *)
(***************************************************************************)
EXTENDS IrqMonitor, UartHello, PicoPcpi

VARIABLE flashed    \* what the board was loaded with

bvars == <<vars, uvars, pcpivars, flashed>>

\* the programs that were not loaded are not there
BareMetalInit ==
    /\ flashed \in {"measurement", "hello", "arithmetic"}
    /\ Init /\ UartInit /\ PcpiInit
    /\ flashed # "measurement" => program = CHOOSE p \in Programs : TRUE
    /\ flashed # "hello" => app.again = "delay"
    /\ flashed # "arithmetic" => enable_div

BareMetalNext ==
    \/ flashed = "measurement" /\ Next /\ UNCHANGED <<uvars, pcpivars, flashed>>
    \/ flashed = "hello" /\ UartNext /\ UNCHANGED <<vars, pcpivars, flashed>>
    \/ flashed = "arithmetic" /\ PcpiNext /\ UNCHANGED <<vars, uvars, flashed>>

BareMetalSpec == BareMetalInit /\ [][BareMetalNext]_bvars
-----------------------------------------------------------------------------
\* The instance: three samples and a period of eight clocks, three clocks to a bit.
MCWork == {1, 18}
MCText == <<LF, 85>>
=============================================================================
