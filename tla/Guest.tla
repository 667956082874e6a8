------------------------------- MODULE Guest -------------------------------
(***************************************************************************)
(* How the code of a loaded program runs, as self_test of win32/mod.rs     *)
(* decides: after a test of the AArch64 decoder, on the processor, where   *)
(* the timer interrupts it (TimerHandler), or, if requires_translation     *)
(* says so, in the x86_64 interpreter.                                     *)
(***************************************************************************)
EXTENDS TimerHandler, X86Interpreter, Aarch64

VARIABLE runs           \* "boot", then "native", "x86" or "halted"

guest_vars == <<th_vars, x86_vars, decoded, runs>>

GuestInit ==
    /\ runs = "boot"
    /\ ThInit
    /\ X86Init
    /\ ArmInit

TestDecoder == runs = "boot" /\ DecodeOne /\ UNCHANGED <<th_vars, x86_vars, runs>>

(* requires_translation and host_machine: a guest of the host's own        *)
(* architecture is not translated.                                         *)
RequiresTranslation(guest, host) == guest # host

(* Any guest that needs translation goes to run_x86_64_loop, an AArch64    *)
(* one too; without need of it, only an x86_64 host enters the program.    *)
Start(guest, host) ==
    /\ runs = "boot"
    /\ runs' = CASE RequiresTranslation(guest, host) -> "x86"
                 [] guest = host /\ host = "x86_64" -> "native"
                 [] guest = host /\ host # "x86_64" -> "halted"
    /\ decoded' = None
    /\ UNCHANGED <<th_vars, x86_vars>>

Native == runs = "native" /\ ThNext /\ UNCHANGED <<x86_vars, decoded, runs>>
InterpretX86 == runs = "x86" /\ X86Next /\ UNCHANGED <<th_vars, decoded, runs>>

GuestNext ==
    \/ TestDecoder
    \/ \E guest, host \in {"x86_64", "aarch64"} : Start(guest, host)
    \/ Native
    \/ InterpretX86

GuestSpec == GuestInit /\ [][GuestNext]_guest_vars

=============================================================================
