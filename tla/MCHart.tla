------------------------------- MODULE MCHart -------------------------------
(* HartContext for TLC: an interrupt from the platform (MEI), one from software *)
(* (SSI) and two kinds of exceptions (illegal instruction, ECALL), each of     *)
(* them delegated or not, under a program that writes every CSR.               *)
EXTENDS HartContext
StatusChoices == {{}, {"SIE", "MIE", "SPP"}}

\* mcause and scause are written and never read, so states that differ in nothing
\* else need not be told apart.
HartView == <<priv, pc, statusVars, delegVars, swmip, lineVars, mtvec, mepc, stvec, sepc,
              mctx, sctx, burst>>
=============================================================================
