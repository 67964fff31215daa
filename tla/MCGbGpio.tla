------------------------------ MODULE MCGbGpio ------------------------------
(* Constants of GbGpio for TLC: one line (hwirq 0), events for it and for *)
(* an out-of-range hwirq, one supported and one unsupported irq type.     *)
EXTENDS GbGpio

MCEventLines == {0, 1}
MCIrqTypes == {"none", "level_high", "bad"}
MCUnsupported == {"bad"}
\* Consumer operations answered by the module, and those plus one that
\* times out after the module applied it.
MCAnswered == {"ok", "rejected"}
MCAll == {"ok", "rejected", "timeout_applied"}
MCOk == {"ok"}
\* A short, a long and a too long (> U16_MAX) debounce time.
MCDebounces == {0, 1000, 70000}
=============================================================================
