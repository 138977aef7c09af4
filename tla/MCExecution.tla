----------------------------- MODULE MCExecution -----------------------------
EXTENDS Execution

(* Handlers return at once; the debugger resumes after one instruction.      *)
(* What is at address zero, where an mret leads that no trap came before, is   *)
(* no instruction.                                                              *)
Code(first, second) ==
  [p \in PC |->
     CASE p = <<"main", 0>> -> first
       [] p = <<"main", 1>> -> second
       [] p \in {<<"exc", 1>>, <<"irq", 1>>, <<"nmi", 1>>} -> {"mret"}
       [] p = <<"dbg", 1>> -> {"dret"}
       [] p = DbgExcVector -> {"ebreak"}
       [] p = Zero -> {"illegal"}
       [] OTHER -> {"alu"}]

Program(first, second) ==
  [code |-> Code(first, second), lines |-> {}, withdraw |-> FALSE,
   faults |-> FALSE, debugger |-> FALSE, trigger |-> Boot, tw |-> FALSE]

Debugged(first, second, commands) ==
  [Program(first, second) EXCEPT !.debugger = TRUE, !.trigger = <<"main", 1>>, !.code[DbgVector] = commands]

(* After reset the core is in M mode and an mret leaves it there; once a       *)
(* handler has returned, MPP is U and the next mret leads to U mode.            *)
Faults == [Program({"alu", "load"}, {"store", "jump"}) EXCEPT !.faults = TRUE]
UserMode == [Program({"ecall", "mret", "wfi"}, {"mret", "ecall", "illegal", "clear_mie"}) EXCEPT !.tw = TRUE, !.lines = {"software"}]
Slow == [Program({"mul", "vector"}, {"branch", "set_mie"}) EXCEPT !.lines = {"timer"}]
Interrupts == [Program({"set_mie"}, {"load"}) EXCEPT !.lines = {"external"}, !.faults = TRUE]
Priorities == [Program({"set_mie", "clear_mie"}, {"wfi"}) EXCEPT !.lines = {"fast", "timer"}]
Withdrawn == [Program({"set_mie"}, {"branch", "wfi"}) EXCEPT !.lines = {"timer"}, !.withdraw = TRUE]
Nmis == [Program({"set_mie"}, {"ecall", "wfi"}) EXCEPT !.lines = {"nm", "timer"}]
Stepping == Debugged({"branch", "wfi"}, {"ecall"}, {"set_step", "clear_step"})
Breakpoints == Debugged({"alu", "jump"}, {"load"}, {"illegal", "set_trigger"})
Ebreaks == Debugged({"ebreak"}, {"mret"}, {"ebreak", "set_ebreakm"})
DebugAndNmi == [Debugged({"alu"}, {"alu", "wfi"}, {"alu"}) EXCEPT !.lines = {"nm"}]

MCScenarios == {Faults, UserMode, Slow, Interrupts, Priorities, Withdrawn, Nmis,
                Stepping, Breakpoints, Ebreaks, DebugAndNmi}

(* The theorems about programs of this sort speak of these.                  *)
ASSUME MCScenariosAssumption == Scenarios = MCScenarios => NoMisgrouped /\ NmiHandlersDoNotTrap

(* A debugger that steps a program with interrupts enabled.                  *)
MCStepped == {[Debugged({"set_mie"}, {"alu"}, {"set_step"}) EXCEPT !.lines = {"timer"}]}

(* A vector instruction on a misaligned register group, and a handler that   *)
(* begins with a load.                                                         *)
MCMisgrouped == {[Program({"misgrouped"}, {"alu"}) EXCEPT !.code[ExcVector] = {"load"}]}
=============================================================================
