----------------------------- MODULE MCDebugger -----------------------------
(* Small instances of Debugger for TLC. *)
EXTENDS Debugger, TLC

I(kind, next)    == [kind |-> kind, next |-> next]
Call(next, f)    == [kind |-> "call", next |-> next, target |-> f]

\* 0: call 3;  1: wild access;  2: call 4, then 0;  3: a FatFs function;
\* 4: return;  5: the handler;  6: RETI
MCProgram ==
  0 :> Call(1, 3) @@ 1 :> I("wild", 2) @@ 2 :> Call(0, 4)
    @@ 3 :> I("trap", 3) @@ 4 :> I("ret", 4) @@ 5 :> I("plain", 6) @@ 6 :> I("reti", 6)

Plain  == {[op |-> o] : o \in {"Pause", "Continue", "Step", "StepOver", "GetMemory"}}
Delete == [op |-> "DeleteTrigger", address |-> 0]

At0(once, actions) == [address |-> 0, once |-> once, actions |-> actions]
Add(t) == [op |-> "AddTrigger", trigger |-> t]

\* Breakpoints, and triggers that go on, step, delete and set one.  Those that
\* set a trigger are to execute once, so that there are never more and more.
MCTrigger ==
  {PauseAt(0), PauseAt(1), PauseAt(4), At0(FALSE, <<[op |-> "Pause"]>>),
   At0(FALSE, <<Delete, [op |-> "Pause"]>>),
   At0(FALSE, <<[op |-> "Continue"]>>),
   [address |-> 4, once |-> FALSE, actions |-> <<[op |-> "Step"], Delete>>],
   At0(TRUE, <<[op |-> "StepOver"]>>),
   At0(TRUE, <<Add(PauseAt(1)), [op |-> "GetMemory"]>>)}

MCDebugCmd == Plain \union {Delete} \union {Add(t) : t \in MCTrigger}
=============================================================================
