------------------------------ MODULE Debugger ------------------------------
(***************************************************************************)
(* DebuggerServer of src/debugger.rs inside the machine loop of            *)
(* src/agon_machine.rs: tick, then, unless paused, do_interrupts and       *)
(* execute_instruction.  The client is at the other end of two channels    *)
(* and sends commands at any moment.  tick handles the actions of the      *)
(* triggers at the PC and then the commands, one at a time.                *)
(*                                                                         *)
(* The machine and the server are one record, m.  The program is a table   *)
(* of instructions.  The actions of a trigger are commands themselves, so  *)
(* the commands and triggers a client may send are CONSTANTS; GetMemory    *)
(* stands for all commands that only answer.  A trap is an entry point of  *)
(* the FatFs code that execute_instruction serves from the host file       *)
(* system: it returns to the caller and executes the instruction there.    *)
(***************************************************************************)
EXTENDS Naturals, Sequences, FiniteSets

CONSTANTS
  Program,      \* instruction at each address
  Handler,      \* address of the interrupt handler
  Interrupts,   \* whether do_interrupts may find an interrupt or a reset
  DebugCmd,     \* commands of clients and triggers
  Trigger,      \* triggers of clients, triggers and StepOver
  MaxTriggers,  \* bound: triggers a client sets
  MaxCmds,      \* bound: commands waiting in the channel
  Bottom        \* what a return finds below the stack of the program

Address == DOMAIN Program
Kinds   == {"plain", "wild", "call", "ret", "reti", "trap"}
Ops     == {"Pause", "Continue", "Step", "StepOver", "AddTrigger", "DeleteTrigger", "GetMemory"}

\* What StepOver sets at a; the message and the state it sends are left out.
PauseAt(a) == [address |-> a, once |-> TRUE, actions |-> <<[op |-> "Pause"]>>]

ASSUME ProgramAssumption ==
  /\ {0, Handler, Bottom} \subseteq Address
  /\ \A a \in Address : Program[a].kind \in Kinds /\ Program[a].next \in Address
  /\ \A a \in Address : Program[a].kind = "call" =>
       Program[a].target \in Address /\ Program[a].next \notin {a, Handler}
  /\ Interrupts \in BOOLEAN
  /\ MaxTriggers \in Nat /\ MaxCmds \in Nat

ASSUME CmdAssumption ==
  /\ \A c \in DebugCmd : /\ c.op \in Ops
                         /\ c.op = "AddTrigger" => c.trigger \in Trigger
                         /\ c.op = "DeleteTrigger" => c.address \in Address
  /\ \A t \in Trigger : t.once \in BOOLEAN /\ t.address \in Address /\ t.actions \in Seq(DebugCmd)
  /\ \A a \in Address : Program[a].kind = "call" => PauseAt(Program[a].next) \in Trigger

State == [pc       : Address,
          stack    : Seq(Address),
          iff1     : BOOLEAN,
          last_pc  : Address,
          oob      : BOOLEAN,            \* mem_out_of_bounds is Some
          paused   : BOOLEAN,
          told     : BOOLEAN,            \* the last IsPaused sent, FALSE at first
          triggers : Seq(Trigger)]

VARIABLES
  m,        \* the machine and its server
  cmds,     \* commands the client has sent
  stage,    \* what the machine loop does next
  ticked,   \* pc as tick read it
  to_run,   \* of the triggers tick found there, the actions still to come
  stray,    \* history: the marker is of no instruction, but of the random fill
            \* or of an interrupt that found the stack outside memory
  stopped,  \* history: tick found a breakpoint, and nothing went on from it
  over      \* history: where the client's last StepOver of a call is to stop

vars == <<m, cmds, stage, ticked, to_run, stray, stopped, over>>

-----------------------------------------------------------------------------
\* The triggers of ts that are in T, in their order: filter and retain.  (The
\* provers do not know what SelectSeq is.)
Among(ts, T) ==
  LET kept[i \in 0 .. Len(ts)] ==
        IF i = 0 THEN <<>>
        ELSE IF ts[i] \in T THEN Append(kept[i - 1], ts[i]) ELSE kept[i - 1]
  IN  kept[Len(ts)]

At(a) == {t \in Trigger : t.address = a}

Pauses(t) == \E i \in 1 .. Len(t.actions) : t.actions[i].op = "Pause"

Found(s, t) == \E i \in 1 .. Len(s.triggers) : s.triggers[i] = t
-----------------------------------------------------------------------------
Top(s)  == IF s.stack = <<>> THEN Bottom ELSE Head(s.stack)
Rest(s) == IF s.stack = <<>> THEN <<>> ELSE Tail(s.stack)

\* cpu.execute_instruction at s.pc
Fetch(s) ==
  LET i == Program[s.pc]
  IN  CASE i.kind = "call" -> [s EXCEPT !.pc = i.target, !.stack = <<i.next>> \o @]
        [] i.kind = "ret"  -> [s EXCEPT !.pc = Top(s), !.stack = Rest(s)]
        [] i.kind = "reti" -> [s EXCEPT !.pc = Top(s), !.stack = Rest(s), !.iff1 = TRUE]
        [] i.kind = "wild" -> [s EXCEPT !.pc = i.next, !.oob = TRUE]
        [] OTHER           -> [s EXCEPT !.pc = i.next]

\* The trapped function is served, and has returned to its caller.
Served(s) == [s EXCEPT !.pc = Top(s), !.stack = Rest(s)]

execute_instruction(s) ==
  LET t == [s EXCEPT !.last_pc = s.pc]
  IN  Fetch(IF Program[s.pc].kind = "trap" THEN Served(t) ELSE t)

Tell(s, paused) == [s EXCEPT !.paused = paused, !.told = paused]

on_out_of_bounds(s) == IF s.oob THEN Tell(s, TRUE) ELSE s

\* Mutant: only triggers that are to execute once are run.
ClonedOnce(s) ==
  LET ts == IF s.paused THEN <<>> ELSE Among(s.triggers, {t \in At(s.pc) : t.once})
  IN  [i \in 1 .. Len(ts) |-> ts[i].actions]

\* The triggers at the PC are cloned, so that their actions may change the list.
Cloned(s) ==
  LET ts == IF s.paused THEN <<>> ELSE Among(s.triggers, At(s.pc))
  IN  [i \in 1 .. Len(ts) |-> ts[i].actions]

\* Triggers that are to execute once go even when a pause kept them from it.
drop_once(s, pc) ==
  [s EXCEPT !.triggers = Among(@, {t \in Trigger : ~ (t.address = pc /\ t.once)})]

step(s) == [execute_instruction(s) EXCEPT !.paused = TRUE]

\* One instruction at once, "to get over any breakpoint on the current PC".
continue(s) ==
  LET t == execute_instruction([s EXCEPT !.oob = FALSE, !.paused = FALSE])
  IN  IF t.oob THEN on_out_of_bounds(t) ELSE Tell(t, FALSE)

\* A call is run to a trigger on the instruction after it.
IsCall(s) == Program[s.pc].kind = "call"

\* Mutant: the client is not told that the machine runs.
StepOverSilent(s) ==
  IF IsCall(s)
  THEN [s EXCEPT !.triggers = Append(@, PauseAt(Program[s.pc].next)), !.paused = FALSE]
  ELSE step(s)

step_over(s) ==
  IF IsCall(s)
  THEN Tell([s EXCEPT !.triggers = Append(@, PauseAt(Program[s.pc].next))], FALSE)
  ELSE step(s)

\* What answering reads may lie outside memory.
Looked(s, outside) == [s EXCEPT !.oob = @ \/ outside]

handle_debug_cmd(s, c, outside) ==
  CASE c.op = "Pause"         -> Tell(s, TRUE)
    [] c.op = "Continue"      -> continue(s)
    [] c.op = "Step"          -> Looked(step(s), outside)
    [] c.op = "StepOver"      -> Looked(step_over(s), outside)
    [] c.op = "AddTrigger"    -> [s EXCEPT !.triggers = Append(@, c.trigger)]
    [] c.op = "DeleteTrigger" -> [s EXCEPT !.triggers = Among(@, Trigger \ At(c.address))]
    [] c.op = "GetMemory"     -> Looked(s, outside)
-----------------------------------------------------------------------------
\* With a debugger connected the machine starts paused, and says nothing.  The
\* random fill of the RAM leaves the marker set.
Init ==
  /\ m \in [pc : {0}, stack : {<<>>}, iff1 : {TRUE}, last_pc : {0}, oob : BOOLEAN,
            paused : {TRUE}, told : {FALSE}, triggers : {<<>>}]
  /\ cmds = <<>> /\ stage = "tick" /\ ticked = 0 /\ to_run = <<>>
  /\ stray = m.oob /\ stopped = FALSE /\ over = <<>>

\* tick up to its trigger check: out-of-bounds accesses, and what is to run.
Tick ==
  LET s == on_out_of_bounds(m)
  IN  /\ stage = "tick" /\ stage' = "triggers"
      /\ m' = s /\ ticked' = s.pc /\ to_run' = Cloned(s)
      /\ stopped' = IF s.paused THEN stopped ELSE \E t \in At(s.pc) : Found(s, t) /\ Pauses(t)
      /\ over' = IF s.paused THEN <<>> ELSE over
      /\ UNCHANGED <<cmds, stray>>

\* History of the two ways to go on.
GoesOn(c) == c.op \in {"Continue", "StepOver"}

\* The next action of the triggers found.
RunAction ==
  /\ stage = "triggers" /\ to_run # <<>> /\ Head(to_run) # <<>>
  /\ to_run' = <<Tail(Head(to_run))>> \o Tail(to_run)
  /\ LET c == Head(Head(to_run))
     IN  /\ \E outside \in BOOLEAN : m' = handle_debug_cmd(m, c, outside)
         /\ stopped' = (stopped /\ ~ GoesOn(c))
         /\ over' = IF c.op \in {"AddTrigger", "GetMemory"} THEN over ELSE <<>>
  /\ UNCHANGED <<cmds, stage, ticked, stray>>

EndTrigger ==
  /\ stage = "triggers" /\ to_run # <<>> /\ Head(to_run) = <<>>
  /\ to_run' = Tail(to_run)
  /\ UNCHANGED <<m, cmds, stage, ticked, stray, stopped, over>>

\* Mutant: the triggers to execute once go wherever they are.
DropEveryOnce ==
  /\ stage = "triggers" /\ to_run = <<>> /\ stage' = "commands"
  /\ m' = [m EXCEPT !.triggers = Among(@, {t \in Trigger : ~ t.once})]
  /\ UNCHANGED <<cmds, ticked, to_run, stray, stopped, over>>

DropOnce ==
  /\ stage = "triggers" /\ to_run = <<>> /\ stage' = "commands"
  /\ m' = drop_once(m, ticked)
  /\ UNCHANGED <<cmds, ticked, to_run, stray, stopped, over>>

\* try_recv gives a command.
Command ==
  /\ stage = "commands" /\ cmds # <<>>
  /\ cmds' = Tail(cmds)
  /\ LET c == Head(cmds)
     IN  /\ \E outside \in BOOLEAN : m' = handle_debug_cmd(m, c, outside)
         /\ stopped' = (stopped /\ ~ GoesOn(c))
         /\ over' = IF c.op = "StepOver" /\ IsCall(m)
                    THEN <<[pc |-> Program[m.pc].next, depth |-> Len(m.stack)]>>
                    ELSE IF c.op \in {"AddTrigger", "GetMemory"} THEN over ELSE <<>>
  /\ UNCHANGED <<stage, ticked, to_run, stray>>

\* Mutant: the out-of-bounds marker is not cleared.
EndTickMarked ==
  /\ stage = "commands" /\ cmds = <<>>
  /\ stray' = FALSE
  /\ stage' = IF m.paused THEN "tick" ELSE "interrupts"
  /\ UNCHANGED <<m, cmds, ticked, to_run, stopped, over>>

\* try_recv gives none.  While paused the loop goes straight to the next tick.
EndTick ==
  /\ stage = "commands" /\ cmds = <<>>
  /\ m' = [m EXCEPT !.oob = FALSE] /\ stray' = FALSE
  /\ stage' = IF m.paused THEN "tick" ELSE "interrupts"
  /\ UNCHANGED <<cmds, ticked, to_run, stopped, over>>

\* The PC is pushed wherever the program has its stack.
Interrupt ==
  /\ stage = "interrupts" /\ Interrupts /\ m.iff1
  /\ \E outside \in BOOLEAN :
       /\ m' = [m EXCEPT !.pc = Handler, !.stack = <<m.pc>> \o @, !.iff1 = FALSE, !.oob = outside]
       /\ stray' = outside
  /\ stage' = "execute"
  /\ UNCHANGED <<cmds, ticked, to_run, stopped, over>>

\* What runs at 0 sets up a stack before it uses one.
SoftReset ==
  /\ stage = "interrupts" /\ Interrupts
  /\ m' = [m EXCEPT !.pc = 0, !.stack = <<>>]
  /\ over' = <<>>
  /\ stage' = "execute"
  /\ UNCHANGED <<cmds, ticked, to_run, stray, stopped>>

NoInterrupt ==
  /\ stage = "interrupts"
  /\ stage' = "execute"
  /\ UNCHANGED <<m, cmds, ticked, to_run, stray, stopped, over>>

Execute ==
  /\ stage = "execute" /\ stage' = "tick"
  /\ m' = execute_instruction(m)
  /\ UNCHANGED <<cmds, ticked, to_run, stray, stopped, over>>

\* The client sends anything; the triggers it sets are bounded.
ClientSends(c) ==
  LET Sets(d) == d.op \in {"AddTrigger", "StepOver"}
  IN  /\ Len(cmds) < MaxCmds
      /\ Sets(c) => Len(SelectSeq(cmds, Sets)) + Len(m.triggers) < MaxTriggers
      /\ cmds' = Append(cmds, c)
      /\ UNCHANGED <<m, stage, ticked, to_run, stray, stopped, over>>

Next == \/ Tick \/ RunAction \/ EndTrigger \/ DropOnce \/ Command \/ EndTick
        \/ Interrupt \/ SoftReset \/ NoInterrupt \/ Execute
        \/ \E c \in DebugCmd : ClientSends(c)

Spec == Init /\ [][Next]_vars
-----------------------------------------------------------------------------
(***************************************************************************)
(* Properties                                                              *)
(***************************************************************************)

\* Every variable has its type.
TypeOK ==
  /\ m \in State
  /\ cmds \in Seq(DebugCmd)
  /\ stage \in {"tick", "triggers", "commands", "interrupts", "execute"}
  /\ ticked \in Address
  /\ to_run \in Seq(Seq(DebugCmd))
  /\ stray \in BOOLEAN /\ stopped \in BOOLEAN
  /\ over \in Seq([pc : Address, depth : Nat])

\* A client last told the machine is paused can rely on it: whatever commands
\* and actions of triggers are handled in one tick, none leaves the machine
\* running without saying so.
ToldPausedIsPaused == m.told => m.paused

\* A breakpoint (a trigger with Pause among its actions) stops the machine
\* before its instruction: once tick has found one at the PC of a machine that
\* runs, the loop takes no interrupt and executes nothing until a Continue or a
\* StepOver is handled, the client's or that of a trigger found with it; also
\* if an action deletes the trigger, or the PC is moved by a Step.
BreakpointsStop == [][Execute \/ Interrupt \/ SoftReset => ~ stopped]_vars

\* An out-of-bounds access is blamed on the instruction that made it: what the
\* debugger itself reads outside, in this tick or any other, is never reported
\* as the program's (the marker is cleared at the end of tick).  Two accesses
\* are not of an instruction and are blamed on one: those of the random fill at
\* start, once, by the first tick, on PC 0, and the push of an interrupt, on
\* the first instruction of the handler.  (After a trap its entry point is
\* blamed for the instruction it has returned to.)
BlameIsRight ==
  stage = "tick" /\ m.oob /\ ~ stray => Program[m.last_pc].kind \in {"wild", "trap"}

\* A step over a call that a client asks for stops on the instruction after it,
\* in the same frame, once the call has returned ("set a 'once' breakpoint on
\* the instruction after it"), though interrupts come on the way, unless a soft
\* reset, a command or a trigger intervenes.  (Not so for a trap: it executes
\* the instruction its caller goes on with at once, and no tick can stop that.)
StepOverStops ==
  [][Execute /\ over # <<>> => over[1] # [pc |-> m.pc, depth |-> Len(m.stack)]]_vars

\* The comment of tick: "called before each instruction is executed".
TickedBeforeExecuted == [][Execute => ticked = m.pc]_vars
=============================================================================
