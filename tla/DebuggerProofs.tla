--------------------------- MODULE DebuggerProofs ---------------------------
(***************************************************************************)
(* Proofs about Debugger, for every program, whatever triggers are set,    *)
(* whatever their actions are and however many commands are waiting: the   *)
(* client can rely on what it was told, breakpoints and steps over calls   *)
(* stop the machine, and an access of the debugger is not blamed on the    *)
(* program.                                                                *)
(***************************************************************************)
EXTENDS Debugger, TLAPS, SequenceTheorems, NaturalsInduction, WellFoundedInduction

LEMMA ProgramTyped ==
  /\ 0 \in Address /\ Handler \in Address /\ Bottom \in Address
  /\ \A a \in Address : Program[a].kind \in Kinds /\ Program[a].next \in Address
  /\ \A a \in Address : Program[a].kind = "call" =>
       /\ Program[a].target \in Address
       /\ Program[a].next # a /\ Program[a].next # Handler
BY ProgramAssumption

LEMMA CommandsTyped ==
  ASSUME NEW c \in DebugCmd
  PROVE  /\ c.op \in Ops
         /\ c.op = "AddTrigger" => c.trigger \in Trigger
BY CmdAssumption

LEMMA TriggersTyped ==
  ASSUME NEW t \in Trigger
  PROVE  t.actions \in Seq(DebugCmd)
BY CmdAssumption

\* A set of numbers that is not empty has a least element.
LEMMA Least ==
  ASSUME NEW S \in SUBSET Nat, S # {}
  PROVE  \E v \in S : \A w \in S : v <= w
<1> DEFINE R == OpToRel(<, Nat)
<1>1. PICK v \in S : \A w \in S : ~ (<<w, v>> \in R)
  <2> HIDE DEF R
  <2>1. IsWellFoundedOn(R, Nat)
    BY NatLessThanWellFounded DEF R
  <2> QED BY <2>1, WFMin
<1>2. \A w \in S : v <= w
  <2> SUFFICES ASSUME NEW w \in S PROVE ~ (w < v)
    OBVIOUS
  <2>1. v \in Nat /\ w \in Nat
    OBVIOUS
  <2>2. w < v => <<w, v>> \in R
    BY <2>1, Zenon DEF OpToRel
  <2> QED BY <1>1, <2>2
<1> QED BY <1>2
-----------------------------------------------------------------------------
\* Among is defined by recursion: f solves its equation up to the n-th trigger.
Keeps(f, ts, T, n) ==
  f = [i \in 0 .. n |-> IF i = 0 THEN <<>>
                        ELSE IF ts[i] \in T THEN Append(f[i - 1], ts[i]) ELSE f[i - 1]]

\* There is a solution, as there is no least n without one.
LEMMA Kept ==
  ASSUME NEW ts, NEW T, NEW n \in Nat
  PROVE  \E f : Keeps(f, ts, T, n)
<1> DEFINE Grown(x, i) == IF ts[i] \in T THEN Append(x, ts[i]) ELSE x
           U == {k \in Nat : ~ \E f : Keeps(f, ts, T, k)}
<1>0. ASSUME NEW f, NEW k
      PROVE  Keeps(f, ts, T, k) <=> f = [i \in 0 .. k |-> IF i = 0 THEN <<>> ELSE Grown(f[i - 1], i)]
  BY Zenon DEF Keeps
<1> HIDE DEF Grown
<1>1. U = {}
  <2> SUFFICES ASSUME U # {} PROVE FALSE
    OBVIOUS
  <2>1. PICK k \in U : \A l \in U : k <= l
    <3>1. U \in SUBSET Nat
      OBVIOUS
    <3> HIDE DEF U
    <3> QED BY <3>1, Least
  <2>2. k \in Nat /\ ~ \E f : Keeps(f, ts, T, k)
    OBVIOUS
  <2>3. CASE k = 0
    <3> DEFINE f == [i \in 0 .. k |-> <<>>]
               g == [i \in 0 .. k |-> IF i = 0 THEN <<>> ELSE Grown(f[i - 1], i)]
    <3>1. f = g
      <4>1. ASSUME NEW i \in 0 .. k PROVE i = 0
        BY <2>3
      <4> QED BY <4>1
    <3>2. Keeps(f, ts, T, k)
      BY <1>0, <3>1, Zenon
    <3> QED BY <2>2, <3>2
  <2>4. CASE k # 0
    <3>1. k - 1 \in Nat /\ ~ (k <= k - 1)
      BY <2>2, <2>4
    <3>2. PICK h : Keeps(h, ts, T, k - 1)
      BY <2>1, <3>1
    <3>x. h = [i \in 0 .. k - 1 |-> IF i = 0 THEN <<>> ELSE Grown(h[i - 1], i)]
      BY <3>2, Zenon DEF Keeps, Grown
    <3> DEFINE f == [i \in 0 .. k |-> IF i = 0 THEN <<>> ELSE Grown(h[i - 1], i)]
               g == [i \in 0 .. k |-> IF i = 0 THEN <<>> ELSE Grown(f[i - 1], i)]
    <3>3. ASSUME NEW i \in 0 .. k - 1 PROVE f[i] = h[i]
      <4>1. i \in 0 .. k
        BY <2>2
      <4>2. f[i] = IF i = 0 THEN <<>> ELSE Grown(h[i - 1], i)
        BY <4>1
      <4>3. h[i] = IF i = 0 THEN <<>> ELSE Grown(h[i - 1], i)
        BY <3>x
      <4> QED BY <4>2, <4>3
    <3>4. f = g
      <4>1. ASSUME NEW i \in 0 .. k, i # 0 PROVE f[i - 1] = h[i - 1]
        <5>1. i - 1 \in 0 .. k - 1
          BY <2>2, <4>1
        <5> QED BY <3>3, <5>1
      <4> HIDE DEF f
      <4>2. \A i \in 0 .. k :
              (IF i = 0 THEN <<>> ELSE Grown(h[i - 1], i)) = IF i = 0 THEN <<>> ELSE Grown(f[i - 1], i)
        BY <4>1, Zenon
      <4> QED BY <4>2, Zenon DEF f
    <3>5. Keeps(f, ts, T, k)
      <4> HIDE DEF f
      <4> QED BY <1>0, <3>4, Zenon
    <3> QED BY <2>2, <3>5
  <2> QED BY <2>3, <2>4
<1> QED BY <1>1

\* What it keeps are triggers, and it keeps all that are asked for.
LEMMA Picks ==
  ASSUME NEW ts \in Seq(Trigger), NEW T
  PROVE  /\ Among(ts, T) \in Seq(Trigger)
         /\ \A i \in 1 .. Len(ts) : ts[i] \in T =>
              \E j \in 1 .. Len(Among(ts, T)) : Among(ts, T)[j] = ts[i]
<1> DEFINE f == CHOOSE g : Keeps(g, ts, T, Len(ts))
           Good(k) == /\ f[k] \in Seq(Trigger)
                      /\ \A i \in 1 .. k : ts[i] \in T => \E j \in 1 .. Len(f[k]) : f[k][j] = ts[i]
           U == {k \in 0 .. Len(ts) : ~ Good(k)}
<1>1. Among(ts, T) = f[Len(ts)]
  BY Zenon DEF Among, Keeps
<1>2. Len(ts) \in Nat
  OBVIOUS
<1>3. Keeps(f, ts, T, Len(ts))
  BY <1>2, Kept, Zenon
<1> HIDE DEF f
<1>4. ASSUME NEW k \in 0 .. Len(ts)
      PROVE  f[k] = IF k = 0 THEN <<>> ELSE IF ts[k] \in T THEN Append(f[k - 1], ts[k]) ELSE f[k - 1]
  BY <1>3, Zenon DEF Keeps
<1>5. U = {}
  <2> SUFFICES ASSUME U # {} PROVE FALSE
    OBVIOUS
  <2>1. PICK k \in U : \A l \in U : k <= l
    <3>1. U \in SUBSET Nat
      BY <1>2
    <3> HIDE DEF U
    <3> QED BY <3>1, Least
  <2>2. k \in 0 .. Len(ts) /\ k \in Nat /\ ~ Good(k)
    BY <1>2
  <2>3. CASE k = 0
    <3>1. f[k] = <<>>
      BY <1>4, <2>2, <2>3
    <3>2. f[k] \in Seq(Trigger)
      BY <3>1
    <3> QED BY <2>2, <2>3, <3>2
  <2>4. CASE k # 0
    <3>1. k - 1 \in 0 .. Len(ts) /\ k \in 1 .. Len(ts) /\ ~ (k <= k - 1)
      BY <1>2, <2>2, <2>4
    <3>2. Good(k - 1)
      BY <2>1, <3>1
    <3>3. ts[k] \in Trigger
      BY <3>1, ElementOfSeq
    <3>4. f[k] = IF ts[k] \in T THEN Append(f[k - 1], ts[k]) ELSE f[k - 1]
      BY <1>4, <2>2, <2>4
    <3> DEFINE h == f[k - 1]
    <3>5. /\ h \in Seq(Trigger) /\ Len(h) \in Nat
          /\ \A i \in 1 .. k - 1 : ts[i] \in T => \E j \in 1 .. Len(h) : h[j] = ts[i]
      <4>1. h \in Seq(Trigger)
        BY <3>2
      <4>2. \A i \in 1 .. k - 1 : ts[i] \in T => \E j \in 1 .. Len(h) : h[j] = ts[i]
        BY <3>2, Zenon
      <4> HIDE DEF h
      <4> QED BY <4>1, <4>2
    <3>6. f[k] = IF ts[k] \in T THEN Append(h, ts[k]) ELSE h
      BY <3>4
    <3> HIDE DEF h
    <3>7. CASE ts[k] \in T
      <4>1. f[k] = Append(h, ts[k])
        BY <3>6, <3>7
      <4>2. /\ f[k] \in Seq(Trigger) /\ Len(f[k]) = Len(h) + 1
            /\ \A j \in 1 .. Len(h) : f[k][j] = h[j]
            /\ f[k][Len(h) + 1] = ts[k]
        BY <3>3, <3>5, <4>1, AppendProperties
      <4>3. ASSUME NEW i \in 1 .. k, ts[i] \in T
            PROVE  \E j \in 1 .. Len(f[k]) : f[k][j] = ts[i]
        <5>1. CASE i = k
          <6>1. Len(h) + 1 \in 1 .. Len(f[k])
            BY <3>5, <4>2
          <6> QED BY <4>2, <5>1, <6>1
        <5>2. CASE i # k
          <6>1. i \in 1 .. k - 1
            BY <2>2, <5>2
          <6>2. PICK j \in 1 .. Len(h) : h[j] = ts[i]
            BY <3>5, <4>3, <6>1
          <6>3. j \in 1 .. Len(f[k]) /\ f[k][j] = ts[i]
            BY <3>5, <4>2, <6>2
          <6> QED BY <6>3
        <5> QED BY <5>1, <5>2
      <4> QED BY <2>2, <4>2, <4>3
    <3>8. CASE ~ (ts[k] \in T)
      <4>1. f[k] = h
        BY <3>6, <3>8
      <4>2. ASSUME NEW i \in 1 .. k, ts[i] \in T PROVE i \in 1 .. k - 1
        BY <2>2, <3>8, <4>2
      <4>3. \A i \in 1 .. k : ts[i] \in T => \E j \in 1 .. Len(f[k]) : f[k][j] = ts[i]
        BY <3>5, <4>1, <4>2
      <4> QED BY <2>2, <3>5, <4>1, <4>3
    <3> QED BY <3>7, <3>8
  <2> QED BY <2>3, <2>4
<1>6. Good(Len(ts))
  BY <1>2, <1>5
<1> QED BY <1>1, <1>6
-----------------------------------------------------------------------------
LEMMA Popped ==
  ASSUME NEW s \in State
  PROVE  Top(s) \in Address /\ Rest(s) \in Seq(Address) /\ s.stack \in Seq(Address)
<1>1. s.stack \in Seq(Address)
  BY DEF State
<1>2. CASE s.stack = <<>>
  BY <1>1, <1>2, ProgramTyped DEF Top, Rest
<1>3. CASE s.stack # <<>>
  BY <1>1, <1>3, HeadTailProperties DEF Top, Rest
<1> QED BY <1>1, <1>2, <1>3

LEMMA Pushed ==
  ASSUME NEW s \in State, NEW a \in Address
  PROVE  <<a>> \o s.stack \in Seq(Address)
<1>1. s.stack \in Seq(Address) /\ <<a>> \in Seq(Address)
  BY DEF State
<1> QED BY <1>1, ConcatProperties

\* What a state has in common with one before an instruction.
SameServer(s, t) ==
  /\ t \in State /\ t.paused = s.paused /\ t.told = s.told /\ t.triggers = s.triggers

LEMMA Fetches ==
  ASSUME NEW s \in State
  PROVE  /\ SameServer(s, Fetch(s)) /\ Fetch(s).last_pc = s.last_pc
         /\ Fetch(s).oob => s.oob \/ Program[s.pc].kind = "wild"
<1> DEFINE i == Program[s.pc]
<1>1. s.pc \in Address
  BY DEF State
<1>2. i.next \in Address /\ i.kind \in Kinds
  BY <1>1, ProgramTyped
<1>3. CASE i.kind = "call"
  <2>1. Fetch(s) = [s EXCEPT !.pc = i.target, !.stack = <<i.next>> \o s.stack]
    BY <1>3 DEF Fetch
  <2>2. i.target \in Address /\ <<i.next>> \o s.stack \in Seq(Address)
    BY <1>1, <1>2, <1>3, ProgramTyped, Pushed
  <2> QED BY <2>1, <2>2 DEF State, SameServer
<1>4. CASE i.kind = "ret"
  <2>1. Fetch(s) = [s EXCEPT !.pc = Top(s), !.stack = Rest(s)]
    BY <1>4 DEF Fetch
  <2> QED BY <2>1, Popped DEF State, SameServer
<1>5. CASE i.kind = "reti"
  <2>1. Fetch(s) = [s EXCEPT !.pc = Top(s), !.stack = Rest(s), !.iff1 = TRUE]
    BY <1>5 DEF Fetch
  <2> QED BY <2>1, Popped DEF State, SameServer
<1>6. CASE i.kind = "wild"
  <2>1. Fetch(s) = [s EXCEPT !.pc = i.next, !.oob = TRUE]
    BY <1>6 DEF Fetch
  <2> QED BY <1>2, <1>6, <2>1 DEF State, SameServer
<1>7. CASE i.kind \in {"plain", "trap"}
  <2>1. Fetch(s) = [s EXCEPT !.pc = i.next]
    BY <1>7 DEF Fetch
  <2> QED BY <1>2, <2>1 DEF State, SameServer
<1> QED BY <1>2, <1>3, <1>4, <1>5, <1>6, <1>7 DEF Kinds

\* An instruction says nothing to the client, and marks an access out of bounds
\* only if it makes one: it, or the one a trap returns to.
LEMMA Executes ==
  ASSUME NEW s \in State
  PROVE  /\ SameServer(s, execute_instruction(s)) /\ execute_instruction(s).last_pc = s.pc
         /\ execute_instruction(s).oob => s.oob \/ Program[s.pc].kind \in {"wild", "trap"}
<1> DEFINE t == [s EXCEPT !.last_pc = s.pc]
           u == IF Program[s.pc].kind = "trap" THEN Served(t) ELSE t
<1>1. /\ t \in State /\ t.paused = s.paused /\ t.told = s.told /\ t.triggers = s.triggers
      /\ t.oob = s.oob /\ t.pc = s.pc /\ t.last_pc = s.pc
  BY DEF State
<1>2. Top(t) \in Address /\ Rest(t) \in Seq(Address)
  BY <1>1, Popped
<1>3. execute_instruction(s) = Fetch(u)
  BY DEF execute_instruction
<1> HIDE DEF t
<1>4. /\ u \in State /\ u.paused = s.paused /\ u.told = s.told /\ u.triggers = s.triggers
      /\ u.oob = s.oob /\ u.last_pc = s.pc
      /\ Program[s.pc].kind = "trap" \/ u.pc = s.pc
  BY <1>1, <1>2 DEF State, Served
<1> HIDE DEF u
<1> QED BY <1>3, <1>4, Fetches DEF SameServer

LEMMA Tells ==
  ASSUME NEW s \in State, NEW b \in BOOLEAN
  PROVE  /\ Tell(s, b) \in State /\ Tell(s, b).paused = b /\ Tell(s, b).told = b
         /\ Tell(s, b).triggers = s.triggers /\ Tell(s, b).pc = s.pc
         /\ Tell(s, b).oob = s.oob /\ Tell(s, b).last_pc = s.last_pc
BY DEF Tell, State

Honest(s) == s.told => s.paused

LEMMA Reports ==
  ASSUME NEW s \in State, Honest(s)
  PROVE  LET t == on_out_of_bounds(s)
         IN  /\ t \in State /\ Honest(t) /\ t.pc = s.pc /\ t.triggers = s.triggers
             /\ s.paused => t.paused
BY Tells, Zenon DEF on_out_of_bounds, Honest

\* A Pause is among the actions still to come.
ToPause(todo) == \E i \in 1 .. Len(todo) : \E j \in 1 .. Len(todo[i]) : todo[i][j].op = "Pause"

\* While the machine runs, every trigger at the PC is cloned.
LEMMA Clones ==
  ASSUME NEW s \in State
  PROVE  /\ Cloned(s) \in Seq(Seq(DebugCmd))
         /\ \A t \in At(s.pc) : ~ s.paused /\ Found(s, t) /\ Pauses(t) => ToPause(Cloned(s))
<1> DEFINE ts == IF s.paused THEN <<>> ELSE Among(s.triggers, At(s.pc))
           as == [i \in 1 .. Len(ts) |-> ts[i].actions]
<1>1. s.triggers \in Seq(Trigger)
  BY DEF State
<1>2. ts \in Seq(Trigger)
  <2>1. Among(s.triggers, At(s.pc)) \in Seq(Trigger) /\ <<>> \in Seq(Trigger)
    BY <1>1, Picks
  <2> QED BY <2>1, Zenon
<1>3. ASSUME NEW t \in At(s.pc), ~ s.paused, Found(s, t)
      PROVE  \E j \in 1 .. Len(ts) : ts[j] = t
  <2>1. PICK i \in 1 .. Len(s.triggers) : s.triggers[i] = t
    BY <1>3 DEF Found
  <2>2. \E j \in 1 .. Len(Among(s.triggers, At(s.pc))) : Among(s.triggers, At(s.pc))[j] = s.triggers[i]
    BY <1>1, <1>3, <2>1, Picks, Zenon
  <2>3. ts = Among(s.triggers, At(s.pc))
    BY <1>3, Zenon
  <2> QED BY <2>1, <2>2, <2>3, Zenon
<1>4. Cloned(s) = as
  BY Zenon DEF Cloned
<1> HIDE DEF ts
<1>5. ASSUME NEW i \in 1 .. Len(ts) PROVE ts[i].actions \in Seq(DebugCmd)
  BY <1>2, ElementOfSeq, TriggersTyped
<1>6. as \in Seq(Seq(DebugCmd)) /\ Len(as) = Len(ts)
  <2>1. Len(ts) \in Nat
    BY <1>2
  <2> QED BY <1>5, <2>1
<1>7. ASSUME NEW t \in At(s.pc), ~ s.paused, Found(s, t), Pauses(t)
      PROVE  ToPause(as)
  <2>1. PICK j \in 1 .. Len(ts) : ts[j] = t
    BY <1>3, <1>7
  <2>2. PICK k \in 1 .. Len(t.actions) : t.actions[k].op = "Pause"
    BY <1>7 DEF Pauses
  <2>3. as[j] = t.actions
    BY <2>1
  <2>4. j \in 1 .. Len(as)
    BY <1>6
  <2> HIDE DEF as
  <2> QED BY <2>2, <2>3, <2>4 DEF ToPause
<1> QED BY <1>4, <1>6, <1>7

LEMMA Deletes ==
  ASSUME NEW s \in State, NEW T
  PROVE  LET t == [s EXCEPT !.triggers = Among(@, T)]
         IN  /\ t \in State /\ t.paused = s.paused /\ t.told = s.told /\ t.pc = s.pc /\ t.oob = s.oob
             /\ t.last_pc = s.last_pc
             /\ \A g \in Trigger : Found(s, g) /\ g \in T => Found(t, g)
<1> DEFINE ts == Among(s.triggers, T)
<1>1. s.triggers \in Seq(Trigger)
  BY DEF State
<1>2. ts \in Seq(Trigger)
  BY <1>1, Picks
<1>3. \A g \in Trigger : Found(s, g) /\ g \in T => \E j \in 1 .. Len(ts) : ts[j] = g
  <2> TAKE g \in Trigger
  <2> HAVE Found(s, g) /\ g \in T
  <2>1. PICK i \in 1 .. Len(s.triggers) : s.triggers[i] = g
    BY DEF Found
  <2> QED BY <1>1, <2>1, Picks, Zenon
<1> HIDE DEF ts
<1> DEFINE t == [s EXCEPT !.triggers = ts]
<1>4. /\ t \in State /\ t.paused = s.paused /\ t.told = s.told /\ t.pc = s.pc /\ t.oob = s.oob
      /\ t.last_pc = s.last_pc /\ t.triggers = ts
  BY <1>2 DEF State
<1>5. t = [s EXCEPT !.triggers = Among(@, T)]
  BY DEF ts
<1> HIDE DEF t
<1> QED BY <1>3, <1>4, <1>5 DEF Found

LEMMA Adds ==
  ASSUME NEW s \in State, NEW g \in Trigger
  PROVE  LET t == [s EXCEPT !.triggers = Append(@, g)]
         IN  /\ t \in State /\ t.paused = s.paused /\ t.told = s.told /\ t.pc = s.pc /\ t.oob = s.oob
             /\ Found(t, g)
             /\ \A h \in Trigger : Found(s, h) => Found(t, h)
<1> DEFINE ts == Append(s.triggers, g)
           t  == [s EXCEPT !.triggers = ts]
<1>1. s.triggers \in Seq(Trigger) /\ Len(s.triggers) \in Nat
  BY DEF State
<1>2. /\ ts \in Seq(Trigger) /\ Len(ts) = Len(s.triggers) + 1 /\ ts[Len(s.triggers) + 1] = g
      /\ \A i \in 1 .. Len(s.triggers) : ts[i] = s.triggers[i]
  BY <1>1, AppendProperties
<1> HIDE DEF ts
<1>3. /\ t \in State /\ t.paused = s.paused /\ t.told = s.told /\ t.pc = s.pc /\ t.oob = s.oob
      /\ t.triggers = ts
  BY <1>2 DEF State
<1> HIDE DEF t
<1>4. Found(t, g)
  <2>1. Len(s.triggers) + 1 \in 1 .. Len(ts)
    BY <1>1, <1>2
  <2> QED BY <1>2, <1>3, <2>1 DEF Found
<1>5. ASSUME NEW h \in Trigger, Found(s, h) PROVE Found(t, h)
  <2>1. PICK i \in 1 .. Len(s.triggers) : s.triggers[i] = h
    BY <1>5 DEF Found
  <2>2. i \in 1 .. Len(ts) /\ ts[i] = h
    BY <1>1, <1>2, <2>1
  <2> QED BY <1>3, <2>2 DEF Found
<1> QED BY <1>3, <1>4, <1>5 DEF t, ts
-----------------------------------------------------------------------------
LEMMA Steps ==
  ASSUME NEW s \in State, Honest(s)
  PROVE  step(s) \in State /\ Honest(step(s)) /\ step(s).paused
<1> DEFINE t == execute_instruction(s)
<1>1. SameServer(s, t)
  BY Executes
<1> HIDE DEF t
<1>2. step(s) = [t EXCEPT !.paused = TRUE]
  BY DEF step, t
<1> QED BY <1>1, <1>2 DEF State, SameServer, Honest

LEMMA Continues ==
  ASSUME NEW s \in State
  PROVE  continue(s) \in State /\ Honest(continue(s))
<1> DEFINE r == [s EXCEPT !.oob = FALSE, !.paused = FALSE]
           t == execute_instruction(r)
<1>1. r \in State
  BY DEF State
<1>2. t \in State
  BY <1>1, Executes DEF SameServer
<1>3. continue(s) = IF t.oob THEN on_out_of_bounds(t) ELSE Tell(t, FALSE)
  BY DEF continue
<1> HIDE DEF t
<1>4. continue(s) \in {Tell(t, TRUE), Tell(t, FALSE)}
  <2>1. CASE t.oob
    BY <1>3, <2>1 DEF on_out_of_bounds
  <2>2. CASE ~ t.oob
    BY <1>3, <2>2
  <2> QED BY <2>1, <2>2
<1>5. \A b \in BOOLEAN : Tell(t, b) \in State /\ Honest(Tell(t, b))
  BY <1>2, Tells, Zenon DEF Honest
<1> QED BY <1>4, <1>5

\* A step over a call arms the instruction after it and lets the machine run.
After(s) == PauseAt(Program[s.pc].next)

LEMMA StepsOver ==
  ASSUME NEW s \in State, IsCall(s)
  PROVE  LET t == step_over(s)
         IN  /\ t \in State /\ ~ t.paused /\ ~ t.told /\ t.pc = s.pc
             /\ After(s) \in Trigger /\ Found(t, After(s))
<1> SUFFICES ASSUME NEW t, t = step_over(s)
             PROVE  /\ t \in State /\ ~ t.paused /\ ~ t.told /\ t.pc = s.pc
                    /\ After(s) \in Trigger /\ Found(t, After(s))
  OBVIOUS
<1> DEFINE r == [s EXCEPT !.triggers = Append(@, After(s))]
<1>1. After(s) \in Trigger
  <2>1. s.pc \in Address
    BY DEF State
  <2> QED BY <2>1, CmdAssumption DEF After, IsCall
<1>2. /\ r \in State /\ r.pc = s.pc /\ Found(r, After(s))
  BY <1>1, Adds
<1>3. t = Tell(r, FALSE)
  BY DEF step_over, After
<1> HIDE DEF r
<1>4. /\ t \in State /\ ~ t.paused /\ ~ t.told /\ t.pc = s.pc
      /\ t.triggers = r.triggers
  BY <1>2, <1>3, Tells
<1>5. Found(t, After(s))
  BY <1>2, <1>4, Zenon DEF Found
<1> QED BY <1>1, <1>4, <1>5

LEMMA Looks ==
  ASSUME NEW s \in State, NEW b \in BOOLEAN
  PROVE  LET t == Looked(s, b)
         IN  /\ t \in State /\ t.paused = s.paused /\ t.told = s.told /\ t.pc = s.pc
             /\ t.triggers = s.triggers
<1>1. (s.oob \/ b) \in BOOLEAN
  OBVIOUS
<1> QED BY <1>1 DEF State, Looked

\* Whatever is handled leaves the client with the right idea; only Continue and
\* StepOver let a paused machine run.
LEMMA Handles ==
  ASSUME NEW s \in State, Honest(s), NEW c \in DebugCmd, NEW b \in BOOLEAN
  PROVE  LET t == handle_debug_cmd(s, c, b)
         IN  /\ t \in State /\ Honest(t)
             /\ ~ GoesOn(c) => (s.paused => t.paused)
             /\ c.op = "Pause" => t.paused
             /\ c.op \in {"AddTrigger", "GetMemory"} =>
                  /\ t.paused = s.paused /\ t.pc = s.pc
                  /\ \A g \in Trigger : Found(s, g) => Found(t, g)
<1> SUFFICES ASSUME NEW t, t = handle_debug_cmd(s, c, b)
             PROVE  /\ t \in State /\ Honest(t)
                    /\ ~ GoesOn(c) => (s.paused => t.paused)
                    /\ c.op = "Pause" => t.paused
                    /\ c.op \in {"AddTrigger", "GetMemory"} =>
                         /\ t.paused = s.paused /\ t.pc = s.pc
                         /\ \A g \in Trigger : Found(s, g) => Found(t, g)
  OBVIOUS
<1>1. CASE c.op = "Pause"
  <2>1. t = Tell(s, TRUE)
    BY <1>1 DEF handle_debug_cmd
  <2> QED BY <1>1, <2>1, Tells DEF Honest
<1>2. CASE c.op = "Continue"
  <2>1. t = continue(s)
    BY <1>2 DEF handle_debug_cmd
  <2> QED BY <1>2, <2>1, Continues DEF GoesOn
<1>3. CASE c.op = "Step"
  <2>1. t = Looked(step(s), b)
    BY <1>3 DEF handle_debug_cmd
  <2>2. t \in State /\ t.paused /\ t.told = step(s).told
    BY <2>1, Steps, Looks
  <2> QED BY <1>3, <2>2 DEF Honest
<1>4. CASE c.op = "StepOver"
  <2>1. t = Looked(step_over(s), b)
    BY <1>4 DEF handle_debug_cmd
  <2>2. step_over(s) \in State /\ Honest(step_over(s))
    <3>1. CASE IsCall(s)
      BY <3>1, StepsOver DEF Honest
    <3>2. CASE ~ IsCall(s)
      BY <3>2, Steps DEF step_over
    <3> QED BY <3>1, <3>2
  <2>3. t \in State /\ t.told = step_over(s).told /\ t.paused = step_over(s).paused
    BY <2>1, <2>2, Looks
  <2> QED BY <1>4, <2>2, <2>3 DEF Honest, GoesOn
<1>5. CASE c.op = "AddTrigger"
  <2>1. t = [s EXCEPT !.triggers = Append(@, c.trigger)]
    BY <1>5 DEF handle_debug_cmd
  <2>2. c.trigger \in Trigger
    BY <1>5, CommandsTyped
  <2> DEFINE g == c.trigger
             u == [s EXCEPT !.triggers = Append(@, g)]
  <2>3. t = u
    BY <2>1
  <2>4. g \in Trigger
    BY <2>2
  <2> HIDE DEF g
  <2>5. /\ u \in State /\ u.paused = s.paused /\ u.told = s.told /\ u.pc = s.pc
        /\ \A h \in Trigger : Found(s, h) => Found(u, h)
    BY <2>4, Adds
  <2> HIDE DEF u
  <2> QED BY <1>5, <2>3, <2>5 DEF Honest
<1>6. CASE c.op = "DeleteTrigger"
  <2>1. t = [s EXCEPT !.triggers = Among(@, Trigger \ At(c.address))]
    BY <1>6 DEF handle_debug_cmd
  <2> QED BY <1>6, <2>1, Deletes DEF Honest
<1>7. CASE c.op = "GetMemory"
  <2>1. t = Looked(s, b)
    BY <1>7 DEF handle_debug_cmd
  <2> QED BY <1>7, <2>1, Looks DEF Honest, Found
<1> QED BY CommandsTyped, <1>1, <1>2, <1>3, <1>4, <1>5, <1>6, <1>7 DEF Ops
-----------------------------------------------------------------------------
(***************************************************************************)
(* The invariant.                                                          *)
(***************************************************************************)
\* The marker survives a tick only as a mark of what comes after it.
MarkerInv ==
  /\ BlameIsRight
  /\ stage = "interrupts" => ~ m.oob /\ ~ m.paused
  /\ stage = "execute" => ~ m.paused /\ (m.oob => stray)

\* A breakpoint that was found has paused the machine, or is about to.
StoppedInv == stopped => m.paused \/ (stage = "triggers" /\ ToPause(to_run))

\* A step over a call is under way as long as its trigger is armed; the tick
\* keeps the machine off the instruction it waits for.
OverInv ==
  over # <<>> =>
    /\ ~ m.paused
    /\ over[1].pc # Handler
    /\ PauseAt(over[1].pc) \in Trigger /\ Found(m, PauseAt(over[1].pc))
    /\ stage = "triggers" => m.pc = ticked /\ (m.pc = over[1].pc => ToPause(to_run))
    /\ stage \notin {"tick", "triggers"} => m.pc # over[1].pc

IInv == TypeOK /\ ToldPausedIsPaused /\ MarkerInv /\ StoppedInv /\ OverInv

LEMMA InitIInv == Init => IInv
<1> SUFFICES ASSUME Init PROVE IInv
  OBVIOUS
<1>1. m \in State /\ ~ m.told /\ m.paused /\ m.last_pc = 0
  <2>1. <<>> \in Seq(Address) /\ <<>> \in Seq(Trigger)
    OBVIOUS
  <2> QED BY <2>1, ProgramTyped DEF Init, State
<1>2. cmds \in Seq(DebugCmd) /\ over \in Seq([pc : Address, depth : Nat]) /\ to_run \in Seq(Seq(DebugCmd))
  BY DEF Init
<1>3. stray = m.oob /\ m.oob \in BOOLEAN
  BY <1>1 DEF Init, State
<1> QED BY <1>1, <1>2, <1>3, ProgramTyped
        DEF Init, IInv, TypeOK, ToldPausedIsPaused, MarkerInv, BlameIsRight, StoppedInv, OverInv

LEMMA TickIInv == ASSUME IInv, Tick PROVE IInv'
<1> DEFINE s == on_out_of_bounds(m)
<1>1. m \in State /\ Honest(m)
  BY DEF IInv, TypeOK, ToldPausedIsPaused, Honest
<1>2. /\ s \in State /\ Honest(s) /\ s.pc = m.pc /\ s.triggers = m.triggers /\ (m.paused => s.paused)
  BY <1>1, Reports
<1>3. /\ stage = "tick" /\ stage' = "triggers" /\ m' = s /\ ticked' = s.pc /\ to_run' = Cloned(s)
      /\ stopped' = IF s.paused THEN stopped ELSE \E t \in At(s.pc) : Found(s, t) /\ Pauses(t)
      /\ over' = IF s.paused THEN <<>> ELSE over
      /\ cmds' = cmds /\ stray' = stray
  BY DEF Tick
<1> HIDE DEF s
<1>4. /\ Cloned(s) \in Seq(Seq(DebugCmd))
      /\ \A t \in At(s.pc) : ~ s.paused /\ Found(s, t) /\ Pauses(t) => ToPause(Cloned(s))
  BY <1>2, Clones
<1>5. TypeOK'
  <2>1. s.pc \in Address
    BY <1>2 DEF State
  <2>2. over' \in Seq([pc : Address, depth : Nat])
    <3>1. over \in Seq([pc : Address, depth : Nat]) /\ <<>> \in Seq([pc : Address, depth : Nat])
      BY DEF IInv, TypeOK
    <3> QED BY <1>3, <3>1, Zenon
  <2>3. stopped' \in BOOLEAN
    BY <1>3 DEF IInv, TypeOK
  <2> QED BY <1>2, <1>3, <1>4, <2>1, <2>2, <2>3 DEF IInv, TypeOK
<1>6. ToldPausedIsPaused' /\ MarkerInv'
  BY <1>2, <1>3 DEF ToldPausedIsPaused, Honest, MarkerInv, BlameIsRight
<1>7. StoppedInv'
  <2> SUFFICES ASSUME stopped', ~ s.paused PROVE ToPause(to_run')
    BY <1>3 DEF StoppedInv
  <2>1. PICK t \in At(s.pc) : Found(s, t) /\ Pauses(t)
    BY <1>3
  <2> QED BY <1>3, <1>4, <2>1
<1>8. OverInv'
  <2> SUFFICES ASSUME over' # <<>> PROVE OverInv'
    BY DEF OverInv
  <2>1. over' = over /\ ~ s.paused
    BY <1>3
  <2> DEFINE g == PauseAt(over[1].pc)
  <2>2. over[1].pc # Handler /\ g \in Trigger /\ Found(m, g)
    BY <2>1 DEF IInv, OverInv
  <2>3. Found(s, g)
    BY <1>2, <2>2 DEF Found
  <2>4. Pauses(g) /\ g.address = over[1].pc
    <3>1. g.address = over[1].pc /\ Len(g.actions) = 1 /\ g.actions[1].op = "Pause"
      BY DEF PauseAt
    <3> HIDE DEF g
    <3> QED BY <3>1 DEF Pauses
  <2> HIDE DEF g
  <2>5. s.pc = over[1].pc => ToPause(Cloned(s))
    BY <1>4, <2>1, <2>2, <2>3, <2>4 DEF At
  <2> QED BY <1>3, <2>1, <2>2, <2>3, <2>5 DEF OverInv, g
<1> QED BY <1>5, <1>6, <1>7, <1>8 DEF IInv

\* The actions still to come once the first is taken.
LEMMA Taken ==
  ASSUME NEW todo \in Seq(Seq(DebugCmd)), todo # <<>>, Head(todo) # <<>>
  PROVE  LET left == <<Tail(Head(todo))>> \o Tail(todo)
             c    == Head(Head(todo))
         IN  /\ c \in DebugCmd /\ left \in Seq(Seq(DebugCmd))
             /\ ToPause(todo) => c.op = "Pause" \/ ToPause(left)
<1> DEFINE h == Head(todo)
           r == Tail(todo)
           left == <<Tail(h)>> \o r
<1>1. h \in Seq(DebugCmd) /\ r \in Seq(Seq(DebugCmd)) /\ Len(r) = Len(todo) - 1 /\ h = todo[1]
      /\ Len(todo) \in Nat /\ \A i \in 1 .. Len(r) : r[i] = todo[i + 1]
  BY HeadTailProperties
<1> HIDE DEF h, r
<1>2. Head(h) \in DebugCmd /\ Tail(h) \in Seq(DebugCmd) /\ Len(Tail(h)) = Len(h) - 1 /\ Head(h) = h[1]
      /\ Len(h) \in Nat /\ \A j \in 1 .. Len(Tail(h)) : Tail(h)[j] = h[j + 1]
  <2>1. h # <<>>
    BY DEF h
  <2> QED BY <1>1, <2>1, HeadTailProperties
<1>3. <<Tail(h)>> \in Seq(Seq(DebugCmd)) /\ Len(<<Tail(h)>>) = 1
  BY <1>2
<1>4. /\ left \in Seq(Seq(DebugCmd)) /\ Len(left) = Len(r) + 1 /\ left[1] = Tail(h)
      /\ \A i \in 1 .. Len(r) : left[i + 1] = r[i]
  BY <1>1, <1>3, ConcatProperties
<1> HIDE DEF left
<1>5. ASSUME ToPause(todo), Head(h).op # "Pause" PROVE ToPause(left)
  <2>1. PICK i \in 1 .. Len(todo) : \E j \in 1 .. Len(todo[i]) : todo[i][j].op = "Pause"
    BY <1>5 DEF ToPause
  <2>2. PICK j \in 1 .. Len(todo[i]) : todo[i][j].op = "Pause"
    BY <2>1
  <2>3. CASE i = 1
    <3>1. j # 1 /\ j \in 1 .. Len(h) /\ h[j].op = "Pause"
      BY <1>1, <1>2, <1>5, <2>2, <2>3
    <3>2. j - 1 \in 1 .. Len(Tail(h)) /\ j - 1 + 1 = j
      BY <1>2, <3>1
    <3>3. Tail(h)[j - 1].op = "Pause"
      BY <1>2, <3>1, <3>2
    <3>4. 1 \in 1 .. Len(left)
      BY <1>1, <1>4
    <3> QED BY <1>4, <3>2, <3>3, <3>4, Zenon DEF ToPause
  <2>4. CASE i # 1
    <3>1. i - 1 \in 1 .. Len(r) /\ i - 1 + 1 = i
      BY <1>1, <2>4
    <3>2. left[i - 1 + 1] = r[i - 1] /\ r[i - 1] = todo[i - 1 + 1]
      BY <1>1, <1>4, <3>1
    <3>3. i \in 1 .. Len(left)
      BY <1>1, <1>4
    <3>4. left[i] = todo[i]
      BY <3>1, <3>2
    <3> QED BY <2>2, <3>3, <3>4, Zenon DEF ToPause
  <2> QED BY <2>3, <2>4
<1> QED BY <1>2, <1>4, <1>5 DEF h, r, left

LEMMA RunActionIInv == ASSUME IInv, RunAction PROVE IInv'
<1> DEFINE c == Head(Head(to_run))
<1>1. /\ m \in State /\ Honest(m) /\ to_run \in Seq(Seq(DebugCmd)) /\ stopped \in BOOLEAN
      /\ over \in Seq([pc : Address, depth : Nat])
  BY DEF IInv, TypeOK, ToldPausedIsPaused, Honest
<1>2. /\ c \in DebugCmd /\ to_run' \in Seq(Seq(DebugCmd))
      /\ ToPause(to_run) => c.op = "Pause" \/ ToPause(to_run')
  BY <1>1, Taken DEF RunAction
<1>3. PICK b \in BOOLEAN : m' = handle_debug_cmd(m, c, b)
  BY DEF RunAction
<1>4. /\ stage = "triggers" /\ stage' = "triggers"
      /\ stopped' = (stopped /\ ~ GoesOn(c))
      /\ over' = IF c.op \in {"AddTrigger", "GetMemory"} THEN over ELSE <<>>
      /\ cmds' = cmds /\ ticked' = ticked /\ stray' = stray
  BY DEF RunAction
<1> HIDE DEF c
<1>5. /\ m' \in State /\ Honest(m')
      /\ ~ GoesOn(c) => (m.paused => m'.paused)
      /\ c.op = "Pause" => m'.paused
      /\ c.op \in {"AddTrigger", "GetMemory"} =>
           /\ m'.paused = m.paused /\ m'.pc = m.pc
           /\ \A g \in Trigger : Found(m, g) => Found(m', g)
  BY <1>1, <1>2, <1>3, Handles
<1>6. TypeOK'
  <2>1. over' \in Seq([pc : Address, depth : Nat])
    <3>1. <<>> \in Seq([pc : Address, depth : Nat])
      OBVIOUS
    <3> QED BY <1>1, <1>4, <3>1, Zenon
  <2>2. stopped' \in BOOLEAN
    BY <1>4
  <2> QED BY <1>2, <1>4, <1>5, <2>1, <2>2 DEF IInv, TypeOK
<1>7. ToldPausedIsPaused' /\ MarkerInv'
  BY <1>4, <1>5 DEF ToldPausedIsPaused, Honest, MarkerInv, BlameIsRight
<1>8. StoppedInv'
  BY <1>2, <1>4, <1>5 DEF IInv, StoppedInv
<1>9. OverInv'
  <2> SUFFICES ASSUME over' # <<>> PROVE OverInv'
    BY DEF OverInv
  <2>1. c.op \in {"AddTrigger", "GetMemory"} /\ over' = over
    BY <1>4, Zenon
  <2> QED BY <1>2, <1>4, <1>5, <2>1 DEF IInv, OverInv
<1> QED BY <1>6, <1>7, <1>8, <1>9 DEF IInv

LEMMA EndTriggerIInv == ASSUME IInv, EndTrigger PROVE IInv'
<1>1. to_run \in Seq(Seq(DebugCmd)) /\ to_run # <<>> /\ Head(to_run) = <<>>
  BY DEF IInv, TypeOK, EndTrigger
<1>2. to_run' = Tail(to_run) /\ UNCHANGED <<m, cmds, stage, ticked, stray, stopped, over>>
  BY DEF EndTrigger
<1>3. /\ to_run' \in Seq(Seq(DebugCmd)) /\ Len(to_run') = Len(to_run) - 1 /\ Len(to_run) \in Nat
      /\ to_run[1] = <<>> /\ \A i \in 1 .. Len(to_run') : to_run'[i] = to_run[i + 1]
  BY <1>1, <1>2, HeadTailProperties
<1>4. ToPause(to_run) => ToPause(to_run')
  <2> SUFFICES ASSUME ToPause(to_run) PROVE ToPause(to_run')
    OBVIOUS
  <2>1. PICK i \in 1 .. Len(to_run) : \E j \in 1 .. Len(to_run[i]) : to_run[i][j].op = "Pause"
    BY DEF ToPause
  <2>2. i # 1
    BY <1>3, <2>1
  <2>3. i - 1 \in 1 .. Len(to_run') /\ i - 1 + 1 = i
    BY <1>3, <2>2
  <2>4. to_run'[i - 1] = to_run[i]
    BY <1>3, <2>3
  <2> QED BY <2>1, <2>3, <2>4, Zenon DEF ToPause
<1> QED BY <1>2, <1>3, <1>4
        DEF IInv, TypeOK, ToldPausedIsPaused, MarkerInv, BlameIsRight, StoppedInv, OverInv

LEMMA DropOnceIInv == ASSUME IInv, DropOnce PROVE IInv'
<1> DEFINE T == {t \in Trigger : ~ (t.address = ticked /\ t.once)}
<1>1. m \in State /\ Honest(m) /\ ~ ToPause(to_run)
  <2>1. to_run = <<>>
    BY DEF DropOnce
  <2>2. ~ ToPause(to_run)
    BY <2>1 DEF ToPause
  <2> QED BY <2>2 DEF IInv, TypeOK, ToldPausedIsPaused, Honest
<1>2. m' = [m EXCEPT !.triggers = Among(@, T)]
  BY DEF DropOnce, drop_once
<1>3. /\ stage = "triggers" /\ stage' = "commands"
      /\ UNCHANGED <<cmds, ticked, to_run, stray, stopped, over>>
  BY DEF DropOnce
<1> HIDE DEF T
<1>4. /\ m' \in State /\ m'.paused = m.paused /\ m'.told = m.told /\ m'.pc = m.pc
      /\ \A g \in Trigger : Found(m, g) /\ g \in T => Found(m', g)
  BY <1>1, <1>2, Deletes
<1>5. OverInv'
  <2> SUFFICES ASSUME over # <<>> PROVE OverInv'
    BY <1>3 DEF OverInv
  <2> DEFINE g == PauseAt(over[1].pc)
  <2>1. /\ ~ m.paused /\ over[1].pc # Handler /\ g \in Trigger /\ Found(m, g)
        /\ m.pc = ticked /\ m.pc # over[1].pc
    BY <1>1, <1>3 DEF IInv, OverInv
  <2>2. g.address = over[1].pc
    BY DEF PauseAt
  <2> HIDE DEF g
  <2>3. Found(m', g)
    BY <1>4, <2>1, <2>2 DEF T
  <2> QED BY <1>3, <1>4, <2>1, <2>3 DEF OverInv, g
<1>6. StoppedInv'
  BY <1>1, <1>3, <1>4 DEF IInv, StoppedInv
<1>7. TypeOK' /\ ToldPausedIsPaused' /\ MarkerInv'
  BY <1>3, <1>4 DEF IInv, TypeOK, ToldPausedIsPaused, MarkerInv, BlameIsRight
<1> QED BY <1>5, <1>6, <1>7 DEF IInv

LEMMA CommandIInv == ASSUME IInv, Command PROVE IInv'
<1> DEFINE c == Head(cmds)
<1>1. /\ m \in State /\ Honest(m) /\ stopped \in BOOLEAN
      /\ over \in Seq([pc : Address, depth : Nat]) /\ cmds \in Seq(DebugCmd)
  BY DEF IInv, TypeOK, ToldPausedIsPaused, Honest
<1>2. c \in DebugCmd /\ Tail(cmds) \in Seq(DebugCmd)
  BY <1>1, HeadTailProperties DEF Command
<1>3. PICK b \in BOOLEAN : m' = handle_debug_cmd(m, c, b)
  BY DEF Command
<1>4. /\ stage = "commands" /\ stage' = "commands" /\ cmds' = Tail(cmds)
      /\ stopped' = (stopped /\ ~ GoesOn(c))
      /\ over' = IF c.op = "StepOver" /\ IsCall(m)
                 THEN <<[pc |-> Program[m.pc].next, depth |-> Len(m.stack)]>>
                 ELSE IF c.op \in {"AddTrigger", "GetMemory"} THEN over ELSE <<>>
      /\ UNCHANGED <<ticked, to_run, stray>>
  BY DEF Command
<1> HIDE DEF c
<1>5. /\ m' \in State /\ Honest(m')
      /\ ~ GoesOn(c) => (m.paused => m'.paused)
      /\ c.op \in {"AddTrigger", "GetMemory"} =>
           /\ m'.paused = m.paused /\ m'.pc = m.pc
           /\ \A g \in Trigger : Found(m, g) => Found(m', g)
  BY <1>1, <1>2, <1>3, Handles
<1>6. m.pc \in Address /\ Program[m.pc].next \in Address /\ Len(m.stack) \in Nat
  <2>1. m.pc \in Address /\ m.stack \in Seq(Address)
    BY <1>1 DEF State
  <2> QED BY <2>1, ProgramTyped
<1>7. over' \in Seq([pc : Address, depth : Nat])
  <2>1. [pc |-> Program[m.pc].next, depth |-> Len(m.stack)] \in [pc : Address, depth : Nat]
    BY <1>6
  <2>2. <<[pc |-> Program[m.pc].next, depth |-> Len(m.stack)]>> \in Seq([pc : Address, depth : Nat])
    BY <2>1
  <2>3. <<>> \in Seq([pc : Address, depth : Nat])
    OBVIOUS
  <2> QED BY <1>1, <1>4, <2>2, <2>3, Zenon
<1>8. OverInv'
  <2>1. CASE c.op = "StepOver" /\ IsCall(m)
    <3> DEFINE n == Program[m.pc].next
    <3>1. over' = <<[pc |-> n, depth |-> Len(m.stack)]>>
      BY <1>4, <2>1
    <3>2. n # m.pc /\ n # Handler
      BY <1>6, <2>1, ProgramTyped DEF IsCall
    <3>3. m' = Looked(step_over(m), b)
      BY <1>3, <2>1 DEF handle_debug_cmd
    <3>4. /\ step_over(m) \in State /\ ~ step_over(m).paused /\ step_over(m).pc = m.pc
          /\ PauseAt(n) \in Trigger /\ Found(step_over(m), PauseAt(n))
      BY <1>1, <2>1, StepsOver DEF After
    <3>5. ~ m'.paused /\ m'.pc = m.pc /\ Found(m', PauseAt(n))
      BY <3>3, <3>4, Looks DEF Found
    <3>6. over'[1].pc = n
      BY <3>1
    <3> HIDE DEF n
    <3> QED BY <1>4, <3>2, <3>4, <3>5, <3>6 DEF OverInv
  <2>2. CASE ~ (c.op = "StepOver" /\ IsCall(m)) /\ c.op \in {"AddTrigger", "GetMemory"}
    <3>1. over' = over
      BY <1>4, <2>2
    <3> QED BY <1>4, <1>5, <2>2, <3>1 DEF IInv, OverInv
  <2>3. CASE ~ (c.op = "StepOver" /\ IsCall(m)) /\ ~ (c.op \in {"AddTrigger", "GetMemory"})
    BY <1>4, <2>3 DEF OverInv
  <2> QED BY <2>1, <2>2, <2>3
<1>9. stopped' \in BOOLEAN /\ StoppedInv'
  BY <1>4, <1>5 DEF IInv, StoppedInv
<1>10. TypeOK' /\ ToldPausedIsPaused' /\ MarkerInv'
  BY <1>2, <1>4, <1>5, <1>7, <1>9
     DEF IInv, TypeOK, ToldPausedIsPaused, Honest, MarkerInv, BlameIsRight
<1> QED BY <1>8, <1>9, <1>10 DEF IInv

LEMMA EndTickIInv == ASSUME IInv, EndTick PROVE IInv'
<1>1. m \in State
  BY DEF IInv, TypeOK
<1>2. /\ m' = [m EXCEPT !.oob = FALSE] /\ stray' = FALSE
      /\ stage = "commands" /\ stage' = IF m.paused THEN "tick" ELSE "interrupts"
  BY DEF EndTick
<1>3. /\ m' \in State /\ m'.told = m.told /\ m'.paused = m.paused /\ m'.pc = m.pc
      /\ m'.triggers = m.triggers /\ ~ m'.oob
  BY <1>1, <1>2 DEF State
<1>4. UNCHANGED <<cmds, ticked, to_run, stopped, over>>
  BY DEF EndTick
<1> QED BY <1>2, <1>3, <1>4
        DEF IInv, TypeOK, ToldPausedIsPaused, MarkerInv, BlameIsRight, StoppedInv, OverInv, Found

LEMMA InterruptIInv == ASSUME IInv, Interrupt PROVE IInv'
<1>1. m \in State /\ stage = "interrupts" /\ ~ m.paused /\ m.pc \in Address
  BY DEF IInv, TypeOK, MarkerInv, Interrupt, State
<1> DEFINE st == <<m.pc>> \o m.stack
<1>2. st \in Seq(Address)
  BY <1>1, Pushed
<1>3. PICK b \in BOOLEAN :
        m' = [m EXCEPT !.pc = Handler, !.stack = st, !.iff1 = FALSE, !.oob = b] /\ stray' = b
  BY DEF Interrupt
<1> HIDE DEF st
<1>4. /\ m' \in State /\ m'.told = m.told /\ m'.paused = m.paused /\ m'.pc = Handler
      /\ m'.triggers = m.triggers /\ m'.oob = stray' /\ stray' \in BOOLEAN
  BY <1>1, <1>2, <1>3, ProgramTyped DEF State
<1>5. stage' = "execute" /\ UNCHANGED <<cmds, ticked, to_run, stopped, over>>
  BY DEF Interrupt
<1> QED BY <1>1, <1>4, <1>5
        DEF IInv, TypeOK, ToldPausedIsPaused, MarkerInv, BlameIsRight, StoppedInv, OverInv, Found

LEMMA SoftResetIInv == ASSUME IInv, SoftReset PROVE IInv'
<1>1. m \in State /\ stage = "interrupts" /\ ~ m.paused /\ ~ m.oob
  BY DEF IInv, TypeOK, MarkerInv, SoftReset
<1>2. m' = [m EXCEPT !.pc = 0, !.stack = <<>>] /\ over' = <<>>
  BY DEF SoftReset
<1>3. m' \in State /\ m'.told = m.told /\ m'.paused = m.paused /\ m'.oob = m.oob
  <2>1. <<>> \in Seq(Address)
    OBVIOUS
  <2> QED BY <1>1, <1>2, <2>1, ProgramTyped DEF State
<1>4. <<>> \in Seq([pc : Address, depth : Nat])
  OBVIOUS
<1>5. stage' = "execute" /\ UNCHANGED <<cmds, ticked, to_run, stray, stopped>>
  BY DEF SoftReset
<1> QED BY <1>1, <1>2, <1>3, <1>4, <1>5
        DEF IInv, TypeOK, ToldPausedIsPaused, MarkerInv, BlameIsRight, StoppedInv, OverInv

LEMMA ExecuteIInv == ASSUME IInv, Execute PROVE IInv'
<1>1. m \in State /\ stage = "execute" /\ ~ m.paused /\ (m.oob => stray)
  BY DEF IInv, TypeOK, MarkerInv, Execute
<1>2. m' = execute_instruction(m)
  BY DEF Execute
<1>3. /\ m' \in State /\ m'.told = m.told /\ m'.paused = m.paused
      /\ m'.triggers = m.triggers
      /\ m'.oob => m.oob \/ Program[m'.last_pc].kind \in {"wild", "trap"}
  BY <1>1, <1>2, Executes DEF SameServer
<1>4. stage' = "tick" /\ UNCHANGED <<cmds, ticked, to_run, stray, stopped, over>>
  BY DEF Execute
<1> QED BY <1>1, <1>3, <1>4
        DEF IInv, TypeOK, ToldPausedIsPaused, MarkerInv, BlameIsRight, StoppedInv, OverInv, Found

LEMMA SendsIInv == ASSUME IInv, NEW c \in DebugCmd, ClientSends(c) PROVE IInv'
<1>1. cmds' = Append(cmds, c) /\ UNCHANGED <<m, stage, ticked, to_run, stray, stopped, over>>
  BY DEF ClientSends
<1>2. cmds' \in Seq(DebugCmd)
  BY <1>1, AppendProperties DEF IInv, TypeOK
<1> QED BY <1>1, <1>2
        DEF IInv, TypeOK, ToldPausedIsPaused, MarkerInv, BlameIsRight, StoppedInv, OverInv

LEMMA NextIInv == IInv /\ [Next]_vars => IInv'
<1> SUFFICES ASSUME IInv, [Next]_vars PROVE IInv'
  OBVIOUS
<1>1. CASE NoInterrupt
  BY <1>1 DEF NoInterrupt, IInv, TypeOK, ToldPausedIsPaused, MarkerInv, BlameIsRight, StoppedInv, OverInv
<1>2. CASE UNCHANGED vars
  BY <1>2 DEF vars, IInv, TypeOK, ToldPausedIsPaused, MarkerInv, BlameIsRight, StoppedInv, OverInv
<1> QED BY <1>1, <1>2, TickIInv, RunActionIInv, EndTriggerIInv, DropOnceIInv, CommandIInv, EndTickIInv,
           InterruptIInv, SoftResetIInv, ExecuteIInv, SendsIInv DEF Next

LEMMA Invariance == Spec => []IInv
BY InitIInv, NextIInv, PTL DEF Spec
-----------------------------------------------------------------------------
\* Every variable keeps its type, whatever the program does with its stack.
THEOREM TypeCorrect == Spec => []TypeOK
<1>1. IInv => TypeOK
  BY DEF IInv
<1> QED BY Invariance, <1>1, PTL

\* The client's picture of the machine errs on one side only.
THEOREM PausedAsTold == Spec => []ToldPausedIsPaused
<1>1. IInv => ToldPausedIsPaused
  BY DEF IInv
<1> QED BY Invariance, <1>1, PTL

\* When tick looks at it the marker is that of the instruction it blames, or of
\* the random fill or an interrupt's push just before.
THEOREM BlamedRightly == Spec => []BlameIsRight
<1>1. IInv => BlameIsRight
  BY DEF IInv, MarkerInv
<1> QED BY Invariance, <1>1, PTL

\* tick clones the triggers it finds, so the Pause among their actions comes,
\* and nothing but a Continue or a StepOver lets the loop go on after it.
THEOREM Breakpoints == Spec => BreakpointsStop
<1>1. IInv => [Execute \/ Interrupt \/ SoftReset => ~ stopped]_vars
  <2> SUFFICES ASSUME IInv, Execute \/ Interrupt \/ SoftReset
               PROVE  ~ stopped
    OBVIOUS
  <2>1. stage \in {"interrupts", "execute"} /\ ~ m.paused
    BY DEF Execute, Interrupt, SoftReset, IInv, MarkerInv
  <2> QED BY <2>1 DEF IInv, StoppedInv
<1> QED BY Invariance, <1>1, PTL DEF BreakpointsStop

\* The trigger set by StepOver is there until it stops the machine or something
\* intervenes, and interrupts lead elsewhere.
THEOREM StepOver == Spec => StepOverStops
<1>1. IInv => [Execute /\ over # <<>> => over[1] # [pc |-> m.pc, depth |-> Len(m.stack)]]_vars
  <2> SUFFICES ASSUME IInv, Execute, over # <<>>
               PROVE  over[1] # [pc |-> m.pc, depth |-> Len(m.stack)]
    OBVIOUS
  <2>1. over[1].pc # m.pc
    BY DEF Execute, IInv, OverInv
  <2> QED BY <2>1
<1> QED BY Invariance, <1>1, PTL DEF StepOverStops
=============================================================================
