----------------------------- MODULE FileStore -----------------------------
(***************************************************************************)
(* What the host file system promises to a program that uses FIL           *)
(* structures: files are sequences of bytes, kept as long as they have a   *)
(* name or are open; an FIL is a cursor in a file; reading and writing go  *)
(* from the cursor on and move it.  A call that fails may have done the    *)
(* first part of its work.                                                 *)
(***************************************************************************)
EXTENDS Naturals, Sequences

CONSTANTS Fils, Files, Bytes

VARIABLES
  store,      \* the contents of the files
  named,      \* the files that have a name
  cursor,     \* where the FILs stand, Closed if nowhere
  returned,   \* the bytes the last call read
  result      \* what it answered, 0 for success

vars == <<store, named, cursor, returned, result>>

Closed == [file |-> 0, pos |-> 0]

Init ==
  /\ store \in [Files -> Seq(Bytes)]
  /\ named \subseteq Files
  /\ cursor = [f \in Fils |-> Closed]
  /\ returned = <<>> /\ result = 0

Held == {cursor[f].file : f \in Fils} \ {0}

\* A file without a name that is not open is gone.
Keeping(s) == store' = [i \in Files |-> IF i \in named' \union Held' THEN s[i] ELSE <<>>]

Open(f, i) ==
  /\ cursor' = [cursor EXCEPT ![f] = [file |-> i, pos |-> 0]]
  /\ \/ i \in named /\ named' = named
     \/ i \notin named \union Held /\ named' = named \union {i}
  /\ Keeping(store) \/ Keeping([store EXCEPT ![i] = <<>>])
  /\ returned' = <<>> /\ result' = 0

Close(f) ==
  /\ cursor' = [cursor EXCEPT ![f] = Closed]
  /\ Keeping(store)
  /\ named' = named /\ returned' = <<>> /\ result' = 0

\* A name goes, by f_unlink or by an f_rename to a name in use.
Unname(i) ==
  /\ i \in named /\ named' = named \ {i}
  /\ Keeping(store)
  /\ cursor' = cursor /\ returned' = <<>> /\ result' = 0

\* Calls that do nothing here: directories, questions, failures.
Nothing == returned' = <<>> /\ UNCHANGED <<store, named, cursor>>

\* The cursor moves on by the bytes it has passed.
Passed(f)  == cursor'[f].pos - cursor[f].pos
Advance(f) ==
  /\ cursor[f] # Closed /\ Passed(f) >= 0
  /\ cursor' = [cursor EXCEPT ![f].pos = @ + Passed(f)]

Read(f) ==
  LET d  == store[cursor[f].file]
      p  == cursor[f].pos
      p2 == p + Passed(f)
  IN  /\ Advance(f)
      /\ p2 > p => p2 <= Len(d)
      /\ returned' = IF result' = 0 THEN SubSeq(d, p + 1, p2) ELSE <<>>
      /\ UNCHANGED <<store, named>>

\* The first m bytes of d, with zeros behind if there are fewer.
Resize(d, m) == [i \in 1 .. m |-> IF i <= Len(d) THEN d[i] ELSE 0]

\* What lies outside the bytes passed stays; a gap is filled with zeros.
Write(f) ==
  LET i  == cursor[f].file
      d  == store[i]
      p  == cursor[f].pos
      p2 == p + Passed(f)
      m  == IF p2 > Len(d) THEN p2 ELSE Len(d)
  IN  /\ Advance(f) /\ p2 > p
      /\ Len(store'[i]) = m
      /\ store' = [store EXCEPT ![i] =
                     [k \in 1 .. m |-> IF k \in p + 1 .. p2 THEN store'[i][k] ELSE Resize(d, m)[k]]]
      /\ named' = named /\ returned' = <<>>

Seek(f) ==
  /\ cursor[f] # Closed
  /\ cursor' = [cursor EXCEPT ![f].pos = cursor'[f].pos]
  /\ returned' = <<>> /\ result' = 0
  /\ UNCHANGED <<store, named>>

Truncate(f) ==
  /\ cursor[f] # Closed
  /\ store' = [store EXCEPT ![cursor[f].file] = Resize(@, cursor[f].pos)]
  /\ returned' = <<>> /\ result' = 0
  /\ UNCHANGED <<named, cursor>>

Next ==
  \/ Nothing
  \/ \E i \in Files : Unname(i)
  \/ \E f \in Fils, i \in Files : Open(f, i)
  \/ \E f \in Fils : Close(f) \/ Read(f) \/ Write(f) \/ Seek(f) \/ Truncate(f)

Spec == Init /\ [][Next]_vars
=============================================================================
