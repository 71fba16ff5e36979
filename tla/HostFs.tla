------------------------------- MODULE HostFs -------------------------------
(***************************************************************************)
(* The host file system of src/agon_machine.rs: the FatFs functions of MOS *)
(* that execute_instruction traps and serves from the host's files, one    *)
(* action per function.  open_files maps the address of the program's FIL  *)
(* structure to the host's file; the structure itself, in guest memory,    *)
(* has a copy of the position (FPTR); that of the size is left out.        *)
(***************************************************************************)
EXTENDS MosPaths, FiniteSets

CONSTANTS
  Fils, Dirs,    \* addresses of FIL and DIR structures
  Inodes,        \* the host's files
  Bytes,         \* the bytes of files
  Chars,         \* those the program writes one by one
  Strings,       \* the paths the program writes
  Modes,         \* the modes it opens files with
  Lengths,       \* the lengths it reads, and the positions it seeks
  Texts,         \* the bytes it writes
  WordSize,      \* 2^24, what _poke24 stores
  HostTree, HostContent,   \* what is on the host at the start
  MaxNodes,      \* bound: files and directories; the host is full beyond
  MaxLen         \* bound: file length

FA_WRITE         == 2
FA_CREATE_NEW    == 4
FA_CREATE_ALWAYS == 8

NUL == 0
LF  == 10

ASSUME HostFsAssumption ==
  /\ Inodes \subseteq Nat \ {Dir} /\ Bytes \subseteq 0 .. 255 /\ NUL \in Bytes /\ Chars \subseteq Bytes
  /\ Modes \subseteq SUBSET {FA_WRITE, FA_CREATE_NEW, FA_CREATE_ALWAYS}
  /\ Lengths \subseteq Nat /\ Texts \subseteq Seq(Bytes) /\ WordSize \in Nat \ {0}
  /\ Strings \subseteq Seq(Name \union {"", ".", ".."}) \ {<<>>}
  /\ IsFiniteSet(Inodes) /\ IsFiniteSet(Fils)
  /\ MaxNodes \in Nat /\ MaxNodes + Cardinality(Fils) <= Cardinality(Inodes)
  /\ MaxLen \in Nat

\* What is on the host at the start.
ASSUME HostAssumption ==
  /\ WellFormed(HostTree) /\ \A p \in DOMAIN HostTree : HostTree[p] \in Inodes \union {Dir}
  /\ IsFiniteSet(DOMAIN HostTree) /\ Cardinality(DOMAIN HostTree) <= MaxNodes
  /\ HostContent \in [Inodes -> Seq(Bytes)]
  /\ \A i \in Inodes : HostContent[i] # <<>> => \E p \in DOMAIN HostTree : HostTree[p] = i

VARIABLES
  tree, content,   \* the host's directories and files
  cwd,             \* mos_current_dir
  open_files,
  open_dirs,       \* what read_dir yields from them is left out
  fptr,            \* the member FPTR of the FIL structures in guest memory
  result,          \* HL on return: an FRESULT; for f_gets 0 if it is not null
  out              \* the bytes read that it stored for the caller

host == <<tree, content>>
vars == <<host, cwd, open_files, open_dirs, fptr, result, out>>

Closed == [ino |-> 0, pos |-> 0, write |-> FALSE]
File   == [ino : Inodes \union {0}, pos : Nat, write : BOOLEAN]

IsOpen(f) == open_files[f] # Closed
Data(f)   == content[open_files[f].ino]

Named(t) == {t[p] : p \in DOMAIN t} \ {Dir}
Held(o)  == {o[f].ino : f \in Fils} \ {0}

\* The host forgets files that are neither in a directory nor open.
Kept(c, t, o) == [i \in Inodes |-> IF i \in Named(t) \union Held(o) THEN c[i] ELSE <<>>]

TypeOK ==
  /\ WellFormed(tree) /\ \A p \in DOMAIN tree : tree[p] \in Inodes \union {Dir}
  /\ content \in [Inodes -> Seq(Bytes)]
  /\ cwd \in Seq(Name)
  /\ open_files \in [Fils -> File] /\ open_dirs \subseteq Dirs
  /\ fptr \in [Fils -> 0 .. WordSize - 1]
  /\ result \in {0, 1, 4}

Init ==
  /\ tree = HostTree /\ content = HostContent
  /\ cwd = Root
  /\ open_files = [f \in Fils |-> Closed] /\ open_dirs = {}
  /\ fptr = [f \in Fils |-> 0]
  /\ result = 0 /\ out = <<>>
-----------------------------------------------------------------------------
Join(s) == mos_path_join(tree, cwd, s)

Answer(r) == result' = r /\ out' = <<>>
Handed(bs) == result' = 0 /\ out' = bs

\* _poke24(fptr + FIL_MEMBER_FPTR, fpos)
SaveFptr(f, pos) == fptr' = [fptr EXCEPT ![f] = pos % WordSize]

MoveTo(f, pos) == open_files' = [open_files EXCEPT ![f].pos = pos]
-----------------------------------------------------------------------------
\* f_open: the name must be of a file if it is there; then the host opens it.
Create(m) == m \intersect {FA_CREATE_NEW, FA_CREATE_ALWAYS} # {}

OpenRefused(p, m) ==
  IF IsDir(tree, p)                     THEN 4
  ELSE IF Create(m) /\ FA_WRITE \notin m THEN 1
  ELSE IF IsFile(tree, p)               THEN 0
  ELSE IF Create(m) /\ Reach(tree, p) = "ok"
       THEN (IF Cardinality(DOMAIN tree) < MaxNodes THEN 0 ELSE 1)
  ELSE Fresult(Lookup(tree, p))

Free == CHOOSE i \in Inodes : i \notin Named(tree) \union Held(open_files)

Insert(f, h) == [open_files EXCEPT ![f] = h]

f_open(f, s, m) ==
  LET p == Join(s)
      i == IF IsFile(tree, p) THEN tree[p] ELSE Free
      c == IF FA_CREATE_ALWAYS \in m THEN [content EXCEPT ![i] = <<>>] ELSE content
  IN  IF OpenRefused(p, m) # 0
      THEN /\ Answer(OpenRefused(p, m))
           /\ UNCHANGED <<host, open_files, fptr>>
      ELSE /\ Answer(0)
           /\ tree' = With(tree, p, i)
           /\ open_files' = Insert(f, [ino |-> i, pos |-> 0, write |-> FA_WRITE \in m])
           /\ content' = Kept(c, tree', open_files')
           /\ SaveFptr(f, 0)

\* Whatever the address, the call succeeds; the structure is not touched.
f_close(f) ==
  /\ Answer(0)
  /\ open_files' = [open_files EXCEPT ![f] = Closed]
  /\ content' = Kept(content, tree, open_files')
  /\ UNCHANGED <<tree, fptr>>

\* (Zeros are stored behind the bytes there are, up to n.)
f_read(f, n) ==
  LET pos   == open_files[f].pos
      chunk == SubSeq(Data(f), pos + 1, Min({pos + n, Len(Data(f))}))
      k     == Len(chunk)
  IN  /\ IsOpen(f)
      /\ MoveTo(f, pos + k) /\ SaveFptr(f, pos + k)
      /\ Handed(chunk)
      /\ UNCHANGED host

\* A line ends with LF or NUL or after n bytes.  If the file ends first, or the host
\* fails at a byte of it, so does the call: the position has moved to there, the
\* structure is not told.
f_gets(f, n) ==
  LET pos   == open_files[f].pos
      rest  == SubSeq(Data(f), pos + 1, Len(Data(f)))
      stops == {k \in 0 .. Min({n, Len(rest)}) : k = n \/ (k > 0 /\ rest[k] \in {LF, NUL})}
      k     == IF stops = {} THEN Len(rest) ELSE Min(stops)
  IN  /\ IsOpen(f)
      /\ \/ /\ stops # {}
            /\ MoveTo(f, pos + k) /\ SaveFptr(f, pos + k)
            /\ Handed(SubSeq(rest, 1, k))
         \/ \E j \in 0 .. k :
              /\ j = k => stops = {}
              /\ MoveTo(f, pos + j)
              /\ Answer(1) /\ UNCHANGED fptr
      /\ UNCHANGED host

\* Mutant: the position written to is not the cursor's but the end.
OverwrittenAtEnd(d, pos, bs) == d \o bs

Overwritten(d, pos, bs) ==
  IF bs = <<>> THEN d
  ELSE [i \in 1 .. Max({Len(d), pos + Len(bs)}) |->
          IF i \in pos + 1 .. pos + Len(bs) THEN bs[i - pos]
          ELSE IF i <= Len(d) THEN d[i] ELSE NUL]

\* Byte by byte; the host may fail at any byte, and does for a file opened to read.
Put(f, bs) ==
  \E k \in 0 .. Len(bs) :
    LET pos == open_files[f].pos
    IN  /\ IsOpen(f) /\ pos + Len(bs) <= MaxLen
        /\ k > 0 => open_files[f].write
        /\ content' = [content EXCEPT ![open_files[f].ino] = Overwritten(@, pos, SubSeq(bs, 1, k))]
        /\ MoveTo(f, pos + k)
        /\ IF k = Len(bs)
           THEN SaveFptr(f, pos + k) /\ Answer(0)
           ELSE Answer(1) /\ UNCHANGED fptr
        /\ UNCHANGED tree

f_write(f, bs) == Put(f, bs)
f_putc(f, b)   == Put(f, <<b>>)

\* Mutant: the position is not stored.
SeekUnsaved(f, offset) ==
  /\ IsOpen(f)
  /\ MoveTo(f, offset)
  /\ Answer(0)
  /\ UNCHANGED <<host, fptr>>

f_lseek(f, offset) ==
  /\ IsOpen(f)
  /\ MoveTo(f, offset) /\ SaveFptr(f, offset)
  /\ Answer(0)
  /\ UNCHANGED host

\* The file ends at the position, which may be beyond its end.
f_truncate(f) ==
  LET h == open_files[f]
  IN  /\ IsOpen(f) /\ h.write
      /\ content' = [content EXCEPT ![h.ino] = [i \in 1 .. h.pos |-> IF i <= Len(@) THEN @[i] ELSE NUL]]
      /\ Answer(0)
      /\ UNCHANGED <<tree, open_files, fptr>>

\* There is no such handle, it is one to read from only, or the host fails.
FilRefused(f) ==
  /\ Answer(1)
  /\ UNCHANGED <<host, open_files, fptr>>

FileCall ==
  /\ \E f \in Fils :
       \/ \E s \in Strings, m \in Modes : f_open(f, s, m)
       \/ f_close(f)
       \/ \E n \in Lengths : f_read(f, n) \/ f_gets(f, n) \/ f_lseek(f, n)
       \/ \E bs \in Texts : f_write(f, bs)
       \/ \E b \in Chars : f_putc(f, b)
       \/ f_truncate(f) \/ FilRefused(f)
  /\ UNCHANGED <<cwd, open_dirs>>
-----------------------------------------------------------------------------
\* Directories and names
f_chdir(s) ==
  LET p == Join(s)
  IN  /\ IF IsDir(tree, p) THEN cwd' = p /\ Answer(0)
         ELSE UNCHANGED cwd /\ Answer(IF IsFile(tree, p) THEN 1 ELSE Fresult(Lookup(tree, p)))
      /\ UNCHANGED <<host, open_dirs>>

f_mkdir(s) ==
  LET p == Join(s)
  IN  /\ IF Reach(tree, p) = "ok" /\ ~ Exists(tree, p) /\ Cardinality(DOMAIN tree) < MaxNodes
         THEN tree' = With(tree, p, Dir) /\ Answer(0)
         ELSE tree' = tree /\ Answer(1)
      /\ UNCHANGED <<content, cwd, open_dirs>>

f_rename(s, t) ==
  LET p == Join(s)
      q == Join(t)
  IN  /\ Answer(Fresult(Renaming(tree, p, q)))
      /\ tree' = IF result' = 0 /\ p # q THEN Renamed(tree, p, q) ELSE tree
      /\ content' = Kept(content, tree', open_files)
      /\ UNCHANGED <<cwd, open_dirs>>

f_unlink(s) ==
  LET p == Join(s)
  IN  /\ Answer(IF IsDir(tree, p) THEN 1 ELSE Fresult(Lookup(tree, p)))
      /\ tree' = IF result' = 0 THEN Without(tree, p) ELSE tree
      /\ content' = Kept(content, tree', open_files)
      /\ UNCHANGED <<cwd, open_dirs>>

\* 0 is answered even if there is no such directory; a DIR that was open under
\* the address then stays.
f_opendir(d, s) ==
  LET p == Join(s)
  IN  /\ open_dirs' = IF IsDir(tree, p) THEN open_dirs \union {d} ELSE open_dirs
      /\ Answer(0)
      /\ UNCHANGED <<host, cwd>>

f_readdir(d) ==
  /\ Answer(1) \/ (d \in open_dirs /\ Answer(0))
  /\ UNCHANGED <<host, cwd, open_dirs>>

f_closedir(d) ==
  /\ open_dirs' = open_dirs \ {d}
  /\ Answer(0)
  /\ UNCHANGED <<host, cwd>>

f_stat(s) == Answer(Fresult(Lookup(tree, Join(s)))) /\ UNCHANGED <<host, cwd, open_dirs>>

\* They hand over a path or a label, or nothing, and succeed.
f_getcwd   == Answer(0) /\ UNCHANGED <<host, cwd, open_dirs>>
f_getlabel == Answer(0) /\ UNCHANGED <<host, cwd, open_dirs>>
f_mount    == Answer(0) /\ UNCHANGED <<host, cwd, open_dirs>>

NameCall ==
  /\ \/ \E s \in Strings : f_chdir(s) \/ f_mkdir(s) \/ f_unlink(s) \/ f_stat(s)
     \/ \E s, t \in Strings : f_rename(s, t)
     \/ \E d \in Dirs : f_readdir(d) \/ f_closedir(d) \/ \E s \in Strings : f_opendir(d, s)
     \/ f_getcwd \/ f_getlabel \/ f_mount
  /\ UNCHANGED <<open_files, fptr>>

\* A soft reset does nothing here: no file is closed, and the current directory
\* stays.  The firmware begins anew and clears its structures.
SoftReset ==
  /\ fptr' = [f \in Fils |-> 0]
  /\ UNCHANGED <<host, cwd, open_files, open_dirs, result, out>>

Next == FileCall \/ NameCall \/ SoftReset

Spec == Init /\ [][Next]_vars
-----------------------------------------------------------------------------
(***************************************************************************)
(* Properties                                                              *)
(***************************************************************************)

\* Behind the traps there is a store of files: a call reads and writes at the
\* cursor of its own FIL and nowhere else, whatever other FILs have the file
\* open and whatever becomes of its name meanwhile.
Store == INSTANCE FileStore WITH
  Files    <- Inodes,
  store    <- content,
  named    <- Named(tree),
  cursor   <- [f \in Fils |-> [file |-> open_files[f].ino, pos |-> open_files[f].pos]],
  returned <- out
ImplementsFileStore == Store!Spec

\* "save file position to FIL.fptr": a call that succeeds leaves the copy in
\* guest memory equal to the position (its low 24 bits) of every FIL it moved
\* or opened, and of every other one whose copy was right.
Tracks(f) == IsOpen(f) => fptr[f] = open_files[f].pos % WordSize
FptrTracksPosition ==
  [][~ SoftReset =>
       \A f \in Fils : result' = 0 /\ (Tracks(f) \/ open_files'[f] # open_files[f]) => Tracks(f)']_vars

\* MOS names ignore case, the host's do not.  The program brings about no two
\* entries that it could not tell apart, but from a current directory that has
\* been renamed away, whose path mos_path_join takes for the host's spelling.
NoCaseTwins ==
  \A p, q \in DOMAIN tree : Front(p) = Front(q) /\ Same(Last(p), Last(q)) => p = q
NoTwinMade == [][NoCaseTwins /\ IsDir(tree, cwd) => NoCaseTwins']_vars

\* What a path denotes, by the fragments that no later ".." takes away: the names
\* that survive among the first n of them.
Count(w, i, j, S) == Cardinality({k \in i .. j : w[k] \in S})
Surviving(w, n) ==
  {i \in 1 .. n : w[i] \in Name /\ \A j \in i .. n : Count(w, i, j, Name) > Count(w, i, j, {".."})}

\* p has these names in their order, but for case.
Rank(S, i) == Cardinality({j \in S : j <= i})
Denotes(w, p) ==
  LET left == Surviving(w, Len(w))
  IN  Len(p) = Cardinality(left) /\ \A i \in left : Same(w[i], p[Rank(left, i)])

Absolute(s) == s # <<"">> /\ s[1] = ""

\* mos_path_join yields what was typed but for case, so never leaves the root;
\* and if that is there, and no twin of anything is, it is found: for a relative
\* path, as long as the current directory has not been renamed away.
PathsFound ==
  \A s \in Strings :
    LET w == IF Absolute(s) THEN s ELSE cwd \o s
    IN  /\ Denotes(w, Join(s))
        /\ NoCaseTwins /\ (Absolute(s) \/ IsDir(tree, cwd)) =>
             \A q \in DOMAIN tree : Denotes(w, q) => q = Join(s)
=============================================================================
