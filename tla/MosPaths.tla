------------------------------ MODULE MosPaths ------------------------------
(***************************************************************************)
(* MOS paths and the host's directory tree below hostfs_root_dir.  A path  *)
(* as the program writes it is the sequence of its fragments, what the     *)
(* split at / and \ gives: "/a" is <<"", "a">>.  A MosPath is a sequence   *)
(* of the host's names.  The tree maps the paths there are, but the root,  *)
(* to a file (a number) or Dir.                                            *)
(***************************************************************************)
EXTENDS Naturals, Sequences, SequencesExt

CONSTANTS
  Name,     \* the names of files and directories
  Lower     \* to_ascii_lowercase

ASSUME NameAssumption ==
  /\ {"", ".", ".."} \intersect Name = {}
  /\ Lower \in [Name -> Name]

Root == <<>>
Dir  == 0

Same(m, n) == Lower[m] = Lower[n]

Exists(tree, p)  == p = Root \/ p \in DOMAIN tree
IsDir(tree, p)   == p = Root \/ (p \in DOMAIN tree /\ tree[p] = Dir)
IsFile(tree, p)  == Exists(tree, p) /\ ~ IsDir(tree, p)
Entries(tree, p) == {n \in Name : Append(p, n) \in DOMAIN tree}
-----------------------------------------------------------------------------
\* mos_path_join

\* Mutant: names are taken as they are typed.
MatchedExactly(tree, p, f) == f

\* The host's spelling of f in the directory p, if there is one.
Matched(tree, p, f) ==
  LET found == {n \in Entries(tree, p) : Same(n, f)}
  IN  IF found = {} THEN f ELSE CHOOSE n \in found : TRUE

\* Mutant: every path is relative.
StartRelative(cwd, s) == cwd

Start(cwd, s) == IF Len(s) > 1 /\ s[1] = "" THEN Root ELSE cwd

Pop(p) == IF p = Root THEN p ELSE Front(p)

Push(tree, p, f) ==
  CASE f \in {"", "."} -> p
    [] f = ".."        -> Pop(p)
    [] OTHER           -> Append(p, Matched(tree, p, f))

mos_path_join(tree, cwd, s) ==
  LET after[k \in 0 .. Len(s)] == IF k = 0 THEN Start(cwd, s) ELSE Push(tree, after[k - 1], s[k])
  IN  after[Len(s)]
-----------------------------------------------------------------------------
(***************************************************************************)
(* What the host's file system does with a path.                           *)
(***************************************************************************)
Above(p) == {SubSeq(p, 1, k) : k \in 1 .. Len(p) - 1}

\* What holds an entry is a directory, and a file has one name.
WellFormed(tree) ==
  /\ DOMAIN tree \subseteq Seq(Name) \ {Root}
  /\ \A p \in DOMAIN tree : \A q \in Above(p) : IsDir(tree, q)
  /\ \A p, q \in DOMAIN tree : tree[p] = tree[q] => p = q \/ tree[p] = Dir

\* Whether the directory that holds p is found.
Reach(tree, p) ==
  IF \E q \in Above(p) : IsFile(tree, q)     THEN "notdir"
  ELSE IF \A q \in Above(p) : IsDir(tree, q) THEN "ok" ELSE "notfound"

Lookup(tree, p) == IF Reach(tree, p) = "ok" /\ ~ Exists(tree, p) THEN "notfound"
                   ELSE Reach(tree, p)

\* The FRESULT made of an io::ErrorKind: NotFound or anything else.
Fresult(outcome) == CASE outcome = "ok" -> 0 [] outcome = "notfound" -> 4 [] OTHER -> 1

With(tree, p, node)  == [q \in DOMAIN tree \union {p} |-> IF q = p THEN node ELSE tree[q]]
Without(tree, p)     == [q \in DOMAIN tree \ {p} |-> tree[q]]

Renaming(tree, p, q) ==
  IF Reach(tree, p) # "ok"                                   THEN Reach(tree, p)
  ELSE IF Reach(tree, q) # "ok"                              THEN Reach(tree, q)
  ELSE IF ~ Exists(tree, p)                                  THEN "notfound"
  ELSE IF p = q                                              THEN "ok"
  ELSE IF IsPrefix(p, q) \/ IsPrefix(q, p)                   THEN "invalid"
  ELSE IF Exists(tree, q) /\ IsDir(tree, p) # IsDir(tree, q) THEN "kind"
  ELSE IF IsDir(tree, q) /\ Entries(tree, q) # {}            THEN "notempty" ELSE "ok"

\* p and all below it move to q, in place of what was there.
Renamed(tree, p, q) ==
  LET stay  == {r \in DOMAIN tree : ~ IsPrefix(p, r) /\ r # q}
      moved == {r \in DOMAIN tree : IsPrefix(p, r)}
      To(r) == q \o SubSeq(r, Len(p) + 1, Len(r))
  IN  [x \in stay \union {To(r) : r \in moved} |->
         IF x \in stay THEN tree[x] ELSE tree[p \o SubSeq(x, Len(q) + 1, Len(x))]]
=============================================================================
