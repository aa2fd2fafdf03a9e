------------------------------ MODULE DirTree ------------------------------
(***************************************************************************)
(* part_1/hw1_tree/main.go: readDir, which reads a directory into a tree,  *)
(* and printDir, which prints the tree.  printDir is a machine with a      *)
(* stack of calls, since the prefixes that a call appends to a slice may   *)
(* land in the array that the callers' slices share.  The directory does   *)
(* not change while it is read.                                            *)
(***************************************************************************)
EXTENDS Paths, Integers, Sequences, FiniteSets

CONSTANTS
  Disks,     \* the directories that dirTree may be called on
  MaxSpare   \* how many elements more than it needs append allocates

\* A name is a number: names are compared only.  A path is the sequence of names
\* from the directory given to dirTree, which is << >>; a disk maps the paths that
\* there are to entries.
\*   opens: os.Open succeeds; fails: Readdir returns an error with what it has read
DiskEntry == [dir : BOOLEAN, opens : BOOLEAN, fails : BOOLEAN]

ASSUME DirTreeAssumption ==
  /\ MaxSpare \in Nat
  /\ \A files \in Disks :
       /\ DOMAIN files \subseteq Seq(Int) /\ IsFiniteSet(DOMAIN files)
       /\ files \in [DOMAIN files -> DiskEntry]
       /\ << >> \in DOMAIN files /\ files[<< >>].dir
       /\ \A p \in DOMAIN files : \A k \in 0 .. Len(p) - 1 :
            SubSeq(p, 1, k) \in DOMAIN files /\ files[SubSeq(p, 1, k)].dir

VARIABLES
  treePc,      \* "idle", "printing", "done"
  disk, withFiles,
  tree,        \* what readDir returns for every directory: the nodes in it
  err,         \* what dirTree returns: whether there is an error
  calls,       \* the calls of printDir, the innermost last: [nodes, prefixes]
  arrays,      \* the arrays behind the slices of prefixes
  out          \* the lines printed: prefixes, branch, name

treeVars == <<treePc, disk, withFiles, tree, err, calls, arrays, out>>

-----------------------------------------------------------------------------
(* readDir.  A node is its path, and a directory of the tree finds its     *)
(* children in what readDir returned for it.                               *)

\* sort.Slice, for entries of one directory
ByName(S) ==
  CHOOSE nodes \in [1 .. Cardinality(S) -> S] :
    \A j, k \in DOMAIN nodes : j < k => Base(nodes[j]) < Base(nodes[k])

\* An error below the top is dropped, and a directory that cannot be opened is
\* printed as an empty one
readDir(files, path, wf) ==
  IF ~ files[path].opens THEN << >>
  ELSE ByName({p \in DOMAIN files \ {<< >>} : In(p) = path /\ (files[p].dir \/ wf)})

-----------------------------------------------------------------------------
(* printDir.  A slice is an array, named by its index in arrays, and a     *)
(* length; the length of the array is the capacity.                        *)

Blank == "blank"
Tab == "tab"          \* "\t"
Bar == "bar"          \* "│\t"
Branch == "branch"    \* "├───"
Corner == "corner"    \* "└───"

\* append(prefixes, x): into the array if there is room, otherwise into a copy
AppendTo(s, x, spare) ==
  IF s.len < Len(arrays[s.array])
  THEN arrays' = [arrays EXCEPT ![s.array][s.len + 1] = x] /\ spare = 0
  ELSE arrays' = Append(arrays, SubSeq(arrays[s.array], 1, s.len) \o <<x>>
                                  \o [k \in 1 .. spare |-> Blank])

Appended(s) ==
  IF s.len < Len(arrays[s.array]) THEN [array |-> s.array, len |-> s.len + 1]
  ELSE [array |-> Len(arrays) + 1, len |-> s.len + 1]

\* strings.Join(prefixes, "")
Join(s) == SubSeq(arrays[s.array], 1, s.len)

TreeInit ==
  /\ treePc = "idle" /\ disk = << >> /\ withFiles = FALSE /\ tree = << >> /\ err = FALSE
  /\ calls = << >> /\ arrays = << << >> >> /\ out = << >>

dirTree(files, wf) ==
  /\ treePc = "idle"
  /\ treePc' = "printing" /\ disk' = files /\ withFiles' = wf
  /\ tree' = [path \in {p \in DOMAIN files : files[p].dir} |-> readDir(files, path, wf)]
  /\ err' = (~ files[<< >>].opens \/ files[<< >>].fails)
  /\ calls' = <<[nodes |-> readDir(files, << >>, wf), prefixes |-> [array |-> 1, len |-> 0]]>>
  /\ UNCHANGED <<arrays, out>>

Call == calls[Len(calls)]
Callers == SubSeq(calls, 1, Len(calls) - 1)

\* Fault: prefixes = append(prefixes, ...), which the nodes that follow see too
RestWithPrefix ==
  IF Len(Call.nodes) = 1 THEN Callers
  ELSE Append(Callers, [nodes |-> Tail(Call.nodes),
                        prefixes |-> IF disk[Head(Call.nodes)].dir THEN Appended(Call.prefixes)
                                     ELSE Call.prefixes])

\* What follows node in the call: the call of printDir on nodes[1:], or its end
Rest ==
  IF Len(Call.nodes) = 1 THEN Callers
  ELSE Append(Callers, [Call EXCEPT !.nodes = Tail(Call.nodes)])

PrintNode ==
  LET node == Head(Call.nodes)
  IN  out' = Append(out, Join(Call.prefixes)
                           \o <<IF Len(Call.nodes) = 1 THEN Corner ELSE Branch, Base(node)>>)

\* A file
PrintFile ==
  /\ treePc = "printing" /\ calls # << >> /\ Call.nodes # << >>
  /\ ~ disk[Head(Call.nodes)].dir
  /\ PrintNode
  /\ calls' = Rest
  /\ UNCHANGED <<treePc, disk, withFiles, tree, err, arrays>>

\* A directory, and the call on its children with one prefix more
PrintDirectory(spare) ==
  /\ treePc = "printing" /\ calls # << >> /\ Call.nodes # << >>
  /\ disk[Head(Call.nodes)].dir
  /\ PrintNode
  /\ AppendTo(Call.prefixes, IF Len(Call.nodes) = 1 THEN Tab ELSE Bar, spare)
  /\ calls' = Append(Rest, [nodes |-> tree[Head(Call.nodes)],
                            prefixes |-> Appended(Call.prefixes)])
  /\ UNCHANGED <<treePc, disk, withFiles, tree, err>>

\* if len(nodes) == 0 { return }
NoNodes ==
  /\ treePc = "printing" /\ calls # << >> /\ Call.nodes = << >>
  /\ calls' = Callers
  /\ UNCHANGED <<treePc, disk, withFiles, tree, err, arrays, out>>

Printed ==
  /\ treePc = "printing" /\ calls = << >>
  /\ treePc' = "done"
  /\ UNCHANGED <<disk, withFiles, tree, err, calls, arrays, out>>

TreeNext ==
  \/ \E files \in Disks, wf \in BOOLEAN : dirTree(files, wf)
  \/ PrintFile \/ NoNodes \/ Printed
  \/ \E spare \in 0 .. MaxSpare : PrintDirectory(spare)

TreeSpec == TreeInit /\ [][TreeNext]_treeVars

-----------------------------------------------------------------------------
(* Safety.                                                                 *)

\* What a tree listing shows: the entries whose directories could all be opened
Shown(p) ==
  /\ p # << >> /\ (disk[p].dir \/ withFiles)
  /\ \A k \in 0 .. Len(p) - 1 : disk[SubSeq(p, 1, k)].opens

\* p is the last that is shown of its directory
LastShown(p) ==
  ~ \E q \in DOMAIN disk : Shown(q) /\ In(q) = In(p) /\ Base(q) > Base(p)

\* A directory comes before what is in it, and the rest goes by names
Before(p, q) ==
  \/ Len(p) < Len(q) /\ p = SubSeq(q, 1, Len(p))
  \/ \E k \in DOMAIN p \cap DOMAIN q :
        p[k] < q[k] /\ SubSeq(p, 1, k - 1) = SubSeq(q, 1, k - 1)

\* Its line: for every directory it is in, a bar unless that is the last of its own
Indent(p) == [k \in 1 .. Len(p) - 1 |-> IF LastShown(SubSeq(p, 1, k)) THEN Tab ELSE Bar]
LineOf(p) == Indent(p) \o <<IF LastShown(p) THEN Corner ELSE Branch, Base(p)>>

\* The entries to be shown, and how many lines are due up to p
Lines == {p \in DOMAIN disk : Shown(p)}
At(p) == 1 + Cardinality({q \in Lines : Before(q, p)})

\* What is printed is the tree that TestTreeFull and TestTreeDir draw: every entry
\* once, in order, its branches drawn from the directories it lies in, however the
\* slices of prefixes share their arrays (main.go:83,90,93); and dirTree fails
\* just if the directory itself cannot be read.
TreeIsDrawn ==
  treePc = "done" =>
    /\ Len(out) = Cardinality(Lines) /\ \A p \in Lines : out[At(p)] = LineOf(p)
    /\ err = (~ disk[<< >>].opens \/ disk[<< >>].fails)

-----------------------------------------------------------------------------
(* What the proofs need to know of every reachable state.                  *)

Marks == {Blank, Tab, Bar}
PrintCall == [nodes : Seq(Seq(Int)), prefixes : [array : Nat, len : Nat]]

Slices ==
  /\ arrays \in Seq(Seq(Marks))
  /\ \A i \in DOMAIN calls : /\ calls[i].prefixes.array \in DOMAIN arrays
                             /\ calls[i].prefixes.len \in 0 .. Len(arrays[calls[i].prefixes.array])

\* The nodes of a call are the last ones of a directory, in order
Siblings(nodes) ==
  /\ nodes \in Seq(Lines)
  /\ \A j, k \in DOMAIN nodes : /\ In(nodes[j]) = In(nodes[k])
                                /\ j < k => Base(nodes[j]) < Base(nodes[k])
  /\ \A p \in Lines : nodes # << >> /\ In(p) = In(nodes[1]) /\ Base(p) >= Base(nodes[1]) =>
                        \E k \in DOMAIN nodes : nodes[k] = p

\* The next line of a call starts with the prefixes that it has
Prefixed(c) == c.nodes # << >> => /\ c.prefixes.len = Len(c.nodes[1]) - 1
                                  /\ Join(c.prefixes) = Indent(c.nodes[1])

\* p is in a directory beside q and before it
Inside(p, q) ==
  Len(p) > Len(q) /\ In(q) = SubSeq(p, 1, Len(q) - 1) /\ p[Len(q)] < Base(q)

\* A call comes from a node before those which its caller has left
Nested ==
  \A j, k \in DOMAIN calls : j < k =>
    /\ calls[j].nodes # << >>
    /\ calls[k].nodes # << >> => Inside(calls[k].nodes[1], calls[j].nodes[1])

\* What is still to be printed: the nodes of the calls and what is in them
Left ==
  {p \in Lines : \E i \in DOMAIN calls : \E n \in DOMAIN calls[i].nodes :
                   Starts(calls[i].nodes[n], p)}

DrawnSoFar ==
  /\ Len(out) = Cardinality(Lines \ Left)
  /\ \A p \in Lines \ Left : /\ out[At(p)] = LineOf(p)
                             /\ \A q \in Left : Before(p, q)

TreeIInv ==
  /\ treePc \in {"idle", "printing", "done"}
  /\ out \in Seq(Seq(Marks \cup {Branch, Corner} \cup Int)) /\ calls \in Seq(PrintCall)
  /\ treePc # "printing" => calls = << >>
  /\ Slices
  /\ IF treePc = "idle" THEN arrays = << << >> >> /\ out = << >>
     ELSE /\ disk \in Disks
          /\ withFiles \in BOOLEAN
          /\ tree = [path \in {p \in DOMAIN disk : disk[p].dir} |-> readDir(disk, path, withFiles)]
          /\ err = (~ disk[<< >>].opens \/ disk[<< >>].fails)
          /\ \A i \in DOMAIN calls : Siblings(calls[i].nodes) /\ Prefixed(calls[i])
          /\ Nested
          /\ DrawnSoFar
=============================================================================
