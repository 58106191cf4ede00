----------------------------- MODULE FileTools ------------------------------
(***************************************************************************)
(* The read-only file tools of an agent (list_tree, search_files and       *)
(* read_file of tool-broker.ts) and the discovery of project files         *)
(* (project-files.ts): walks over a directory tree with limits, while      *)
(* others, such as another tool of the same batch, may change the tree.    *)
(*                                                                         *)
(* A path is a sequence of names below the root, which is the empty        *)
(* sequence; a name is a number, its place in the alphabet and, for the    *)
(* names the discovery asks for, in its lists.  The loops and recursions   *)
(* of the code are one worklist, whose head is what comes next: what is    *)
(* still to be looked at in the directory at hand and in those above it.   *)
(* One step is what runs between two awaits, or less.  The refusal of      *)
(* paths outside the root, calls for a path that is not there (they fail), *)
(* and the texts of files are left out; a matching file has the searched   *)
(* text on one line.                                                       *)
(*                                                                         *)
(* Bounds: Depth, MaxNodes, MaxChanges; the limits of the code (300        *)
(* entries, 40 results, 36 candidates, 3 directories, depth 5, 64 KiB) are *)
(* constants.                                                              *)
(***************************************************************************)
EXTENDS Naturals, Sequences, SequencesExt, FiniteSets

CONSTANTS
    Names,
    Skipped,        \* .git, node_modules, dist, target and the like
    RootFiles,      \* the names of ROOT_FILE_PRIORITY
    SourceRoots,    \* the names of SOURCE_ROOTS
    Depth, MaxNodes, MaxChanges,
    TreeLimit, SearchLimit, CandidateLimit, WalkDepth, MaxDepth,
    MaxSize, MaxBytesPerChar

FileToolsAssumption ==
    /\ Names \subseteq Nat
    /\ Skipped \subseteq Names /\ RootFiles \subseteq Names /\ SourceRoots \subseteq Names
    /\ IsFiniteSet(RootFiles) /\ IsFiniteSet(SourceRoots)
    /\ {MaxNodes, MaxChanges, WalkDepth, MaxDepth, MaxSize} \subseteq Nat
    /\ {Depth, TreeLimit, SearchLimit, CandidateLimit, MaxBytesPerChar} \subseteq Nat \ {0}

VARIABLES
    tree,       \* the kind of each path there is
    call,       \* the call being served: a tool and its arguments
    work,       \* what it has still to look at
    found,      \* entries, results or candidates, in the order they were found
    reply,      \* its answer, NoReply before
    touched     \* the paths that were changed since it began

vars == <<tree, call, work, found, reply, touched>>

Root == <<>>
Paths == UNION {[1..n -> Names] : n \in 1..Depth}

\* "match": a file with the searched text, and one with a source extension;
\* "other": another file; "dangling": a symbolic link to nothing.
Kinds == {"dir", "match", "other", "dangling"}
Files == {"match", "other"}

IsTree(t) ==
    /\ IsFiniteSet(DOMAIN t) /\ DOMAIN t \subseteq Paths /\ t \in [DOMAIN t -> Kinds]
    /\ \A p \in DOMAIN t : \A k \in 1..(Len(p) - 1) :
          SubSeq(p, 1, k) \in DOMAIN t /\ t[SubSeq(p, 1, k)] = "dir"

Trees ==
    LET drawn  == {ToSet(f) \ {Root} : f \in [1..MaxNodes -> Paths \cup {Root}]}
        closed == {d \in drawn : \A p \in d : Len(p) > 1 => Front(p) \in d}
    IN  {t \in UNION {[d -> Kinds] : d \in closed} : IsTree(t)}

Is(p, kinds) == p \in DOMAIN tree /\ tree[p] \in kinds
IsDir(p) == p = Root \/ Is(p, {"dir"})

NoCall  == [tool |-> "none", at |-> Root, depth |-> 0, chars |-> 0, bytes |-> 0]
NoReply == [status |-> "none", truncated |-> FALSE, size |-> 0]

\* What is to be done with a path: "enter" a directory, "stat" or "read" what a search
\* comes to, "ask" for a root file, look for a source "root"; or an entry, of the kind
\* that readdir told.
Item(p, do) == [path |-> p, do |-> do]

Init ==
    /\ tree \in Trees
    /\ call = NoCall /\ work = <<>> /\ found = <<>> /\ reply = NoReply /\ touched = {}

Busy == call # NoCall /\ reply = NoReply
Now(tool, do) == Busy /\ call.tool = tool /\ work # <<>> /\ Head(work).do \in do
Here == Head(work).path

Continue(items) == work' = items \o Tail(work) /\ UNCHANGED <<tree, call, reply, touched>>
Skip == Continue(<<>>) /\ UNCHANGED found
Instead(do) == Continue(<<Item(Here, do)>>) /\ UNCHANGED found
Add(items) == found' = Append(found, Here) /\ Continue(items)

Fail ==
    /\ reply' = [NoReply EXCEPT !.status = "error"] /\ work' = <<>>
    /\ UNCHANGED <<tree, call, found, touched>>

-----------------------------------------------------------------------------
(* The calls.                                                              *)

\* S in the order of its numbers.
Ascending(S) ==
    {s \in [1..Cardinality(S) -> S] : ToSet(s) = S /\ \A i, j \in DOMAIN s : i < j => s[i] < s[j]}

Begin(tool, at, depth, items) ==
    /\ call = NoCall
    /\ call' = [NoCall EXCEPT !.tool = tool, !.at = at, !.depth = depth]
    /\ work' = items
    /\ UNCHANGED <<tree, found, reply, touched>>

ListTree(at, depth) == IsDir(at) /\ Begin("list_tree", at, depth, <<Item(at, "enter")>>)

SearchFiles(at) ==
    (at = Root \/ at \in DOMAIN tree) /\ Begin("search_files", at, 0, <<Item(at, "stat")>>)

\* First the files of the root that are asked for by name, then the source roots.
ProjectFiles ==
    \E names \in Ascending(RootFiles), roots \in Ascending(SourceRoots) :
        Begin("project_files", Root, 0,
              [i \in DOMAIN names |-> Item(<<names[i]>>, "ask")]
                \o [i \in DOMAIN roots |-> Item(<<roots[i]>>, "root")])

\* Characters are cut, bytes are compared.
ReadFile(chars, bytes) ==
    /\ call = NoCall
    /\ call' = [NoCall EXCEPT !.tool = "read_file", !.chars = chars, !.bytes = bytes]
    /\ reply' = [status |-> "ok", size |-> IF chars <= MaxSize THEN chars ELSE MaxSize,
                 truncated |-> bytes > MaxSize]
    /\ UNCHANGED <<tree, work, found, touched>>

-----------------------------------------------------------------------------
(* readdir                                                                 *)

\* The discovery looks at skipped names when it comes to them.
Children(p) ==
    {c \in DOMAIN tree : /\ Len(c) = Len(p) + 1 /\ IsPrefix(p, c)
                         /\ call.tool = "project_files" \/ Last(c) \notin Skipped}

\* Only list_tree sorts; the others take the entries as the system gives them.
Listings(p) ==
    {s \in [1..Cardinality(Children(p)) -> Children(p)] :
        /\ ToSet(s) = Children(p)
        /\ \A i, j \in DOMAIN s : i < j =>
              IF call.tool = "list_tree" THEN Last(s[i]) < Last(s[j]) ELSE s[i] # s[j]}

Entries(s) == [i \in DOMAIN s |-> Item(s[i], IF call.tool = "search_files" THEN "stat" ELSE tree[s[i]])]

\* What was still to be looked at is forgotten.
Enter_Replaces ==
    /\ Busy /\ work # <<>> /\ Head(work).do = "enter" /\ UNCHANGED found
    /\ \/ /\ IsDir(Here) /\ \E s \in Listings(Here) : work' = Entries(s)
          /\ UNCHANGED <<tree, call, reply, touched>>
       \/ ~IsDir(Here) /\ IF call.tool = "project_files" THEN Skip ELSE Fail

\* A directory that is gone fails the call, but the discovery goes on.
Enter ==
    /\ Busy /\ work # <<>> /\ Head(work).do = "enter" /\ UNCHANGED found
    /\ \/ IsDir(Here) /\ \E s \in Listings(Here) : Continue(Entries(s))
       \/ ~IsDir(Here) /\ IF call.tool = "project_files" THEN Skip ELSE Fail

-----------------------------------------------------------------------------
(* list_tree                                                               *)

\* The limit is looked at before a directory only, not before each entry.
ListEntry_PerDirectory ==
    /\ Now("list_tree", Kinds)
    /\ Add(IF /\ Head(work).do = "dir" /\ Len(found') < TreeLimit
              /\ Len(Here) - Len(call.at) <= call.depth
           THEN <<Item(Here, "enter")>> ELSE <<>>)

\* A directory at the deepest level is listed but not entered.
ListEntry ==
    /\ Now("list_tree", Kinds) /\ Len(found) < TreeLimit
    /\ Add(IF /\ Head(work).do = "dir" /\ Len(found') < TreeLimit
              /\ Len(Here) - Len(call.at) <= call.depth
           THEN <<Item(Here, "enter")>> ELSE <<>>)

Full == \/ call.tool = "list_tree" /\ Len(found) >= TreeLimit
        \/ call.tool = "search_files" /\ Len(found) >= SearchLimit

\* The answer says "truncated" only beyond the limit, which is never reached.
Finish_Beyond ==
    /\ Busy /\ (work = <<>> \/ Full)
    /\ reply' = [NoReply EXCEPT !.status = "ok",
                    !.truncated = call.tool = "list_tree" /\ Len(found) > TreeLimit]
    /\ work' = <<>> /\ UNCHANGED <<tree, call, found, touched>>

Finish ==
    /\ Busy /\ (work = <<>> \/ Full)
    /\ reply' = [NoReply EXCEPT !.status = "ok",
                    !.truncated = call.tool = "list_tree" /\ Len(found) >= TreeLimit]
    /\ work' = <<>> /\ UNCHANGED <<tree, call, found, touched>>

-----------------------------------------------------------------------------
(* search_files: what cannot be looked at or read fails the whole call.    *)

Stat ==
    /\ Now("search_files", {"stat"}) /\ ~Full
    /\ \/ IsDir(Here) /\ Instead("enter")
       \/ Is(Here, Files) /\ Instead("read")
       \/ Is(Here, {"other"}) /\ Skip           \* no text file, or too large
       \/ ~IsDir(Here) /\ ~Is(Here, Files) /\ Fail

Read ==
    /\ Now("search_files", {"read"})
    /\ \/ Is(Here, {"match"}) /\ Add(<<>>)
       \/ Is(Here, {"other"}) /\ Skip
       \/ ~Is(Here, Files) /\ Fail

-----------------------------------------------------------------------------
(* listProjectFileCandidates                                               *)

Ask ==
    /\ Now("project_files", {"ask"})
    /\ IF Is(Here, Files) THEN Add(<<>>) ELSE Skip

SourceRoot ==
    /\ Now("project_files", {"root"})
    /\ IF IsDir(Here) /\ Len(found) < CandidateLimit THEN Instead("enter") ELSE Skip

\* Directories of any depth are entered.
SourceEntry_Deep ==
    /\ Now("project_files", Kinds)
    /\ IF Len(found) >= CandidateLimit THEN Skip
       ELSE CASE Head(work).do = "dir" /\ Last(Here) \notin Skipped -> Instead("enter")
              [] Head(work).do = "match" /\ Here \notin ToSet(found) -> Add(<<>>)
              [] OTHER -> Skip

\* The source root has depth 0.
SourceEntry ==
    /\ Now("project_files", Kinds)
    /\ IF Len(found) >= CandidateLimit THEN Skip
       ELSE CASE /\ Head(work).do = "dir" /\ Last(Here) \notin Skipped
                 /\ Len(Here) - 2 < WalkDepth -> Instead("enter")
              [] Head(work).do = "match" /\ Here \notin ToSet(found) -> Add(<<>>)
              [] OTHER -> Skip

-----------------------------------------------------------------------------
(* The others: a file, an empty directory or a link is made, removed or    *)
(* replaced while a call is served.                                        *)

Change(p) ==
    /\ Busy /\ Cardinality(touched) < MaxChanges
    /\ \/ p \in DOMAIN tree /\ tree' = [q \in DOMAIN tree \ {p} |-> tree[q]]
       \/ \E k \in Kinds :
            /\ tree' = [q \in DOMAIN tree \cup {p} |-> IF q = p THEN k ELSE tree[q]]
            /\ tree' # tree
    /\ IsTree(tree') /\ Cardinality(DOMAIN tree') <= MaxNodes
    /\ touched' = touched \cup {p}
    /\ UNCHANGED <<call, work, found, reply>>

Next ==
    \/ \E p \in Paths \cup {Root} : SearchFiles(p) \/ \E depth \in 1..MaxDepth : ListTree(p, depth)
    \/ ProjectFiles
    \/ \E chars \in 0..(MaxSize + 1) : \E bytes \in chars..(chars * MaxBytesPerChar) :
          ReadFile(chars, bytes)
    \/ Enter \/ ListEntry \/ Stat \/ Read \/ Ask \/ SourceRoot \/ SourceEntry \/ Finish
    \/ \E p \in Paths : Change(p)

Spec == Init /\ [][Next]_vars

-----------------------------------------------------------------------------
(* What the walks should answer, said without walking: of the paths that    *)
(* were there and not changed during the call.                              *)

Steady == DOMAIN tree \ touched
Answered(tool) == call.tool = tool /\ reply.status = "ok"

Below(p) == IsStrictPrefix(call.at, p)
Open(p) == \A k \in (Len(call.at) + 1)..Len(p) : p[k] \notin Skipped
Listable(p) == Below(p) /\ Open(p) /\ Len(p) <= Len(call.at) + call.depth + 1
Searchable(p) == (p = call.at \/ Below(p)) /\ Open(p)

IsRootFile(p) == Len(p) = 1 /\ p[1] \in RootFiles /\ tree[p] \in Files
IsSource(p) ==
    /\ Len(p) \in 2..(WalkDepth + 2) /\ p[1] \in SourceRoots /\ tree[p] = "match"
    /\ \A k \in 2..(Len(p) - 1) : p[k] \notin Skipped

\* Alphabetical order of paths, a directory before what is in it.
Before(p, q) ==
    \/ IsStrictPrefix(p, q)
    \/ \E k \in DOMAIN p \cap DOMAIN q : p[k] < q[k] /\ \A j \in 1..(k - 1) : p[j] = q[j]

(* list_tree answers with the first entries, in the order of their paths, of *)
(* everything down to one level below the depth asked for, not more than its *)
(* limit; what it does not list comes after all that it lists.               *)
ListsFirstPaths ==
    call.tool = "list_tree" =>
        /\ Len(found) <= TreeLimit
        /\ \A i, j \in DOMAIN found : i < j => Before(found[i], found[j])
        /\ \A i \in DOMAIN found : Listable(found[i]) /\ (found[i] \in touched \/ found[i] \in Steady)
        /\ reply.status = "ok" =>
              \A p \in Steady : Listable(p) /\ p \notin ToSet(found) =>
                  Len(found) = TreeLimit /\ \A i \in DOMAIN found : Before(found[i], p)

(* Whoever is not told that a listing or a file was cut has all of it; and a *)
(* listing fails only when somebody has changed the tree meanwhile.          *)
CutIsSaid ==
    /\ (Answered("list_tree") /\ ~reply.truncated) =>
           \A p \in Steady : Listable(p) => p \in ToSet(found)
    /\ (call.tool = "list_tree" /\ reply.status = "error") => touched # {}
    /\ (Answered("read_file") /\ ~reply.truncated) => reply.size = call.chars

(* A search that succeeds with room left has found every file with the text, *)
(* each once; it fails only where a dangling link is in its way or somebody  *)
(* has changed the tree meanwhile.                                           *)
SearchIsComplete ==
    call.tool = "search_files" =>
        /\ Len(found) <= SearchLimit
        /\ \A i, j \in DOMAIN found : i # j => found[i] # found[j]
        /\ \A i \in DOMAIN found : Searchable(found[i])
              /\ (found[i] \in touched \/ (found[i] \in Steady /\ tree[found[i]] = "match"))
        /\ (reply.status = "ok" /\ Len(found) < SearchLimit) =>
              \A p \in Steady : Searchable(p) /\ tree[p] = "match" => p \in ToSet(found)
        /\ reply.status = "error" =>
              touched # {} \/ \E p \in Steady : Searchable(p) /\ tree[p] = "dangling"

(* The candidates are the root's own files, whatever their number, then      *)
(* source files up to the limit, each once: all of them if there is room;    *)
(* and the discovery never fails.                                            *)
CandidatesAreSources ==
    call.tool = "project_files" =>
        /\ reply.status # "error"
        /\ \A i, j \in DOMAIN found :
              i < j => found[i] # found[j] /\ (Len(found[j]) = 1 => Len(found[i]) = 1)
        /\ \A i \in DOMAIN found : i > CandidateLimit => Len(found[i]) = 1
        /\ \A i \in DOMAIN found :
              found[i] \in touched
                \/ (found[i] \in Steady /\ (IsRootFile(found[i]) \/ IsSource(found[i])))
        /\ reply.status = "ok" =>
              \A p \in Steady :
                  IsRootFile(p) \/ (IsSource(p) /\ Len(found) < CandidateLimit) => p \in ToSet(found)

(* A reply holds at most MAX_FILE_BYTES bytes of a file, as the architecture *)
(* document says ("Max file read: 64 KB").  The code cuts characters.        *)
ReadsAreBounded ==
    (call.tool = "read_file" /\ reply.size = call.chars) => call.bytes <= MaxSize
=============================================================================
