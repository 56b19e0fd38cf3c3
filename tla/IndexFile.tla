------------------------------ MODULE IndexFile ------------------------------
(***************************************************************************)
(* The index file between the indexer and the tools that use it: the build *)
(* of IndexBuild with write_index (tools/indexer.cpp), and Index::load     *)
(* (tools/changes.cpp, and line for line in tools/matcher.cpp).            *)
(*                                                                         *)
(* A file is a sequence of fields: numbers, strings with their length, and *)
(* postings; a cut inside a field is found where one before it is.  The    *)
(* indexer truncates the file and writes it, the last of it when the       *)
(* stream is destroyed, after its state was tested.  Any prefix may be     *)
(* what a tool finds, while the indexer writes or after it was killed or   *)
(* the disk was full.                                                      *)
(***************************************************************************)
EXTENDS IndexBuild

CONSTANT Earlier    \* what builds before this one left

\* Version 1 had no flags; the builds before had the same cap.
ASSUME EarlierAssumption ==
    /\ IsFiniteSet(Key)
    /\ Earlier \subseteq [version : Nat, normalized : BOOLEAN,
                          index : [files : Seq(Name), lines : [Key -> Postings]]]
    /\ \A e \in Earlier : /\ e.version = 1 => ~e.normalized
                          /\ \A k \in Key : ~Capped(e.index.lines[k])

VARIABLE disk       \* the fields of the index file

fileVars == <<vars, disk>>

Num(n) == [n |-> n]
Str(s) == [s |-> s]
Magic == 5

\* Keys that occur too often are left out.
Kept(ix) == {k \in Key : ix.lines[k] # <<>> /\ ~Capped(ix.lines[k])}

\* Mutant: the key count is taken before the cap.
KeyCountEarly(ix) == Cardinality({k \in Key : ix.lines[k] # <<>>})
KeyCount(ix) == Cardinality(Kept(ix))

KeyFields(k, ps) ==
    <<Str(k), Num(Len(ps))>> \o [n \in DOMAIN ps |-> [file_id |-> ps[n][1], lineno |-> ps[n][2]]]

\* write_index; version 1 had no flags.  The keys are in the order of a hash table,
\* here a fixed one.
Fields(version, norm, ix) ==
    LET keys == SetToSeq(Kept(ix))
    IN  <<Num(Magic), Num(version)>>
        \o (IF version = 1 THEN <<>> ELSE <<Num(IF norm THEN 1 ELSE 0)>>)
        \o <<Num(Cardinality(ShortKeys)), Num(MaxPostings), Num(Len(ix.files))>>
        \o [f \in DOMAIN ix.files |-> Str(ix.files[f])]
        \o <<Num(KeyCount(ix))>>
        \o FlattenSeq([n \in DOMAIN keys |-> KeyFields(keys[n], ix.lines[keys[n]])])

-----------------------------------------------------------------------------
(* Index::load: what it wants next, how many files, keys and postings are  *)
(* still to come, and what it has.                                         *)

Opened == [want |-> "magic", files |-> 0, keys |-> 0, postings |-> 0, key |-> BlankKey,
           normalized |-> FALSE, has |-> NoIndex]

\* Where a count, a path or a posting leads.
Onward(st) ==
    [st EXCEPT !.want = CASE @ \in {"file_count", "path"} ->
                                IF st.files > 0 THEN "path" ELSE "key_count"
                          [] st.postings > 0 -> "posting"
                          [] OTHER -> IF st.keys > 0 THEN "key" ELSE "end"]

\* One field; die is the want "dead", and nothing is read behind the end.
Accept(st, f) ==
    CASE st.want = "magic" -> [st EXCEPT !.want = IF f.n = Magic THEN "version" ELSE "dead"]
      [] st.want = "version" ->
            [st EXCEPT !.want = CASE f.n = 1 -> "min_len" [] f.n = 2 -> "flags" [] OTHER -> "dead"]
      [] st.want = "flags" -> [st EXCEPT !.want = "min_len", !.normalized = f.n % 2 = 1]
      [] st.want = "min_len" -> [st EXCEPT !.want = "max_postings"]
      [] st.want = "max_postings" -> [st EXCEPT !.want = "file_count"]
      [] st.want = "file_count" -> Onward([st EXCEPT !.files = f.n])
      [] st.want = "path" ->
            Onward([st EXCEPT !.files = @ - 1, !.has.files = Append(@, f.s)])
      [] st.want = "key_count" -> Onward([st EXCEPT !.keys = f.n])
      [] st.want = "key" -> [st EXCEPT !.want = "count", !.keys = @ - 1, !.key = f.s]
      [] st.want = "count" -> Onward([st EXCEPT !.postings = f.n])
      [] st.want = "posting" ->
            Onward([st EXCEPT !.postings = @ - 1,
                              !.has.lines[st.key] = Append(@, <<f.file_id, f.lineno>>)])
      [] OTHER -> st

\* need() dies when the file ends before load does.
Load(blob) ==
    LET after[n \in 0..Len(blob)] == IF n = 0 THEN Opened ELSE Accept(after[n - 1], blob[n])
        st == after[Len(blob)]
    IN  IF st.want = "end" THEN st ELSE [st EXCEPT !.want = "dead"]

-----------------------------------------------------------------------------

FileInit ==
    /\ Init
    /\ \E e \in Earlier : disk = Fields(e.version, e.normalized, e.index)

\* Everything of the build but its last step.
Building == Next /\ (main' = "done" => main = "done") /\ UNCHANGED disk

\* The file is truncated, and some of it written.
Write ==
    /\ WriteIndex
    /\ LET all == Fields(2, TRUE, index)
       IN  \E n \in 0..Len(all) : disk' = SubSeq(all, 1, n)

\* The file cannot be opened: die.
CannotWrite == main = "write" /\ Abort /\ UNCHANGED disk

\* ~ofstream writes the rest, if it can.
Flush ==
    /\ main = "done"
    /\ disk' = Fields(2, TRUE, index)
    /\ UNCHANGED vars

FileNext == Building \/ Write \/ CannotWrite \/ Flush

FileSpec == FileInit /\ [][FileNext]_fileVars /\ Fairness

-----------------------------------------------------------------------------
(* Properties.                                                             *)

\* A tool that reads the file now has the index `ix`.
ToolHas(norm, ix) == LET tool == Load(disk)
                     IN  tool.want = "end" /\ tool.normalized = norm /\ tool.has = ix

Whole == Len(disk) = Len(Fields(2, TRUE, SerialIndex))

\* A tool that reads the index at any moment has that of a serial build of the tree,
\* whichever worker took which file in whatever order and whatever coprocess died,
\* or it dies, exactly when the file is not whole.  Until the indexer writes, and
\* when it gave up, the tool has what the build before has left.
ToolsSeeSerialIndex ==
    IF main = "done"
    THEN IF Whole THEN ToolHas(TRUE, SerialIndex) ELSE Load(disk).want = "dead"
    ELSE \E e \in Earlier : IF e.version \in {1, 2} THEN ToolHas(e.normalized, e.index)
                                                    ELSE Load(disk).want = "dead"
=============================================================================
