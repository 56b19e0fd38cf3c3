--------------------------- MODULE MCCompileHook ---------------------------
(***************************************************************************)
(* Instances of CompileHook for TLC: prefork workers of one thread each,   *)
(* and threads that share one process.                                     *)
(***************************************************************************)
EXTENDS CompileHook

\* One thread for each worker, or two threads in one process.
OwnProcess == [t \in Thread |-> t]
OneProcess == [t \in Thread |-> CHOOSE p \in Process : TRUE]

\* The patch fits the lines of every version but the drifted one, of the one that
\* halts the compiler too; a created file has no base to fit.
FitsAll == [k \in Key |-> IF k \in Creates THEN {} ELSE Version \ {"drifted"}]

\* What is included: a file by its absolute name, by a link that does not show it, or
\* with its source in memory; by a relative name for which include_path and base_dir
\* have two files, or one of them a file outside the index.
Name(path, anchored) == [path |-> path, anchored |-> anchored, base |-> TRUE, buffered |-> FALSE]
Named(k) == Name(k, k)
Alias(k) == [Named(k) EXCEPT !.base = FALSE]
Buffered(k) == [Named(k) EXCEPT !.buffered = TRUE]

Listed == {Named(k) : k \in Key}
Relative == {Name("real", "new"), Name("real", Nothing),
             Name("new", Nothing), Name(Nothing, "new")}
AllHandles == Listed \cup Relative \cup {Alias("real"), Buffered("real")}

\* Both patches quote "lib", that of the created file "app" as well, or neither quotes
\* any.  What changes in "lib" passes the guards, what changes in "app" does not.
QuotesShared == [k \in Key |-> IF k \in Creates THEN {"lib", "app"} ELSE {"lib"}]
QuotesNone == [k \in Key |-> {}]
GoodContents == [f \in CorpusFile |-> IF f = "lib" THEN Corpus ELSE {"c1"}]

\* What a created file holds on disk is never read, only whether it is there.
PlainCreated == \A k \in Creates : disk[k] \notin Halt

AllSettings == Settings
CacheOnly == {s \in Settings : ~s.precompute /\ s.cache}
=============================================================================
