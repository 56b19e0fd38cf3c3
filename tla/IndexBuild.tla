----------------------------- MODULE IndexBuild -----------------------------
(***************************************************************************)
(* phpatcher-index --normalize (tools/indexer.cpp, tools/normalizer.hpp):  *)
(* the indexer forks one php coprocess for each worker thread, the threads *)
(* take files off a shared cursor and have them normalized, and when all   *)
(* have finished the coprocesses are reaped and the partial results merged *)
(* into one index.  A coprocess may die at any moment.                     *)
(*                                                                         *)
(* Process 0 is the indexer, process w the coprocess of worker w.  What    *)
(* matters of the pipes is who holds the end that writes to a coprocess:   *)
(* it shuts down when nobody does.                                         *)
(***************************************************************************)
EXTENDS Naturals, Sequences, SequencesExt, FiniteSets

CONSTANTS
    Trees,          \* what the directory walk may find, in scan order
    Name, Key,      \* relative paths, and normalized lines
    BlankKey, ShortKeys,   \* the empty key, and those below min_len
    MaxJobs,        \* --jobs, or the number of processors
    MaxPostings,    \* --max-postings, 0 for no cap
    Orders,         \* in which order vector::clear destroys, the library's choice
    MaxDeaths       \* bound on coprocesses that die

TreeFile == [name : Name, readable : BOOLEAN, keys : Seq(Key)]

ASSUME IndexAssumption ==
    /\ Trees \subseteq Seq(TreeFile)
    /\ BlankKey \in Key /\ ShortKeys \subseteq Key
    /\ MaxJobs \in Nat \ {0} /\ MaxPostings \in Nat /\ MaxDeaths \in Nat
    /\ Orders \subseteq {"forward", "backward"}

VARIABLES
    files, order,
    main,       \* where the main thread is
    at,         \* its loop counter: worker to spawn, place to reap, result to merge
    held,       \* who holds the write end of the stdin of each coprocess
    coproc,     \* each coprocess: "none", "up", "exited", then "reaped"
    cursor,     \* files claimed so far
    thread,     \* where each worker thread is
    mine,       \* the file it has claimed
    found,      \* its WorkerResult.lines
    merged,
    index,      \* what is written: [files, lines]
    deaths

vars == <<files, order, main, at, held, coproc, cursor, thread, mine, found, merged, index,
          deaths>>

jobs == IF MaxJobs <= Len(files) THEN MaxJobs ELSE Len(files)
Worker == 1..jobs
Process == {0} \cup Worker

\* A posting is a file id and a line number, both 1-based here.
Postings == Seq(Nat \X Nat)
NoLines == [k \in Key |-> <<>>]
NoIndex == [files |-> <<>>, lines |-> NoLines]

TypeOK ==
    /\ files \in Trees /\ order \in Orders
    /\ main \in {"spawn", "join", "reap", "wait", "merge", "write", "done", "aborted"}
    /\ at \in 1..(jobs + 1)
    /\ held \in [Worker -> SUBSET Process]
    /\ coproc \in [Worker -> {"none", "up", "exited", "reaped"}]
    /\ cursor \in 0..(Len(files) + jobs)
    /\ thread \in [Worker -> {"off", "claim", "read", "ask", "finished"}]
    /\ mine \in [Worker -> 0..Len(files)]
    /\ \A w \in Worker : thread[w] \in {"read", "ask"} => mine[w] > 0
    /\ found \in [Worker -> [Key -> Postings]] /\ merged \in [Key -> Postings]
    /\ index.files \in Seq(Name) /\ index.lines \in [Key -> Postings]
    /\ deaths \in 0..MaxDeaths

Init ==
    /\ files \in Trees /\ order \in Orders
    /\ main = IF files = <<>> THEN "write" ELSE "spawn"
    /\ at = 1
    /\ held = [w \in Worker |-> {}] /\ coproc = [w \in Worker |-> "none"]
    /\ cursor = 0
    /\ thread = [w \in Worker |-> "off"] /\ mine = [w \in Worker |-> 0]
    /\ found = [w \in Worker |-> NoLines]
    /\ merged = NoLines /\ index = NoIndex
    /\ deaths = 0

\* Mutant: the thread gives up and the process stays behind, with its pipes open.
AbortOpen ==
    /\ main' = "aborted"
    /\ thread' = [w \in Worker |-> "off"]
    /\ UNCHANGED <<files, order, at, held, coproc, cursor, mine, found, merged, index, deaths>>

\* std::exit: the threads are gone and every pipe end of the indexer is closed.
Abort ==
    /\ main' = "aborted"
    /\ held' = [w \in Worker |-> held[w] \ {0}]
    /\ thread' = [w \in Worker |-> "off"]
    /\ UNCHANGED <<files, order, at, coproc, cursor, mine, found, merged, index, deaths>>

-----------------------------------------------------------------------------
(* Spawning, while there are no threads yet.                               *)

\* Mutant: the child keeps the write end of its own pipe.
SpawnKeepsOwn ==
    /\ main = "spawn" /\ at <= jobs
    /\ held' = [w \in Worker |-> IF w = at THEN {0, at}
                                 ELSE IF 0 \in held[w] THEN held[w] \cup {at} ELSE held[w]]
    /\ coproc' = [coproc EXCEPT ![at] = "up"]
    /\ at' = at + 1
    /\ UNCHANGED <<files, order, main, cursor, thread, mine, found, merged, index, deaths>>

\* The child closes the parent's ends of its own pipes, but it has inherited the
\* ends that write to the coprocesses forked before it.
Spawn ==
    /\ main = "spawn" /\ at <= jobs
    /\ held' = [w \in Worker |-> IF w = at THEN {0}
                                 ELSE IF 0 \in held[w] THEN held[w] \cup {at} ELSE held[w]]
    /\ coproc' = [coproc EXCEPT ![at] = "up"]
    /\ at' = at + 1
    /\ UNCHANGED <<files, order, main, cursor, thread, mine, found, merged, index, deaths>>

\* pipe or fork fails.
CannotSpawn ==
    /\ main = "spawn" /\ at <= jobs
    /\ Abort

StartThreads ==
    /\ main = "spawn" /\ at > jobs
    /\ main' = "join"
    /\ thread' = [w \in Worker |-> "claim"]
    /\ UNCHANGED <<files, order, at, held, coproc, cursor, mine, found, merged, index, deaths>>

-----------------------------------------------------------------------------
(* normalize_worker.                                                       *)

\* fetch_add: the one access the threads share.
Claim(w) ==
    /\ thread[w] = "claim"
    /\ cursor' = cursor + 1
    /\ IF cursor >= Len(files)
       THEN thread' = [thread EXCEPT ![w] = "finished"] /\ UNCHANGED mine
       ELSE /\ thread' = [thread EXCEPT ![w] = "read"]
            /\ mine' = [mine EXCEPT ![w] = cursor + 1]
    /\ UNCHANGED <<files, order, main, at, held, coproc, found, merged, index, deaths>>

\* A file that cannot be read is skipped.
Read(w) ==
    /\ thread[w] = "read"
    /\ thread' = [thread EXCEPT ![w] = IF files[mine[w]].readable THEN "ask" ELSE "claim"]
    /\ UNCHANGED <<files, order, main, at, held, coproc, cursor, mine, found, merged, index,
                   deaths>>

Indexed(k) == k # BlankKey /\ k \notin ShortKeys

\* The numbers of S, from the least.
Ascending(S) ==
    [n \in 1..Cardinality(S) |-> CHOOSE x \in S : Cardinality({y \in S : y <= x}) = n]

\* The lines of file f that have the key k, in order.
PostingsIn(f, k) ==
    IF Indexed(k)
    THEN LET has == Ascending({l \in DOMAIN files[f].keys : files[f].keys[l] = k})
         IN  [n \in DOMAIN has |-> <<f, has[n]>>]
    ELSE <<>>

\* run_each: the whole file goes to the coprocess and all its keys come back.
Normalize(w) ==
    /\ thread[w] = "ask" /\ coproc[w] = "up"
    /\ found' = [found EXCEPT ![w] = [k \in Key |-> @[k] \o PostingsIn(mine[w], k)]]
    /\ thread' = [thread EXCEPT ![w] = "claim"]
    /\ UNCHANGED <<files, order, main, at, held, coproc, cursor, mine, merged, index, deaths>>

\* normalizer_fatal, or the signal of a pipe that nobody reads.
NormalizerFatal(w) ==
    /\ thread[w] = "ask" /\ coproc[w] # "up"
    /\ Abort

Join ==
    /\ main = "join"
    /\ \A w \in Worker : thread[w] = "finished"
    /\ main' = "reap" /\ at' = 1
    /\ UNCHANGED <<files, order, held, coproc, cursor, thread, mine, found, merged, index,
                   deaths>>

-----------------------------------------------------------------------------
(* ~Normalizer, for each element of the vector.                            *)

victim == IF order = "forward" THEN at ELSE jobs + 1 - at

\* Mutant: the pipe is closed only after the wait.
CloseStdinLate ==
    /\ main = "reap" /\ at <= jobs
    /\ main' = "wait"
    /\ UNCHANGED <<files, order, at, held, coproc, cursor, thread, mine, found, merged, index,
                   deaths>>

CloseStdin ==
    /\ main = "reap" /\ at <= jobs
    /\ held' = [held EXCEPT ![victim] = @ \ {0}]
    /\ main' = "wait"
    /\ UNCHANGED <<files, order, at, coproc, cursor, thread, mine, found, merged, index, deaths>>

WaitPid ==
    /\ main = "wait" /\ coproc[victim] = "exited"
    /\ coproc' = [coproc EXCEPT ![victim] = "reaped"]
    /\ at' = at + 1
    /\ main' = "reap"
    /\ UNCHANGED <<files, order, held, cursor, thread, mine, found, merged, index, deaths>>

Reaped ==
    /\ main = "reap" /\ at > jobs
    /\ main' = "merge" /\ at' = 1
    /\ UNCHANGED <<files, order, held, coproc, cursor, thread, mine, found, merged, index,
                   deaths>>

-----------------------------------------------------------------------------
(* Merging, and write_index.                                               *)

Merge ==
    /\ main = "merge" /\ at <= jobs
    /\ merged' = [k \in Key |-> merged[k] \o found[at][k]]
    /\ at' = at + 1
    /\ UNCHANGED <<files, order, main, held, coproc, cursor, thread, mine, found, index, deaths>>

Used == UNION {{merged[k][n][1] : n \in DOMAIN merged[k]} : k \in Key}
Remap(f) == Cardinality({g \in Used : g <= f})
Before(p, q) == p[1] < q[1] \/ (p[1] = q[1] /\ p[2] < q[2])

\* std::sort of postings, of which equal ones cannot be told apart.
Place(ps, i) == Cardinality({j \in DOMAIN ps : Before(ps[j], ps[i]) \/ (ps[j] = ps[i] /\ j <= i)})
Sorted(ps) == [n \in DOMAIN ps |-> ps[CHOOSE i \in DOMAIN ps : Place(ps, i) = n]]

\* File ids are compacted to the files that contribute, and every list sorted.
Compact ==
    /\ main = "merge" /\ at > jobs
    /\ LET Names == Ascending(Used)
           Renumbered(ps) == [n \in DOMAIN ps |-> <<Remap(ps[n][1]), ps[n][2]>>]
       IN  index' = [files |-> [n \in DOMAIN Names |-> files[Names[n]].name],
                     lines |-> [k \in Key |-> Sorted(Renumbered(merged[k]))]]
    /\ main' = "write"
    /\ UNCHANGED <<files, order, at, held, coproc, cursor, thread, mine, found, merged, deaths>>

Capped(ps) == MaxPostings # 0 /\ Len(ps) > MaxPostings

\* Keys that occur too often are left out.
WriteIndex ==
    /\ main = "write"
    /\ index' = [index EXCEPT !.lines = [k \in Key |-> IF Capped(@[k]) THEN <<>> ELSE @[k]]]
    /\ main' = "done"
    /\ UNCHANGED <<files, order, at, held, coproc, cursor, thread, mine, found, merged, deaths>>

-----------------------------------------------------------------------------
(* The coprocesses.                                                        *)

Gone(w) ==
    /\ coproc[w] = "up"
    /\ coproc' = [coproc EXCEPT ![w] = "exited"]
    /\ held' = [v \in Worker |-> held[v] \ {w}]
    /\ UNCHANGED <<files, order, main, at, cursor, thread, mine, found, merged, index>>

\* Nobody is left to write: the read of the next request ends the loop.
EndOfInput(w) == held[w] = {} /\ Gone(w) /\ UNCHANGED deaths

\* It cannot be executed, runs out of memory, or is killed.
Dies(w) == deaths < MaxDeaths /\ Gone(w) /\ deaths' = deaths + 1

Main == Spawn \/ StartThreads \/ Join \/ CloseStdin \/ WaitPid \/ Reaped \/ Merge \/ Compact
        \/ WriteIndex
ThreadStep(w) == Claim(w) \/ Read(w) \/ Normalize(w) \/ NormalizerFatal(w)

Next == \/ Main \/ CannotSpawn
        \/ \E w \in Worker : ThreadStep(w) \/ EndOfInput(w) \/ Dies(w)

\* The operating system schedules every thread and process.
Fairness == /\ WF_vars(Main)
            /\ \A w \in 1..MaxJobs : /\ WF_vars(w \in Worker /\ ThreadStep(w))
                                     /\ WF_vars(w \in Worker /\ EndOfInput(w))

Spec == Init /\ [][Next]_vars
FairSpec == Spec /\ Fairness

-----------------------------------------------------------------------------
(* The index of a serial build, which the properties compare with.         *)

\* The serial build of the byte index (main, without --normalize): file by file
\* and line by line, an id given to a file when it first contributes.
Contributes(f) == files[f].readable /\ \E l \in DOMAIN files[f].keys : Indexed(files[f].keys[l])
SerialIds == Ascending({f \in DOMAIN files : Contributes(f)})
SerialPostings(k) ==
    FlattenSeq([id \in DOMAIN SerialIds |->
        LET ps == PostingsIn(SerialIds[id], k) IN [n \in DOMAIN ps |-> <<id, ps[n][2]>>]])
SerialIndex ==
    [files |-> [id \in DOMAIN SerialIds |-> files[SerialIds[id]].name],
     lines |-> [k \in Key |-> IF Capped(SerialPostings(k)) THEN <<>> ELSE SerialPostings(k)]]

-----------------------------------------------------------------------------
(* Properties.                                                             *)

\* When the main thread waits for a coprocess in the order that destroys the last
\* one first, nobody holds the pipe that keeps it alive: later coprocesses hold
\* the pipes of earlier ones, never the other way round.
NoCircularWait == main = "wait" /\ order = "backward" => held[victim] = {}

\* The indexer ends, with an index or an error.
Terminates == <>(main \in {"done", "aborted"})

\* No coprocess outlives an indexer that gave up.
NoOrphans == main = "aborted" ~> \A w \in Worker : coproc[w] # "up"

-----------------------------------------------------------------------------
(* The inductive invariant of the proof: how the pipes may be shared.      *)

PipeTypes ==
    /\ files \in Trees /\ order \in Orders
    /\ main \in {"spawn", "join", "reap", "wait", "merge", "write", "done", "aborted"}
    /\ at \in Nat \ {0}
    /\ held \in [Worker -> SUBSET Process]
    /\ coproc \in [Worker -> {"none", "up", "exited", "reaped"}]

\* A coprocess is kept alive by running coprocesses forked after it, or by the
\* indexer.
HeldFromAbove ==
    \A w \in Worker : \A p \in held[w] : p = 0 \/ (p > w /\ coproc[p] = "up")

\* Nothing is open to a coprocess that has not been spawned.
SpawnedSoFar == main = "spawn" => \A w \in Worker : w >= at => held[w] = {}

\* From the last to the first, those past the victim have been reaped.
ReapedSoFar ==
    main \in {"reap", "wait"} /\ order = "backward" =>
        \A w \in Worker : w > jobs + 1 - at => coproc[w] = "reaped"

Closed == main = "wait" => at <= jobs /\ 0 \notin held[victim]

IInv == PipeTypes /\ HeldFromAbove /\ SpawnedSoFar /\ ReapedSoFar /\ Closed
=============================================================================
