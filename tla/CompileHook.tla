---------------------------- MODULE CompileHook ----------------------------
(***************************************************************************)
(* The glue of the extension (phpatcher.cpp): the warm-up in MINIT, and    *)
(* then the include of a file by any thread of any worker, through the     *)
(* stream-open hook, the compile hook and phpatcher_get_patched, while     *)
(* files and corpus are being edited and workers come and go.              *)
(*                                                                         *)
(* Whether a patch applies is a relation between the version of the file   *)
(* and that of the corpus it quotes (EdScript has the detail); the source  *)
(* handed to the engine records what it was made from.                     *)
(***************************************************************************)
EXTENDS Naturals, FiniteSets

CONSTANTS
    Thread, Process, Home,  \* Home[t]: the process a thread belongs to
    Forking,                \* processes are workers forked after MINIT
    Key, Creates,           \* the index, and its "# newfile:" entries
    Version, Halt, Fits,    \* file contents, those with __halt_compiler, and
                            \* Fits[k]: those the patch of k applies to
    CorpusFile, Quotes,     \* the corpus, and Quotes[k]: its files that k quotes
    Corpus, GoodCorpus,     \* their contents, and GoodCorpus[f]: those of f that
                            \* pass the guards of whoever quotes f
    Config,                 \* ini settings: precompute, cache, fail, opcache
    Handles,                \* what can be included
    Nothing,                \* no version: a missing file, an empty base
    MaxCalls, MaxEvents     \* includes of a thread; edits and crashes together

\* The name of a handle means `path` to the engine (include_path, working directory)
\* and `anchored` to phpatcher (base_dir); an absolute name means the same to both.
\* Either may be a file outside the index, Nothing, which is there.  `base`: the last
\* part of the name is one of the index's basenames.
Handle == [path : Key \cup {Nothing}, anchored : Key \cup {Nothing},
           base : BOOLEAN, buffered : BOOLEAN]
Settings == [precompute : BOOLEAN, cache : BOOLEAN, fail : BOOLEAN, opcache : BOOLEAN]

ASSUME HookAssumption ==
    /\ IsFiniteSet(Thread) /\ Home \in [Thread -> Process]
    /\ Forking \in BOOLEAN
    /\ Forking => \A t, u \in Thread : Home[t] = Home[u] => t = u
    /\ Creates \subseteq Key /\ Quotes \in [Key -> SUBSET CorpusFile]
    /\ Halt \subseteq Version /\ Fits \in [Key -> SUBSET Version]
    /\ GoodCorpus \in [CorpusFile -> SUBSET Corpus]
    /\ Config \subseteq Settings /\ Handles \subseteq Handle
    /\ Nothing \notin Version \cup Corpus \cup Key

\* Each file of the corpus as it was when a reference first asked for it.  One that
\* cannot be read, or is not long enough, is one of the contents that fail a guard.
RefCache == [CorpusFile -> Corpus \cup {Nothing}]
NoCorpus == [f \in CorpusFile |-> Nothing]

\* What a handle holds: a path, an opened stream, or source in memory; and what
\* compiling it gives.  "source" is the file as it is on disk.
Content == [kind : {"path", "stream", "foreign", "patched", "stub", "torn", "source", "none"},
            key : Key \cup {Nothing}, base : Version \cup {Nothing}, corpus : RefCache]
Only(kind) == [kind |-> kind, key |-> Nothing, base |-> Nothing, corpus |-> NoCorpus]
Patch(k, b, q) ==
    [kind |-> "patched", key |-> k, base |-> b,
     corpus |-> [f \in CorpusFile |-> IF f \in Quotes[k] THEN q[f] ELSE Nothing]]
InMemory(content) == content.kind \in {"foreign", "patched", "stub", "torn"}

\* PatchSet::apply with the RefCache q: it reads the files it quotes one after the
\* other, and it fails at the first that a guard refuses, or at a command that does
\* not fit, before or after any reference.
BaseFits(k, b) == k \in Creates \/ b \in Fits[k]
Verified(k, q) == \A f \in Quotes[k] : q[f] \in GoodCorpus[f]
Applies(k, b, q) == BaseFits(k, b) /\ Verified(k, q)
Fails(k, b, q) == ~BaseFits(k, b) \/ \E f \in Quotes[k] : q[f] \in Corpus \ GoodCorpus[f]

VARIABLES
    cfg,
    disk, corpus,               \* the files of the index, and the corpus
    todo, warming, warmBase,    \* MINIT: keys to come, the key at hand, its original,
    warm, precomputed,          \* the RefCache, and g_precomputed
    cache,                      \* g_cache of each process
    reads, applies, skips,      \* g_read_failures, g_apply_failures, g_skipped_halt
    pc, handle, src,            \* each thread: where it is, the file handle and
    asker, key,                 \* its content, which hook called get_patched for what
    base, quoted, own, out,     \* get_patched: `original`, `refcache`, `owned`, `out`
    torn,                       \* the copy in progress was overwritten
    since,                      \* history: versions of the files a call names that
                                \* were on disk since it began
    missed,                     \* history: includes that did not get their patch
    edits, calls, respawns

world == <<disk, corpus>>
startup == <<cfg, todo, warming, warmBase, warm, precomputed>>
counters == <<reads, applies, skips>>
local == <<base, quoted, own, out, torn>>
bounds == <<edits, calls, respawns>>
vars == <<cfg, disk, corpus, todo, warming, warmBase, warm, precomputed, cache, reads,
          applies, skips, pc, handle, src, asker, key, base, quoted, own, out,
          torn, since, missed, edits, calls, respawns>>

\* Where a thread is in get_patched, which is only called for a key of the index.
Asking == {"lookup", "read", "apply", "store", "copy", "copying", "refused"}

TypeOK ==
    /\ cfg \in Config
    /\ disk \in [Key -> Version \cup {Nothing}] /\ corpus \in [CorpusFile -> Corpus]
    /\ todo \subseteq Key /\ warming \in Key \cup {Nothing}
    /\ warmBase \in Version \cup {Nothing} /\ warm \in RefCache
    /\ precomputed \in [Key -> Content]
    /\ cache \in [Process -> [Key -> Content]]
    /\ reads \in [Process -> Nat] /\ applies \in [Process -> Nat]
    /\ skips \in [Process -> Nat]
    /\ pc \in [Thread -> {"idle", "open", "compile", "lookup", "read", "apply", "store",
                          "copy", "copying", "refused", "orig", "done"}]
    /\ handle \in [Thread -> Handle] /\ src \in [Thread -> Content]
    /\ asker \in [Thread -> {"open", "compile"}] /\ key \in [Thread -> Key \cup {Nothing}]
    /\ base \in [Thread -> Version \cup {Nothing}] /\ quoted \in [Thread -> RefCache]
    /\ own \in [Thread -> Content]
    /\ out \in [Thread -> {"precomputed", "slot", "owned"}]
    /\ torn \in [Thread -> BOOLEAN]
    /\ since \in [Thread -> [Key -> SUBSET (Version \cup {Nothing})]]
    /\ missed \in [Process -> Nat]
    /\ \A t \in Thread : pc[t] \in Asking => key[t] \in Key
    /\ edits \in Nat /\ calls \in Nat /\ respawns \in Nat

\* Mutant: the setting is ignored.
WarmKeysAlways == Key
WarmKeys == IF cfg.precompute THEN Key ELSE {}

NoHandle == [path |-> Nothing, anchored |-> Nothing, base |-> FALSE, buffered |-> FALSE]
EmptyMap == [k \in Key |-> Only("none")]
NotSeen == [k \in Key |-> {}]

Init ==
    /\ cfg \in Config
    /\ disk \in [Key -> Version \cup {Nothing}] /\ corpus \in [CorpusFile -> Corpus]
    /\ todo = WarmKeys
    /\ warming = Nothing /\ warmBase = Nothing /\ warm = NoCorpus
    /\ precomputed = EmptyMap
    /\ cache = [p \in Process |-> EmptyMap]
    /\ reads = [p \in Process |-> 0] /\ applies = [p \in Process |-> 0]
    /\ skips = [p \in Process |-> 0]
    /\ pc = [t \in Thread |-> "idle"]
    /\ handle = [t \in Thread |-> NoHandle] /\ src = [t \in Thread |-> Only("none")]
    /\ asker = [t \in Thread |-> "compile"] /\ key = [t \in Thread |-> Nothing]
    /\ base = [t \in Thread |-> Nothing] /\ quoted = [t \in Thread |-> NoCorpus]
    /\ own = [t \in Thread |-> Only("none")]
    /\ out = [t \in Thread |-> "owned"] /\ torn = [t \in Thread |-> FALSE]
    /\ since = [t \in Thread |-> NotSeen]
    /\ missed = [p \in Process |-> 0]
    /\ edits = 0 /\ calls = 0 /\ respawns = 0

-----------------------------------------------------------------------------
(* phpatcher_precompute: key by key, in whatever order the index has them, *)
(* with one RefCache for all of them.                                      *)

\* Mutant: nobody looks for __halt_compiler.
HaltsNever(v) == FALSE
Halts(v) == v \in Halt

\* Mutant: a RefCache for each file.
WarmBeginFresh(k) ==
    /\ warming = Nothing /\ k \in todo
    /\ todo' = todo \ {k}
    /\ \/ k \in Creates /\ warming' = k /\ warmBase' = Nothing /\ warm' = NoCorpus
       \/ /\ k \notin Creates /\ disk[k] # Nothing /\ ~Halts(disk[k])
          /\ warming' = k /\ warmBase' = disk[k] /\ warm' = NoCorpus
       \/ /\ k \notin Creates /\ (disk[k] = Nothing \/ Halts(disk[k]))
          /\ UNCHANGED <<warming, warmBase, warm>>
    /\ UNCHANGED <<cfg, world, precomputed, cache, counters, pc, handle, src, asker,
                   key, local, since, missed, bounds>>

\* A file that is missing, or halts the compiler, is left to the hooks.
WarmBegin(k) ==
    /\ warming = Nothing /\ k \in todo
    /\ todo' = todo \ {k}
    /\ \/ k \in Creates /\ warming' = k /\ warmBase' = Nothing
       \/ /\ k \notin Creates /\ disk[k] # Nothing /\ ~Halts(disk[k])
          /\ warming' = k /\ warmBase' = disk[k]
       \/ /\ k \notin Creates /\ (disk[k] = Nothing \/ Halts(disk[k]))
          /\ UNCHANGED <<warming, warmBase>>
    /\ UNCHANGED <<cfg, world, warm, precomputed, cache, counters, pc, handle, src,
                   asker, key, local, since, missed, bounds>>

WarmQuote(f) ==
    /\ warming # Nothing /\ f \in Quotes[warming] /\ warm[f] = Nothing
    /\ warm' = [warm EXCEPT ![f] = corpus[f]]
    /\ UNCHANGED <<cfg, world, todo, warming, warmBase, precomputed, cache, counters,
                   pc, handle, src, asker, key, local, since, missed, bounds>>

WarmApply ==
    /\ warming # Nothing /\ Applies(warming, warmBase, warm)
    /\ precomputed' = [precomputed EXCEPT ![warming] = Patch(warming, warmBase, warm)]
    /\ warming' = Nothing /\ warmBase' = Nothing
    /\ UNCHANGED <<cfg, world, todo, warm, cache, counters, pc, handle, src, asker, key,
                   local, since, missed, bounds>>

\* A patch that does not apply now is tried again when its file is included.
WarmFail ==
    /\ warming # Nothing /\ Fails(warming, warmBase, warm)
    /\ warming' = Nothing /\ warmBase' = Nothing
    /\ UNCHANGED <<cfg, world, todo, warm, precomputed, cache, counters, pc, handle,
                   src, asker, key, local, since, missed, bounds>>

-----------------------------------------------------------------------------
(* The engine calls the hooks for an include.                              *)

MinitDone == todo = {} /\ warming = Nothing
Goto(t, label) == pc' = [pc EXCEPT ![t] = label]
OnDisk(k) == k \in Key => disk[k] # Nothing
Names(h) == {h.path, h.anchored} \cap Key

\* phpatcher_basename: an opened file shows the name the engine resolved.
ShowsListed(t) == IF src[t].kind = "stream" THEN handle[t].path \in Key ELSE handle[t].base

\* What phpatcher_resolve looks up: the file the engine opened, or would open; if
\* there is none, the name anchored at base_dir.
CanonicalPath(t) ==
    IF src[t].kind = "stream" \/ OnDisk(handle[t].path)
    THEN handle[t].path ELSE handle[t].anchored

Eligible(t) == ~InMemory(src[t]) /\ ShowsListed(t) /\ CanonicalPath(t) \in Key

\* The stream-open hook anchors every name at base_dir, include_path or not.
Created(t) == handle[t].base /\ handle[t].anchored \in Creates

\* The includes phpatcher answers for: a listed file under a name that shows it,
\* and that names it to phpatcher too or else exists as long as the include takes.
Covered(t) ==
    LET h == handle[t]
    IN  /\ h.base /\ ~h.buffered /\ h.path \in Key
        /\ h.path = h.anchored \/ Nothing \notin since[t][h.path]

\* OPcache opens the file before it calls the compile hook, the plain engine
\* only when no hook has supplied the source.
Begin(t, h) ==
    /\ MinitDone /\ pc[t] \in {"idle", "done"} /\ calls < MaxCalls
    /\ calls' = calls + 1
    /\ handle' = [handle EXCEPT ![t] = h]
    /\ src' = [src EXCEPT ![t] = Only(IF h.buffered THEN "foreign" ELSE "path")]
    /\ since' = [since EXCEPT ![t] =
                    [k \in Key |-> IF k \in Names(h) THEN {disk[k]} ELSE {}]]
    /\ Goto(t, IF cfg.opcache /\ ~h.buffered THEN "open" ELSE "compile")
    /\ UNCHANGED <<world, startup, cache, counters, asker, key, local, missed, edits,
                   respawns>>

\* The include is over; it missed its patch if it ran anything else.
End(t, content) ==
    LET p == Home[t]
        missing == content.kind \in {"source", "stub"} \/ (content.kind = "none" /\ Created(t))
    IN  /\ Goto(t, "done")
        /\ src' = [src EXCEPT ![t] = content]
        /\ missed' = IF Covered(t) /\ missing
                     THEN [missed EXCEPT ![p] = @ + 1] ELSE missed
        /\ own' = [own EXCEPT ![t] = Only("none")]
        /\ key' = [key EXCEPT ![t] = Nothing]
        /\ out' = [out EXCEPT ![t] = "owned"]

\* The stream-open hook takes a created file over, and no other.
OpenCreated(t) ==
    /\ pc[t] = "open" /\ Created(t)
    /\ asker' = [asker EXCEPT ![t] = "open"]
    /\ key' = [key EXCEPT ![t] = handle[t].anchored]
    /\ Goto(t, "lookup")
    /\ UNCHANGED <<world, startup, cache, counters, handle, src, local, since, missed,
                   bounds>>

Opened == IF cfg.opcache THEN "compile" ELSE "orig"

\* The opener of the engine.
OpenReal(t) ==
    /\ pc[t] = "open" /\ ~Created(t)
    /\ IF ~OnDisk(handle[t].path)
       THEN End(t, Only("none"))
       ELSE /\ src' = [src EXCEPT ![t] = Only("stream")]
            /\ Goto(t, Opened)
            /\ UNCHANGED <<missed, key, own, out>>
    /\ UNCHANGED <<world, startup, cache, counters, handle, asker, base, quoted, torn,
                   since, bounds>>

CompileHook(t) ==
    /\ pc[t] = "compile"
    /\ IF Eligible(t)
       THEN /\ asker' = [asker EXCEPT ![t] = "compile"]
            /\ key' = [key EXCEPT ![t] = CanonicalPath(t)]
            /\ Goto(t, "lookup")
       ELSE Goto(t, "orig") /\ UNCHANGED <<asker, key>>
    /\ UNCHANGED <<world, startup, cache, counters, handle, src, local, since, missed,
                   bounds>>

\* phpatcher_orig_compile_file: compiles the source in memory, else the stream;
\* a handle with neither is opened first, through the hook.
OrigCompile(t) ==
    /\ pc[t] = "orig"
    /\ IF src[t].kind = "path"
       THEN Goto(t, "open") /\ UNCHANGED <<src, missed, key, own, out>>
       ELSE End(t, IF InMemory(src[t]) THEN src[t] ELSE Only("source"))
    /\ UNCHANGED <<world, startup, cache, counters, handle, asker, base, quoted, torn,
                   since, bounds>>

-----------------------------------------------------------------------------
(* phpatcher_get_patched.                                                  *)

Pointer(t) == IF precomputed[key[t]].kind = "patched" THEN "precomputed" ELSE "slot"
\* Mutant: the lazy cache is written and never looked up.
HitPrecomputed(t) == precomputed[key[t]].kind = "patched"
Hit(t) == \/ precomputed[key[t]].kind = "patched"
          \/ cfg.cache /\ cache[Home[t]][key[t]].kind = "patched"

LookupHit(t) ==
    /\ pc[t] = "lookup" /\ Hit(t)
    /\ out' = [out EXCEPT ![t] = Pointer(t)]
    /\ Goto(t, "copy")
    /\ UNCHANGED <<world, startup, cache, counters, handle, src, asker, key, base,
                   quoted, own, torn, since, missed, bounds>>

\* A created file has no original to read: its base is empty.
LookupMiss(t) ==
    /\ pc[t] = "lookup" /\ ~Hit(t)
    /\ base' = [base EXCEPT ![t] = Nothing]
    /\ quoted' = [quoted EXCEPT ![t] = NoCorpus]
    /\ Goto(t, IF key[t] \in Creates THEN "apply" ELSE "read")
    /\ UNCHANGED <<world, startup, cache, counters, handle, src, asker, key, own, out,
                   torn, since, missed, bounds>>

\* Mutant: the counter runs backwards.
CountDown(counter, t) == [counter EXCEPT ![Home[t]] = @ - 1]
Count(counter, t) == [counter EXCEPT ![Home[t]] = @ + 1]

\* Mutant: a failed read is not counted.
CannotReadSilent(t) ==
    /\ pc[t] = "read" /\ disk[key[t]] = Nothing
    /\ Goto(t, "refused")
    /\ UNCHANGED <<world, startup, cache, reads, applies, skips, handle, src, asker,
                   key, local, since, missed, bounds>>

CannotRead(t) ==
    /\ pc[t] = "read" /\ disk[key[t]] = Nothing
    /\ reads' = Count(reads, t)
    /\ Goto(t, "refused")
    /\ UNCHANGED <<world, startup, cache, applies, skips, handle, src, asker, key,
                   local, since, missed, bounds>>

\* Mutant: a skipped file is passed to the engine, whatever on_error says.
SkipHaltOpen(t) ==
    /\ pc[t] = "read" /\ disk[key[t]] # Nothing /\ Halts(disk[key[t]])
    /\ skips' = Count(skips, t)
    /\ Goto(t, "orig")
    /\ UNCHANGED <<world, startup, cache, reads, applies, handle, src, asker, key,
                   local, since, missed, bounds>>

SkipHalt(t) ==
    /\ pc[t] = "read" /\ disk[key[t]] # Nothing /\ Halts(disk[key[t]])
    /\ skips' = Count(skips, t)
    /\ Goto(t, "refused")
    /\ UNCHANGED <<world, startup, cache, reads, applies, handle, src, asker, key,
                   local, since, missed, bounds>>

ReadOriginal(t) ==
    /\ pc[t] = "read" /\ disk[key[t]] # Nothing /\ ~Halts(disk[key[t]])
    /\ base' = [base EXCEPT ![t] = disk[key[t]]]
    /\ Goto(t, "apply")
    /\ UNCHANGED <<world, startup, cache, counters, handle, src, asker, key, quoted,
                   own, out, torn, since, missed, bounds>>

Quote(t, f) ==
    /\ pc[t] = "apply" /\ f \in Quotes[key[t]] /\ quoted[t][f] = Nothing
    /\ quoted' = [quoted EXCEPT ![t][f] = corpus[f]]
    /\ UNCHANGED <<world, startup, cache, counters, pc, handle, src, asker, key, base,
                   own, out, torn, since, missed, bounds>>

\* The original and the RefCache of the call are not used again.
Applied(t) ==
    base' = [base EXCEPT ![t] = Nothing] /\ quoted' = [quoted EXCEPT ![t] = NoCorpus]

Apply(t) ==
    /\ pc[t] = "apply" /\ Applies(key[t], base[t], quoted[t])
    /\ own' = [own EXCEPT ![t] = Patch(key[t], base[t], quoted[t])]
    /\ Applied(t)
    /\ Goto(t, "store")
    /\ UNCHANGED <<world, startup, cache, counters, handle, src, asker, key, out, torn,
                   since, missed, bounds>>

ApplyFails(t) ==
    /\ pc[t] = "apply" /\ Fails(key[t], base[t], quoted[t])
    /\ applies' = Count(applies, t)
    /\ Applied(t)
    /\ Goto(t, "refused")
    /\ UNCHANGED <<world, startup, cache, reads, skips, handle, src, asker, key, own,
                   out, torn, since, missed, bounds>>

\* Moving into the slot frees what the slot held, under the eyes of whoever in
\* the process is copying it.
Store(t) ==
    /\ pc[t] = "store"
    /\ IF cfg.cache
       THEN /\ cache' = [cache EXCEPT ![Home[t]][key[t]] = own[t]]
            /\ out' = [out EXCEPT ![t] = "slot"]
            /\ torn' = [u \in Thread |->
                  torn[u] \/ (/\ pc[u] = "copying" /\ out[u] = "slot"
                              /\ Home[u] = Home[t] /\ key[u] = key[t])]
       ELSE /\ out' = [out EXCEPT ![t] = "owned"]
            /\ UNCHANGED <<cache, torn>>
    /\ Goto(t, "copy")
    /\ UNCHANGED <<world, startup, counters, handle, src, asker, key, base, quoted, own,
                   since, missed, bounds>>

-----------------------------------------------------------------------------
(* Back in the hook.                                                       *)

Pointed(t) ==
    CASE out[t] = "precomputed" -> precomputed[key[t]]
      [] out[t] = "slot" -> cache[Home[t]][key[t]]
      [] OTHER -> own[t]

Return(t) == Goto(t, IF asker[t] = "open" THEN Opened ELSE "orig")

BeginCopy(t) ==
    /\ pc[t] = "copy"
    /\ torn' = [torn EXCEPT ![t] = FALSE]
    /\ Goto(t, "copying")
    /\ UNCHANGED <<world, startup, cache, counters, handle, src, asker, key, base,
                   quoted, own, out, since, missed, bounds>>

\* A copy of a slot that was replaced meanwhile reads freed memory: it may still
\* find the old text, or not.
EndCopy(t) ==
    /\ pc[t] = "copying"
    /\ \E content \in {Pointed(t)} \cup (IF torn[t] THEN {Only("torn")} ELSE {}) :
          src' = [src EXCEPT ![t] = content]
    /\ Return(t)
    /\ UNCHANGED <<world, startup, cache, counters, handle, asker, key, local, since,
                   missed, bounds>>

\* Mutant: a refused open is delegated to the opener of the engine.
RefuseDelegates(t) ==
    /\ pc[t] = "refused"
    /\ src' = [src EXCEPT ![t] = IF cfg.fail THEN Only("stub")
                                 ELSE IF asker[t] = "open" THEN Only("stream") ELSE src[t]]
    /\ IF cfg.fail \/ asker[t] = "open" THEN Return(t) ELSE Goto(t, "orig")
    /\ UNCHANGED <<world, startup, cache, counters, handle, asker, key, local, since,
                   missed, bounds>>

\* Fail and Skip: a stub if failing closed.  If not, the compile hook leaves the
\* handle as it is, and the stream-open hook fails the open.
Refuse(t) ==
    /\ pc[t] = "refused"
    /\ \/ /\ cfg.fail
          /\ src' = [src EXCEPT ![t] = Only("stub")]
          /\ Return(t)
          /\ UNCHANGED <<missed, key, own, out>>
       \/ /\ ~cfg.fail /\ asker[t] = "compile"
          /\ Goto(t, "orig")
          /\ UNCHANGED <<src, missed, key, own, out>>
       \/ /\ ~cfg.fail /\ asker[t] = "open"
          /\ End(t, Only("none"))
    /\ UNCHANGED <<world, startup, cache, counters, handle, asker, base, quoted, torn,
                   since, bounds>>

-----------------------------------------------------------------------------
(* The world outside.                                                      *)

\* A deploy writes, removes or restores a file; `since` collects what a call in
\* progress may have seen.
EditFile(k) ==
    /\ edits + respawns < MaxEvents
    /\ \E v \in (Version \cup {Nothing}) \ {disk[k]} :
          /\ disk' = [disk EXCEPT ![k] = v]
          /\ since' = [t \in Thread |-> IF k \in Names(handle[t]) /\ pc[t] \notin {"idle", "done"}
                                        THEN [since[t] EXCEPT ![k] = @ \cup {v}] ELSE since[t]]
    /\ edits' = edits + 1
    /\ UNCHANGED <<corpus, startup, cache, counters, pc, handle, src, asker, key, local,
                   missed, calls, respawns>>

EditCorpus(f) ==
    /\ edits + respawns < MaxEvents
    /\ \E v \in Corpus \ {corpus[f]} : corpus' = [corpus EXCEPT ![f] = v]
    /\ edits' = edits + 1
    /\ UNCHANGED <<disk, startup, cache, counters, pc, handle, src, asker, key, local,
                   since, missed, calls, respawns>>

\* A worker exits or crashes, in a call or between two, and the master forks
\* another: what MINIT computed is there, what the worker learnt is not.
Respawn(p) ==
    /\ Forking /\ MinitDone /\ edits + respawns < MaxEvents
    /\ respawns' = respawns + 1
    /\ cache' = [cache EXCEPT ![p] = EmptyMap]
    /\ reads' = [reads EXCEPT ![p] = 0] /\ applies' = [applies EXCEPT ![p] = 0]
    /\ skips' = [skips EXCEPT ![p] = 0]
    /\ missed' = [missed EXCEPT ![p] = 0]
    /\ pc' = [t \in Thread |-> IF Home[t] = p THEN "idle" ELSE pc[t]]
    /\ handle' = [t \in Thread |-> IF Home[t] = p THEN NoHandle ELSE handle[t]]
    /\ src' = [t \in Thread |-> IF Home[t] = p THEN Only("none") ELSE src[t]]
    /\ since' = [t \in Thread |-> IF Home[t] = p THEN NotSeen ELSE since[t]]
    /\ base' = [t \in Thread |-> IF Home[t] = p THEN Nothing ELSE base[t]]
    /\ quoted' = [t \in Thread |-> IF Home[t] = p THEN NoCorpus ELSE quoted[t]]
    /\ own' = [t \in Thread |-> IF Home[t] = p THEN Only("none") ELSE own[t]]
    /\ UNCHANGED <<world, startup, asker, key, out, torn, edits, calls>>

Serve(t) ==
    \/ \E h \in Handles : Begin(t, h)
    \/ OpenCreated(t) \/ OpenReal(t) \/ CompileHook(t) \/ OrigCompile(t)
    \/ LookupHit(t) \/ LookupMiss(t)
    \/ CannotRead(t) \/ SkipHalt(t) \/ ReadOriginal(t)
    \/ (\E f \in CorpusFile : Quote(t, f)) \/ Apply(t) \/ ApplyFails(t) \/ Store(t)
    \/ BeginCopy(t) \/ EndCopy(t) \/ Refuse(t)

Next ==
    \/ \E k \in Key : WarmBegin(k) \/ EditFile(k)
    \/ \E f \in CorpusFile : WarmQuote(f) \/ EditCorpus(f)
    \/ WarmApply \/ WarmFail
    \/ \E t \in Thread : Serve(t)
    \/ \E p \in Process : Respawn(p)

Spec == Init /\ [][Next]_vars

-----------------------------------------------------------------------------
(* Properties.                                                             *)

\* With on_error = fail the unpatched code never runs, whichever way the engine
\* takes, whichever step of get_patched fails and whatever is edited meanwhile:
\* an include of a listed file gives its patch or a throwing stub.  Only a real
\* file that OPcache cannot open gives nothing (README.md:128, Refuse).
FailClosed ==
    \A t \in Thread : pc[t] = "done" /\ cfg.fail /\ Covered(t) =>
        \/ src[t].kind \in {"patched", "stub", "torn"}
        \/ src[t].kind = "none" /\ ~Created(t) /\ cfg.opcache

\* A name that base_dir makes a created file never runs from disk, should a file be
\* there, by that name or by one the engine finds first: not even fail-open, where the
\* compile hook lets a refused file through to the engine.
CreatedNeverFromDisk ==
    \A t \in Thread : pc[t] = "done" /\ Created(t) => src[t].kind # "source"

\* What is stored or served as the patch of a file was made from one version of a file
\* the handle names which the patch fits and which does not halt the compiler, and from
\* corpus files that passed their guards; the check and the use see one read.
MadeFor(k, content) ==
    content.kind = "patched" =>
        /\ content.key = k
        /\ BaseFits(k, content.base) /\ content.base \notin Halt
        /\ Verified(k, content.corpus)
Provenance ==
    /\ \A k \in Key : MadeFor(k, precomputed[k])
    /\ \A p \in Process, k \in Key : MadeFor(k, cache[p][k])
    /\ \A t \in Thread : src[t].kind = "patched" =>
          src[t].key \in Names(handle[t]) /\ MadeFor(src[t].key, src[t])

\* Whatever is edited during the warm-up, all precomputed files that quote a file of
\* the corpus quote the same state of it, for one RefCache serves the whole warm-up.
\* Two files of the corpus may be of different moments: each is read when it is first
\* quoted.
WarmupSnapshot ==
    \A j, k \in Key : precomputed[j].kind = "patched" /\ precomputed[k].kind = "patched" =>
        \A f \in Quotes[j] \cap Quotes[k] :
            precomputed[j].corpus[f] = precomputed[k].corpus[f]

\* In a worker with one thread, a cached patch stays the same for the life of
\* the worker: once missed, looked up, read, applied and stored, never again.
SlotsKept ==
    \A t \in Thread, k \in Key :
        (\A u \in Thread : Home[u] = Home[t] => u = t)
        /\ cache[Home[t]][k].kind = "patched" /\ respawns' = respawns
            => cache'[Home[t]][k] = cache[Home[t]][k]
SlotsAreStable == [][SlotsKept]_vars

\* phpatcher_stats() tells of every include of a listed file that ran anything
\* else than its patch (phpatcher.cpp:649): there are at least as many failures
\* as such includes, with any threads counting at once.
MissesAreCounted ==
    \A p \in Process : missed[p] <= reads[p] + applies[p] + skips[p]

\* Without precompute and cache a listed file is patched from a version that was on
\* disk at some moment of the include: this is what switching them off buys.  With
\* either, an edited source is served as it was patched first.
Fresh(t, content) ==
    content.key \notin Creates => content.base \in since[t][content.key]
FreshPatch ==
    ~cfg.precompute /\ ~cfg.cache =>
        \A t \in Thread : pc[t] = "done" /\ src[t].kind = "patched" => Fresh(t, src[t])

\* No include compiles a source that another thread was freeing meanwhile.
NoTornSource == \A t \in Thread : src[t].kind # "torn"

-----------------------------------------------------------------------------
(* The inductive invariant of the proofs.                                  *)

\* The text on its way through get_patched is fit for the key at every step.
PatchFor(k, content) == content.kind = "patched" /\ MadeFor(k, content)
InTheMaking ==
    \A t \in Thread :
        /\ pc[t] \in Asking => key[t] \in Names(handle[t])
        /\ pc[t] = "apply" => base[t] \notin Halt
        /\ pc[t] = "store" => PatchFor(key[t], own[t])
        /\ pc[t] \in {"copy", "copying"} => PatchFor(key[t], Pointed(t))

\* The precomputed texts quote what the RefCache holds.
WarmIsQuoted ==
    \A k \in Key : precomputed[k].kind = "patched" =>
        \A f \in Quotes[k] : warm[f] # Nothing /\ precomputed[k].corpus[f] = warm[f]

\* The key at hand has a base to be patched.
WarmFits == warming \in Key => warmBase \notin Halt

\* A call in progress has something to compile, a created file never a stream.
SourceKinds ==
    \A t \in Thread :
        /\ pc[t] \notin {"idle", "done"} => src[t].kind \notin {"none", "source"}
        /\ Created(t) => src[t].kind \notin {"stream", "source"}

\* Under fail-closed a listed file reaches the compiler of the engine in memory.
ClosedSoFar ==
    \A t \in Thread : cfg.fail /\ Covered(t) =>
        /\ pc[t] = "open" => cfg.opcache
        /\ pc[t] = "compile" => src[t].kind # "foreign"
        /\ pc[t] = "orig" => src[t].kind \in {"patched", "stub", "torn"}

\* The one thread of a process that works on a patch has found no slot for it.
SlotIsFree ==
    \A t \in Thread :
        (\A u \in Thread : Home[u] = Home[t] => u = t) /\ cfg.cache
        /\ pc[t] \in {"read", "apply", "store"}
            => cache[Home[t]][key[t]].kind # "patched"

\* An include whose failure is counted and which has not ended yet; a process owes
\* at most as many misses as it has counted and not told.
Owed(t) ==
    /\ Covered(t)
    /\ \/ pc[t] = "refused"
       \/ pc[t] = "open" /\ ~cfg.opcache /\ ~Created(t)
       \/ pc[t] \in {"compile", "orig"} /\ src[t].kind = "stub"
       \/ pc[t] = "orig" /\ src[t].kind \in {"path", "stream"}
Owing(p) == {t \in Thread : Home[t] = p /\ Owed(t)}
Counted(p) == reads[p] + applies[p] + skips[p]
Ledger == \A p \in Process : missed[p] + Cardinality(Owing(p)) <= Counted(p)

\* What is on disk now is among the versions a call in progress may have seen.
Active(t) == pc[t] \notin {"idle", "done"}
Seen ==
    \A t \in Thread : Active(t) => \A k \in Names(handle[t]) : disk[k] \in since[t][k]

\* With nothing kept from one include to the next, a text on its way to the engine was
\* made from a version on disk since the include began.
NothingKept ==
    /\ todo = {} /\ warming = Nothing
    /\ \A k \in Key : precomputed[k].kind # "patched"
    /\ \A p \in Process, k \in Key : cache[p][k].kind # "patched"
FreshThread(t) ==
    /\ pc[t] = "apply" => key[t] \in Creates \/ base[t] \in since[t][key[t]]
    /\ pc[t] \in {"store", "copy", "copying"} => Fresh(t, own[t])
    /\ pc[t] \in {"copy", "copying"} => out[t] = "owned"
    /\ src[t].kind = "patched" => Fresh(t, src[t])
FreshSoFar ==
    ~cfg.precompute /\ ~cfg.cache => NothingKept /\ \A t \in Thread : FreshThread(t)

IInv == TypeOK /\ Provenance /\ InTheMaking /\ WarmIsQuoted /\ WarmFits /\ SourceKinds
        /\ ClosedSoFar /\ FailClosed /\ SlotIsFree /\ Ledger /\ Seen /\ FreshSoFar
=============================================================================
