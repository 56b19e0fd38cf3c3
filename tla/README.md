# A verification project for phpatcher

phpatcher is a PHP extension that patches source files in memory as they are
compiled, with a set of command line tools that make the patches. A patch is a
*bundle* of ed scripts, one section for each file, whose text may quote lines of a
corpus of files that are already deployed.

This directory holds TLA+ modules translated from the source, TLC configurations
that check them on small instances, and proofs for TLAPS. `PROJECT.json` maps each
definition to the lines it stands for and lists the runs, the mutants that show
each property can fail, the findings, the hazards and the theorems.

    tlc -config HookWorkers.cfg MCCompileHook.tla     # a run
    tlapm CompileHook_proofs.tla                      # the proofs of a module

## 1. Inventory

| Part | Source | State it keeps | Operations |
|---|---|---|---|
| ed-script engine | `patch.cpp` 320-442, `patch.hpp` | per call: the buffer of lines, the text under construction, the barrier of validation | `validate_command_order`, `apply_ed_script`, `build_input` |
| bundle parser and index | `patch.cpp` 290-298, 450-682 | `index_` (sorted), `basenames_`; while parsing the open section and the open command | `parse_ed_bundle`, `finalize`, `recanonicalize`, `find`, `has_basename` |
| number reader, r-directives | `patch.cpp` 95-279, `changes.cpp` 353-429 | the place in the line, the field so far | `read_uint`, `parse_decimal_full`, `parse_quoted`, `parse_guard_tokens`, `parse_r_directive`; `quote_ed`, `emit_ref` |
| corpus resolver | `phpatcher.cpp` 284-364 | `RefCache`, for one call or for the warm-up | read once, range, length and hash guards |
| hooks | `phpatcher.cpp` 160-582, 710-739 | `g_precomputed`, `g_cache` and its mutex, the counters, `g_last_error` | `phpatcher_precompute`, `phpatcher_get_patched`, stream-open, compile and resolve hooks |
| start and stop | `phpatcher.cpp` 741-878 | `g_patchset`, three saved pointers | MINIT, MSHUTDOWN |
| OPcache binding | `phpatcher.cpp` 797-801 | the engine's build id (external) | `zend_add_system_entropy` |
| introspection | `phpatcher.cpp` 597-684, 880-926 | none | reads the counters and the index |
| corpus indexer | `tools/indexer.cpp` | the index; for `--normalize`: shared cursor, result of each worker; the index file | serial build, parallel build, merge, `write_index`; `Index::load` of its readers |
| normalizer coprocess | `tools/normalizer.hpp`, `normalize.php` | two pipes, a read buffer | start, request, answer, EOF, reap |
| block factorizer | `tools/matcher_core.hpp` | covered lines, runs | `factorize` |
| patch generator | `tools/changes.cpp` | `DiffPayload`, changes | libgit2 callbacks, emission of commands, references, literals |
| matcher command | `tools/matcher.cpp` | none of its own | a report of what `factorize` finds |

How they interact. MINIT reads and parses the bundle, re-keys the index with the
engine's resolver, warms `g_precomputed`, and puts its functions at the head of the
engine's chains. An include then goes through the resolve hook, with OPcache
through the open hook, and through the compile hook; these call
`phpatcher_get_patched`, which looks in `g_precomputed` and `g_cache`, and otherwise
reads the file and calls the ed-script engine, which calls the resolver back for
every reference. OPcache keeps what was compiled under a build id that MINIT has
extended. Offline, the indexer builds an index of the corpus with a pool of
threads and one `php` coprocess each; the generator takes a libgit2 diff, reads
the index file, asks `factorize` for runs that copy the corpus and writes the bundle
that an extension will parse.

Which behaviours are hard, and what makes each part correct:

* **Engine.** Commands carry original line numbers and act on a buffer that
  renumbers. That is right because of a rule on their order, checked once, whose
  bounds differ for each kind of command. *Correct*: validation accepts exactly what
  can be applied in turn, the result is that of addressing the original lines, and
  a failing script gives nothing.
* **Resolver.** Corpus files change while they are quoted. *Correct*: one call sees
  one state of each file; a hash admits only the intended text.
* **Hooks.** Files are edited between startup, read, check and compile; threads
  share a cache; a call fails at many places; the two hooks look a name up differently. *Correct*: what is served for a key
  was made for that key from one good read; under `on_error = fail` a listed file is
  never compiled from disk; every miss is counted.
* **Start and stop.** Other extensions hook the same pointers and leave in any
  order. *Correct*: calls reach the engine and nobody else is dropped.
* **OPcache.** Servers share one directory of compiled code. *Correct*: a server
  runs its own patch's output.
* **Parser.** Texts may contain anything, sections may be empty, two paths may be
  one file, the bundle may be cut anywhere. *Correct*: every line of the bundle is in
  the index once, under its own header, and is found.
* **References.** Two programs write and read quoted paths, pads and guards in a line
  that is text when it is not quite a directive. *Correct*: what was written is read;
  no number wraps.
* **Indexer.** Threads, forks, a coprocess that dies, a file written in place.
  *Correct*: who reads the file has the index of a serial build, or the one before
  it, or refuses; the program ends; no child stays.
* **Coprocess.** Bounded pipes, reads that stop anywhere, a scratch buffer for what
  straddles two of them. *Correct*: the lines delivered for a file are those of the
  answer for it; nothing is left over; neither side waits for ever.
* **Factorizer and generator.** Stale index, greedy covering, pieces that must
  meet, callbacks cut into changes. *Correct*: runs are copies, disjoint and
  maximal; the pieces expand to the block; the script makes the new file of the old.

The file and line of every hazard, with the properties that watch it, is in
`PROJECT.json`.

## 2. Modules

| Module | Stands for | Composition |
|---|---|---|
| `EdCommands` | lines, files, commands, references; what splitting, joining, padding, a range check and a splice do | extended by `EdOriginal`, `EdScript`, `Factorize`, `EmitAdded`, `Changes` |
| `EdOriginal` | the promise of a script: commands address the original lines | instantiated by `EdScript` with a refinement mapping |
| `EdScript` | one call of `apply`, step by step, with the resolver and a corpus that others rewrite | |
| `ReadUint` | the digits of a number into a machine word | extended by `Directive` |
| `Directive` | a reference to the corpus as a line: written by the generator, read by the engine, character by character | the readers of `ReadUint` read its numbers |
| `CompileHook` | warm-up and includes by threads and workers | takes "the patch applies" as a relation, which `EdScript` refines |
| `HookChain` | MINIT and MSHUTDOWN among other extensions | |
| `OpcacheBind` | servers that share OPcache's file cache | |
| `IndexBuild` | the parallel `--normalize` build against the serial one | extended by `IndexFile` |
| `IndexFile` | the index file: written by the build, cut short, read by the tools | |
| `NormalizerPipe` | one tool and its coprocess over two bounded pipes | |
| `Factorize` | runs of a block that copy the corpus | extended by `EmitAdded` |
| `EmitAdded` | writing a block as references and literals, and what the engine makes of them | its check uses the resolver and `Transform` of `EdCommands` |
| `Changes` | the walk over a git diff; libgit2 callbacks to changes to the lines of a bundle | extended by `Pipeline` |
| `PatchBundle` | parsing, re-keying, lookup | instantiated by `Pipeline` |
| `Pipeline` | generator, bundle file, parser, engine: the way of a patch | `Changes` and `PatchBundle` side by side; its properties run the engine's `Splice` on what was parsed |

`MCx` instantiates `x` for TLC, `x_proofs` holds its theorems, with two exceptions:
`Startup_proofs` those of `HookChain` and `OpcacheBind`, `Indexer_proofs` those of
`IndexBuild`, `IndexFile` and `NormalizerPipe`. `EmitAdded_proofs` covers what it inherits from
`Factorize`, `Pipeline_proofs` both halves of it, `Changes` and `PatchBundle`. `EdLemmas` has no theorem about the code: it
holds the lemmas on sequences and on the operators of `EdCommands` that several of
these proofs use.

### How state and actions correspond to the code

**EdCommands.** A line is `[lead, core, trail]`: blanks before, a code, blanks after,
because that is what the conversions treat apart. There are two notions of a blank:
`match::trim` of the generator takes form feeds and vertical tabs too (`"ff"`),
`trim_blanks` of the engine stops at one (`TrimBlanks`); a CR goes before a newline of the
corpus (`Chomp`). A few cores are complete, guarded r directives, `ReadsAs` says of which
reference: `ReadPiece` is `parse_ed_input_piece`, which takes a line of a text for one if it
begins with such a core and has only spaces after it. `Splice` is the
erase and insert of the four commands, `InRange` their range checks, `AddressedTop`
and `AffectedLow` the two numbers of `validate_command_order`.

**EdScript.** `phase` and `k` are the two loops: `ValidateCommand` or `RejectOrder`
for each command, `StartApply`, then `DeleteLines`, `BeginInput` or `OutOfRange`,
`LiteralPiece`, `ResolvePiece` or `NoResolver` for each piece, `EndInput`, `Finish`.
`cache` is `RefCache`. `EditCorpus` rewrites a corpus file at any moment. `barrier`
lives on after validation only to state properties.

**CompileHook.** Contents are versions: `Fits[k]` are those the patch of `k` applies
to, `Halt` those with `__halt_compiler`. A compiled source records the key, the version
and the corpus contents it was made from. A handle says what its name means to whom: `path`
to the engine (include_path, working directory), `anchored` to phpatcher (`base_dir`), and
`base` whether its last part is a basename of the index. The open hook asks for `anchored`
only (`Created`), the compile hook for the file the engine opened or would open, and for
`anchored` when there is none (`CanonicalPath`). `RefCache` has a content for each corpus
file that was asked for: `Quote`, and `WarmQuote` in the warm-up, read one file each, so edits
come between them, and one `warm` serves all keys of the warm-up (`WarmBegin`, `WarmApply`,
`WarmFail`). `since` is a history: what was on disk of the files a handle names since the
include began. `g_last_error`, which only `phpatcher_last_error` reads, is left out. `pc` walks a thread through the hooks and through
`get_patched` (`lookup`, `read`, `apply`, `store`, `copy`); every place where the code
gives up a lock or reads a file ends a step. `Forking` distinguishes workers forked
after MINIT, with memory of their own, from threads in one process. A copy from a
slot of `g_cache` takes two steps, and a store in between makes it `torn`: in C++
that is a read of freed memory, so its outcome is a value of its own.

**HookChain.** A pointer is the name of the extension it points to; the chain behind
it is what each extension saved. All extensions start before any stops. The neighbours take
themselves out of a chain only when they are its head, as phpatcher does; a neighbour that
restores what it saved whoever is the head would drop others by its own doing. Unloading
(dlclose) is not modelled: a pointer is forgotten when its extension has shut down.

**OpcacheBind.** `Id` is what was added to the build id. `disk` is the file cache, a
map from ids to code, kept for ever; `failing` files have a patch that would not
apply now.

**PatchBundle.** A line of the bundle is one of the kinds the parser tells apart; a
command is the number of its line and those of its text, so that a lost or doubled
line shows. `std::sort` leaves entries of one key in any order. There is one action
for each kind of line inside and outside a text, then `Finalize` and
`Recanonicalize`.

**Changes.** `main` walks over `deltas`; `Encodable` ones are written as a new file
(`EmitNewFile`) or diffed. `events` are libgit2's callbacks for an alignment of old
and new lines: hunks with their context, the removed lines of a group first, the
markers for a missing newline. `DiffPayload` is `changes`, `in_change`, `current`,
`last_old`; `EmitChange` takes the changes from the last. The output is a sequence of
the tokens that `PatchBundle` reads. Which alignments libgit2 may give is `Possible`:
it keeps only lines that are the same in both files.

**Pipeline.** `Deploy` hands the parser what the generator wrote, or a part of it
(`Parts`: cut between two lines, or in one, with what then `Remains` of that line), or
a bundle written by hand. `Script` is what the engine gets of an entry: every line of a
text read by `ReadPiece`, a literal or a reference (`ReadCommand`). `Patched` is what it makes
of a file, in pieces: references are not resolved here, which is the business of `EdScript`.

**ReadUint, Directive.** One digit a step; `number` is the exact number, kept beside
the word. A line is a sequence of characters, in which "s:" and a hash guard with its
32 digits count as one each; `field` is where `parse_r_directive` stands, "literal" is
every `return false` of it. `NumberDigit` takes the digit with the action of
`ReadUint`, so that the two agree.

**IndexBuild.** Process 0 is the indexer, process `w` the coprocess of worker `w`.
`held[w]` is the set of processes that hold the write end of the pipe to coprocess
`w`: a child inherits those of the children before it (no close-on-exec). `order` is the order in which
`vector::clear` destroys, which the standard leaves open. `found`, `merged`, `index`
are the partial results, the merge and the output. `Sorted` puts each posting at its
place, the number of those that are not after it: `std::sort` by its result.

**IndexFile.** `disk` is the file as a sequence of fields. `Write` truncates it and
writes any part; `Flush`, the destructor of the stream, may or may not write the rest.
`Load` reads field by field, as `Index::load` does, and dies where one is missing.

**NormalizerPipe.** A byte has few values and a u32 few bytes. `WriteSome` and `Hear`
move as many bytes as there are or fit, or fewer; `Fill` is the bulk read into the
read buffer, `Gather` what `read_all` and the scratch buffer collect, `ViewInBuffer` and
`ViewInScratch` the two answers of `read_view`; `Hear`, `Announced`, `Answers` and `Speak`
are the loop of `normalize.php`. `ChildDies` ends the coprocess anywhere. The end of the
module says what is on its way at each place of the exchange (`Asked`, `Answered`,
`Quiet`), which is what the proofs are about.

**Factorize, EmitAdded.** `todo` are the anchors left, taken from the rarest, ties in
any order; `index` comes from one state of the corpus and `corpus` may be another.
Lines of a block may lie in a string that the block begins (`Quoted`): such strings stand
for heredocs without variables, each a single token of many lines. For one with a single
line of text the answer of `normalize.php` lacks the mark for indivisible lines
(normalize.php:108, at least two), which changes nothing here because the mark is dropped in any
case (`Key`). The index takes keys by their length (`IndexedKeys`); blanks at the end of a
comment, which its token holds, are left out of the keys. `EmitAdded` writes the pieces: whole
runs, exact, padded and blank stretches, literals, all as they are; `Expand` reads each back
as the engine does.

## 3. Runs

The type invariants of `EdScript` and `CompileHook` are checked by their runs and
proved; those of `HookChain`, `OpcacheBind` (`BindTypeOK`), `ReadUint` and `PatchBundle` are proved; that of
`Factorize` is proved as part of its invariant; those of the other modules (`TypeOK`,
`EmitTypeOK`) hold on the same instances, and are a line in the .cfg away. Deadlock is
not checked: each model is a call, a build or an exchange that ends, or a history with
a bound on edits, calls or restarts.

| Run | Asks | Bounds, and why they suffice |
|---|---|---|
| `EdScriptCalls` | is validation exact; does the buffer implement original addressing; does one call see one corpus | all scripts of up to 3 commands with addresses 0..3 on files of up to 2 lines: each pair of kinds meets at every relative position, and a third command sees a buffer that two have changed; addresses go past the end. Beside them, scripts with two references over two corpus files with four versions each (drift of equal length, shorter, unreadable), rewritten at any step. Beyond the bound: proved (with `PrefixIntact`, the part of the argument that is not in the run) |
| `HookWorkers` | fail-closed, provenance, one warm-up state of each corpus file, counters, created files, freshness when nothing is kept | one forked worker, a real and a created file, by their absolute names, by a link that does not show the name, with the source in memory, and by four relative names of which include_path and `base_dir` make two files or one of them none of the index; two corpus files that both patches or one of them quotes, one whose changes pass the guards and one whose do not; every ini setting; `MaxEvents` 2 edits and crashes together, `MaxCalls` 2: enough to edit between any two reads and to include before and after. What a created file holds on disk is never read, so it is plain (`PlainCreated`); a relative name has one candidate in include_path. Workers share no memory, so a second one would add nothing. Beyond: proved |
| `Directive` | is a reference read as it was written; are numbers exact, with no overflow | every path of up to 3 characters out of 11 that the quoting treats apart, every pad of up to 2, both guards; by hand every line one character away from three references, and every number of up to `MaxDigits` = 4 digits for a word of 7 bits (`MAX` = 127), 78 times past its end. Beyond: the numbers are proved for any word and length |
| `HookChain` | do hooks survive any neighbours | two other extensions, on either side or both on one, and two starts with other settings. Beyond: proved |
| `OpcacheShared` | does a bound server run its own patch | two servers, two patches, two base directories, settings that change at restart. Beyond: proved |
| `IndexParallel` | does who reads the index file have the index of a serial build, the old one, or an error; does the build end and leave no child | up to 3 files that share keys, are empty or unreadable, `MaxJobs` 3, `MaxDeaths` 1, destruction from the last, a file of the older format on disk, and a write that stops after any field. Beyond: proved, except `Terminates` and `NoOrphans` |
| `NormalizerPipe` | are the lines delivered those of the answer; is nothing left over; do both sides end | 3 requests (the third meets what two may have left), pipes of 2 bytes and a buffer of 3 against answers of 2 to 14 bytes: every field of an answer straddles a read somewhere, keys are empty, shorter and longer than the buffer, and each side meets a full pipe. Beyond: proved, except `BothEnd` |
| `EmitBlocks` | are runs copies, disjoint, maximal, and nothing missed; do the pieces pass their guards and expand to the block | blocks of up to 4 plain lines, or 3 with indentation and blanks, with form feeds, with a line that reads as a reference, or with a string, over four corpora of two files (CR line ends, other spacing, an empty file, feeds and a line that reads as a reference), each indexed from each, minimal runs of 0, 2 and 3, with and without hashes. Beyond: proved |
| `Pipeline` | does a diff come out as the new file; what does half a bundle do; is the parser lossless and the lookup exact | all diffs of up to 5 lines, pairs of changes 6 or 7 lines apart (hunks with 3 lines of context join or part), two and three files of every status, and two names of one file, an added file of up to 7 lines; an added line that reads as a reference, one that is a lone dot, CRs; every part of an output of up to `MaxCut` = 16 lines, which holds two sections with texts; by hand all bundles of up to 4 lines of any kind and 6 of the kinds that build sections. The resolver swaps keys. Beyond: proved, for any diffs, hunks, bundles and cuts |

Each property of these runs has a mutant in `PROJECT.json`: a plausible bug in a
definition that models code, under which TLC finds the property violated.

### Findings

Runs that expect a violation; each quotes the sentence the code does not keep.

| Run | The code | The text |
|---|---|---|
| `HookTorn` | a second store to a slot of `g_cache` frees the text another thread is copying | comment of `phpatcher_get_patched` on stable buffers, README on thread safety |
| `IndexReap` (bug) | destroyed from the first, a coprocess waits for an EOF that a later one holds back, and the indexer waits for it | "dtor closes pipes (EOF) and reaps each coprocess" |
| `EmitStrings` (bug) | a line inside a string or heredoc of an added block is written as a padded reference to a line of code with other spacing (`changes.cpp:506`): `normalize_block_keys` drops the mark that `normalize.php` gives such lines | README.md:300, "strings, heredocs/nowdocs and multi-line tokens stay byte-safe" |

### Fairness

`IndexBuild` (and `IndexFile`, which extends it) and `NormalizerPipe` have some.

* `IndexBuild`: weak fairness of the main thread, of each worker thread and of the
  exit of a coprocess whose input has ended: the operating system schedules runnable
  threads and processes, the mutex-free loop of a worker has no step that waits for
  another worker, and `normalize.php` leaves its loop when it reads the end of its
  input. The rest of the index file is written when the stream is destroyed: that is
  not assumed to succeed, so `Flush` is not fair.
* `NormalizerPipe`: weak fairness of the tool and of the coprocess, each one sequential
  process: a `write` to a pipe with room and a `read` of one with bytes return, and both
  loops go on. How many files there are is bounded (`MaxRequests`), so the tool that
  goes on comes to its end.

Nothing is assumed of deaths. The other models are safety only: a call of the engine
is a loop over finite lists, and whether an include ever comes is up to the server.

## 4. Proofs

For every value of the constants that satisfies the assumptions named in the modules
(`HookAssumption`, `HookChainAssumption`, `OpcacheAssumption`, `IndexAssumption`, `EarlierAssumption`, `FactorizeAssumption`,
`CoreAssumption` of `EdCommands`, the two of `EdScript`, those of `ReadUint` and `Directive`, `PipeAssumption`,
`ChangesAssumption` and `PipelineAssumption`): they say what the sets are sets of, that
created files are listed and keys are numbers, that threads are finitely many and in
forking mode a process has one, that normalizing a normalized key changes nothing,
which lines a diff keeps and that its lines are lines, that the cores that read as r directives are complete references (a range from 1 upwards and a guard), that a path is not the mark for
a missing one, that addresses are below the largest integer (which
`ReadUint` proves of the reader), that a delete has no text (`parse_ed_command`), that
a reference to be written is a range of lines whose numbers `read_uint` can take and has
pads only when it is trimmed and a length only when it has no hash, that a pipe and a
buffer hold at least one byte, and that a number of the framing has one to four bytes,
of any radix, and suffices for the lengths it is to hold, that there are finitely many
keys, and that an index file from before is one `write_index` could have written with the
same `--max-postings`, without flags if its version is 1.

The invariants of the proofs that stand in a module of the model and in no run (`IInv`,
`TextInv`, `StreamInv`, ...) hold on the instances of the runs; each is a line in a .cfg
away.

| Theorem | Says | Argument |
|---|---|---|
| `EdScript_proofs!TypeCorrect` | `[]TypeOK` | inductive; needs that an accepted range is inside the buffer |
| `EdScript_proofs!OrderCorrect`, `AddressingCorrect` | validation is exact; ranges checked against the buffer are ranges of the original, the prefix is intact | `IInv`: while validating, the barrier is the least affected line of the commands so far and each command tops below those before it; while applying, the commands descend, the barrier is the affected line of the last one, and under it the buffer is the original. `PrefixIntact` alone is not inductive: the next command keeps it only because validation put it below the barrier |
| `EdScript_proofs!Refinement` | `Spec => ImplementsOriginal` | maps the lines from the barrier on to `tail`; lemmas on cutting and joining sequences (`SpliceTail`); every step that is not a command's last is a stutter |
| `EdScript_proofs!SnapshotCorrect`, `HashesCorrect` | the output is what one version of each quoted file gives, or with hashes what the author meant, whoever rewrites the corpus during the call | `TextInv`: what the cache holds was read once and from some version (`CacheIsRead`); the buffer is the original with the texts of the commands so far, as the cache has them, at their original lines; inside a command, `ins` is the text of the pieces so far (`QuotedSoFar`). The output is said with no buffer and no cache, as lines kept and texts put in (`Patched`), so the proof has two halves: a step of the engine is a step of this description (`Patched` of one command more is a splice), and filling the cache for one file changes the text of no reference that was resolved before |
| `CompileHook_proofs!TypeCorrect`, `ProvenanceHolds`, `FailClosedHolds`, `CreatedStaysVirtual`, `OneWarmupCorpus` | the hook's invariants | `IInv`: what each thread holds in `base`, `own`, `out` at each `pc` is fit for its key (`InTheMaking`), which kind of source it can have there (`SourceKinds`, `ClosedSoFar`), and that what is precomputed quotes `warm`, corpus file by corpus file, where `warm` has been read and is not read again (`WarmIsQuoted`). For names that mean two files, `Seen` ties what is on disk to `since`: a file that was there all through the include is found by its path, so the compile hook asks for it (`ClosedSoFar`). A created file of `base_dir` never becomes a stream (`SourceKinds`). One frame lemma shows that a step of one thread, an edit or a restart keeps what concerns another thread; the rest is one lemma for each step |
| `CompileHook_proofs!SlotsStayStable` | `[][SlotsKept]_vars` | a worker between its miss and its store sees its slot free (`SlotIsFree`), which holds with one thread for each process and fails, as `HookTorn` shows, with two |
| `CompileHook_proofs!MissesCounted` | `[]MissesAreCounted`, for any number of threads counting at once | `Ledger`: the misses noted, together with the threads whose failure is counted and whose include has not run yet, are at most what is counted; a step of one thread puts one thread into that set or takes it out. Cardinalities of finite sets |
| `CompileHook_proofs!FreshWhenNothingKept` | `[]FreshPatch` | `FreshSoFar`: with both settings off nothing is ever precomputed or cached, what is on disk now is among the versions a call in progress may have seen, and what the thread holds in `base`, `own` and `src` was made from one of them; an edit only adds to these versions |
| `Directive_proofs!TypeCorrect`, `ReadsExactly`, `RefusesOnlyTooBig`, `NumbersOfALine` | exact reading, addresses below the maximum, nothing refused that fits: of the readers by themselves and within any line | the word is the exact number while it is at most the bound; linear arithmetic. The parser starts a reader afresh for each field and moves it only by its own actions |
| `Directive_proofs!ReferencesComeBack` | `[]RoundTrip`: what `emit_ref` writes is read as what was meant, for any characters, any numbers that fit, any word size | `LineInv`: in each field, what is left of the line is the rest of that field and then all that `emit_ref` writes after it (`AfterPath` ... `AfterRpad`), and what is read so far agrees with the reference. A quoted text is left as the escapes of the rest of the text, whose first decides the step; the digits read are those of a prefix of the number (`DecimalPrefix`), hence of a number no larger, so that the reader has never a reason to refuse, and the number they make is the one that was written (`DecimalUnique`) |
| `Indexer_proofs!ReapingIsFree` | no coprocess that is waited for is kept alive by one that comes later | `IInv`: pipe `w` is held only by the indexer and by coprocesses forked after `w`; destroyed from the last, those are gone |
| `Indexer_proofs!KeysAreAnswers`, `NothingIsLeftOver` | each file gets the lines of its own answer and nothing else stays in a pipe or buffer, for any sizes of pipes, buffer, reads and writes, and a coprocess that dies anywhere | `StreamInv`: the bytes between tool and coprocess, joined in the order they will be read (`Unheard` towards it, `Unread` back), are at every step the rest of one frame: of the request while `Asked`, of the answer from the line that is next while `Answered`, nothing while `Quiet`. A step that only moves bytes from one place to the next leaves the joined bytes alone (`Moved`); one that takes a number or a key out of the buffer takes the front of the frame, which says how long it is (`put_u32le` and `get_u32le` are inverse) |
| `Indexer_proofs!ToolsRead` | a tool that reads the index file has the index of a serial build, or that of the build before, or refuses, for any tree, number of workers, schedule, deaths and cut of the file | `BuildInv`: of the files that were claimed and are in no thread's work any more, every posting has been found by exactly one thread, exactly once (`FoundAll`, `FoundOnce`); a file is in one thread's work only (`Claims`), and a thread finishes only when all files are claimed, so after `Join` the results together hold the postings of the tree. They are merged in the order of the workers, which says nothing about the files, but a list without repetitions has only one sorted form (`OrderedEqual`), and counting the files used is counting those that contribute (`UsedAre`), so renumbered and sorted it is what a serial build appends file by file (`CompactIs`). For the file, `Runs` says that `Load` gets from one state to another over some fields and was at no end before: runs are joined in the order `Fields` joins its parts (`RunsOn`, `KeysRun`, `FileRuns`), a whole file ends in "end" with the index (`WholeFile`), a strict prefix never gets there (`CutIsDead`). `FileInv` says which files there can be |
| `Startup_proofs!BindTypeCorrect`, `ServedCurrent` | a bound server serves its own patch | `Own`: whatever lies under an id that names a patch and a base directory was compiled by a server bound to these, on disk, in memory and in what was served last |
| `Startup_proofs!CallsGetThroughHolds`, `StaysInChainHolds`, `OthersKept` | the chains lose nobody, with any number of extensions, settings and starts | `IInv`: a chain, followed from the pointer, reaches the engine and no forgotten pointer; while extensions start it passes only those that have; and the extension is in just the chains it hooked. What is reached is the smallest set closed under "calls what it saved": a head that is put on adds itself, one that is taken off takes only itself away, because a chain that reaches the engine passes no extension twice (`NoLoop`) |
| `EmitAdded_proofs!CopiesHold`, `DisjointHolds`, `MaximalHolds`, `NothingIsMissed` | what `factorize` returns, for any block, corpus and index of any age | `MatchInv`: each run lies inside the block and the file and copies it, runs and their neighbours are covered as they must be, and an anchor that was passed over has no run of the minimal length left. Taking a run only covers lines, so what an earlier anchor could reach shrinks (`Shrinks`): that is why an anchor need not be looked at again. `Up`, `Down` and `Best` are a largest number and a first element, shown to exist by well-foundedness |
| `EmitAdded_proofs!GuardsAlwaysHold` | every reference that is written passes the range, length and hash guards of the engine | `OutInv`: a reference lies inside a run of `MatchInv`, hence inside the file as it is, and its guard was computed from those lines |
| `EmitAdded_proofs!BlockIsReproduced` | what is written for a block expands to its lines, one for one | `BlockInv`: so far as written, the pieces expand to the block up to `pos`, and without normalizing `pos` never stands inside a run (which is written whole). Each kind of piece stands for as many lines as `pos` moves by (`Stands`): a literal for itself, unless it reads as a reference, a run because it is a copy, a padded or blank stretch because the blanks put around the quoted code are those of the block, with the feeds of the corpus line between when it has any |
| `Pipeline_proofs!FindHolds`, `FilterHolds` | `find` and `has_basename` agree with the index, for any bundle, and after the keys are renamed | `Inv`: the generator writes well-formed tokens only; the index is sorted and without duplicates after `Finalize`, sorted after `Recanonicalize`, and the filter is its names. A sorting permutation is injective on a finite set, so it is onto (`Shuffled`) |
| `Pipeline_proofs!NothingLostHolds`, `OwnedByHeaderHolds` | each line of an accepted bundle is in one command of one section, under its header, as a run of neighbouring lines down to a lone dot | `LinesInv`: the commands of the index, of the open section and the one under way (`Holders`) hold the lines read so far, each at most once (`Placed`), under the last header that is not text (`Headed`), up to a dot (`Closed`). `NothingLost` alone is not inductive: it says nothing of a section that is still open |
| `Pipeline_proofs!FilesHold`, `CutHolds` | from the diff to the patched file: a bundle that arrives whole makes the new files, one that was cut makes of each file the old one down to some place and the new one from there, for any diffs, any hunks and any cut | The sides of a diff are counts of ops, and a group of changed ops is a command whose range is the stretch of the old file that it removes (`CommandFits`). `Plan`: groups from the last one to the first, with every changed op in one. The engine accepts the first `n` commands of a plan (`PlanAccepted`), because they descend, and they make the new file, as pieces read back line by line (`Same`), from the `n`-th group on (`PlanMakes`); with all of them this is the new file. `Diffing`: between two of libgit2's callbacks the groups up to some op are in `changes` and `current`, and what is to come is for the ops from there. `Telling`: each line of the output has a note that says of which diff, which command and which line of its text it is, and the notes follow each other through the plans. `Reading`: a parser that has read a line is where the note of that line says (`Sync`), or a lone dot ended a text early (`Lost`, which both theorems leave out), or the line is the one that was cut (`Cut`). So the commands of an entry are the first of its plan, all of them if the bundle is whole |

Texts are built from many pieces, with the fold `FlattenSeq`, and induction over data is out
of the prover's reach. What these proofs need of it is little: that the fold of one
piece more is the fold so far with that piece at its end, that it is a sequence of lines
and that equal pieces give equal folds. `EdLemmas` shows this by the least length at which
it would fail (`Least`, from the well-foundedness of the numbers, with no operator as a
parameter); what `Directive_proofs` needs of the digits of a number is shown the same way.

Only model-checked:

* liveness (`Terminates`, `NoOrphans`, `BothEnd`), which is out of the prover's reach. The
  invariants and action properties of the passing runs are all proved.

## 5. Where the code and its documents part

Met while modelling, and left without a run of their own; where a property stops
short of a sentence of the documents, this is why.

* *Drift* (`patch.cpp:378`). A source that changed is patched all the same when the
  line numbers fit; README.md:477 says that edits "must match the deployed source
  exactly". `RangeIsOriginals` and `ImplementsOriginal` say what is guaranteed of it.
* *Edited sources* (`phpatcher.cpp:376`). With `precompute` or `cache` on, the text
  made first is served until the process ends; README.md:351 says that editing
  invalidates an entry. `FreshPatch` is therefore stated with both off.
* *Links* (`phpatcher.cpp:231`). The basename filter looks at the name the handle
  shows, so a listed file included by a link of another basename is not looked up,
  also under `on_error = fail`; README.md:409 says that symlinks resolve consistently.
  `FailClosed` speaks of the handles the filter lets through.
* *Keys that become one* (`patch.cpp:534`). The comment says that the first match
  wins; `phpatcher_precompute` assigns in turn and keeps the last.
* *Settings and the build id* (`phpatcher.cpp:797`). Code that was compiled unpatched
  under `on_error = original` is taken from OPcache's file cache under `fail`;
  README.md:128 says that "the unpatched code never runs". `ServedIsCurrent`
  admits it.
* *Text that is a reference* (`changes.cpp:440`, `499`, `509`, `516`). Lines of an added
  text, and literal lines of a corpus block, are written as they are. One that is a
  complete, guarded r directive comes back as a reference (`patch.cpp:592`, `290-298`), and
  lines of the corpus take its place, or the guard fails and with it the patch.
  README.md:273-275 calls only a line that is not complete ordinary text, but 249-251 and
  302-304 promise the destination bytes. `FilesAreReproduced` and `CutIsWhole` say that such
  an added line becomes that reference and nothing else does (`Same`), `ExpandsToBlock`
  leaves a block with one out (`TextIsRead`).
* *Feeds* (`matcher_core.hpp:52-59`). The generator trims form feeds and vertical tabs off a
  line and puts them into the pads; the engine's `trim_blanks` (`patch.cpp:42`, `89-94`)
  leaves them on the corpus line, between the pads. A padded reference for, or from, a line
  with a feed at an end can so lose or double it, although 249-251 promise the exact bytes.
  `ExpandsToBlock` asks for the same blanks where the block's line has no feed at either end.
* *One name, two files* (`phpatcher.cpp:195-254`, `501-503`). The open hook makes a key of the
  name and `base_dir`, the compile hook of the path the engine opened or would open,
  include_path and all. A relative name that include_path finds, and that `base_dir` does not
  make a created file, can lead to the path of a created file: only the compile hook
  knows, and with `on_error = original` and a patch that fails, a file on disk there is
  compiled. `CreatedNeverFromDisk` speaks of the names that `base_dir` makes a created file.
  The other way round such a name shadows a real file that include_path finds, though
  the comment at 490-493 says that real files are delegated unchanged.
* *A file that comes and goes* (`phpatcher.cpp:195-211`). When a relative name means one file to
  include_path and another to `base_dir`, and the first is gone while the compile hook
  resolves the name and is back when the engine opens it, the hook has judged the wrong file.
  `Covered`, which `FailClosed` and `MissesAreCounted` use, asks of such names that the file
  is there as long as the include takes.
* *Moments of the warm-up* (`phpatcher.cpp:715-718`). "A corpus file referenced by several
  patched files is read and verified once": so all precomputed files agree on each
  corpus file, but each of these is read when it is first quoted, and two of them may be of
  different deploys. `WarmupSnapshot` says the first and not more.
* *Padded references* (`changes.cpp:405`). A line of code may be written as a padded
  reference that has its tokens and other spacing, without comparing bytes; the comment
  at the line says so, but README.md:250 and 303 say that a reference is used only
  when it reproduces the destination bytes. `ExpandsToBlock` asks for the same code
  between the same blanks.
* *Ends of files* (`changes.cpp:175`). A change of the newline at the end of a file and
  the CR of added lines are lost; `tests/tools/roundtrip.sh:9` says byte for byte.
  `FilesAreReproduced` compares lines, and those of a text without their final CR.
* *Lone dots* (`changes.cpp:441`). An added line that is a single dot ends its block of
  text, and the lines after it are read as commands. `Pipeline` has such lines, followed by
  lines that are no commands, and the parser refuses them there; but a text that goes on
  with lines that read as ed commands may be accepted and applied as something else. So
  `FilesAreReproduced` leaves texts with a lone dot out, and `CutIsWhole` those with a line
  that begins with a dot. A whole bundle without one is refused only for two names of one
  file, which `finalize` calls a duplicate section (`patch.cpp:515`).
* *Half a bundle* (`changes.cpp:682`). The file is written in place and `main` returns 0
  without a look at the stream. A bundle cut between two commands is accepted, and
  then patches a file from its end up to some place; `CutIsWhole` says that it is no
  worse. A run with nothing to encode dies and leaves a bundle of two header lines, which
  the extension takes as an empty one.

## 6. Not modelled

* `ref_hash`: fixed arithmetic, two FNV-1a-style lanes and not cryptographic
  (`patch.hpp:19-42`). The models assume that equal hashes mean equal text.
* `phpatcher_resolve_path`, which changes no state: for a name that nothing on disk answers to
  it gives the created file that `base_dir` makes of it, the same that
  `phpatcher_canonical_path` falls back to (`CanonicalPath`).
* The lexical rules of `canonicalize` (a constant map from paths to keys).
* The tokenizer of PHP and what `normalize.php` makes of its tokens (a constant map from
  files to answers, and from codes to keys).
* Walking directories; command line options; printing; the report and statistics of
  `matcher.cpp`, whose work is `Factorize`.
* Files of 4 GiB and more, whose length does not fit the u32 of the coprocess's framing
  (`PipeAssumption`), and an index whose counts do not fit.
* libgit2's choice of an alignment: any that it may make is an input of `Changes`.
* Introspection functions and MINFO, which only read state.
* Build files, the shell wrapper, the tests.
* Nested includes from a user error handler inside `get_patched`; symlinks that are
  switched after MINIT (`Real` is a constant).

## 7. Plan

Order of work: the engine (what a patch means), the hooks (what runs), the parser
and reader (what is applied to which file), start, stop and OPcache, then the tools
from the index to the bundle, then their composition. All modules of section 2 are
written, and all their safety properties are proved. What is left: a file system under
`PatchBundle`, with `Real` as a variable, for links that are switched after MINIT.
