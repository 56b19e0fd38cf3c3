----------------------------- MODULE HookChain -----------------------------
(***************************************************************************)
(* Starting and stopping the extension (PHP_MINIT_FUNCTION and             *)
(* PHP_MSHUTDOWN_FUNCTION, phpatcher.cpp) in a process where other         *)
(* extensions hook the same three function pointers of the engine, before  *)
(* it or after it, and are shut down in any order; the process may then be *)
(* started again, with another patch file.                                 *)
(*                                                                         *)
(* A pointer is the name of the extension whose function it points to; the *)
(* chain behind it is what each extension saved when it hooked.            *)
(***************************************************************************)
EXTENDS Naturals, FiniteSets

CONSTANTS
    Other,              \* the other extensions that hook
    phpatcher, engine,  \* the extension, and the functions of the engine
    NULL,
    Configs,            \* what MINIT finds: settings and patch file
    MaxStarts

Hook == {"compile", "resolve", "open"}
Owner == Other \cup {phpatcher, engine}

\* The patch file: not set, unreadable, not parsed, without sections, or good;
\* virtual: some section is a "# newfile:".
Found == [enabled : BOOLEAN, patch : {"unset", "unreadable", "bad", "empty", "good"},
          virtual : BOOLEAN]

ASSUME HookChainAssumption ==
    /\ phpatcher # engine /\ {phpatcher, engine} \cap Other = {}
    /\ NULL \notin Owner
    /\ Configs \subseteq Found
    /\ MaxStarts \in Nat

VARIABLES
    config,     \* what this start has found
    pointer,    \* zend_compile_file, zend_resolve_path, zend_stream_open_function
    orig,       \* phpatcher_orig_compile_file and so on
    saved,      \* what each other extension saved: [Other -> [Hook -> Owner \cup {NULL}]]
    running,    \* the extensions between MINIT and MSHUTDOWN
    phase,      \* the engine starts all its extensions, then stops them all
    patchset,   \* g_patchset is set
    starts

vars == <<config, pointer, orig, saved, running, phase, patchset, starts>>

TypeOK ==
    /\ config \in Configs
    /\ pointer \in [Hook -> Owner] /\ orig \in [Hook -> Owner \cup {NULL}]
    /\ saved \in [Other -> [Hook -> Owner \cup {NULL}]]
    /\ running \subseteq Other \cup {phpatcher}
    /\ phase \in {"startup", "shutdown"}
    /\ patchset \in BOOLEAN /\ starts \in 0..MaxStarts

NoHooks == [h \in Hook |-> NULL]

Init ==
    /\ config \in Configs
    /\ pointer = [h \in Hook |-> engine]
    /\ orig = NoHooks
    /\ saved = [e \in Other |-> NoHooks]
    /\ running = {} /\ phase = "shutdown"
    /\ patchset = FALSE
    /\ starts = 0

-----------------------------------------------------------------------------
(* The extension.                                                          *)

\* Every early return of MINIT leaves no hook behind.
Active == config.enabled /\ config.patch = "good"

\* Mutant: wrap the resolver and the opener whatever the patch holds.
HooksAll == IF Active THEN Hook ELSE {}
Hooks == IF ~Active THEN {}
         ELSE IF config.virtual THEN Hook ELSE {"compile"}

MInit ==
    /\ phpatcher \notin running /\ phase = "startup"
    /\ running' = running \cup {phpatcher}
    /\ patchset' = Active
    /\ orig' = [h \in Hook |-> IF h \in Hooks THEN pointer[h] ELSE orig[h]]
    /\ pointer' = [h \in Hook |-> IF h \in Hooks THEN phpatcher ELSE pointer[h]]
    /\ UNCHANGED <<config, saved, phase, starts>>

\* Mutants: unchain whether head or not; put back what was never saved.
UnchainedAlways(h) == orig[h] # NULL
UnchainedUnsaved(h) == TRUE
Unchained(h) == orig[h] # NULL /\ pointer[h] = phpatcher

\* Mutants: forget the rest of the chain; keep the patch set.
MShutdownForgets ==
    /\ phpatcher \in running
    /\ running' = running \ {phpatcher} /\ phase' = "shutdown"
    /\ patchset' = FALSE
    /\ pointer' = [h \in Hook |-> IF Unchained(h) THEN orig[h] ELSE pointer[h]]
    /\ orig' = NoHooks
    /\ UNCHANGED <<config, saved, starts>>

MShutdownKeeps ==
    /\ phpatcher \in running
    /\ running' = running \ {phpatcher} /\ phase' = "shutdown"
    /\ pointer' = [h \in Hook |-> IF Unchained(h) THEN orig[h] ELSE pointer[h]]
    /\ orig' = [h \in Hook |-> IF Unchained(h) THEN NULL ELSE orig[h]]
    /\ UNCHANGED <<config, saved, patchset, starts>>

MShutdown ==
    /\ phpatcher \in running
    /\ running' = running \ {phpatcher} /\ phase' = "shutdown"
    /\ patchset' = FALSE
    /\ pointer' = [h \in Hook |-> IF Unchained(h) THEN orig[h] ELSE pointer[h]]
    /\ orig' = [h \in Hook |-> IF Unchained(h) THEN NULL ELSE orig[h]]
    /\ UNCHANGED <<config, saved, starts>>

-----------------------------------------------------------------------------
(* The others: each hooks what it likes, and puts back what it found.      *)

OtherInit(e) ==
    /\ e \notin running /\ phase = "startup"
    /\ running' = running \cup {e}
    /\ \E hs \in SUBSET Hook :
          /\ saved' = [saved EXCEPT ![e] = [h \in Hook |-> IF h \in hs THEN pointer[h] ELSE NULL]]
          /\ pointer' = [h \in Hook |-> IF h \in hs THEN e ELSE pointer[h]]
    /\ UNCHANGED <<config, orig, phase, patchset, starts>>

\* Like the extension, an other one unhooks only when it is the head.
OtherShutdown(e) ==
    /\ e \in running
    /\ running' = running \ {e} /\ phase' = "shutdown"
    /\ pointer' = [h \in Hook |-> IF pointer[h] = e THEN saved[e][h] ELSE pointer[h]]
    /\ saved' = [saved EXCEPT ![e] = [h \in Hook |-> IF pointer[h] = e THEN NULL ELSE @[h]]]
    /\ UNCHANGED <<config, orig, patchset, starts>>

\* zend_startup sets the pointers anew; the variables of an extension that stays
\* in memory keep what they held.
Start ==
    /\ phase = "shutdown" /\ running = {} /\ starts < MaxStarts
    /\ phase' = "startup" /\ starts' = starts + 1
    /\ config' \in Configs
    /\ pointer' = [h \in Hook |-> engine]
    /\ UNCHANGED <<orig, saved, running, patchset>>

Next == \/ MInit \/ MShutdown \/ Start
        \/ \E e \in Other : OtherInit(e) \/ OtherShutdown(e)

Spec == Init /\ [][Next]_vars

-----------------------------------------------------------------------------
(* Properties.                                                             *)

\* What a call of a hook runs through, up to the function of the engine: each
\* extension passes the call on to what it saved.
Hooking == Other \cup {phpatcher}
Node == Owner \cup {NULL}
Behind(h) == [o \in Hooking |-> IF o = phpatcher THEN orig[h] ELSE saved[o][h]]
Closed(S, next) == \A o \in S \cap Hooking : next[o] \in S
From(o, next) == {n \in Node : \A S \in SUBSET Node : o \in S /\ Closed(S, next) => n \in S}
Reached(h) == From(pointer[h], Behind(h))

\* Every call gets through to the engine, after any number of starts and any order
\* of shutdowns: no extension calls a pointer that has been forgotten, and the
\* chain does not run into itself.
CallsGetThrough ==
    \A h \in Hook : NULL \notin Reached(h) /\ engine \in Reached(h)

\* Whoever hooks after the extension and is still running is still called when it
\* has been shut down: the extension takes out itself and nobody else.
TakesOutItself ==
    phpatcher \in running /\ phpatcher \notin running' =>
        \A h \in Hook : (Reached(h) \cap Other \cap running) \subseteq (Reached(h))'

OthersAreKept == [][TakesOutItself]_vars

\* While it is active no extension that hooks later, or is shut down, takes it out
\* of the chain of the compiler; and every start decides afresh whether the path
\* resolver and the stream opener see its calls: only with created files in the
\* patch, even after a start that had some (phpatcher.cpp:827).
StaysInChain ==
    /\ patchset => phpatcher \in Reached("compile")
    /\ phpatcher \in running => \A h \in {"resolve", "open"} :
          phpatcher \in Reached(h) <=> Active /\ config.virtual
=============================================================================
