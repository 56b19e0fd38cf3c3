--------------------------- MODULE Startup_proofs ---------------------------
(***************************************************************************)
(* Proofs about what MINIT sets up for good.  HookChain: for any number of *)
(* other extensions, settings and starts, every call gets through to the   *)
(* engine and nobody else is taken out of a chain.  OpcacheBind: for any   *)
(* number of servers, files and patches, opcache_bind keeps the output of  *)
(* other patches out.                                                      *)
(***************************************************************************)
EXTENDS HookChain, OpcacheBind, TLAPS

-----------------------------------------------------------------------------
(* Following a chain.  `next` is what each extension saved.                *)

Saves == [Hooking -> Node]

LEMMA Kinds == engine \notin Hooking /\ NULL \notin Hooking /\ Hooking \subseteq Node
               /\ engine \in Node /\ engine # NULL /\ phpatcher \in Hooking
BY HookChainAssumption DEF Hooking, Node, Owner

\* What is reached is the smallest closed set.
LEMMA FromIs ==
    ASSUME NEW next \in Saves, NEW o \in Node
    PROVE  /\ o \in From(o, next) /\ From(o, next) \subseteq Node
           /\ Closed(From(o, next), next)
           /\ \A S \in SUBSET Node : o \in S /\ Closed(S, next) => From(o, next) \subseteq S
<1>1. o \in From(o, next) /\ From(o, next) \subseteq Node
  BY DEF From
<1>2. ASSUME NEW n \in From(o, next) \cap Hooking PROVE next[n] \in From(o, next)
  <2>1. next[n] \in Node
    BY <1>2 DEF Saves
  <2>2. ASSUME NEW S \in SUBSET Node, o \in S, Closed(S, next) PROVE next[n] \in S
    BY <1>2, <2>2 DEF From, Closed
  <2> QED BY <2>1, <2>2 DEF From
<1>3. \A S \in SUBSET Node : o \in S /\ Closed(S, next) => From(o, next) \subseteq S
  BY DEF From
<1> QED BY <1>1, <1>2, <1>3 DEF Closed

\* From an extension the call goes on from what it saved.
LEMMA OneFurther ==
    ASSUME NEW next \in Saves, NEW e \in Hooking
    PROVE  From(e, next) = From(next[e], next) \cup {e}
<1>1. e \in Node /\ next[e] \in Node
  BY Kinds DEF Saves
<1>2. From(next[e], next) \subseteq From(e, next)
  BY <1>1, FromIs DEF Closed
<1>3. Closed(From(next[e], next) \cup {e}, next)
  BY <1>1, FromIs DEF Closed
<1>4. From(e, next) \subseteq From(next[e], next) \cup {e}
  BY <1>1, <1>3, FromIs
<1> QED BY <1>1, <1>2, <1>4, FromIs

\* What is saved by an extension that is not reached makes no difference.
LEMMA Elsewhere ==
    ASSUME NEW next \in Saves, NEW new \in Saves, NEW o \in Node, NEW e,
           e \notin From(o, next), \A n \in Hooking \ {e} : new[n] = next[n]
    PROVE  From(o, new) = From(o, next)
<1>1. Closed(From(o, next), new)
  BY FromIs DEF Closed
<1>2. From(o, new) \subseteq From(o, next)
  BY <1>1, FromIs
<1>3. Closed(From(o, new), next)
  BY <1>2, FromIs DEF Closed
<1> QED BY <1>2, <1>3, FromIs

\* A new head.
LEMMA Pushed ==
    ASSUME NEW next \in Saves, NEW new \in Saves, NEW o \in Node, NEW e \in Hooking,
           e \notin From(o, next), \A n \in Hooking \ {e} : new[n] = next[n], new[e] = o
    PROVE  From(e, new) = From(o, next) \cup {e}
BY Elsewhere, OneFurther

\* A chain that reaches the engine passes each extension once.
LEMMA NoLoop ==
    ASSUME NEW next \in Saves, NEW e \in Hooking, engine \in From(e, next)
    PROVE  e \notin From(next[e], next)
<1> SUFFICES ASSUME e \in From(next[e], next) PROVE FALSE
  OBVIOUS
<1> DEFINE C == {n \in Node : e \in From(n, next)}
<1>1. e \in C
  BY Kinds, FromIs
<1>2. ASSUME NEW n \in C \cap Hooking PROVE next[n] \in C
  <2>1. next[n] \in Node
    BY <1>2 DEF Saves
  <2>2. CASE n = e
    BY <2>1, <2>2
  <2>3. CASE n # e
    BY <1>2, <2>1, <2>3, OneFurther
  <2> QED BY <2>2, <2>3
<1>3. Closed(C, next)
  BY <1>2 DEF Closed
<1>4. engine \in C
  <2>1. C \in SUBSET Node
    OBVIOUS
  <2> HIDE DEF C
  <2> QED BY <1>1, <1>3, <2>1, Kinds, FromIs
<1>5. Closed({engine}, next)
  BY Kinds DEF Closed
<1>6. From(engine, next) \subseteq {engine}
  BY <1>5, Kinds, FromIs
<1> QED BY <1>4, <1>6, Kinds

\* The head is taken out, and forgets what it saved.
LEMMA Popped ==
    ASSUME NEW next \in Saves, NEW new \in Saves, NEW e \in Hooking, engine \in From(e, next),
           \A n \in Hooking \ {e} : new[n] = next[n]
    PROVE  From(next[e], new) = From(e, next) \ {e}
<1>1. next[e] \in Node /\ e \notin From(next[e], next)
  BY NoLoop DEF Saves
<1>2. From(next[e], new) = From(next[e], next)
  BY <1>1, Elsewhere
<1> QED BY <1>1, <1>2, OneFurther

-----------------------------------------------------------------------------
(* The chains of the engine.                                               *)

\* The chain reaches the engine and nothing that was forgotten; while extensions
\* start it runs through those that have; and the extension is in it when it hooked.
ChainOK(h) ==
    /\ NULL \notin Reached(h) /\ engine \in Reached(h)
    /\ phase = "startup" => Reached(h) \subseteq running \cup {engine}
    /\ phpatcher \in running => (phpatcher \in Reached(h) <=> h \in Hooks)

IInv == /\ TypeOK
        /\ patchset => phpatcher \in running /\ Active
        /\ \A h \in Hook : ChainOK(h)

LEMMA BehindIs ==
    ASSUME TypeOK, NEW h \in Hook
    PROVE  Behind(h) \in Saves /\ pointer[h] \in Node /\ pointer[h] \in Owner
BY DEF TypeOK, Behind, Saves, Hooking, Node

LEMMA Hooked ==
    ASSUME TypeOK, TypeOK', NEW h \in Hook, ChainOK(h), phase = "startup",
           NEW e \in Hooking, e \notin running, pointer'[h] = e, Behind(h)'[e] = pointer[h],
           \A n \in Hooking \ {e} : Behind(h)'[n] = Behind(h)[n]
    PROVE  Reached(h)' = Reached(h) \cup {e}
<1>1. Behind(h) \in Saves /\ Behind(h)' \in Saves /\ pointer[h] \in Node
  BY BehindIs, BehindIs DEF TypeOK, Behind, Saves, Hooking, Node
<1>2. e \notin From(pointer[h], Behind(h))
  BY Kinds DEF ChainOK, Reached
<1>3. From(e, Behind(h)') = From(pointer[h], Behind(h)) \cup {e}
  BY <1>1, <1>2, Pushed
<1> QED BY <1>3 DEF Reached, From, Closed

LEMMA BehindHead ==
    ASSUME TypeOK, NEW h \in Hook, ChainOK(h), NEW e \in Hooking, pointer[h] = e
    PROVE  Behind(h)[e] \in Owner
<1>1. Behind(h) \in Saves /\ Behind(h)[e] \in Node
  BY BehindIs DEF Saves
<1>2. Behind(h)[e] # NULL
  <2>1. Behind(h)[e] \in From(Behind(h)[e], Behind(h))
    BY <1>1, FromIs
  <2> QED BY <1>1, <2>1, OneFurther DEF ChainOK, Reached
<1> QED BY <1>1, <1>2 DEF Node

LEMMA Unhooked ==
    ASSUME TypeOK, TypeOK', NEW h \in Hook, ChainOK(h), NEW e \in Hooking, pointer[h] = e,
           pointer'[h] = Behind(h)[e], \A n \in Hooking \ {e} : Behind(h)'[n] = Behind(h)[n]
    PROVE  Reached(h)' = Reached(h) \ {e}
<1>1. Behind(h) \in Saves /\ Behind(h)' \in Saves
  BY BehindIs DEF TypeOK, Behind, Saves, Hooking, Node
<1>2. From(Behind(h)[e], Behind(h)') = From(e, Behind(h)) \ {e}
  BY <1>1, Popped DEF ChainOK, Reached
<1> QED BY <1>2 DEF Reached

LEMMA Untouched ==
    ASSUME TypeOK, TypeOK', NEW h \in Hook, NEW e, pointer'[h] = pointer[h],
           e \in Reached(h) => Behind(h)'[e] = Behind(h)[e],
           \A n \in Hooking \ {e} : Behind(h)'[n] = Behind(h)[n]
    PROVE  Reached(h)' = Reached(h)
<1>1. Behind(h) \in Saves /\ Behind(h)' \in Saves /\ pointer[h] \in Node
  BY BehindIs DEF TypeOK, Behind, Saves, Hooking, Node
<1>2. CASE e \in Reached(h)
  <2>1. Behind(h)' = Behind(h)
    BY <1>2 DEF Behind
  <2> QED BY <2>1 DEF Reached
<1>3. CASE e \notin Reached(h)
  <2>1. From(pointer[h], Behind(h)') = From(pointer[h], Behind(h))
    BY <1>1, <1>3, Elsewhere DEF Reached
  <2> QED BY <2>1 DEF Reached
<1> QED BY <1>2, <1>3
LEMMA InvMInit == ASSUME IInv, MInit PROVE IInv'
<1>1. /\ config' = config /\ saved' = saved /\ phase' = phase /\ phase = "startup"
      /\ running' = running \cup {phpatcher} /\ phpatcher \notin running
      /\ \A h \in Hook : IF h \in Hooks THEN orig'[h] = pointer[h] /\ pointer'[h] = phpatcher
                                        ELSE orig'[h] = orig[h] /\ pointer'[h] = pointer[h]
  BY DEF MInit
<1>2. TypeOK'
  <2>1. pointer' \in [Hook -> Owner]
    BY DEF MInit, IInv, TypeOK, Owner
  <2>2. orig' \in [Hook -> Owner \cup {NULL}]
    BY DEF MInit, IInv, TypeOK
  <2>3. Active \in BOOLEAN
    BY HookChainAssumption DEF Active, IInv, TypeOK, Found
  <2> QED BY <1>1, <2>1, <2>2, <2>3 DEF MInit, IInv, TypeOK
<1>3. \A h \in Hook : \A n \in Hooking \ {phpatcher} : Behind(h)'[n] = Behind(h)[n]
  BY <1>1 DEF Behind
<1>4. ASSUME NEW h \in Hook PROVE ChainOK(h)'
  <2>1. ChainOK(h) /\ TypeOK /\ phpatcher \in Hooking
    BY Kinds DEF IInv
  <2>2. Hooks' = Hooks
    BY <1>1 DEF Hooks, Active
  <2>3. CASE h \in Hooks
    <3>1. Behind(h)'[phpatcher] = pointer[h] /\ pointer'[h] = phpatcher
      BY <1>1, <2>1, <2>3 DEF Behind
    <3>2. Reached(h)' = Reached(h) \cup {phpatcher}
      BY <1>1, <1>2, <1>3, <2>1, <3>1, Hooked
    <3> QED BY <1>1, <2>1, <2>2, <2>3, <3>2, Kinds DEF ChainOK
  <2>4. CASE h \notin Hooks
    <3>1. Behind(h)'[phpatcher] = Behind(h)[phpatcher] /\ pointer'[h] = pointer[h]
      BY <1>1, <2>1, <2>4 DEF Behind
    <3>2. Reached(h)' = Reached(h)
      BY <1>2, <1>3, <2>1, <3>1, Untouched
    <3> QED BY <1>1, <2>1, <2>2, <2>4, <3>2, Kinds DEF ChainOK
  <2> QED BY <2>3, <2>4
<1>5. patchset' => phpatcher \in running' /\ Active'
  BY <1>1 DEF MInit, Active
<1> QED BY <1>2, <1>4, <1>5 DEF IInv

\* What MSHUTDOWN makes of the chains, also when others hooked after the extension.
LEMMA AfterMShutdown ==
    ASSUME IInv, MShutdown
    PROVE  /\ TypeOK'
           /\ \A h \in Hook : \/ Reached(h)' = Reached(h)
                              \/ Reached(h)' = Reached(h) \ {phpatcher}
<1>1. /\ saved' = saved
      /\ \A h \in Hook : IF Unchained(h) THEN orig'[h] = NULL /\ pointer'[h] = orig[h]
                                         ELSE orig'[h] = orig[h] /\ pointer'[h] = pointer[h]
  BY DEF MShutdown
<1>2. \A h \in Hook : \A n \in Hooking \ {phpatcher} : Behind(h)'[n] = Behind(h)[n]
  BY <1>1 DEF Behind
<1>3. \A h \in Hook : phpatcher \in Hooking /\ Behind(h)[phpatcher] = orig[h]
                      /\ Behind(h)'[phpatcher] = orig'[h]
  BY Kinds DEF Behind
<1>4. TypeOK'
  BY DEF MShutdown, IInv, TypeOK, Unchained
<1>5. ASSUME NEW h \in Hook, Unchained(h) PROVE Reached(h)' = Reached(h) \ {phpatcher}
  <2>1. pointer[h] = phpatcher /\ pointer'[h] = Behind(h)[phpatcher]
    BY <1>1, <1>3, <1>5 DEF Unchained
  <2> QED BY <1>2, <1>3, <1>4, <2>1, Unhooked DEF IInv
<1>6. ASSUME NEW h \in Hook, ~Unchained(h) PROVE Reached(h)' = Reached(h)
  <2>1. pointer'[h] = pointer[h] /\ Behind(h)'[phpatcher] = Behind(h)[phpatcher]
    BY <1>1, <1>3, <1>6
  <2> QED BY <1>2, <1>4, <2>1, Untouched DEF IInv
<1> QED BY <1>4, <1>5, <1>6

LEMMA InvMShutdown == ASSUME IInv, MShutdown PROVE IInv'
<1>1. running' = running \ {phpatcher} /\ phase' = "shutdown" /\ patchset' = FALSE
  BY DEF MShutdown
<1>2. TypeOK' /\ \A h \in Hook : ChainOK(h)'
  BY <1>1, AfterMShutdown, HookChainAssumption DEF IInv, ChainOK
<1> QED BY <1>1, <1>2 DEF IInv

LEMMA InvStart == ASSUME IInv, Start PROVE IInv'
<1>1. /\ running = {} /\ running' = {} /\ phase' = "startup" /\ patchset' = patchset
      /\ \A h \in Hook : pointer'[h] = engine
  BY DEF Start
<1>2. TypeOK'
  BY HookChainAssumption DEF Start, IInv, TypeOK, Owner
<1>3. ASSUME NEW h \in Hook PROVE Reached(h)' = {engine}
  <2>1. Behind(h)' \in Saves
    BY <1>2 DEF TypeOK, Behind, Saves, Hooking, Node
  <2>2. Closed({engine}, Behind(h)')
    BY Kinds DEF Closed
  <2>3. From(engine, Behind(h)') = {engine}
    BY <2>1, <2>2, Kinds, FromIs
  <2> QED BY <1>1, <2>3 DEF Reached
<1>4. \A h \in Hook : ChainOK(h)'
  BY <1>1, <1>3, Kinds DEF ChainOK
<1> QED BY <1>1, <1>2, <1>4 DEF IInv

LEMMA InvOtherInit == ASSUME IInv, NEW e \in Other, OtherInit(e) PROVE IInv'
<1>1. PICK hs \in SUBSET Hook :
         /\ saved' = [saved EXCEPT ![e] = [h \in Hook |-> IF h \in hs THEN pointer[h] ELSE NULL]]
         /\ pointer' = [h \in Hook |-> IF h \in hs THEN e ELSE pointer[h]]
  BY DEF OtherInit
<1>2. /\ config' = config /\ orig' = orig /\ patchset' = patchset
      /\ phase' = phase /\ phase = "startup" /\ running' = running \cup {e} /\ e \notin running
  BY DEF OtherInit
<1>3. TypeOK'
  BY <1>1, <1>2 DEF OtherInit, IInv, TypeOK, Owner
<1>4. e \in Hooking /\ e # phpatcher /\ e # engine /\ e # NULL /\ saved \in [Other -> [Hook -> Owner \cup {NULL}]]
  BY HookChainAssumption DEF Hooking, IInv, TypeOK, Owner
<1>5. ASSUME NEW h \in Hook PROVE ChainOK(h)'
  <2>1. ChainOK(h) /\ TypeOK /\ Hooks' = Hooks
    BY <1>2 DEF IInv, Hooks, Active
  <2>2. \A n \in Hooking \ {e} : Behind(h)'[n] = Behind(h)[n]
    BY <1>1, <1>2, <1>4 DEF Behind, Hooking
  <2>3. CASE h \in hs
    <3>1. pointer'[h] = e /\ Behind(h)'[e] = pointer[h]
      BY <1>1, <1>4, <2>3 DEF Behind
    <3>2. Reached(h)' = Reached(h) \cup {e}
      BY <1>2, <1>3, <1>4, <2>1, <2>2, <3>1, Hooked
    <3> QED BY <1>2, <1>4, <2>1, <3>2 DEF ChainOK
  <2>4. CASE h \notin hs
    <3>1. pointer'[h] = pointer[h] /\ e \notin Reached(h)
      BY <1>1, <1>2, <1>4, <2>1, <2>4 DEF ChainOK
    <3>2. Reached(h)' = Reached(h)
      BY <1>3, <2>1, <2>2, <3>1, Untouched
    <3> QED BY <1>2, <1>4, <2>1, <3>2 DEF ChainOK
  <2> QED BY <2>3, <2>4
<1> QED BY <1>2, <1>3, <1>5 DEF IInv, Active

LEMMA InvOtherShutdown == ASSUME IInv, NEW e \in Other, OtherShutdown(e) PROVE IInv'
<1>1. /\ pointer' = [h \in Hook |-> IF pointer[h] = e THEN saved[e][h] ELSE pointer[h]]
      /\ saved' = [saved EXCEPT ![e] = [h \in Hook |-> IF pointer[h] = e THEN NULL ELSE saved[e][h]]]
      /\ config' = config /\ orig' = orig /\ patchset' = patchset
      /\ phase' = "shutdown" /\ running' = running \ {e}
  BY DEF OtherShutdown
<1>2. e \in Hooking /\ e # phpatcher /\ e # engine /\ saved \in [Other -> [Hook -> Owner \cup {NULL}]]
  BY HookChainAssumption DEF Hooking, IInv, TypeOK
<1>3. \A h \in Hook : Behind(h)[e] = saved[e][h]
  BY <1>2 DEF Behind
<1>4. \A h \in Hook : pointer[h] = e => saved[e][h] \in Owner
  BY <1>2, <1>3, BehindHead DEF IInv
<1>5. TypeOK'
  BY <1>1, <1>2, <1>4 DEF OtherShutdown, IInv, TypeOK
<1>6. ASSUME NEW h \in Hook PROVE ChainOK(h)'
  <2>1. ChainOK(h) /\ TypeOK /\ Hooks' = Hooks
    BY <1>1 DEF IInv, Hooks, Active
  <2>2. \A n \in Hooking \ {e} : Behind(h)'[n] = Behind(h)[n]
    BY <1>1, <1>2 DEF Behind, Hooking
  <2>3. CASE pointer[h] = e
    <3>1. pointer'[h] = Behind(h)[e]
      BY <1>1, <1>3, <2>3
    <3>2. Reached(h)' = Reached(h) \ {e}
      BY <1>2, <1>5, <2>1, <2>2, <2>3, <3>1, Unhooked
    <3> QED BY <1>1, <1>2, <2>1, <3>2 DEF ChainOK
  <2>4. CASE pointer[h] # e
    <3>1. pointer'[h] = pointer[h] /\ Behind(h)'[e] = Behind(h)[e]
      BY <1>1, <1>2, <2>4 DEF Behind
    <3>2. Reached(h)' = Reached(h)
      BY <1>5, <2>1, <2>2, <3>1, Untouched
    <3> QED BY <1>1, <1>2, <2>1, <3>2 DEF ChainOK
  <2> QED BY <2>3, <2>4
<1> QED BY <1>1, <1>2, <1>5, <1>6 DEF IInv, Active

LEMMA InvInit == Init => IInv
<1> SUFFICES ASSUME Init PROVE IInv
  OBVIOUS
<1>1. TypeOK
  <2>1. NoHooks \in [Hook -> Owner \cup {NULL}]
    BY DEF NoHooks
  <2>2. pointer \in [Hook -> Owner] /\ saved \in [Other -> [Hook -> Owner \cup {NULL}]]
    BY <2>1 DEF Init, Owner
  <2>3. starts \in 0..MaxStarts
    BY HookChainAssumption DEF Init
  <2> QED BY <2>1, <2>2, <2>3 DEF Init, TypeOK
<1>2. ASSUME NEW h \in Hook PROVE Reached(h) = {engine}
  <2>1. Closed({engine}, Behind(h)) /\ Behind(h) \in Saves /\ pointer[h] = engine
    BY <1>1, <1>2, Kinds, BehindIs DEF Closed, Init
  <2> QED BY <2>1, Kinds, FromIs DEF Reached
<1>3. \A h \in Hook : ChainOK(h)
  BY <1>2, Kinds DEF ChainOK, Init
<1> QED BY <1>1, <1>3 DEF Init, IInv

LEMMA InvNext == IInv /\ [Next]_vars => IInv'
<1> SUFFICES ASSUME IInv, [Next]_vars PROVE IInv'
  OBVIOUS
<1>1. CASE UNCHANGED vars
  <2>1. \A h \in Hook : Behind(h)' = Behind(h) /\ pointer' = pointer /\ Hooks' = Hooks
    BY <1>1 DEF vars, Behind, Hooks, Active
  <2>2. \A h \in Hook : Reached(h)' = Reached(h)
    BY <2>1 DEF Reached
  <2> QED BY <1>1, <2>1, <2>2 DEF vars, IInv, TypeOK, ChainOK, Active
<1> QED BY <1>1, InvMInit, InvMShutdown, InvStart, InvOtherInit, InvOtherShutdown DEF Next

\* The inductive invariant of all chains.
THEOREM Invariant == Spec => []IInv
BY InvInit, InvNext, PTL DEF Spec

-----------------------------------------------------------------------------

\* With any number of other extensions, hooking what they like before and after
\* MINIT and leaving in any order, every call of a hook gets through to the engine's
\* function, and no extension calls a pointer that has been forgotten.
THEOREM CallsGetThroughHolds == Spec => []CallsGetThrough
<1>1. IInv => CallsGetThrough
  BY DEF IInv, ChainOK, CallsGetThrough
<1> QED BY <1>1, Invariant, PTL

\* While the extension has a patch set the compiler's calls come by it, and those of
\* the resolver and the opener when, and only when, the patch creates files.
THEOREM StaysInChainHolds == Spec => []StaysInChain
<1>1. ASSUME IInv PROVE StaysInChain
  <2>1. Active => "compile" \in Hooks
    BY DEF Hooks, Hook
  <2>2. \A h \in {"resolve", "open"} : h \in Hook /\ (h \in Hooks <=> Active /\ config.virtual)
    BY DEF Hooks, Hook
  <2>3. "compile" \in Hook
    BY DEF Hook
  <2> QED BY <1>1, <2>1, <2>2, <2>3 DEF IInv, ChainOK, StaysInChain
<1> QED BY <1>1, Invariant, PTL

\* MSHUTDOWN takes the extension out of each chain and nobody else.
THEOREM OthersKept == Spec => OthersAreKept
<1>1. IInv /\ [Next]_vars => [TakesOutItself]_vars
  <2> SUFFICES ASSUME IInv, Next, phpatcher \in running, phpatcher \notin running'
               PROVE  \A h \in Hook : (Reached(h) \cap Other \cap running) \subseteq Reached(h)'
    BY DEF TakesOutItself
  <2>1. MShutdown
    BY HookChainAssumption DEF Next, MInit, Start, OtherInit, OtherShutdown
  <2> QED BY <2>1, AfterMShutdown, HookChainAssumption
<1> QED BY <1>1, Invariant, PTL DEF Spec, OthersAreKept

-----------------------------------------------------------------------------
(* OPcache: what may lie under a build id.                                 *)

\* What is compiled is code, and under its own patch and base it may be.
LEMMA CompiledIsOwn ==
    ASSUME NEW c \in Config, NEW f \in File
    PROVE  /\ Compiled(c, f) \in Code
           /\ c.active => MayBe(c.patch, c.base, f, Compiled(c, f))
    BY DEF Compiled, Code, PatchedCode, Patched, Config, MayBe, IsListed

\* The build id of a bound server names its patch and its base.
LEMMA IdOfBound ==
    ASSUME NEW c \in Config
    PROVE  /\ SystemId(c) \in Id
           /\ Bound(c) => SystemId(c) = <<c.patch, c.base>>
           /\ \A p \in Patch, b \in Base :
                 SystemId(c) = <<p, b>> => Bound(c) /\ p = c.patch /\ b = c.base
    BY OpcacheAssumption DEF SystemId, Id, Bound, Config

\* The settings of a server that runs are settings.
LEMMA RunningHasConfig ==
    ASSUME BindTypeOK, NEW s \in Server, settings[s] # Off
    PROVE  settings[s] \in Config
    BY DEF BindTypeOK

-----------------------------------------------------------------------------

\* Serving code to a server that runs keeps the types of what it changes.
LEMMA ServeTypes ==
    ASSUME BindTypeOK, NEW s \in Server, NEW f \in File, NEW code \in Code,
           settings[s] # Off, Serve(s, f, code)
    PROVE  /\ settings' = settings /\ failing' = failing
           /\ shm' \in [Server -> [File -> Code \cup {Nothing}]]
           /\ served' \in [Server -> [file : File, code : Code \cup {Nothing}]]
           /\ \A t \in Server : settings'[t] = Off => shm'[t] = Empty /\ served'[t].code = Nothing
    <1>1. \A t \in Server : t # s => shm'[t] = shm[t] /\ served'[t] = served[t]
          BY DEF BindTypeOK, Serve
    <1> QED BY <1>1 DEF BindTypeOK, Serve

\* The type invariant is inductive.
LEMMA TypeStep == BindTypeOK /\ [BindNext]_bindVars => BindTypeOK'
<1> SUFFICES ASSUME BindTypeOK, [BindNext]_bindVars PROVE BindTypeOK'
    OBVIOUS
<1>1. ASSUME NEW s \in Server, NEW c \in Config, StartServer(s, c) PROVE BindTypeOK'
      BY <1>1, OpcacheAssumption DEF StartServer, BindTypeOK
<1>2. ASSUME NEW s \in Server, StopServer(s) PROVE BindTypeOK'
  <2>1. Empty \in [File -> Code \cup {Nothing}]
        BY DEF Empty
  <2>2. served' \in [Server -> [file : File, code : Code \cup {Nothing}]]
        BY <1>2 DEF StopServer, BindTypeOK
  <2>3. \A t \in Server : settings'[t] = Off => shm'[t] = Empty /\ served'[t].code = Nothing
        BY <1>2 DEF StopServer, BindTypeOK
  <2> QED BY <1>2, <2>1, <2>2, <2>3 DEF StopServer, BindTypeOK
<1>3. ASSUME NEW s \in Server, NEW f \in File, FromMemory(s, f) PROVE BindTypeOK'
  <2>1. shm[s][f] \in Code
        BY <1>3 DEF FromMemory, BindTypeOK
  <2> QED BY <1>3, <2>1, ServeTypes DEF FromMemory, BindTypeOK
<1>4. ASSUME NEW s \in Server, NEW f \in File, FromDisk(s, f) PROVE BindTypeOK'
  <2>1. disk[SystemId(settings[s])][f] \in Code
        BY <1>4, RunningHasConfig, IdOfBound DEF FromDisk, BindTypeOK
  <2> QED BY <1>4, <2>1, ServeTypes DEF FromDisk, BindTypeOK
<1>5. ASSUME NEW s \in Server, NEW f \in File, Compile(s, f) PROVE BindTypeOK'
  <2>1. Compiled(settings[s], f) \in Code /\ SystemId(settings[s]) \in Id
        BY <1>5, RunningHasConfig, IdOfBound, CompiledIsOwn DEF Compile
  <2>2. disk' \in [Id -> [File -> Code \cup {Nothing}]]
        BY <1>5, <2>1 DEF Compile, BindTypeOK
  <2> QED BY <1>5, <2>1, <2>2, ServeTypes DEF Compile, BindTypeOK
<1>6. ASSUME Drift PROVE BindTypeOK'
      BY <1>6 DEF Drift, BindTypeOK
<1>7. ASSUME UNCHANGED bindVars PROVE BindTypeOK'
      BY <1>7 DEF bindVars, BindTypeOK
<1> QED BY <1>1, <1>2, <1>3, <1>4, <1>5, <1>6, <1>7 DEF BindNext

\* The type invariant holds: ids, code and settings stay what they are, and a
\* server that is off holds nothing.
THEOREM BindTypeCorrect == BindSpec => []BindTypeOK
<1>1. BindInit => BindTypeOK
      BY DEF BindInit, BindTypeOK, Empty
<1> QED BY <1>1, TypeStep, PTL DEF BindSpec

-----------------------------------------------------------------------------

\* Code that may be there for a bound server s can be served to it.
LEMMA ServeOwn ==
    ASSUME BindTypeOK, MemoryIsOwn, ServedIsOwn,
           NEW s \in Server, NEW f \in File, NEW code \in Code, Serve(s, f, code),
           Bound(settings[s]) => MayBe(settings[s].patch, settings[s].base, f, code)
    PROVE  MemoryIsOwn' /\ ServedIsOwn'
    <1>1. settings' = settings
          BY DEF Serve
    <1>2. \A t \in Server : t # s => shm'[t] = shm[t] /\ served'[t] = served[t]
          BY DEF BindTypeOK, Serve
    <1>3. /\ \A g \in File : g # f => shm'[s][g] = shm[s][g]
          /\ shm'[s][f] = code
          /\ served'[s] = [file |-> f, code |-> code]
          BY DEF BindTypeOK, Serve
    <1>4. MemoryIsOwn'
          BY <1>1, <1>2, <1>3 DEF MemoryIsOwn
    <1>5. ServedIsOwn'
          BY <1>1, <1>2, <1>3 DEF ServedIsOwn
    <1> QED BY <1>4, <1>5

\* What lies under an id, and what a bound server holds, stays its own.
LEMMA OwnStep == BindTypeOK /\ Own /\ [BindNext]_bindVars => Own'
<1> SUFFICES ASSUME BindTypeOK, Own, [BindNext]_bindVars PROVE Own'
    OBVIOUS
<1> USE DEF Own
<1>1. ASSUME NEW s \in Server, NEW c \in Config, StartServer(s, c) PROVE Own'
  <2>1. \A t \in Server : t # s => settings'[t] = settings[t]
        BY <1>1 DEF StartServer, BindTypeOK
  <2>2. shm[s] = Empty /\ served[s].code = Nothing
        BY <1>1 DEF StartServer, BindTypeOK
  <2>3. DiskIsOwn'
        BY <1>1 DEF StartServer, DiskIsOwn
  <2>4. MemoryIsOwn'
        BY <1>1, <2>1, <2>2 DEF StartServer, MemoryIsOwn, Empty
  <2>5. ServedIsOwn'
        BY <1>1, <2>1, <2>2 DEF StartServer, ServedIsOwn
  <2> QED BY <2>3, <2>4, <2>5
<1>2. ASSUME NEW s \in Server, StopServer(s) PROVE Own'
  <2>1. \A t \in Server : t # s =>
            settings'[t] = settings[t] /\ shm'[t] = shm[t] /\ served'[t] = served[t]
        BY <1>2 DEF StopServer, BindTypeOK
  <2>2. ~Bound(settings'[s])
        BY <1>2 DEF StopServer, BindTypeOK, Bound
  <2>3. DiskIsOwn'
        BY <1>2 DEF StopServer, DiskIsOwn
  <2>4. MemoryIsOwn'
        BY <2>1, <2>2 DEF MemoryIsOwn
  <2>5. ServedIsOwn'
        BY <2>1, <2>2 DEF ServedIsOwn
  <2> QED BY <2>3, <2>4, <2>5
<1>3. ASSUME NEW s \in Server, NEW f \in File, FromMemory(s, f) PROVE Own'
  <2>1. shm[s][f] \in Code
        BY <1>3 DEF FromMemory, BindTypeOK
  <2>2. Bound(settings[s]) => MayBe(settings[s].patch, settings[s].base, f, shm[s][f])
        BY <1>3 DEF FromMemory, MemoryIsOwn
  <2>3. DiskIsOwn'
        BY <1>3 DEF FromMemory, DiskIsOwn
  <2> QED BY <1>3, <2>1, <2>2, <2>3, ServeOwn DEF FromMemory
<1>4. ASSUME NEW s \in Server, NEW f \in File, FromDisk(s, f) PROVE Own'
  <2> DEFINE code == disk[SystemId(settings[s])][f]
  <2>1. settings[s] \in Config
        BY <1>4, RunningHasConfig DEF FromDisk
  <2>2. code \in Code
        BY <1>4, <2>1, IdOfBound DEF FromDisk, BindTypeOK
  <2>3. Bound(settings[s]) => MayBe(settings[s].patch, settings[s].base, f, code)
    <3> SUFFICES ASSUME Bound(settings[s])
                 PROVE  MayBe(settings[s].patch, settings[s].base, f, code)
        OBVIOUS
    <3>1. settings[s].patch \in Patch /\ settings[s].base \in Base
          BY <2>1 DEF Config
    <3>2. code = disk[<<settings[s].patch, settings[s].base>>][f]
          BY <2>1, IdOfBound
    <3> QED BY <1>4, <3>1, <3>2 DEF FromDisk, DiskIsOwn
  <2>4. DiskIsOwn'
        BY <1>4 DEF FromDisk, DiskIsOwn
  <2>5. Serve(s, f, code)
        BY <1>4 DEF FromDisk
  <2> QED BY <2>2, <2>3, <2>4, <2>5, ServeOwn
<1>5. ASSUME NEW s \in Server, NEW f \in File, Compile(s, f) PROVE Own'
  <2> DEFINE code == Compiled(settings[s], f)
  <2>1. settings[s] \in Config
        BY <1>5, RunningHasConfig DEF Compile
  <2>2. code \in Code /\ (Bound(settings[s]) => MayBe(settings[s].patch, settings[s].base, f, code))
        BY <2>1, CompiledIsOwn DEF Bound
  <2>3. Serve(s, f, code)
        BY <1>5 DEF Compile
  <2>4. ASSUME NEW p \in Patch, NEW b \in Base, NEW g \in File
        PROVE  disk'[<<p, b>>][g] = Nothing \/ MayBe(p, b, g, disk'[<<p, b>>][g])
    <3>1. <<p, b>> \in Id /\ SystemId(settings[s]) \in Id
          BY <2>1, IdOfBound DEF Id
    <3>2. CASE SystemId(settings[s]) = <<p, b>> /\ g = f
      <4>1. disk'[<<p, b>>][g] = code
            BY <1>5, <3>1, <3>2 DEF Compile, BindTypeOK
      <4>2. Bound(settings[s]) /\ p = settings[s].patch /\ b = settings[s].base
            BY <2>1, <3>2, IdOfBound
      <4> QED BY <2>2, <3>2, <4>1, <4>2
    <3>3. CASE ~(SystemId(settings[s]) = <<p, b>> /\ g = f)
      <4>1. disk'[<<p, b>>][g] = disk[<<p, b>>][g]
            BY <1>5, <3>1, <3>3 DEF Compile, BindTypeOK
      <4> QED BY <4>1 DEF DiskIsOwn
    <3> QED BY <3>2, <3>3
  <2>5. DiskIsOwn'
        BY <2>4 DEF DiskIsOwn
  <2>6. MemoryIsOwn' /\ ServedIsOwn'
        BY <2>2, <2>3, ServeOwn
  <2> QED BY <2>5, <2>6
<1>6. ASSUME Drift PROVE Own'
      BY <1>6 DEF Drift, DiskIsOwn, MemoryIsOwn, ServedIsOwn
<1>7. ASSUME UNCHANGED bindVars PROVE Own'
      BY <1>7 DEF bindVars, DiskIsOwn, MemoryIsOwn, ServedIsOwn
<1> QED BY <1>1, <1>2, <1>3, <1>4, <1>5, <1>6, <1>7 DEF BindNext

\* With opcache_bind a server never runs the output of another patch, nor of its
\* own under another base, and never a patched file it does not list.
THEOREM ServedCurrent == BindSpec => []ServedIsCurrent
<1>1. BindInit => BindTypeOK /\ Own
  <2> SUFFICES ASSUME BindInit PROVE BindTypeOK /\ Own
      OBVIOUS
  <2>1. BindTypeOK
        BY DEF BindInit, BindTypeOK, Empty
  <2>2. DiskIsOwn
        BY DEF BindInit, DiskIsOwn, Empty, Id
  <2>3. MemoryIsOwn /\ ServedIsOwn
        BY DEF BindInit, MemoryIsOwn, ServedIsOwn, Bound
  <2> QED BY <2>1, <2>2, <2>3 DEF Own
<1>2. BindTypeOK /\ Own => ServedIsCurrent
  <2> SUFFICES ASSUME BindTypeOK, ServedIsOwn, NEW s \in Server, NEW f \in File,
                      Bound(settings[s]), Running(s, f)
               PROVE  IF IsListed(settings[s], f)
                      THEN served[s].code \in
                               {Original, Stub, Patched(settings[s].patch, settings[s].base)}
                      ELSE served[s].code = Original
      BY DEF ServedIsCurrent, Own
  <2>1. MayBe(settings[s].patch, settings[s].base, f, served[s].code)
        BY DEF ServedIsOwn, Running
  <2> QED BY <2>1 DEF MayBe, IsListed, Bound
<1> QED BY <1>1, <1>2, TypeStep, OwnStep, PTL DEF BindSpec
=============================================================================
