------------------------ MODULE CompileHook_proofs ------------------------
(***************************************************************************)
(* Proofs about CompileHook, for any threads, processes, index, versions,  *)
(* settings and bounds.                                                    *)
(***************************************************************************)
EXTENDS CompileHook, FiniteSetTheorems, TLAPS

-----------------------------------------------------------------------------
(* Type correctness.                                                       *)

\* The sources the hooks make are sources.
LEMMA ContentTypes ==
    /\ \A kind \in {"path", "stream", "foreign", "patched", "stub", "torn", "source", "none"} :
          Only(kind) \in Content
    /\ \A k \in Key, b \in Version \cup {Nothing}, q \in RefCache :
          Patch(k, b, q) \in Content
    /\ NoCorpus \in RefCache
BY DEF Only, Patch, Content, NoCorpus, RefCache

LEMMA TypeInit == HookAssumption /\ Init => TypeOK
<1> SUFFICES ASSUME HookAssumption, Init PROVE TypeOK OBVIOUS
<1>1. Only("none") \in Content /\ NoCorpus \in RefCache
  BY ContentTypes
<1>2. NoHandle \in Handle /\ NotSeen \in [Key -> SUBSET (Version \cup {Nothing})]
  BY DEF NoHandle, Handle, NotSeen
<1>3. todo \subseteq Key
  BY DEF Init, WarmKeys
<1>4. /\ cfg \in Config /\ disk \in [Key -> Version \cup {Nothing}]
      /\ corpus \in [CorpusFile -> Corpus] /\ warming \in Key \cup {Nothing}
      /\ warmBase \in Version \cup {Nothing} /\ warm \in RefCache
  BY <1>1 DEF Init
<1>5. precomputed \in [Key -> Content] /\ cache \in [Process -> [Key -> Content]]
  BY <1>1 DEF Init, EmptyMap
<1>6. /\ reads \in [Process -> Nat] /\ applies \in [Process -> Nat]
      /\ skips \in [Process -> Nat]
      /\ missed \in [Process -> Nat]
      /\ edits \in Nat /\ calls \in Nat /\ respawns \in Nat
  BY DEF Init
<1>7. /\ pc \in [Thread -> {"idle", "open", "compile", "lookup", "read", "apply", "store",
                          "copy", "copying", "refused", "orig", "done"}]
      /\ handle \in [Thread -> Handle] /\ src \in [Thread -> Content]
      /\ asker \in [Thread -> {"open", "compile"}] /\ key \in [Thread -> Key \cup {Nothing}]
      /\ base \in [Thread -> Version \cup {Nothing}] /\ quoted \in [Thread -> RefCache]
      /\ own \in [Thread -> Content]
      /\ out \in [Thread -> {"precomputed", "slot", "owned"}]
      /\ torn \in [Thread -> BOOLEAN]
      /\ since \in [Thread -> [Key -> SUBSET (Version \cup {Nothing})]]
  BY <1>1, <1>2 DEF Init
<1> QED BY <1>3, <1>4, <1>5, <1>6, <1>7 DEF TypeOK, Init, Asking

\* The steps of the warm-up.
Warming ==
    \/ \E k \in Key : WarmBegin(k)
    \/ \E f \in CorpusFile : WarmQuote(f)
    \/ WarmApply \/ WarmFail

LEMMA TypeWarming == TypeOK /\ Warming => TypeOK'
<1> SUFFICES ASSUME TypeOK, Warming PROVE TypeOK'
  OBVIOUS
<1> USE DEF TypeOK
<1>1. ASSUME NEW k \in Key, WarmBegin(k) PROVE TypeOK'
  <2>1. warming' \in Key \cup {Nothing} /\ warmBase' \in Version \cup {Nothing}
    BY <1>1 DEF WarmBegin
  <2> QED BY <1>1, <2>1 DEF WarmBegin, world, counters, local, bounds
<1>2. ASSUME NEW f \in CorpusFile, WarmQuote(f) PROVE TypeOK'
  <2>1. warm' \in RefCache
    BY <1>2 DEF WarmQuote, RefCache
  <2> QED BY <1>2, <2>1 DEF WarmQuote, world, counters, local, bounds
<1>3. CASE WarmApply
  <2>1. warming \in Key
    BY <1>3 DEF WarmApply
  <2>2. precomputed' \in [Key -> Content]
    BY <1>3, <2>1, ContentTypes DEF WarmApply
  <2> QED BY <1>3, <2>2 DEF WarmApply, world, counters, local, bounds
<1>4. CASE WarmFail
  BY <1>4 DEF WarmFail, world, counters, local, bounds
<1> QED BY <1>1, <1>2, <1>3, <1>4 DEF Warming

LEMMA TypeEnd ==
    ASSUME TypeOK, HookAssumption, NEW t \in Thread, NEW content \in Content, End(t, content),
           UNCHANGED <<world, startup, cache, counters, handle, asker, base, quoted, torn,
                       since, bounds>>
    PROVE  TypeOK'
<1>1. Home[t] \in Process
  BY DEF HookAssumption
<1>2. /\ pc' \in [Thread -> {"idle", "open", "compile", "lookup", "read", "apply", "store",
                          "copy", "copying", "refused", "orig", "done"}]
      /\ src' \in [Thread -> Content] /\ missed' \in [Process -> Nat]
      /\ key' \in [Thread -> Key \cup {Nothing}] /\ own' \in [Thread -> Content]
      /\ out' \in [Thread -> {"precomputed", "slot", "owned"}]
  BY <1>1, ContentTypes DEF TypeOK, End, Goto
<1>3. \A u \in Thread : pc'[u] \in Asking => key'[u] \in Key
  BY DEF TypeOK, End, Goto, Asking
<1> QED BY <1>2, <1>3 DEF TypeOK, world, startup, counters, bounds

LEMMA TypeBegin ==
    ASSUME TypeOK, NEW t \in Thread, NEW h \in Handles, Begin(t, h), HookAssumption
    PROVE TypeOK'
<1>1. h \in Handle
  BY DEF HookAssumption
<1>2. src' \in [Thread -> Content] /\ handle' \in [Thread -> Handle]
  BY <1>1, ContentTypes DEF TypeOK, Begin
<1>3. since' \in [Thread -> [Key -> SUBSET (Version \cup {Nothing})]]
  <2>1. [k \in Key |-> IF k \in Names(h) THEN {disk[k]} ELSE {}]
           \in [Key -> SUBSET (Version \cup {Nothing})]
    BY DEF TypeOK
  <2> QED BY <2>1 DEF TypeOK, Begin
<1> QED BY <1>2, <1>3 DEF TypeOK, Begin, Goto, Asking, world, startup, counters, local

\* The steps of a thread between the beginning and the end of a call.
LEMMA TypeServe ==
    ASSUME TypeOK, HookAssumption, NEW t \in Thread, Serve(t)
    PROVE TypeOK'
<1> USE DEF TypeOK
<1>1. ASSUME NEW h \in Handles, Begin(t, h) PROVE TypeOK'
  BY <1>1, TypeBegin
<1>2. CASE OpenCreated(t)
  <2>0. handle[t].anchored \in Key /\ key' = [key EXCEPT ![t] = handle[t].anchored]
    BY <1>2 DEF OpenCreated, Created, HookAssumption
  <2>1. key'[t] \in Key /\ key' \in [Thread -> Key \cup {Nothing}]
    <3>1. key \in [Thread -> Key \cup {Nothing}]
      OBVIOUS
    <3> HIDE DEF TypeOK
    <3> QED BY <2>0, <3>1
  <2> QED BY <1>2, <2>1 DEF OpenCreated, Goto, Asking, world, startup, counters, local, bounds
<1>3. CASE OpenReal(t)
  <2>1. CASE End(t, Only("none"))
    <3>1. Only("none") \in Content
      BY ContentTypes
    <3> HIDE DEF TypeOK
    <3> QED BY <1>3, <2>1, <3>1, TypeEnd DEF OpenReal
  <2>2. CASE src' = [src EXCEPT ![t] = Only("stream")] /\ Goto(t, Opened)
             /\ UNCHANGED <<missed, key, own, out>>
    BY <1>3, <2>2, ContentTypes DEF OpenReal, Goto, Asking, Opened, world, startup, counters, bounds
  <2> QED BY <1>3, <2>1, <2>2 DEF OpenReal
<1>4. CASE CompileHook(t)
  <2>1. CASE Eligible(t)
    <3>1. /\ asker' = [asker EXCEPT ![t] = "compile"] /\ Goto(t, "lookup")
          /\ key' = [key EXCEPT ![t] = CanonicalPath(t)] /\ CanonicalPath(t) \in Key
      BY <1>4, <2>1, ZenonT(30) DEF CompileHook, Eligible
    <3>2. key'[t] \in Key /\ key' \in [Thread -> Key \cup {Nothing}]
      <4>1. key \in [Thread -> Key \cup {Nothing}]
        OBVIOUS
      <4> HIDE DEF TypeOK
      <4> QED BY <3>1, <4>1
    <3>3. UNCHANGED <<world, startup, cache, counters, handle, src, local, since, missed, bounds>>
      BY <1>4, Zenon DEF CompileHook
    <3> QED BY <3>1, <3>2, <3>3 DEF Goto, Asking, world, startup, counters, local, bounds
  <2>2. CASE ~Eligible(t)
    BY <1>4, <2>2, ZenonT(30) DEF CompileHook, Goto, Asking, world, startup, counters, local, bounds
  <2> QED BY <2>1, <2>2
<1>5. CASE OrigCompile(t)
  <2>1. CASE Goto(t, "open") /\ UNCHANGED <<src, missed, key, own, out>>
    BY <1>5, <2>1 DEF OrigCompile, Goto, Asking, world, startup, counters, bounds
  <2>2. CASE End(t, IF InMemory(src[t]) THEN src[t] ELSE Only("source"))
    <3>1. (IF InMemory(src[t]) THEN src[t] ELSE Only("source")) \in Content
      BY ContentTypes
    <3> HIDE DEF TypeOK
    <3> QED BY <1>5, <2>2, <3>1, TypeEnd DEF OrigCompile
  <2> QED BY <1>5, <2>1, <2>2 DEF OrigCompile
<1>6. CASE LookupHit(t)
  BY <1>6 DEF LookupHit, Pointer, Goto, Asking, world, startup, counters, local, bounds
<1>7. CASE LookupMiss(t)
  <2>1. quoted' \in [Thread -> RefCache] /\ base' \in [Thread -> Version \cup {Nothing}]
    BY <1>7, ContentTypes DEF LookupMiss
  <2> QED BY <1>7, <2>1 DEF LookupMiss, Goto, Asking, world, startup, counters, local, bounds
<1>8. CASE CannotRead(t)
  <2>1. reads' \in [Process -> Nat]
    BY <1>8 DEF CannotRead, Count
  <2> QED BY <1>8, <2>1 DEF CannotRead, Goto, Asking, world, startup, local, bounds
<1>9. CASE SkipHalt(t)
  <2>1. skips' \in [Process -> Nat]
    BY <1>9 DEF SkipHalt, Count
  <2> QED BY <1>9, <2>1 DEF SkipHalt, Goto, Asking, world, startup, local, bounds
<1>10. CASE ReadOriginal(t)
  <2>1. key[t] \in Key
    BY <1>10 DEF ReadOriginal, Asking
  <2> QED BY <1>10, <2>1 DEF ReadOriginal, Asking, Goto, world, startup, counters, bounds
<1>11. CASE Apply(t)
  <2>1. key[t] \in Key
    BY <1>11 DEF Apply, Asking
  <2>2. Patch(key[t], base[t], quoted[t]) \in Content
    BY <2>1, ContentTypes
  <2>3. quoted' \in [Thread -> RefCache] /\ base' \in [Thread -> Version \cup {Nothing}]
    BY <1>11, ContentTypes DEF Apply, Applied
  <2> QED BY <1>11, <2>2, <2>3 DEF Apply, Goto, Asking, world, startup, counters, bounds
<1>12. CASE ApplyFails(t)
  <2>1. quoted' \in [Thread -> RefCache] /\ base' \in [Thread -> Version \cup {Nothing}]
    BY <1>12, ContentTypes DEF ApplyFails, Applied
  <2>2. applies' \in [Process -> Nat]
    BY <1>12 DEF ApplyFails, Count
  <2> QED BY <1>12, <2>1, <2>2 DEF ApplyFails, Goto, Asking, world, startup, bounds
<1>17. ASSUME NEW f \in CorpusFile, Quote(t, f) PROVE TypeOK'
  <2>1. quoted' = [quoted EXCEPT ![t][f] = corpus[f]] /\ corpus[f] \in Corpus
    BY <1>17 DEF Quote
  <2>2. quoted' \in [Thread -> RefCache]
    BY <2>1 DEF RefCache
  <2> QED BY <1>17, <2>2 DEF Quote, Asking, world, startup, counters, bounds
<1>13. CASE Store(t)
  <2>1. cache' \in [Process -> [Key -> Content]]
    <3>1. key[t] \in Key /\ Home[t] \in Process
      BY <1>13 DEF Store, Asking, HookAssumption
    <3>2. CASE cfg.cache
      <4>1. cache' = [cache EXCEPT ![Home[t]][key[t]] = own[t]]
        BY <1>13, <3>2, Zenon DEF Store
      <4>2. cache \in [Process -> [Key -> Content]] /\ own[t] \in Content
        OBVIOUS
      <4> HIDE DEF TypeOK
      <4> QED BY <3>1, <4>1, <4>2
    <3>3. CASE ~cfg.cache
      BY <1>13, <3>3 DEF Store
    <3> QED BY <3>2, <3>3
  <2>2. torn' \in [Thread -> BOOLEAN]
    <3>1. CASE cfg.cache
      <4>1. torn' = [u \in Thread |->
                  torn[u] \/ (/\ pc[u] = "copying" /\ out[u] = "slot"
                              /\ Home[u] = Home[t] /\ key[u] = key[t])]
        BY <1>13, <3>1, Zenon DEF Store
      <4>2. \A u \in Thread :
               (torn[u] \/ (/\ pc[u] = "copying" /\ out[u] = "slot"
                            /\ Home[u] = Home[t] /\ key[u] = key[t])) \in BOOLEAN
        BY Zenon
      <4> QED BY <4>1, <4>2, Zenon
    <3>2. CASE ~cfg.cache
      BY <1>13, <3>2 DEF Store
    <3> QED BY <3>1, <3>2
  <2>3. out' \in [Thread -> {"precomputed", "slot", "owned"}]
    BY <1>13 DEF Store
  <2> QED BY <1>13, <2>1, <2>2, <2>3 DEF Store, Goto, Asking, world, startup, counters, bounds
<1>14. CASE BeginCopy(t)
  BY <1>14 DEF BeginCopy, Goto, Asking, world, startup, counters, bounds
<1>15. CASE EndCopy(t)
  <2>1. Pointed(t) \in Content
    <3>1. key[t] \in Key
      BY <1>15 DEF EndCopy, Asking
    <3>2. Home[t] \in Process
      BY DEF HookAssumption
    <3> QED BY <3>1, <3>2 DEF Pointed
  <2>2. src' \in [Thread -> Content]
    BY <1>15, <2>1, ContentTypes DEF EndCopy
  <2> QED BY <1>15, <2>2 DEF EndCopy, Return, Opened, Goto, Asking, world, startup, counters, local,
                               bounds
<1>16. CASE Refuse(t)
  <2>1. CASE src' = [src EXCEPT ![t] = Only("stub")] /\ Return(t)
             /\ UNCHANGED <<missed, key, own, out>>
    BY <1>16, <2>1, ContentTypes
       DEF Refuse, Return, Opened, Goto, Asking, world, startup, counters, bounds
  <2>2. CASE Goto(t, "orig") /\ UNCHANGED <<src, missed, key, own, out>>
    BY <1>16, <2>2 DEF Refuse, Goto, Asking, world, startup, counters, bounds
  <2>3. CASE End(t, Only("none"))
    <3>1. Only("none") \in Content
      BY ContentTypes
    <3> HIDE DEF TypeOK
    <3> QED BY <1>16, <2>3, <3>1, TypeEnd DEF Refuse
  <2> QED BY <1>16, <2>1, <2>2, <2>3 DEF Refuse
<1> QED BY <1>1, <1>2, <1>3, <1>4, <1>5, <1>6, <1>7, <1>8, <1>9, <1>10, <1>11, <1>12,
           <1>13, <1>14, <1>15, <1>16, <1>17 DEF Serve

\* Edits, crashes and stuttering.
LEMMA TypeOutside ==
    ASSUME TypeOK, HookAssumption,
           (\E k \in Key : EditFile(k)) \/ (\E f \in CorpusFile : EditCorpus(f))
              \/ (\E p \in Process : Respawn(p)) \/ UNCHANGED vars
    PROVE TypeOK'
<1> USE DEF TypeOK
<1>1. ASSUME NEW k \in Key, EditFile(k) PROVE TypeOK'
  <2>1. PICK v \in (Version \cup {Nothing}) \ {disk[k]} :
           /\ disk' = [disk EXCEPT ![k] = v]
           /\ since' = [t \in Thread |-> IF k \in Names(handle[t]) /\ pc[t] \notin {"idle", "done"}
                                         THEN [since[t] EXCEPT ![k] = @ \cup {v}] ELSE since[t]]
    BY <1>1 DEF EditFile
  <2>2. disk' \in [Key -> Version \cup {Nothing}]
        /\ since' \in [Thread -> [Key -> SUBSET (Version \cup {Nothing})]]
    BY <2>1
  <2> QED BY <1>1, <2>2 DEF EditFile, startup, counters, local
<1>2. ASSUME NEW f \in CorpusFile, EditCorpus(f) PROVE TypeOK'
  <2>1. corpus' \in [CorpusFile -> Corpus]
    BY <1>2 DEF EditCorpus
  <2> QED BY <1>2, <2>1 DEF EditCorpus, startup, counters, local
<1>3. ASSUME NEW p \in Process, Respawn(p) PROVE TypeOK'
  <2>1. /\ Only("none") \in Content /\ NoHandle \in Handle /\ EmptyMap \in [Key -> Content]
        /\ NotSeen \in [Key -> SUBSET (Version \cup {Nothing})] /\ NoCorpus \in RefCache
    BY ContentTypes DEF NoHandle, Handle, EmptyMap, NotSeen
  <2>2. cache' \in [Process -> [Key -> Content]]
    BY <1>3, <2>1 DEF Respawn
  <2>3. /\ reads' \in [Process -> Nat] /\ applies' \in [Process -> Nat]
        /\ skips' \in [Process -> Nat]
        /\ missed' \in [Process -> Nat] /\ respawns' \in Nat
    BY <1>3 DEF Respawn
  <2>4. /\ handle' \in [Thread -> Handle] /\ src' \in [Thread -> Content]
        /\ since' \in [Thread -> [Key -> SUBSET (Version \cup {Nothing})]]
    BY <1>3, <2>1 DEF Respawn
  <2>5. pc' \in [Thread -> {"idle", "open", "compile", "lookup", "read", "apply", "store",
                          "copy", "copying", "refused", "orig", "done"}]
        /\ \A t \in Thread : pc'[t] \in Asking => key'[t] \in Key
    BY <1>3 DEF Respawn, Asking
  <2>6. /\ base' \in [Thread -> Version \cup {Nothing}] /\ quoted' \in [Thread -> RefCache]
        /\ own' \in [Thread -> Content]
    BY <1>3, <2>1 DEF Respawn
  <2> QED BY <1>3, <2>2, <2>3, <2>4, <2>5, <2>6 DEF Respawn, world, startup, local
<1>4. CASE UNCHANGED vars
  BY <1>4 DEF vars
<1> QED BY <1>1, <1>2, <1>3, <1>4

LEMMA TypeNext == HookAssumption /\ TypeOK /\ [Next]_vars => TypeOK'
BY TypeWarming, TypeServe, TypeOutside DEF Next, Warming

\* Every variable keeps its type, and get_patched is only ever asked for a key of
\* the index (phpatcher.cpp:376-444 takes that for granted).
THEOREM TypeCorrect == Spec => []TypeOK
BY HookAssumption, TypeInit, TypeNext, PTL DEF Spec

-----------------------------------------------------------------------------
(* What is served was made for the file.                                   *)

\* What get_patched produces is a patch made for the key.
LEMMA Made ==
    ASSUME HookAssumption, NEW k \in Key, NEW b, NEW q, Applies(k, b, q), b \notin Halt
    PROVE  PatchFor(k, Patch(k, b, q))
BY DEF HookAssumption, Applies, Verified, PatchFor, MadeFor, Patch

\* What a handle is given is the patch of a file it names.
ForHandle(t, content) ==
    content.kind = "patched" =>
        content.key \in Names(handle[t]) /\ MadeFor(content.key, content)

LEMMA ServedInit == HookAssumption /\ Init => Provenance /\ InTheMaking /\ WarmFits
BY DEF HookAssumption, Init, Provenance, InTheMaking, WarmFits, MadeFor, EmptyMap, Only, Asking

\* The warm-up stores what it made for the key.
LEMMA ServedWarming ==
    ASSUME TypeOK, HookAssumption, Provenance, InTheMaking, WarmFits, Warming
    PROVE  (Provenance /\ InTheMaking /\ WarmFits)'
<1>1. UNCHANGED <<cache, pc, handle, src, key, base, own, out>>
  BY DEF Warming, WarmBegin, WarmQuote, WarmApply, WarmFail, local
<1>2. ASSUME NEW j \in Key
      PROVE  \/ precomputed'[j] = precomputed[j]
             \/ PatchFor(j, precomputed'[j])
  <2>1. CASE WarmApply
    <3>1. warming \in Key /\ Applies(warming, warmBase, warm) /\ warmBase \notin Halt
      BY <2>1 DEF WarmApply, WarmFits, TypeOK
    <3>2. PatchFor(warming, Patch(warming, warmBase, warm))
      BY <3>1, Made
    <3>3. precomputed' = [precomputed EXCEPT ![warming] = Patch(warming, warmBase, warm)]
      BY <2>1 DEF WarmApply
    <3> QED BY <3>1, <3>2, <3>3 DEF TypeOK
  <2>2. CASE ~WarmApply
    BY <2>2 DEF Warming, WarmBegin, WarmQuote, WarmFail
  <2> QED BY <2>1, <2>2
<1>3. \A j \in Key : MadeFor(j, precomputed'[j])
  BY <1>2 DEF Provenance, PatchFor
<1>4. ASSUME NEW t \in Thread, pc[t] \in {"copy", "copying"}
      PROVE  PatchFor(key[t], Pointed(t)')
  <2>1. key[t] \in Key
    BY <1>4 DEF TypeOK, Asking
  <2>2. PatchFor(key[t], Pointed(t))
    BY <1>4 DEF InTheMaking
  <2> QED BY <1>1, <1>2, <2>1, <2>2 DEF Pointed
<1>5. Provenance'
  BY <1>1, <1>3 DEF Provenance
<1>6. WarmFits'
  <2>1. Nothing \notin Halt /\ Nothing \notin Key
    BY DEF HookAssumption
  <2> QED BY <2>1 DEF Warming, WarmBegin, WarmQuote, WarmApply, WarmFail, WarmFits, Halts
<1> QED BY <1>1, <1>4, <1>5, <1>6 DEF InTheMaking

\* A step of a thread that leaves the maps alone disturbs no other thread.
LEMMA ServedLocal ==
    ASSUME TypeOK, Provenance, InTheMaking, NEW t \in Thread,
           UNCHANGED <<precomputed, cache>>,
           \A u \in Thread \ {t} : /\ pc'[u] = pc[u] /\ handle'[u] = handle[u] /\ src'[u] = src[u]
                                   /\ base'[u] = base[u] /\ own'[u] = own[u] /\ out'[u] = out[u]
                                   /\ key'[u] = key[u],
           ForHandle(t, src[t])',
           pc'[t] \in Asking => key'[t] \in Names(handle'[t]),
           pc'[t] = "apply" => base'[t] \notin Halt,
           pc'[t] = "store" => PatchFor(key'[t], own'[t]),
           pc'[t] \in {"copy", "copying"} => PatchFor(key'[t], Pointed(t)')
    PROVE  (Provenance /\ InTheMaking)'
<1>1. ASSUME NEW u \in Thread \ {t} PROVE Pointed(u)' = Pointed(u)
  BY DEF Pointed
<1>2. Provenance'
  <2>1. \A u \in Thread : ForHandle(u, src[u])'
    BY DEF Provenance, ForHandle
  <2> QED BY <2>1 DEF Provenance, ForHandle
<1>3. InTheMaking'
  <2>1. ASSUME NEW u \in Thread \ {t}
        PROVE  /\ pc'[u] \in Asking => key'[u] \in Names(handle'[u])
               /\ pc'[u] = "apply" => base'[u] \notin Halt
               /\ pc'[u] = "store" => PatchFor(key'[u], own'[u])
               /\ pc'[u] \in {"copy", "copying"} => PatchFor(key'[u], Pointed(u)')
    BY <1>1 DEF InTheMaking
  <2> QED BY <2>1 DEF InTheMaking
<1> QED BY <1>2, <1>3

\* The end of a call, and what leads to it.
LEMMA ServedEnd ==
    ASSUME TypeOK, Provenance, InTheMaking, NEW t \in Thread, NEW content,
           ForHandle(t, content), End(t, content),
           UNCHANGED <<precomputed, cache, handle, base>>
    PROVE  (Provenance /\ InTheMaking)'
<1>1. pc'[t] = "done" /\ src'[t] = content
  BY DEF End, Goto, TypeOK
<1>2. \A u \in Thread \ {t} : /\ pc'[u] = pc[u] /\ src'[u] = src[u] /\ key'[u] = key[u]
                              /\ out'[u] = out[u] /\ own'[u] = own[u]
  BY DEF End, Goto, TypeOK
<1>3. ForHandle(t, src[t])'
  BY <1>1 DEF ForHandle
<1> QED BY <1>1, <1>2, <1>3, ServedLocal DEF Asking

LEMMA ServedServe ==
    ASSUME TypeOK, HookAssumption, Provenance, InTheMaking, NEW t \in Thread, Serve(t)
    PROVE  (Provenance /\ InTheMaking)'
<1> DEFINE same(u) == /\ pc'[u] = pc[u] /\ handle'[u] = handle[u] /\ src'[u] = src[u]
                      /\ base'[u] = base[u] /\ own'[u] = own[u] /\ out'[u] = out[u]
                      /\ key'[u] = key[u]
           here == UNCHANGED <<precomputed, cache, handle, src>>
           asking == pc[t] \in Asking /\ key'[t] = key[t]
<1>a. ForHandle(t, src[t])
  BY DEF Provenance, ForHandle
<1>b. \A kind : Only(kind).kind = kind
  BY DEF Only
<1>c. here => ForHandle(t, src[t])'
  BY <1>a DEF ForHandle
<1>d. pc[t] \in Asking => key[t] \in Names(handle[t])
  BY DEF InTheMaking
<1>1. ASSUME NEW h \in Handles, Begin(t, h) PROVE (Provenance /\ InTheMaking)'
  <2>1. src'[t] = Only(IF h.buffered THEN "foreign" ELSE "path")
        /\ pc'[t] \in {"open", "compile"}
    BY <1>1 DEF Begin, Goto, TypeOK
  <2>2. ForHandle(t, src[t])'
    BY <1>b, <2>1 DEF ForHandle
  <2>3. \A u \in Thread \ {t} : same(u)
    BY <1>1 DEF Begin, Goto, TypeOK, local
  <2>4. UNCHANGED <<precomputed, cache>>
    BY <1>1 DEF Begin, startup
  <2> QED BY <2>1, <2>2, <2>3, <2>4, ServedLocal DEF Asking
<1>2. CASE OpenCreated(t)
  <2>1. pc'[t] = "lookup" /\ here /\ key'[t] = handle[t].anchored
    BY <1>2 DEF OpenCreated, Goto, startup, TypeOK
  <2>2. \A u \in Thread \ {t} : same(u)
    BY <1>2 DEF OpenCreated, Goto, local, TypeOK
  <2>3. handle[t].anchored \in Names(handle[t])
    BY <1>2 DEF OpenCreated, Created, Names, HookAssumption
  <2> QED BY <1>c, <2>1, <2>2, <2>3, ServedLocal
<1>3. CASE OpenReal(t)
  <2>1. UNCHANGED <<precomputed, cache, handle, base>>
    BY <1>3 DEF OpenReal, startup
  <2>2. CASE End(t, Only("none"))
    <3>1. ForHandle(t, Only("none"))
      BY <1>b DEF ForHandle
    <3> QED BY <2>1, <2>2, <3>1, ServedEnd
  <2>3. CASE src' = [src EXCEPT ![t] = Only("stream")] /\ Goto(t, Opened)
             /\ UNCHANGED <<missed, key, own, out>>
    <3>1. src'[t] = Only("stream") /\ pc'[t] \in {"compile", "orig"}
      BY <2>3 DEF Goto, Opened, TypeOK
    <3>2. \A u \in Thread \ {t} : same(u)
      BY <2>1, <2>3 DEF Goto, TypeOK
    <3>3. ForHandle(t, src[t])'
      BY <1>b, <3>1 DEF ForHandle
    <3> QED BY <2>1, <3>1, <3>2, <3>3, ServedLocal DEF Asking
  <2> QED BY <1>3, <2>2, <2>3 DEF OpenReal
<1>4. CASE CompileHook(t)
  <2>1. /\ here
        /\ \/ pc'[t] = "lookup" /\ key'[t] = CanonicalPath(t) /\ CanonicalPath(t) \in Key
           \/ pc'[t] = "orig"
    <3>1. CASE Eligible(t)
      BY <1>4, <3>1 DEF CompileHook, Eligible, Goto, startup, TypeOK
    <3>2. CASE ~Eligible(t)
      BY <1>4, <3>2 DEF CompileHook, Goto, startup, TypeOK
    <3> QED BY <3>1, <3>2
  <2>2. \A u \in Thread \ {t} : same(u)
    BY <1>4 DEF CompileHook, Goto, local, TypeOK
  <2>3. CanonicalPath(t) \in Key => CanonicalPath(t) \in Names(handle[t])
    BY DEF CanonicalPath, Names
  <2> QED BY <1>c, <2>1, <2>2, <2>3, ServedLocal DEF Asking
<1>5. CASE OrigCompile(t)
  <2>1. UNCHANGED <<precomputed, cache, handle, base>>
    BY <1>5 DEF OrigCompile, startup
  <2>2. CASE End(t, IF InMemory(src[t]) THEN src[t] ELSE Only("source"))
    <3>1. ForHandle(t, IF InMemory(src[t]) THEN src[t] ELSE Only("source"))
      BY <1>a, <1>b DEF ForHandle
    <3> QED BY <2>1, <2>2, <3>1, ServedEnd
  <2>3. CASE Goto(t, "open") /\ UNCHANGED <<src, missed, key, own, out>>
    <3>1. pc'[t] = "open" /\ here
      BY <2>1, <2>3 DEF Goto, TypeOK
    <3>2. \A u \in Thread \ {t} : same(u)
      BY <2>1, <2>3 DEF Goto, TypeOK
    <3> QED BY <1>c, <3>1, <3>2, ServedLocal DEF Asking
  <2> QED BY <1>5, <2>2, <2>3 DEF OrigCompile
<1>6. CASE LookupHit(t)
  <2>1. pc'[t] = "copy" /\ out'[t] = Pointer(t) /\ here /\ asking /\ UNCHANGED <<base, own>>
    BY <1>6 DEF LookupHit, Goto, startup, TypeOK, Asking
  <2>2. \A u \in Thread \ {t} : same(u)
    BY <1>6 DEF LookupHit, Goto, TypeOK
  <2>3. key[t] \in Key /\ Home[t] \in Process
    BY <1>6 DEF LookupHit, TypeOK, Asking, HookAssumption
  <2>4. PatchFor(key[t], Pointed(t)')
    BY <1>6, <2>1, <2>3 DEF LookupHit, Hit, Pointer, Pointed, PatchFor, Provenance
  <2> QED BY <1>c, <1>d, <2>1, <2>2, <2>4, ServedLocal
<1>7. CASE LookupMiss(t)
  <2>1. pc'[t] \in {"apply", "read"} /\ base'[t] = Nothing /\ here /\ asking
    BY <1>7 DEF LookupMiss, Goto, startup, TypeOK, Asking
  <2>2. \A u \in Thread \ {t} : same(u)
    BY <1>7 DEF LookupMiss, Goto, TypeOK
  <2>3. Nothing \notin Halt
    BY DEF HookAssumption
  <2> QED BY <1>c, <1>d, <2>1, <2>2, <2>3, ServedLocal
<1>8. CASE CannotRead(t) \/ SkipHalt(t) \/ ApplyFails(t)
  <2>1. pc'[t] = "refused" /\ here /\ asking
    BY <1>8 DEF CannotRead, SkipHalt, ApplyFails, Goto, startup, TypeOK, Asking
  <2>2. \A u \in Thread \ {t} : same(u)
    BY <1>8 DEF CannotRead, SkipHalt, ApplyFails, Applied, Goto, local, TypeOK
  <2> QED BY <1>c, <1>d, <2>1, <2>2, ServedLocal
<1>9. CASE ReadOriginal(t)
  <2>1. pc'[t] = "apply" /\ base'[t] = disk[key[t]] /\ ~Halts(disk[key[t]]) /\ here /\ asking
    BY <1>9 DEF ReadOriginal, Goto, startup, TypeOK, Asking
  <2>2. \A u \in Thread \ {t} : same(u)
    BY <1>9 DEF ReadOriginal, Goto, TypeOK
  <2> QED BY <1>c, <1>d, <2>1, <2>2, ServedLocal DEF Halts
<1>15. ASSUME NEW f \in CorpusFile, Quote(t, f) PROVE (Provenance /\ InTheMaking)'
  <2>1. pc[t] = "apply" /\ pc'[t] = "apply" /\ base'[t] = base[t] /\ here /\ asking
    BY <1>15 DEF Quote, startup, Asking
  <2>2. \A u \in Thread \ {t} : same(u)
    BY <1>15 DEF Quote
  <2>3. base[t] \notin Halt
    BY <2>1 DEF InTheMaking
  <2> QED BY <1>c, <1>d, <2>1, <2>2, <2>3, ServedLocal
<1>10. CASE Apply(t)
  <2>1. pc'[t] = "store" /\ own'[t] = Patch(key[t], base[t], quoted[t]) /\ here /\ asking
    BY <1>10 DEF Apply, Goto, startup, TypeOK, Asking
  <2>2. \A u \in Thread \ {t} : same(u)
    BY <1>10 DEF Apply, Applied, Goto, TypeOK
  <2>3. key[t] \in Key /\ base[t] \notin Halt /\ Applies(key[t], base[t], quoted[t])
    BY <1>10 DEF Apply, TypeOK, Asking, InTheMaking
  <2>4. PatchFor(key[t], Patch(key[t], base[t], quoted[t]))
    BY <2>3, Made
  <2> QED BY <1>c, <1>d, <2>1, <2>2, <2>4, ServedLocal
<1>11. CASE BeginCopy(t)
  <2>1. pc[t] = "copy" /\ pc'[t] = "copying" /\ here /\ asking /\ UNCHANGED <<base, own, out>>
    BY <1>11 DEF BeginCopy, Goto, startup, TypeOK, Asking
  <2>2. \A u \in Thread \ {t} : same(u)
    BY <1>11, <2>1 DEF BeginCopy, Goto, TypeOK
  <2>3. Pointed(t)' = Pointed(t) /\ PatchFor(key[t], Pointed(t))
    BY <2>1 DEF Pointed, InTheMaking
  <2> QED BY <1>c, <1>d, <2>1, <2>2, <2>3, ServedLocal
<1>12. CASE EndCopy(t)
  <2>1. UNCHANGED <<precomputed, cache, handle>> /\ pc'[t] \in {"compile", "orig"}
    BY <1>12 DEF EndCopy, Return, Opened, Goto, startup, TypeOK
  <2>2. \A u \in Thread \ {t} : same(u)
    BY <1>12 DEF EndCopy, Return, Goto, local, TypeOK
  <2>3. src'[t] \in {Pointed(t), Only("torn")}
    BY <1>12 DEF EndCopy, TypeOK
  <2>4. PatchFor(key[t], Pointed(t)) /\ key[t] \in Names(handle[t])
    BY <1>12, <1>d DEF EndCopy, InTheMaking, Asking
  <2>5. ForHandle(t, src[t])'
    BY <1>b, <2>1, <2>3, <2>4 DEF ForHandle, PatchFor, MadeFor
  <2> QED BY <2>1, <2>2, <2>5, ServedLocal DEF Asking
<1>13. CASE Refuse(t)
  <2>1. UNCHANGED <<precomputed, cache, handle, base>>
    BY <1>13 DEF Refuse, startup
  <2>2. CASE End(t, Only("none"))
    <3>1. ForHandle(t, Only("none"))
      BY <1>b DEF ForHandle
    <3> QED BY <2>1, <2>2, <3>1, ServedEnd
  <2>3. CASE /\ \/ src' = [src EXCEPT ![t] = Only("stub")] /\ Return(t)
                \/ src' = src /\ Goto(t, "orig")
             /\ UNCHANGED <<key, own, out>>
    <3>1. src'[t] \in {src[t], Only("stub")} /\ pc'[t] \in {"compile", "orig"}
      BY <2>3 DEF Return, Goto, Opened, TypeOK
    <3>2. \A u \in Thread \ {t} : same(u)
      BY <2>1, <2>3 DEF Return, Goto, TypeOK
    <3>3. ForHandle(t, src[t])'
      BY <1>a, <1>b, <2>1, <3>1 DEF ForHandle
    <3> QED BY <2>1, <3>1, <3>2, <3>3, ServedLocal DEF Asking
  <2> QED BY <1>13, <2>2, <2>3 DEF Refuse
<1>14. CASE Store(t)
  <2>1. key[t] \in Key /\ Home[t] \in Process /\ PatchFor(key[t], own[t])
    BY <1>14 DEF Store, TypeOK, Asking, HookAssumption, InTheMaking
  <2>2. /\ pc[t] = "store" /\ pc'[t] = "copy"
        /\ UNCHANGED <<precomputed, handle, src, key, base, own>>
    BY <1>14 DEF Store, Goto, startup, TypeOK
  <2>3. \A u \in Thread \ {t} : same(u)
    BY <1>14, <2>2 DEF Store, Goto, TypeOK
  <2>4. CASE ~cfg.cache
    <3>1. cache' = cache /\ out'[t] = "owned"
      BY <1>14, <2>4 DEF Store, TypeOK
    <3>2. PatchFor(key[t], Pointed(t)')
      BY <2>1, <2>2, <3>1 DEF Pointed
    <3> QED BY <1>c, <1>d, <2>2, <2>3, <3>1, <3>2, ServedLocal DEF Asking
  <2>5. CASE cfg.cache
    <3>1. cache' = [cache EXCEPT ![Home[t]][key[t]] = own[t]] /\ out'[t] = "slot"
      BY <1>14, <2>5 DEF Store, TypeOK
    <3>2. \A p \in Process, k \in Key :
             \/ cache'[p][k] = cache[p][k]
             \/ PatchFor(k, cache'[p][k])
      BY <2>1, <3>1 DEF TypeOK
    <3>3. Provenance'
      <4>1. \A p \in Process, k \in Key : MadeFor(k, cache'[p][k])
        BY <3>2 DEF PatchFor, Provenance
      <4> QED BY <2>2, <4>1 DEF Provenance
    <3>4. ASSUME NEW u \in Thread, pc'[u] \in {"copy", "copying"}
          PROVE  PatchFor(key'[u], Pointed(u)')
      <4>1. CASE u = t
        <5>1. cache'[Home[t]][key[t]] = own[t]
          BY <2>1, <3>1 DEF TypeOK
        <5> QED BY <2>1, <2>2, <3>1, <4>1, <5>1 DEF Pointed
      <4>2. CASE u # t
        <5>1. pc[u] \in {"copy", "copying"} /\ out'[u] = out[u] /\ own'[u] = own[u]
          BY <2>3, <3>4, <4>2
        <5>2. PatchFor(key[u], Pointed(u)) /\ key[u] \in Key /\ Home[u] \in Process
          BY <2>2, <5>1 DEF InTheMaking, TypeOK, Asking, HookAssumption
        <5> QED BY <2>2, <3>2, <5>1, <5>2 DEF Pointed
      <4> QED BY <4>1, <4>2
    <3>5. ASSUME NEW u \in Thread
          PROVE  /\ pc'[u] \in Asking => key'[u] \in Names(handle'[u])
                 /\ pc'[u] = "apply" => base'[u] \notin Halt
                 /\ pc'[u] = "store" => PatchFor(key'[u], own'[u])
      BY <1>d, <2>2, <2>3 DEF InTheMaking, Asking
    <3> QED BY <3>3, <3>4, <3>5 DEF InTheMaking
  <2> QED BY <2>4, <2>5
<1> QED BY <1>1, <1>2, <1>3, <1>4, <1>5, <1>6, <1>7, <1>8, <1>9, <1>10, <1>11, <1>12,
           <1>13, <1>14, <1>15 DEF Serve

\* Only the warm-up writes what MINIT computes.
LEMMA WarmKept ==
    ASSUME \/ \E t \in Thread : Serve(t)
           \/ (\E k \in Key : EditFile(k)) \/ (\E f \in CorpusFile : EditCorpus(f))
           \/ (\E p \in Process : Respawn(p)) \/ UNCHANGED vars
    PROVE  UNCHANGED startup
<1>1. ASSUME NEW t \in Thread, Serve(t) PROVE UNCHANGED startup
  BY <1>1 DEF Serve, Begin, OpenCreated, OpenReal, CompileHook, OrigCompile, LookupHit,
     LookupMiss, CannotRead, SkipHalt, ReadOriginal, Quote, Apply, ApplyFails, Store,
     BeginCopy, EndCopy, Refuse
<1> QED BY <1>1 DEF EditFile, EditCorpus, Respawn, vars, startup

\* A crash empties the slots of its process, and takes its threads out of the call.
LEMMA ServedOutside ==
    ASSUME TypeOK, HookAssumption, Provenance, InTheMaking,
           (\E k \in Key : EditFile(k)) \/ (\E f \in CorpusFile : EditCorpus(f))
              \/ (\E p \in Process : Respawn(p)) \/ UNCHANGED vars
    PROVE  (Provenance /\ InTheMaking)'
<1>1. CASE UNCHANGED <<precomputed, cache, pc, handle, src, key, base, own, out>>
  <2>1. \A t \in Thread : Pointed(t)' = Pointed(t)
    BY <1>1 DEF Pointed
  <2> QED BY <1>1, <2>1 DEF Provenance, InTheMaking
<1>2. ASSUME NEW p \in Process, Respawn(p) PROVE (Provenance /\ InTheMaking)'
  <2> DEFINE gone(t) == Home[t] = p
  <2>1. UNCHANGED <<precomputed, out, key>> /\ cache' = [cache EXCEPT ![p] = EmptyMap]
    BY <1>2 DEF Respawn, startup
  <2>2. \A t \in Thread : gone(t) => pc'[t] = "idle" /\ src'[t] = Only("none")
    BY <1>2 DEF Respawn
  <2>3. \A t \in Thread : ~gone(t) =>
           /\ pc'[t] = pc[t] /\ handle'[t] = handle[t] /\ src'[t] = src[t]
           /\ base'[t] = base[t] /\ own'[t] = own[t]
    BY <1>2 DEF Respawn
  <2>4. \A t \in Thread : ~gone(t) => Pointed(t)' = Pointed(t)
    BY <2>1, <2>3 DEF Pointed, TypeOK, HookAssumption
  <2>5. \A q \in Process, k \in Key : MadeFor(k, cache'[q][k])
    BY <2>1 DEF TypeOK, Provenance, MadeFor, EmptyMap, Only
  <2>6. \A t \in Thread : ForHandle(t, src[t])'
    <3>1. \A t \in Thread : gone(t) => ForHandle(t, src[t])'
      BY <2>2 DEF ForHandle, Only
    <3>2. \A t \in Thread : ~gone(t) => ForHandle(t, src[t])'
      BY <2>3 DEF Provenance, ForHandle
    <3> QED BY <3>1, <3>2
  <2>7. Provenance'
    BY <2>1, <2>5, <2>6 DEF Provenance, ForHandle
  <2>8. InTheMaking'
    BY <2>1, <2>2, <2>3, <2>4 DEF InTheMaking, Asking
  <2> QED BY <2>7, <2>8
<1>3. (\E k \in Key : EditFile(k)) \/ (\E f \in CorpusFile : EditCorpus(f)) \/ UNCHANGED vars
         => UNCHANGED <<precomputed, cache, pc, handle, src, key, base, own, out>>
  BY DEF EditFile, EditCorpus, vars, startup, local
<1> QED BY <1>1, <1>2, <1>3

LEMMA ServedNext ==
    HookAssumption /\ TypeOK /\ Provenance /\ InTheMaking /\ WarmFits /\ [Next]_vars
        => (Provenance /\ InTheMaking /\ WarmFits)'
<1>1. UNCHANGED startup /\ WarmFits => WarmFits'
  BY DEF startup, WarmFits
<1> QED BY <1>1, ServedWarming, ServedServe, ServedOutside, WarmKept DEF Next, Warming

\* What is stored or served as the patch of a file was made for that file, from a
\* version that fits and does not halt the compiler, and from corpus files that passed
\* their guards.
THEOREM ProvenanceHolds == Spec => []Provenance
BY HookAssumption, TypeInit, TypeNext, ServedInit, ServedNext, PTL DEF Spec

-----------------------------------------------------------------------------
(* One RefCache for the warm-up.                                           *)

LEMMA WarmInit == HookAssumption /\ Init => WarmIsQuoted
BY DEF HookAssumption, Init, WarmIsQuoted, EmptyMap, Only

LEMMA WarmNext ==
    ASSUME HookAssumption, TypeOK, WarmIsQuoted, [Next]_vars
    PROVE  WarmIsQuoted'
<1>1. ASSUME NEW f \in CorpusFile, WarmQuote(f) PROVE WarmIsQuoted'
  <2>1. /\ precomputed' = precomputed /\ warm[f] = Nothing
        /\ \A g \in CorpusFile \ {f} : warm'[g] = warm[g]
    BY <1>1 DEF WarmQuote, TypeOK, RefCache
  <2>2. ASSUME NEW k \in Key, precomputed[k].kind = "patched", NEW g \in Quotes[k]
        PROVE  warm'[g] # Nothing /\ precomputed[k].corpus[g] = warm'[g]
    <3>1. warm[g] # Nothing /\ precomputed[k].corpus[g] = warm[g]
      BY <2>2 DEF WarmIsQuoted
    <3>2. g \in CorpusFile /\ g # f
      BY <2>1, <3>1 DEF HookAssumption
    <3> QED BY <2>1, <3>1, <3>2
  <2> QED BY <2>1, <2>2 DEF WarmIsQuoted
<1>2. CASE WarmApply
  <2>1. /\ warming \in Key /\ Verified(warming, warm) /\ warm' = warm
        /\ precomputed' = [precomputed EXCEPT ![warming] = Patch(warming, warmBase, warm)]
    BY <1>2 DEF WarmApply, Applies, TypeOK
  <2>2. ASSUME NEW k \in Key, precomputed'[k].kind = "patched", NEW g \in Quotes[k]
        PROVE  warm[g] # Nothing /\ precomputed'[k].corpus[g] = warm[g]
    <3>1. CASE k = warming
      <4>1. precomputed'[k] = Patch(k, warmBase, warm)
        BY <2>1, <3>1 DEF TypeOK
      <4>2. g \in CorpusFile /\ warm[g] \in Corpus /\ Nothing \notin Corpus
        BY <2>1, <3>1 DEF Verified, HookAssumption
      <4> QED BY <4>1, <4>2 DEF Patch
    <3>2. CASE k # warming
      BY <2>1, <2>2, <3>2 DEF WarmIsQuoted, TypeOK
    <3> QED BY <3>1, <3>2
  <2> QED BY <2>1, <2>2 DEF WarmIsQuoted
<1>3. UNCHANGED <<precomputed, warm>> => WarmIsQuoted'
  BY DEF WarmIsQuoted
<1>4. (\E k \in Key : WarmBegin(k)) \/ WarmFail => UNCHANGED <<precomputed, warm>>
  BY DEF WarmBegin, WarmFail
<1>5. UNCHANGED startup => UNCHANGED <<precomputed, warm>>
  BY DEF startup
<1> QED BY <1>1, <1>2, <1>3, <1>4, <1>5, WarmKept DEF Next

\* All precomputed files that quote a file of the corpus quote the same state of it.
THEOREM OneWarmupCorpus == Spec => []WarmupSnapshot
<1>1. HookAssumption /\ WarmIsQuoted => WarmupSnapshot
  BY DEF WarmIsQuoted, WarmupSnapshot, HookAssumption
<1> QED BY <1>1, HookAssumption, TypeInit, TypeNext, WarmInit, WarmNext, PTL DEF Spec

-----------------------------------------------------------------------------
(* What a call in progress has seen on disk.                               *)

LEMMA SeenInit == HookAssumption /\ Init => Seen
BY DEF Init, Seen, Active

LEMMA SeenServe ==
    ASSUME TypeOK, HookAssumption, Seen, NEW t \in Thread, Serve(t)
    PROVE  Seen'
<1>1. ASSUME NEW h \in Handles, Begin(t, h) PROVE Seen'
  <2>1. /\ disk' = disk /\ handle'[t] = h
        /\ since'[t] = [k \in Key |-> IF k \in Names(h) THEN {disk[k]} ELSE {}]
    BY <1>1 DEF Begin, world, TypeOK
  <2>2. \A u \in Thread \ {t} :
           pc'[u] = pc[u] /\ handle'[u] = handle[u] /\ since'[u] = since[u]
    BY <1>1 DEF Begin, Goto, TypeOK
  <2>3. \A k \in Names(h) : k \in Key /\ disk[k] \in since'[t][k]
    BY <2>1 DEF Names
  <2>4. ASSUME NEW u \in Thread, Active(u)', NEW k \in Names(handle'[u])
        PROVE  disk'[k] \in since'[u][k]
    <3>1. CASE u = t
      BY <2>1, <2>3, <2>4, <3>1
    <3>2. CASE u # t
      BY <2>1, <2>2, <2>4, <3>2 DEF Seen, Active
    <3> QED BY <3>1, <3>2
  <2> QED BY <2>4 DEF Seen
<1>2. ASSUME ~ \E h \in Handles : Begin(t, h)
      PROVE  UNCHANGED <<disk, handle, since>> /\ Active(t)
  BY <1>2 DEF Serve, OpenCreated, OpenReal, CompileHook, OrigCompile, LookupHit,
     LookupMiss, CannotRead, SkipHalt, ReadOriginal, Quote, Apply, ApplyFails, Store,
     BeginCopy, EndCopy, Refuse, world, Active
<1>3. \A u \in Thread \ {t} : pc'[u] = pc[u]
  BY DEF Serve, Begin, OpenCreated, OpenReal, CompileHook, OrigCompile, LookupHit,
     LookupMiss, CannotRead, SkipHalt, ReadOriginal, Quote, Apply, ApplyFails, Store,
     BeginCopy, EndCopy, Refuse, Return, End, Goto, TypeOK
<1> QED BY <1>1, <1>2, <1>3 DEF Seen, Active

LEMMA SeenOutside ==
    ASSUME TypeOK, HookAssumption, Seen,
           \/ Warming \/ (\E k \in Key : EditFile(k)) \/ (\E f \in CorpusFile : EditCorpus(f))
           \/ (\E p \in Process : Respawn(p)) \/ UNCHANGED vars
    PROVE  Seen'
<1>1. ASSUME NEW j \in Key, EditFile(j) PROVE Seen'
  <2>1. PICK v \in (Version \cup {Nothing}) \ {disk[j]} :
           /\ disk' = [disk EXCEPT ![j] = v]
           /\ since' = [t \in Thread |-> IF j \in Names(handle[t]) /\ pc[t] \notin {"idle", "done"}
                                         THEN [since[t] EXCEPT ![j] = @ \cup {v}] ELSE since[t]]
    BY <1>1 DEF EditFile
  <2>2. UNCHANGED <<pc, handle>>
    BY <1>1 DEF EditFile
  <2>3. ASSUME NEW u \in Thread, Active(u), NEW k \in Names(handle[u])
        PROVE  disk'[k] \in since'[u][k]
    <3>1. k \in Key /\ disk[k] \in since[u][k]
      BY <2>3 DEF Names, Seen
    <3>2. CASE k = j
      <4>1. since'[u] = [since[u] EXCEPT ![j] = @ \cup {v}] /\ disk'[j] = v
        BY <2>1, <2>3, <3>2 DEF Active, TypeOK
      <4> QED BY <3>1, <3>2, <4>1 DEF TypeOK
    <3>3. CASE k # j
      BY <2>1, <3>1, <3>3 DEF TypeOK
    <3> QED BY <3>2, <3>3
  <2> QED BY <2>2, <2>3 DEF Seen, Active
<1>2. ASSUME NEW p \in Process, Respawn(p) PROVE Seen'
  <2>1. disk' = disk /\ \A t \in Thread : IF Home[t] = p THEN pc'[t] = "idle"
           ELSE pc'[t] = pc[t] /\ handle'[t] = handle[t] /\ since'[t] = since[t]
    BY <1>2 DEF Respawn, world
  <2> QED BY <2>1 DEF Seen, Active
<1>3. Warming \/ (\E f \in CorpusFile : EditCorpus(f)) \/ UNCHANGED vars
         => UNCHANGED <<disk, pc, handle, since>>
  BY DEF Warming, WarmBegin, WarmQuote, WarmApply, WarmFail, EditCorpus, vars, world
<1> QED BY <1>1, <1>2, <1>3 DEF Seen, Active

LEMMA SeenNext == HookAssumption /\ TypeOK /\ Seen /\ [Next]_vars => Seen'
BY SeenServe, SeenOutside DEF Next, Warming

-----------------------------------------------------------------------------
(* Fail-closed.                                                            *)

\* SourceKinds, ClosedSoFar and FailClosed, for one thread.
Closed(t) ==
    /\ pc[t] \notin {"idle", "done"} => src[t].kind \notin {"none", "source"}
    /\ Created(t) => src[t].kind \notin {"stream", "source"}
    /\ cfg.fail /\ Covered(t) =>
        /\ pc[t] = "open" => cfg.opcache
        /\ pc[t] = "compile" => src[t].kind # "foreign"
        /\ pc[t] = "orig" => src[t].kind \in {"patched", "stub", "torn"}
        /\ pc[t] = "done" => \/ src[t].kind \in {"patched", "stub", "torn"}
                             \/ src[t].kind = "none" /\ ~Created(t) /\ cfg.opcache
AllClosed == \A t \in Thread : Closed(t)

LEMMA AllClosedIs == AllClosed <=> SourceKinds /\ ClosedSoFar /\ FailClosed
BY DEF AllClosed, Closed, SourceKinds, ClosedSoFar, FailClosed

LEMMA ClosedInit == HookAssumption /\ Init => AllClosed
BY DEF HookAssumption, Init, AllClosed, Closed, NoHandle, Only, Created, Covered

\* Handle by handle, an include can only cease to be covered as it sees more.
SeesMore(u) ==
    handle'[u] = handle[u] /\ \A k \in Key : since[u][k] \subseteq since'[u][k]

LEMMA StillCovered ==
    ASSUME NEW u \in Thread, SeesMore(u)
    PROVE  (Created(u)' <=> Created(u)) /\ (Covered(u)' => Covered(u))
BY DEF SeesMore, Created, Covered

LEMMA EditShowsMore ==
    ASSUME TypeOK, NEW k \in Key, EditFile(k), NEW u \in Thread
    PROVE  SeesMore(u)
<1>1. PICK v \in (Version \cup {Nothing}) \ {disk[k]} :
         since' = [t \in Thread |-> IF k \in Names(handle[t]) /\ pc[t] \notin {"idle", "done"}
                                    THEN [since[t] EXCEPT ![k] = @ \cup {v}] ELSE since[t]]
  BY DEF EditFile
<1>2. handle' = handle
  BY DEF EditFile
<1> QED BY <1>1, <1>2 DEF SeesMore, TypeOK

\* The hook takes a covered include that the engine has not in memory.
LEMMA CoveredIsEligible ==
    ASSUME TypeOK, Seen, NEW t \in Thread, Active(t), Covered(t),
           src[t].kind \in {"path", "stream"}
    PROVE  Eligible(t)
<1>1. handle[t].path \in Key /\ handle[t].base /\ ~InMemory(src[t])
  BY DEF Covered, InMemory
<1>2. ShowsListed(t)
  BY <1>1 DEF ShowsListed
<1>3. CASE handle[t].path = handle[t].anchored
  BY <1>1, <1>2, <1>3 DEF Eligible, CanonicalPath
<1>4. CASE Nothing \notin since[t][handle[t].path]
  <2>1. disk[handle[t].path] \in since[t][handle[t].path]
    BY <1>1 DEF Seen, Names
  <2>2. OnDisk(handle[t].path)
    BY <1>4, <2>1 DEF OnDisk
  <2> QED BY <1>1, <1>2, <2>2 DEF Eligible, CanonicalPath
<1> QED BY <1>3, <1>4 DEF Covered

\* A step of one thread is none of the others.
LEMMA ClosedLocal ==
    ASSUME AllClosed, NEW t \in Thread, UNCHANGED cfg,
           \A u \in Thread \ {t} :
               pc'[u] = pc[u] /\ handle'[u] = handle[u] /\ src'[u] = src[u]
               /\ since'[u] = since[u],
           Closed(t)'
    PROVE  AllClosed'
<1>1. ASSUME NEW u \in Thread \ {t} PROVE Closed(u)'
  <2>1. Closed(u) /\ (Created(u)' <=> Created(u)) /\ (Covered(u)' <=> Covered(u))
    BY DEF AllClosed, Created, Covered
  <2> QED BY <2>1 DEF Closed
<1> QED BY <1>1 DEF AllClosed

LEMMA ClosedServe ==
    ASSUME TypeOK, HookAssumption, InTheMaking, Seen, AllClosed, NEW t \in Thread, Serve(t)
    PROVE  AllClosed'
<1> DEFINE same(u) == /\ pc'[u] = pc[u] /\ handle'[u] = handle[u] /\ src'[u] = src[u]
                      /\ since'[u] = since[u]
           here == handle' = handle /\ since' = since
<1>a. Closed(t)
  BY DEF AllClosed
<1>b. here => (Created(t)' <=> Created(t)) /\ (Covered(t)' <=> Covered(t))
  BY DEF Created, Covered
<1>c. \A kind : Only(kind).kind = kind
  BY DEF Only
<1>d. cfg' = cfg
  BY DEF Serve, Begin, OpenCreated, OpenReal, CompileHook, OrigCompile, LookupHit,
     LookupMiss, CannotRead, SkipHalt, ReadOriginal, Quote, Apply, ApplyFails, Store, BeginCopy,
     EndCopy, Refuse, startup
<1>1. ASSUME NEW h \in Handles, Begin(t, h) PROVE AllClosed'
  <2>1. /\ src'[t].kind = (IF h.buffered THEN "foreign" ELSE "path") /\ handle'[t] = h
        /\ pc'[t] = (IF cfg.opcache /\ ~h.buffered THEN "open" ELSE "compile")
    BY <1>1, <1>c DEF Begin, Goto, TypeOK
  <2>2. \A u \in Thread \ {t} : same(u)
    BY <1>1 DEF Begin, Goto, TypeOK
  <2>3. Closed(t)'
    BY <1>d, <2>1 DEF Closed, Covered
  <2> QED BY <1>d, <2>2, <2>3, ClosedLocal
<1>2. CASE \/ OpenCreated(t) \/ LookupHit(t) \/ LookupMiss(t) \/ CannotRead(t) \/ SkipHalt(t)
           \/ ReadOriginal(t) \/ Apply(t) \/ ApplyFails(t) \/ Store(t) \/ BeginCopy(t)
           \/ \E f \in CorpusFile : Quote(t, f)
  <2>1. /\ pc[t] \in {"open", "lookup", "read", "apply", "store", "copy"}
        /\ pc'[t] \in {"lookup", "copy", "apply", "read", "refused", "store", "copying"}
        /\ UNCHANGED <<handle, src, since>>
    BY <1>2 DEF OpenCreated, LookupHit, LookupMiss, CannotRead, SkipHalt, ReadOriginal,
       Quote, Apply, ApplyFails, Store, BeginCopy, Goto, TypeOK
  <2>2. \A u \in Thread \ {t} : same(u)
    BY <1>2, <2>1 DEF OpenCreated, LookupHit, LookupMiss, CannotRead, SkipHalt, ReadOriginal,
       Quote, Apply, ApplyFails, Store, BeginCopy, Goto, TypeOK
  <2>3. Closed(t)'
    BY <1>a, <1>b, <2>1 DEF Closed
  <2> QED BY <1>d, <2>2, <2>3, ClosedLocal
<1>3. CASE OpenReal(t)
  <2>1. pc[t] = "open" /\ ~Created(t) /\ here
    BY <1>3 DEF OpenReal
  <2>2. CASE End(t, Only("none"))
    <3>1. pc'[t] = "done" /\ src'[t].kind = "none"
      BY <1>c, <2>2 DEF End, Goto, TypeOK
    <3>2. \A u \in Thread \ {t} : same(u)
      BY <2>1, <2>2 DEF End, Goto, TypeOK
    <3>3. Closed(t)'
      BY <1>a, <1>b, <1>d, <2>1, <3>1 DEF Closed
    <3> QED BY <1>d, <3>2, <3>3, ClosedLocal
  <2>3. CASE src' = [src EXCEPT ![t] = Only("stream")] /\ Goto(t, Opened)
    <3>1. pc'[t] = (IF cfg.opcache THEN "compile" ELSE "orig") /\ src'[t].kind = "stream"
      BY <1>c, <2>3 DEF Goto, Opened, TypeOK
    <3>2. \A u \in Thread \ {t} : same(u)
      BY <2>1, <2>3 DEF Goto, TypeOK
    <3>3. Closed(t)'
      BY <1>a, <1>b, <1>d, <2>1, <3>1 DEF Closed
    <3> QED BY <1>d, <3>2, <3>3, ClosedLocal
  <2> QED BY <1>3, <2>2, <2>3 DEF OpenReal
<1>4. CASE CompileHook(t)
  <2>1. /\ pc[t] = "compile" /\ UNCHANGED <<handle, src, since>>
        /\ \/ pc'[t] = "lookup"
           \/ pc'[t] = "orig" /\ ~Eligible(t)
    BY <1>4 DEF CompileHook, Goto, TypeOK
  <2>2. \A u \in Thread \ {t} : same(u)
    BY <1>4, <2>1 DEF CompileHook, Goto, TypeOK
  <2>3. Covered(t) /\ ~Eligible(t) => src[t].kind \notin {"path", "stream"}
    BY <2>1, CoveredIsEligible DEF Active
  <2>4. src[t].kind \in {"path", "stream", "foreign", "patched", "stub", "torn", "source",
                         "none"}
    BY DEF TypeOK, Content
  <2>5. Closed(t)'
    BY <1>a, <1>b, <1>d, <2>1, <2>3, <2>4 DEF Closed
  <2> QED BY <1>d, <2>2, <2>5, ClosedLocal
<1>5. CASE OrigCompile(t)
  <2>1. pc[t] = "orig" /\ here
    BY <1>5 DEF OrigCompile
  <2>2. CASE src[t].kind = "path"
    <3>1. Goto(t, "open") /\ src' = src
      BY <1>5, <2>2 DEF OrigCompile
    <3>2. \A u \in Thread \ {t} : same(u)
      BY <2>1, <3>1 DEF Goto, TypeOK
    <3>3. Closed(t)'
      BY <1>a, <1>b, <1>d, <2>1, <2>2, <3>1 DEF Closed, Goto, TypeOK
    <3> QED BY <1>d, <3>2, <3>3, ClosedLocal
  <2>3. CASE src[t].kind # "path"
    <3>1. /\ pc'[t] = "done"
          /\ src'[t] = IF InMemory(src[t]) THEN src[t] ELSE Only("source")
      BY <1>5, <2>3 DEF OrigCompile, End, Goto, TypeOK
    <3>2. \A u \in Thread \ {t} : same(u)
      BY <1>5, <2>1, <2>3 DEF OrigCompile, End, Goto, TypeOK
    <3>3. src[t].kind \in {"path", "stream", "foreign", "patched", "stub", "torn", "source",
                           "none"}
      BY DEF TypeOK, Content
    <3>4. Closed(t)'
      BY <1>a, <1>b, <1>c, <1>d, <2>1, <2>3, <3>1, <3>3 DEF Closed, InMemory
    <3> QED BY <1>d, <3>2, <3>4, ClosedLocal
  <2> QED BY <2>2, <2>3
<1>6. CASE EndCopy(t)
  <2>1. /\ pc[t] = "copying" /\ here
        /\ src'[t] \in {Pointed(t), Only("torn")}
        /\ pc'[t] \in {"compile", "orig"}
    BY <1>6 DEF EndCopy, Return, Opened, Goto, TypeOK
  <2>2. \A u \in Thread \ {t} : same(u)
    BY <1>6, <2>1 DEF EndCopy, Return, Goto, TypeOK
  <2>3. src'[t].kind \in {"patched", "torn"}
    BY <1>c, <2>1 DEF InTheMaking, PatchFor
  <2>4. Closed(t)'
    BY <1>b, <2>1, <2>3 DEF Closed
  <2> QED BY <1>d, <2>2, <2>4, ClosedLocal
<1>7. CASE Refuse(t)
  <2>1. pc[t] = "refused" /\ here
    BY <1>7 DEF Refuse
  <2>2. CASE cfg.fail /\ src' = [src EXCEPT ![t] = Only("stub")] /\ Return(t)
    <3>1. src'[t].kind = "stub" /\ pc'[t] \in {"compile", "orig"}
      BY <1>c, <2>2 DEF Return, Opened, Goto, TypeOK
    <3>2. \A u \in Thread \ {t} : same(u)
      BY <2>1, <2>2 DEF Return, Goto, TypeOK
    <3>3. Closed(t)'
      BY <3>1 DEF Closed
    <3> QED BY <1>d, <3>2, <3>3, ClosedLocal
  <2>3. CASE ~cfg.fail /\ Goto(t, "orig") /\ src' = src
    <3>1. \A u \in Thread \ {t} : same(u)
      BY <2>1, <2>3 DEF Goto, TypeOK
    <3>2. Closed(t)'
      BY <1>a, <1>b, <1>d, <2>1, <2>3 DEF Closed, Goto, TypeOK
    <3> QED BY <1>d, <3>1, <3>2, ClosedLocal
  <2>4. CASE ~cfg.fail /\ End(t, Only("none"))
    <3>1. pc'[t] = "done" /\ src'[t].kind = "none"
      BY <1>c, <2>4 DEF End, Goto, TypeOK
    <3>2. \A u \in Thread \ {t} : same(u)
      BY <2>1, <2>4 DEF End, Goto, TypeOK
    <3>3. Closed(t)'
      BY <1>d, <2>4, <3>1 DEF Closed
    <3> QED BY <1>d, <3>2, <3>3, ClosedLocal
  <2> QED BY <1>7, <2>2, <2>3, <2>4 DEF Refuse
<1> QED BY <1>1, <1>2, <1>3, <1>4, <1>5, <1>6, <1>7 DEF Serve

LEMMA ClosedOutside ==
    ASSUME HookAssumption, TypeOK, AllClosed,
           \/ Warming \/ (\E k \in Key : EditFile(k)) \/ (\E f \in CorpusFile : EditCorpus(f))
           \/ (\E p \in Process : Respawn(p)) \/ UNCHANGED vars
    PROVE  AllClosed'
<1>1. ASSUME NEW t \in Thread,
             pc'[t] = pc[t] /\ src'[t] = src[t] /\ cfg' = cfg /\ SeesMore(t)
      PROVE  Closed(t)'
  <2>1. Closed(t) /\ (Created(t)' <=> Created(t)) /\ (Covered(t)' => Covered(t))
    BY <1>1, StillCovered DEF AllClosed
  <2> QED BY <1>1, <2>1 DEF Closed
<1>2. ASSUME NEW k \in Key, EditFile(k) PROVE AllClosed'
  <2>1. \A t \in Thread : SeesMore(t)
    BY <1>2, EditShowsMore
  <2>2. UNCHANGED <<cfg, pc, src>>
    BY <1>2 DEF EditFile, startup
  <2> QED BY <1>1, <2>1, <2>2 DEF AllClosed
<1>3. ASSUME NEW p \in Process, Respawn(p) PROVE AllClosed'
  <2>1. ASSUME NEW t \in Thread, Home[t] = p PROVE Closed(t)'
    <3>1. /\ pc'[t] = "idle" /\ src'[t].kind = "none"
      BY <1>3, <2>1 DEF Respawn, Only
    <3> QED BY <3>1 DEF Closed
  <2>2. ASSUME NEW t \in Thread, Home[t] # p PROVE Closed(t)'
    BY <1>1, <1>3, <2>2 DEF Respawn, startup, SeesMore
  <2> QED BY <2>1, <2>2 DEF AllClosed
<1>4. CASE Warming \/ (\E f \in CorpusFile : EditCorpus(f)) \/ UNCHANGED vars
  <2>1. UNCHANGED <<cfg, pc, handle, src, since>>
    BY <1>4 DEF Warming, WarmBegin, WarmQuote, WarmApply, WarmFail, EditCorpus, vars, startup
  <2> QED BY <1>1, <2>1 DEF AllClosed, SeesMore
<1> QED BY <1>2, <1>3, <1>4

LEMMA ClosedNext ==
    ASSUME HookAssumption, TypeOK, InTheMaking, Seen, AllClosed, [Next]_vars
    PROVE  AllClosed'
BY ClosedServe, ClosedOutside DEF Next, Warming

\* With on_error = fail no include of a listed file runs the unpatched code.
THEOREM FailClosedHolds == Spec => []FailClosed
<1>1. AllClosed => FailClosed
  BY AllClosedIs
<1> QED BY <1>1, HookAssumption, TypeInit, TypeNext, ServedInit, ServedNext, SeenInit,
           SeenNext, ClosedInit, ClosedNext, PTL DEF Spec

\* A name that base_dir makes a created file never runs from disk.
THEOREM CreatedStaysVirtual == Spec => []CreatedNeverFromDisk
<1>1. AllClosed => CreatedNeverFromDisk
  BY DEF AllClosed, Closed, CreatedNeverFromDisk
<1> QED BY <1>1, HookAssumption, TypeInit, TypeNext, ServedInit, ServedNext, SeenInit,
           SeenNext, ClosedInit, ClosedNext, PTL DEF Spec

-----------------------------------------------------------------------------
(* The cache of a worker.                                                  *)

Alone(t) == \A u \in Thread : Home[u] = Home[t] => u = t
AtWork(t) == pc[t] \in {"read", "apply", "store"}

LEMMA SlotInit == HookAssumption /\ Init => SlotIsFree
BY DEF Init, SlotIsFree

\* The slot is only written by Store, in its own process.
LEMMA CacheWrites ==
    ASSUME TypeOK, HookAssumption, [Next]_vars
    PROVE  \/ UNCHANGED cache
           \/ \E u \in Thread : Store(u) /\ cfg.cache
           \/ \E p \in Process : Respawn(p)
<1>1. ASSUME NEW t \in Thread, Serve(t), ~(Store(t) /\ cfg.cache) PROVE UNCHANGED cache
  BY <1>1 DEF Serve, Begin, OpenCreated, OpenReal, CompileHook, OrigCompile, LookupHit,
     LookupMiss, CannotRead, SkipHalt, ReadOriginal, Quote, Apply, ApplyFails, Store, BeginCopy,
     EndCopy, Refuse
<1>2. Warming \/ (\E k \in Key : EditFile(k)) \/ (\E f \in CorpusFile : EditCorpus(f))
         \/ UNCHANGED vars => UNCHANGED cache
  BY DEF Warming, WarmBegin, WarmQuote, WarmApply, WarmFail, EditFile, EditCorpus, vars
<1> QED BY <1>1, <1>2 DEF Next, Warming

\* A thread comes to work on a key without a slot only when the lookup has missed.
LEMMA WorkBegins ==
    ASSUME TypeOK, HookAssumption, [Next]_vars, NEW t \in Thread, AtWork(t)'
    PROVE  /\ cfg' = cfg /\ key'[t] = key[t]
           /\ AtWork(t) \/ (LookupMiss(t) /\ UNCHANGED cache)
<1>1. ASSUME NEW u \in Thread, Serve(u)
      PROVE  /\ cfg' = cfg /\ key'[t] = key[t]
             /\ AtWork(t) \/ (LookupMiss(t) /\ UNCHANGED cache)
  <2>1. cfg' = cfg
    BY <1>1 DEF Serve, Begin, OpenCreated, OpenReal, CompileHook, OrigCompile, LookupHit,
       LookupMiss, CannotRead, SkipHalt, ReadOriginal, Quote, Apply, ApplyFails, Store, BeginCopy,
       EndCopy, Refuse, startup
  <2>2. CASE u # t
    <3>1. pc'[t] = pc[t] /\ key'[t] = key[t]
      BY <1>1, <2>2 DEF Serve, Begin, OpenCreated, OpenReal, CompileHook, OrigCompile,
         LookupHit, LookupMiss, CannotRead, SkipHalt, ReadOriginal, Quote, Apply, ApplyFails, Store,
         BeginCopy, EndCopy, Refuse, Return, End, Goto, TypeOK
    <3> QED BY <2>1, <3>1 DEF AtWork
  <2>3. CASE u = t
    <3>1. CASE LookupMiss(t)
      BY <2>1, <3>1 DEF LookupMiss
    <3>2. CASE ReadOriginal(t) \/ Apply(t) \/ \E f \in CorpusFile : Quote(t, f)
      BY <2>1, <3>2 DEF ReadOriginal, Apply, Quote, AtWork
    <3>3. CASE (\E h \in Handles : Begin(t, h)) \/ OpenCreated(t) \/ OpenReal(t)
               \/ CompileHook(t) \/ OrigCompile(t) \/ LookupHit(t)
      <4>1. pc'[t] \in {"open", "compile", "lookup", "done", "orig", "copy"}
        BY <3>3 DEF Begin, OpenCreated, OpenReal, CompileHook, OrigCompile, LookupHit,
           Opened, End, Goto, TypeOK
      <4> QED BY <4>1 DEF AtWork
    <3>4. CASE CannotRead(t) \/ SkipHalt(t) \/ ApplyFails(t) \/ Store(t) \/ BeginCopy(t)
               \/ EndCopy(t) \/ Refuse(t)
      <4>1. pc'[t] \in {"refused", "copy", "copying", "compile", "orig", "done"}
        BY <3>4 DEF CannotRead, SkipHalt, ApplyFails, Store, BeginCopy, EndCopy, Refuse,
           Return, Opened, End, Goto, TypeOK
      <4> QED BY <4>1 DEF AtWork
    <3> QED BY <1>1, <2>3, <3>1, <3>2, <3>3, <3>4 DEF Serve
  <2> QED BY <2>2, <2>3
<1>2. ASSUME NEW p \in Process, Respawn(p)
      PROVE  cfg' = cfg /\ key'[t] = key[t] /\ AtWork(t)
  BY <1>2 DEF Respawn, startup, AtWork
<1>3. Warming \/ (\E k \in Key : EditFile(k)) \/ (\E f \in CorpusFile : EditCorpus(f))
         \/ UNCHANGED vars => UNCHANGED <<cfg, pc, key>>
  BY DEF Warming, WarmBegin, WarmQuote, WarmApply, WarmFail, EditFile, EditCorpus, vars,
     startup
<1> QED BY <1>1, <1>2, <1>3 DEF Next, Warming, AtWork

LEMMA SlotNext ==
    ASSUME TypeOK, HookAssumption, SlotIsFree, [Next]_vars
    PROVE  SlotIsFree'
<1> SUFFICES ASSUME NEW t \in Thread, Alone(t), cfg'.cache, AtWork(t)'
             PROVE  cache'[Home[t]][key'[t]].kind # "patched"
  BY DEF SlotIsFree, Alone, AtWork
<1>1. cfg.cache /\ key'[t] = key[t] /\ (AtWork(t) \/ (LookupMiss(t) /\ UNCHANGED cache))
  BY WorkBegins
<1>2. CASE LookupMiss(t) /\ UNCHANGED cache
  BY <1>1, <1>2 DEF LookupMiss, Hit
<1>3. CASE AtWork(t)
  <2>1. cache[Home[t]][key[t]].kind # "patched"
    BY <1>1, <1>3 DEF SlotIsFree, Alone, AtWork
  <2>2. ASSUME NEW u \in Thread, Store(u), cfg.cache
        PROVE  cache'[Home[t]] = cache[Home[t]]
    <3>1. u # t
      BY <2>2 DEF Store, Goto, AtWork, TypeOK
    <3>2. Home[u] # Home[t]
      BY <3>1 DEF Alone
    <3> QED BY <2>2, <3>2 DEF Store, TypeOK, HookAssumption
  <2>3. ASSUME NEW p \in Process, Respawn(p)
        PROVE  cache'[Home[t]] = cache[Home[t]]
    <3>1. Home[t] # p
      BY <2>3 DEF Respawn, AtWork
    <3> QED BY <2>3, <3>1 DEF Respawn, TypeOK, HookAssumption
  <2> QED BY <1>1, <2>1, <2>2, <2>3, CacheWrites
<1> QED BY <1>1, <1>2, <1>3

LEMMA SlotStep ==
    ASSUME TypeOK, HookAssumption, SlotIsFree, [Next]_vars
    PROVE  [SlotsKept]_vars
<1> SUFFICES ASSUME NEW t \in Thread, NEW k \in Key, Alone(t),
                    cache[Home[t]][k].kind = "patched", respawns' = respawns
             PROVE  cache'[Home[t]][k] = cache[Home[t]][k]
  BY DEF SlotsKept, Alone
<1>1. ASSUME NEW u \in Thread, Store(u), cfg.cache
      PROVE  cache'[Home[t]][k] = cache[Home[t]][k]
  <2>1. cache' = [cache EXCEPT ![Home[u]][key[u]] = own[u]] /\ AtWork(u)
    BY <1>1 DEF Store, AtWork
  <2>2. CASE u = t
    <3>1. key[u] # k
      BY <1>1, <2>1, <2>2 DEF SlotIsFree, Alone, AtWork
    <3> QED BY <2>1, <2>2, <3>1 DEF TypeOK, HookAssumption
  <2>3. CASE u # t
    BY <2>1, <2>3 DEF Alone, TypeOK, HookAssumption
  <2> QED BY <2>2, <2>3
<1>2. ASSUME NEW p \in Process, Respawn(p) PROVE FALSE
  BY <1>2 DEF Respawn, TypeOK
<1> QED BY <1>1, <1>2, CacheWrites

\* In a worker with one thread a slot of the cache never changes once it is filled,
\* until the worker is replaced.
THEOREM SlotsStayStable == Spec => SlotsAreStable
<1>1. HookAssumption /\ TypeOK /\ SlotIsFree /\ [Next]_vars => SlotIsFree' /\ [SlotsKept]_vars
  BY SlotNext, SlotStep
<1> QED BY <1>1, HookAssumption, TypeInit, TypeNext, SlotInit, PTL DEF Spec, SlotsAreStable

-----------------------------------------------------------------------------
(* Every miss is counted.                                                  *)

LEMMA LedgerInit == HookAssumption /\ Init => Ledger
<1> SUFFICES ASSUME HookAssumption, Init, NEW p \in Process
             PROVE  missed[p] + Cardinality(Owing(p)) <= Counted(p)
  BY DEF Ledger
<1>1. Owing(p) = {}
  BY DEF Owing, Owed, Init
<1>2. Cardinality(Owing(p)) = 0
  BY <1>1, FS_EmptySet
<1> QED BY <1>2 DEF Init, Counted

\* What a thread owes is a matter of its own state.
OthersKept(t) ==
    \A u \in Thread \ {t} : /\ pc'[u] = pc[u] /\ handle'[u] = handle[u] /\ src'[u] = src[u]
                            /\ since'[u] = since[u]

LEMMA OthersOwe ==
    ASSUME NEW t \in Thread, cfg' = cfg, OthersKept(t), HookAssumption, NEW p \in Process
    PROVE  /\ IsFiniteSet(Owing(p)) /\ IsFiniteSet(Owing(p)')
           /\ Cardinality(Owing(p)) \in Nat /\ Cardinality(Owing(p)') \in Nat
           /\ Home[t] # p \/ (Owed(t)' => Owed(t)) =>
                 Cardinality(Owing(p)') <= Cardinality(Owing(p))
           /\ Cardinality(Owing(p)') <= Cardinality(Owing(p)) + 1
           /\ Home[t] = p /\ Owed(t) /\ ~Owed(t)' =>
                 Cardinality(Owing(p)') = Cardinality(Owing(p)) - 1
<1>1. ASSUME NEW u \in Thread \ {t} PROVE Owed(u)' <=> Owed(u)
  <2>1. (Created(u)' <=> Created(u)) /\ (Covered(u)' <=> Covered(u))
    BY DEF OthersKept, Created, Covered
  <2> QED BY <2>1 DEF OthersKept, Owed
<1>2. IsFiniteSet(Thread)
  BY DEF HookAssumption
<1>3. IsFiniteSet(Owing(p)) /\ IsFiniteSet(Owing(p)')
  <2>1. Owing(p) \subseteq Thread /\ Owing(p)' \subseteq Thread
    BY DEF Owing
  <2> QED BY <1>2, <2>1, FS_Subset
<1>4. /\ Owing(p)' \subseteq Owing(p) \cup {t}
      /\ Home[t] # p \/ (Owed(t)' => Owed(t)) => Owing(p)' \subseteq Owing(p)
      /\ Home[t] = p /\ Owed(t) /\ ~Owed(t)' => Owing(p)' = Owing(p) \ {t} /\ t \in Owing(p)
  BY <1>1 DEF Owing
<1>5. /\ IsFiniteSet(Owing(p) \cup {t})
      /\ Cardinality(Owing(p) \cup {t}) =
            IF t \in Owing(p) THEN Cardinality(Owing(p)) ELSE Cardinality(Owing(p)) + 1
  BY <1>3, FS_AddElement
<1>6. t \in Owing(p) => Cardinality(Owing(p) \ {t}) = Cardinality(Owing(p)) - 1
  BY <1>3, FS_RemoveElement
<1>7. Cardinality(Owing(p)) \in Nat /\ Cardinality(Owing(p)') \in Nat
  BY <1>3, FS_CardinalityType
<1>8. Cardinality(Owing(p)') <= Cardinality(Owing(p) \cup {t})
  BY <1>4, <1>5, FS_Subset
<1>9. Owing(p)' \subseteq Owing(p) => Cardinality(Owing(p)') <= Cardinality(Owing(p))
  BY <1>3, FS_Subset
<1> DEFINE before == Cardinality(Owing(p))
           after == Cardinality(Owing(p)')
           more == Cardinality(Owing(p) \cup {t})
<1>10. after <= before + 1
  <2>1. more = before \/ more = before + 1
    BY <1>5
  <2>2. before \in Nat /\ after \in Nat /\ after <= more
    BY <1>7, <1>8
  <2> HIDE DEF before, after, more
  <2> QED BY <2>1, <2>2
<1>11. Home[t] = p /\ Owed(t) /\ ~Owed(t)' => after = before - 1
  BY <1>4, <1>6
<1>12. Home[t] # p \/ (Owed(t)' => Owed(t)) => after <= before
  BY <1>4, <1>9
<1> QED BY <1>3, <1>7, <1>10, <1>11, <1>12

\* A step of one thread that tells nothing and owes nothing more.
LEMMA LedgerQuiet ==
    ASSUME TypeOK, HookAssumption, Ledger, NEW t \in Thread, cfg' = cfg, OthersKept(t),
           UNCHANGED <<reads, applies, skips, missed>>, Owed(t)' => Owed(t)
    PROVE  Ledger'
<1> SUFFICES ASSUME NEW p \in Process
             PROVE  missed'[p] + Cardinality(Owing(p)') <= Counted(p)'
  BY DEF Ledger
<1>1. Counted(p)' = Counted(p) /\ missed'[p] = missed[p]
      /\ missed[p] \in Nat /\ Counted(p) \in Nat
  BY DEF Counted, TypeOK
<1>2. Cardinality(Owing(p)') <= Cardinality(Owing(p))
      /\ Cardinality(Owing(p)') \in Nat /\ Cardinality(Owing(p)) \in Nat
  BY OthersOwe
<1>3. missed[p] + Cardinality(Owing(p)) <= Counted(p)
  BY DEF Ledger
<1> QED BY <1>1, <1>2, <1>3

\* A step that counts.
LEMMA LedgerCounts ==
    ASSUME TypeOK, HookAssumption, Ledger, NEW t \in Thread, cfg' = cfg, OthersKept(t),
           CannotRead(t) \/ SkipHalt(t) \/ ApplyFails(t)
    PROVE  Ledger'
<1> SUFFICES ASSUME NEW p \in Process
             PROVE  missed'[p] + Cardinality(Owing(p)') <= Counted(p)'
  BY DEF Ledger
<1>1. missed' = missed /\ Home[t] \in Process
  BY DEF CannotRead, SkipHalt, ApplyFails, HookAssumption
<1>2. reads[p] \in Nat /\ applies[p] \in Nat /\ skips[p] \in Nat /\ missed[p] \in Nat
  BY DEF TypeOK
<1>3. Counted(p)' = IF Home[t] = p THEN Counted(p) + 1 ELSE Counted(p)
  <2>1. CASE CannotRead(t)
    BY <1>1, <1>2, <2>1 DEF CannotRead, Count, Counted, TypeOK
  <2>2. CASE SkipHalt(t)
    BY <1>1, <1>2, <2>2 DEF SkipHalt, Count, Counted, TypeOK
  <2>3. CASE ApplyFails(t)
    BY <1>1, <1>2, <2>3 DEF ApplyFails, Count, Counted, TypeOK
  <2> QED BY <2>1, <2>2, <2>3
<1>4. /\ Cardinality(Owing(p)') <= Cardinality(Owing(p)) + 1
      /\ Home[t] # p => Cardinality(Owing(p)') <= Cardinality(Owing(p))
      /\ Cardinality(Owing(p)') \in Nat /\ Cardinality(Owing(p)) \in Nat
  BY OthersOwe
<1>5. missed[p] + Cardinality(Owing(p)) <= Counted(p) /\ Counted(p) \in Nat
  BY <1>2 DEF Ledger, Counted
<1> QED BY <1>1, <1>2, <1>3, <1>4, <1>5

\* The end of a call tells no more than what it owed.
LEMMA LedgerEnd ==
    ASSUME TypeOK, HookAssumption, Ledger, NEW t \in Thread, NEW content, cfg' = cfg,
           OthersKept(t), End(t, content), UNCHANGED <<reads, applies, skips, handle>>,
           \/ Owed(t)
           \/ content.kind \notin {"source", "stub", "none"} \/ ~Covered(t)
           \/ content.kind = "none" /\ ~Created(t)
    PROVE  Ledger'
<1>1. ~Owed(t)'
  BY DEF End, Goto, Owed, TypeOK
<1>2. CASE missed' = missed
  BY <1>1, <1>2, LedgerQuiet
<1>3. CASE missed' # missed
  <2> SUFFICES ASSUME NEW p \in Process
               PROVE  missed'[p] + Cardinality(Owing(p)') <= Counted(p)'
    BY DEF Ledger
  <2>1. Owed(t) /\ missed' = [missed EXCEPT ![Home[t]] = @ + 1]
    BY <1>3 DEF End
  <2>2. missed'[p] = IF Home[t] = p THEN missed[p] + 1 ELSE missed[p]
    BY <2>1 DEF TypeOK
  <2>3. missed[p] \in Nat /\ Counted(p)' = Counted(p) /\ Counted(p) \in Nat
    BY DEF TypeOK, Counted
  <2>4. /\ Home[t] = p => Cardinality(Owing(p)') = Cardinality(Owing(p)) - 1
        /\ Home[t] # p => Cardinality(Owing(p)') <= Cardinality(Owing(p))
        /\ Cardinality(Owing(p)') \in Nat /\ Cardinality(Owing(p)) \in Nat
    BY <1>1, <2>1, OthersOwe
  <2>5. missed[p] + Cardinality(Owing(p)) <= Counted(p)
    BY DEF Ledger
  <2> QED BY <2>2, <2>3, <2>4, <2>5
<1> QED BY <1>2, <1>3

LEMMA LedgerServe ==
    ASSUME TypeOK, HookAssumption, InTheMaking, Seen, AllClosed, Ledger, NEW t \in Thread, Serve(t)
    PROVE  Ledger'
<1>a. Closed(t)
  BY DEF AllClosed
<1>b. UNCHANGED <<handle, since>> =>
         (Created(t)' <=> Created(t)) /\ (Covered(t)' <=> Covered(t))
  BY DEF Created, Covered
<1>c. \A kind : Only(kind).kind = kind
  BY DEF Only
<1>d. cfg' = cfg
  BY DEF Serve, Begin, OpenCreated, OpenReal, CompileHook, OrigCompile, LookupHit,
     LookupMiss, CannotRead, SkipHalt, ReadOriginal, Quote, Apply, ApplyFails, Store, BeginCopy,
     EndCopy, Refuse, startup
<1>e. OthersKept(t)
  BY DEF Serve, Begin, OpenCreated, OpenReal, CompileHook, OrigCompile, LookupHit,
     LookupMiss, CannotRead, SkipHalt, ReadOriginal, Quote, Apply, ApplyFails, Store, BeginCopy,
     EndCopy, Refuse, Return, End, Goto, OthersKept, TypeOK
<1>1. ASSUME NEW h \in Handles, Begin(t, h) PROVE Ledger'
  <2>1. /\ src'[t].kind = (IF h.buffered THEN "foreign" ELSE "path")
        /\ pc'[t] = (IF cfg.opcache /\ ~h.buffered THEN "open" ELSE "compile")
    BY <1>1, <1>c DEF Begin, Goto, TypeOK
  <2>2. ~Owed(t)'
    BY <1>d, <2>1 DEF Owed
  <2>3. UNCHANGED <<reads, applies, skips, missed>>
    BY <1>1 DEF Begin, counters
  <2> QED BY <1>d, <1>e, <2>2, <2>3, LedgerQuiet
<1>2. CASE \/ OpenCreated(t) \/ LookupHit(t) \/ LookupMiss(t) \/ ReadOriginal(t)
           \/ Apply(t) \/ Store(t) \/ BeginCopy(t)
           \/ \E f \in CorpusFile : Quote(t, f)
  <2>1. /\ pc'[t] \in {"lookup", "copy", "apply", "read", "store", "copying"}
        /\ UNCHANGED <<reads, applies, skips, missed>>
    BY <1>2 DEF OpenCreated, LookupHit, LookupMiss, ReadOriginal, Apply, Store, BeginCopy,
       Quote, Asking, Goto, TypeOK, counters
  <2>2. ~Owed(t)'
    BY <2>1 DEF Owed
  <2> QED BY <1>d, <1>e, <2>1, <2>2, LedgerQuiet
<1>3. CASE CannotRead(t) \/ SkipHalt(t) \/ ApplyFails(t)
  BY <1>3, <1>d, <1>e, LedgerCounts
<1>4. CASE OpenReal(t)
  <2>1. pc[t] = "open" /\ ~Created(t) /\ UNCHANGED <<handle, since, reads, applies, skips>>
    BY <1>4 DEF OpenReal, counters
  <2>2. CASE End(t, Only("none"))
    BY <1>c, <1>d, <1>e, <2>1, <2>2, LedgerEnd
  <2>3. CASE src' = [src EXCEPT ![t] = Only("stream")] /\ Goto(t, Opened)
             /\ UNCHANGED <<missed, key, own, out>>
    <3>1. pc'[t] = (IF cfg.opcache THEN "compile" ELSE "orig") /\ src'[t].kind = "stream"
      BY <1>c, <2>3 DEF Goto, Opened, TypeOK
    <3>2. Owed(t)' => Owed(t)
      BY <1>b, <1>d, <2>1, <3>1 DEF Owed
    <3> QED BY <1>d, <1>e, <2>1, <2>3, <3>2, LedgerQuiet
  <2> QED BY <1>4, <2>2, <2>3 DEF OpenReal
<1>5. CASE CompileHook(t)
  <2>1. /\ pc[t] = "compile" /\ UNCHANGED <<handle, since, src, reads, applies, skips, missed>>
        /\ \/ pc'[t] = "lookup"
           \/ pc'[t] = "orig" /\ ~Eligible(t)
    BY <1>5 DEF CompileHook, Goto, counters, TypeOK
  <2>2. Covered(t) /\ ~Eligible(t) => src[t].kind \notin {"path", "stream"}
    BY <2>1, CoveredIsEligible DEF Active
  <2>3. Owed(t)' => Owed(t)
    BY <1>b, <1>d, <2>1, <2>2 DEF Owed
  <2> QED BY <1>d, <1>e, <2>1, <2>3, LedgerQuiet
<1>6. CASE OrigCompile(t)
  <2>1. pc[t] = "orig" /\ UNCHANGED <<handle, since, reads, applies, skips>>
    BY <1>6 DEF OrigCompile, counters
  <2>2. CASE src[t].kind = "path"
    <3>1. pc'[t] = "open" /\ UNCHANGED <<src, missed>>
      BY <1>6, <2>2 DEF OrigCompile, Goto, TypeOK
    <3>2. Owed(t)' => Owed(t)
      BY <1>b, <1>d, <2>1, <2>2, <3>1 DEF Owed
    <3> QED BY <1>d, <1>e, <2>1, <3>1, <3>2, LedgerQuiet
  <2>3. CASE src[t].kind # "path"
    <3> DEFINE content == IF InMemory(src[t]) THEN src[t] ELSE Only("source")
    <3>1. End(t, content)
      BY <1>6, <2>3 DEF OrigCompile
    <3>2. src[t].kind \in {"path", "stream", "foreign", "patched", "stub", "torn", "source",
                           "none"}
      BY DEF TypeOK, Content
    <3>3. Owed(t) \/ content.kind \notin {"source", "stub", "none"} \/ ~Covered(t)
      BY <1>a, <1>c, <2>1, <2>3, <3>2 DEF Owed, Closed, InMemory
    <3> HIDE DEF content
    <3> QED BY <1>d, <1>e, <2>1, <3>1, <3>3, LedgerEnd
  <2> QED BY <2>2, <2>3
<1>7. CASE EndCopy(t)
  <2>1. /\ pc[t] = "copying" /\ src'[t] \in {Pointed(t), Only("torn")}
        /\ pc'[t] \in {"compile", "orig"} /\ UNCHANGED <<reads, applies, skips, missed>>
    BY <1>7 DEF EndCopy, Return, Opened, Goto, counters, TypeOK
  <2>2. src'[t].kind \in {"patched", "torn"}
    BY <1>c, <2>1 DEF InTheMaking, PatchFor
  <2>3. ~Owed(t)'
    BY <2>1, <2>2 DEF Owed
  <2> QED BY <1>d, <1>e, <2>1, <2>3, LedgerQuiet
<1>8. CASE Refuse(t)
  <2>1. pc[t] = "refused" /\ UNCHANGED <<handle, since, reads, applies, skips>>
    BY <1>8 DEF Refuse, counters
  <2>2. CASE UNCHANGED missed
    <3>1. Owed(t)' => Owed(t)
      BY <1>b, <2>1 DEF Owed
    <3> QED BY <1>d, <1>e, <2>1, <2>2, <3>1, LedgerQuiet
  <2>3. CASE End(t, Only("none"))
    <3>1. Owed(t) \/ ~Covered(t)
      BY <2>1 DEF Owed
    <3> QED BY <1>d, <1>e, <2>1, <2>3, <3>1, LedgerEnd
  <2> QED BY <1>8, <2>2, <2>3 DEF Refuse
<1> QED BY <1>1, <1>2, <1>3, <1>4, <1>5, <1>6, <1>7, <1>8 DEF Serve

LEMMA LedgerNext ==
    ASSUME HookAssumption, TypeOK, InTheMaking, Seen, AllClosed, Ledger, [Next]_vars
    PROVE  Ledger'
<1>1. ASSUME UNCHANGED <<cfg, pc, src, reads, applies, skips, missed>>,
             \A t \in Thread : SeesMore(t)
      PROVE  Ledger'
  <2>1. ASSUME NEW t \in Thread, Owed(t)' PROVE Owed(t)
    <3>1. (Created(t)' <=> Created(t)) /\ (Covered(t)' => Covered(t))
      BY <1>1, StillCovered
    <3> QED BY <1>1, <2>1, <3>1 DEF Owed
  <2> SUFFICES ASSUME NEW p \in Process
               PROVE  missed'[p] + Cardinality(Owing(p)') <= Counted(p)'
    BY DEF Ledger
  <2>2. Owing(p)' \subseteq Owing(p) /\ Owing(p) \subseteq Thread
    BY <2>1 DEF Owing
  <2>3. /\ Cardinality(Owing(p)') <= Cardinality(Owing(p))
        /\ Cardinality(Owing(p)') \in Nat /\ Cardinality(Owing(p)) \in Nat
    <3>1. IsFiniteSet(Thread)
      BY DEF HookAssumption
    <3>2. IsFiniteSet(Owing(p)) /\ IsFiniteSet(Owing(p)')
      BY <2>2, <3>1, FS_Subset
    <3> QED BY <2>2, <3>2, FS_Subset, FS_CardinalityType
  <2>4. missed'[p] = missed[p] /\ Counted(p)' = Counted(p)
        /\ missed[p] \in Nat /\ Counted(p) \in Nat
    BY <1>1 DEF Counted, TypeOK
  <2>5. missed[p] + Cardinality(Owing(p)) <= Counted(p)
    BY DEF Ledger
  <2> QED BY <2>3, <2>4, <2>5
<1>2. ASSUME NEW p \in Process, Respawn(p) PROVE Ledger'
  <2> SUFFICES ASSUME NEW q \in Process
               PROVE  missed'[q] + Cardinality(Owing(q)') <= Counted(q)'
    BY DEF Ledger
  <2>1. CASE q = p
    <3>1. Owing(p)' = {}
      BY <1>2 DEF Respawn, Owing, Owed
    <3>2. Cardinality(Owing(p)') = 0
      BY <3>1, FS_EmptySet
    <3>3. missed'[p] = 0 /\ reads'[p] = 0 /\ applies'[p] = 0 /\ skips'[p] = 0
      BY <1>2 DEF Respawn, TypeOK
    <3> QED BY <2>1, <3>2, <3>3 DEF Counted
  <2>2. CASE q # p
    <3>1. ASSUME NEW t \in Thread, Home[t] = q PROVE Owed(t)' <=> Owed(t)
      <4>1. /\ pc'[t] = pc[t] /\ handle'[t] = handle[t] /\ src'[t] = src[t]
            /\ since'[t] = since[t] /\ cfg' = cfg
        BY <1>2, <2>2, <3>1 DEF Respawn, startup
      <4>2. (Created(t)' <=> Created(t)) /\ (Covered(t)' <=> Covered(t))
        BY <4>1 DEF Created, Covered
      <4> QED BY <4>1, <4>2 DEF Owed
    <3>2. Owing(q)' = Owing(q)
      BY <3>1 DEF Owing
    <3>3. missed'[q] = missed[q] /\ Counted(q)' = Counted(q)
      BY <1>2, <2>2 DEF Respawn, Counted, TypeOK
    <3> QED BY <3>2, <3>3 DEF Ledger
  <2> QED BY <2>1, <2>2
<1>3. CASE Warming \/ (\E k \in Key : EditFile(k)) \/ (\E f \in CorpusFile : EditCorpus(f))
           \/ UNCHANGED vars
  <2>1. UNCHANGED <<cfg, pc, src, reads, applies, skips, missed>>
    BY <1>3 DEF Warming, WarmBegin, WarmQuote, WarmApply, WarmFail, EditFile, EditCorpus,
       vars, startup, counters
  <2>2. (\E k \in Key : EditFile(k)) \/ UNCHANGED <<handle, since>>
    BY <1>3 DEF Warming, WarmBegin, WarmQuote, WarmApply, WarmFail, EditCorpus, vars
  <2>3. \A t \in Thread : SeesMore(t)
    BY <2>2, EditShowsMore DEF SeesMore
  <2> QED BY <1>1, <2>1, <2>3
<1> QED BY <1>2, <1>3, LedgerServe DEF Next, Warming

\* Every include of a listed file that ran anything else than its patch is counted,
\* with any number of threads counting at once.
THEOREM MissesCounted == Spec => []MissesAreCounted
<1>1. HookAssumption /\ TypeOK /\ Ledger => MissesAreCounted
  <2> SUFFICES ASSUME HookAssumption, TypeOK, Ledger, NEW p \in Process
               PROVE  missed[p] <= reads[p] + applies[p] + skips[p]
    BY DEF MissesAreCounted
  <2>1. IsFiniteSet(Owing(p))
    <3>1. Owing(p) \subseteq Thread
      BY DEF Owing
    <3> QED BY <3>1, FS_Subset DEF HookAssumption
  <2>2. Cardinality(Owing(p)) \in Nat
    BY <2>1, FS_CardinalityType
  <2> QED BY <2>2 DEF Ledger, Counted, TypeOK
<1> QED BY <1>1, HookAssumption, TypeInit, TypeNext, ServedInit, ServedNext, SeenInit,
           SeenNext, ClosedInit, ClosedNext, LedgerInit, LedgerNext, PTL DEF Spec

-----------------------------------------------------------------------------
(* Freshness, when nothing is kept.                                        *)

AllFresh == NothingKept /\ \A t \in Thread : FreshThread(t)

LEMMA FreshInit == HookAssumption /\ Init => FreshSoFar
<1> SUFFICES ASSUME HookAssumption, Init, ~cfg.precompute, ~cfg.cache
             PROVE  NothingKept /\ \A t \in Thread : FreshThread(t)
  BY DEF FreshSoFar
<1>1. NothingKept
  BY DEF Init, NothingKept, WarmKeys, EmptyMap, Only
<1>2. \A t \in Thread : FreshThread(t)
  BY DEF Init, FreshThread, Only
<1> QED BY <1>1, <1>2

\* A step of one thread is none of the others.
LEMMA FreshLocal ==
    ASSUME AllFresh, NEW t \in Thread, UNCHANGED <<todo, warming, precomputed, cache>>,
           \A u \in Thread \ {t} :
               /\ pc'[u] = pc[u] /\ src'[u] = src[u] /\ key'[u] = key[u] /\ out'[u] = out[u]
               /\ base'[u] = base[u] /\ own'[u] = own[u] /\ since'[u] = since[u],
           FreshThread(t)'
    PROVE  AllFresh'
<1>1. NothingKept'
  BY DEF AllFresh, NothingKept
<1>2. ASSUME NEW u \in Thread \ {t} PROVE FreshThread(u)'
  <2>1. FreshThread(u)
    BY DEF AllFresh
  <2> QED BY <2>1 DEF FreshThread, Fresh
<1> QED BY <1>1, <1>2 DEF AllFresh

LEMMA FreshServe ==
    ASSUME TypeOK, HookAssumption, InTheMaking, Seen, ~cfg.precompute, ~cfg.cache, AllFresh,
           NEW t \in Thread, Serve(t)
    PROVE  AllFresh'
<1> DEFINE others == \A u \in Thread \ {t} :
               /\ pc'[u] = pc[u] /\ src'[u] = src[u] /\ key'[u] = key[u] /\ out'[u] = out[u]
               /\ base'[u] = base[u] /\ own'[u] = own[u] /\ since'[u] = since[u]
           kept == UNCHANGED <<todo, warming, precomputed, cache>>
<1>a. FreshThread(t)
  BY DEF AllFresh
<1>b. \A kind : Only(kind).kind = kind
  BY DEF Only
<1>d. ASSUME since' = since, pc'[t] \notin {"apply", "store", "copy", "copying"},
             src'[t] = src[t] \/ src'[t].kind # "patched"
      PROVE  FreshThread(t)'
  BY <1>a, <1>d DEF FreshThread, Fresh
<1>1. ASSUME NEW h \in Handles, Begin(t, h) PROVE AllFresh'
  <2>1. kept /\ others
    BY <1>1 DEF Begin, Goto, startup, local, TypeOK
  <2>2. pc'[t] \in {"open", "compile"} /\ src'[t].kind # "patched"
    BY <1>1, <1>b DEF Begin, Goto, TypeOK
  <2>3. FreshThread(t)'
    BY <2>2 DEF FreshThread
  <2> QED BY <2>1, <2>3, FreshLocal
<1>2. CASE OpenCreated(t) \/ CompileHook(t)
  <2>1. kept /\ others /\ UNCHANGED <<since, src>>
    BY <1>2, SMTT(30) DEF OpenCreated, CompileHook, Goto, startup, local, TypeOK
  <2>2. pc'[t] \in {"lookup", "orig"}
    BY <1>2 DEF OpenCreated, CompileHook, Goto, TypeOK
  <2>3. FreshThread(t)'
    BY <1>d, <2>1, <2>2
  <2> QED BY <2>1, <2>3, FreshLocal
<1>3. CASE OpenReal(t) \/ OrigCompile(t)
  <2>1. kept /\ others /\ since' = since
    BY <1>3, SMTT(30) DEF OpenReal, OrigCompile, End, Goto, startup, TypeOK
  <2>2. /\ pc'[t] \in {"done", "compile", "orig", "open"}
        /\ src'[t] = src[t] \/ src'[t].kind # "patched"
    BY <1>3, <1>b, SMTT(30) DEF OpenReal, OrigCompile, End, Goto, Opened, TypeOK
  <2>3. FreshThread(t)'
    BY <1>d, <2>1, <2>2
  <2> QED BY <2>1, <2>3, FreshLocal
<1>4. CASE LookupHit(t)
  <2>1. key[t] \in Key /\ Home[t] \in Process
    BY <1>4 DEF LookupHit, TypeOK, Asking, HookAssumption
  <2> QED BY <1>4, <2>1 DEF LookupHit, Hit, AllFresh, NothingKept
<1>5. CASE LookupMiss(t)
  <2>1. kept /\ others /\ UNCHANGED <<since, src>>
    BY <1>5 DEF LookupMiss, Goto, startup, TypeOK
  <2>2. /\ pc'[t] \in {"apply", "read"} /\ key'[t] = key[t]
        /\ pc'[t] = "apply" => key[t] \in Creates
    BY <1>5 DEF LookupMiss, Goto, TypeOK
  <2>3. FreshThread(t)'
    BY <1>a, <2>1, <2>2 DEF FreshThread, Fresh
  <2> QED BY <2>1, <2>3, FreshLocal
<1>6. CASE CannotRead(t) \/ SkipHalt(t) \/ ApplyFails(t)
  <2>1. kept /\ others /\ UNCHANGED <<since, src>>
    BY <1>6 DEF CannotRead, SkipHalt, ApplyFails, Applied, Goto, startup, local, TypeOK
  <2>2. pc'[t] = "refused"
    BY <1>6 DEF CannotRead, SkipHalt, ApplyFails, Goto, TypeOK
  <2>3. FreshThread(t)'
    BY <1>d, <2>1, <2>2
  <2> QED BY <2>1, <2>3, FreshLocal
<1>7. CASE ReadOriginal(t)
  <2>1. kept /\ others /\ UNCHANGED <<since, src>>
    BY <1>7 DEF ReadOriginal, Goto, startup, TypeOK
  <2>2. pc'[t] = "apply" /\ base'[t] = disk[key[t]] /\ key'[t] = key[t]
    BY <1>7 DEF ReadOriginal, Goto, TypeOK
  <2>3. disk[key[t]] \in since[t][key[t]]
    BY <1>7 DEF ReadOriginal, InTheMaking, Seen, Active, Asking
  <2>4. FreshThread(t)'
    BY <1>a, <2>1, <2>2, <2>3 DEF FreshThread, Fresh
  <2> QED BY <2>1, <2>4, FreshLocal
<1>8. ASSUME NEW f \in CorpusFile, Quote(t, f) PROVE AllFresh'
  <2>1. kept /\ others /\ UNCHANGED <<since, src, pc, base, key>>
    BY <1>8 DEF Quote, startup
  <2>2. FreshThread(t)'
    BY <1>a, <1>8, <2>1 DEF FreshThread, Fresh, Quote
  <2> QED BY <2>1, <2>2, FreshLocal
<1>9. CASE Apply(t)
  <2>1. kept /\ others /\ UNCHANGED <<since, src>>
    BY <1>9 DEF Apply, Applied, Goto, startup, TypeOK
  <2>2. pc[t] = "apply" /\ pc'[t] = "store" /\ own'[t].base = base[t] /\ own'[t].key = key[t]
    BY <1>9 DEF Apply, Patch, Goto, TypeOK
  <2>3. Fresh(t, own[t])'
    BY <1>a, <2>1, <2>2 DEF FreshThread, Fresh
  <2>4. FreshThread(t)'
    BY <1>a, <2>1, <2>2, <2>3 DEF FreshThread, Fresh
  <2> QED BY <2>1, <2>4, FreshLocal
<1>10. CASE Store(t) \/ BeginCopy(t)
  <2>1. kept /\ others /\ UNCHANGED <<since, src, own>>
    BY <1>10 DEF Store, BeginCopy, Goto, startup, TypeOK
  <2>2. /\ pc[t] \in {"store", "copy"} /\ pc'[t] \in {"copy", "copying"}
        /\ pc[t] = "store" => out'[t] = "owned"
        /\ pc[t] = "copy" => out'[t] = out[t]
    BY <1>10 DEF Store, BeginCopy, Goto, TypeOK
  <2>3. FreshThread(t)'
    BY <1>a, <2>1, <2>2 DEF FreshThread, Fresh
  <2> QED BY <2>1, <2>3, FreshLocal
<1>11. CASE EndCopy(t)
  <2>1. kept /\ others /\ since' = since
    BY <1>11 DEF EndCopy, Return, Goto, startup, local, TypeOK
  <2>2. pc[t] = "copying" /\ pc'[t] \in {"compile", "orig"}
    BY <1>11 DEF EndCopy, Return, Opened, Goto, TypeOK
  <2>3. src'[t] \in {own[t], Only("torn")}
    BY <1>11, <1>a, <2>2 DEF EndCopy, FreshThread, Pointed, TypeOK
  <2>4. FreshThread(t)'
    BY <1>a, <1>b, <2>1, <2>2, <2>3 DEF FreshThread, Fresh
  <2> QED BY <2>1, <2>4, FreshLocal
<1>12. CASE Refuse(t)
  <2>1. kept /\ others /\ since' = since
    BY <1>12, SMTT(30) DEF Refuse, Return, End, Goto, startup, TypeOK
  <2>2. /\ pc'[t] \in {"done", "compile", "orig"}
        /\ src'[t] = src[t] \/ src'[t].kind # "patched"
    BY <1>12, <1>b, SMTT(30) DEF Refuse, Return, End, Goto, Opened, TypeOK
  <2>3. FreshThread(t)'
    BY <1>d, <2>1, <2>2
  <2> QED BY <2>1, <2>3, FreshLocal
<1> QED BY <1>1, <1>2, <1>3, <1>4, <1>5, <1>6, <1>7, <1>8, <1>9, <1>10, <1>11, <1>12 DEF Serve

\* An edit adds the new version to what a call in progress may have seen; a crash
\* ends the calls of its process.
LEMMA FreshOutside ==
    ASSUME TypeOK, HookAssumption, Provenance, InTheMaking, AllFresh,
           (\E k \in Key : EditFile(k)) \/ (\E f \in CorpusFile : EditCorpus(f))
              \/ (\E p \in Process : Respawn(p)) \/ UNCHANGED vars
    PROVE  AllFresh'
<1>1. ASSUME NEW u \in Thread, SeesMore(u), pc'[u] = pc[u], src'[u] = src[u], key'[u] = key[u],
             base'[u] = base[u], own'[u] = own[u], out'[u] = out[u]
      PROVE  FreshThread(u)'
  <2>1. FreshThread(u)
    BY DEF AllFresh
  <2>2. pc[u] = "apply" => key[u] \in Key
    BY DEF TypeOK, Asking
  <2>3. pc[u] \in {"store", "copy", "copying"} => own[u].key \in Key
    <3>1. CASE pc[u] = "store"
      BY <3>1 DEF InTheMaking, PatchFor, MadeFor, TypeOK, Asking
    <3>2. CASE pc[u] \in {"copy", "copying"}
      <4>1. Pointed(u) = own[u]
        BY <2>1, <3>2 DEF FreshThread, Pointed
      <4>2. PatchFor(key[u], Pointed(u)) /\ key[u] \in Key
        BY <3>2 DEF InTheMaking, TypeOK, Asking
      <4> QED BY <4>1, <4>2 DEF PatchFor, MadeFor
    <3> QED BY <3>1, <3>2
  <2>4. src[u].kind = "patched" => src[u].key \in Key
    BY DEF Provenance, Names
  <2> QED BY <1>1, <2>1, <2>2, <2>3, <2>4 DEF FreshThread, Fresh, SeesMore
<1>2. ASSUME NEW k \in Key, EditFile(k) PROVE AllFresh'
  <2>1. UNCHANGED <<todo, warming, precomputed, cache, pc, src, key, base, own, out>>
    BY <1>2 DEF EditFile, startup, local
  <2>2. \A u \in Thread : SeesMore(u)
    BY <1>2, EditShowsMore
  <2>3. NothingKept'
    BY <2>1 DEF AllFresh, NothingKept
  <2> QED BY <1>1, <2>1, <2>2, <2>3 DEF AllFresh
<1>3. ASSUME NEW p \in Process, Respawn(p) PROVE AllFresh'
  <2>1. /\ UNCHANGED <<todo, warming, precomputed, out, key>>
        /\ cache' = [cache EXCEPT ![p] = EmptyMap]
    BY <1>3 DEF Respawn, startup
  <2>2. NothingKept'
    BY <2>1 DEF AllFresh, NothingKept, EmptyMap, Only, TypeOK
  <2>3. ASSUME NEW u \in Thread, Home[u] = p PROVE FreshThread(u)'
    <3>1. pc'[u] = "idle" /\ src'[u].kind = "none"
      BY <1>3, <2>3 DEF Respawn, Only
    <3> QED BY <3>1 DEF FreshThread
  <2>4. ASSUME NEW u \in Thread, Home[u] # p PROVE FreshThread(u)'
    BY <1>1, <1>3, <2>1, <2>4 DEF Respawn, SeesMore
  <2> QED BY <2>2, <2>3, <2>4 DEF AllFresh
<1>4. CASE (\E f \in CorpusFile : EditCorpus(f)) \/ UNCHANGED vars
  <2>1. UNCHANGED <<todo, warming, precomputed, cache, pc, handle, src, key, base, own, out,
                    since>>
    BY <1>4 DEF EditCorpus, vars, startup, local
  <2>2. NothingKept'
    BY <2>1 DEF AllFresh, NothingKept
  <2> QED BY <1>1, <2>1, <2>2 DEF AllFresh, SeesMore
<1> QED BY <1>2, <1>3, <1>4

LEMMA FreshNext ==
    HookAssumption /\ TypeOK /\ Provenance /\ InTheMaking /\ Seen /\ FreshSoFar /\ [Next]_vars
        => FreshSoFar'
<1> SUFFICES ASSUME HookAssumption, TypeOK, Provenance, InTheMaking, Seen, FreshSoFar,
                    [Next]_vars, ~cfg'.precompute, ~cfg'.cache
             PROVE  AllFresh'
  BY DEF FreshSoFar, AllFresh
<1>1. cfg' = cfg
  BY WarmKept DEF Next, WarmBegin, WarmQuote, WarmApply, WarmFail, startup
<1>2. AllFresh
  BY <1>1 DEF FreshSoFar, AllFresh
<1>3. ~Warming
  <2>1. todo = {} /\ warming = Nothing
    BY <1>2 DEF AllFresh, NothingKept
  <2> QED BY <2>1 DEF Warming, WarmBegin, WarmQuote, WarmApply, WarmFail
<1> QED BY <1>1, <1>2, <1>3, FreshServe, FreshOutside DEF Next, Warming

\* Without precompute and cache a listed file that exists is patched from a version
\* that was on disk at some moment of the include (phpatcher.cpp:376-444), with any
\* threads at work and whatever is edited meanwhile.
THEOREM FreshWhenNothingKept == Spec => []FreshPatch
<1>1. FreshSoFar => FreshPatch
  BY DEF FreshSoFar, FreshPatch, FreshThread
<1> QED BY <1>1, HookAssumption, TypeInit, TypeNext, ServedInit, ServedNext, SeenInit,
           SeenNext, FreshInit, FreshNext, PTL DEF Spec
=============================================================================
