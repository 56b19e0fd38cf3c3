---------------------------- MODULE OpcacheBind ----------------------------
(***************************************************************************)
(* The extension under OPcache (PHP_MINIT_FUNCTION and                     *)
(* phpatcher_compile_file in phpatcher.cpp): what it makes the engine      *)
(* compile is kept, in memory until the server stops and in                *)
(* opcache.file_cache on disk for ever, for the servers that have the same *)
(* build id.  Servers with different settings may share the directory, at  *)
(* once or one after the other.                                            *)
(***************************************************************************)
EXTENDS Naturals, FiniteSets

CONSTANTS
    Server,     \* the servers, each started and stopped at will
    File,
    Patch, Base,    \* patch files, and values of base_dir
    Lists,      \* [patch, base, file]: the patch has a section for the file there
    Off,        \* a server that is not running
    Original, Stub,     \* code: the file's own, and the stub that throws
    Nothing     \* no code

\* active: enabled, and the patch file is read, parsed and not empty.
Config == [active : BOOLEAN, patch : Patch, base : Base,
           on_error : {"original", "fail"}, bind : BOOLEAN]

\* The output of a patch.
Patched(p, b) == [patch |-> p, base |-> b]
PatchedCode == [patch : Patch, base : Base]
Code == PatchedCode \cup {Original, Stub}

ASSUME OpcacheAssumption ==
    /\ Lists \subseteq Patch \X Base \X File
    /\ Off \notin Config
    /\ Original # Stub /\ {Original, Stub} \cap PatchedCode = {} /\ Nothing \notin Code

\* The build id: what was added to zend_system_id.
Id == (Patch \X Base) \cup {<<>>}

VARIABLES
    settings,     \* of each server, or Off
    shm,        \* the scripts each server holds in memory
    disk,       \* opcache.file_cache: [Id -> [File -> Code or Nothing]]
    failing,    \* the files whose patch would fail now (a corpus file has drifted, ...)
    served      \* what each server has run last: the file and the code

bindVars == <<settings, shm, disk, failing, served>>

Empty == [f \in File |-> Nothing]

BindTypeOK ==
    /\ settings \in [Server -> Config \cup {Off}]
    /\ shm \in [Server -> [File -> Code \cup {Nothing}]]
    /\ disk \in [Id -> [File -> Code \cup {Nothing}]]
    /\ failing \subseteq File
    /\ served \in [Server -> [file : File, code : Code \cup {Nothing}]]
    /\ \A s \in Server : settings[s] = Off => shm[s] = Empty /\ served[s].code = Nothing

BindInit ==
    /\ settings = [s \in Server |-> Off]
    /\ shm = [s \in Server |-> Empty]
    /\ disk = [i \in Id |-> Empty]
    /\ failing = {}
    /\ served \in [Server -> [file : File, code : {Nothing}]]

-----------------------------------------------------------------------------

\* Mutant: the patch alone.
SystemIdPatchOnly(c) ==
    IF c.active /\ c.bind THEN <<c.patch, CHOOSE b \in Base : TRUE>> ELSE <<>>

\* The id is extended only once the patch has been parsed and has sections.
SystemId(c) == IF c.active /\ c.bind THEN <<c.patch, c.base>> ELSE <<>>

StartServer(s, c) ==
    /\ settings[s] = Off
    /\ settings' = [settings EXCEPT ![s] = c]
    /\ UNCHANGED <<shm, disk, failing, served>>

\* The shared memory goes with the server.
StopServer(s) ==
    /\ settings[s] # Off
    /\ settings' = [settings EXCEPT ![s] = Off]
    /\ shm' = [shm EXCEPT ![s] = Empty]
    /\ served' = [served EXCEPT ![s].code = Nothing]
    /\ UNCHANGED <<disk, failing>>

IsListed(c, f) == c.active /\ <<c.patch, c.base, f>> \in Lists

\* What the compile hook hands to the compiler.
Compiled(c, f) ==
    IF IsListed(c, f)
    THEN IF f \notin failing THEN Patched(c.patch, c.base)
         ELSE IF c.on_error = "fail" THEN Stub ELSE Original
    ELSE Original

Serve(s, f, code) ==
    /\ served' = [served EXCEPT ![s] = [file |-> f, code |-> code]]
    /\ shm' = [shm EXCEPT ![s][f] = code]
    /\ UNCHANGED <<settings, failing>>

FromMemory(s, f) ==
    /\ settings[s] # Off /\ shm[s][f] # Nothing
    /\ Serve(s, f, shm[s][f])
    /\ UNCHANGED disk

\* The file itself has not changed, which is all that OPcache compares.
FromDisk(s, f) ==
    /\ settings[s] # Off /\ shm[s][f] = Nothing
    /\ disk[SystemId(settings[s])][f] # Nothing
    /\ Serve(s, f, disk[SystemId(settings[s])][f])
    /\ UNCHANGED disk

Compile(s, f) ==
    /\ settings[s] # Off /\ shm[s][f] = Nothing
    /\ disk[SystemId(settings[s])][f] = Nothing
    /\ LET code == Compiled(settings[s], f)
       IN  /\ Serve(s, f, code)
           /\ disk' = [disk EXCEPT ![SystemId(settings[s])][f] = code]

\* A deploy, or a corpus file: patches that applied no longer do, or do again. (A
\* server that has the output of the patch in memory goes on; this one has not.)
Drift ==
    /\ failing' \in SUBSET File
    /\ UNCHANGED <<settings, shm, disk, served>>

BindNext == \/ \E s \in Server : \/ \E c \in Config : StartServer(s, c)
                             \/ StopServer(s)
                             \/ \E f \in File : FromMemory(s, f) \/ FromDisk(s, f) \/ Compile(s, f)
        \/ Drift

BindSpec == BindInit /\ [][BindNext]_bindVars

-----------------------------------------------------------------------------
(* Properties.                                                             *)

Bound(c) == c # Off /\ c.active /\ c.bind
Running(s, f) == served[s].code # Nothing /\ served[s].file = f

\* With opcache_bind a server runs no output of another patch, nor of its own patch
\* under another base_dir, whatever the servers before it, bound or not, have left
\* in the directory they share; and a file it does not list is not patched.
ServedIsCurrent ==
    \A s \in Server : \A f \in File :
        Bound(settings[s]) /\ Running(s, f) =>
            IF IsListed(settings[s], f)
            THEN served[s].code \in {Original, Stub, Patched(settings[s].patch, settings[s].base)}
            ELSE served[s].code = Original

-----------------------------------------------------------------------------
(* The inductive invariant of the proof: what may lie under a build id.    *)

\* The code a bound server with this patch and base may find for file f.
MayBe(p, b, f, code) ==
    code = Original \/ (<<p, b, f>> \in Lists /\ code \in {Stub, Patched(p, b)})

DiskIsOwn ==
    \A p \in Patch : \A b \in Base : \A f \in File :
        disk[<<p, b>>][f] = Nothing \/ MayBe(p, b, f, disk[<<p, b>>][f])

MemoryIsOwn ==
    \A s \in Server : Bound(settings[s]) => \A f \in File :
        shm[s][f] = Nothing \/ MayBe(settings[s].patch, settings[s].base, f, shm[s][f])

ServedIsOwn ==
    \A s \in Server : Bound(settings[s]) /\ served[s].code # Nothing =>
        MayBe(settings[s].patch, settings[s].base, served[s].file, served[s].code)

Own == DiskIsOwn /\ MemoryIsOwn /\ ServedIsOwn
=============================================================================
