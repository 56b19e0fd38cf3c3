--------------------------- MODULE Indexer_proofs ---------------------------
(***************************************************************************)
(* The indexer and its coprocesses.                                        *)
(*                                                                         *)
(* Reaping: the coprocesses of an index build can be reaped from the last  *)
(* to the first, whatever their number: the pipes that keep a coprocess    *)
(* alive are held by later ones only, and those are gone by then.          *)
(*                                                                         *)
(* The exchange over the pipes: whatever the sizes of the reads, of the    *)
(* writes and of the buffer, the bytes between the tool and a coprocess    *)
(* are at every step what is left of one request or of its answer          *)
(* (StreamInv).  So every file gets its own keys, and nothing of one       *)
(* answer is left for the next request.                                    *)
(*                                                                         *)
(* The index: whichever thread takes which file, every posting of the      *)
(* files claimed so far and not in work any more has been found once, by   *)
(* one thread (BuildInv).  Sorting leaves no choice, so what is merged,    *)
(* renumbered and sorted is the index of a serial build.                   *)
(*                                                                         *)
(* The file: Index::load follows what write_index writes field by field    *)
(* (Runs), so it has the index at the end of a file and dies of every part *)
(* of one.                                                                 *)
(***************************************************************************)
EXTENDS IndexFile, NormalizerPipe, EdLemmas, FiniteSetTheorems

-----------------------------------------------------------------------------
(* Reaping the coprocesses.                                                *)

\* The number of workers is a number, and the workers are counted from one.
LEMMA JobsType == files \in Trees => jobs \in Nat /\ Worker \subseteq Nat \ {0}
BY IndexAssumption DEF jobs, Worker

\* An exit closes the ends of the indexer and touches nothing else of the pipes.
LEMMA AbortKeeps == ASSUME IInv, Abort PROVE IInv'
<1>1. files' = files /\ order' = order /\ at' = at /\ coproc' = coproc /\ main' = "aborted"
      /\ jobs' = jobs /\ Worker' = Worker /\ Process' = Process
      BY DEF Abort, jobs, Worker, Process
<1>2. held' = [w \in Worker |-> held[w] \ {0}]
      BY DEF Abort
<1>3. PipeTypes'
      BY <1>1, <1>2 DEF IInv, PipeTypes
<1>4. HeldFromAbove'
      BY <1>1, <1>2 DEF IInv, PipeTypes, HeldFromAbove
<1>5. SpawnedSoFar' /\ ReapedSoFar' /\ Closed'
      BY <1>1 DEF SpawnedSoFar, ReapedSoFar, Closed
<1> QED BY <1>3, <1>4, <1>5 DEF IInv

\* Steps of the threads and of the merge leave the pipes alone; after the reaping
\* it does not matter any more where the main thread is.
LEMMA PipesUntouched ==
    ASSUME IInv, UNCHANGED <<files, order, held, coproc>>, at' \in Nat \ {0},
           \/ UNCHANGED <<main, at>>
           \/ main' \in {"join", "merge", "write", "done"}
           \/ main' = "reap" /\ at' = 1
    PROVE  IInv'
<1>1. jobs' = jobs /\ Worker' = Worker /\ Process' = Process
      BY DEF jobs, Worker, Process
<1>2. PipeTypes'
      BY <1>1 DEF IInv, PipeTypes
<1>3. HeldFromAbove'
      BY <1>1 DEF IInv, HeldFromAbove
<1>4. SpawnedSoFar' /\ ReapedSoFar' /\ Closed'
  <2>1. CASE UNCHANGED <<main, at>>
        BY <2>1, <1>1 DEF IInv, SpawnedSoFar, ReapedSoFar, Closed, victim
  <2>2. CASE main' \in {"join", "merge", "write", "done"}
        BY <2>2 DEF SpawnedSoFar, ReapedSoFar, Closed
  <2>3. CASE main' = "reap" /\ at' = 1
        BY <2>3, <1>1, JobsType DEF IInv, PipeTypes, SpawnedSoFar, ReapedSoFar, Closed, Worker
  <2> QED BY <2>1, <2>2, <2>3
<1> QED BY <1>2, <1>3, <1>4 DEF IInv

\* A coprocess that goes takes the ends it held with it; nobody who is reaped goes.
LEMMA GoneKeeps == ASSUME IInv, NEW w \in Worker, Gone(w) PROVE IInv'
<1>1. UNCHANGED <<files, order, main, at>> /\ coproc[w] = "up"
      /\ jobs' = jobs /\ Worker' = Worker /\ Process' = Process
      BY DEF Gone, jobs, Worker, Process
<1>2. coproc' = [coproc EXCEPT ![w] = "exited"] /\ held' = [v \in Worker |-> held[v] \ {w}]
      BY DEF Gone
<1>3. PipeTypes'
      BY <1>1, <1>2 DEF IInv, PipeTypes
<1>4. HeldFromAbove'
  <2> SUFFICES ASSUME NEW v \in Worker, NEW p \in held'[v]
               PROVE  p = 0 \/ (p > v /\ coproc'[p] = "up")
      BY <1>1 DEF HeldFromAbove
  <2>1. p \in held[v] /\ p # w /\ p \in Process
        BY <1>2 DEF IInv, PipeTypes
  <2>2. CASE p = 0
        BY <2>2
  <2>3. CASE p # 0
        BY <2>1, <2>3, <1>2 DEF IInv, PipeTypes, HeldFromAbove, Process
  <2> QED BY <2>2, <2>3
<1>5. SpawnedSoFar'
      BY <1>1, <1>2 DEF IInv, SpawnedSoFar
<1>6. ReapedSoFar'
      BY <1>1, <1>2 DEF IInv, PipeTypes, ReapedSoFar
<1>7. Closed'
  <2>1. main = "wait" => victim \in Worker
        BY JobsType DEF IInv, PipeTypes, Closed, victim, Worker
  <2> QED BY <2>1, <1>1, <1>2 DEF IInv, Closed, victim
<1> QED BY <1>3, <1>4, <1>5, <1>6, <1>7 DEF IInv

LEMMA IInvInit == Init => IInv
<1> SUFFICES ASSUME Init PROVE IInv OBVIOUS
<1>1. PipeTypes
      BY DEF Init, PipeTypes
<1>2. HeldFromAbove /\ SpawnedSoFar /\ ReapedSoFar /\ Closed
      BY DEF Init, HeldFromAbove, SpawnedSoFar, ReapedSoFar, Closed
<1> QED BY <1>1, <1>2 DEF IInv

LEMMA SpawnKeeps == ASSUME IInv, Spawn PROVE IInv'
<1>1. UNCHANGED <<files, order, main>> /\ main = "spawn" /\ at \in Worker /\ at' = at + 1
      /\ jobs' = jobs /\ Worker' = Worker /\ Process' = Process
      BY JobsType DEF IInv, PipeTypes, Spawn, jobs, Worker, Process
<1>2. held' = [w \in Worker |-> IF w = at THEN {0}
                                ELSE IF 0 \in held[w] THEN held[w] \cup {at} ELSE held[w]]
      /\ coproc' = [coproc EXCEPT ![at] = "up"]
      BY DEF Spawn
<1>3. PipeTypes'
      BY <1>1, <1>2 DEF IInv, PipeTypes, Process
<1>4. HeldFromAbove'
  <2> SUFFICES ASSUME NEW v \in Worker, NEW p \in held'[v]
               PROVE  p = 0 \/ (p > v /\ coproc'[p] = "up")
      BY <1>1 DEF HeldFromAbove
  <2>1. CASE v = at
        BY <2>1, <1>2
  <2>2. CASE v # at /\ p \in held[v]
        BY <2>2, <1>1, <1>2 DEF IInv, PipeTypes, HeldFromAbove, Process
  <2>3. CASE v # at /\ p \notin held[v]
    <3>1. p = at /\ 0 \in held[v]
          BY <2>3, <1>2
    <3>2. v < at
          BY <3>1, <2>3, <1>1, JobsType DEF IInv, PipeTypes, SpawnedSoFar
    <3> QED BY <3>1, <3>2, <1>1, <1>2, JobsType DEF IInv, PipeTypes
  <2> QED BY <2>1, <2>2, <2>3
<1>5. SpawnedSoFar'
  <2> SUFFICES ASSUME NEW v \in Worker, v >= at + 1 PROVE held'[v] = {}
      BY <1>1 DEF SpawnedSoFar
  <2>1. v # at /\ held[v] = {}
        BY <1>1, JobsType DEF IInv, PipeTypes, SpawnedSoFar
  <2> QED BY <2>1, <1>2
<1>6. ReapedSoFar' /\ Closed'
      BY <1>1 DEF ReapedSoFar, Closed
<1> QED BY <1>3, <1>4, <1>5, <1>6 DEF IInv

LEMMA CloseKeeps == ASSUME IInv, CloseStdin PROVE IInv'
<1>1. UNCHANGED <<files, order, at, coproc>> /\ main = "reap" /\ main' = "wait" /\ at <= jobs
      /\ jobs' = jobs /\ Worker' = Worker /\ Process' = Process
      BY DEF CloseStdin, jobs, Worker, Process
<1>2. held' = [held EXCEPT ![victim] = @ \ {0}] /\ victim' = victim /\ victim \in Worker
      BY <1>1, JobsType DEF IInv, PipeTypes, CloseStdin, victim, Worker
<1>3. PipeTypes'
      BY <1>1, <1>2 DEF IInv, PipeTypes
<1>4. HeldFromAbove'
      BY <1>1, <1>2 DEF IInv, PipeTypes, HeldFromAbove
<1>5. SpawnedSoFar' /\ ReapedSoFar'
      BY <1>1 DEF IInv, SpawnedSoFar, ReapedSoFar
<1>6. Closed'
      BY <1>1, <1>2 DEF IInv, PipeTypes, Closed
<1> QED BY <1>3, <1>4, <1>5, <1>6 DEF IInv

\* What is reaped next in the backward order is the highest one left.
LEMMA WaitKeeps == ASSUME IInv, WaitPid PROVE IInv'
<1>1. UNCHANGED <<files, order, held>> /\ main = "wait" /\ main' = "reap" /\ at' = at + 1
      /\ coproc[victim] = "exited" /\ coproc' = [coproc EXCEPT ![victim] = "reaped"]
      /\ jobs' = jobs /\ Worker' = Worker /\ Process' = Process
      BY DEF WaitPid, jobs, Worker, Process
<1>2. victim \in Worker
      BY <1>1, JobsType DEF IInv, PipeTypes, Closed, victim, Worker
<1>3. PipeTypes'
      BY <1>1, <1>2 DEF IInv, PipeTypes
<1>4. HeldFromAbove'
  <2> SUFFICES ASSUME NEW v \in Worker, NEW p \in held[v], p # 0
               PROVE  p > v /\ coproc'[p] = "up"
      BY <1>1 DEF HeldFromAbove
  <2>1. p > v /\ coproc[p] = "up" /\ p # victim
        BY <1>1 DEF IInv, HeldFromAbove
  <2> QED BY <2>1, <1>1 DEF IInv, PipeTypes, Process
<1>5. ReapedSoFar'
  <2> SUFFICES ASSUME order = "backward", NEW v \in Worker, v > jobs + 1 - (at + 1)
               PROVE  coproc'[v] = "reaped"
      BY <1>1 DEF ReapedSoFar
  <2>1. CASE v = victim
        BY <2>1, <1>1 DEF IInv, PipeTypes
  <2>2. CASE v # victim
    <3>1. v > jobs + 1 - at
          BY <2>2, JobsType DEF IInv, PipeTypes, victim
    <3> QED BY <3>1, <2>2, <1>1 DEF IInv, PipeTypes, ReapedSoFar
  <2> QED BY <2>1, <2>2
<1>6. SpawnedSoFar' /\ Closed'
      BY <1>1 DEF SpawnedSoFar, Closed
<1> QED BY <1>3, <1>4, <1>5, <1>6 DEF IInv

LEMMA IInvNext == IInv /\ [Next]_vars => IInv'
<1> SUFFICES ASSUME IInv, [Next]_vars PROVE IInv'
    OBVIOUS
<1>1. CASE Spawn
      BY <1>1, SpawnKeeps
<1>2. CASE CannotSpawn
      BY <1>2, AbortKeeps DEF CannotSpawn
<1>3. CASE CloseStdin
      BY <1>3, CloseKeeps
<1>4. CASE WaitPid
      BY <1>4, WaitKeeps
<1>5. CASE StartThreads \/ Join \/ Reaped \/ Merge \/ Compact \/ WriteIndex
  <2>1. UNCHANGED <<files, order, held, coproc>> /\ (at' \in {at, 1} \/ at' = at + 1)
        BY <1>5, Zenon DEF StartThreads, Join, Reaped, Merge, Compact, WriteIndex
  <2>2. \/ main' \in {"join", "merge", "write", "done"}
        \/ main' = "reap" /\ at' = 1
        BY <1>5 DEF StartThreads, Join, Reaped, Merge, Compact, WriteIndex
  <2>3. at' \in Nat \ {0}
        BY <2>1 DEF IInv, PipeTypes
  <2> QED BY <2>1, <2>2, <2>3, PipesUntouched
<1>6. ASSUME NEW w \in Worker, ThreadStep(w) PROVE IInv'
  <2>1. CASE NormalizerFatal(w)
        BY <2>1, AbortKeeps DEF NormalizerFatal
  <2>2. CASE Claim(w) \/ Read(w) \/ Normalize(w)
    <3>1. UNCHANGED <<files, order, held, coproc, main, at>>
          BY <2>2 DEF Claim, Read, Normalize
    <3> QED BY <3>1, PipesUntouched DEF IInv, PipeTypes
  <2> QED BY <1>6, <2>1, <2>2 DEF ThreadStep
<1>7. ASSUME NEW w \in Worker, EndOfInput(w) \/ Dies(w) PROVE IInv'
      BY <1>7, GoneKeeps DEF EndOfInput, Dies
<1>8. CASE UNCHANGED vars
  <2>1. UNCHANGED <<files, order, held, coproc, main, at>>
        BY <1>8 DEF vars
  <2> QED BY <2>1, PipesUntouched DEF IInv, PipeTypes
<1> QED BY <1>1, <1>2, <1>3, <1>4, <1>5, <1>6, <1>7, <1>8 DEF Next, Main

LEMMA IInvAlways == Spec => []IInv
BY IInvInit, IInvNext, PTL DEF Spec

\* NoCircularWait of ~Normalizer, for any number of coprocesses.
THEOREM ReapingIsFree == Spec => []NoCircularWait
<1>1. IInv => NoCircularWait
  <2> SUFFICES ASSUME IInv, main = "wait", order = "backward", NEW p \in held[victim]
               PROVE  FALSE
      BY DEF NoCircularWait
  <2>1. victim \in Worker /\ victim = jobs + 1 - at
        BY JobsType DEF IInv, PipeTypes, Closed, victim, Worker
  <2>2. p \in Process /\ p # 0
        BY <2>1 DEF IInv, PipeTypes, Closed
  <2>3. p \in Worker /\ p > victim /\ coproc[p] = "up"
        BY <2>1, <2>2 DEF IInv, HeldFromAbove, Process
  <2>4. coproc[p] = "reaped"
        BY <2>1, <2>3 DEF IInv, ReapedSoFar
  <2> QED BY <2>3, <2>4
<1> QED BY <1>1, IInvAlways, PTL

-----------------------------------------------------------------------------
(* Numbers in bytes.                                                       *)

LEMMA Digit ==
    ASSUME NEW n \in Nat
    PROVE  /\ n \div Radix \in Nat /\ n % Radix \in Byte
           /\ n = (n % Radix) + Radix * (n \div Radix)
<1>1. Radix \in Nat /\ Radix > 1
  BY PipeAssumption
<1> QED BY <1>1, Z3 DEF Byte

\* One byte less, if the number is below a multiple of the radix.
LEMMA DigitBound ==
    ASSUME NEW n \in Nat, NEW m \in Nat, n < m * Radix
    PROVE  n \div Radix < m
<1>1. Radix \in Nat /\ Radix > 1
  BY PipeAssumption
<1>2. n \div Radix \in Nat /\ n % Radix \in Nat /\ n = (n % Radix) + Radix * (n \div Radix)
  BY Digit DEF Byte
<1> SUFFICES ASSUME n \div Radix >= m PROVE FALSE
  BY <1>2
<1> DEFINE q == n \div Radix
<1>3. q >= m /\ q \in Nat
  BY <1>2
<1>4. n >= Radix * q
  BY <1>1, <1>2
<1> HIDE DEF q
<1>5. Radix * q >= Radix * m
  BY <1>1, <1>3, Z3
<1>6. n < Radix * m
  BY <1>1
<1> DEFINE x == Radix * q
           y == Radix * m
<1>7. x \in Int /\ y \in Int /\ n >= x /\ x >= y /\ n < y
  BY <1>1, <1>3, <1>4, <1>5, <1>6
<1> HIDE DEF x, y
<1> QED BY <1>7

LEMMA PutType ==
    ASSUME NEW n \in Nat
    PROVE  put_u32le(n) \in Seq(Byte) /\ Len(put_u32le(n)) = Width
<1> DEFINE a == n \div Radix
           b == a \div Radix
           c == b \div Radix
<1>1. a \in Nat /\ b \in Nat /\ c \in Nat
  <2>1. a \in Nat
    BY Digit
  <2> HIDE DEF a
  <2>2. b \in Nat
    BY <2>1, Digit
  <2> HIDE DEF b
  <2> QED BY <2>1, <2>2, Digit
<1>2. Shifted(n) = <<n, a, b, c>>
  BY DEF Shifted
<1> HIDE DEF a, b, c
<1>3. Width \in Nat /\ \A i \in 1..Width : i \in 1..4 /\ <<n, a, b, c>>[i] \in Nat
  BY <1>1, PipeAssumption
<1>4. \A m \in Nat : m % Radix \in Byte
  BY Digit
<1>5. put_u32le(n) \in [1..Width -> Byte]
  BY <1>2, <1>3, <1>4 DEF put_u32le
<1> QED BY <1>3, <1>5, FunctionIsSeq

\* A number below Limit can be read again.
LEMMA GetPut ==
    ASSUME NEW n \in Nat, n < Limit PROVE get_u32le(put_u32le(n)) = n
<1> DEFINE a == n \div Radix
           b == a \div Radix
           c == b \div Radix
           d == c \div Radix
<1>0. Radix \in Nat /\ Radix > 1 /\ Width \in 1..4
  BY PipeAssumption
<1>1. /\ a \in Nat /\ n % Radix \in Nat /\ n = (n % Radix) + Radix * a
      /\ \A m \in Nat : n < m * Radix => a < m
  BY Digit, DigitBound DEF Byte
<1>2. Shifted(n) = <<n, a, b, c>>
  BY DEF Shifted
<1> HIDE DEF a
<1>3. /\ b \in Nat /\ a % Radix \in Nat /\ a = (a % Radix) + Radix * b
      /\ \A m \in Nat : a < m * Radix => b < m
  BY <1>1, Digit, DigitBound DEF Byte
<1> HIDE DEF b
<1>4. /\ c \in Nat /\ b % Radix \in Nat /\ b = (b % Radix) + Radix * c
      /\ \A m \in Nat : b < m * Radix => c < m
  BY <1>3, Digit, DigitBound DEF Byte
<1> HIDE DEF c
<1>5. /\ d \in Nat /\ c % Radix \in Nat /\ c = (c % Radix) + Radix * d
      /\ \A m \in Nat : c < m * Radix => d < m
  BY <1>4, Digit, DigitBound DEF Byte
<1> HIDE DEF d
<1> DEFINE R2 == Radix * Radix
           R3 == Radix * Radix * Radix
           p == put_u32le(n)
<1>6. R2 \in Nat /\ R3 \in Nat /\ R3 = R2 * Radix /\ Limit = <<Radix, R2, R3, R3 * Radix>>[Width]
  BY <1>0 DEF Limit
<1>7. /\ Width >= 1 => p[1] = n % Radix
      /\ Width >= 2 => p[2] = a % Radix
      /\ Width >= 3 => p[3] = b % Radix
      /\ Width >= 4 => p[4] = c % Radix
  BY <1>0, <1>2 DEF put_u32le
<1>8. get_u32le(p) = LET byte(i) == IF i <= Width THEN p[i] ELSE 0
                     IN  byte(1) + Radix * (byte(2) + Radix * (byte(3) + Radix * byte(4)))
  BY DEF get_u32le
<1>9. Radix * 0 = 0 /\ 1 * Radix = Radix /\ R2 = Radix * Radix
  BY <1>0
<1> HIDE DEF p, R3
<1>10. CASE Width = 1
  <2>1. n < 1 * Radix
    BY <1>6, <1>9, <1>10
  <2>2. a = 0
    BY <1>1, <2>1
  <2>3. get_u32le(p) = (n % Radix) + Radix * (0 + Radix * (0 + Radix * 0))
    BY <1>7, <1>8, <1>10
  <2> QED BY <1>1, <1>9, <2>2, <2>3 DEF p
<1>11. CASE Width = 2
  <2>1. n < Radix * Radix
    BY <1>6, <1>11
  <2>2. a < 1 * Radix
    BY <1>0, <1>1, <1>9, <2>1
  <2>3. b = 0
    BY <1>3, <2>2
  <2>4. get_u32le(p) = (n % Radix) + Radix * ((a % Radix) + Radix * (0 + Radix * 0))
    BY <1>7, <1>8, <1>11
  <2> QED BY <1>1, <1>3, <1>9, <2>3, <2>4 DEF p
<1>12. CASE Width = 3
  <2>1. n < R2 * Radix
    BY <1>6, <1>12
  <2>2. a < Radix * Radix
    BY <1>1, <1>6, <1>9, <2>1
  <2>3. b < 1 * Radix
    BY <1>0, <1>3, <1>9, <2>2
  <2>4. c = 0
    BY <1>4, <2>3
  <2>5. get_u32le(p) = (n % Radix) + Radix * ((a % Radix) + Radix * ((b % Radix) + Radix * 0))
    BY <1>7, <1>8, <1>12
  <2> QED BY <1>1, <1>3, <1>4, <1>9, <2>4, <2>5 DEF p
<1>13. CASE Width = 4
  <2>1. n < R3 * Radix
    BY <1>6, <1>13
  <2>2. a < R2 * Radix
    BY <1>1, <1>6, <2>1
  <2>3. b < Radix * Radix
    BY <1>3, <1>6, <1>9, <2>2
  <2>4. c < 1 * Radix
    BY <1>0, <1>4, <1>9, <2>3
  <2>5. d = 0
    BY <1>5, <2>4
  <2>6. get_u32le(p) = (n % Radix) + Radix * ((a % Radix) + Radix * ((b % Radix) + Radix * (c % Radix)))
    BY <1>7, <1>8, <1>13
  <2> QED BY <1>1, <1>3, <1>4, <1>5, <1>9, <2>5, <2>6 DEF p
<1> QED BY <1>0, <1>10, <1>11, <1>12, <1>13

-----------------------------------------------------------------------------
(* Streams of bytes.                                                       *)

\* A sequence is what it begins with and the rest.
LEMMA Split ==
    ASSUME NEW S, NEW s \in Seq(S), NEW n \in 0..Len(s)
    PROVE  /\ First(n, s) \in Seq(S) /\ Len(First(n, s)) = n
           /\ Rest(n, s) \in Seq(S) /\ Len(Rest(n, s)) = Len(s) - n
           /\ First(n, s) \o Rest(n, s) = s
<1>1. Len(s) \in Nat
  BY LenProperties
<1>2. First(n, s) \in Seq(S) /\ Len(First(n, s)) = n
  BY <1>1, PartOfSeq DEF First
<1>3. Rest(n, s) \in Seq(S) /\ Len(Rest(n, s)) = Len(s) - n
  <2>1. n + 1 \in Int /\ n + 1 >= 1 /\ Len(s) \in Int /\ Len(s) <= Len(s)
    BY <1>1
  <2>2. Rest(n, s) \in Seq(S) /\ Len(Rest(n, s)) = IF n + 1 <= Len(s) THEN Len(s) - (n + 1) + 1 ELSE 0
    BY <2>1, PartOfSeq DEF Rest
  <2> QED BY <1>1, <2>2
<1>4. First(n, s) \o Rest(n, s) = s
  <2>1. 1 \in 1..(Len(s) + 1) /\ n \in (1 - 1)..Len(s) /\ Len(s) \in n..Len(s)
    BY <1>1
  <2>2. SubSeq(s, 1, n) \o SubSeq(s, n + 1, Len(s)) = SubSeq(s, 1, Len(s))
    BY <2>1, ConcatAdjacentSubSeq
  <2>3. SubSeq(s, 1, Len(s)) = s
    BY SubSeqFull
  <2> QED BY <2>2, <2>3, Zenon DEF First, Rest
<1> QED BY <1>2, <1>3, <1>4

\* Two ways to cut a sequence after as many elements.
SameCut(a, b, c, d) == a = c /\ b = d

LEMMA CutsAgree ==
    ASSUME NEW S, NEW a \in Seq(S), NEW b \in Seq(S), NEW c \in Seq(S), NEW d \in Seq(S),
           Len(a) = Len(c), a \o b = c \o d
    PROVE  SameCut(a, b, c, d)
<1>1. /\ SubSeq(a \o b, Len(a) + 1, Len(a) + Len(b)) = b
      /\ SubSeq(a \o b, 1, Len(a)) = a
      /\ SubSeq(c \o d, Len(c) + 1, Len(c) + Len(d)) = d
      /\ SubSeq(c \o d, 1, Len(c)) = c
  BY DropAndTake
<1>2. Len(b) = Len(d)
  <2>1. Len(a \o b) = Len(a) + Len(b) /\ Len(c \o d) = Len(c) + Len(d)
    BY ConcatProperties
  <2>2. Len(a) \in Nat /\ Len(b) \in Nat /\ Len(c) \in Nat /\ Len(d) \in Nat
    BY LenProperties
  <2> QED BY <2>1, <2>2
<1> QED BY <1>1, <1>2, Zenon DEF SameCut

\* A part that moves from the head of one stream to the end of the one before it.
IsMoved(S, a, s, x, n) ==
    /\ a \o First(n, s) \in Seq(S)
    /\ (a \o First(n, s)) \o (Rest(n, s) \o x) = a \o (s \o x)

LEMMA Moved ==
    ASSUME NEW S
    PROVE  \A a, s, x \in Seq(S) : \A n \in 0..Len(s) : IsMoved(S, a, s, x, n)
<1>1. \A u, v, w \in Seq(S) : (u \o v) \o w = u \o (v \o w)
  BY ConcatAssociative
<1>2. \A u, v \in Seq(S) : u \o v \in Seq(S)
  BY ConcatProperties
<1> TAKE a, s, x \in Seq(S)
<1> TAKE n \in 0..Len(s)
<1> DEFINE f == First(n, s)
           r == Rest(n, s)
<1>3. f \in Seq(S) /\ r \in Seq(S)
  BY Split
<1>8. f \o r = s
  BY Split
<1> HIDE DEF f, r
<1>4. a \o f \in Seq(S) /\ r \o x \in Seq(S)
  BY <1>2, <1>3, Zenon
<1>5. (a \o f) \o (r \o x) = a \o (f \o (r \o x))
  BY <1>1, <1>3, <1>4, Zenon
<1>6. (f \o r) \o x = f \o (r \o x)
  <2>1. \A w \in Seq(S) : (f \o r) \o w = f \o (r \o w)
    BY <1>1, <1>3, Zenon
  <2>2. x \in Seq(S)
    OBVIOUS
  <2> QED BY <2>1, <2>2, Zenon
<1>7. (a \o f) \o (r \o x) = a \o (s \o x)
  BY <1>5, <1>6, <1>8, Zenon
<1> QED BY <1>4, <1>7, Zenon DEF IsMoved, f, r

LEMMA EmptyParts ==
    ASSUME NEW S, NEW a \in Seq(S), NEW b \in Seq(S)
    PROVE  a \o b = <<>> <=> (a = <<>> /\ b = <<>>)
<1>1. /\ a \o b \in Seq(S) /\ Len(a \o b) = Len(a) + Len(b)
      /\ Len(a) \in Nat /\ Len(b) \in Nat
  BY ConcatProperties, LenProperties
<1>2. \A s \in Seq(S) : s = <<>> <=> Len(s) = 0
  BY EmptySeq
<1>3. (a \o b = <<>> <=> Len(a \o b) = 0) /\ (a = <<>> <=> Len(a) = 0) /\ (b = <<>> <=> Len(b) = 0)
  BY <1>1, <1>2
<1> QED BY <1>1, <1>3

LEMMA Nothing == ASSUME NEW S, NEW a \in Seq(S) PROVE <<>> \o a = a /\ <<>> \in Seq(S) /\ Len(<<>>) = 0
BY ConcatEmptySeq, EmptySeq

-----------------------------------------------------------------------------
(* What the streams hold.                                                  *)

Bytes == /\ {rbuf, got, stdin, stdout, heard, reply, unsent} \subseteq Seq(Byte)
         /\ rpos \in 0..Len(rbuf)

LEMMA Streams ==
    ASSUME Bytes
    PROVE  /\ rbuf \in Seq(Byte) /\ got \in Seq(Byte) /\ stdin \in Seq(Byte)
           /\ stdout \in Seq(Byte) /\ heard \in Seq(Byte) /\ reply \in Seq(Byte)
           /\ unsent \in Seq(Byte) /\ buffered \in Seq(Byte)
           /\ Len(buffered) = avail /\ avail \in Nat
           /\ Len(rbuf) \in Nat /\ Len(got) \in Nat /\ Len(stdin) \in Nat
           /\ Len(stdout) \in Nat /\ Len(heard) \in Nat /\ Len(reply) \in Nat
           /\ Len(unsent) \in Nat
<1>1. /\ rbuf \in Seq(Byte) /\ got \in Seq(Byte) /\ stdin \in Seq(Byte)
      /\ stdout \in Seq(Byte) /\ heard \in Seq(Byte) /\ reply \in Seq(Byte)
      /\ unsent \in Seq(Byte) /\ rpos \in 0..Len(rbuf)
  BY DEF Bytes
<1>2. \A s \in Seq(Byte) : Len(s) \in Nat
  BY LenProperties
<1>3. buffered \in Seq(Byte) /\ Len(buffered) = Len(rbuf) - rpos
  BY <1>1, Split DEF buffered
<1>4. Len(rbuf) \in Nat
  BY <1>1, <1>2
<1>5. avail \in Nat /\ Len(buffered) = avail
  BY <1>1, <1>3, <1>4 DEF avail
<1> QED BY <1>1, <1>2, <1>3, <1>5

LEMMA UnreadEmpty ==
    ASSUME Bytes
    PROVE  /\ Unread = <<>> <=> (got = <<>> /\ buffered = <<>> /\ stdout = <<>> /\ reply = <<>>)
           /\ Unread \in Seq(Byte) /\ stdout \o reply \in Seq(Byte)
           /\ buffered \o (stdout \o reply) \in Seq(Byte)
<1>1. /\ got \in Seq(Byte) /\ buffered \in Seq(Byte)
      /\ stdout \in Seq(Byte) /\ reply \in Seq(Byte)
  BY Streams
<1>2. stdout \o reply \in Seq(Byte)
  BY <1>1, ConcatProperties
<1>3. buffered \o (stdout \o reply) \in Seq(Byte)
  BY <1>1, <1>2, ConcatProperties
<1>4. Unread \in Seq(Byte)
  BY <1>1, <1>3, ConcatProperties DEF Unread
<1>5. stdout \o reply = <<>> <=> (stdout = <<>> /\ reply = <<>>)
  BY <1>1, EmptyParts
<1>6. buffered \o (stdout \o reply) = <<>> <=> (buffered = <<>> /\ stdout \o reply = <<>>)
  BY <1>1, <1>2, EmptyParts
<1>7. got \o (buffered \o (stdout \o reply)) = <<>>
        <=> (got = <<>> /\ buffered \o (stdout \o reply) = <<>>)
  BY <1>1, <1>3, EmptyParts
<1> QED BY <1>2, <1>3, <1>4, <1>5, <1>6, <1>7, Zenon DEF Unread

LEMMA UnheardEmpty ==
    ASSUME Bytes
    PROVE  Unheard = <<>> <=> (heard = <<>> /\ stdin = <<>> /\ unsent = <<>>)
<1>1. heard \in Seq(Byte) /\ stdin \in Seq(Byte) /\ unsent \in Seq(Byte)
  BY Streams
<1>2. stdin \o unsent \in Seq(Byte)
  BY <1>1, ConcatProperties
<1>3. stdin \o unsent = <<>> <=> (stdin = <<>> /\ unsent = <<>>)
  BY <1>1, EmptyParts
<1>4. heard \o (stdin \o unsent) = <<>> <=> (heard = <<>> /\ stdin \o unsent = <<>>)
  BY <1>1, <1>2, EmptyParts
<1> QED BY <1>3, <1>4, Zenon DEF Unheard

\* Concatenation groups either way.
Grouped(S, u, v, w) == u \o v \in Seq(S) /\ v \o w \in Seq(S) /\ (u \o v) \o w = u \o (v \o w)

LEMMA Regroup ==
    ASSUME NEW S PROVE \A u, v, w \in Seq(S) : Grouped(S, u, v, w)
<1>1. \A u, v, w \in Seq(S) : (u \o v) \o w = u \o (v \o w)
  BY ConcatAssociative
<1>2. \A u, v \in Seq(S) : u \o v \in Seq(S)
  BY ConcatProperties
<1> QED BY <1>1, <1>2, Zenon DEF Grouped

-----------------------------------------------------------------------------
(* The frame of an answer.                                                 *)

LEMMA AnswerType ==
    ASSUME content \in DOMAIN Answer
    PROVE  /\ content \in Seq(Byte) /\ Len(content) \in Nat /\ Len(content) < Limit
           /\ ThisAnswer \in Seq(NormLine) /\ Len(ThisAnswer) \in Nat /\ Len(ThisAnswer) < Limit
           /\ DOMAIN ThisAnswer = 1..Len(ThisAnswer)
           /\ \A k \in 1..Len(ThisAnswer) :
                 /\ ThisAnswer[k] \in NormLine /\ ThisAnswer[k].key \in Seq(Byte)
                 /\ Len(ThisAnswer[k].key) \in Nat /\ Len(ThisAnswer[k].key) < Limit
<1>1. /\ content \in Seq(Byte) /\ Len(content) < Limit
      /\ ThisAnswer \in Seq(NormLine) /\ Len(ThisAnswer) < Limit
      /\ \A k \in DOMAIN ThisAnswer : Len(ThisAnswer[k].key) < Limit
  BY PipeAssumption DEF ThisAnswer
<1>2. Len(content) \in Nat /\ Len(ThisAnswer) \in Nat /\ DOMAIN ThisAnswer = 1..Len(ThisAnswer)
  BY <1>1, LenProperties
<1>3. \A k \in 1..Len(ThisAnswer) : ThisAnswer[k] \in NormLine
  BY <1>1, ElementOfSeq
<1>4. \A l \in NormLine : l.key \in Seq(Byte) /\ Len(l.key) \in Nat
  BY LenProperties DEF NormLine
<1> QED BY <1>1, <1>2, <1>3, <1>4

\* A line's frame, cut after its head.
LineHead(l) == <<l.flag>> \o put_u32le(Len(l.key))

LEMMA LineFrameIs ==
    ASSUME NEW l \in NormLine
    PROVE  /\ LineHead(l) \in Seq(Byte) /\ Len(LineHead(l)) = 1 + Width
           /\ LineHead(l)[1] = l.flag /\ Rest(1, LineHead(l)) = put_u32le(Len(l.key))
           /\ LineFrame(l) = LineHead(l) \o l.key /\ LineFrame(l) \in Seq(Byte)
<1> DEFINE f == <<l.flag>>
           p == put_u32le(Len(l.key))
<1>1. l.flag \in Byte /\ l.key \in Seq(Byte) /\ Len(l.key) \in Nat
  <2>1. l.flag \in 0..1 /\ l.key \in Seq(Byte)
    BY DEF NormLine
  <2>2. 0..1 \subseteq Byte
    BY PipeAssumption DEF Byte
  <2> QED BY <2>1, <2>2, LenProperties
<1>2. p \in Seq(Byte) /\ Len(p) = Width
  BY <1>1, PutType
<1>3. f \in Seq(Byte) /\ Len(f) = 1 /\ f[1] = l.flag
  BY <1>1
<1>4. LineHead(l) = f \o p /\ LineFrame(l) = (f \o p) \o l.key
  BY DEF LineHead, LineFrame
<1> HIDE DEF f, p
<1>5. f \o p \in Seq(Byte) /\ Len(f \o p) = 1 + Width
      /\ \A i \in 1..(1 + Width) : (f \o p)[i] = IF i <= 1 THEN f[i] ELSE p[i - 1]
  <2>1. /\ f \o p \in Seq(Byte) /\ Len(f \o p) = Len(f) + Len(p)
        /\ \A i \in 1..(Len(f) + Len(p)) : (f \o p)[i] = IF i <= Len(f) THEN f[i] ELSE p[i - Len(f)]
    BY <1>2, <1>3, ConcatProperties
  <2> QED BY <1>2, <1>3, <2>1
<1>6. Width \in Nat /\ 1 \in 1..(1 + Width)
  BY PipeAssumption
<1>7. Rest(1, f \o p) = p
  <2>1. SubSeq(f \o p, Len(f) + 1, Len(f) + Len(p)) = p
    BY <1>2, <1>3, DropAndTake
  <2> QED BY <1>2, <1>3, <1>5, <2>1 DEF Rest
<1>8. (f \o p) \o l.key \in Seq(Byte)
  BY <1>1, <1>5, ConcatProperties
<1>9. (f \o p)[1] = l.flag
  BY <1>3, <1>5, <1>6
<1> QED BY <1>4, <1>5, <1>7, <1>8, <1>9 DEF p

\* The bytes of the answer from a line on.
LEMMA FromIs ==
    ASSUME content \in DOMAIN Answer
    PROVE  /\ Frame(ThisAnswer) = put_u32le(Len(ThisAnswer)) \o LinesFrom(1)
           /\ LinesFrom(Len(ThisAnswer) + 1) = <<>>
           /\ \A k \in 1..(Len(ThisAnswer) + 1) : LinesFrom(k) \in Seq(Byte)
           /\ \A k \in 1..Len(ThisAnswer) : LinesFrom(k) = LineFrame(ThisAnswer[k]) \o LinesFrom(k + 1)
<1> DEFINE n == Len(ThisAnswer)
<1>1. n \in Nat /\ DOMAIN ThisAnswer = 1..n /\ \A k \in 1..n : ThisAnswer[k] \in NormLine
  BY AnswerType
<1>2. Frames = [k \in 1..n |-> LineFrame(ThisAnswer[k])]
  BY <1>1 DEF Frames
<1> HIDE DEF n
<1>3. Frames \in [1..n -> Seq(Byte)]
  BY <1>1, <1>2, LineFrameIs
<1>4. Frames \in Seq(Seq(Byte)) /\ Len(Frames) = n
  BY <1>1, <1>3, FunctionIsSeq
<1>5. ASSUME NEW k \in 1..(n + 1) PROVE LinesFrom(k) \in Seq(Byte)
  <2>1. k \in Int /\ k >= 1 /\ n \in Int /\ n <= n
    BY <1>1
  <2>2. SubSeq(Frames, k, n) \in Seq(Seq(Byte))
    BY <1>4, <2>1, PartOfSeq
  <2> QED BY <1>4, <2>2, FlattenType DEF LinesFrom
<1>6. LinesFrom(n + 1) = <<>>
  <2>1. SubSeq(Frames, n + 1, n) = <<>>
    BY <1>1, <1>4, SubSeqEmpty
  <2> QED BY <1>4, <2>1, FlattenNone DEF LinesFrom
<1>7. ASSUME NEW k \in 1..n PROVE LinesFrom(k) = LineFrame(ThisAnswer[k]) \o LinesFrom(k + 1)
  <2>1. FlattenSeq(SubSeq(Frames, k, Len(Frames)))
          = Frames[k] \o FlattenSeq(SubSeq(Frames, k + 1, Len(Frames)))
    BY <1>4, FlattenNext
  <2>2. Frames[k] = LineFrame(ThisAnswer[k])
    BY <1>2
  <2> QED BY <2>1, <2>2 DEF LinesFrom
<1>8. Frame(ThisAnswer) = put_u32le(n) \o LinesFrom(1)
  <2>1. SubSeq(Frames, 1, Len(Frames)) = Frames
    BY <1>4, SubSeqFull
  <2> QED BY <2>1 DEF LinesFrom, Frame, Frames, n
<1> QED BY <1>5, <1>6, <1>7, <1>8 DEF n

-----------------------------------------------------------------------------
(* The invariant, step by step.                                            *)

LEMMA WidthIs == Width \in Nat /\ Width >= 1
BY PipeAssumption

LEMMA StreamIs == Stream => Bytes
BY DEF Stream, Bytes

\* A step after which the tool is over keeps only what has been told.
LEMMA OverKeeps ==
    ASSUME StreamInv, over', UNCHANGED <<content, asked, delivered>> PROVE StreamInv'
<1>1. pc' \in {"closed", "fatal", "killed"}
  BY DEF over
<1> QED BY <1>1 DEF StreamInv, Told, ThisAnswer, over

LEMMA ExchangeStart == ExchangeInit => StreamInv
<1> SUFFICES ASSUME ExchangeInit PROVE StreamInv
  OBVIOUS
<1>1. /\ pc = "idle" /\ asked = 0 /\ unsent = <<>> /\ rbuf = <<>> /\ rpos = 0 /\ got = <<>>
      /\ stdin = <<>> /\ stdout = <<>> /\ child = "header" /\ heard = <<>> /\ reply = <<>>
  BY DEF ExchangeInit
<1>2. <<>> \in Seq(Byte) /\ Len(<<>>) = 0
  BY EmptySeq
<1>3. Bytes
  BY <1>1, <1>2 DEF Bytes
<1>4. buffered = <<>>
  BY <1>1, <1>2, SubSeqEmpty DEF buffered, Rest
<1>5. Unread = <<>> /\ Unheard = <<>>
  BY <1>1, <1>3, <1>4, UnreadEmpty, UnheardEmpty
<1>6. Stream
  BY <1>1, <1>3, <1>5 DEF Stream, Bytes, Quiet
<1> QED BY <1>1, <1>6 DEF StreamInv, over

LEMMA RequestKeeps ==
    ASSUME StreamInv, NEW c \in DOMAIN Answer, Request(c) PROVE StreamInv'
<1>1. /\ pc = "idle" /\ pc' = "write" /\ content' = c /\ asked' = asked + 1
      /\ unsent' = put_u32le(Len(c)) \o c /\ delivered' = <<>>
      /\ UNCHANGED <<rbuf, rpos, got, stdin, stdout, child, heard, reply>>
  BY DEF Request, side
<1>2. Stream /\ Quiet /\ Bytes /\ asked \in Nat
  <2>1. Stream /\ asked \in Nat
    BY <1>1 DEF StreamInv, over
  <2> QED BY <1>1, <2>1, StreamIs DEF Stream
<1>3. /\ got = <<>> /\ buffered = <<>> /\ stdout = <<>> /\ reply = <<>>
      /\ heard = <<>> /\ stdin = <<>>
  BY <1>2, UnreadEmpty, UnheardEmpty DEF Quiet
<1>4. c \in Seq(Byte) /\ Len(c) \in Nat
  BY PipeAssumption, LenProperties
<1>5. /\ put_u32le(Len(c)) \in Seq(Byte) /\ Len(put_u32le(Len(c))) = Width
  BY <1>4, PutType
<1>6. unsent' \in Seq(Byte) /\ unsent' # <<>>
  <2>1. unsent' \in Seq(Byte)
    BY <1>1, <1>4, <1>5, ConcatProperties
  <2>2. Len(put_u32le(Len(c)) \o c) = Width + Len(c)
    BY <1>4, <1>5, ConcatProperties
  <2>3. Len(<<>>) = 0
    BY EmptySeq
  <2>4. unsent' # <<>>
    BY <1>1, <1>4, <2>2, <2>3, WidthIs
  <2> QED BY <2>1, <2>4
<1>7. Bytes'
  BY <1>1, <1>2, <1>6 DEF Bytes
<1>8. Unread' = <<>>
  BY <1>1, <1>2 DEF Quiet, Unread, buffered
<1>9. Unheard' = ThisRequest'
  <2>1. Unheard' = <<>> \o (<<>> \o unsent')
    BY <1>1, <1>3 DEF Unheard
  <2>2. <<>> \o unsent' = unsent'
    BY <1>6, ConcatEmptySeq
  <2> QED BY <1>1, <2>1, <2>2 DEF ThisRequest
<1>10. Asked'
  BY <1>1, <1>2, <1>3, <1>8, <1>9, WidthIs, EmptySeq DEF Asked, Quiet
<1>11. Told' /\ delivered' \in Seq(NormLine)
  <2>1. SubSeq(ThisAnswer', 1, 0) = <<>> /\ Len(<<>>) = 0 /\ <<>> \in Seq(NormLine)
    BY SubSeqEmpty, EmptySeq
  <2>2. ThisAnswer' = Answer[c]
    BY <1>1 DEF ThisAnswer
  <2>3. Len(ThisAnswer') \in Nat
    BY <2>2, PipeAssumption, LenProperties
  <2> QED BY <1>1, <2>1, <2>3 DEF Told
<1>12. Stream'
  BY <1>1, <1>6, <1>7, <1>10 DEF Stream, Bytes
<1> QED BY <1>1, <1>2, <1>11, <1>12 DEF StreamInv, over

\* The steps that only move bytes: where the tool is and what has been told are as
\* they were.
LEMMA SameTold ==
    ASSUME StreamInv, UNCHANGED <<content, asked, delivered>>,
           pc' = pc \/ (pc' = "header" /\ pc = "write"),
           ~over' => Stream'
    PROVE  StreamInv'
<1>1. /\ asked' = asked /\ content' = content /\ delivered' = delivered
      /\ Told' = Told /\ (over' => over)
  BY DEF Told, ThisAnswer, over
<1>2. pc' = pc \/ (pc' = "header" /\ pc # "idle")
  OBVIOUS
<1> QED BY <1>1, <1>2 DEF StreamInv, over

LEMMA WriteSomeKeeps == ASSUME StreamInv, WriteSome PROVE StreamInv'
<1>1. /\ pc = "write"
      /\ UNCHANGED <<content, asked, delivered, rbuf, rpos, got, line, left, stdout, child, heard, reply>>
  BY DEF WriteSome, reading, side
<1>2. PICK n \in 1..Smaller(Len(unsent), PipeSize - Len(stdin)) :
         /\ stdin' = stdin \o First(n, unsent)
         /\ unsent' = Rest(n, unsent)
         /\ pc' = IF n = Len(unsent) THEN "header" ELSE "write"
  BY DEF WriteSome
<1>3. Stream /\ Asked /\ Bytes
  <2>1. Stream
    BY <1>1 DEF StreamInv, over
  <2> QED BY <1>1, <2>1, StreamIs DEF Stream
<1>4. n \in 0..Len(unsent)
  <2>1. Len(unsent) \in Nat /\ Len(stdin) \in Nat /\ PipeSize \in Nat
    BY <1>3, Streams, PipeAssumption
  <2> QED BY <2>1 DEF Smaller
<1>5. stdin \in Seq(Byte) /\ unsent \in Seq(Byte) /\ heard \in Seq(Byte)
  BY <1>3, Streams
<1>6. /\ First(n, unsent) \in Seq(Byte)
      /\ unsent' \in Seq(Byte) /\ Len(unsent') = Len(unsent) - n
      /\ First(n, unsent) \o unsent' = unsent
  BY <1>2, <1>4, <1>5, Split
<1>7. stdin' \in Seq(Byte)
  BY <1>2, <1>5, <1>6, ConcatProperties
<1>8. Bytes'
  BY <1>1, <1>3, <1>6, <1>7 DEF Bytes
<1>9. stdin' \o unsent' = stdin \o unsent
  <2>1. Grouped(Byte, stdin, First(n, unsent), unsent')
    BY <1>5, <1>6, Regroup
  <2> QED BY <1>2, <1>6, <2>1 DEF Grouped
<1>10. Unheard' = Unheard /\ Unread' = Unread /\ ThisRequest' = ThisRequest
  BY <1>1, <1>9 DEF Unheard, Unread, buffered, ThisRequest
<1>11. Asked'
  BY <1>1, <1>3, <1>10 DEF Asked
<1>12. unsent' = <<>> <=> n = Len(unsent)
  <2>1. unsent' = <<>> <=> Len(unsent') = 0
    BY <1>6, EmptySeq
  <2>2. Len(unsent) \in Nat
    BY <1>3, Streams
  <2> QED BY <1>4, <1>6, <2>1, <2>2
<1>13. Stream'
  BY <1>2, <1>8, <1>11, <1>12 DEF Stream, Bytes
<1> QED BY <1>1, <1>2, <1>13, SameTold DEF over

\* Where the tool wants bytes, and there are some, it is taking an answer apart.
LEMMA Answering ==
    ASSUME StreamInv, ~over, pc # "idle", pc # "write", Unread # <<>>
    PROVE  Stream /\ Bytes /\ Answered /\ pc \in {"header", "meta", "key"}
<1>1. Stream /\ pc \in {"header", "meta", "key"}
  BY DEF StreamInv, over
<1>2. Answered
  BY <1>1 DEF Stream, Asked
<1> QED BY <1>1, <1>2, StreamIs

\* Bytes move on towards the tool.
LEMMA TakesIn ==
    ASSUME StreamInv, ~over, Stream, UNCHANGED <<pc, request, line, left, delivered, stdin, side>>,
           Bytes', Unread' = Unread
    PROVE  StreamInv'
<1>1. UNCHANGED <<pc, content, asked, unsent, line, left, delivered, stdin, child, heard, reply>>
  BY DEF request, side
<1>2. /\ Unheard' = Unheard /\ ThisRequest' = ThisRequest /\ ThisAnswer' = ThisAnswer
  BY <1>1 DEF Unheard, ThisRequest, ThisAnswer
<1>3. \A n : LinesFrom(n)' = LinesFrom(n)
  BY <1>2 DEF LinesFrom, Frames
<1>4. Asked' = Asked /\ Answered' = Answered /\ Quiet' = Quiet
  BY <1>1, <1>2, <1>3 DEF Asked, Answered, Quiet
<1>5. Stream'
  BY <1>1, <1>2, <1>4 DEF Stream, Bytes
<1> QED BY <1>1, <1>5, SameTold

LEMMA FillKeeps == ASSUME StreamInv, Fill PROVE StreamInv'
<1> DEFINE n == Smaller(BufferSize, Len(stdout))
<1>1. /\ Len(got) < wanted /\ avail = 0 /\ stdout # <<>>
      /\ rbuf' = First(n, stdout) /\ stdout' = Rest(n, stdout) /\ rpos' = 0
      /\ UNCHANGED <<pc, request, got, line, left, delivered, stdin, side>>
  BY DEF Fill
<1>2. UNCHANGED <<pc, content, asked, unsent, got, line, left, delivered, stdin, child, heard, reply>>
  BY <1>1 DEF request, side
<1>3. CASE over
  BY <1>2, <1>3, OverKeeps DEF over
<1>4. CASE ~over
  <2>1. Stream /\ Bytes
    BY <1>4, StreamIs DEF StreamInv
  <2>2. /\ got \in Seq(Byte) /\ stdout \in Seq(Byte) /\ reply \in Seq(Byte)
        /\ buffered \in Seq(Byte) /\ Len(buffered) = 0 /\ Len(stdout) \in Nat
    BY <1>1, <2>1, Streams
  <2>3. n \in 0..Len(stdout)
    BY <2>2, PipeAssumption DEF Smaller
  <2> HIDE DEF n
  <2>4. /\ rbuf' \in Seq(Byte) /\ Len(rbuf') = n /\ stdout' \in Seq(Byte)
        /\ rbuf' \o stdout' = stdout
    BY <1>1, <2>2, <2>3, Split
  <2>5. Bytes'
    BY <1>1, <1>2, <2>1, <2>3, <2>4 DEF Bytes
  <2>6. buffered = <<>> /\ buffered' = rbuf'
    <3>1. buffered = <<>>
      BY <2>2, EmptySeq
    <3>2. SubSeq(rbuf', 1, Len(rbuf')) = rbuf'
      BY <2>4, SubSeqFull
    <3> QED BY <1>1, <3>1, <3>2 DEF buffered, Rest
  <2>7. Unread' = Unread
    <3>1. Grouped(Byte, rbuf', stdout', reply)
      BY <2>2, <2>4, Regroup
    <3>2. buffered' \o (stdout' \o reply') = stdout \o reply
      BY <1>2, <2>4, <2>6, <3>1 DEF Grouped
    <3>3. <<>> \o (stdout \o reply) = stdout \o reply
      <4>1. stdout \o reply \in Seq(Byte)
        BY <2>2, ConcatProperties
      <4> QED BY <4>1, ConcatEmptySeq
    <3> QED BY <1>2, <2>6, <3>2, <3>3, Zenon DEF Unread
  <2> QED BY <1>1, <1>4, <2>1, <2>5, <2>7, TakesIn
<1> QED BY <1>3, <1>4

\* The next n bytes of the buffer, and what it holds after them.
LEMMA Advance ==
    ASSUME Bytes, NEW n \in 0..avail
    PROVE  /\ SubSeq(rbuf, rpos + 1, rpos + n) = First(n, buffered)
           /\ Rest(rpos + n, rbuf) = Rest(n, buffered)
           /\ rpos + n \in 0..Len(rbuf) /\ n \in 0..Len(buffered)
<1> DEFINE a == SubSeq(rbuf, rpos + 1, rpos + n)
           b == Rest(rpos + n, rbuf)
<1>1. rbuf \in Seq(Byte) /\ Len(rbuf) \in Nat /\ rpos \in 0..Len(rbuf) /\ avail = Len(rbuf) - rpos
      /\ buffered \in Seq(Byte) /\ Len(buffered) = avail
  BY Streams DEF Bytes, avail
<1>2. rpos + n \in 0..Len(rbuf) /\ n \in 0..Len(buffered)
  BY <1>1
<1>3. a \in Seq(Byte) /\ Len(a) = n
  <2>1. rpos + 1 \in Int /\ rpos + 1 >= 1 /\ rpos + n \in Int /\ rpos + n <= Len(rbuf)
    BY <1>1, <1>2
  <2>2. Len(a) = IF rpos + 1 <= rpos + n THEN rpos + n - (rpos + 1) + 1 ELSE 0
    BY <1>1, <2>1, PartOfSeq
  <2>3. a \in Seq(Byte)
    BY <1>1, <2>1, PartOfSeq
  <2> HIDE DEF a
  <2> QED BY <1>1, <2>2, <2>3
<1>4. b \in Seq(Byte)
  BY <1>1, <1>2, Split
<1>5. a \o b = buffered
  <2>1. rpos + 1 \in 1..(Len(rbuf) + 1) /\ rpos + n \in (rpos + 1 - 1)..Len(rbuf)
        /\ Len(rbuf) \in (rpos + n)..Len(rbuf)
    BY <1>1, <1>2
  <2> DEFINE lo == rpos + 1
             hi == rpos + n
  <2>3. lo \in 1..(Len(rbuf) + 1) /\ hi \in (lo - 1)..Len(rbuf) /\ Len(rbuf) \in hi..Len(rbuf)
    BY <1>1, <1>2
  <2> HIDE DEF lo, hi
  <2>4. SubSeq(rbuf, lo, hi) \o SubSeq(rbuf, hi + 1, Len(rbuf)) = SubSeq(rbuf, lo, Len(rbuf))
    BY <1>1, <2>3, ConcatAdjacentSubSeq
  <2>2. a \o SubSeq(rbuf, rpos + n + 1, Len(rbuf)) = SubSeq(rbuf, rpos + 1, Len(rbuf))
    BY <2>4 DEF lo, hi
  <2> QED BY <2>2 DEF buffered, Rest
<1>6. /\ First(n, buffered) \in Seq(Byte) /\ Len(First(n, buffered)) = n
      /\ Rest(n, buffered) \in Seq(Byte) /\ First(n, buffered) \o Rest(n, buffered) = buffered
  BY <1>1, <1>2, Split
<1> HIDE DEF a, b
<1>7. SameCut(a, b, First(n, buffered), Rest(n, buffered))
  BY <1>3, <1>4, <1>5, <1>6, CutsAgree
<1> QED BY <1>2, <1>7 DEF SameCut, a, b

LEMMA GatherKeeps == ASSUME StreamInv, Gather PROVE StreamInv'
<1> DEFINE n == Smaller(avail, wanted - Len(got))
<1>1. /\ Len(got) < wanted /\ avail > 0
      /\ got' = got \o SubSeq(rbuf, rpos + 1, rpos + n) /\ rpos' = rpos + n
      /\ UNCHANGED <<pc, request, rbuf, line, left, delivered, stdin, stdout, side>>
  BY DEF Gather
<1>2. UNCHANGED <<pc, content, asked, unsent, rbuf, line, left, delivered, stdin, stdout, child,
                  heard, reply>>
  BY <1>1 DEF request, side
<1>3. CASE over
  BY <1>2, <1>3, OverKeeps DEF over
<1>4. CASE ~over
  <2>1. Stream /\ Bytes
    BY <1>4, StreamIs DEF StreamInv
  <2>2. /\ got \in Seq(Byte) /\ stdout \o reply \in Seq(Byte) /\ rbuf \in Seq(Byte)
        /\ buffered \in Seq(Byte) /\ avail \in Nat /\ Len(got) \in Nat
    BY <2>1, Streams, UnreadEmpty
  <2>3. wanted \in Nat
    <3>1. pc # "idle" /\ pc # "write"
      BY <1>1, <2>2 DEF wanted
    <3>2. Unread # <<>>
      <4>1. Len(buffered) # 0 /\ Len(<<>>) = 0
        BY <1>1, <2>1, <2>2, Streams, EmptySeq
      <4>2. buffered # <<>>
        BY <4>1
      <4> QED BY <2>1, <4>2, UnreadEmpty
    <3>3. Answered /\ pc \in {"header", "meta", "key"} /\ asked > 0
      BY <1>4, <3>1, <3>2, Answering DEF StreamInv
    <3>4. pc = "key" => line.klen \in Nat
      <4> SUFFICES ASSUME pc = "key" PROVE line.klen \in Nat
        OBVIOUS
      <4>1. content \in DOMAIN Answer /\ Told /\ delivered \in Seq(NormLine)
        BY <3>3 DEF StreamInv
      <4>2. Len(delivered) \in Nat /\ Len(delivered) < Len(ThisAnswer)
        BY <3>3, <4>1, LenProperties DEF Answered
      <4>3. Len(delivered) + 1 \in 1..Len(ThisAnswer)
        BY <4>1, <4>2, AnswerType
      <4>4. line.klen = Len(ThisAnswer[Len(delivered) + 1].key)
        BY <3>3 DEF Answered
      <4> QED BY <4>1, <4>3, <4>4, AnswerType
    <3> QED BY <3>3, <3>4, WidthIs DEF wanted
  <2>4. n \in 0..avail
    BY <1>1, <2>2, <2>3 DEF Smaller
  <2> HIDE DEF n
  <2>5. /\ got' = got \o First(n, buffered) /\ buffered' = Rest(n, buffered)
        /\ rpos' \in 0..Len(rbuf) /\ n \in 0..Len(buffered)
    BY <1>1, <1>2, <2>1, <2>4, Advance DEF buffered
  <2>6. IsMoved(Byte, got, buffered, stdout \o reply, n)
    BY <2>2, <2>5, Moved
  <2>7. got' \in Seq(Byte) /\ Unread' = Unread
    BY <1>2, <2>5, <2>6 DEF IsMoved, Unread
  <2>8. Bytes'
    BY <1>2, <2>1, <2>5, <2>7 DEF Bytes
  <2> QED BY <1>1, <1>4, <2>1, <2>7, <2>8, TakesIn DEF request, side
<1> QED BY <1>3, <1>4

\* Truncated answers, broken pipes and the end.
LEMMA EndsKeep == ASSUME StreamInv, Truncated \/ BrokenPipe \/ Close PROVE StreamInv'
<1>1. over' /\ UNCHANGED <<content, asked, delivered>>
  BY DEF Truncated, BrokenPipe, Close, over, request, reading
<1> QED BY <1>1, OverKeeps

\* What has been gathered is the head of what was to be read.
LEMMA Gathered ==
    ASSUME Bytes, NEW a \in Seq(Byte), NEW b \in Seq(Byte), Len(got) = Len(a), Unread = a \o b
    PROVE  got = a /\ buffered \o (stdout \o reply) = b
<1> DEFINE x == buffered \o (stdout \o reply)
<1>1. got \in Seq(Byte) /\ x \in Seq(Byte)
  BY Streams, UnreadEmpty
<1>2. Unread = got \o x
  BY DEF Unread
<1> HIDE DEF x
<1>3. SameCut(got, x, a, b)
  BY <1>1, <1>2, CutsAgree
<1> QED BY <1>3 DEF SameCut, x

\* Everything but the place and the lines is as it was.
SameTalk == UNCHANGED <<content, asked, unsent, rbuf, stdin, stdout, child, heard, reply>>

LEMMA SameTalkIs ==
    ASSUME SameTalk
    PROVE  /\ Unheard' = Unheard /\ ThisAnswer' = ThisAnswer
           /\ \A n : LinesFrom(n)' = LinesFrom(n)
<1>1. Unheard' = Unheard /\ ThisAnswer' = ThisAnswer
  BY DEF SameTalk, Unheard, ThisAnswer
<1> QED BY <1>1 DEF LinesFrom, Frames

LEMMA ReplyIsRead == Bytes /\ Unread = <<>> => reply = <<>>
BY UnreadEmpty

\* After the header, or a line, comes the next line or the next file.
LEMMA LinesKeeps ==
    ASSUME StreamInv, SameTalk, Bytes', Answered, asked > 0,
           delivered' \in Seq(NormLine), Told', Len(delivered') <= Len(ThisAnswer),
           Lines(Len(ThisAnswer) - Len(delivered')),
           Unread' = LinesFrom(Len(delivered') + 1)
    PROVE  StreamInv'
<1> DEFINE n == Len(delivered')
           m == Len(ThisAnswer)
<1>1. content \in DOMAIN Answer /\ m \in Nat /\ n \in Nat /\ n <= m
      /\ LinesFrom(m + 1) = <<>> /\ asked \in Nat
  <2>1. content \in DOMAIN Answer /\ asked \in Nat
    BY DEF StreamInv
  <2> QED BY <2>1, AnswerType, FromIs, LenProperties
<1>2. left' = m - n /\ pc' = IF m - n = 0 THEN "idle" ELSE "meta"
  BY DEF Lines
<1>3. Unheard' = <<>> /\ child' \in {"answer", "header", "gone"}
      /\ (child' = "answer" => reply' # <<>>) /\ ThisAnswer' = ThisAnswer
      /\ asked' = asked /\ content' = content
  BY SameTalkIs DEF Answered, SameTalk
<1>4. Told'
  OBVIOUS
<1> HIDE DEF n, m
<1>5. CASE m = n
  <2>1. pc' = "idle"
    BY <1>1, <1>2, <1>5
  <2>2. Unread' = <<>>
    BY <1>1, <1>5 DEF n
  <2>3. reply' = <<>>
    <3>1. (Bytes /\ Unread = <<>> => reply = <<>>)'
      BY ReplyIsRead, PTL
    <3> QED BY <2>2, <3>1
  <2>4. delivered' = ThisAnswer'
    <3>1. delivered' = SubSeq(ThisAnswer, 1, m)
      BY <1>3, <1>4, <1>5 DEF Told, n
    <3>2. ThisAnswer \in Seq(NormLine)
      BY <1>1, AnswerType
    <3> QED BY <1>3, <3>1, <3>2, SubSeqFull DEF m
  <2>5. Stream'
    BY <1>3, <2>1, <2>2, <2>3, <2>4 DEF Stream, Bytes, Quiet
  <2> QED BY <1>1, <1>3, <1>4, <2>1, <2>5 DEF StreamInv, over
<1>6. CASE m # n
  <2>1. pc' = "meta" /\ n < m
    BY <1>1, <1>2, <1>6
  <2>2. Unread' = LinesFrom(Len(delivered) + 1)'
    BY SameTalkIs
  <2>4. Answered'
    BY <1>2, <1>3, <2>1, <2>2 DEF Answered, n, m
  <2>3. Stream'
    BY <2>1, <2>4 DEF Stream, Bytes
  <2> QED BY <1>1, <1>3, <1>4, <2>1, <2>3 DEF StreamInv, over
<1> QED BY <1>5, <1>6

LEMMA HeaderKeeps == ASSUME StreamInv, Header PROVE StreamInv'
<1>1. /\ pc = "header" /\ Len(got) = wanted /\ got' = <<>> /\ Lines(get_u32le(got))
      /\ UNCHANGED <<request, rbuf, rpos, line, delivered, stdin, stdout, side>>
  BY DEF Header, Complete
<1>2. SameTalk /\ delivered' = delivered /\ rpos' = rpos
  BY <1>1 DEF SameTalk, request, side
<1>3. Len(got) = Width /\ asked > 0 /\ content \in DOMAIN Answer /\ Stream /\ Bytes
  BY <1>1, StreamIs DEF wanted, StreamInv, over
<1>4. Answered /\ delivered = <<>> /\ Unread = Frame(ThisAnswer)
  <2>1. Asked => got = <<>>
    BY <1>3, UnreadEmpty DEF Asked
  <2>2. Len(<<>>) = 0
    BY EmptySeq
  <2>3. Answered
    BY <1>1, <1>3, <2>1, <2>2, WidthIs DEF Stream
  <2> QED BY <1>1, <2>3 DEF Answered
<1>5. /\ Len(ThisAnswer) \in Nat /\ Len(ThisAnswer) < Limit
      /\ put_u32le(Len(ThisAnswer)) \in Seq(Byte) /\ Len(put_u32le(Len(ThisAnswer))) = Width
      /\ LinesFrom(1) \in Seq(Byte)
      /\ Frame(ThisAnswer) = put_u32le(Len(ThisAnswer)) \o LinesFrom(1)
  <2>1. Len(ThisAnswer) \in Nat /\ Len(ThisAnswer) < Limit
    BY <1>3, AnswerType
  <2>2. 1 \in 1..(Len(ThisAnswer) + 1)
    BY <2>1
  <2> QED BY <1>3, <2>1, <2>2, PutType, FromIs
<1>6. got = put_u32le(Len(ThisAnswer)) /\ buffered \o (stdout \o reply) = LinesFrom(1)
  <2> DEFINE a == put_u32le(Len(ThisAnswer))
             b == LinesFrom(1)
  <2>1. a \in Seq(Byte) /\ b \in Seq(Byte) /\ Len(got) = Len(a) /\ Unread = a \o b
    BY <1>3, <1>4, <1>5
  <2> HIDE DEF a, b
  <2>2. got = a /\ buffered \o (stdout \o reply) = b
    BY <1>3, <2>1, Gathered
  <2> QED BY <2>2 DEF a, b
<1>7. get_u32le(got) = Len(ThisAnswer)
  BY <1>5, <1>6, GetPut
<1>8. Unread' = LinesFrom(1)
  <2>1. Unread' = <<>> \o (buffered \o (stdout \o reply))
    BY <1>1, <1>2 DEF SameTalk, Unread, buffered
  <2>2. <<>> \o LinesFrom(1) = LinesFrom(1)
    BY <1>5, ConcatEmptySeq
  <2> QED BY <1>6, <2>1, <2>2
<1>9. Bytes'
  BY <1>1, <1>2, <1>3, EmptySeq DEF Bytes, SameTalk
<1>10. Len(delivered') = 0 /\ delivered' \in Seq(NormLine) /\ Told'
  <2>1. Told /\ delivered \in Seq(NormLine)
    BY <1>3 DEF StreamInv
  <2> QED BY <1>2, <1>4, <2>1, SameTalkIs, EmptySeq DEF Told
<1>11. Lines(Len(ThisAnswer) - Len(delivered')) /\ Unread' = LinesFrom(Len(delivered') + 1)
  <2>1. Len(ThisAnswer) - 0 = Len(ThisAnswer) /\ 0 + 1 = 1
    BY <1>5
  <2> QED BY <1>1, <1>7, <1>8, <1>10, <2>1
<1>12. Len(delivered') <= Len(ThisAnswer)
  BY <1>5, <1>10
<1> QED BY <1>2, <1>3, <1>4, <1>9, <1>10, <1>11, <1>12, LinesKeeps

\* The line that the tool is at.
LEMMA AtLine ==
    ASSUME StreamInv, pc \in {"meta", "key"}
    PROVE  /\ Stream /\ Bytes /\ Answered /\ asked > 0 /\ content \in DOMAIN Answer /\ Told
           /\ delivered \in Seq(NormLine) /\ Len(delivered) \in Nat
           /\ Len(ThisAnswer) \in Nat /\ Len(delivered) < Len(ThisAnswer)
           /\ left = Len(ThisAnswer) - Len(delivered)
           /\ ThisAnswer[Len(delivered) + 1] \in NormLine
           /\ ThisAnswer[Len(delivered) + 1].key \in Seq(Byte)
           /\ Len(ThisAnswer[Len(delivered) + 1].key) \in Nat
           /\ Len(ThisAnswer[Len(delivered) + 1].key) < Limit
           /\ LinesFrom(Len(delivered) + 2) \in Seq(Byte)
           /\ LinesFrom(Len(delivered) + 1)
                = LineFrame(ThisAnswer[Len(delivered) + 1]) \o LinesFrom(Len(delivered) + 2)
<1>1. /\ Stream /\ Bytes /\ Answered /\ asked > 0 /\ content \in DOMAIN Answer /\ Told
      /\ delivered \in Seq(NormLine)
  BY StreamIs DEF StreamInv, over, Stream
<1>2. /\ Len(delivered) < Len(ThisAnswer) /\ left = Len(ThisAnswer) - Len(delivered)
      /\ Len(ThisAnswer) \in Nat /\ Len(delivered) \in Nat
  BY <1>1, AnswerType, LenProperties DEF Answered
<1>3. Len(delivered) + 1 \in 1..Len(ThisAnswer) /\ Len(delivered) + 1 + 1 = Len(delivered) + 2
      /\ Len(delivered) + 2 \in 1..(Len(ThisAnswer) + 1)
  BY <1>2
<1>4. LinesFrom(Len(delivered) + 1)
        = LineFrame(ThisAnswer[Len(delivered) + 1]) \o LinesFrom(Len(delivered) + 1 + 1)
  BY <1>1, <1>3, FromIs
<1>5. LinesFrom(Len(delivered) + 2) \in Seq(Byte)
  BY <1>1, <1>3, FromIs
<1> QED BY <1>1, <1>2, <1>3, <1>4, <1>5, AnswerType

LEMMA MetaKeeps == ASSUME StreamInv, Meta PROVE StreamInv'
<1> DEFINE l == ThisAnswer[Len(delivered) + 1]
           rest == LinesFrom(Len(delivered) + 2)
<1>1. /\ pc = "meta" /\ Len(got) = wanted /\ got' = <<>> /\ pc' = "key"
      /\ line' = [flag |-> got[1], klen |-> get_u32le(Rest(1, got))]
      /\ UNCHANGED <<request, rbuf, rpos, left, delivered, stdin, stdout, side>>
  BY DEF Meta, Complete
<1>2. SameTalk /\ delivered' = delivered /\ rpos' = rpos /\ left' = left
  BY <1>1 DEF SameTalk, request, side
<1>3. Len(got) = 1 + Width
  BY <1>1 DEF wanted
<1>4. /\ Stream /\ Bytes /\ Answered /\ asked > 0 /\ content \in DOMAIN Answer /\ Told
      /\ delivered \in Seq(NormLine)
      /\ Len(delivered) < Len(ThisAnswer) /\ left = Len(ThisAnswer) - Len(delivered)
      /\ l \in NormLine /\ l.key \in Seq(Byte) /\ Len(l.key) \in Nat /\ Len(l.key) < Limit
      /\ rest \in Seq(Byte)
      /\ LinesFrom(Len(delivered) + 1) = LineFrame(l) \o rest
  BY <1>1, AtLine
<1>5. Unread = LineFrame(l) \o rest
  BY <1>1, <1>4 DEF Answered
<1>6. /\ LineHead(l) \in Seq(Byte) /\ Len(LineHead(l)) = 1 + Width
      /\ LineHead(l)[1] = l.flag /\ Rest(1, LineHead(l)) = put_u32le(Len(l.key))
      /\ LineFrame(l) = LineHead(l) \o l.key
  BY <1>4, LineFrameIs
<1>12. \A n : LinesFrom(n)' = LinesFrom(n)
  BY <1>2, SameTalkIs
<1>13. /\ Unheard' = <<>> /\ child' \in {"answer", "header", "gone"}
       /\ (child' = "answer" => reply' # <<>>) /\ ThisAnswer' = ThisAnswer
  BY <1>2, <1>4, SameTalkIs DEF Answered, SameTalk
<1> DEFINE a == LineHead(l)
           b == l.key \o rest
<1>7. Unread = a \o b /\ b \in Seq(Byte)
  <2>1. Grouped(Byte, LineHead(l), l.key, rest)
    BY <1>4, <1>6, Regroup
  <2> QED BY <1>5, <1>6, <2>1 DEF Grouped
<1>8. Len(got) = Len(a) /\ a \in Seq(Byte)
  BY <1>3, <1>6
<1> HIDE DEF a, b, l, rest
<1>9. got = a /\ buffered \o (stdout \o reply) = b
  BY <1>4, <1>7, <1>8, Gathered
<1>10. line' = [flag |-> l.flag, klen |-> Len(l.key)]
  BY <1>1, <1>4, <1>6, <1>9, GetPut DEF a
<1>11. Unread' = b
  <2>1. Unread' = <<>> \o (buffered \o (stdout \o reply))
    BY <1>1, <1>2 DEF SameTalk, Unread, buffered
  <2>2. <<>> \o b = b
    BY <1>7, ConcatEmptySeq
  <2> QED BY <1>9, <2>1, <2>2
<1>14. rest = LinesFrom(Len(delivered) + 2)' /\ l = ThisAnswer'[Len(delivered') + 1]
  BY <1>2, <1>12, <1>13 DEF rest, l
<1>15. Answered'
  BY <1>1, <1>2, <1>4, <1>10, <1>11, <1>13, <1>14 DEF Answered, b
<1>16. Bytes'
  BY <1>1, <1>2, <1>4, EmptySeq DEF Bytes, SameTalk
<1>17. Stream'
  BY <1>1, <1>15, <1>16 DEF Stream, Bytes
<1>18. Told' /\ asked' = asked /\ content' = content
  BY <1>2, <1>4, <1>13 DEF Told, SameTalk
<1> QED BY <1>1, <1>2, <1>4, <1>17, <1>18 DEF StreamInv, over

\* A key, in one piece, is passed on with its flag.
LEMMA OnLineKeeps ==
    ASSUME StreamInv, pc = "key", NEW key, key = ThisAnswer[Len(delivered) + 1].key, OnLine(key),
           SameTalk, Lines(left - 1), Bytes', Unread' = LinesFrom(Len(delivered) + 2)
    PROVE  StreamInv'
<1> DEFINE l == ThisAnswer[Len(delivered) + 1]
           n == Len(delivered)
<1>1. /\ Answered /\ asked > 0 /\ content \in DOMAIN Answer /\ Told
      /\ delivered \in Seq(NormLine) /\ n \in Nat
      /\ Len(ThisAnswer) \in Nat /\ n < Len(ThisAnswer)
      /\ left = Len(ThisAnswer) - n /\ l \in NormLine
  BY AtLine
<1>2. ThisAnswer \in Seq(NormLine) /\ ThisAnswer' = ThisAnswer
  BY <1>1, AnswerType, SameTalkIs
<1>3. line.flag = l.flag
  BY <1>1 DEF Answered
<1>4. delivered' = Append(delivered, l)
  <2>1. l = [flag |-> l.flag, key |-> l.key]
    BY <1>1 DEF NormLine
  <2> QED BY <1>3, <2>1 DEF OnLine
<1> HIDE DEF l
<1>5. delivered' \in Seq(NormLine) /\ Len(delivered') = n + 1
  BY <1>1, <1>4, AppendProperties
<1>6. Told'
  <2>1. n \in 0..(Len(ThisAnswer) - 1)
    BY <1>1
  <2>2. SubSeq(ThisAnswer, 1, n + 1) = Append(SubSeq(ThisAnswer, 1, n), ThisAnswer[n + 1])
    BY <1>2, <2>1, OneMore
  <2>3. delivered' = SubSeq(ThisAnswer, 1, n + 1)
    BY <1>1, <1>4, <2>2 DEF Told, l
  <2>4. n + 1 <= Len(ThisAnswer)
    BY <1>1
  <2> QED BY <1>2, <1>5, <2>3, <2>4 DEF Told
<1> HIDE DEF n
<1>7. left - 1 = Len(ThisAnswer) - (n + 1) /\ n + 1 + 1 = n + 2 /\ n + 1 <= Len(ThisAnswer)
  BY <1>1
<1>8. Lines(Len(ThisAnswer) - Len(delivered')) /\ Unread' = LinesFrom(Len(delivered') + 1)
      /\ Len(delivered') <= Len(ThisAnswer)
  BY <1>5, <1>7 DEF n
<1> QED BY <1>1, <1>5, <1>6, <1>8, LinesKeeps

LEMMA AtKey ==
    ASSUME Answered, pc = "key"
    PROVE  /\ line.klen = Len(ThisAnswer[Len(delivered) + 1].key)
           /\ Unread = ThisAnswer[Len(delivered) + 1].key \o LinesFrom(Len(delivered) + 2)
<1> DEFINE l == ThisAnswer[Len(delivered) + 1]
<1>1. line = [flag |-> l.flag, klen |-> Len(l.key)]
  BY DEF Answered
<1>2. Unread = l.key \o LinesFrom(Len(delivered) + 2)
  BY DEF Answered
<1> HIDE DEF l
<1>3. line.klen = Len(l.key)
  BY <1>1
<1> QED BY <1>2, <1>3 DEF l

LEMMA ViewInBufferKeeps == ASSUME StreamInv, ViewInBuffer PROVE StreamInv'
<1> DEFINE key == ThisAnswer[Len(delivered) + 1].key
           rest == LinesFrom(Len(delivered) + 2)
           k == line.klen
           view == SubSeq(rbuf, rpos + 1, rpos + k)
<1>1. /\ pc = "key" /\ got = <<>> /\ avail >= k /\ OnLine(view)
      /\ rpos' = rpos + k /\ Lines(left - 1)
      /\ UNCHANGED <<request, rbuf, got, line, stdin, stdout, side>>
  BY DEF ViewInBuffer, InPlace
<1>2. SameTalk /\ got' = got
  BY <1>1 DEF SameTalk, request, side
<1>3. /\ Bytes /\ Answered /\ key \in Seq(Byte) /\ Len(key) \in Nat /\ rest \in Seq(Byte)
  BY <1>1, AtLine
<1>4. k = Len(key) /\ Unread = key \o rest
  BY <1>1, <1>3, AtKey, Zenon
<1>5. /\ avail \in Nat /\ buffered \in Seq(Byte) /\ stdout \o reply \in Seq(Byte)
      /\ Len(buffered) = avail
  BY <1>3, Streams, UnreadEmpty
<1> HIDE DEF key, rest, k, view
<1>6. k \in 0..avail /\ k \in 0..Len(buffered)
  BY <1>1, <1>3, <1>4, <1>5
<1> DEFINE f == First(k, buffered)
           r == Rest(k, buffered)
           y == stdout \o reply
<1>7. view = f /\ buffered' = r /\ rpos + k \in 0..Len(rbuf)
  BY <1>1, <1>2, <1>3, <1>6, Advance DEF view, SameTalk, buffered
<1>8. f \in Seq(Byte) /\ Len(f) = k /\ r \in Seq(Byte) /\ f \o r = buffered
  BY <1>5, <1>6, Split
<1>9. Unread = <<>> \o (buffered \o y) /\ Unread' = <<>> \o (r \o y)
  BY <1>1, <1>2, <1>7 DEF Unread, SameTalk
<1>10. y \in Seq(Byte)
  BY <1>5
<1> HIDE DEF f, r, y
<1>11. Unread = f \o (r \o y) /\ r \o y \in Seq(Byte) /\ Unread' = r \o y
  <2>1. Grouped(Byte, f, r, y)
    BY <1>8, <1>10, Regroup
  <2>2. r \o y \in Seq(Byte) /\ buffered \o y = f \o (r \o y)
    BY <1>8, <2>1 DEF Grouped
  <2>3. buffered \o y \in Seq(Byte)
    BY <1>5, <1>10, ConcatProperties
  <2>4. <<>> \o (buffered \o y) = buffered \o y /\ <<>> \o (r \o y) = r \o y
    BY <2>2, <2>3, ConcatEmptySeq
  <2> QED BY <1>9, <2>2, <2>4
<1> DEFINE x == r \o y
<1>12. SameCut(f, x, key, rest)
  <2>1. Len(f) = Len(key) /\ f \o x = key \o rest /\ x \in Seq(Byte)
    BY <1>4, <1>8, <1>11
  <2> HIDE DEF x
  <2> QED BY <1>3, <1>8, <2>1, CutsAgree
<1>13. view = key /\ Unread' = rest
  BY <1>7, <1>11, <1>12 DEF SameCut
<1>14. Bytes'
  BY <1>1, <1>2, <1>3, <1>7 DEF Bytes, SameTalk
<1> QED BY <1>1, <1>2, <1>13, <1>14, OnLineKeeps DEF key, rest

LEMMA ViewInScratchKeeps == ASSUME StreamInv, ViewInScratch PROVE StreamInv'
<1> DEFINE key == ThisAnswer[Len(delivered) + 1].key
           rest == LinesFrom(Len(delivered) + 2)
<1>1. /\ pc = "key" /\ Len(got) = wanted /\ got' = <<>> /\ OnLine(got) /\ Lines(left - 1)
      /\ UNCHANGED <<request, rbuf, rpos, line, stdin, stdout, side>>
  BY DEF ViewInScratch, Complete
<1>2. SameTalk /\ rpos' = rpos
  BY <1>1 DEF SameTalk, request, side
<1>3. Bytes /\ Answered /\ key \in Seq(Byte) /\ rest \in Seq(Byte)
  BY <1>1, AtLine
<1>4. Len(got) = Len(key) /\ Unread = key \o rest
  <2>1. Len(got) = line.klen
    BY <1>1 DEF wanted
  <2> QED BY <1>1, <1>3, <2>1, AtKey, Zenon
<1> HIDE DEF key, rest
<1>5. got = key /\ buffered \o (stdout \o reply) = rest
  BY <1>3, <1>4, Gathered
<1>6. Unread' = rest
  <2>1. Unread' = <<>> \o (buffered \o (stdout \o reply))
    BY <1>1, <1>2 DEF SameTalk, Unread, buffered
  <2>2. <<>> \o rest = rest
    BY <1>3, ConcatEmptySeq
  <2> QED BY <1>5, <2>1, <2>2
<1>7. Bytes'
  BY <1>1, <1>2, <1>3, EmptySeq DEF Bytes, SameTalk
<1> QED BY <1>1, <1>2, <1>5, <1>6, <1>7, OnLineKeeps DEF key, rest

-----------------------------------------------------------------------------
(* The steps of the coprocess.                                             *)

LEMMA SideKeeps ==
    ASSUME StreamInv, UNCHANGED <<pc, request, reading>>, ~over => Stream' PROVE StreamInv'
<1>1. UNCHANGED <<pc, content, asked, delivered>>
  BY DEF request, reading
<1> QED BY <1>1, SameTold DEF over

\* When the coprocess has the header of a request it knows how long the file is.
LEMMA HeardIs ==
    ASSUME Bytes, Asked, content \in DOMAIN Answer, Len(heard) >= Width
    PROVE  /\ get_u32le(First(Width, heard)) = Len(content)
           /\ Rest(Width, heard) \in Seq(Byte)
           /\ Len(Rest(Width, heard)) = Len(heard) - Width
           /\ stdin \o unsent \in Seq(Byte)
           /\ Rest(Width, heard) \o (stdin \o unsent) = content
<1> DEFINE f == First(Width, heard)
           r == Rest(Width, heard)
           x == stdin \o unsent
           p == put_u32le(Len(content))
<1>1. heard \in Seq(Byte) /\ Len(heard) \in Nat /\ x \in Seq(Byte)
  BY Streams, ConcatProperties
<1>2. Width \in 0..Len(heard)
  BY <1>1, WidthIs
<1>3. f \in Seq(Byte) /\ Len(f) = Width /\ r \in Seq(Byte) /\ f \o r = heard
      /\ Len(r) = Len(heard) - Width
  BY <1>1, <1>2, Split
<1>4. content \in Seq(Byte) /\ Len(content) \in Nat /\ Len(content) < Limit
  BY AnswerType
<1>5. p \in Seq(Byte) /\ Len(p) = Width /\ get_u32le(p) = Len(content)
  BY <1>4, PutType, GetPut
<1>6. heard \o x = p \o content
  BY DEF Asked, Unheard, ThisRequest
<1> HIDE DEF f, r, x, p
<1>7. Grouped(Byte, f, r, x)
  BY <1>1, <1>3, Regroup
<1>8. r \o x \in Seq(Byte) /\ f \o (r \o x) = p \o content
  BY <1>3, <1>6, <1>7 DEF Grouped
<1> DEFINE y == r \o x
<1>9. y \in Seq(Byte) /\ f \o y = p \o content
  BY <1>8
<1> HIDE DEF y
<1>10. SameCut(f, y, p, content)
  BY <1>3, <1>4, <1>5, <1>9, CutsAgree
<1>11. f = p /\ r \o x = content
  BY <1>10 DEF SameCut, y
<1> QED BY <1>1, <1>3, <1>5, <1>11 DEF f, r, x, p

\* A request is on its way while there is something to be heard.
LEMMA Asking ==
    ASSUME StreamInv, ~over, Unheard # <<>> \/ child = "content"
    PROVE  /\ Stream /\ Bytes /\ Asked /\ pc \in {"write", "header"}
           /\ content \in DOMAIN Answer
           /\ pc = "write" => unsent # <<>>
           /\ pc = "header" => unsent = <<>>
<1>1. Stream /\ Bytes
  BY StreamIs DEF StreamInv
<1>2. pc \in {"idle", "write", "header", "meta", "key"}
  BY DEF StreamInv, over
<1>3. ~Quiet /\ ~Answered
  BY DEF Quiet, Answered
<1>4. /\ pc \in {"write", "header"} /\ Asked
      /\ pc = "write" => unsent # <<>>
      /\ pc = "header" => unsent = <<>>
  BY <1>1, <1>2, <1>3 DEF Stream
<1>5. asked > 0
  BY <1>4 DEF StreamInv, over
<1> QED BY <1>1, <1>4, <1>5 DEF StreamInv

LEMMA HearKeeps == ASSUME StreamInv, Hear PROVE StreamInv'
<1>1. /\ child \in {"header", "content"} /\ Len(heard) < due
      /\ UNCHANGED <<pc, request, reading, stdout, child, reply>>
  BY DEF Hear
<1>2. PICK n \in 1..Smaller(Len(stdin), due - Len(heard)) :
         heard' = heard \o First(n, stdin) /\ stdin' = Rest(n, stdin)
  BY DEF Hear
<1> SUFFICES ASSUME ~over PROVE Stream'
  BY <1>1, SideKeeps
<1>3. Bytes
  BY StreamIs DEF StreamInv
<1>4. /\ heard \in Seq(Byte) /\ Len(heard) \in Nat /\ stdin \in Seq(Byte) /\ Len(stdin) \in Nat
      /\ unsent \in Seq(Byte)
  BY <1>3, Streams
<1>5. stdin # <<>> \/ child = "content"
  <2> SUFFICES ASSUME stdin = <<>>, child = "header" PROVE FALSE
    BY <1>1
  <2>1. Len(stdin) = 0
    BY EmptySeq
  <2>2. due = Width
    BY DEF due
  <2>3. Smaller(Len(stdin), due - Len(heard)) = 0
    BY <1>1, <1>4, <2>1, <2>2, WidthIs DEF Smaller
  <2> QED BY <1>2, <2>3
<1>6. /\ Stream /\ Asked /\ pc \in {"write", "header"} /\ content \in DOMAIN Answer
      /\ (pc = "write" => unsent # <<>>) /\ (pc = "header" => unsent = <<>>)
  <2>1. Unheard # <<>> \/ child = "content"
    BY <1>3, <1>5, UnheardEmpty
  <2> QED BY <2>1, Asking
<1>7. due \in Nat
  <2>1. CASE child = "header"
    BY <2>1, WidthIs DEF due
  <2>2. CASE child = "content"
    <3>1. get_u32le(First(Width, heard)) = Len(content) /\ Len(content) \in Nat
      BY <1>3, <1>6, <2>2, HeardIs, AnswerType DEF Asked
    <3> QED BY <2>2, <3>1, WidthIs DEF due
  <2> QED BY <1>1, <2>1, <2>2
<1>8. n \in 0..Len(stdin) /\ n <= due - Len(heard) /\ n \in Nat
  BY <1>2, <1>4, <1>7 DEF Smaller
<1>9. IsMoved(Byte, heard, stdin, unsent, n)
  BY <1>4, <1>8, Moved
<1>10. /\ heard' \in Seq(Byte) /\ stdin' \in Seq(Byte) /\ Len(heard') = Len(heard) + n
  <2>1. First(n, stdin) \in Seq(Byte) /\ Len(First(n, stdin)) = n /\ Rest(n, stdin) \in Seq(Byte)
    BY <1>4, <1>8, Split
  <2> QED BY <1>2, <1>4, <2>1, ConcatProperties
<1>11. /\ UNCHANGED <<pc, content, asked, unsent, rbuf, rpos, got, line, left, delivered, stdout,
                      child, reply>>
  BY <1>1 DEF request, reading
<1>12. Unheard' = Unheard /\ Unread' = Unread /\ ThisRequest' = ThisRequest
  BY <1>2, <1>9, <1>11 DEF IsMoved, Unheard, Unread, buffered, ThisRequest
<1>13. Asked'
  <2>1. child = "content" => Len(heard') >= Width
    BY <1>4, <1>6, <1>8, <1>10, WidthIs DEF Asked
  <2>2. child = "header" => Len(heard') <= Width
    BY <1>4, <1>8, <1>10, WidthIs DEF due
  <2> QED BY <1>6, <1>11, <1>12, <2>1, <2>2 DEF Asked
<1>14. Bytes'
  BY <1>3, <1>10, <1>11 DEF Bytes
<1>15. pc' = pc /\ unsent' = unsent
  BY <1>11
<1> QED BY <1>6, <1>13, <1>14, <1>15 DEF Stream, Bytes

LEMMA AnnouncedKeeps == ASSUME StreamInv, Announced PROVE StreamInv'
<1>1. /\ child = "header" /\ Len(heard) = due /\ child' = "content"
      /\ UNCHANGED <<pc, request, reading, stdin, stdout, heard, reply>>
  BY DEF Announced
<1> SUFFICES ASSUME ~over PROVE Stream'
  BY <1>1, SideKeeps
<1>2. Bytes
  BY StreamIs DEF StreamInv
<1>3. Len(heard) = Width
  BY <1>1 DEF due
<1>4. /\ Asked /\ pc \in {"write", "header"}
      /\ (pc = "write" => unsent # <<>>) /\ (pc = "header" => unsent = <<>>)
  <2>1. heard # <<>>
    BY <1>3, WidthIs, EmptySeq
  <2>2. Unheard # <<>>
    BY <1>2, <2>1, UnheardEmpty
  <2> QED BY <2>2, Asking
<1>5. UNCHANGED <<pc, content, asked, unsent, rbuf, rpos, got, line, left, delivered, stdin, stdout,
                  heard, reply>>
  BY <1>1 DEF request, reading
<1>6. Unheard' = Unheard /\ Unread' = Unread /\ ThisRequest' = ThisRequest
  BY <1>5 DEF Unheard, Unread, buffered, ThisRequest
<1>7. Asked'
  BY <1>1, <1>3, <1>4, <1>5, <1>6, WidthIs DEF Asked
<1>8. Bytes'
  BY <1>2, <1>5 DEF Bytes
<1>9. pc' = pc /\ unsent' = unsent
  BY <1>5
<1> QED BY <1>4, <1>7, <1>8, <1>9 DEF Stream, Bytes

LEMMA AnswersKeep == ASSUME StreamInv, Answers PROVE StreamInv'
<1>1. /\ child = "content" /\ Len(heard) = due /\ child' = "answer" /\ heard' = <<>>
      /\ reply' = Frame(Answer[Rest(Width, heard)])
      /\ UNCHANGED <<pc, request, reading, stdin, stdout>>
  BY DEF Answers
<1> SUFFICES ASSUME ~over PROVE Stream'
  BY <1>1, SideKeeps
<1>2. Stream /\ Bytes /\ Asked /\ pc \in {"write", "header"} /\ content \in DOMAIN Answer
  BY <1>1, Asking
<1>3. UNCHANGED <<pc, content, asked, unsent, rbuf, rpos, got, line, left, delivered, stdin, stdout>>
  BY <1>1 DEF request, reading
<1> DEFINE r == Rest(Width, heard)
           x == stdin \o unsent
<1>4. /\ get_u32le(First(Width, heard)) = Len(content)
      /\ r \in Seq(Byte) /\ Len(r) = Len(heard) - Width
      /\ x \in Seq(Byte) /\ r \o x = content
  BY <1>1, <1>2, HeardIs DEF Asked
<1>5. Len(content) \in Nat /\ Len(heard) = Len(content) + Width
  <2>1. due = get_u32le(First(Width, heard)) + Width
    BY <1>1 DEF due
  <2> QED BY <1>1, <1>2, <1>4, <2>1, AnswerType
<1> HIDE DEF r, x
<1>6. x = <<>> /\ r = content
  <2>1. Len(r) = Len(content)
    BY <1>4, <1>5, WidthIs
  <2>2. Len(content) = Len(r) + Len(x) /\ Len(x) \in Nat
    BY <1>4, ConcatProperties, LenProperties
  <2>3. Len(x) = 0
    BY <1>5, <2>1, <2>2
  <2>4. x = <<>>
    BY <1>4, <2>3, EmptySeq
  <2>5. r \o <<>> = r
    BY <1>4, ConcatEmptySeq
  <2> QED BY <1>4, <2>4, <2>5
<1>7. stdin = <<>> /\ unsent = <<>>
  <2>1. stdin \in Seq(Byte) /\ unsent \in Seq(Byte)
    BY <1>2, Streams
  <2> QED BY <1>6, <2>1, EmptyParts DEF x
<1>8. pc = "header"
  BY <1>2, <1>7 DEF Stream
<1>9. got = <<>> /\ buffered = <<>> /\ stdout = <<>> /\ delivered = <<>>
  BY <1>2, UnreadEmpty DEF Asked
<1>10. reply' = Frame(ThisAnswer)
  BY <1>1, <1>6 DEF r, ThisAnswer
<1>11. reply' \in Seq(Byte) /\ reply' # <<>>
  <2>1. /\ Len(ThisAnswer) \in Nat
        /\ Frame(ThisAnswer) = put_u32le(Len(ThisAnswer)) \o LinesFrom(1)
    BY <1>2, AnswerType, FromIs
  <2>2. 1 \in 1..(Len(ThisAnswer) + 1)
    BY <2>1
  <2>3. LinesFrom(1) \in Seq(Byte)
    BY <1>2, <2>2, FromIs
  <2>4. put_u32le(Len(ThisAnswer)) \in Seq(Byte) /\ Len(put_u32le(Len(ThisAnswer))) = Width
    BY <2>1, PutType
  <2>5. put_u32le(Len(ThisAnswer)) # <<>>
    BY <2>4, WidthIs, EmptySeq
  <2>6. put_u32le(Len(ThisAnswer)) \o LinesFrom(1) \in Seq(Byte)
    BY <2>3, <2>4, ConcatProperties
  <2>7. put_u32le(Len(ThisAnswer)) \o LinesFrom(1) # <<>>
    BY <2>3, <2>4, <2>5, EmptyParts
  <2> QED BY <1>10, <2>1, <2>6, <2>7
<1>12. <<>> \in Seq(Byte)
  BY EmptySeq
<1>13. Bytes'
  BY <1>1, <1>2, <1>3, <1>11, <1>12 DEF Bytes
<1>14. Unheard' = <<>>
  <2>1. Unheard' = <<>> \o (<<>> \o <<>>)
    BY <1>1, <1>3, <1>7 DEF Unheard
  <2>2. <<>> \o <<>> = <<>>
    BY <1>12, ConcatEmptySeq
  <2> QED BY <2>1, <2>2
<1>15. Unread' = Frame(ThisAnswer)
  <2>1. Unread' = <<>> \o (<<>> \o (<<>> \o reply'))
    BY <1>3, <1>9 DEF Unread, buffered
  <2>2. <<>> \o reply' = reply'
    BY <1>11, ConcatEmptySeq
  <2> QED BY <1>10, <2>1, <2>2
<1>16. Answered'
  <2>1. ThisAnswer' = ThisAnswer
    BY <1>3 DEF ThisAnswer
  <2>2. pc' = "header" /\ delivered' = <<>>
    BY <1>3, <1>8, <1>9
  <2>3. Unread' = Frame(ThisAnswer)'
    BY <1>15, <2>1 DEF Frame
  <2> QED BY <1>1, <1>11, <1>14, <2>2, <2>3 DEF Answered
<1> QED BY <1>3, <1>8, <1>13, <1>16 DEF Stream, Bytes

LEMMA SpeakKeeps == ASSUME StreamInv, Speak PROVE StreamInv'
<1>1. child = "answer" /\ UNCHANGED <<pc, request, reading, stdin, heard>>
  BY DEF Speak
<1> SUFFICES ASSUME ~over PROVE Stream'
  BY <1>1, SideKeeps
<1>2. PICK n \in 1..Smaller(Len(reply), PipeSize - Len(stdout)) :
         /\ stdout' = stdout \o First(n, reply) /\ reply' = Rest(n, reply)
         /\ child' = IF n = Len(reply) THEN "header" ELSE "answer"
  BY DEF Speak
<1>3. Stream /\ Bytes /\ asked \in Nat
  BY StreamIs DEF StreamInv
<1>4. Answered /\ pc \in {"header", "meta", "key"}
  <2>1. ~Quiet /\ ~Asked
    BY <1>1 DEF Quiet, Asked
  <2>2. pc \in {"idle", "write", "header", "meta", "key"}
    BY DEF StreamInv, over
  <2> QED BY <1>3, <2>1, <2>2 DEF Stream
<1>5. /\ stdout \in Seq(Byte) /\ Len(stdout) \in Nat /\ reply \in Seq(Byte) /\ Len(reply) \in Nat
      /\ got \in Seq(Byte) /\ buffered \in Seq(Byte)
  BY <1>3, Streams
<1>6. n \in 0..Len(reply)
  BY <1>2, <1>5, PipeAssumption DEF Smaller
<1>7. /\ First(n, reply) \in Seq(Byte) /\ reply' \in Seq(Byte) /\ Len(reply') = Len(reply) - n
      /\ First(n, reply) \o reply' = reply
  BY <1>2, <1>5, <1>6, Split
<1>8. stdout' \in Seq(Byte) /\ stdout' \o reply' = stdout \o reply
  <2>1. Grouped(Byte, stdout, First(n, reply), reply')
    BY <1>5, <1>7, Regroup
  <2> QED BY <1>2, <1>7, <2>1 DEF Grouped
<1>9. UNCHANGED <<pc, content, asked, unsent, rbuf, rpos, got, line, left, delivered, stdin, heard>>
  BY <1>1 DEF request, reading
<1>10. Unread' = Unread /\ Unheard' = Unheard /\ ThisAnswer' = ThisAnswer
  BY <1>8, <1>9 DEF Unread, Unheard, buffered, ThisAnswer
<1>11. \A k : LinesFrom(k)' = LinesFrom(k)
  BY <1>10 DEF LinesFrom, Frames
<1>12. n # Len(reply) => reply' # <<>>
  BY <1>5, <1>6, <1>7, EmptySeq
<1>13. Answered'
  BY <1>2, <1>4, <1>9, <1>10, <1>11, <1>12 DEF Answered
<1>14. Bytes'
  BY <1>3, <1>7, <1>8, <1>9 DEF Bytes
<1> QED BY <1>4, <1>9, <1>13, <1>14 DEF Stream, Bytes

LEMMA ChildGoneKeeps == ASSUME StreamInv, ChildEnds \/ ChildDies PROVE StreamInv'
<1>1. child' = "gone" /\ UNCHANGED <<pc, request, reading, stdin, stdout, heard, reply>>
  BY DEF ChildEnds, ChildDies
<1> SUFFICES ASSUME ~over PROVE Stream'
  BY <1>1, SideKeeps
<1>2. Stream
  BY DEF StreamInv
<1>3. UNCHANGED <<pc, content, asked, unsent, rbuf, rpos, got, line, left, delivered, stdin, stdout,
                  heard, reply>>
  BY <1>1 DEF request, reading
<1>4. Unread' = Unread /\ Unheard' = Unheard /\ ThisAnswer' = ThisAnswer
      /\ ThisRequest' = ThisRequest
  BY <1>3 DEF Unread, Unheard, buffered, ThisAnswer, ThisRequest
<1>5. \A k : LinesFrom(k)' = LinesFrom(k)
  BY <1>4 DEF LinesFrom, Frames
<1>6. (Asked => Asked') /\ (Answered => Answered') /\ (Quiet => Quiet')
  BY <1>1, <1>3, <1>4, <1>5 DEF Asked, Answered, Quiet
<1> QED BY <1>2, <1>3, <1>4, <1>6 DEF Stream

LEMMA ExchangeStep == StreamInv /\ [ExchangeNext]_exchangeVars => StreamInv'
<1> SUFFICES ASSUME StreamInv, [ExchangeNext]_exchangeVars PROVE StreamInv'
  OBVIOUS
<1>1. CASE Tool
  BY <1>1, RequestKeeps, WriteSomeKeeps, EndsKeep, FillKeeps, GatherKeeps, HeaderKeeps, MetaKeeps,
     ViewInBufferKeeps, ViewInScratchKeeps DEF Tool
<1>2. CASE Child
  BY <1>2, HearKeeps, AnnouncedKeeps, AnswersKeep, SpeakKeeps, ChildGoneKeeps DEF Child
<1>3. CASE ChildDies
  BY <1>3, ChildGoneKeeps
<1>4. CASE UNCHANGED exchangeVars
  <2>1. UNCHANGED <<pc, request, reading, stdin, stdout, side>>
    BY <1>4 DEF exchangeVars
  <2>2. UNCHANGED <<pc, content, asked, unsent, rbuf, rpos, got, line, left, delivered, stdin,
                    stdout, child, heard, reply>>
    BY <2>1 DEF request, reading, side
  <2>3. Unread' = Unread
    BY <2>2 DEF Unread, buffered
  <2>4. CASE over
    BY <2>2, <2>4, OverKeeps DEF over
  <2>5. CASE ~over
    <3>1. Stream /\ Bytes
      BY <2>5, StreamIs DEF StreamInv
    <3>2. Bytes'
      BY <2>2, <3>1 DEF Bytes
    <3> QED BY <2>1, <2>2, <2>3, <2>5, <3>1, <3>2, TakesIn
  <2> QED BY <2>4, <2>5
<1> QED BY <1>1, <1>2, <1>3, <1>4 DEF ExchangeNext

LEMMA ExchangeInvariant == ExchangeSpec => []StreamInv
BY ExchangeStart, ExchangeStep, PTL DEF ExchangeSpec

\* on_line gets the lines of this file's answer, in order and whole, all of them when
\* the file is done, wherever reads cut the bytes.
THEOREM KeysAreAnswers == ExchangeSpec => []KeysAreTheAnswers
<1>1. StreamInv => KeysAreTheAnswers
  <2> SUFFICES ASSUME StreamInv, asked > 0
               PROVE  /\ IsPrefix(delivered, Answer[content])
                      /\ pc = "idle" => delivered = Answer[content]
    BY DEF KeysAreTheAnswers
  <2>1. content \in DOMAIN Answer /\ delivered \in Seq(NormLine) /\ Told
    BY DEF StreamInv
  <2>2. SubSeq(delivered, 1, Len(delivered)) = delivered
    BY <2>1, SubSeqFull
  <2>3. IsPrefix(delivered, Answer[content])
    BY <2>1, <2>2 DEF IsPrefix, Told, ThisAnswer
  <2>4. pc = "idle" => delivered = Answer[content]
    BY DEF StreamInv, Stream, over, ThisAnswer
  <2> QED BY <2>3, <2>4
<1> QED BY <1>1, ExchangeInvariant, PTL

\* Between two requests nothing is left in the buffer or the pipes.
THEOREM NothingIsLeftOver == ExchangeSpec => []NothingLeftOver
<1>1. StreamInv => NothingLeftOver
  <2> SUFFICES ASSUME StreamInv, pc = "idle"
               PROVE  /\ avail = 0 /\ got = <<>> /\ stdin = <<>> /\ stdout = <<>>
                      /\ child \in {"header", "gone"} /\ (child = "header" => heard = <<>>)
    BY DEF NothingLeftOver
  <2>1. Stream /\ Bytes /\ Quiet
    BY StreamIs DEF StreamInv, over, Stream
  <2>2. got = <<>> /\ stdout = <<>> /\ buffered = <<>> /\ stdin = <<>> /\ heard = <<>>
    BY <2>1, UnreadEmpty, UnheardEmpty DEF Quiet
  <2>3. avail = 0
    BY <2>1, <2>2, Streams, EmptySeq
  <2> QED BY <2>1, <2>2, <2>3 DEF Quiet
<1> QED BY <1>1, ExchangeInvariant, PTL

-----------------------------------------------------------------------------
(* Sorting.                                                                *)

\* A strict order that compares any two members of S.
Compares(R, S) ==
    /\ \A x \in S : <<x, x>> \notin R
    /\ \A x, y \in S : x = y \/ <<x, y>> \in R \/ <<y, x>> \in R
    /\ \A x, y, z \in S : <<x, y>> \in R /\ <<y, z>> \in R => <<x, z>> \in R

UpToIn(R, S, x) == {y \in S : <<y, x>> \in R \/ y = x}

\* Each place of a finite set is that of just one member.
LEMMA Places ==
    ASSUME NEW S, IsFiniteSet(S), NEW R, Compares(R, S)
    PROVE  /\ \A x, y \in S : <<x, y>> \in R =>
                 Cardinality(UpToIn(R, S, x)) < Cardinality(UpToIn(R, S, y))
           /\ \A x \in S : Cardinality(UpToIn(R, S, x)) \in 1..Cardinality(S)
           /\ \A n \in 1..Cardinality(S) : \E x \in S :
                 /\ Cardinality(UpToIn(R, S, x)) = n
                 /\ \A y \in S : Cardinality(UpToIn(R, S, y)) = n => y = x
<1> DEFINE P(x) == Cardinality(UpToIn(R, S, x))
           f == [x \in S |-> P(x)]
<1>1. ASSUME NEW x \in S
      PROVE  /\ UpToIn(R, S, x) \in SUBSET S /\ x \in UpToIn(R, S, x)
             /\ IsFiniteSet(UpToIn(R, S, x)) /\ P(x) \in 1..Cardinality(S)
  <2>1. UpToIn(R, S, x) \in SUBSET S /\ x \in UpToIn(R, S, x)
    BY DEF UpToIn
  <2>2. IsFiniteSet(UpToIn(R, S, x)) /\ P(x) <= Cardinality(S)
    BY <2>1, FS_Subset
  <2>3. P(x) \in Nat /\ Cardinality(S) \in Nat /\ P(x) # 0
    BY <2>1, <2>2, FS_CardinalityType, FS_EmptySet
  <2> QED BY <2>1, <2>2, <2>3
<1>2. ASSUME NEW x \in S, NEW y \in S, <<x, y>> \in R PROVE P(x) < P(y)
  <2>1. UpToIn(R, S, x) \in SUBSET UpToIn(R, S, y)
    BY <1>2 DEF UpToIn, Compares
  <2>2. y \notin UpToIn(R, S, x)
    <3>1. <<y, x>> \notin R /\ y # x
      BY <1>2 DEF Compares
    <3> QED BY <3>1 DEF UpToIn
  <2>3. UpToIn(R, S, x) # UpToIn(R, S, y)
    BY <1>1, <2>2
  <2>4. P(x) <= P(y) /\ P(x) # P(y)
    BY <1>1, <2>1, <2>3, FS_Subset
  <2> QED BY <1>1, <2>4
<1>3. ASSUME NEW x \in S, NEW y \in S, P(x) = P(y) PROVE x = y
  <2>1. ~(P(x) < P(y)) /\ ~(P(y) < P(x))
    BY <1>1, <1>3
  <2> QED BY <1>2, <2>1 DEF Compares
<1>4. Cardinality(S) \in Nat /\ IsFiniteSet(1..Cardinality(S))
      /\ Cardinality(1..Cardinality(S)) = Cardinality(S)
  <2>1. Cardinality(S) \in Nat
    BY FS_CardinalityType
  <2> QED BY <2>1, FS_Interval
<1>5. f \in Injection(S, 1..Cardinality(S))
  BY <1>1, <1>3 DEF Injection, IsInjective
<1>6. f \in Surjection(S, 1..Cardinality(S))
  BY <1>4, <1>5, FS_Injection
<1>7. \A n \in 1..Cardinality(S) : \E x \in S : P(x) = n
  BY <1>6 DEF Surjection
<1> HIDE DEF P
<1>8. \A n \in 1..Cardinality(S) : \E x \in S :
         P(x) = n /\ \A y \in S : P(y) = n => y = x
  BY <1>3, <1>7
<1> QED BY <1>1, <1>2, <1>8 DEF P

Rising(s) == \A m, n \in DOMAIN s : m < n => s[m] < s[n]

\* Ascending(S) has the members of S, each once, from the least.
LEMMA AscendingIs ==
    ASSUME NEW S \in SUBSET Nat, IsFiniteSet(S)
    PROVE  /\ Ascending(S) \in Seq(S) /\ Len(Ascending(S)) = Cardinality(S)
           /\ Cardinality(S) \in Nat
           /\ Rising(Ascending(S))
           /\ \A x \in S : \E n \in 1..Cardinality(S) : Ascending(S)[n] = x
           /\ \A n \in 1..Cardinality(S) : Cardinality({y \in S : y <= Ascending(S)[n]}) = n
<1> DEFINE R == {p \in S \X S : p[1] < p[2]}
           P(x) == Cardinality({y \in S : y <= x})
           s == [n \in 1..Cardinality(S) |-> CHOOSE x \in S : P(x) = n]
<1>1. Compares(R, S)
  BY DEF Compares
<1>a. \A x, y \in S : <<x, y>> \in R <=> x < y
  OBVIOUS
<1>2. \A x \in S : UpToIn(R, S, x) = {y \in S : y <= x}
  <2> HIDE DEF R
  <2>1. \A x, y \in S : y <= x <=> y < x \/ y = x
    OBVIOUS
  <2>2. \A x, y \in S : y <= x <=> <<y, x>> \in R \/ y = x
    BY <1>a, <2>1
  <2> QED BY <2>2, Zenon DEF UpToIn
<1>3. Cardinality(S) \in Nat
  BY FS_CardinalityType
<1>4. /\ \A x, y \in S : <<x, y>> \in R =>
                 Cardinality(UpToIn(R, S, x)) < Cardinality(UpToIn(R, S, y))
      /\ \A x \in S : Cardinality(UpToIn(R, S, x)) \in 1..Cardinality(S)
      /\ \A n \in 1..Cardinality(S) : \E x \in S :
                 /\ Cardinality(UpToIn(R, S, x)) = n
                 /\ \A y \in S : Cardinality(UpToIn(R, S, y)) = n => y = x
  <2> HIDE DEF R
  <2> QED BY <1>1, Places
<1>5. /\ \A x, y \in S : x < y => P(x) < P(y)
      /\ \A x \in S : P(x) \in 1..Cardinality(S)
      /\ \A n \in 1..Cardinality(S) : \E x \in S : P(x) = n /\ \A y \in S : P(y) = n => y = x
  <2>1. \A x \in S : P(x) = Cardinality(UpToIn(R, S, x))
    BY <1>2
  <2>2. ASSUME NEW x \in S, NEW y \in S, x < y PROVE P(x) < P(y)
    <3>1. <<x, y>> \in R
      BY <1>a, <2>2
    <3>2. Cardinality(UpToIn(R, S, x)) < Cardinality(UpToIn(R, S, y))
      BY <1>4, <3>1
    <3> QED BY <2>1, <3>2
  <2>3. \A x \in S : P(x) \in 1..Cardinality(S)
    <3> HIDE DEF P, R
    <3> QED BY <1>4, <2>1
  <2>4. \A n \in 1..Cardinality(S) : \E x \in S : P(x) = n /\ \A y \in S : P(y) = n => y = x
    <3> HIDE DEF P, R
    <3> QED BY <1>4, <2>1
  <2> HIDE DEF P
  <2> QED BY <2>2, <2>3, <2>4
<1>6. Ascending(S) = s
  BY DEF Ascending
<1> HIDE DEF P
<1>7. \A n \in 1..Cardinality(S) : s[n] \in S /\ P(s[n]) = n
  BY <1>5
<1>8. \A x \in S : \E n \in 1..Cardinality(S) : s[n] = x
  BY <1>5, <1>7
<1>9. s \in Seq(S) /\ Len(s) = Cardinality(S) /\ DOMAIN s = 1..Cardinality(S)
  <2>1. s \in [1..Cardinality(S) -> S]
    BY <1>7
  <2> HIDE DEF s
  <2> QED BY <1>3, <2>1, FunctionIsSeq
<1> HIDE DEF s
<1>10. ASSUME NEW m \in DOMAIN s, NEW n \in DOMAIN s, m < n PROVE s[m] < s[n]
  <2>1. P(s[m]) = m /\ P(s[n]) = n /\ s[m] \in S /\ s[n] \in S
    BY <1>7, <1>9
  <2>0. m \in Nat /\ n \in Nat
    BY <1>3, <1>9
  <2>2. ~(s[n] < s[m])
    <3>1. s[n] < s[m] => P(s[n]) < P(s[m])
      BY <1>5, <2>1
    <3>2. ~(n < m)
      BY <1>10, <2>0
    <3> QED BY <2>1, <3>1, <3>2
  <2>3. s[m] # s[n]
    BY <1>10, <2>0, <2>1
  <2>4. s[m] \in Nat /\ s[n] \in Nat
    BY <2>1
  <2> QED BY <2>2, <2>3, <2>4
<1>11. Rising(s)
  BY <1>10 DEF Rising
<1> QED BY <1>3, <1>6, <1>7, <1>8, <1>9, <1>11 DEF P

-----------------------------------------------------------------------------
(* Lists of postings.                                                      *)

Posting == Nat \X Nat

\* A list of postings is a sequence of pairs of numbers.
LEMMA PostingsAre == Postings = Seq(Posting)
BY DEF Postings, Posting

InOrder(s) == \A m, n \in DOMAIN s : m < n => Before(s[m], s[n])
Distinct(s) == \A m, n \in DOMAIN s : s[m] = s[n] => m = n
Same(s, t) == /\ \A m \in DOMAIN s : \E n \in DOMAIN t : s[m] = t[n]
              /\ \A n \in DOMAIN t : \E m \in DOMAIN s : s[m] = t[n]

\* Any two postings can be compared.
LEMMA BeforeOrders ==
    /\ \A p \in Posting : ~Before(p, p)
    /\ \A p, q \in Posting : p = q \/ Before(p, q) \/ Before(q, p)
    /\ \A p, q, r \in Posting : Before(p, q) /\ Before(q, r) => Before(p, r)
BY DEF Before, Posting

\* Two lists in order that have the same postings are equal.
LEMMA OrderedEqual ==
    ASSUME NEW s \in Seq(Posting), NEW t \in Seq(Posting), InOrder(s), InOrder(t), Same(s, t)
    PROVE  s = t
<1>1. /\ Len(s) \in Nat /\ DOMAIN s = 1..Len(s) /\ \A n \in 1..Len(s) : s[n] \in Posting
      /\ Len(t) \in Nat /\ DOMAIN t = 1..Len(t) /\ \A n \in 1..Len(t) : t[n] \in Posting
  BY LenProperties, ElementOfSeq
<1> DEFINE Bad == {n \in Nat \ {0} : /\ n <= Len(s) \/ n <= Len(t)
                                     /\ ~(n <= Len(s) /\ n <= Len(t) /\ s[n] = t[n])}
<1>2. Bad = {}
  <2> SUFFICES ASSUME Bad # {} PROVE FALSE
    OBVIOUS
  <2>1. Bad \in SUBSET Nat
    OBVIOUS
  <2>2. \E x \in Bad : \A y \in Bad : x <= y
    <3> HIDE DEF Bad
    <3> QED BY <2>1, Least
  <2>3. PICK x \in Bad : \A y \in Bad : x <= y
    BY <2>2
  <2>4. \A y \in Nat \ {0} : y < x /\ (y <= Len(s) \/ y <= Len(t)) =>
            y <= Len(s) /\ y <= Len(t) /\ s[y] = t[y]
    BY <2>3
  <2>5. x \in Nat \ {0}
    OBVIOUS
  <2>a. /\ \A n \in 1..Len(s) : \E m \in 1..Len(t) : s[n] = t[m]
        /\ \A n \in 1..Len(t) : \E m \in 1..Len(s) : s[m] = t[n]
    BY <1>1 DEF Same
  <2>b. /\ \A m, n \in 1..Len(s) : m < n => Before(s[m], s[n])
        /\ \A m, n \in 1..Len(t) : m < n => Before(t[m], t[n])
    BY <1>1 DEF InOrder
  <2> HIDE DEF Bad
  <2>6. CASE x <= Len(s)
    <3>1. PICK n \in 1..Len(t) : s[x] = t[n]
      BY <1>1, <2>5, <2>6, <2>a
    <3>2. ~(n < x)
      <4> SUFFICES ASSUME n < x PROVE FALSE
        OBVIOUS
      <4>1. n <= Len(s) /\ s[n] = t[n]
        BY <1>1, <2>4, <2>5, <3>1
      <4>2. Before(s[n], s[x]) /\ s[n] = s[x] /\ s[x] \in Posting
        BY <1>1, <2>5, <2>6, <3>1, <4>1, <2>b
      <4> QED BY <4>2, BeforeOrders
    <3>3. n # x
      BY <1>1, <2>3, <2>6, <3>1 DEF Bad
    <3>4. n > x /\ x <= Len(t)
      BY <1>1, <2>5, <3>1, <3>2, <3>3
    <3>5. Before(t[x], s[x])
      BY <1>1, <2>5, <3>1, <3>4, <2>b
    <3>6. PICK m \in 1..Len(s) : s[m] = t[x]
      BY <1>1, <2>5, <3>4, <2>a
    <3>7. ~(m < x)
      <4> SUFFICES ASSUME m < x PROVE FALSE
        OBVIOUS
      <4>1. m <= Len(t) /\ s[m] = t[m]
        BY <1>1, <2>4, <2>5, <3>6
      <4>2. m \in 1..Len(t) /\ x \in 1..Len(t) /\ m < x
        BY <1>1, <2>5, <3>4, <4>1
      <4>3. Before(t[m], t[x])
        BY <2>b, <4>2
      <4>4. t[m] = t[x] /\ t[x] \in Posting
        BY <1>1, <3>6, <4>1, <4>2
      <4> QED BY <4>3, <4>4, BeforeOrders
    <3>8. m = x \/ Before(s[x], s[m])
      BY <1>1, <2>5, <2>6, <3>6, <3>7, <2>b
    <3>9. s[x] \in Posting /\ t[x] \in Posting
      BY <1>1, <2>5, <2>6, <3>4
    <3> QED BY <3>5, <3>6, <3>8, <3>9, BeforeOrders
  <2>7. CASE ~(x <= Len(s))
    <3>1. x <= Len(t)
      BY <2>3, <2>7 DEF Bad
    <3>2. PICK m \in 1..Len(s) : s[m] = t[x]
      BY <1>1, <2>5, <3>1, <2>a
    <3>3. m < x /\ m <= Len(t) /\ s[m] = t[m]
      BY <1>1, <2>4, <2>5, <2>7, <3>2
    <3>4. m \in 1..Len(t) /\ x \in 1..Len(t)
      BY <1>1, <2>5, <3>1, <3>3
    <3>5. Before(t[m], t[x])
      BY <2>b, <3>3, <3>4
    <3>6. t[m] = t[x] /\ t[x] \in Posting
      BY <1>1, <3>2, <3>3, <3>4
    <3> QED BY <3>5, <3>6, BeforeOrders
  <2> QED BY <2>6, <2>7
<1>3. Len(s) = Len(t)
  <2>1. CASE Len(s) < Len(t)
    <3>1. Len(t) \in Bad
      BY <1>1, <2>1
    <3> QED BY <1>2, <3>1
  <2>2. CASE Len(t) < Len(s)
    <3>1. Len(s) \in Bad
      BY <1>1, <2>2
    <3> QED BY <1>2, <3>1
  <2>3. Len(s) \in Int /\ Len(t) \in Int
    BY <1>1
  <2> HIDE DEF Bad
  <2> QED BY <2>1, <2>2, <2>3
<1>4. \A n \in 1..Len(s) : s[n] = t[n]
  <2>1. ASSUME NEW n \in 1..Len(s), s[n] # t[n] PROVE FALSE
    <3>1. n \in Bad
      BY <1>1, <2>1
    <3> QED BY <1>2, <3>1
  <2> QED BY <2>1
<1> QED BY <1>3, <1>4, SeqEqual

\* Sorting postings that are all different.
LEMMA SortedIs ==
    ASSUME NEW ps \in Seq(Posting), Distinct(ps)
    PROVE  Sorted(ps) \in Seq(Posting) /\ InOrder(Sorted(ps)) /\ Same(Sorted(ps), ps)
<1> DEFINE D == DOMAIN ps
           R == {p \in D \X D : Before(ps[p[1]], ps[p[2]])}
           q == [n \in D |-> CHOOSE i \in D : Place(ps, i) = n]
           s == [n \in D |-> ps[CHOOSE i \in D : Place(ps, i) = n]]
<1>1. Len(ps) \in Nat /\ D = 1..Len(ps) /\ \A n \in D : ps[n] \in Posting
  BY LenProperties, ElementOfSeq
<1>2. IsFiniteSet(D) /\ Cardinality(D) = Len(ps)
  BY <1>1, FS_Interval
<1>3. Compares(R, D)
  <2>1. \A x \in D : <<x, x>> \notin R
    BY <1>1, BeforeOrders
  <2>2. \A x, y \in D : x = y \/ <<x, y>> \in R \/ <<y, x>> \in R
    BY <1>1, BeforeOrders DEF Distinct
  <2>3. \A x, y, z \in D : <<x, y>> \in R /\ <<y, z>> \in R => <<x, z>> \in R
    BY <1>1, BeforeOrders
  <2> QED BY <2>1, <2>2, <2>3 DEF Compares
<1>4. \A i \in D : UpToIn(R, D, i) = {j \in D : Before(ps[j], ps[i]) \/ (ps[j] = ps[i] /\ j <= i)}
  BY <1>1 DEF UpToIn, Distinct
<1>5. \A i \in D : Place(ps, i) = Cardinality(UpToIn(R, D, i))
  BY <1>4 DEF Place
<1>6. /\ \A x, y \in D : <<x, y>> \in R =>
                 Cardinality(UpToIn(R, D, x)) < Cardinality(UpToIn(R, D, y))
      /\ \A x \in D : Cardinality(UpToIn(R, D, x)) \in 1..Cardinality(D)
      /\ \A n \in 1..Cardinality(D) : \E x \in D :
                 /\ Cardinality(UpToIn(R, D, x)) = n
                 /\ \A y \in D : Cardinality(UpToIn(R, D, y)) = n => y = x
  <2> HIDE DEF R, D
  <2> QED BY <1>2, <1>3, Places
<1>7. /\ \A i, j \in D : Before(ps[i], ps[j]) => Place(ps, i) < Place(ps, j)
      /\ \A i \in D : Place(ps, i) \in D
      /\ \A n \in D : \E i \in D : Place(ps, i) = n
  <2>1. \A i, j \in D : Before(ps[i], ps[j]) => <<i, j>> \in R
    OBVIOUS
  <2>2. 1..Cardinality(D) = D
    BY <1>1, <1>2
  <2>3. \A i, j \in D : Before(ps[i], ps[j]) => Place(ps, i) < Place(ps, j)
    <3> HIDE DEF R, D
    <3> QED BY <1>5, <1>6, <2>1
  <2>4. \A i \in D : Place(ps, i) \in D
    <3> HIDE DEF R, D
    <3> QED BY <1>5, <1>6, <2>2
  <2>5. \A n \in D : \E i \in D : Place(ps, i) = n
    <3> HIDE DEF R, D
    <3> QED BY <1>5, <1>6, <2>2
  <2> QED BY <2>3, <2>4, <2>5
<1>8. \A n \in D : q[n] \in D /\ Place(ps, q[n]) = n
  BY <1>7
<1>9. \A i \in D : \E n \in D : q[n] = i
  <2>1. ASSUME NEW i \in D PROVE q[Place(ps, i)] = i
    <3>1. Place(ps, i) \in D /\ q[Place(ps, i)] \in D
          /\ Place(ps, q[Place(ps, i)]) = Place(ps, i)
      BY <1>7, <1>8
    <3>2. \A j \in D : Place(ps, j) = Place(ps, i) => i = j
      <4>1. 1..Cardinality(D) = D
        BY <1>1, <1>2
      <4> HIDE DEF R, D, q
      <4> QED BY <1>5, <1>6, <3>1, <4>1
    <3> QED BY <3>1, <3>2
  <2> QED BY <1>7, <2>1
<1>10. \A n \in D : s[n] = ps[q[n]]
  OBVIOUS
<1>11. Sorted(ps) = s /\ DOMAIN s = D
  BY DEF Sorted
<1> HIDE DEF q, s, R
<1>12. s \in Seq(Posting)
  <2>1. s \in [1..Len(ps) -> Posting]
    <3>1. \A n \in D : s[n] \in Posting
      BY <1>1, <1>8, <1>10
    <3> QED BY <1>1, <1>11, <3>1 DEF s
  <2> QED BY <1>1, <2>1, FunctionIsSeq
<1>13. ASSUME NEW m \in D, NEW n \in D, m < n PROVE Before(s[m], s[n])
  <2>1. q[m] \in D /\ q[n] \in D /\ Place(ps, q[m]) = m /\ Place(ps, q[n]) = n
    BY <1>8
  <2>2. ~Before(ps[q[n]], ps[q[m]])
    <3>1. ~(n < m)
      BY <1>1, <1>13
    <3> QED BY <1>7, <2>1, <3>1
  <2>3. ps[q[m]] # ps[q[n]]
    <3>1. q[m] # q[n]
      BY <1>1, <1>13, <2>1
    <3> QED BY <2>1, <3>1 DEF Distinct
  <2>4. ps[q[m]] \in Posting /\ ps[q[n]] \in Posting
    BY <1>1, <2>1
  <2>5. Before(ps[q[m]], ps[q[n]])
    BY <2>2, <2>3, <2>4, BeforeOrders
  <2> QED BY <1>10, <2>5
<1>14. InOrder(s)
  BY <1>11, <1>13 DEF InOrder
<1>15. Same(s, ps)
  <2>1. \A n \in D : \E i \in D : s[n] = ps[i]
    BY <1>8, <1>10
  <2>2. \A i \in D : \E n \in D : s[n] = ps[i]
    BY <1>9, <1>10
  <2> QED BY <1>11, <2>1, <2>2 DEF Same
<1> QED BY <1>11, <1>12, <1>14, <1>15

\* The members of a list.
LEMMA RangeIs ==
    ASSUME NEW S, NEW s \in Seq(S)
    PROVE  /\ Range(s) \in SUBSET S
           /\ \A x : x \in Range(s) <=> \E n \in 1..Len(s) : s[n] = x
<1>1. DOMAIN s = 1..Len(s) /\ \A n \in 1..Len(s) : s[n] \in S
  BY LenProperties, ElementOfSeq
<1> QED BY <1>1 DEF Range

\* Lists with the same members, each of them once, have the same length.
LEMMA SameIs ==
    ASSUME NEW s \in Seq(Posting), NEW t \in Seq(Posting)
    PROVE  Same(s, t) <=> Range(s) = Range(t)
<1>1. DOMAIN s = 1..Len(s) /\ DOMAIN t = 1..Len(t)
  BY LenProperties
<1>2. /\ \A x : x \in Range(s) <=> \E n \in 1..Len(s) : s[n] = x
      /\ \A x : x \in Range(t) <=> \E n \in 1..Len(t) : t[n] = x
  BY RangeIs
<1>3. ASSUME Same(s, t) PROVE Range(s) = Range(t)
  <2>1. \A x : x \in Range(s) => x \in Range(t)
    BY <1>1, <1>2, <1>3 DEF Same
  <2>2. \A x : x \in Range(t) => x \in Range(s)
    BY <1>1, <1>2, <1>3 DEF Same
  <2> QED BY <2>1, <2>2
<1>4. ASSUME Range(s) = Range(t) PROVE Same(s, t)
  <2>1. \A m \in 1..Len(s) : \E n \in 1..Len(t) : s[m] = t[n]
    <3> TAKE m \in 1..Len(s)
    <3>1. s[m] \in Range(t)
      BY <1>2, <1>4
    <3> QED BY <1>2, <3>1
  <2>2. \A n \in 1..Len(t) : \E m \in 1..Len(s) : s[m] = t[n]
    <3> TAKE n \in 1..Len(t)
    <3>1. t[n] \in Range(s)
      BY <1>2, <1>4
    <3> QED BY <1>2, <3>1
  <2> QED BY <1>1, <2>1, <2>2 DEF Same
<1> QED BY <1>3, <1>4

\* A sorted list has nothing twice.
LEMMA OrderedDistinct ==
    ASSUME NEW s \in Seq(Posting), InOrder(s) PROVE Distinct(s)
<1>1. DOMAIN s = 1..Len(s) /\ Len(s) \in Nat /\ \A n \in 1..Len(s) : s[n] \in Posting
  BY LenProperties, ElementOfSeq
<1> SUFFICES ASSUME NEW m \in 1..Len(s), NEW n \in 1..Len(s), s[m] = s[n], m # n PROVE FALSE
  BY <1>1 DEF Distinct
<1>2. m < n \/ n < m
  BY <1>1
<1>3. Before(s[m], s[n]) \/ Before(s[n], s[m])
  BY <1>1, <1>2 DEF InOrder
<1> QED BY <1>1, <1>3, BeforeOrders

\* Of two lists without a common member.
LEMMA JoinDistinct ==
    ASSUME NEW s \in Seq(Posting), NEW t \in Seq(Posting), Distinct(s), Distinct(t),
           \A p \in Range(s) : p \notin Range(t)
    PROVE  Distinct(s \o t)
<1>1. /\ DOMAIN s = 1..Len(s) /\ Len(s) \in Nat /\ DOMAIN t = 1..Len(t) /\ Len(t) \in Nat
  BY LenProperties
<1>2. /\ \A n \in 1..Len(s) : s[n] \in Range(s)
      /\ \A n \in 1..Len(t) : t[n] \in Range(t)
  BY RangeIs
<1>3. /\ s \o t \in Seq(Posting) /\ Len(s \o t) = Len(s) + Len(t)
      /\ \A i \in 1..(Len(s) + Len(t)) :
            (s \o t)[i] = IF i <= Len(s) THEN s[i] ELSE t[i - Len(s)]
  BY ConcatProperties
<1>4. DOMAIN (s \o t) = 1..(Len(s) + Len(t))
  BY <1>3, LenProperties
<1> SUFFICES ASSUME NEW m \in 1..(Len(s) + Len(t)), NEW n \in 1..(Len(s) + Len(t)),
                    (s \o t)[m] = (s \o t)[n]
             PROVE  m = n
  BY <1>4 DEF Distinct
<1>5. /\ m > Len(s) => m - Len(s) \in 1..Len(t)
      /\ n > Len(s) => n - Len(s) \in 1..Len(t)
      /\ m <= Len(s) => m \in 1..Len(s)
      /\ n <= Len(s) => n \in 1..Len(s)
  BY <1>1
<1>6. CASE m <= Len(s) /\ n <= Len(s)
  <2>1. s[m] = s[n] /\ m \in DOMAIN s /\ n \in DOMAIN s
    BY <1>1, <1>3, <1>5, <1>6
  <2> QED BY <2>1 DEF Distinct
<1>7. CASE m > Len(s) /\ n > Len(s)
  <2>1. t[m - Len(s)] = t[n - Len(s)] /\ m - Len(s) \in DOMAIN t /\ n - Len(s) \in DOMAIN t
    BY <1>1, <1>3, <1>5, <1>7
  <2>2. m - Len(s) = n - Len(s)
    BY <2>1 DEF Distinct
  <2> QED BY <1>1, <2>2
<1>8. CASE m <= Len(s) /\ n > Len(s)
  <2>1. s[m] = t[n - Len(s)]
    BY <1>1, <1>3, <1>8
  <2> QED BY <1>2, <1>5, <1>8, <2>1
<1>9. CASE m > Len(s) /\ n <= Len(s)
  <2>1. s[n] = t[m - Len(s)]
    BY <1>1, <1>3, <1>9
  <2> QED BY <1>2, <1>5, <1>9, <2>1
<1> QED BY <1>1, <1>6, <1>7, <1>8, <1>9

\* A list and one that comes after it.
LEMMA JoinInOrder ==
    ASSUME NEW s \in Seq(Posting), NEW t \in Seq(Posting), InOrder(s), InOrder(t),
           \A p \in Range(s), q \in Range(t) : Before(p, q)
    PROVE  InOrder(s \o t)
<1>1. /\ DOMAIN s = 1..Len(s) /\ Len(s) \in Nat /\ DOMAIN t = 1..Len(t) /\ Len(t) \in Nat
  BY LenProperties
<1>2. /\ \A n \in 1..Len(s) : s[n] \in Range(s)
      /\ \A n \in 1..Len(t) : t[n] \in Range(t)
  BY RangeIs
<1>3. /\ s \o t \in Seq(Posting) /\ Len(s \o t) = Len(s) + Len(t)
      /\ \A i \in 1..(Len(s) + Len(t)) :
            (s \o t)[i] = IF i <= Len(s) THEN s[i] ELSE t[i - Len(s)]
  BY ConcatProperties
<1>4. DOMAIN (s \o t) = 1..(Len(s) + Len(t))
  BY <1>3, LenProperties
<1> SUFFICES ASSUME NEW m \in 1..(Len(s) + Len(t)), NEW n \in 1..(Len(s) + Len(t)), m < n
             PROVE  Before((s \o t)[m], (s \o t)[n])
  BY <1>4 DEF InOrder
<1>5. /\ m > Len(s) => m - Len(s) \in 1..Len(t)
      /\ n > Len(s) => n - Len(s) \in 1..Len(t)
      /\ m <= Len(s) => m \in 1..Len(s)
      /\ n <= Len(s) => n \in 1..Len(s)
  BY <1>1
<1>6. CASE m <= Len(s) /\ n <= Len(s)
  <2>1. (s \o t)[m] = s[m] /\ (s \o t)[n] = s[n] /\ m \in DOMAIN s /\ n \in DOMAIN s
    BY <1>1, <1>3, <1>5, <1>6
  <2> QED BY <2>1 DEF InOrder
<1>7. CASE m > Len(s) /\ n > Len(s)
  <2>1. /\ (s \o t)[m] = t[m - Len(s)] /\ (s \o t)[n] = t[n - Len(s)]
        /\ m - Len(s) \in DOMAIN t /\ n - Len(s) \in DOMAIN t /\ m - Len(s) < n - Len(s)
    BY <1>1, <1>3, <1>5, <1>7
  <2> QED BY <2>1 DEF InOrder
<1>8. CASE m <= Len(s) /\ n > Len(s)
  <2>1. (s \o t)[m] = s[m] /\ (s \o t)[n] = t[n - Len(s)]
    BY <1>1, <1>3, <1>8
  <2> QED BY <1>2, <1>5, <1>8, <2>1
<1> QED BY <1>1, <1>6, <1>7, <1>8

\* Lists of postings of the first, second, ... file, one after the other.
LEMMA FlattenInOrder ==
    ASSUME NEW s \in Seq(Seq(Posting)),
           \A i \in 1..Len(s) : InOrder(s[i]) /\ \A p \in Range(s[i]) : p[1] = i
    PROVE  /\ FlattenSeq(s) \in Seq(Posting) /\ InOrder(FlattenSeq(s))
           /\ \A p : p \in Range(FlattenSeq(s)) <=> \E i \in 1..Len(s) : p \in Range(s[i])
<1> DEFINE F(n) == FlattenSeq(SubSeq(s, 1, n))
           Good(n) == /\ F(n) \in Seq(Posting) /\ InOrder(F(n))
                      /\ \A p : p \in Range(F(n)) <=> \E i \in 1..n : p \in Range(s[i])
           T == {n \in 0..Len(s) : Good(n)}
<1>1. Len(s) \in Nat /\ SubSeq(s, 1, Len(s)) = s
  BY LenProperties, SubSeqFull
<1>2. Good(0)
  <2>a. SubSeq(s, 1, 0) = <<>>
    BY SubSeqEmpty
  <2>1. F(0) = <<>>
    BY <2>a, FlattenNone
  <2>2. <<>> \in Seq(Posting) /\ InOrder(<<>>) /\ Range(<<>>) = {}
    BY EmptySeq DEF InOrder, Range
  <2>3. \A i : i \notin 1..0
    OBVIOUS
  <2> HIDE DEF F
  <2> QED BY <2>1, <2>2, <2>3
<1>3. ASSUME NEW n \in 0..(Len(s) - 1), Good(n) PROVE Good(n + 1)
  <2>1. /\ n + 1 \in 1..Len(s) /\ s[n + 1] \in Seq(Posting)
        /\ SubSeq(s, 1, n) \in Seq(Seq(Posting))
        /\ SubSeq(s, 1, n + 1) = Append(SubSeq(s, 1, n), s[n + 1])
    BY OneMore
  <2>2. F(n + 1) = F(n) \o s[n + 1]
    BY <2>1, FlattenAppend
  <2> HIDE DEF F
  <2>3. F(n) \in Seq(Posting) /\ InOrder(F(n)) /\ InOrder(s[n + 1])
        /\ \A p : p \in Range(F(n)) <=> \E i \in 1..n : p \in Range(s[i])
    BY <1>3, <2>1
  <2>4. ASSUME NEW p \in Range(F(n)), NEW q \in Range(s[n + 1]) PROVE Before(p, q)
    <3>1. PICK i \in 1..n : p \in Range(s[i])
      BY <2>3
    <3>2. i \in 1..Len(s) /\ i < n + 1
      BY <1>1
    <3>3. p[1] = i /\ q[1] = n + 1
      BY <2>1, <3>1, <3>2
    <3> QED BY <3>2, <3>3 DEF Before
  <2>5. F(n + 1) \in Seq(Posting) /\ InOrder(F(n + 1))
    <3>1. \A u, v \in Seq(Posting) :
             /\ u \o v \in Seq(Posting)
             /\ InOrder(u) /\ InOrder(v) /\ (\A p \in Range(u), q \in Range(v) : Before(p, q))
                => InOrder(u \o v)
      BY JoinInOrder, ConcatProperties
    <3> DEFINE u == F(n)
               v == s[n + 1]
    <3>2. /\ u \in Seq(Posting) /\ v \in Seq(Posting) /\ InOrder(u) /\ InOrder(v)
          /\ \A p \in Range(u), q \in Range(v) : Before(p, q)
      BY <2>1, <2>3, <2>4
    <3>3. F(n + 1) = u \o v
      BY <2>2
    <3> HIDE DEF u, v
    <3>4. u \o v \in Seq(Posting) /\ InOrder(u \o v)
      BY <3>1, <3>2
    <3> QED BY <3>3, <3>4
  <2>6. Range(F(n + 1)) = Range(F(n)) \cup Range(s[n + 1])
    <3>1. \A u, v \in Seq(Posting) : Range(u \o v) = Range(u) \cup Range(v)
      BY RangeConcatenation
    <3> QED BY <2>1, <2>2, <2>3, <3>1
  <2>7. \A i : i \in 1..(n + 1) <=> i \in 1..n \/ i = n + 1
    OBVIOUS
  <2>8. \A p : p \in Range(F(n + 1)) <=> \E i \in 1..(n + 1) : p \in Range(s[i])
    BY <2>3, <2>6, <2>7
  <2> QED BY <2>5, <2>8
<1>4. Len(s) \in T
  <2>1. 0 \in T
    BY <1>1, <1>2
  <2>2. \A n \in 0..(Len(s) - 1) : n \in T => n + 1 \in T
    <3> HIDE DEF Good
    <3> QED BY <1>1, <1>3
  <2> HIDE DEF T
  <2>3. \A n \in 0..Len(s) : n \in T
    BY <1>1, <2>1, <2>2, UpTo
  <2> QED BY <1>1, <2>3
<1>5. Good(Len(s))
  <2> HIDE DEF Good
  <2> QED BY <1>4
<1> QED BY <1>1, <1>5

-----------------------------------------------------------------------------
(* What one file has.                                                      *)

LinesWith(f, k) == {l \in DOMAIN files[f].keys : files[f].keys[l] = k}

\* The lines of a file that have one key are finitely many numbers.
LEMMA LinesAre ==
    ASSUME files \in Seq(TreeFile), NEW f \in DOMAIN files, NEW k
    PROVE  /\ files[f] \in TreeFile /\ f \in Nat
           /\ LinesWith(f, k) \in SUBSET Nat /\ IsFiniteSet(LinesWith(f, k))
<1>1. f \in 1..Len(files) /\ files[f] \in TreeFile /\ Len(files) \in Nat
  BY LenProperties, ElementOfSeq
<1>2. files[f].keys \in Seq(Key)
  BY <1>1 DEF TreeFile
<1>3. DOMAIN files[f].keys = 1..Len(files[f].keys) /\ Len(files[f].keys) \in Nat
  BY <1>2, LenProperties
<1>4. IsFiniteSet(DOMAIN files[f].keys)
  BY <1>3, FS_Interval
<1>5. LinesWith(f, k) \in SUBSET (DOMAIN files[f].keys)
  BY DEF LinesWith
<1>6. IsFiniteSet(LinesWith(f, k))
  BY <1>4, <1>5, FS_Subset
<1> QED BY <1>1, <1>3, <1>5, <1>6

\* What a thread notes of a file for a key: its lines that have it, in order.
LEMMA PostingsInIs ==
    ASSUME files \in Seq(TreeFile), NEW f \in DOMAIN files, NEW k
    PROVE  /\ PostingsIn(f, k) \in Seq(Posting) /\ InOrder(PostingsIn(f, k))
           /\ \A p : p \in Range(PostingsIn(f, k))
                        <=> Indexed(k) /\ \E l \in LinesWith(f, k) : p = <<f, l>>
           /\ \A n \in DOMAIN PostingsIn(f, k) : PostingsIn(f, k)[n][1] = f
<1>1. CASE ~Indexed(k)
  <2>1. PostingsIn(f, k) = <<>>
    BY <1>1 DEF PostingsIn
  <2>2. <<>> \in Seq(Posting) /\ InOrder(<<>>) /\ Range(<<>>) = {} /\ DOMAIN <<>> = {}
    BY EmptySeq DEF InOrder, Range
  <2> QED BY <1>1, <2>1, <2>2
<1>2. CASE Indexed(k)
  <2> DEFINE has == Ascending(LinesWith(f, k))
             at_(n) == <<f, has[n]>>
             s == [n \in DOMAIN has |-> at_(n)]
  <2>1. PostingsIn(f, k) = s
    BY <1>2 DEF PostingsIn, LinesWith
  <2>2. f \in Nat /\ LinesWith(f, k) \in SUBSET Nat /\ IsFiniteSet(LinesWith(f, k))
    BY LinesAre
  <2>3. /\ has \in Seq(LinesWith(f, k)) /\ Len(has) \in Nat
        /\ Rising(has) /\ \A x \in LinesWith(f, k) : \E n \in 1..Len(has) : has[n] = x
    BY <2>2, AscendingIs
  <2>4. DOMAIN has = 1..Len(has) /\ \A n \in 1..Len(has) : has[n] \in LinesWith(f, k)
    <3> HIDE DEF has
    <3> QED BY <2>3, LenProperties, ElementOfSeq
  <2> HIDE DEF has
  <2>5. DOMAIN s = 1..Len(has) /\ \A n \in 1..Len(has) : s[n] = <<f, has[n]>>
    BY <2>4
  <2>6. s \in Seq(Posting)
    <3>1. \A n \in 1..Len(has) : s[n] \in Posting
      BY <2>2, <2>4, <2>5 DEF Posting
    <3>2. s \in [1..Len(has) -> Posting]
      BY <2>4, <3>1
    <3> HIDE DEF s
    <3> QED BY <2>3, <3>2, FunctionIsSeq
  <2> HIDE DEF s
  <2>7. InOrder(s)
    <3> SUFFICES ASSUME NEW m \in 1..Len(has), NEW n \in 1..Len(has), m < n
                 PROVE  Before(s[m], s[n])
      BY <2>5 DEF InOrder
    <3>1. has[m] < has[n] /\ s[m] = <<f, has[m]>> /\ s[n] = <<f, has[n]>>
      BY <2>3, <2>4, <2>5 DEF Rising
    <3> QED BY <3>1 DEF Before
  <2>8. \A p : p \in Range(s) <=> \E l \in LinesWith(f, k) : p = <<f, l>>
    <3>1. \A p : p \in Range(s) <=> \E n \in 1..Len(has) : p = <<f, has[n]>>
      BY <2>5 DEF Range
    <3> QED BY <2>3, <2>4, <3>1
  <2>9. \A n \in DOMAIN s : s[n][1] = f
    BY <2>5
  <2> QED BY <1>2, <2>1, <2>6, <2>7, <2>8, <2>9
<1> QED BY <1>1, <1>2

\* The postings of the tree for a key, as the threads number the files.
Real(k) == {p \in Posting : /\ p[1] \in DOMAIN files /\ files[p[1]].readable
                            /\ Indexed(k) /\ p[2] \in LinesWith(p[1], k)}

Contributors == {f \in DOMAIN files : Contributes(f)}

\* A serial build numbers the files that contribute from one, in scan order.
LEMMA SerialIdsAre ==
    ASSUME files \in Seq(TreeFile)
    PROVE  /\ SerialIds = Ascending(Contributors)
           /\ Contributors \in SUBSET Nat /\ IsFiniteSet(Contributors)
           /\ SerialIds \in Seq(Contributors) /\ Len(SerialIds) \in Nat
           /\ DOMAIN SerialIds = 1..Len(SerialIds)
           /\ \A n \in 1..Len(SerialIds) :
                 /\ SerialIds[n] \in Contributors
                 /\ Cardinality({y \in Contributors : y <= SerialIds[n]}) = n
           /\ \A f \in Contributors : \E n \in 1..Len(SerialIds) : SerialIds[n] = f
<1>1. DOMAIN files = 1..Len(files) /\ Len(files) \in Nat
  BY LenProperties
<1>2. IsFiniteSet(DOMAIN files) /\ Contributors \in SUBSET (DOMAIN files)
  BY <1>1, FS_Interval DEF Contributors
<1>3. Contributors \in SUBSET Nat /\ IsFiniteSet(Contributors)
  BY <1>1, <1>2, FS_Subset
<1>4. SerialIds = Ascending(Contributors)
  BY DEF SerialIds, Contributors
<1>5. /\ SerialIds \in Seq(Contributors) /\ Len(SerialIds) = Cardinality(Contributors)
      /\ Cardinality(Contributors) \in Nat
      /\ \A x \in Contributors : \E n \in 1..Cardinality(Contributors) : SerialIds[n] = x
      /\ \A n \in 1..Cardinality(Contributors) :
            Cardinality({y \in Contributors : y <= SerialIds[n]}) = n
  BY <1>3, <1>4, AscendingIs
<1>6. DOMAIN SerialIds = 1..Len(SerialIds) /\ \A n \in 1..Len(SerialIds) : SerialIds[n] \in Contributors
  BY <1>5, LenProperties, ElementOfSeq
<1> QED BY <1>3, <1>4, <1>5, <1>6

\* A serial build lists the postings of a key in order, each once.
LEMMA SerialPostingsAre ==
    ASSUME files \in Seq(TreeFile), NEW k
    PROVE  /\ SerialPostings(k) \in Seq(Posting) /\ InOrder(SerialPostings(k))
           /\ \A p : p \in Range(SerialPostings(k)) <=>
                 \E id \in 1..Len(SerialIds) :
                    Indexed(k) /\ \E l \in LinesWith(SerialIds[id], k) : p = <<id, l>>
<1> DEFINE ps(id) == PostingsIn(SerialIds[id], k)
           r(id) == [n \in DOMAIN ps(id) |-> <<id, ps(id)[n][2]>>]
           s == [id \in 1..Len(SerialIds) |-> r(id)]
<1>1. DOMAIN SerialIds = 1..Len(SerialIds) /\ Len(SerialIds) \in Nat
      /\ \A n \in 1..Len(SerialIds) : SerialIds[n] \in DOMAIN files
  BY SerialIdsAre DEF Contributors
<1>2. SerialPostings(k) = FlattenSeq(s)
  BY <1>1 DEF SerialPostings
<1>3. ASSUME NEW id \in 1..Len(SerialIds)
      PROVE  /\ r(id) \in Seq(Posting) /\ InOrder(r(id))
             /\ \A p \in Range(r(id)) : p[1] = id
             /\ \A p : p \in Range(r(id)) <=>
                   Indexed(k) /\ \E l \in LinesWith(SerialIds[id], k) : p = <<id, l>>
  <2> DEFINE f == SerialIds[id]
             q == ps(id)
             t == r(id)
  <2>0. id \in Nat /\ f \in DOMAIN files
    BY <1>1
  <2>1. /\ q \in Seq(Posting) /\ InOrder(q)
        /\ \A p : p \in Range(q) <=> Indexed(k) /\ \E l \in LinesWith(f, k) : p = <<f, l>>
        /\ \A n \in DOMAIN q : q[n][1] = f
    <3>1. q = PostingsIn(f, k)
      OBVIOUS
    <3> HIDE DEF f, q
    <3> QED BY <2>0, <3>1, PostingsInIs
  <2>2. DOMAIN q = 1..Len(q) /\ Len(q) \in Nat /\ \A n \in DOMAIN q : q[n] \in Posting
    <3> HIDE DEF q
    <3> QED BY <2>1, LenProperties, ElementOfSeq
  <2>3. DOMAIN t = DOMAIN q /\ \A n \in DOMAIN q : t[n] = <<id, q[n][2]>>
    OBVIOUS
  <2> HIDE DEF q, t
  <2>4. t \in Seq(Posting)
    <3>1. \A n \in DOMAIN q : t[n] \in Posting
      BY <2>0, <2>2, <2>3 DEF Posting
    <3>2. t \in [1..Len(q) -> Posting]
      <4>1. t = [n \in DOMAIN q |-> <<id, q[n][2]>>]
        BY DEF t, q
      <4> QED BY <2>2, <2>3, <3>1, <4>1
    <3> QED BY <2>2, <3>2, FunctionIsSeq
  <2>5. InOrder(t)
    <3> SUFFICES ASSUME NEW m \in DOMAIN q, NEW n \in DOMAIN q, m < n PROVE Before(t[m], t[n])
      BY <2>3 DEF InOrder
    <3>1. Before(q[m], q[n]) /\ q[m][1] = f /\ q[n][1] = f
      BY <2>1 DEF InOrder
    <3>2. f \in Nat /\ t[m] = <<id, q[m][2]>> /\ t[n] = <<id, q[n][2]>>
      BY <2>0, <2>3, LinesAre
    <3> HIDE DEF f
    <3>3. q[m][2] < q[n][2]
      BY <3>1, <3>2 DEF Before
    <3> QED BY <3>2, <3>3 DEF Before
  <2>6. \A p : p \in Range(t) <=> \E n \in DOMAIN q : p = <<id, q[n][2]>>
    BY <2>3 DEF Range
  <2>7. \A p : p \in Range(t) <=> Indexed(k) /\ \E l \in LinesWith(f, k) : p = <<id, l>>
    <3>1. ASSUME NEW p, p \in Range(t) PROVE Indexed(k) /\ \E l \in LinesWith(f, k) : p = <<id, l>>
      <4>1. PICK n \in DOMAIN q : p = <<id, q[n][2]>>
        BY <2>6, <3>1
      <4>2. q[n] \in Range(q)
        BY DEF Range
      <4>3. PICK l \in LinesWith(f, k) : q[n] = <<f, l>>
        BY <2>1, <4>2
      <4> QED BY <2>1, <4>1, <4>2, <4>3
    <3>2. ASSUME NEW p, Indexed(k), NEW l \in LinesWith(f, k), p = <<id, l>> PROVE p \in Range(t)
      <4>1. <<f, l>> \in Range(q)
        BY <2>1, <3>2
      <4>2. PICK n \in DOMAIN q : q[n] = <<f, l>>
        BY <4>1 DEF Range
      <4> QED BY <2>6, <3>2, <4>2
    <3> QED BY <3>1, <3>2
  <2>8. \A p \in Range(t) : p[1] = id
    BY <2>7
  <2> QED BY <2>4, <2>5, <2>7, <2>8 DEF t
<1> HIDE DEF r
<1>4. s \in Seq(Seq(Posting)) /\ Len(s) = Len(SerialIds)
  <2>1. s \in [1..Len(SerialIds) -> Seq(Posting)]
    BY <1>3
  <2> HIDE DEF s
  <2> QED BY <1>1, <2>1, FunctionIsSeq
<1>5. \A id \in 1..Len(s) : s[id] = r(id)
  BY <1>4
<1> HIDE DEF s
<1>6. \A id \in 1..Len(s) : InOrder(s[id]) /\ \A p \in Range(s[id]) : p[1] = id
  BY <1>3, <1>4, <1>5
<1>7. /\ FlattenSeq(s) \in Seq(Posting) /\ InOrder(FlattenSeq(s))
      /\ \A p : p \in Range(FlattenSeq(s)) <=> \E id \in 1..Len(s) : p \in Range(s[id])
  BY <1>4, <1>6, FlattenInOrder
<1>8. \A id \in 1..Len(s) : \A p : p \in Range(s[id]) <=>
                   Indexed(k) /\ \E l \in LinesWith(SerialIds[id], k) : p = <<id, l>>
  BY <1>3, <1>4, <1>5
<1> QED BY <1>2, <1>4, <1>7, <1>8

\* The index of a serial build before the cap.
Uncapped == [files |-> [id \in DOMAIN SerialIds |-> files[SerialIds[id]].name],
             lines |-> [k \in Key |-> SerialPostings(k)]]

\* Files are used that contribute, and are numbered as a serial build does.
LEMMA UsedAre ==
    ASSUME files \in Seq(TreeFile), merged \in [Key -> Postings],
           \A k \in Key : Range(merged[k]) = Real(k)
    PROVE  /\ Used = Contributors
           /\ \A n \in 1..Len(SerialIds) : Remap(SerialIds[n]) = n
<1>1. \A k \in Key : merged[k] \in Seq(Posting)
  BY PostingsAre
<1>2. \A f : f \in Used <=> \E k \in Key : \E n \in DOMAIN merged[k] : f = merged[k][n][1]
  BY DEF Used
<1>3. \A f : f \in Used <=> \E k \in Key : \E p \in Real(k) : f = p[1]
  <2>1. \A k \in Key : \A p : p \in Real(k) <=> \E n \in DOMAIN merged[k] : p = merged[k][n]
    BY DEF Range
  <2> QED BY <1>2, <2>1
<1>4. \A f : f \in Contributors <=> \E k \in Key : \E p \in Real(k) : f = p[1]
  <2>1. ASSUME NEW f \in Contributors PROVE \E k \in Key : \E p \in Real(k) : f = p[1]
    <3>1. f \in DOMAIN files /\ files[f].readable
      BY DEF Contributors, Contributes
    <3>2. PICK l \in DOMAIN files[f].keys : Indexed(files[f].keys[l])
      BY DEF Contributors, Contributes
    <3>3. files[f] \in TreeFile /\ f \in Nat
      BY <3>1, LinesAre
    <3>4. files[f].keys \in Seq(Key)
      BY <3>3 DEF TreeFile
    <3>5. l \in Nat /\ files[f].keys[l] \in Key
      BY <3>4, LenProperties, ElementOfSeq
    <3>6. <<f, l>> \in Real(files[f].keys[l])
      BY <3>1, <3>2, <3>3, <3>5 DEF Real, Posting, LinesWith
    <3>7. <<f, l>>[1] = f
      OBVIOUS
    <3> QED BY <3>5, <3>6, <3>7
  <2>2. ASSUME NEW k \in Key, NEW p \in Real(k) PROVE p[1] \in Contributors
    BY DEF Real, LinesWith, Contributors, Contributes
  <2> QED BY <2>1, <2>2
<1>5. Used = Contributors
  BY <1>3, <1>4
<1>6. \A n \in 1..Len(SerialIds) : Remap(SerialIds[n]) = n
  BY <1>5, SerialIdsAre DEF Remap
<1> QED BY <1>5, <1>6

\* Renumbered and sorted, what the threads found is what a serial build finds.
LEMMA CompactIs ==
    ASSUME files \in Seq(TreeFile), merged \in [Key -> Postings],
           \A k \in Key : Distinct(merged[k]) /\ Range(merged[k]) = Real(k), Compact
    PROVE  index' = Uncapped
<1> DEFINE R(ps) == [n \in DOMAIN ps |-> <<Remap(ps[n][1]), ps[n][2]>>]
<1>1. /\ Used = Contributors
      /\ \A n \in 1..Len(SerialIds) : Remap(SerialIds[n]) = n
  BY UsedAre
<1>2. /\ SerialIds = Ascending(Contributors)
      /\ DOMAIN SerialIds = 1..Len(SerialIds)
      /\ \A n \in 1..Len(SerialIds) : SerialIds[n] \in Contributors
      /\ \A f \in Contributors : \E n \in 1..Len(SerialIds) : SerialIds[n] = f
  BY SerialIdsAre
<1>3. index' = [files |-> [n \in DOMAIN SerialIds |-> files[SerialIds[n]].name],
                lines |-> [k \in Key |-> Sorted(R(merged[k]))]]
  BY <1>1, <1>2 DEF Compact
<1>4. ASSUME NEW k \in Key PROVE Sorted(R(merged[k])) = SerialPostings(k)
  <2> DEFINE ps == merged[k]
             r == R(ps)
  <2>1. ps \in Seq(Posting) /\ Distinct(ps) /\ Range(ps) = Real(k)
    BY PostingsAre
  <2>2. /\ DOMAIN ps = 1..Len(ps) /\ Len(ps) \in Nat
        /\ \A n \in DOMAIN ps : ps[n] \in Posting /\ ps[n] \in Real(k)
    <3> HIDE DEF ps
    <3>1. \A n \in DOMAIN ps : ps[n] \in Range(ps)
      BY DEF Range
    <3> QED BY <2>1, <3>1, LenProperties, ElementOfSeq
  <2>3. DOMAIN r = DOMAIN ps /\ \A n \in DOMAIN ps : r[n] = <<Remap(ps[n][1]), ps[n][2]>>
    OBVIOUS
  <2>4. r = [n \in DOMAIN ps |-> <<Remap(ps[n][1]), ps[n][2]>>]
    OBVIOUS
  <2> HIDE DEF ps, r
  <2>5. \A p \in Real(k) : \E id \in 1..Len(SerialIds) :
           p[1] = SerialIds[id] /\ Remap(p[1]) = id
    <3>1. \A p \in Real(k) : p[1] \in Contributors
      BY DEF Real, LinesWith, Contributors, Contributes
    <3> QED BY <1>1, <1>2, <3>1
  <2>6. r \in Seq(Posting)
    <3>1. \A n \in DOMAIN ps : r[n] \in Posting
      <4> TAKE n \in DOMAIN ps
      <4>1. Remap(ps[n][1]) \in Nat
        BY <2>2, <2>5
      <4>2. ps[n][2] \in Nat
        BY <2>2 DEF Posting
      <4>3. r[n] = <<Remap(ps[n][1]), ps[n][2]>>
        BY <2>3
      <4> DEFINE x == Remap(ps[n][1])
                 y == ps[n][2]
      <4> HIDE DEF x, y
      <4>4. <<x, y>> \in Posting
        BY <4>1, <4>2 DEF Posting, x, y
      <4> QED BY <4>3, <4>4 DEF x, y
    <3>2. r \in [1..Len(ps) -> Posting]
      BY <2>2, <2>3, <2>4, <3>1
    <3> QED BY <2>2, <3>2, FunctionIsSeq
  <2>7. Distinct(r)
    <3> SUFFICES ASSUME NEW m \in DOMAIN ps, NEW n \in DOMAIN ps, r[m] = r[n] PROVE m = n
      BY <2>3 DEF Distinct
    <3>1. Remap(ps[m][1]) = Remap(ps[n][1]) /\ ps[m][2] = ps[n][2]
      BY <2>3
    <3>2. ps[m][1] = ps[n][1]
      BY <2>2, <2>5, <3>1
    <3>3. ps[m] = ps[n]
      BY <2>2, <3>1, <3>2 DEF Posting
    <3> QED BY <2>1, <3>3 DEF Distinct
  <2>8. \A p : p \in Range(r) <=> \E q \in Real(k) : p = <<Remap(q[1]), q[2]>>
    <3>1. \A p : p \in Range(r) <=> \E n \in DOMAIN ps : p = <<Remap(ps[n][1]), ps[n][2]>>
      BY <2>3 DEF Range
    <3>2. \A q : q \in Real(k) <=> \E n \in DOMAIN ps : q = ps[n]
      BY <2>1 DEF Range
    <3> QED BY <3>1, <3>2
  <2>9. /\ SerialPostings(k) \in Seq(Posting) /\ InOrder(SerialPostings(k))
        /\ \A p : p \in Range(SerialPostings(k)) <=>
              \E id \in 1..Len(SerialIds) :
                 Indexed(k) /\ \E l \in LinesWith(SerialIds[id], k) : p = <<id, l>>
    BY SerialPostingsAre
  <2>10. Range(r) = Range(SerialPostings(k))
    <3>1. ASSUME NEW q \in Real(k) PROVE <<Remap(q[1]), q[2]>> \in Range(SerialPostings(k))
      <4>1. PICK id \in 1..Len(SerialIds) : q[1] = SerialIds[id] /\ Remap(q[1]) = id
        BY <2>5
      <4>2. Indexed(k) /\ q[2] \in LinesWith(q[1], k)
        BY DEF Real
      <4> QED BY <2>9, <4>1, <4>2
    <3>2. ASSUME NEW id \in 1..Len(SerialIds), Indexed(k), NEW l \in LinesWith(SerialIds[id], k)
          PROVE  \E q \in Real(k) : <<id, l>> = <<Remap(q[1]), q[2]>>
      <4>1. SerialIds[id] \in DOMAIN files /\ files[SerialIds[id]].readable
        BY <1>2 DEF Contributors, Contributes
      <4>2. SerialIds[id] \in Nat /\ l \in Nat
        BY <4>1, LinesAre
      <4>3. <<SerialIds[id], l>> \in Real(k)
        BY <3>2, <4>1, <4>2 DEF Real, Posting
      <4>4. <<id, l>> = <<Remap(<<SerialIds[id], l>>[1]), <<SerialIds[id], l>>[2]>>
        BY <1>1
      <4> QED BY <4>3, <4>4
    <3>3. \A p : p \in Range(r) => p \in Range(SerialPostings(k))
      BY <2>8, <3>1
    <3>4. \A p : p \in Range(SerialPostings(k)) => p \in Range(r)
      BY <2>8, <2>9, <3>2
    <3> QED BY <3>3, <3>4
  <2>11. /\ Sorted(r) \in Seq(Posting) /\ InOrder(Sorted(r)) /\ Same(Sorted(r), r)
    BY <2>6, <2>7, SortedIs
  <2>12. Range(Sorted(r)) = Range(SerialPostings(k))
    BY <2>6, <2>10, <2>11, SameIs
  <2>13. Same(Sorted(r), SerialPostings(k))
    BY <2>9, <2>11, <2>12, SameIs
  <2>14. Sorted(r) = SerialPostings(k)
    BY <2>9, <2>11, <2>13, OrderedEqual
  <2> QED BY <2>14 DEF r, ps
<1> HIDE DEF R
<1>5. [k \in Key |-> Sorted(R(merged[k]))] = [k \in Key |-> SerialPostings(k)]
  BY <1>4
<1> QED BY <1>3, <1>5 DEF Uncapped

-----------------------------------------------------------------------------
(* What the threads have found.                                            *)

Busy(w) == thread[w] \in {"read", "ask"}
InWork(f) == \E w \in Worker : Busy(w) /\ mine[w] = f

BuildTypes ==
    /\ cursor \in Nat
    /\ thread \in [Worker -> {"off", "claim", "read", "ask", "finished"}]
    /\ mine \in [Worker -> Nat]
    /\ found \in [Worker -> [Key -> Postings]]
    /\ merged \in [Key -> Postings]

\* A file is in one thread's hands only; who has finished found no file left.
Claims ==
    /\ \A w \in Worker : Busy(w) => mine[w] \in DOMAIN files /\ mine[w] <= cursor
    /\ \A v, w \in Worker : Busy(v) /\ Busy(w) /\ mine[v] = mine[w] => v = w
    /\ \A w \in Worker : thread[w] = "ask" => files[mine[w]].readable
    /\ \A w \in Worker : thread[w] = "finished" => cursor >= Len(files)

\* Nothing is found twice, and of the files that have been claimed and are not in
\* work any more, everything has been found.
FoundOnce ==
    \A k \in Key : /\ \A w \in Worker : Distinct(found[w][k])
                   /\ \A v, w \in Worker : v # w => Range(found[v][k]) \cap Range(found[w][k]) = {}
FoundAll ==
    \A k \in Key : \A p : (p \in Real(k) /\ p[1] <= cursor /\ ~InWork(p[1]))
                             <=> \E w \in Worker : p \in Range(found[w][k])

MergedSoFar ==
    /\ at <= jobs + 1
    /\ \A k \in Key : /\ Distinct(merged[k])
                      /\ \A p : p \in Range(merged[k])
                                  <=> \E w \in Worker : w < at /\ p \in Range(found[w][k])

Phases ==
    /\ main \in {"spawn", "join", "reap", "wait", "merge"} => files # <<>>
    /\ main = "spawn" => \A w \in Worker : thread[w] = "off"
    /\ main \in {"reap", "wait", "merge", "write", "done"} =>
          \A w \in Worker : thread[w] = "finished"
    /\ main \in {"spawn", "join", "reap", "wait"} => merged = NoLines
    /\ main = "merge" => MergedSoFar
    /\ main = "write" => index = Uncapped
    /\ main = "done" => index = SerialIndex

BuildInv == main # "aborted" => BuildTypes /\ Claims /\ FoundOnce /\ FoundAll /\ Phases

\* The counters of the indexer are numbers, and a build of some files has a worker.
LEMMA FilesType ==
    ASSUME IInv
    PROVE  /\ files \in Seq(TreeFile) /\ DOMAIN files = 1..Len(files) /\ Len(files) \in Nat
           /\ jobs \in Nat /\ Worker = 1..jobs /\ at \in Nat \ {0}
           /\ files # <<>> => jobs >= 1
<1>1. files \in Seq(TreeFile) /\ at \in Nat \ {0}
  BY IndexAssumption DEF IInv, PipeTypes
<1>2. DOMAIN files = 1..Len(files) /\ Len(files) \in Nat /\ (files # <<>> => Len(files) # 0)
  BY <1>1, LenProperties, EmptySeq
<1> QED BY <1>1, <1>2, IndexAssumption DEF jobs, Worker

\* A posting of the tree names a file of it.
LEMMA RealIs ==
    ASSUME files \in Seq(TreeFile), NEW k, NEW p \in Real(k)
    PROVE  p \in Posting /\ p[1] \in 1..Len(files) /\ p[1] \in Nat
BY LenProperties DEF Real

\* The result of a worker is empty at first.
LEMMA NothingYet ==
    /\ NoLines \in [Key -> Postings]
    /\ \A k \in Key : NoLines[k] = <<>>
    /\ Range(<<>>) = {} /\ Distinct(<<>>)
<1>1. <<>> \in Seq(Nat \X Nat)
  BY EmptySeq
<1>2. Range(<<>>) = {} /\ Distinct(<<>>)
  BY DEF Range, Distinct
<1> QED BY <1>1, <1>2 DEF NoLines, Postings

\* What concerns the threads only.
Tracked == <<files, cursor, thread, mine, found, merged>>

\* A step that leaves the threads alone leaves what they have found.
LEMMA ThreadsKept ==
    ASSUME UNCHANGED Tracked
    PROVE  /\ BuildTypes => BuildTypes'
           /\ Claims => Claims'
           /\ FoundOnce => FoundOnce'
           /\ FoundAll => FoundAll'
           /\ Uncapped' = Uncapped /\ SerialIndex' = SerialIndex /\ jobs' = jobs /\ Worker' = Worker
<1>1. UNCHANGED <<files, cursor, thread, mine, found, merged>>
  BY DEF Tracked
<1>2. jobs' = jobs /\ Worker' = Worker
  BY <1>1 DEF jobs, Worker
<1>3. BuildTypes => BuildTypes'
  BY <1>1, <1>2 DEF BuildTypes
<1>4. Claims => Claims'
  BY <1>1, <1>2 DEF Claims, Busy
<1>5. FoundOnce => FoundOnce'
  BY <1>1, <1>2 DEF FoundOnce
<1>6. \A k : Real(k)' = Real(k)
  BY <1>1 DEF Real, LinesWith
<1>7. \A f : InWork(f)' <=> InWork(f)
  BY <1>1, <1>2 DEF InWork, Busy
<1>8. FoundAll => FoundAll'
  BY <1>1, <1>2, <1>6, <1>7 DEF FoundAll
<1>9. Uncapped' = Uncapped /\ SerialIndex' = SerialIndex
  BY <1>1 DEF Uncapped, SerialIndex, SerialIds, Contributes, SerialPostings, PostingsIn
<1> QED BY <1>2, <1>3, <1>4, <1>5, <1>8, <1>9

\* Nothing has been claimed or found at first.
LEMMA BuildInit == Init => BuildInv
<1> SUFFICES ASSUME Init PROVE BuildInv
  OBVIOUS
<1>1. IInv
  BY IInvInit
<1>2. /\ files \in Seq(TreeFile) /\ Len(files) \in Nat /\ Worker = 1..jobs
  BY <1>1, FilesType
<1>3. BuildTypes
  BY NothingYet DEF Init, BuildTypes
<1>4. Claims
  BY DEF Init, Claims, Busy
<1>5. \A k \in Key : \A w \in Worker : found[w][k] = <<>>
  BY NothingYet DEF Init
<1>6. FoundOnce
  BY <1>5, NothingYet DEF FoundOnce
<1>7. FoundAll
  <2>1. \A k : \A p \in Real(k) : ~(p[1] <= cursor)
    BY <1>2, RealIs DEF Init
  <2> QED BY <1>5, <2>1, NothingYet DEF FoundAll
<1>8. CASE files # <<>>
  BY <1>3, <1>4, <1>6, <1>7, <1>8 DEF Init, BuildInv, Phases
<1>9. CASE files = <<>>
  <2>1. Contributors = {}
    BY <1>9 DEF Contributors
  <2>2. Len(SerialIds) = 0 /\ DOMAIN SerialIds = {}
    <3>1. DOMAIN SerialIds = 1..Len(SerialIds) /\ Len(SerialIds) \in Nat
          /\ \A n \in 1..Len(SerialIds) : SerialIds[n] \in Contributors
      BY <1>2, SerialIdsAre
    <3>2. ~(1 \in 1..Len(SerialIds))
      BY <2>1, <3>1
    <3> QED BY <3>1, <3>2
  <2>3. \A k \in Key : SerialPostings(k) = <<>>
    <3> TAKE k \in Key
    <3>1. /\ SerialPostings(k) \in Seq(Posting)
          /\ \A p : p \notin Range(SerialPostings(k))
      BY <1>2, <2>2, SerialPostingsAre
    <3>2. Len(SerialPostings(k)) \in Nat /\ ~(1 \in 1..Len(SerialPostings(k)))
      BY <3>1, RangeIs, LenProperties
    <3> QED BY <3>1, <3>2, EmptySeq
  <2>4. Uncapped.files = <<>>
    BY <2>2 DEF Uncapped
  <2>5. Uncapped = NoIndex
    <3>1. [id \in DOMAIN SerialIds |-> files[SerialIds[id]].name] = <<>>
      BY <2>2
    <3>2. [k \in Key |-> SerialPostings(k)] = NoLines
      BY <2>3 DEF NoLines
    <3> QED BY <3>1, <3>2 DEF Uncapped, NoIndex
  <2>6. Worker = {}
    <3>1. jobs = 0
      BY <1>9, IndexAssumption DEF jobs
    <3> QED BY <1>2, <3>1
  <2> QED BY <1>3, <1>4, <1>6, <1>7, <1>9, <2>5, <2>6 DEF Init, BuildInv, Phases
<1> QED BY <1>8, <1>9

-----------------------------------------------------------------------------
(* The steps of a thread.                                                  *)

LEMMA ClaimKeeps == ASSUME IInv, BuildInv, NEW w \in Worker, Claim(w) PROVE BuildInv'
<1> SUFFICES ASSUME main # "aborted" PROVE BuildInv'
  BY DEF BuildInv, Claim
<1>0. BuildTypes /\ Claims /\ FoundOnce /\ FoundAll /\ Phases
  BY DEF BuildInv
<1>1. /\ files \in Seq(TreeFile) /\ DOMAIN files = 1..Len(files) /\ Len(files) \in Nat
      /\ cursor \in Nat
  BY <1>0, FilesType DEF BuildTypes
<1>2. /\ thread[w] = "claim" /\ cursor' = cursor + 1
      /\ UNCHANGED <<files, main, at, found, merged, index>>
      /\ jobs' = jobs /\ Worker' = Worker
  BY DEF Claim, jobs, Worker
<1>3. \A k : Real(k)' = Real(k)
  BY <1>2 DEF Real, LinesWith
<1>4. FoundOnce'
  BY <1>0, <1>2 DEF FoundOnce
<1>5. Phases'
  <2>1. Uncapped' = Uncapped /\ SerialIndex' = SerialIndex
    BY <1>2 DEF Uncapped, SerialIndex, SerialIds, Contributes, SerialPostings, PostingsIn
  <2>2. MergedSoFar => MergedSoFar'
    BY <1>2 DEF MergedSoFar
  <2>3. main \notin {"spawn", "reap", "wait", "merge"}
    BY <1>0, <1>2 DEF Phases
  <2> QED BY <1>0, <1>2, <2>1, <2>2, <2>3 DEF Phases
<1>6. CASE cursor >= Len(files)
  <2>1. thread' = [thread EXCEPT ![w] = "finished"] /\ mine' = mine
    BY <1>6 DEF Claim
  <2>2. BuildTypes'
    BY <1>0, <1>2, <2>1 DEF BuildTypes
  <2>3. \A v \in Worker : /\ Busy(v)' <=> Busy(v)
                          /\ v # w => thread'[v] = thread[v]
                          /\ thread'[w] = "finished"
    BY <1>0, <1>2, <2>1 DEF BuildTypes, Busy
  <2>4. Claims'
    BY <1>0, <1>1, <1>2, <1>6, <2>1, <2>3 DEF Claims
  <2>5. \A f : InWork(f)' <=> InWork(f)
    BY <1>2, <2>1, <2>3 DEF InWork
  <2>6. \A k : \A p \in Real(k) : p[1] <= cursor /\ p[1] <= cursor + 1
    BY <1>1, <1>6, RealIs
  <2>7. FoundAll'
    BY <1>0, <1>2, <1>3, <2>5, <2>6 DEF FoundAll
  <2> QED BY <1>4, <1>5, <2>2, <2>4, <2>7 DEF BuildInv
<1>7. CASE ~(cursor >= Len(files))
  <2>1. /\ thread' = [thread EXCEPT ![w] = "read"]
        /\ mine' = [mine EXCEPT ![w] = cursor + 1]
    BY <1>7 DEF Claim
  <2>2. BuildTypes'
    BY <1>0, <1>2, <2>1 DEF BuildTypes
  <2>3. /\ \A v \in Worker : v # w => (Busy(v)' <=> Busy(v)) /\ thread'[v] = thread[v]
                                      /\ mine'[v] = mine[v]
        /\ thread'[w] = "read" /\ mine'[w] = cursor + 1 /\ Busy(w)' /\ ~Busy(w)
    BY <1>0, <1>2, <2>1 DEF BuildTypes, Busy
  <2>4. Claims'
    <3>1. \A v \in Worker : Busy(v)' => mine'[v] \in DOMAIN files /\ mine'[v] <= cursor + 1
      BY <1>0, <1>1, <1>7, <2>3 DEF Claims
    <3>2. \A v \in Worker : Busy(v)' /\ v # w => mine'[v] <= cursor
      BY <1>0, <2>3 DEF Claims
    <3>3. \A u, v \in Worker : Busy(u)' /\ Busy(v)' /\ mine'[u] = mine'[v] => u = v
      <4> SUFFICES ASSUME NEW u \in Worker, NEW v \in Worker,
                          Busy(u)', Busy(v)', mine'[u] = mine'[v], u # v
                   PROVE  FALSE
        OBVIOUS
      <4>1. CASE u # w /\ v # w
        BY <1>0, <2>3, <4>1 DEF Claims
      <4>2. CASE u = w
        BY <1>1, <2>3, <3>2, <4>2
      <4>3. CASE v = w
        BY <1>1, <2>3, <3>2, <4>3
      <4> QED BY <4>1, <4>2, <4>3
    <3>4. \A v \in Worker : thread'[v] = "ask" => files[mine'[v]].readable
      BY <1>0, <2>3 DEF Claims
    <3>5. \A v \in Worker : thread'[v] = "finished" => cursor + 1 >= Len(files)
      <4>1. \A v \in Worker : thread'[v] # "finished"
        BY <1>0, <1>7, <2>3 DEF Claims
      <4> QED BY <4>1
    <3> QED BY <1>2, <3>1, <3>3, <3>4, <3>5 DEF Claims
  <2>5. \A f : InWork(f)' <=> InWork(f) \/ f = cursor + 1
    BY <1>2, <2>3 DEF InWork
  <2>6. \A k : \A p \in Real(k) : p[1] <= cursor + 1 <=> p[1] <= cursor \/ p[1] = cursor + 1
    BY <1>1, RealIs
  <2>7. ~(cursor + 1 <= cursor)
    BY <1>1
  <2>8. FoundAll'
    BY <1>0, <1>2, <1>3, <2>5, <2>6, <2>7 DEF FoundAll
  <2> QED BY <1>4, <1>5, <2>2, <2>4, <2>8 DEF BuildInv
<1> QED BY <1>6, <1>7

\* A file that is put down: nothing else of it is to be found.
LEMMA PutDown ==
    ASSUME IInv, BuildTypes, Claims, NEW w \in Worker, Busy(w),
           thread' = [thread EXCEPT ![w] = "claim"], UNCHANGED <<files, cursor, mine>>
    PROVE  /\ Claims'
           /\ \A f : InWork(f)' <=> InWork(f) /\ f # mine[w]
           /\ mine[w] \in DOMAIN files /\ InWork(mine[w])
<1>1. jobs' = jobs /\ Worker' = Worker
  BY DEF jobs, Worker
<1>2. /\ \A v \in Worker : v # w => (Busy(v)' <=> Busy(v)) /\ thread'[v] = thread[v]
      /\ thread'[w] = "claim" /\ ~Busy(w)'
  BY DEF BuildTypes, Busy
<1>3. Claims'
  BY <1>1, <1>2 DEF Claims
<1>4. \A f : InWork(f)' <=> InWork(f) /\ f # mine[w]
  BY <1>1, <1>2 DEF InWork, Claims
<1> QED BY <1>3, <1>4 DEF InWork, Claims

LEMMA ReadKeeps == ASSUME IInv, BuildInv, NEW w \in Worker, Read(w) PROVE BuildInv'
<1> SUFFICES ASSUME main # "aborted" PROVE BuildInv'
  BY DEF BuildInv, Read
<1>0. BuildTypes /\ Claims /\ FoundOnce /\ FoundAll /\ Phases
  BY DEF BuildInv
<1>2. /\ thread[w] = "read" /\ Busy(w)
      /\ UNCHANGED <<files, main, at, cursor, mine, found, merged, index>>
      /\ jobs' = jobs /\ Worker' = Worker
  BY DEF Read, jobs, Worker, Busy
<1>3. \A k : Real(k)' = Real(k)
  BY <1>2 DEF Real, LinesWith
<1>4. FoundOnce'
  BY <1>0, <1>2 DEF FoundOnce
<1>5. Phases'
  <2>1. Uncapped' = Uncapped /\ SerialIndex' = SerialIndex
    BY <1>2 DEF Uncapped, SerialIndex, SerialIds, Contributes, SerialPostings, PostingsIn
  <2>2. MergedSoFar => MergedSoFar'
    BY <1>2 DEF MergedSoFar
  <2>3. main \notin {"spawn", "reap", "wait", "merge"}
    BY <1>0, <1>2 DEF Phases
  <2> QED BY <1>0, <1>2, <2>1, <2>2, <2>3 DEF Phases
<1>6. CASE files[mine[w]].readable
  <2>1. thread' = [thread EXCEPT ![w] = "ask"]
    BY <1>6 DEF Read
  <2>2. BuildTypes'
    BY <1>0, <1>2, <2>1 DEF BuildTypes
  <2>3. \A v \in Worker : /\ Busy(v)' <=> Busy(v)
                          /\ v # w => thread'[v] = thread[v]
                          /\ thread'[w] = "ask"
    BY <1>0, <1>2, <2>1 DEF BuildTypes, Busy
  <2>4. Claims'
    BY <1>0, <1>2, <1>6, <2>3 DEF Claims
  <2>5. \A f : InWork(f)' <=> InWork(f)
    BY <1>2, <2>3 DEF InWork
  <2>7. FoundAll'
    BY <1>0, <1>2, <1>3, <2>5 DEF FoundAll
  <2> QED BY <1>4, <1>5, <2>2, <2>4, <2>7 DEF BuildInv
<1>7. CASE ~files[mine[w]].readable
  <2>1. thread' = [thread EXCEPT ![w] = "claim"]
    BY <1>7 DEF Read
  <2>2. BuildTypes'
    BY <1>0, <1>2, <2>1 DEF BuildTypes
  <2>3. Claims' /\ \A f : InWork(f)' <=> InWork(f) /\ f # mine[w]
    BY <1>0, <1>2, <2>1, PutDown
  <2>4. \A k : \A p \in Real(k) : p[1] # mine[w]
    BY <1>7 DEF Real
  <2>5. FoundAll'
    BY <1>0, <1>2, <1>3, <2>3, <2>4 DEF FoundAll
  <2> QED BY <1>4, <1>5, <2>2, <2>3, <2>5 DEF BuildInv
<1> QED BY <1>6, <1>7

LEMMA NormalizeKeeps == ASSUME IInv, BuildInv, NEW w \in Worker, Normalize(w) PROVE BuildInv'
<1> SUFFICES ASSUME main # "aborted" PROVE BuildInv'
  BY DEF BuildInv, Normalize
<1>0. BuildTypes /\ Claims /\ FoundOnce /\ FoundAll /\ Phases
  BY DEF BuildInv
<1>1. files \in Seq(TreeFile)
  BY FilesType
<1>2. /\ thread[w] = "ask" /\ Busy(w)
      /\ UNCHANGED <<files, main, at, cursor, mine, merged, index>>
      /\ thread' = [thread EXCEPT ![w] = "claim"]
      /\ jobs' = jobs /\ Worker' = Worker
  BY DEF Normalize, jobs, Worker, Busy
<1>3. \A k : Real(k)' = Real(k)
  BY <1>2 DEF Real, LinesWith
<1>4. /\ Claims' /\ \A f : InWork(f)' <=> InWork(f) /\ f # mine[w]
      /\ mine[w] \in DOMAIN files /\ InWork(mine[w])
  BY <1>0, <1>2, PutDown
<1> DEFINE new(k) == PostingsIn(mine[w], k)
<1>5. \A k \in Key : /\ new(k) \in Seq(Posting) /\ Distinct(new(k))
                     /\ \A p : p \in Range(new(k)) <=> p \in Real(k) /\ p[1] = mine[w]
  <2> TAKE k \in Key
  <2>1. /\ new(k) \in Seq(Posting) /\ InOrder(new(k))
        /\ \A p : p \in Range(new(k)) <=> Indexed(k) /\ \E l \in LinesWith(mine[w], k) : p = <<mine[w], l>>
    BY <1>1, <1>4, PostingsInIs
  <2>2. Distinct(new(k))
    BY <2>1, OrderedDistinct
  <2>3. files[mine[w]].readable
    BY <1>0, <1>2 DEF Claims
  <2>4. \A p : p \in Real(k) /\ p[1] = mine[w]
                 <=> Indexed(k) /\ \E l \in LinesWith(mine[w], k) : p = <<mine[w], l>>
    <3>1. ASSUME NEW p, p \in Real(k), p[1] = mine[w]
          PROVE  Indexed(k) /\ \E l \in LinesWith(mine[w], k) : p = <<mine[w], l>>
      <4>1. p \in Posting /\ Indexed(k) /\ p[2] \in LinesWith(mine[w], k)
        BY <3>1 DEF Real
      <4>2. p = <<mine[w], p[2]>>
        BY <3>1, <4>1 DEF Posting
      <4> QED BY <4>1, <4>2
    <3>2. ASSUME NEW p, Indexed(k), NEW l \in LinesWith(mine[w], k), p = <<mine[w], l>>
          PROVE  p \in Real(k) /\ p[1] = mine[w]
      <4>1. mine[w] \in Nat /\ l \in Nat
        BY <1>1, <1>4, LinesAre
      <4> QED BY <1>4, <2>3, <3>2, <4>1 DEF Real, Posting
    <3> QED BY <3>1, <3>2
  <2> QED BY <2>1, <2>2, <2>4
<1> HIDE DEF new
<1>6. \A v \in Worker : \A k \in Key :
         /\ found[v][k] \in Seq(Posting)
         /\ found'[v][k] = IF v = w THEN found[v][k] \o new(k) ELSE found[v][k]
  <2>1. \A v \in Worker : \A k \in Key : found[v][k] \in Seq(Posting)
    BY <1>0, PostingsAre DEF BuildTypes
  <2>2. found' = [found EXCEPT ![w] = [k \in Key |-> found[w][k] \o new(k)]]
    BY DEF Normalize, new
  <2>3. DOMAIN found = Worker
    BY <1>0 DEF BuildTypes
  <2> QED BY <2>1, <2>2, <2>3
<1>7. \A v \in Worker : \A k \in Key : \A p :
         p \in Range(found'[v][k]) <=> p \in Range(found[v][k]) \/ (v = w /\ p \in Range(new(k)))
  <2> TAKE v \in Worker
  <2> TAKE k \in Key
  <2>1. CASE v = w
    <3>1. \A s, t \in Seq(Posting) : Range(s \o t) = Range(s) \cup Range(t)
      BY RangeConcatenation
    <3>2. Range(found'[v][k]) = Range(found[v][k]) \cup Range(new(k))
      BY <1>5, <1>6, <2>1, <3>1
    <3> QED BY <2>1, <3>2
  <2>2. CASE v # w
    BY <1>6, <2>2
  <2> QED BY <2>1, <2>2
<1>8. \A v \in Worker : \A k \in Key : \A p \in Range(new(k)) : p \notin Range(found[v][k])
  BY <1>0, <1>4, <1>5 DEF FoundAll
<1>9. BuildTypes'
  <2>1. \A k \in Key : found[w][k] \o new(k) \in Postings
    <3>1. \A s, t \in Seq(Posting) : s \o t \in Seq(Posting)
      BY ConcatProperties
    <3> QED BY <1>5, <1>6, <3>1, PostingsAre
  <2>2. found' = [found EXCEPT ![w] = [k \in Key |-> found[w][k] \o new(k)]]
    BY DEF Normalize, new
  <2>3. found' \in [Worker -> [Key -> Postings]]
    BY <1>0, <2>1, <2>2 DEF BuildTypes
  <2> QED BY <1>0, <1>2, <2>3 DEF BuildTypes
<1>10. FoundOnce'
  <2>1. ASSUME NEW k \in Key, NEW v \in Worker PROVE Distinct(found'[v][k])
    <3>1. CASE v = w
      <4>1. /\ found[w][k] \in Seq(Posting) /\ new(k) \in Seq(Posting)
            /\ Distinct(found[w][k]) /\ Distinct(new(k))
            /\ \A p \in Range(found[w][k]) : p \notin Range(new(k))
        BY <1>0, <1>5, <1>6, <1>8 DEF FoundOnce
      <4>2. Distinct(found[w][k] \o new(k))
        BY <4>1, JoinDistinct
      <4> QED BY <1>6, <3>1, <4>2
    <3>2. CASE v # w
      BY <1>0, <1>6, <3>2 DEF FoundOnce
    <3> QED BY <3>1, <3>2
  <2>2. ASSUME NEW k \in Key, NEW u \in Worker, NEW v \in Worker, u # v
        PROVE  Range(found'[u][k]) \cap Range(found'[v][k]) = {}
    <3>1. Range(found[u][k]) \cap Range(found[v][k]) = {}
      BY <1>0, <2>2 DEF FoundOnce
    <3> QED BY <1>7, <1>8, <2>2, <3>1
  <2> QED BY <1>2, <2>1, <2>2 DEF FoundOnce
<1>11. FoundAll'
  <2> SUFFICES ASSUME NEW k \in Key, NEW p
               PROVE  (p \in Real(k) /\ p[1] <= cursor /\ ~InWork(p[1])')
                         <=> \E v \in Worker : p \in Range(found'[v][k])
    BY <1>2, <1>3 DEF FoundAll
  <2>1. (p \in Real(k) /\ p[1] <= cursor /\ ~InWork(p[1]))
                         <=> \E v \in Worker : p \in Range(found[v][k])
    BY <1>0 DEF FoundAll
  <2>2. (\E v \in Worker : p \in Range(found'[v][k]))
           <=> (\E v \in Worker : p \in Range(found[v][k])) \/ p \in Range(new(k))
    BY <1>7
  <2>3. p \in Range(new(k)) <=> p \in Real(k) /\ p[1] = mine[w]
    BY <1>5
  <2>4. mine[w] <= cursor
    BY <1>0, <1>2 DEF Claims
  <2>5. InWork(p[1])' <=> InWork(p[1]) /\ p[1] # mine[w]
    BY <1>4
  <2> QED BY <2>1, <2>2, <2>3, <2>4, <2>5
<1>12. Phases'
  <2>1. Uncapped' = Uncapped /\ SerialIndex' = SerialIndex
    BY <1>2 DEF Uncapped, SerialIndex, SerialIds, Contributes, SerialPostings, PostingsIn
  <2>3. main \notin {"spawn", "reap", "wait", "merge"}
    BY <1>0, <1>2 DEF Phases
  <2> QED BY <1>0, <1>2, <2>1, <2>3 DEF Phases
<1> QED BY <1>4, <1>9, <1>10, <1>11, <1>12 DEF BuildInv

-----------------------------------------------------------------------------
(* The steps of the main thread and of the coprocesses.                    *)

\* A step that leaves the threads' work, and what is merged and indexed, alone.
LEMMA OthersKeep ==
    ASSUME IInv, BuildInv,
           Spawn \/ CannotSpawn \/ CloseStdin \/ WaitPid \/ (\E w \in Worker : Gone(w))
             \/ (\E w \in Worker : NormalizerFatal(w)) \/ UNCHANGED vars
    PROVE  BuildInv'
<1>1. CASE CannotSpawn \/ \E w \in Worker : NormalizerFatal(w)
  BY <1>1 DEF CannotSpawn, NormalizerFatal, Abort, BuildInv
<1>2. CASE main = "aborted"
  BY <1>2 DEF Spawn, CannotSpawn, CloseStdin, WaitPid, Gone, NormalizerFatal, Abort, vars, BuildInv
<1>3. ASSUME main # "aborted",
             Spawn \/ CloseStdin \/ WaitPid \/ (\E w \in Worker : Gone(w)) \/ UNCHANGED vars
      PROVE  BuildInv'
  <2>0. BuildTypes /\ Claims /\ FoundOnce /\ FoundAll /\ Phases
    BY <1>3 DEF BuildInv
  <2>1. UNCHANGED Tracked /\ index' = index
    BY <1>3 DEF Spawn, CloseStdin, WaitPid, Gone, vars, Tracked
  <2>2. BuildTypes' /\ Claims' /\ FoundOnce' /\ FoundAll'
    BY <2>0, <2>1, ThreadsKept
  <2>3. /\ Uncapped' = Uncapped /\ SerialIndex' = SerialIndex /\ Worker' = Worker /\ jobs' = jobs
        /\ UNCHANGED <<files, thread, merged, found>>
    BY <2>1, ThreadsKept DEF Tracked
  <2>4. CASE main' = main /\ (main = "merge" => at' = at)
    <3>1. MergedSoFar /\ main = "merge" => MergedSoFar'
      BY <2>3, <2>4 DEF MergedSoFar
    <3>2. Phases'
      BY <2>0, <2>1, <2>3, <2>4, <3>1 DEF Phases
    <3> QED BY <2>2, <3>2 DEF BuildInv
  <2>5. CASE main \in {"reap", "wait"} /\ main' \in {"reap", "wait"}
    <3>1. Phases'
      BY <2>0, <2>1, <2>3, <2>5 DEF Phases
    <3> QED BY <2>2, <3>1 DEF BuildInv
  <2> QED BY <1>3, <2>4, <2>5 DEF Spawn, CloseStdin, WaitPid, Gone, vars
<1> QED BY <1>1, <1>2, <1>3

LEMMA StartKeeps == ASSUME IInv, BuildInv, StartThreads PROVE BuildInv'
<1>0. BuildTypes /\ Claims /\ FoundOnce /\ FoundAll /\ Phases
  BY DEF BuildInv, StartThreads
<1>1. /\ main = "spawn" /\ main' = "join" /\ thread' = [w \in Worker |-> "claim"]
      /\ UNCHANGED <<files, at, cursor, mine, found, merged, index>>
      /\ jobs' = jobs /\ Worker' = Worker
  BY DEF StartThreads, jobs, Worker
<1>2. \A w \in Worker : ~Busy(w) /\ ~Busy(w)' /\ thread'[w] = "claim"
  BY <1>0, <1>1 DEF Phases, Busy
<1>3. BuildTypes'
  BY <1>0, <1>1 DEF BuildTypes
<1>4. Claims'
  BY <1>1, <1>2 DEF Claims
<1>5. FoundOnce'
  BY <1>0, <1>1 DEF FoundOnce
<1>6. \A f : InWork(f)' <=> InWork(f)
  BY <1>1, <1>2 DEF InWork
<1>7. \A k : Real(k)' = Real(k)
  BY <1>1 DEF Real, LinesWith
<1>8. FoundAll'
  BY <1>0, <1>1, <1>6, <1>7 DEF FoundAll
<1>9. Phases'
  BY <1>0, <1>1 DEF Phases
<1> QED BY <1>3, <1>4, <1>5, <1>8, <1>9 DEF BuildInv

LEMMA JoinKeeps == ASSUME IInv, BuildInv, Join PROVE BuildInv'
<1>0. BuildTypes /\ Claims /\ FoundOnce /\ FoundAll /\ Phases
  BY DEF BuildInv, Join
<1>1. /\ main = "join" /\ main' = "reap" /\ UNCHANGED Tracked /\ index' = index
      /\ \A w \in Worker : thread[w] = "finished"
  BY DEF Join, Tracked
<1>2. BuildTypes' /\ Claims' /\ FoundOnce' /\ FoundAll' /\ Worker' = Worker
  BY <1>0, <1>1, ThreadsKept
<1>3. Phases'
  BY <1>0, <1>1, <1>2 DEF Phases, Tracked
<1> QED BY <1>2, <1>3 DEF BuildInv

LEMMA ReapedKeeps == ASSUME IInv, BuildInv, Reaped PROVE BuildInv'
<1>0. BuildTypes /\ Claims /\ FoundOnce /\ FoundAll /\ Phases
  BY DEF BuildInv, Reaped
<1>1. /\ main = "reap" /\ main' = "merge" /\ at' = 1 /\ UNCHANGED Tracked /\ index' = index
  BY DEF Reaped, Tracked
<1>2. BuildTypes' /\ Claims' /\ FoundOnce' /\ FoundAll' /\ Worker' = Worker /\ jobs' = jobs
  BY <1>0, <1>1, ThreadsKept
<1>3. jobs \in Nat /\ Worker = 1..jobs
  BY FilesType
<1>4. \A w \in Worker : ~(w < 1)
  BY <1>3
<1>5. merged' = NoLines /\ UNCHANGED <<files, thread, found>>
  BY <1>0, <1>1 DEF Phases, Tracked
<1>6. \A k \in Key : Distinct(merged'[k]) /\ \A p : p \notin Range(merged'[k])
  BY <1>5, NothingYet
<1>7. MergedSoFar'
  BY <1>1, <1>2, <1>3, <1>4, <1>5, <1>6 DEF MergedSoFar
<1>8. Phases'
  BY <1>0, <1>1, <1>2, <1>5, <1>7 DEF Phases
<1> QED BY <1>2, <1>8 DEF BuildInv

\* A list of what one more thread has found has nothing in common with those before.
LEMMA MergeKeeps == ASSUME IInv, BuildInv, Merge PROVE BuildInv'
<1>0. BuildTypes /\ Claims /\ FoundOnce /\ FoundAll /\ Phases
  BY DEF BuildInv, Merge
<1>1. /\ main = "merge" /\ main' = "merge" /\ at' = at + 1 /\ at <= jobs
      /\ merged' = [k \in Key |-> merged[k] \o found[at][k]]
      /\ UNCHANGED <<files, cursor, thread, mine, found, index>>
      /\ jobs' = jobs /\ Worker' = Worker
  BY DEF Merge, jobs, Worker
<1>2. jobs \in Nat /\ Worker = 1..jobs /\ at \in Nat \ {0} /\ at \in Worker
  BY <1>1, FilesType
<1>3. MergedSoFar
  BY <1>0, <1>1 DEF Phases
<1>4. \A k \in Key : /\ merged[k] \in Seq(Posting) /\ found[at][k] \in Seq(Posting)
                     /\ merged'[k] = merged[k] \o found[at][k]
  BY <1>0, <1>1, <1>2, PostingsAre DEF BuildTypes
<1>5. \A k \in Key : \A p \in Range(merged[k]) : p \notin Range(found[at][k])
  <2> SUFFICES ASSUME NEW k \in Key, NEW p \in Range(merged[k]), p \in Range(found[at][k])
               PROVE  FALSE
    OBVIOUS
  <2>1. PICK w \in Worker : w < at /\ p \in Range(found[w][k])
    BY <1>3 DEF MergedSoFar
  <2>2. w # at
    BY <1>2, <2>1
  <2> QED BY <1>0, <1>2, <2>1, <2>2 DEF FoundOnce
<1>6. \A k \in Key : Distinct(merged'[k])
  <2> TAKE k \in Key
  <2>1. Distinct(merged[k]) /\ Distinct(found[at][k])
    BY <1>0, <1>2, <1>3 DEF FoundOnce, MergedSoFar
  <2> QED BY <1>4, <1>5, <2>1, JoinDistinct
<1>7. \A k \in Key : \A p : p \in Range(merged'[k])
                              <=> \E w \in Worker : w < at' /\ p \in Range(found[w][k])
  <2> TAKE k \in Key
  <2>1. \A s, t \in Seq(Posting) : Range(s \o t) = Range(s) \cup Range(t)
    BY RangeConcatenation
  <2>2. Range(merged'[k]) = Range(merged[k]) \cup Range(found[at][k])
    BY <1>4, <2>1
  <2>3. \A w \in Worker : w < at' <=> w < at \/ w = at
    BY <1>1, <1>2
  <2> QED BY <1>2, <1>3, <2>2, <2>3 DEF MergedSoFar
<1>8. at' <= jobs + 1
  BY <1>1, <1>2
<1>9. MergedSoFar'
  BY <1>1, <1>6, <1>7, <1>8 DEF MergedSoFar
<1>10. BuildTypes'
  <2>1. \A k \in Key : merged[k] \o found[at][k] \in Postings
    <3>1. \A s, t \in Seq(Posting) : s \o t \in Seq(Posting)
      BY ConcatProperties
    <3> QED BY <1>4, <3>1, PostingsAre
  <2> QED BY <1>0, <1>1, <2>1 DEF BuildTypes
<1>11. Claims' /\ FoundOnce'
  BY <1>0, <1>1 DEF Claims, Busy, FoundOnce
<1>12. \A k : Real(k)' = Real(k)
  BY <1>1 DEF Real, LinesWith
<1>13. \A f : InWork(f)' <=> InWork(f)
  BY <1>1 DEF InWork, Busy
<1>14. FoundAll'
  BY <1>0, <1>1, <1>12, <1>13 DEF FoundAll
<1>15. Phases'
  BY <1>0, <1>1, <1>9 DEF Phases
<1> QED BY <1>10, <1>11, <1>14, <1>15 DEF BuildInv

\* All threads have finished: the index has everything, each posting once.
LEMMA CompactKeeps == ASSUME IInv, BuildInv, Compact PROVE BuildInv'
<1>0. BuildTypes /\ Claims /\ FoundOnce /\ FoundAll /\ Phases
  BY DEF BuildInv, Compact
<1>1. main = "merge" /\ main' = "write" /\ at > jobs /\ UNCHANGED Tracked
  BY DEF Compact, Tracked
<1>2. /\ BuildTypes' /\ Claims' /\ FoundOnce' /\ FoundAll' /\ Worker' = Worker
      /\ Uncapped' = Uncapped
  BY <1>0, <1>1, ThreadsKept
<1>3. /\ files \in Seq(TreeFile) /\ Len(files) \in Nat /\ jobs \in Nat /\ Worker = 1..jobs
      /\ at \in Nat \ {0} /\ jobs >= 1
  BY <1>0, <1>1, FilesType DEF Phases
<1>4. MergedSoFar /\ \A w \in Worker : thread[w] = "finished"
  BY <1>0, <1>1 DEF Phases
<1>5. /\ \A w \in Worker : w < at
      /\ cursor >= Len(files) /\ cursor \in Nat /\ \A w \in Worker : ~Busy(w)
  <2>1. 1 \in Worker
    BY <1>3
  <2> QED BY <1>0, <1>1, <1>3, <1>4, <2>1 DEF Claims, Busy, BuildTypes
<1>6. \A k \in Key : Range(merged[k]) = Real(k)
  <2> TAKE k \in Key
  <2>1. \A p \in Real(k) : p[1] <= cursor /\ ~InWork(p[1])
    BY <1>3, <1>5, RealIs DEF InWork
  <2>2. \A p : p \in Real(k) <=> \E w \in Worker : p \in Range(found[w][k])
    BY <1>0, <2>1 DEF FoundAll
  <2>3. \A p : p \in Range(merged[k]) <=> p \in Real(k)
    BY <1>4, <1>5, <2>2 DEF MergedSoFar
  <2> QED BY <2>3
<1>7. index' = Uncapped
  BY <1>0, <1>3, <1>4, <1>6, CompactIs DEF BuildTypes, MergedSoFar
<1>8. Phases'
  BY <1>0, <1>1, <1>2, <1>4, <1>7 DEF Phases, Tracked
<1> QED BY <1>2, <1>8 DEF BuildInv

\* The keys above the cap are left out, as in a serial build.
LEMMA WriteKeeps == ASSUME IInv, BuildInv, WriteIndex PROVE BuildInv' /\ index' = SerialIndex'
<1>0. BuildTypes /\ Claims /\ FoundOnce /\ FoundAll /\ Phases
  BY DEF BuildInv, WriteIndex
<1>1. /\ main = "write" /\ main' = "done" /\ UNCHANGED Tracked
      /\ index' = [index EXCEPT !.lines =
                      [k \in Key |-> IF Capped(index.lines[k]) THEN <<>> ELSE index.lines[k]]]
  BY DEF WriteIndex, Tracked
<1>2. /\ BuildTypes' /\ Claims' /\ FoundOnce' /\ FoundAll' /\ Worker' = Worker
      /\ SerialIndex' = SerialIndex
  BY <1>0, <1>1, ThreadsKept
<1>3. index = Uncapped
  BY <1>0, <1>1 DEF Phases
<1>4. index' = SerialIndex
  BY <1>1, <1>3 DEF Uncapped, SerialIndex
<1>5. Phases'
  BY <1>0, <1>1, <1>2, <1>4 DEF Phases, Tracked
<1> QED BY <1>2, <1>4, <1>5 DEF BuildInv

LEMMA BuildNext == IInv /\ BuildInv /\ [Next]_vars => BuildInv'
<1> SUFFICES ASSUME IInv, BuildInv, [Next]_vars PROVE BuildInv'
  OBVIOUS
<1>1. CASE Main
  BY <1>1, OthersKeep, StartKeeps, JoinKeeps, ReapedKeeps, MergeKeeps, CompactKeeps, WriteKeeps
     DEF Main
<1>2. CASE CannotSpawn \/ UNCHANGED vars
  BY <1>2, OthersKeep
<1>3. ASSUME NEW w \in Worker, ThreadStep(w) PROVE BuildInv'
  <2>1. CASE Claim(w)
    BY <2>1, ClaimKeeps
  <2>2. CASE Read(w)
    BY <2>2, ReadKeeps
  <2>3. CASE Normalize(w)
    BY <2>3, NormalizeKeeps
  <2>4. CASE NormalizerFatal(w)
    BY <2>4, OthersKeep
  <2> QED BY <1>3, <2>1, <2>2, <2>3, <2>4 DEF ThreadStep
<1>4. ASSUME NEW w \in Worker, EndOfInput(w) \/ Dies(w) PROVE BuildInv'
  <2>1. Gone(w)
    BY <1>4 DEF EndOfInput, Dies
  <2> QED BY <2>1, OthersKeep
<1> QED BY <1>1, <1>2, <1>3, <1>4 DEF Next

-----------------------------------------------------------------------------
(* Reading a file.                                                         *)

Ready(st) == "want" \in DOMAIN st /\ st.want # "end"

\* Index::load gets from state a to state b over the fields x, and is not at an end before.
Trace(tr, a, x, b) ==
    /\ tr[0] = a /\ tr[Len(x)] = b
    /\ \A n \in 1..Len(x) : tr[n] = Accept(tr[n - 1], x[n]) /\ Ready(tr[n - 1])
Runs(a, x, b) == \E tr : Trace(tr, a, x, b)

\* Where the fields lead is what load ends with.
LEMMA LoadIs ==
    ASSUME NEW S, NEW x \in Seq(S), NEW b, Runs(Opened, x, b)
    PROVE  Load(x) = IF b.want = "end" THEN b ELSE [b EXCEPT !.want = "dead"]
<1> DEFINE A(f) == [n \in 0..Len(x) |-> IF n = 0 THEN Opened ELSE Accept(f[n - 1], x[n])]
           f == CHOOSE g : g = A(g)
<1>1. PICK tr : Trace(tr, Opened, x, b)
  BY DEF Runs
<1>2. Len(x) \in Nat
  BY LenProperties
<1>3. \E g : g = A(g)
  <2> DEFINE g == [n \in 0..Len(x) |-> tr[n]]
  <2>1. ASSUME NEW n \in 0..Len(x) PROVE tr[n] = IF n = 0 THEN Opened ELSE Accept(g[n - 1], x[n])
    <3>1. CASE n = 0
      BY <1>1, <3>1 DEF Trace
    <3>2. CASE n # 0
      <4>1. n \in 1..Len(x) /\ n - 1 \in 0..Len(x)
        BY <1>2, <2>1, <3>2
      <4> QED BY <1>1, <3>2, <4>1 DEF Trace
    <3> QED BY <3>1, <3>2
  <2>2. g = A(g)
    BY <2>1
  <2> QED BY <2>2
<1>4. f = A(f)
  <2> HIDE DEF A
  <2> QED BY <1>3
<1>5. \A n \in 0..Len(x) : f[n] = IF n = 0 THEN Opened ELSE Accept(f[n - 1], x[n])
  <2> HIDE DEF f
  <2> QED BY <1>4
<1>6. f[Len(x)] = b
  <2> HIDE DEF f
  <2> DEFINE T == {n \in 0..Len(x) : f[n] = tr[n]}
  <2>1. 0 \in T
    BY <1>1, <1>2, <1>5 DEF Trace
  <2>2. ASSUME NEW n \in 0..(Len(x) - 1), n \in T PROVE n + 1 \in T
    <3>1. n + 1 \in 1..Len(x) /\ n + 1 \in 0..Len(x) /\ (n + 1) - 1 = n /\ n + 1 # 0
      BY <1>2, <2>2
    <3>2. f[n + 1] = Accept(f[n], x[n + 1])
      BY <1>5, <3>1
    <3>3. tr[n + 1] = Accept(tr[n], x[n + 1])
      BY <1>1, <3>1 DEF Trace
    <3> QED BY <2>2, <3>1, <3>2, <3>3
  <2> HIDE DEF T
  <2>3. \A n \in 0..Len(x) : n \in T
    BY <1>2, <2>1, <2>2, UpTo
  <2>4. f[Len(x)] = tr[Len(x)]
    BY <1>2, <2>3 DEF T
  <2> QED BY <1>1, <2>4 DEF Trace
<1>7. Load(x) = IF f[Len(x)].want = "end" THEN f[Len(x)] ELSE [f[Len(x)] EXCEPT !.want = "dead"]
  BY Zenon DEF Load
<1> QED BY <1>6, <1>7

\* A file that is cut: the end of the file is reached first.
LEMMA CutIsDead ==
    ASSUME NEW S, NEW x \in Seq(S), NEW b, Runs(Opened, x, b), NEW n \in 0..(Len(x) - 1)
    PROVE  Load(SubSeq(x, 1, n)).want = "dead"
<1> DEFINE y == SubSeq(x, 1, n)
<1>1. PICK tr : Trace(tr, Opened, x, b)
  BY DEF Runs
<1>2. Len(x) \in Nat /\ n \in Int
  BY LenProperties
<1>3. y \in Seq(S) /\ Len(y) = n /\ \A i \in 1..n : y[i] = x[i]
  BY <1>2, PartOfSeq
<1>4. n + 1 \in 1..Len(x) /\ (n + 1) - 1 = n
  BY <1>2
<1>5. Ready(tr[n])
  BY <1>1, <1>4 DEF Trace
<1>6. \A i \in 1..n : i \in 1..Len(x)
  BY <1>2
<1> HIDE DEF y
<1>7. Runs(Opened, y, tr[n])
  BY <1>1, <1>3, <1>6 DEF Runs, Trace
<1>8. Load(y) = IF tr[n].want = "end" THEN tr[n] ELSE [tr[n] EXCEPT !.want = "dead"]
  BY <1>3, <1>7, LoadIs
<1>9. Load(y) = [tr[n] EXCEPT !.want = "dead"]
  BY <1>5, <1>8 DEF Ready
<1> QED BY <1>5, <1>9 DEF y, Ready

\* A run over one field.
LEMMA OneRun ==
    ASSUME NEW a, NEW f, NEW b, Ready(a), Accept(a, f) = b
    PROVE  Runs(a, <<f>>, b)
<1> DEFINE tr == [n \in 0..1 |-> IF n = 0 THEN a ELSE b]
<1>1. tr[0] = a /\ tr[1] = b /\ Len(<<f>>) = 1 /\ <<f>>[1] = f
  OBVIOUS
<1> HIDE DEF tr
<1>2. \A n \in 1..1 : n = 1
  OBVIOUS
<1>3. Trace(tr, a, <<f>>, b)
  <2>1. ASSUME NEW n \in 1..Len(<<f>>)
        PROVE  tr[n] = Accept(tr[n - 1], <<f>>[n]) /\ Ready(tr[n - 1])
    <3>1. n = 1 /\ n - 1 = 0
      BY <1>1
    <3> QED BY <1>1, <3>1
  <2> QED BY <1>1, <2>1 DEF Trace
<1> QED BY <1>3 DEF Runs

LEMMA NoRun == ASSUME NEW a PROVE Runs(a, <<>>, a)
<1>1. Trace([n \in 0..0 |-> a], a, <<>>, a)
  BY DEF Trace
<1> QED BY <1>1 DEF Runs

\* Two runs, one after the other.
LEMMA RunsOn ==
    ASSUME NEW S, NEW x \in Seq(S), NEW y \in Seq(S), NEW a, NEW b, NEW c,
           Runs(a, x, b), Runs(b, y, c)
    PROVE  Runs(a, x \o y, c)
<1>1. PICK s : Trace(s, a, x, b)
  BY DEF Runs
<1>2. PICK t : Trace(t, b, y, c)
  BY DEF Runs
<1>3. Len(x) \in Nat /\ Len(y) \in Nat /\ Len(x \o y) = Len(x) + Len(y)
      /\ \A n \in 1..(Len(x) + Len(y)) :
            (x \o y)[n] = IF n <= Len(x) THEN x[n] ELSE y[n - Len(x)]
  BY LenProperties, ConcatProperties
<1> DEFINE tr == [n \in 0..(Len(x) + Len(y)) |-> IF n <= Len(x) THEN s[n] ELSE t[n - Len(x)]]
<1>4. \A n \in 0..Len(x) : tr[n] = s[n]
  BY <1>3
<1>5. \A n \in Len(x)..(Len(x) + Len(y)) : tr[n] = t[n - Len(x)]
  <2> TAKE n \in Len(x)..(Len(x) + Len(y))
  <2>1. CASE n = Len(x)
    <3>1. n - Len(x) = 0 /\ n \in 0..Len(x)
      BY <1>3, <2>1
    <3> QED BY <1>1, <1>2, <1>4, <2>1, <3>1 DEF Trace
  <2>2. CASE n # Len(x)
    BY <1>3, <2>2
  <2> QED BY <2>1, <2>2
<1> HIDE DEF tr
<1>6. \A n \in 1..(Len(x) + Len(y)) :
         tr[n] = Accept(tr[n - 1], (x \o y)[n]) /\ Ready(tr[n - 1])
  <2> TAKE n \in 1..(Len(x) + Len(y))
  <2>1. CASE n <= Len(x)
    <3>1. n \in 1..Len(x) /\ n \in 0..Len(x) /\ n - 1 \in 0..Len(x) /\ (x \o y)[n] = x[n]
      BY <1>3, <2>1
    <3> QED BY <1>1, <1>4, <3>1 DEF Trace
  <2>2. CASE ~(n <= Len(x))
    <3>1. n - Len(x) \in 1..Len(y) /\ n \in Len(x)..(Len(x) + Len(y))
          /\ n - 1 \in Len(x)..(Len(x) + Len(y)) /\ (n - 1) - Len(x) = (n - Len(x)) - 1
          /\ (x \o y)[n] = y[n - Len(x)]
      BY <1>3, <2>2
    <3> QED BY <1>2, <1>5, <3>1 DEF Trace
  <2> QED BY <2>1, <2>2
<1>7. tr[0] = a /\ tr[Len(x) + Len(y)] = c
  <2>1. 0 \in 0..Len(x) /\ Len(x) + Len(y) \in Len(x)..(Len(x) + Len(y))
        /\ (Len(x) + Len(y)) - Len(x) = Len(y)
    BY <1>3
  <2> QED BY <1>1, <1>2, <1>4, <1>5, <2>1 DEF Trace
<1>8. Trace(tr, a, x \o y, c)
  BY <1>3, <1>6, <1>7 DEF Trace
<1> QED BY <1>8 DEF Runs

Loading(w, nf, nk, np, k, norm, has) ==
    [want |-> w, files |-> nf, keys |-> nk, postings |-> np, key |-> k,
     normalized |-> norm, has |-> has]

LEMMA ReadyIs ==
    ASSUME NEW w, NEW nf, NEW nk, NEW np, NEW k, NEW norm, NEW has, w # "end"
    PROVE  Ready(Loading(w, nf, nk, np, k, norm, has))
BY DEF Ready, Loading

\* Accept, one case of it for each kind of field.
LEMMA AcceptMagic ==
    ASSUME NEW nf, NEW nk, NEW np, NEW k, NEW norm, NEW has
    PROVE  Accept(Loading("magic", nf, nk, np, k, norm, has), Num(Magic))
              = Loading("version", nf, nk, np, k, norm, has)
BY DEF Accept, Loading, Num

LEMMA AcceptVersion ==
    ASSUME NEW v, NEW nf, NEW nk, NEW np, NEW k, NEW norm, NEW has
    PROVE  /\ v = 1 => Accept(Loading("version", nf, nk, np, k, norm, has), Num(v))
                          = Loading("min_len", nf, nk, np, k, norm, has)
           /\ v = 2 => Accept(Loading("version", nf, nk, np, k, norm, has), Num(v))
                          = Loading("flags", nf, nk, np, k, norm, has)
           /\ v \notin {1, 2} => Accept(Loading("version", nf, nk, np, k, norm, has), Num(v))
                                   = Loading("dead", nf, nk, np, k, norm, has)
<1>1. CASE v = 1
  BY <1>1 DEF Accept, Loading, Num
<1>2. CASE v = 2
  BY <1>2 DEF Accept, Loading, Num
<1>3. CASE v \notin {1, 2}
  BY <1>3 DEF Accept, Loading, Num
<1> QED BY <1>1, <1>2, <1>3

LEMMA AcceptFlags ==
    ASSUME NEW nf, NEW nk, NEW np, NEW k, NEW norm, NEW has
    PROVE  /\ Accept(Loading("flags", nf, nk, np, k, norm, has), Num(1))
                = Loading("min_len", nf, nk, np, k, TRUE, has)
           /\ Accept(Loading("flags", nf, nk, np, k, norm, has), Num(0))
                = Loading("min_len", nf, nk, np, k, FALSE, has)
<1> DEFINE st == Loading("flags", nf, nk, np, k, norm, has)
<1>1. st.want = "flags"
  BY DEF Loading
<1>2. (Num(1).n % 2 = 1) = TRUE /\ (Num(0).n % 2 = 1) = FALSE
  <2>1. 1 % 2 = 1 /\ 0 % 2 = 0
    OBVIOUS
  <2> QED BY <2>1 DEF Num
<1>3. \A f : Accept(st, f) = [st EXCEPT !.want = "min_len", !.normalized = (f.n % 2 = 1)]
  <2> HIDE DEF st
  <2> QED BY <1>1, Zenon DEF Accept
<1>4. /\ Accept(st, Num(1)) = [st EXCEPT !.want = "min_len", !.normalized = TRUE]
      /\ Accept(st, Num(0)) = [st EXCEPT !.want = "min_len", !.normalized = FALSE]
  <2> HIDE DEF st
  <2> QED BY <1>2, <1>3
<1> QED BY <1>4 DEF Loading

LEMMA AcceptSizes ==
    ASSUME NEW n, NEW nf, NEW nk, NEW np, NEW k, NEW norm, NEW has
    PROVE  /\ Accept(Loading("min_len", nf, nk, np, k, norm, has), Num(n))
                = Loading("max_postings", nf, nk, np, k, norm, has)
           /\ Accept(Loading("max_postings", nf, nk, np, k, norm, has), Num(n))
                = Loading("file_count", nf, nk, np, k, norm, has)
BY DEF Accept, Loading, Num

\* Paths are read while there are any, then the count of the keys.
LEMMA OnwardFromFiles ==
    ASSUME NEW w \in {"file_count", "path"}, NEW nf \in Int, NEW nk, NEW k, NEW norm, NEW has
    PROVE  Onward(Loading(w, nf, nk, 0, k, norm, has))
              = Loading(IF nf > 0 THEN "path" ELSE "key_count", nf, nk, 0, k, norm, has)
<1> DEFINE st == Loading(w, nf, nk, 0, k, norm, has)
           to == IF nf > 0 THEN "path" ELSE "key_count"
<1>1. st.want = w /\ st.files = nf /\ st.postings = 0 /\ ~(0 > 0)
  BY DEF Loading
<1>2. Onward(st) = [st EXCEPT !.want = to]
  <2> HIDE DEF st
  <2> QED BY <1>1 DEF Onward
<1>3. [st EXCEPT !.want = to] = Loading(to, nf, nk, 0, k, norm, has)
  <2> HIDE DEF to
  <2> QED BY DEF Loading
<1> QED BY <1>2, <1>3

\* Postings are read while there are any, then the next key.
LEMMA OnwardFromKeys ==
    ASSUME NEW w \in {"key_count", "count", "posting"}, NEW nf, NEW nk \in Int, NEW np \in Int,
           NEW k, NEW norm, NEW has
    PROVE  Onward(Loading(w, nf, nk, np, k, norm, has))
              = Loading(IF np > 0 THEN "posting" ELSE IF nk > 0 THEN "key" ELSE "end",
                        nf, nk, np, k, norm, has)
<1> DEFINE st == Loading(w, nf, nk, np, k, norm, has)
           to == IF np > 0 THEN "posting" ELSE IF nk > 0 THEN "key" ELSE "end"
<1>1. st.want = w /\ st.postings = np /\ st.keys = nk /\ w \notin {"file_count", "path"}
  BY DEF Loading
<1>2. Onward(st) = [st EXCEPT !.want = to]
  <2> HIDE DEF st
  <2>1. CASE np > 0
    BY <1>1, <2>1 DEF Onward
  <2>2. CASE ~(np > 0)
    BY <1>1, <2>2 DEF Onward
  <2> QED BY <2>1, <2>2
<1>3. [st EXCEPT !.want = to] = Loading(to, nf, nk, np, k, norm, has)
  <2> HIDE DEF to
  <2> QED BY DEF Loading
<1> QED BY <1>2, <1>3

LEMMA AcceptFileCount ==
    ASSUME NEW n \in Int, NEW nf, NEW nk, NEW k, NEW norm, NEW has
    PROVE  Accept(Loading("file_count", nf, nk, 0, k, norm, has), Num(n))
              = Loading(IF n > 0 THEN "path" ELSE "key_count", n, nk, 0, k, norm, has)
<1>1. Accept(Loading("file_count", nf, nk, 0, k, norm, has), Num(n))
        = Onward(Loading("file_count", n, nk, 0, k, norm, has))
  BY DEF Accept, Loading, Num
<1> QED BY <1>1, OnwardFromFiles

LEMMA AcceptPath ==
    ASSUME NEW nf \in Int, NEW nk, NEW k, NEW norm, NEW fs, NEW ls, NEW s
    PROVE  Accept(Loading("path", nf, nk, 0, k, norm, [files |-> fs, lines |-> ls]), Str(s))
              = Loading(IF nf - 1 > 0 THEN "path" ELSE "key_count", nf - 1, nk, 0, k, norm,
                        [files |-> Append(fs, s), lines |-> ls])
<1> DEFINE has == [files |-> fs, lines |-> ls]
           new == [files |-> Append(fs, s), lines |-> ls]
<1> DEFINE st == Loading("path", nf, nk, 0, k, norm, has)
           f == Str(s)
<1>1. st.want = "path" /\ f.s = s
  BY DEF Loading, Str
<1>2. Accept(st, f) = Onward([st EXCEPT !.files = @ - 1, !.has.files = Append(@, f.s)])
  <2> HIDE DEF st, f
  <2> QED BY <1>1 DEF Accept
<1>3. Accept(st, f) = Onward([[st EXCEPT !.files = nf - 1]
                                   EXCEPT !.has = [has EXCEPT !.files = Append(fs, s)]])
  <2>1. st.files = nf /\ st.has = has /\ has.files = fs
    BY DEF Loading
  <2> HIDE DEF st, f, has
  <2> QED BY <1>1, <1>2, <2>1
<1>4. [st EXCEPT !.files = nf - 1] = Loading("path", nf - 1, nk, 0, k, norm, has)
  <2> HIDE DEF has
  <2> QED BY DEF Loading
<1>5. \A x, z : [Loading("path", x, nk, 0, k, norm, has) EXCEPT !.has = z]
                   = Loading("path", x, nk, 0, k, norm, z)
  <2> HIDE DEF has
  <2> QED BY DEF Loading
<1>6. [has EXCEPT !.files = Append(fs, s)] = new
  <2>1. \A z : [has EXCEPT !.files = z] = [files |-> z, lines |-> ls]
    OBVIOUS
  <2> QED BY <2>1
<1>7. Accept(st, f) = Onward(Loading("path", nf - 1, nk, 0, k, norm, new))
  BY <1>3, <1>4, <1>5, <1>6
<1>8. nf - 1 \in Int
  OBVIOUS
<1> HIDE DEF new
<1>9. Onward(Loading("path", nf - 1, nk, 0, k, norm, new))
        = Loading(IF nf - 1 > 0 THEN "path" ELSE "key_count", nf - 1, nk, 0, k, norm, new)
  BY <1>8, OnwardFromFiles
<1> QED BY <1>7, <1>9 DEF new

LEMMA AcceptKeyCount ==
    ASSUME NEW n \in Int, NEW nf, NEW nk, NEW k, NEW norm, NEW has
    PROVE  Accept(Loading("key_count", nf, nk, 0, k, norm, has), Num(n))
              = Loading(IF n > 0 THEN "key" ELSE "end", nf, n, 0, k, norm, has)
<1>1. Accept(Loading("key_count", nf, nk, 0, k, norm, has), Num(n))
        = Onward(Loading("key_count", nf, n, 0, k, norm, has))
  BY DEF Accept, Loading, Num
<1>2. ~(0 > 0) /\ 0 \in Int
  OBVIOUS
<1>3. Onward(Loading("key_count", nf, n, 0, k, norm, has))
        = Loading(IF 0 > 0 THEN "posting" ELSE IF n > 0 THEN "key" ELSE "end",
                  nf, n, 0, k, norm, has)
  BY <1>2, OnwardFromKeys
<1> QED BY <1>1, <1>2, <1>3

LEMMA AcceptKey ==
    ASSUME NEW nf, NEW nk \in Int, NEW np, NEW k, NEW norm, NEW has, NEW c
    PROVE  Accept(Loading("key", nf, nk, np, k, norm, has), Str(c))
              = Loading("count", nf, nk - 1, np, c, norm, has)
BY DEF Accept, Loading, Str

LEMMA AcceptCount ==
    ASSUME NEW n \in Int, NEW nf, NEW nk \in Int, NEW np, NEW k, NEW norm, NEW has
    PROVE  Accept(Loading("count", nf, nk, np, k, norm, has), Num(n))
              = Loading(IF n > 0 THEN "posting" ELSE IF nk > 0 THEN "key" ELSE "end", nf, nk, n, k,
                        norm, has)
<1>1. Accept(Loading("count", nf, nk, np, k, norm, has), Num(n))
        = Onward(Loading("count", nf, nk, n, k, norm, has))
  BY DEF Accept, Loading, Num
<1> QED BY <1>1, OnwardFromKeys

Occurrence(i, j) == [file_id |-> i, lineno |-> j]

Noted(ls, k, i, j) == [ls EXCEPT ![k] = Append(ls[k], <<i, j>>)]

LEMMA AcceptPosting ==
    ASSUME NEW nf, NEW nk \in Int, NEW np \in Int, NEW k, NEW norm, NEW fs, NEW ls, NEW i, NEW j
    PROVE  Accept(Loading("posting", nf, nk, np, k, norm, [files |-> fs, lines |-> ls]),
                  Occurrence(i, j))
              = Loading(IF np - 1 > 0 THEN "posting" ELSE IF nk > 0 THEN "key" ELSE "end", nf, nk,
                        np - 1, k, norm,
                        [files |-> fs, lines |-> Noted(ls, k, i, j)])
<1> DEFINE has == [files |-> fs, lines |-> ls]
           new == [files |-> fs, lines |-> Noted(ls, k, i, j)]
<1> DEFINE st == Loading("posting", nf, nk, np, k, norm, has)
           f == Occurrence(i, j)
<1>1. st.want = "posting" /\ st.key = k /\ f.file_id = i /\ f.lineno = j
  BY DEF Loading, Occurrence
<1>2. Accept(st, f)
        = Onward([st EXCEPT !.postings = @ - 1,
                            !.has.lines[k] = Append(@, <<i, j>>)])
  <2> HIDE DEF st, f
  <2> QED BY <1>1 DEF Accept
<1> DEFINE z == Append(ls[k], <<i, j>>)
<1>3. Accept(st, f) = Onward([[st EXCEPT !.postings = np - 1]
                                   EXCEPT !.has = [has EXCEPT !.lines = [ls EXCEPT ![k] = z]]])
  <2>1. st.postings = np /\ st.has = has /\ has.lines = ls
    BY DEF Loading
  <2> HIDE DEF st, f, has
  <2> QED BY <1>1, <1>2, <2>1
<1>4. [st EXCEPT !.postings = np - 1] = Loading("posting", nf, nk, np - 1, k, norm, has)
  <2> HIDE DEF has
  <2> QED BY DEF Loading
<1>5. \A x, y : [Loading("posting", nf, nk, x, k, norm, has) EXCEPT !.has = y]
                   = Loading("posting", nf, nk, x, k, norm, y)
  <2> HIDE DEF has
  <2> QED BY DEF Loading
<1>6. [has EXCEPT !.lines = [ls EXCEPT ![k] = z]]
        = [files |-> fs, lines |-> [ls EXCEPT ![k] = z]]
  <2> HIDE DEF z
  <2> QED OBVIOUS
<1>7. Accept(st, f) = Onward(Loading("posting", nf, nk, np - 1, k, norm, new))
  BY <1>3, <1>4, <1>5, <1>6 DEF Noted
<1>8. np - 1 \in Int
  OBVIOUS
<1> HIDE DEF new
<1>9. Onward(Loading("posting", nf, nk, np - 1, k, norm, new))
        = Loading(IF np - 1 > 0 THEN "posting" ELSE IF nk > 0 THEN "key" ELSE "end", nf, nk, np - 1,
                  k, norm, new)
  BY <1>8, OnwardFromKeys
<1> QED BY <1>7, <1>9 DEF new

\* The paths: after n of them.
LEMMA PathsRun ==
    ASSUME NEW fs \in Seq(Name), NEW norm
    PROVE  Runs(Loading(IF Len(fs) > 0 THEN "path" ELSE "key_count", Len(fs), 0, 0, BlankKey, norm,
                        NoIndex),
                [f \in DOMAIN fs |-> Str(fs[f])],
                Loading("key_count", 0, 0, 0, BlankKey, norm, [files |-> fs, lines |-> NoLines]))
<1> DEFINE N == Len(fs)
           x == [f \in DOMAIN fs |-> Str(fs[f])]
           st(n) == Loading(IF N - n > 0 THEN "path" ELSE "key_count", N - n, 0, 0, BlankKey, norm,
                            [files |-> SubSeq(fs, 1, n), lines |-> NoLines])
           tr == [n \in 0..N |-> st(n)]
<1>1. N \in Nat /\ DOMAIN fs = 1..N
  BY LenProperties
<1>2. Len(x) = N /\ \A n \in 1..N : x[n] = Str(fs[n])
  <2>1. \A n \in 1..N : Str(fs[n]) \in {Str(fs[m]) : m \in 1..N}
    OBVIOUS
  <2>2. x \in [1..N -> {Str(fs[m]) : m \in 1..N}]
    BY <1>1, <2>1
  <2> QED BY <1>1, <2>2, FunctionIsSeq
<1>3. st(0) = Loading(IF N > 0 THEN "path" ELSE "key_count", N, 0, 0, BlankKey, norm, NoIndex)
  <2>1. SubSeq(fs, 1, 0) = <<>>
    BY SubSeqProperties, EmptySeq
  <2> QED BY <1>1, <2>1 DEF NoIndex
<1>4. st(N) = Loading("key_count", 0, 0, 0, BlankKey, norm, [files |-> fs, lines |-> NoLines])
  <2>1. SubSeq(fs, 1, N) = fs
    BY SubSeqFull
  <2>2. N - N = 0 /\ ~(0 > 0)
    BY <1>1
  <2> QED BY <2>1, <2>2
<1>5. ASSUME NEW n \in 1..N PROVE st(n) = Accept(st(n - 1), Str(fs[n])) /\ Ready(st(n - 1))
  <2>1. n - 1 \in 0..(N - 1) /\ (n - 1) + 1 = n /\ N - (n - 1) \in Int /\ N - (n - 1) > 0
        /\ (N - (n - 1)) - 1 = N - n
    BY <1>1, <1>5
  <2>2. SubSeq(fs, 1, n) = Append(SubSeq(fs, 1, n - 1), fs[n])
    BY <2>1, OneMore
  <2>3. st(n - 1) = Loading("path", N - (n - 1), 0, 0, BlankKey, norm,
                            [files |-> SubSeq(fs, 1, n - 1), lines |-> NoLines])
    BY <2>1
  <2>4. Ready(st(n - 1))
    BY <2>3, ReadyIs
  <2>5. \A r \in Int : \A z, y :
           Accept(Loading("path", r, 0, 0, BlankKey, norm, [files |-> z, lines |-> NoLines]), Str(y))
             = Loading(IF r - 1 > 0 THEN "path" ELSE "key_count", r - 1, 0, 0, BlankKey, norm,
                       [files |-> Append(z, y), lines |-> NoLines])
    BY AcceptPath
  <2>6. \A z, y : Accept(Loading("path", N - (n - 1), 0, 0, BlankKey, norm,
                        [files |-> z, lines |-> NoLines]), Str(y))
          = Loading(IF (N - (n - 1)) - 1 > 0 THEN "path" ELSE "key_count", (N - (n - 1)) - 1,
                    0, 0, BlankKey, norm, [files |-> Append(z, y), lines |-> NoLines])
    BY <2>1, <2>5
  <2> QED BY <2>1, <2>2, <2>3, <2>4, <2>6
<1>6. \A n \in 0..N : tr[n] = st(n)
  OBVIOUS
<1>7. \A n \in 1..N : n \in 0..N /\ n - 1 \in 0..N
  BY <1>1
<1>8. tr[0] = st(0) /\ tr[N] = st(N)
  BY <1>1, <1>6
<1> HIDE DEF tr, st, x
<1>9. Trace(tr, st(0), x, st(N))
  BY <1>2, <1>5, <1>6, <1>7, <1>8 DEF Trace
<1> QED BY <1>3, <1>4, <1>9 DEF Runs, x

\* The postings of a key.
LEMMA PostingsRun ==
    ASSUME NEW ps \in Seq(Posting), NEW nk \in Int, NEW k, NEW norm, NEW fs, NEW ls,
           k \in DOMAIN ls
    PROVE  Runs(Loading(IF Len(ps) > 0 THEN "posting" ELSE IF nk > 0 THEN "key" ELSE "end",
                        0, nk, Len(ps), k, norm,
                        [files |-> fs, lines |-> [ls EXCEPT ![k] = <<>>]]),
                [n \in DOMAIN ps |-> Occurrence(ps[n][1], ps[n][2])],
                Loading(IF nk > 0 THEN "key" ELSE "end", 0, nk, 0, k, norm,
                        [files |-> fs, lines |-> [ls EXCEPT ![k] = ps]]))
<1> DEFINE N == Len(ps)
           f(n) == Occurrence(ps[n][1], ps[n][2])
           x == [n \in DOMAIN ps |-> f(n)]
           to(np) == IF np > 0 THEN "posting" ELSE IF nk > 0 THEN "key" ELSE "end"
           st(n) == Loading(to(N - n), 0, nk, N - n, k, norm,
                            [files |-> fs, lines |-> [ls EXCEPT ![k] = SubSeq(ps, 1, n)]])
           tr == [n \in 0..N |-> st(n)]
<1>1. N \in Nat /\ DOMAIN ps = 1..N /\ \A n \in 1..N : ps[n] \in Posting
  BY LenProperties, ElementOfSeq
<1>2. Len(x) = N /\ \A n \in 1..N : x[n] = f(n)
  <2>1. \A n \in 1..N : f(n) \in {f(m) : m \in 1..N}
    OBVIOUS
  <2>2. x \in [1..N -> {f(m) : m \in 1..N}]
    BY <1>1, <2>1
  <2> QED BY <1>1, <2>2, FunctionIsSeq
<1>3. st(0) = Loading(to(N), 0, nk, N, k, norm,
                      [files |-> fs, lines |-> [ls EXCEPT ![k] = <<>>]])
  <2>1. SubSeq(ps, 1, 0) = <<>> /\ N - 0 = N
    BY <1>1, SubSeqProperties, EmptySeq
  <2> QED BY <2>1
<1>4. st(N) = Loading(IF nk > 0 THEN "key" ELSE "end", 0, nk, 0, k, norm,
                      [files |-> fs, lines |-> [ls EXCEPT ![k] = ps]])
  <2>1. SubSeq(ps, 1, N) = ps
    BY SubSeqFull
  <2>2. N - N = 0 /\ ~(0 > 0)
    BY <1>1
  <2> QED BY <2>1, <2>2
<1>5. ASSUME NEW n \in 1..N PROVE st(n) = Accept(st(n - 1), f(n)) /\ Ready(st(n - 1))
  <2>1. n - 1 \in 0..(N - 1) /\ (n - 1) + 1 = n /\ N - (n - 1) \in Int /\ N - (n - 1) > 0
        /\ (N - (n - 1)) - 1 = N - n
    BY <1>1, <1>5
  <2> DEFINE t == SubSeq(ps, 1, n - 1)
             before == [ls EXCEPT ![k] = t]
  <2>2. SubSeq(ps, 1, n) = Append(t, ps[n]) /\ ps[n] = <<ps[n][1], ps[n][2]>>
    <3>1. SubSeq(ps, 1, n) = Append(t, ps[n])
      BY <2>1, OneMore
    <3>2. ps[n] \in Posting
      BY <1>1
    <3> QED BY <3>1, <3>2 DEF Posting
  <2>3. st(n - 1) = Loading("posting", 0, nk, N - (n - 1), k, norm,
                            [files |-> fs, lines |-> before])
    BY <2>1
  <2>4. Ready(st(n - 1))
    BY <2>3, ReadyIs
  <2>5. Accept(st(n - 1), f(n))
          = Loading(to(N - n), 0, nk, N - n, k, norm,
                    [files |-> fs,
                     lines |-> [before EXCEPT ![k] = Append(before[k], <<ps[n][1], ps[n][2]>>)]])
    <3> DEFINE id == ps[n][1]
               no == ps[n][2]
               m == N - (n - 1)
    <3>0. m \in Int
      BY <2>1
    <3>1. m - 1 = N - n
      BY <2>1
    <3> HIDE DEF id, no, m, before
    <3>2. Accept(Loading("posting", 0, nk, m, k, norm, [files |-> fs, lines |-> before]),
                 Occurrence(id, no))
            = Loading(IF m - 1 > 0 THEN "posting" ELSE IF nk > 0 THEN "key" ELSE "end", 0, nk,
                      m - 1, k, norm, [files |-> fs, lines |-> Noted(before, k, id, no)])
      BY <3>0, AcceptPosting
    <3> QED BY <2>3, <3>1, <3>2 DEF id, no, m, Noted
  <2>6. [before EXCEPT ![k] = Append(before[k], <<ps[n][1], ps[n][2]>>)]
          = [ls EXCEPT ![k] = SubSeq(ps, 1, n)]
    <3>1. before[k] = t
      OBVIOUS
    <3> HIDE DEF t
    <3>2. [before EXCEPT ![k] = Append(t, ps[n])] = [ls EXCEPT ![k] = Append(t, ps[n])]
      OBVIOUS
    <3> QED BY <2>2, <3>1, <3>2
  <2> QED BY <2>4, <2>5, <2>6
<1>6. \A n \in 0..N : tr[n] = st(n)
  OBVIOUS
<1>7. \A n \in 1..N : n \in 0..N /\ n - 1 \in 0..N
  BY <1>1
<1>8. tr[0] = st(0) /\ tr[N] = st(N)
  BY <1>1, <1>6
<1> HIDE DEF tr, st, x
<1>9. Trace(tr, st(0), x, st(N))
  BY <1>2, <1>5, <1>6, <1>7, <1>8 DEF Trace
<1> QED BY <1>3, <1>4, <1>9 DEF Runs, x

Field == [n : Nat] \cup [s : Name \cup Key] \cup [file_id : Nat, lineno : Nat]

\* Every field that is written is a field.
LEMMA FieldsAre ==
    /\ \A n \in Nat : Num(n) \in Field /\ <<Num(n)>> \in Seq(Field)
    /\ \A s \in Name \cup Key : Str(s) \in Field /\ <<Str(s)>> \in Seq(Field)
    /\ \A i, j \in Nat : Occurrence(i, j) \in Field
<1>1. \A n \in Nat : Num(n) \in Field
  BY DEF Num, Field
<1>2. \A s \in Name \cup Key : Str(s) \in Field
  BY DEF Str, Field
<1>3. \A i, j \in Nat : Occurrence(i, j) \in Field
  BY DEF Occurrence, Field
<1>4. \A x \in Field : <<x>> \in Seq(Field)
  OBVIOUS
<1> QED BY <1>1, <1>2, <1>3, <1>4

\* One key with its postings.
LEMMA KeyRuns ==
    ASSUME NEW ps \in Seq(Posting), NEW nk \in Nat \ {0}, NEW k \in Key, NEW c, NEW norm, NEW fs,
           NEW ls \in [Key -> Postings], ls[k] = <<>>
    PROVE  /\ KeyFields(k, ps) \in Seq(Field)
           /\ Runs(Loading("key", 0, nk, 0, c, norm, [files |-> fs, lines |-> ls]),
                   KeyFields(k, ps),
                   Loading(IF nk - 1 > 0 THEN "key" ELSE "end", 0, nk - 1, 0, k, norm,
                           [files |-> fs, lines |-> [ls EXCEPT ![k] = ps]]))
<1> DEFINE x == [n \in DOMAIN ps |-> Occurrence(ps[n][1], ps[n][2])]
           a == Loading("key", 0, nk, 0, c, norm, [files |-> fs, lines |-> ls])
           b == Loading("count", 0, nk - 1, 0, k, norm, [files |-> fs, lines |-> ls])
           d == Loading(IF Len(ps) > 0 THEN "posting" ELSE IF nk - 1 > 0 THEN "key" ELSE "end",
                        0, nk - 1, Len(ps), k, norm, [files |-> fs, lines |-> ls])
           e == Loading(IF nk - 1 > 0 THEN "key" ELSE "end", 0, nk - 1, 0, k, norm,
                        [files |-> fs, lines |-> [ls EXCEPT ![k] = ps]])
<1>1. Len(ps) \in Nat /\ DOMAIN ps = 1..Len(ps) /\ \A n \in 1..Len(ps) : ps[n] \in Posting
  BY LenProperties, ElementOfSeq
<1>2. nk \in Int /\ nk - 1 \in Int /\ Len(ps) \in Int
  BY <1>1
<1>3. Runs(a, <<Str(k)>>, b)
  <2>1. Accept(a, Str(k)) = b
    BY <1>2, AcceptKey
  <2>2. Ready(a)
    BY ReadyIs
  <2> HIDE DEF a, b
  <2> QED BY <2>1, <2>2, OneRun
<1>4. Runs(b, <<Num(Len(ps))>>, d)
  <2>1. Accept(b, Num(Len(ps))) = d
    BY <1>2, AcceptCount
  <2>2. Ready(b)
    BY ReadyIs
  <2> HIDE DEF b, d
  <2> QED BY <2>1, <2>2, OneRun
<1>5. Runs(d, x, e)
  <2>1. [ls EXCEPT ![k] = <<>>] = ls
    OBVIOUS
  <2>2. k \in DOMAIN ls
    OBVIOUS
  <2>3. Runs(Loading(IF Len(ps) > 0 THEN "posting" ELSE IF nk - 1 > 0 THEN "key" ELSE "end",
                     0, nk - 1, Len(ps), k, norm,
                     [files |-> fs, lines |-> [ls EXCEPT ![k] = <<>>]]), x, e)
    BY <1>2, <2>2, PostingsRun
  <2> QED BY <2>1, <2>3
<1>6. x \in Seq(Field)
  <2>1. \A n \in 1..Len(ps) : Occurrence(ps[n][1], ps[n][2]) \in Field
    BY <1>1, FieldsAre DEF Posting
  <2>2. x \in [1..Len(ps) -> Field]
    BY <1>1, <2>1
  <2> HIDE DEF x
  <2> QED BY <1>1, <2>2, FunctionIsSeq
<1>7. <<Str(k)>> \in Seq(Field) /\ <<Num(Len(ps))>> \in Seq(Field)
  BY <1>1, FieldsAre
<1>8. <<Str(k), Num(Len(ps))>> = <<Str(k)>> \o <<Num(Len(ps))>>
  OBVIOUS
<1>9. KeyFields(k, ps) = (<<Str(k)>> \o <<Num(Len(ps))>>) \o x
  BY <1>8 DEF KeyFields, Occurrence
<1> HIDE DEF a, b, d, e, x
<1>10. \A s, t \in Seq(Field) : s \o t \in Seq(Field)
  BY ConcatProperties
<1>11. <<Str(k)>> \o <<Num(Len(ps))>> \in Seq(Field)
  BY <1>7, <1>10
<1>12. Runs(a, <<Str(k)>> \o <<Num(Len(ps))>>, d)
  BY <1>3, <1>4, <1>7, RunsOn
<1>13. Runs(a, (<<Str(k)>> \o <<Num(Len(ps))>>) \o x, e)
  BY <1>5, <1>6, <1>11, <1>12, RunsOn
<1> QED BY <1>6, <1>9, <1>10, <1>11, <1>13 DEF a, e

IsIndex(ix) == ix \in [files : Seq(Name), lines : [Key -> Postings]]

\* The keys in the order they are written.
LEMMA KeptInTurn ==
    ASSUME NEW ix
    PROVE  LET keys == SetToSeq(Kept(ix))
           IN  /\ KeyCount(ix) \in Nat /\ keys \in [1..KeyCount(ix) -> Kept(ix)]
               /\ \A m, n \in 1..KeyCount(ix) : keys[m] = keys[n] => m = n
               /\ \A k \in Kept(ix) : \E n \in 1..KeyCount(ix) : keys[n] = k
<1> DEFINE S == Kept(ix)
           N == KeyCount(ix)
           keys == SetToSeq(S)
<1>1. IsFiniteSet(S) /\ N = Cardinality(S)
  <2>1. S \in SUBSET Key
    BY DEF Kept
  <2> QED BY <2>1, EarlierAssumption, FS_Subset DEF KeyCount
<1> HIDE DEF S, N
<1>2. N \in Nat /\ ExistsBijection(1..N, S)
  BY <1>1, FS_CardinalityType
<1>3. PICK f \in [1..N -> S] : \A a, b \in 1..N : f[a] = f[b] => a = b
  BY <1>2 DEF ExistsBijection, Bijection, Injection, IsInjective
<1>4. \E g \in [1..Cardinality(S) -> S] : IsInjective(g)
  BY <1>1, <1>3 DEF IsInjective
<1>5. keys \in [1..Cardinality(S) -> S] /\ IsInjective(keys)
  BY <1>4 DEF SetToSeq
<1>6. keys \in [1..N -> S] /\ \A m, n \in 1..N : keys[m] = keys[n] => m = n
  BY <1>1, <1>5 DEF IsInjective
<1> HIDE DEF keys
<1>7. ASSUME NEW k \in S PROVE \E n \in 1..N : keys[n] = k
  <2> SUFFICES ASSUME \A n \in 1..N : keys[n] # k PROVE FALSE
    OBVIOUS
  <2>1. keys \in [1..N -> S \ {k}]
    BY <1>6
  <2>2. IsFiniteSet(S \ {k}) /\ Cardinality(S \ {k}) = N - 1
    BY <1>1, <1>7, FS_RemoveElement
  <2>3. IsFiniteSet(1..N) /\ Cardinality(1..N) = N
    BY <1>2, FS_Interval
  <2>4. Cardinality(S \ {k}) < Cardinality(1..N)
    BY <1>2, <2>2, <2>3
  <2>5. \E x, y \in 1..N : x # y /\ keys[x] = keys[y]
    BY <2>1, <2>2, <2>3, <2>4, FS_PigeonHole
  <2> QED BY <1>6, <2>5
<1> QED BY <1>2, <1>6, <1>7 DEF keys, S, N

\* All keys, one after the other.
LEMMA KeysRun ==
    ASSUME NEW ix, IsIndex(ix), NEW norm, \A k \in Key : ~Capped(ix.lines[k])
    PROVE  LET keys == SetToSeq(Kept(ix))
               x == FlattenSeq([n \in DOMAIN keys |-> KeyFields(keys[n], ix.lines[keys[n]])])
           IN  /\ x \in Seq(Field)
               /\ \E c : Runs(Loading(IF KeyCount(ix) > 0 THEN "key" ELSE "end", 0, KeyCount(ix), 0,
                                      BlankKey, norm, [files |-> ix.files, lines |-> NoLines]),
                              x, Loading("end", 0, 0, 0, c, norm, ix))
<1> DEFINE N == KeyCount(ix)
           keys == SetToSeq(Kept(ix))
           g(n) == KeyFields(keys[n], ix.lines[keys[n]])
           s == [n \in DOMAIN keys |-> g(n)]
           ls(m) == [k \in Key |-> IF \E n \in 1..m : keys[n] = k THEN ix.lines[k] ELSE <<>>]
           c(m) == IF m = 0 THEN BlankKey ELSE keys[m]
           st(m) == Loading(IF N - m > 0 THEN "key" ELSE "end", 0, N - m, 0, c(m), norm,
                            [files |-> ix.files, lines |-> ls(m)])
<1>1. /\ N \in Nat /\ DOMAIN keys = 1..N /\ \A n \in 1..N : keys[n] \in Kept(ix)
      /\ \A m, n \in 1..N : keys[m] = keys[n] => m = n
      /\ \A k \in Kept(ix) : \E n \in 1..N : keys[n] = k
  BY KeptInTurn
<1>2. \A k \in Key : ix.lines[k] \in Seq(Posting) /\ ix.lines[k] \in Postings
  BY PostingsAre DEF IsIndex
<1>3. \A n \in 1..N : keys[n] \in Key
  BY <1>1 DEF Kept
<1>4. <<>> \in Postings
  BY NothingYet, IndexAssumption
<1> HIDE DEF keys, N
<1>5. \A m \in 0..N : ls(m) \in [Key -> Postings]
  BY <1>2, <1>4
<1>6. ASSUME NEW m \in 0..(N - 1)
      PROVE  /\ ls(m)[keys[m + 1]] = <<>>
             /\ [ls(m) EXCEPT ![keys[m + 1]] = ix.lines[keys[m + 1]]] = ls(m + 1)
  <2>1. m + 1 \in 1..N /\ \A n \in 1..m : n \in 1..N /\ n # m + 1
    BY <1>1
  <2>2. \A n \in 1..m : keys[n] # keys[m + 1]
    BY <1>1, <2>1
  <2>3. ls(m)[keys[m + 1]] = <<>>
    BY <1>3, <2>1, <2>2
  <2>4. \A k \in Key : (\E n \in 1..(m + 1) : keys[n] = k)
                          <=> k = keys[m + 1] \/ \E n \in 1..m : keys[n] = k
    <3>1. \A n : n \in 1..(m + 1) <=> n \in 1..m \/ n = m + 1
      BY <1>1
    <3> QED BY <3>1
  <2>5. ASSUME NEW k \in Key
        PROVE  [ls(m) EXCEPT ![keys[m + 1]] = ix.lines[keys[m + 1]]][k] = ls(m + 1)[k]
    <3>1. CASE k = keys[m + 1]
      BY <2>4, <3>1
    <3>2. CASE k # keys[m + 1]
      BY <2>4, <3>2
    <3> QED BY <3>1, <3>2
  <2>6. [ls(m) EXCEPT ![keys[m + 1]] = ix.lines[keys[m + 1]]] = ls(m + 1)
    BY <2>5
  <2> QED BY <2>3, <2>6
<1>7. ASSUME NEW m \in 0..(N - 1)
      PROVE  g(m + 1) \in Seq(Field) /\ Runs(st(m), g(m + 1), st(m + 1))
  <2> DEFINE k == keys[m + 1]
             L == ls(m)
             ps == ix.lines[k]
  <2>1. /\ m + 1 \in 1..N /\ m \in 0..N /\ N - m \in Nat \ {0} /\ (N - m) - 1 = N - (m + 1)
        /\ m + 1 # 0 /\ N - m > 0
    BY <1>1
  <2>2. k \in Key /\ ps \in Seq(Posting)
    BY <1>2, <1>3, <2>1
  <2>3. L \in [Key -> Postings] /\ L[k] = <<>> /\ [L EXCEPT ![k] = ps] = ls(m + 1)
    BY <1>5, <1>6, <2>1
  <2>4. st(m) = Loading("key", 0, N - m, 0, c(m), norm, [files |-> ix.files, lines |-> L])
    BY <2>1
  <2>5. st(m + 1) = Loading(IF (N - m) - 1 > 0 THEN "key" ELSE "end", 0, (N - m) - 1, 0, k, norm,
                            [files |-> ix.files, lines |-> [L EXCEPT ![k] = ps]])
    <3>1. c(m + 1) = k
      BY <2>1
    <3> HIDE DEF c, k, L, ps
    <3> QED BY <2>1, <2>3, <3>1
  <2> DEFINE nk == N - m
             old == c(m)
  <2> HIDE DEF k, L, ps, nk, old
  <2>6. KeyFields(k, ps) \in Seq(Field)
        /\ Runs(Loading("key", 0, nk, 0, old, norm, [files |-> ix.files, lines |-> L]),
                KeyFields(k, ps),
                Loading(IF nk - 1 > 0 THEN "key" ELSE "end", 0, nk - 1, 0, k, norm,
                        [files |-> ix.files, lines |-> [L EXCEPT ![k] = ps]]))
    <3>1. nk \in Nat \ {0}
      BY <2>1 DEF nk
    <3> QED BY <2>2, <2>3, <3>1, KeyRuns
  <2>7. g(m + 1) = KeyFields(k, ps)
    BY DEF k, ps
  <2> QED BY <2>4, <2>5, <2>6, <2>7 DEF nk, old
<1>8. s \in Seq(Seq(Field)) /\ Len(s) = N /\ \A n \in 1..N : s[n] = g(n)
  <2>1. ASSUME NEW n \in 1..N PROVE g(n) \in Seq(Field)
    <3>1. n - 1 \in 0..(N - 1) /\ (n - 1) + 1 = n
      BY <1>1
    <3> HIDE DEF g
    <3> QED BY <1>7, <3>1
  <2>2. s \in [1..N -> Seq(Field)]
    BY <1>1, <2>1
  <2> QED BY <1>1, <2>2, FunctionIsSeq
<1> DEFINE x(m) == FlattenSeq(SubSeq(s, 1, m))
           T == {m \in 0..N : x(m) \in Seq(Field) /\ Runs(st(0), x(m), st(m))}
<1>9. 0 \in T
  <2>1. SubSeq(s, 1, 0) = <<>>
    BY SubSeqProperties, EmptySeq
  <2>2. x(0) = <<>> /\ <<>> \in Seq(Field)
    BY <2>1, FlattenNone, EmptySeq
  <2> HIDE DEF x, st
  <2>3. Runs(st(0), x(0), st(0))
    BY <2>2, NoRun
  <2>4. 0 \in 0..N
    BY <1>1
  <2> QED BY <2>2, <2>3, <2>4
<1>10. ASSUME NEW m \in 0..(N - 1), m \in T PROVE m + 1 \in T
  <2>1. m + 1 \in 1..N /\ m + 1 \in 0..N
    BY <1>1
  <2>2. SubSeq(s, 1, m) \in Seq(Seq(Field)) /\ SubSeq(s, 1, m + 1) = Append(SubSeq(s, 1, m), s[m + 1])
    BY <1>8, OneMore
  <2>3. s[m + 1] = g(m + 1) /\ g(m + 1) \in Seq(Field)
    <3> HIDE DEF g, s
    <3> QED BY <1>7, <1>8, <2>1
  <2>4. x(m + 1) = x(m) \o g(m + 1)
    <3> HIDE DEF g, s
    <3> QED BY <2>2, <2>3, FlattenAppend
  <2>5. Runs(st(m), g(m + 1), st(m + 1)) /\ x(m) \in Seq(Field) /\ Runs(st(0), x(m), st(m))
    BY <1>7, <1>10
  <2> HIDE DEF g, s, x, st
  <2>6. x(m) \o g(m + 1) \in Seq(Field)
    BY <2>3, <2>5, ConcatProperties
  <2>7. Runs(st(0), x(m) \o g(m + 1), st(m + 1))
    BY <2>3, <2>5, RunsOn
  <2> QED BY <2>1, <2>4, <2>6, <2>7
<1>11. N \in T
  <2> HIDE DEF T
  <2>1. \A m \in 0..N : m \in T
    BY <1>1, <1>9, <1>10, UpTo
  <2> QED BY <1>1, <2>1
<1>12. SubSeq(s, 1, N) = s
  <2> HIDE DEF s
  <2> QED BY <1>8, SubSeqFull
<1>13. FlattenSeq(s) \in Seq(Field) /\ Runs(st(0), FlattenSeq(s), st(N))
  <2> HIDE DEF s, st
  <2> QED BY <1>11, <1>12
<1>14. st(0) = Loading(IF N > 0 THEN "key" ELSE "end", 0, N, 0, BlankKey, norm,
                       [files |-> ix.files, lines |-> NoLines])
  <2>1. N - 0 = N /\ \A n : n \notin 1..0
    BY <1>1
  <2>2. ls(0) = NoLines
    BY <2>1 DEF NoLines
  <2>3. c(0) = BlankKey
    OBVIOUS
  <2> HIDE DEF ls, c
  <2> QED BY <2>1, <2>2, <2>3
<1>15. st(N) = Loading("end", 0, 0, 0, c(N), norm, ix)
  <2>1. N - N = 0 /\ ~(0 > 0)
    BY <1>1
  <2>2. \A k \in Key : (\E n \in 1..N : keys[n] = k) \/ ix.lines[k] = <<>>
    BY <1>1 DEF Kept
  <2>3. \A k \in Key : ls(N)[k] = ix.lines[k]
    BY <2>2
  <2>4. ls(N) = ix.lines
    <3> HIDE DEF ls
    <3>1. ls(N) = [k \in Key |-> ls(N)[k]]
      BY DEF ls
    <3>2. ix.lines = [k \in Key |-> ix.lines[k]]
      BY DEF IsIndex
    <3> QED BY <2>3, <3>1, <3>2
  <2>5. ix = [files |-> ix.files, lines |-> ix.lines]
    BY DEF IsIndex
  <2> HIDE DEF ls, c
  <2> QED BY <2>1, <2>4, <2>5
<1> HIDE DEF st, c, s
<1>16. \E d : Runs(st(0), FlattenSeq(s), Loading("end", 0, 0, 0, d, norm, ix))
  BY <1>13, <1>15
<1> QED BY <1>13, <1>14, <1>16 DEF s, g, keys, N

\* The counts in the head of a file are numbers.
LEMMA SizesAre ==
    /\ Cardinality(ShortKeys) \in Nat /\ MaxPostings \in Nat
    /\ \A ix : IsIndex(ix) => Len(ix.files) \in Nat /\ ix.files \in Seq(Name)
<1>1. IsFiniteSet(ShortKeys)
  BY EarlierAssumption, IndexAssumption, FS_Subset
<1>2. Cardinality(ShortKeys) \in Nat
  BY <1>1, FS_CardinalityType
<1>3. \A ix : IsIndex(ix) => ix.files \in Seq(Name)
  BY DEF IsIndex
<1> QED BY <1>2, <1>3, IndexAssumption, LenProperties

\* The head, the paths and the key count are fields.
LEMMA PiecesAre ==
    ASSUME NEW ix, IsIndex(ix)
    PROVE  /\ <<Num(Cardinality(ShortKeys))>> \in Seq(Field) /\ <<Num(MaxPostings)>> \in Seq(Field)
           /\ <<Num(Len(ix.files))>> \in Seq(Field) /\ <<Num(KeyCount(ix))>> \in Seq(Field)
           /\ [f \in DOMAIN ix.files |-> Str(ix.files[f])] \in Seq(Field)
<1> DEFINE F == Len(ix.files)
           p == [f \in DOMAIN ix.files |-> Str(ix.files[f])]
<1>1. /\ Cardinality(ShortKeys) \in Nat /\ MaxPostings \in Nat /\ F \in Nat /\ ix.files \in Seq(Name)
      /\ KeyCount(ix) \in Nat
  <2>1. KeyCount(ix) \in Nat
    BY KeptInTurn
  <2> QED BY <2>1, SizesAre
<1>2. p \in Seq(Field)
  <2>1. DOMAIN ix.files = 1..F /\ \A f \in 1..F : ix.files[f] \in Name
    BY <1>1, LenProperties, ElementOfSeq
  <2>2. p \in [1..F -> Field]
    BY <2>1, FieldsAre
  <2> HIDE DEF p
  <2> QED BY <1>1, <2>2, FunctionIsSeq
<1> QED BY <1>1, <1>2, FieldsAre

\* From min_len on.
LEMMA BodyRuns ==
    ASSUME NEW ix, IsIndex(ix), NEW norm, \A k \in Key : ~Capped(ix.lines[k]),
           NEW head \in Seq(Field), NEW st,
           Runs(st, head, Loading("min_len", 0, 0, 0, BlankKey, norm, NoIndex))
    PROVE  LET keys == SetToSeq(Kept(ix))
               x == head
                    \o <<Num(Cardinality(ShortKeys)), Num(MaxPostings), Num(Len(ix.files))>>
                    \o [f \in DOMAIN ix.files |-> Str(ix.files[f])]
                    \o <<Num(KeyCount(ix))>>
                    \o FlattenSeq([n \in DOMAIN keys |-> KeyFields(keys[n], ix.lines[keys[n]])])
           IN  /\ x \in Seq(Field)
               /\ \E c : Runs(st, x, Loading("end", 0, 0, 0, c, norm, ix))
<1> DEFINE keys == SetToSeq(Kept(ix))
           u == <<Num(Cardinality(ShortKeys))>>
           v == <<Num(MaxPostings)>>
           w == <<Num(Len(ix.files))>>
           p == [f \in DOMAIN ix.files |-> Str(ix.files[f])]
           q == <<Num(KeyCount(ix))>>
           r == FlattenSeq([n \in DOMAIN keys |-> KeyFields(keys[n], ix.lines[keys[n]])])
           N == KeyCount(ix)
           F == Len(ix.files)
           a == Loading("min_len", 0, 0, 0, BlankKey, norm, NoIndex)
           b == Loading("max_postings", 0, 0, 0, BlankKey, norm, NoIndex)
           d == Loading("file_count", 0, 0, 0, BlankKey, norm, NoIndex)
           e == Loading(IF F > 0 THEN "path" ELSE "key_count", F, 0, 0, BlankKey, norm, NoIndex)
           has == [files |-> ix.files, lines |-> NoLines]
           g == Loading("key_count", 0, 0, 0, BlankKey, norm, has)
           h == Loading(IF N > 0 THEN "key" ELSE "end", 0, N, 0, BlankKey, norm, has)
<1>1. /\ Cardinality(ShortKeys) \in Nat /\ MaxPostings \in Nat /\ F \in Nat /\ ix.files \in Seq(Name)
      /\ N \in Nat /\ N \in Int /\ F \in Int
  <2>1. N \in Nat
    BY KeptInTurn
  <2> QED BY <2>1, SizesAre
<1>2. /\ u \in Seq(Field) /\ v \in Seq(Field) /\ w \in Seq(Field) /\ q \in Seq(Field)
      /\ p \in Seq(Field)
  BY PiecesAre
<1>4. r \in Seq(Field) /\ \E c : Runs(h, r, Loading("end", 0, 0, 0, c, norm, ix))
  BY KeysRun
<1>5. Runs(a, u, b) /\ Runs(b, v, d)
  <2>1. Accept(a, Num(Cardinality(ShortKeys))) = b /\ Accept(b, Num(MaxPostings)) = d
    BY AcceptSizes
  <2>2. Ready(a) /\ Ready(b)
    BY ReadyIs
  <2> HIDE DEF a, b, d
  <2> QED BY <2>1, <2>2, OneRun
<1>6. Runs(d, w, e)
  <2>1. Accept(d, Num(Len(ix.files))) = e
    BY <1>1, AcceptFileCount
  <2>2. Ready(d)
    BY ReadyIs
  <2> HIDE DEF d, e
  <2> QED BY <2>1, <2>2, OneRun
<1>7. Runs(e, p, g)
  BY <1>1, PathsRun
<1>8. Runs(g, q, h)
  <2>1. Accept(g, Num(KeyCount(ix))) = h
    BY <1>1, AcceptKeyCount
  <2>2. Ready(g)
    BY ReadyIs
  <2> HIDE DEF g, h
  <2> QED BY <2>1, <2>2, OneRun
<1> HIDE DEF a, b, d, e, g, h, p, q, r
<1>9. \A s, t \in Seq(Field) : s \o t \in Seq(Field)
  BY ConcatProperties
<1>10. u \o v \in Seq(Field) /\ Runs(a, u \o v, d)
  BY <1>2, <1>5, <1>9, RunsOn
<1>11. (u \o v) \o w \in Seq(Field) /\ Runs(a, (u \o v) \o w, e)
  BY <1>2, <1>6, <1>9, <1>10, RunsOn
<1> DEFINE z == (u \o v) \o w
<1>12. <<Num(Cardinality(ShortKeys)), Num(MaxPostings), Num(Len(ix.files))>> = z
  OBVIOUS
<1> HIDE DEF z
<1>13. head \o z \in Seq(Field) /\ Runs(st, head \o z, e)
  <2>1. z \in Seq(Field) /\ Runs(a, z, e)
    BY <1>11 DEF z
  <2> QED BY <1>9, <2>1, RunsOn DEF a
<1>14. (head \o z) \o p \in Seq(Field) /\ Runs(st, (head \o z) \o p, g)
  BY <1>2, <1>7, <1>9, <1>13, RunsOn
<1>15. ((head \o z) \o p) \o q \in Seq(Field) /\ Runs(st, ((head \o z) \o p) \o q, h)
  BY <1>2, <1>8, <1>9, <1>14, RunsOn
<1>16. /\ (((head \o z) \o p) \o q) \o r \in Seq(Field)
       /\ \E c : Runs(st, (((head \o z) \o p) \o q) \o r, Loading("end", 0, 0, 0, c, norm, ix))
  BY <1>4, <1>9, <1>15, RunsOn
<1> QED BY <1>12, <1>16 DEF p, q, r

\* A whole file of a version that is known.
LEMMA FileRuns ==
    ASSUME NEW ix, IsIndex(ix), NEW norm \in BOOLEAN, NEW version \in {1, 2}, version = 1 => ~norm,
           \A k \in Key : ~Capped(ix.lines[k])
    PROVE  /\ Fields(version, norm, ix) \in Seq(Field)
           /\ \E c : Runs(Opened, Fields(version, norm, ix), Loading("end", 0, 0, 0, c, norm, ix))
<1> DEFINE m == <<Num(Magic)>>
           v == <<Num(version)>>
           w == IF version = 1 THEN <<>> ELSE <<Num(IF norm THEN 1 ELSE 0)>>
           b == Loading("version", 0, 0, 0, BlankKey, FALSE, NoIndex)
           d == Loading(IF version = 1 THEN "min_len" ELSE "flags", 0, 0, 0, BlankKey, FALSE, NoIndex)
           e == Loading("min_len", 0, 0, 0, BlankKey, norm, NoIndex)
<1>2. Runs(Opened, m, b)
  <2>1. Opened = Loading("magic", 0, 0, 0, BlankKey, FALSE, NoIndex)
    BY DEF Opened, Loading
  <2>2. Accept(Opened, Num(Magic)) = b
    BY <2>1, AcceptMagic
  <2>3. Ready(Opened)
    BY <2>1, ReadyIs
  <2> HIDE DEF b
  <2> QED BY <2>2, <2>3, OneRun
<1>3. Runs(b, v, d)
  <2>1. \A no : /\ version = 1 => Accept(Loading("version", 0, 0, 0, BlankKey, no, NoIndex), Num(version))
                                    = Loading("min_len", 0, 0, 0, BlankKey, no, NoIndex)
                /\ version = 2 => Accept(Loading("version", 0, 0, 0, BlankKey, no, NoIndex), Num(version))
                                    = Loading("flags", 0, 0, 0, BlankKey, no, NoIndex)
    BY AcceptVersion
  <2>2. version = 1 \/ version = 2
    OBVIOUS
  <2>3. Accept(b, Num(version)) = d
    BY <2>1, <2>2
  <2>4. Ready(b)
    BY ReadyIs
  <2> HIDE DEF b, d
  <2> QED BY <2>3, <2>4, OneRun
<1>4. Runs(d, w, e)
  <2>1. CASE version = 1
    <3>1. w = <<>> /\ d = e
      BY <2>1
    <3> HIDE DEF d, e, w
    <3> QED BY <3>1, NoRun
  <2>2. CASE version # 1
    <3>1. d = Loading("flags", 0, 0, 0, BlankKey, FALSE, NoIndex)
      BY <2>2
    <3>2. Accept(d, Num(IF norm THEN 1 ELSE 0)) = e
      <4>1. CASE norm
        BY <3>1, <4>1, AcceptFlags
      <4>2. CASE ~norm
        BY <3>1, <4>2, AcceptFlags
      <4> QED BY <4>1, <4>2
    <3>3. Ready(d)
      BY <3>1, ReadyIs
    <3>4. w = <<Num(IF norm THEN 1 ELSE 0)>>
      BY <2>2
    <3> HIDE DEF d, e, w
    <3> QED BY <3>2, <3>3, <3>4, OneRun
  <2> QED BY <2>1, <2>2
<1>5. m \in Seq(Field) /\ v \in Seq(Field) /\ w \in Seq(Field)
  <2>1. Magic \in Nat /\ version \in Nat /\ (IF norm THEN 1 ELSE 0) \in Nat
    BY DEF Magic
  <2> QED BY <2>1, FieldsAre, EmptySeq
<1> HIDE DEF b, d, e, w
<1>6. \A s, t \in Seq(Field) : s \o t \in Seq(Field)
  BY ConcatProperties
<1>7. m \o v \in Seq(Field) /\ Runs(Opened, m \o v, d)
  BY <1>2, <1>3, <1>5, <1>6, RunsOn
<1>8. (m \o v) \o w \in Seq(Field) /\ Runs(Opened, (m \o v) \o w, e)
  BY <1>4, <1>5, <1>6, <1>7, RunsOn
<1> DEFINE head == (m \o v) \o w
<1>9. <<Num(Magic), Num(version)>> = m \o v
  OBVIOUS
<1> HIDE DEF head
<1>10. head \in Seq(Field) /\ Runs(Opened, head, Loading("min_len", 0, 0, 0, BlankKey, norm, NoIndex))
  BY <1>8 DEF head, e
<1> QED BY <1>9, <1>10, BodyRuns DEF Fields, head, w

\* A whole file of an index is what a tool has, and of a part of it a tool dies.
LEMMA WholeFile ==
    ASSUME NEW ix, IsIndex(ix), NEW norm \in BOOLEAN, NEW version \in {1, 2}, version = 1 => ~norm,
           \A k \in Key : ~Capped(ix.lines[k])
    PROVE  LET all == Fields(version, norm, ix)
           IN  /\ all \in Seq(Field) /\ Len(all) \in Nat
               /\ Load(all).want = "end" /\ Load(all).normalized = norm /\ Load(all).has = ix
               /\ \A n \in 0..(Len(all) - 1) : Load(SubSeq(all, 1, n)).want = "dead"
<1> DEFINE all == Fields(version, norm, ix)
<1>1. all \in Seq(Field)
  BY FileRuns
<1>2. PICK c : Runs(Opened, all, Loading("end", 0, 0, 0, c, norm, ix))
  BY FileRuns
<1> DEFINE b == Loading("end", 0, 0, 0, c, norm, ix)
<1>3. b.want = "end" /\ b.normalized = norm /\ b.has = ix
  BY DEF Loading
<1> HIDE DEF all, b
<1>4. Load(all) = b
  <2>1. Runs(Opened, all, b)
    BY <1>2 DEF b
  <2>2. Load(all) = IF b.want = "end" THEN b ELSE [b EXCEPT !.want = "dead"]
    BY <1>1, <2>1, LoadIs
  <2> QED BY <1>3, <2>2
<1>5. \A n \in 0..(Len(all) - 1) : Load(SubSeq(all, 1, n)).want = "dead"
  BY <1>1, <1>2, CutIsDead
<1>6. Len(all) \in Nat
  BY <1>1, LenProperties
<1> QED BY <1>1, <1>3, <1>4, <1>5, <1>6 DEF all

\* Once load has died it stays dead.
LEMMA DeadRuns ==
    ASSUME NEW S, NEW x \in Seq(S), NEW nf, NEW nk, NEW np, NEW k, NEW norm, NEW has
    PROVE  LET dead == Loading("dead", nf, nk, np, k, norm, has) IN Runs(dead, x, dead)
<1> DEFINE dead == Loading("dead", nf, nk, np, k, norm, has)
           tr == [n \in 0..Len(x) |-> dead]
<1>1. dead.want = "dead" /\ Ready(dead)
  BY ReadyIs DEF Loading
<1> HIDE DEF dead
<1>2. \A f : Accept(dead, f) = dead
  BY <1>1 DEF Accept
<1>3. Len(x) \in Nat
  BY LenProperties
<1>4. \A n \in 0..Len(x) : tr[n] = dead
  OBVIOUS
<1>5. 0 \in 0..Len(x) /\ Len(x) \in 0..Len(x) /\ \A n \in 1..Len(x) : n \in 0..Len(x) /\ n - 1 \in 0..Len(x)
  BY <1>3
<1> HIDE DEF tr
<1>6. Trace(tr, dead, x, dead)
  BY <1>1, <1>2, <1>4, <1>5 DEF Trace
<1> QED BY <1>6 DEF Runs, dead

\* A file of another version: a tool dies.
LEMMA OtherVersion ==
    ASSUME NEW ix, IsIndex(ix), NEW norm \in BOOLEAN, NEW version \in Nat \ {1, 2},
           \A k \in Key : ~Capped(ix.lines[k])
    PROVE  Load(Fields(version, norm, ix)).want = "dead"
<1> DEFINE keys == SetToSeq(Kept(ix))
           m == <<Num(Magic)>>
           v == <<Num(version)>>
           w == IF version = 1 THEN <<>> ELSE <<Num(IF norm THEN 1 ELSE 0)>>
           z1 == <<Num(Cardinality(ShortKeys))>>
           z2 == <<Num(MaxPostings)>>
           z3 == <<Num(Len(ix.files))>>
           z == <<Num(Cardinality(ShortKeys)), Num(MaxPostings), Num(Len(ix.files))>>
           p == [f \in DOMAIN ix.files |-> Str(ix.files[f])]
           q == <<Num(KeyCount(ix))>>
           r == FlattenSeq([n \in DOMAIN keys |-> KeyFields(keys[n], ix.lines[keys[n]])])
           b == Loading("version", 0, 0, 0, BlankKey, FALSE, NoIndex)
           dead == Loading("dead", 0, 0, 0, BlankKey, FALSE, NoIndex)
<1>1. Runs(Opened, m, b)
  <2>1. Opened = Loading("magic", 0, 0, 0, BlankKey, FALSE, NoIndex)
    BY DEF Opened, Loading
  <2>2. Accept(Opened, Num(Magic)) = b
    BY <2>1, AcceptMagic
  <2>3. Ready(Opened)
    BY <2>1, ReadyIs
  <2> HIDE DEF b
  <2> QED BY <2>2, <2>3, OneRun
<1>2. Runs(b, v, dead)
  <2>1. \A no : Accept(Loading("version", 0, 0, 0, BlankKey, no, NoIndex), Num(version))
                  = Loading("dead", 0, 0, 0, BlankKey, no, NoIndex)
    BY AcceptVersion
  <2>2. Accept(b, Num(version)) = dead
    BY <2>1
  <2>3. Ready(b)
    BY ReadyIs
  <2> HIDE DEF b, dead
  <2> QED BY <2>2, <2>3, OneRun
<1>3. \A x \in Seq(Field) : Runs(dead, x, dead)
  BY DeadRuns
<1>4. m \in Seq(Field) /\ v \in Seq(Field) /\ w \in Seq(Field) /\ p \in Seq(Field) /\ q \in Seq(Field)
      /\ z1 \in Seq(Field) /\ z2 \in Seq(Field) /\ z3 \in Seq(Field)
  <2>1. Magic \in Nat /\ version \in Nat /\ (IF norm THEN 1 ELSE 0) \in Nat
    BY DEF Magic
  <2>2. m \in Seq(Field) /\ v \in Seq(Field) /\ w \in Seq(Field)
    BY <2>1, FieldsAre, EmptySeq
  <2> QED BY <2>2, PiecesAre
<1>5. r \in Seq(Field)
  BY KeysRun
<1>6. \A s, t \in Seq(Field) : s \o t \in Seq(Field)
  BY ConcatProperties
<1>7. z = (z1 \o z2) \o z3 /\ <<Num(Magic), Num(version)>> = m \o v
  OBVIOUS
<1> HIDE DEF m, v, w, z1, z2, z3, z, p, q, r, b, dead
<1>8. z \in Seq(Field)
  BY <1>4, <1>6, <1>7
<1>9. m \o v \in Seq(Field) /\ Runs(Opened, m \o v, dead)
  BY <1>1, <1>2, <1>4, <1>6, RunsOn
<1>10. \A s, t \in Seq(Field) : Runs(Opened, s, dead) => Runs(Opened, s \o t, dead)
  BY <1>3, RunsOn
<1> DEFINE x1 == (m \o v) \o w
           x2 == x1 \o z
           x3 == x2 \o p
           x4 == x3 \o q
           x5 == x4 \o r
<1>11. x1 \in Seq(Field) /\ Runs(Opened, x1, dead)
  BY <1>4, <1>6, <1>9, <1>10
<1> HIDE DEF x1
<1>12. x2 \in Seq(Field) /\ Runs(Opened, x2, dead)
  BY <1>8, <1>6, <1>10, <1>11
<1> HIDE DEF x2
<1>13. x3 \in Seq(Field) /\ Runs(Opened, x3, dead)
  BY <1>4, <1>6, <1>10, <1>12
<1> HIDE DEF x3
<1>14. x4 \in Seq(Field) /\ Runs(Opened, x4, dead)
  BY <1>4, <1>6, <1>10, <1>13
<1> HIDE DEF x4
<1>15. x5 \in Seq(Field) /\ Runs(Opened, x5, dead)
  BY <1>5, <1>6, <1>10, <1>14
<1> HIDE DEF x5
<1>16. "want" \in DOMAIN dead /\ dead.want # "end"
  BY DEF dead, Loading
<1>17. Load(x5) = [dead EXCEPT !.want = "dead"]
  <2>1. Load(x5) = IF dead.want = "end" THEN dead ELSE [dead EXCEPT !.want = "dead"]
    BY <1>15, LoadIs
  <2> QED BY <1>16, <2>1
<1>18. Load(x5).want = "dead"
  BY <1>16, <1>17
<1>19. Fields(version, norm, ix) = x5
  BY <1>7 DEF Fields, x1, x2, x3, x4, x5, w, z, p, q, r
<1> QED BY <1>18, <1>19

-----------------------------------------------------------------------------
(* What the file holds.                                                    *)

\* The file is one that a build before has left until the indexer writes it, and
\* from then on a prefix of the file of a serial build.
FileInv ==
    IF main = "done"
    THEN \E n \in 0..Len(Fields(2, TRUE, SerialIndex)) :
            disk = SubSeq(Fields(2, TRUE, SerialIndex), 1, n)
    ELSE \E e \in Earlier : disk = Fields(e.version, e.normalized, e.index)

\* The index of a serial build can be written: its lists are those of the cap.
LEMMA SerialIndexIs ==
    ASSUME files \in Seq(TreeFile)
    PROVE  IsIndex(SerialIndex) /\ \A k \in Key : ~Capped(SerialIndex.lines[k])
<1>1. /\ DOMAIN SerialIds = 1..Len(SerialIds) /\ Len(SerialIds) \in Nat
      /\ \A n \in 1..Len(SerialIds) : SerialIds[n] \in DOMAIN files
  BY SerialIdsAre DEF Contributors
<1>2. \A n \in DOMAIN SerialIds : files[SerialIds[n]].name \in Name
  <2>1. \A f \in DOMAIN files : files[f] \in TreeFile
    BY ElementOfSeq, LenProperties
  <2> QED BY <1>1, <2>1 DEF TreeFile
<1>3. SerialIndex.files \in Seq(Name)
  BY <1>1, <1>2 DEF SerialIndex
<1>4. \A k : SerialPostings(k) \in Seq(Posting)
  BY SerialPostingsAre
<1>5. <<>> \in Seq(Posting) /\ ~Capped(<<>>)
  BY IndexAssumption, EmptySeq DEF Capped
<1>6. \A k \in Key : /\ SerialIndex.lines[k] \in Seq(Posting)
                     /\ ~Capped(SerialIndex.lines[k])
  BY <1>4, <1>5 DEF SerialIndex
<1>7. SerialIndex.lines \in [Key -> Postings]
  BY <1>4, <1>5, PostingsAre DEF SerialIndex
<1>8. SerialIndex = [files |-> SerialIndex.files, lines |-> SerialIndex.lines]
  BY DEF SerialIndex
<1> QED BY <1>3, <1>6, <1>7, <1>8 DEF IsIndex

\* A list is the longest prefix of itself.
LEMMA WholeList ==
    ASSUME NEW S, NEW x \in Seq(S)
    PROVE  /\ SubSeq(x, 1, Len(x)) = x /\ Len(x) \in 0..Len(x)
           /\ \A n \in 0..Len(x) : Len(SubSeq(x, 1, n)) = n
<1>1. Len(x) \in Nat
  BY LenProperties
<1>2. \A n \in 0..Len(x) : Len(SubSeq(x, 1, n)) = n
  BY <1>1, SubSeqProperties
<1> QED BY <1>1, <1>2

\* write_index leaves the long lists out itself.
LEMMA SameFile ==
    Fields(2, TRUE, Uncapped) = Fields(2, TRUE, SerialIndex)
<1>1. \A k \in Key : /\ Uncapped.lines[k] = SerialPostings(k)
                     /\ SerialIndex.lines[k]
                           = IF Capped(SerialPostings(k)) THEN <<>> ELSE SerialPostings(k)
  BY DEF Uncapped, SerialIndex
<1>2. ~Capped(<<>>)
  BY IndexAssumption, EmptySeq DEF Capped
<1>3. Kept(Uncapped) = Kept(SerialIndex)
  BY <1>1, <1>2 DEF Kept
<1>4. \A k \in Kept(SerialIndex) : Uncapped.lines[k] = SerialIndex.lines[k]
  BY <1>1, <1>2 DEF Kept
<1>5. KeyCount(Uncapped) = KeyCount(SerialIndex)
  BY <1>3 DEF KeyCount
<1>6. Uncapped.files = SerialIndex.files
  BY DEF Uncapped, SerialIndex
<1> DEFINE keys == SetToSeq(Kept(SerialIndex))
<1>7. /\ keys \in [1..KeyCount(SerialIndex) -> Kept(SerialIndex)]
      /\ DOMAIN keys = 1..KeyCount(SerialIndex)
      /\ SetToSeq(Kept(Uncapped)) = keys
  BY <1>3, KeptInTurn
<1> HIDE DEF keys
<1>8. [n \in DOMAIN keys |-> KeyFields(keys[n], Uncapped.lines[keys[n]])]
         = [n \in DOMAIN keys |-> KeyFields(keys[n], SerialIndex.lines[keys[n]])]
  BY <1>4, <1>7
<1> QED BY <1>3, <1>5, <1>6, <1>7, <1>8 DEF Fields, keys

\* WholeFile for the index of a serial build.
LEMMA SerialFile ==
    ASSUME IInv
    PROVE  LET all == Fields(2, TRUE, SerialIndex)
           IN  /\ all \in Seq(Field) /\ Len(all) \in Nat
               /\ Load(all).want = "end" /\ Load(all).normalized = TRUE
               /\ Load(all).has = SerialIndex
               /\ \A n \in 0..(Len(all) - 1) : Load(SubSeq(all, 1, n)).want = "dead"
<1>1. IsIndex(SerialIndex) /\ \A k \in Key : ~Capped(SerialIndex.lines[k])
  BY FilesType, SerialIndexIs
<1> DEFINE P(all, norm) ==
             /\ all \in Seq(Field) /\ Len(all) \in Nat
             /\ Load(all).want = "end" /\ Load(all).normalized = norm
             /\ Load(all).has = SerialIndex
             /\ \A n \in 0..(Len(all) - 1) : Load(SubSeq(all, 1, n)).want = "dead"
<1>2. \A version \in {1, 2} : \A norm \in BOOLEAN :
         (version = 1 => ~norm) => P(Fields(version, norm, SerialIndex), norm)
  BY <1>1, WholeFile
<1> DEFINE yes == TRUE
<1>3. yes \in BOOLEAN
  OBVIOUS
<1> HIDE DEF P, yes
<1>4. P(Fields(2, yes, SerialIndex), yes)
  BY <1>2, <1>3
<1> QED BY <1>4 DEF P, yes

\* The file of the serial index stays the same while the index does.
LEMMA SameFields ==
    ASSUME SerialIndex' = SerialIndex
    PROVE  Fields(2, TRUE, SerialIndex)' = Fields(2, TRUE, SerialIndex)
BY DEF Fields, Kept, KeyCount, KeyFields, Num, Str, Capped

\* After the indexer has written it does nothing more.
LEMMA DoneStays ==
    ASSUME IInv, BuildInv, main = "done", [Next]_vars
    PROVE  main' = "done" /\ SerialIndex' = SerialIndex
<1>1. \A w \in Worker : thread[w] = "finished"
  BY DEF BuildInv, Phases
<1>2. main' = "done" /\ files' = files
  <2>1. CASE Main \/ CannotSpawn \/ UNCHANGED vars
    BY <2>1 DEF Main, Spawn, StartThreads, Join, CloseStdin, WaitPid, Reaped, Merge, Compact,
                WriteIndex, CannotSpawn, vars
  <2>2. ASSUME NEW w \in Worker, ThreadStep(w) PROVE FALSE
    BY <1>1, <2>2 DEF ThreadStep, Claim, Read, Normalize, NormalizerFatal
  <2>3. ASSUME NEW w \in Worker, EndOfInput(w) \/ Dies(w) PROVE main' = "done" /\ files' = files
    BY <2>3 DEF EndOfInput, Dies, Gone
  <2> QED BY <2>1, <2>2, <2>3 DEF Next
<1> QED BY <1>2 DEF SerialIndex, SerialIds, Contributes, SerialPostings, PostingsIn

AllInv == IInv /\ BuildInv /\ FileInv

\* The file at first is one an earlier build has left.
LEMMA FileStart == FileInit => AllInv
<1> SUFFICES ASSUME FileInit PROVE AllInv
  OBVIOUS
<1>1. Init /\ \E e \in Earlier : disk = Fields(e.version, e.normalized, e.index)
  BY DEF FileInit
<1>2. main # "done"
  BY <1>1 DEF Init
<1>3. FileInv
  BY <1>1, <1>2 DEF FileInv
<1> QED BY <1>1, <1>3, IInvInit, BuildInit DEF AllInv

\* Only the indexer's last step and the destructor of its stream touch the file.
LEMMA FileStep == AllInv /\ [FileNext]_fileVars => AllInv'
<1> SUFFICES ASSUME AllInv, [FileNext]_fileVars PROVE AllInv'
  OBVIOUS
<1>0. IInv /\ BuildInv /\ FileInv
  BY DEF AllInv
<1>1. ASSUME [Next]_vars, main' = "done" => main = "done", UNCHANGED disk PROVE AllInv'
  <2>1. IInv' /\ BuildInv'
    BY <1>0, <1>1, IInvNext, BuildNext
  <2>2. CASE main = "done"
    <3>1. main' = "done" /\ SerialIndex' = SerialIndex
      BY <1>0, <1>1, <2>2, DoneStays
    <3>2. FileInv'
      <4> DEFINE all == Fields(2, TRUE, SerialIndex)
      <4>1. all' = all
        BY <3>1, SameFields
      <4> HIDE DEF all
      <4>2. \E n \in 0..Len(all) : disk = SubSeq(all, 1, n)
        BY <1>0, <2>2 DEF FileInv, all
      <4>3. \E n \in 0..Len(all') : disk' = SubSeq(all', 1, n)
        BY <1>1, <4>1, <4>2
      <4> QED BY <3>1, <4>3 DEF FileInv, all
    <3> QED BY <2>1, <3>2 DEF AllInv
  <2>3. CASE main # "done"
    <3>1. main' # "done"
      BY <1>1, <2>3
    <3>2. \E e \in Earlier : disk' = Fields(e.version, e.normalized, e.index)
      BY <1>0, <1>1, <2>3 DEF FileInv
    <3>3. FileInv'
      BY <3>1, <3>2 DEF FileInv
    <3> QED BY <2>1, <3>3 DEF AllInv
  <2> QED BY <2>2, <2>3
<1>2. CASE Building
  BY <1>1, <1>2 DEF Building
<1>3. CASE UNCHANGED fileVars
  BY <1>1, <1>3 DEF fileVars, vars
<1>4. CASE CannotWrite
  <2>1. IInv'
    BY <1>0, <1>4, AbortKeeps DEF CannotWrite
  <2>2. main' = "aborted" /\ main # "done" /\ disk' = disk
    BY <1>4 DEF CannotWrite, Abort
  <2>3. BuildInv'
    BY <2>2 DEF BuildInv
  <2>4. \E e \in Earlier : disk' = Fields(e.version, e.normalized, e.index)
    BY <1>0, <2>2 DEF FileInv
  <2>5. FileInv'
    BY <2>2, <2>4 DEF FileInv
  <2> QED BY <2>1, <2>3, <2>5 DEF AllInv
<1>5. CASE Write
  <2>1. IInv' /\ BuildInv' /\ main = "write" /\ main' = "done"
    <3>1. WriteIndex /\ Next
      BY <1>5 DEF Write, Next, Main
    <3> QED BY <1>0, <3>1, IInvNext, WriteKeeps DEF WriteIndex
  <2>2. index = Uncapped /\ SerialIndex' = SerialIndex
    <3>1. UNCHANGED files
      BY <1>5 DEF Write, WriteIndex
    <3>2. SerialIndex' = SerialIndex
      BY <3>1 DEF SerialIndex, SerialIds, Contributes, SerialPostings, PostingsIn
    <3> QED BY <1>0, <2>1, <3>2 DEF BuildInv, Phases
  <2> DEFINE all == Fields(2, TRUE, SerialIndex)
  <2>3. \E n \in 0..Len(all) : disk' = SubSeq(all, 1, n)
    BY <1>5, <2>2, SameFile DEF Write
  <2>4. FileInv'
    BY <2>1, <2>2, <2>3, SameFields DEF FileInv
  <2> QED BY <2>1, <2>4 DEF AllInv
<1>6. CASE Flush
  <2>1. main = "done" /\ main' = "done" /\ UNCHANGED vars /\ disk' = Fields(2, TRUE, index)
    BY <1>6 DEF Flush, vars
  <2>2. IInv' /\ BuildInv'
    BY <1>0, <2>1, IInvNext, BuildNext
  <2>3. index = SerialIndex /\ SerialIndex' = SerialIndex
    <3>1. main' = "done" /\ SerialIndex' = SerialIndex
      BY <1>0, <2>1, DoneStays
    <3> QED BY <1>0, <2>1, <3>1 DEF BuildInv, Phases
  <2> DEFINE all == Fields(2, TRUE, SerialIndex)
  <2>4. all \in Seq(Field) /\ Len(all) \in Nat
    BY <1>0, SerialFile
  <2> HIDE DEF all
  <2>5. SubSeq(all, 1, Len(all)) = all /\ Len(all) \in 0..Len(all)
    BY <2>4, WholeList
  <2>6. disk' = all
    BY <2>1, <2>3 DEF all
  <2>7. \E n \in 0..Len(all) : disk' = SubSeq(all, 1, n)
    BY <2>5, <2>6
  <2>8. FileInv'
    BY <2>1, <2>3, <2>7, SameFields DEF FileInv, all
  <2> QED BY <2>2, <2>8 DEF AllInv
<1> QED BY <1>2, <1>3, <1>4, <1>5, <1>6 DEF FileNext

LEMMA FileInvariant == FileSpec => []AllInv
BY FileStart, FileStep, PTL DEF FileSpec

\* The file a tool finds, whatever the schedule of the threads, the deaths of the
\* coprocesses and the cut of the file.
THEOREM ToolsRead == FileSpec => []ToolsSeeSerialIndex
<1>1. AllInv => ToolsSeeSerialIndex
  <2> SUFFICES ASSUME AllInv PROVE ToolsSeeSerialIndex
    OBVIOUS
  <2>0. FileInv /\ IInv
    BY DEF AllInv
  <2>1. CASE main = "done"
    <3> DEFINE all == Fields(2, TRUE, SerialIndex)
    <3>1. /\ all \in Seq(Field) /\ Len(all) \in Nat
          /\ Load(all).want = "end" /\ Load(all).normalized = TRUE /\ Load(all).has = SerialIndex
          /\ \A n \in 0..(Len(all) - 1) : Load(SubSeq(all, 1, n)).want = "dead"
      BY <2>0, SerialFile
    <3>2. PICK n \in 0..Len(all) : disk = SubSeq(all, 1, n)
      BY <2>0, <2>1 DEF FileInv
    <3>3. Whole <=> Len(disk) = Len(all)
      BY DEF Whole
    <3> HIDE DEF all
    <3>4. Len(disk) = n /\ (n = Len(all) => disk = all)
      BY <3>1, <3>2, WholeList
    <3>5. CASE n = Len(all)
      BY <2>1, <3>1, <3>3, <3>4, <3>5 DEF ToolsSeeSerialIndex, ToolHas
    <3>6. CASE n # Len(all)
      <4>1. n \in 0..(Len(all) - 1)
        BY <3>1, <3>6
      <4>2. Load(disk).want = "dead" /\ ~Whole
        BY <3>1, <3>2, <3>3, <3>4, <3>6, <4>1
      <4> QED BY <2>1, <4>2 DEF ToolsSeeSerialIndex
    <3> QED BY <3>5, <3>6
  <2>2. CASE main # "done"
    <3>1. PICK e \in Earlier : disk = Fields(e.version, e.normalized, e.index)
      BY <2>0, <2>2 DEF FileInv
    <3>2. /\ e.version \in Nat /\ e.normalized \in BOOLEAN /\ IsIndex(e.index)
          /\ e.version = 1 => ~e.normalized
          /\ \A k \in Key : ~Capped(e.index.lines[k])
      BY EarlierAssumption DEF IsIndex
    <3>3. CASE e.version \in {1, 2}
      <4>1. ToolHas(e.normalized, e.index)
        BY <3>1, <3>2, <3>3, WholeFile DEF ToolHas
      <4> QED BY <2>2, <3>3, <4>1 DEF ToolsSeeSerialIndex
    <3>4. CASE e.version \notin {1, 2}
      <4>1. Load(disk).want = "dead"
        BY <3>1, <3>2, <3>4, OtherVersion
      <4> QED BY <2>2, <3>4, <4>1 DEF ToolsSeeSerialIndex
    <3> QED BY <3>3, <3>4
  <2> QED BY <2>1, <2>2
<1> QED BY <1>1, FileInvariant, PTL
=============================================================================
