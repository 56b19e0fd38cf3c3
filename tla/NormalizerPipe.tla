--------------------------- MODULE NormalizerPipe ---------------------------
(***************************************************************************)
(* One tool and its normalizer coprocess (tools/normalizer.hpp and the     *)
(* loop of tools/normalize.php): requests go out over one pipe, answers    *)
(* come back over another, both bounded, and the tool takes an answer      *)
(* apart through a read buffer.  The coprocess may die at any moment.      *)
(*                                                                         *)
(* A byte has Radix values and a u32 has Width bytes, little end first.    *)
(***************************************************************************)
EXTENDS Naturals, Sequences, SequencesExt, FiniteSetsExt

CONSTANTS
    Radix, Width,
    Answer,         \* normalize(): from the bytes of a file to its [flag, key] lines
    MaxRequests,    \* bound on the files of one run
    PipeSize,       \* what the system buffers in a pipe
    BufferSize      \* of rbuf_

Byte == 0..(Radix - 1)
NormLine == [flag : 0..1, key : Seq(Byte)]

\* The numbers below Limit are those of Width bytes; in the code Width is 4.
Limit == <<Radix, Radix * Radix, Radix * Radix * Radix, Radix * Radix * Radix * Radix>>[Width]

ASSUME PipeAssumption ==
    /\ Radix \in Nat /\ Radix > 1 /\ Width \in 1..4
    /\ PipeSize \in Nat \ {0} /\ BufferSize \in Nat \ {0} /\ MaxRequests \in Nat
    /\ DOMAIN Answer \subseteq Seq(Byte) /\ \A c \in DOMAIN Answer : Answer[c] \in Seq(NormLine)
    /\ \A c \in DOMAIN Answer :
          /\ Len(c) < Limit /\ Len(Answer[c]) < Limit
          /\ \A n \in DOMAIN Answer[c] : Len(Answer[c][n].key) < Limit

VARIABLES
    pc,             \* where the tool is in run_each, or how it ended
    content,        \* the file at hand
    asked,          \* how many there were
    unsent,         \* what write_all has still to write
    rbuf, rpos,     \* the valid part of rbuf_, and how much of it is used
    got,            \* what read_all has gathered, for the key in scratch_
    line,           \* the line at hand: [flag, klen]
    left,           \* lines still to come
    delivered,      \* what on_line was called with for this file
    stdin, stdout,  \* the pipes to and from the coprocess
    child,          \* where the coprocess is
    heard, reply    \* what it has gathered, and what it has still to write

request == <<content, asked, unsent>>
reading == <<rbuf, rpos, got, line, left, delivered>>
side == <<child, heard, reply>>
exchangeVars == <<pc, request, reading, stdin, stdout, side>>

\* n shifted by no byte, one, two and three.
Shifted(n) ==
    LET shift(m) == m \div Radix IN <<n, shift(n), shift(shift(n)), shift(shift(shift(n)))>>

put_u32le(n) == [i \in 1..Width |-> Shifted(n)[i] % Radix]
get_u32le(bs) ==
    LET byte(i) == IF i <= Width THEN bs[i] ELSE 0
    IN  byte(1) + Radix * (byte(2) + Radix * (byte(3) + Radix * byte(4)))

First(n, s) == SubSeq(s, 1, n)
Rest(n, s) == SubSeq(s, n + 1, Len(s))
Smaller(a, b) == IF a < b THEN a ELSE b

over == pc \in {"closed", "fatal", "killed"}

ExchangeInit ==
    /\ pc = "idle" /\ content = <<>> /\ asked = 0 /\ unsent = <<>>
    /\ rbuf = <<>> /\ rpos = 0 /\ got = <<>> /\ line = [flag |-> 0, klen |-> 0] /\ left = 0
    /\ delivered = <<>>
    /\ stdin = <<>> /\ stdout = <<>>
    /\ child = "header" /\ heard = <<>> /\ reply = <<>>

-----------------------------------------------------------------------------
(* The tool: a request.                                                    *)

Request(c) ==
    /\ pc = "idle" /\ asked < MaxRequests
    /\ pc' = "write"
    /\ content' = c /\ asked' = asked + 1 /\ unsent' = put_u32le(Len(c)) \o c
    /\ delivered' = <<>>
    /\ UNCHANGED <<rbuf, rpos, got, line, left, stdin, stdout, side>>

\* Mutant: an empty file has no lines, so nobody waits for its answer.
WriteSomeHasty ==
    /\ pc = "write" /\ child # "gone"
    /\ \E n \in 1..Smaller(Len(unsent), PipeSize - Len(stdin)) :
          /\ stdin' = stdin \o First(n, unsent)
          /\ unsent' = Rest(n, unsent)
          /\ pc' = IF n < Len(unsent) THEN "write" ELSE IF content = <<>> THEN "idle" ELSE "header"
    /\ UNCHANGED <<content, asked, reading, stdout, side>>

\* write(2) takes as much as the pipe has room for, at most.
WriteSome ==
    /\ pc = "write" /\ child # "gone"
    /\ \E n \in 1..Smaller(Len(unsent), PipeSize - Len(stdin)) :
          /\ stdin' = stdin \o First(n, unsent)
          /\ unsent' = Rest(n, unsent)
          /\ pc' = IF n = Len(unsent) THEN "header" ELSE "write"
    /\ UNCHANGED <<content, asked, reading, stdout, side>>

\* Nobody reads the pipe: SIGPIPE, which nothing handles.
BrokenPipe ==
    /\ pc = "write" /\ child = "gone"
    /\ pc' = "killed"
    /\ UNCHANGED <<request, reading, stdin, stdout, side>>

-----------------------------------------------------------------------------
(* The tool: the answer.                                                   *)

wanted == CASE pc = "header" -> Width [] pc = "meta" -> 1 + Width [] pc = "key" -> line.klen
            [] OTHER -> 0
avail == Len(rbuf) - rpos

\* Mutant: the buffer is filled when it holds too little, over what is left in it.
FillShort ==
    /\ Len(got) < wanted /\ avail < wanted - Len(got) /\ stdout # <<>>
    /\ LET n == Smaller(BufferSize, Len(stdout))
       IN  rbuf' = First(n, stdout) /\ stdout' = Rest(n, stdout)
    /\ rpos' = 0
    /\ UNCHANGED <<pc, request, got, line, left, delivered, stdin, side>>

\* fill_buffer: read(2) gives what is there.
Fill ==
    /\ Len(got) < wanted /\ avail = 0 /\ stdout # <<>>
    /\ LET n == Smaller(BufferSize, Len(stdout))
       IN  rbuf' = First(n, stdout) /\ stdout' = Rest(n, stdout)
    /\ rpos' = 0
    /\ UNCHANGED <<pc, request, got, line, left, delivered, stdin, side>>

\* The end of the answers: normalizer_fatal.
Truncated ==
    /\ Len(got) < wanted /\ avail = 0 /\ stdout = <<>> /\ child = "gone"
    /\ pc' = "fatal"
    /\ UNCHANGED <<request, reading, stdin, stdout, side>>

\* A key that is in the buffer needs no gathering (read_view).
InPlace == pc = "key" /\ got = <<>> /\ avail >= line.klen

Gather ==
    /\ Len(got) < wanted /\ avail > 0 /\ ~InPlace
    /\ LET n == Smaller(avail, wanted - Len(got))
       IN  /\ got' = got \o SubSeq(rbuf, rpos + 1, rpos + n)
           /\ rpos' = rpos + n
    /\ UNCHANGED <<pc, request, rbuf, line, left, delivered, stdin, stdout, side>>

Complete(place) == pc = place /\ Len(got) = wanted /\ got' = <<>>
Lines(n) == left' = n /\ pc' = IF n = 0 THEN "idle" ELSE "meta"

Header ==
    /\ Complete("header")
    /\ Lines(get_u32le(got))
    /\ UNCHANGED <<request, rbuf, rpos, line, delivered, stdin, stdout, side>>

Meta ==
    /\ Complete("meta")
    /\ line' = [flag |-> got[1], klen |-> get_u32le(Rest(1, got))]
    /\ pc' = "key"
    /\ UNCHANGED <<request, rbuf, rpos, left, delivered, stdin, stdout, side>>

OnLine(key) == delivered' = Append(delivered, [flag |-> line.flag, key |-> key])

\* Mutant: an empty key waits for the next bytes as well.
ViewInBufferWaits ==
    /\ InPlace /\ avail > 0
    /\ OnLine(SubSeq(rbuf, rpos + 1, rpos + line.klen))
    /\ rpos' = rpos + line.klen
    /\ Lines(left - 1)
    /\ UNCHANGED <<request, rbuf, got, line, stdin, stdout, side>>

ViewInBuffer ==
    /\ InPlace
    /\ OnLine(SubSeq(rbuf, rpos + 1, rpos + line.klen))
    /\ rpos' = rpos + line.klen
    /\ Lines(left - 1)
    /\ UNCHANGED <<request, rbuf, got, line, stdin, stdout, side>>

ViewInScratch ==
    /\ Complete("key") /\ got # <<>>
    /\ OnLine(got)
    /\ Lines(left - 1)
    /\ UNCHANGED <<request, rbuf, rpos, line, stdin, stdout, side>>

\* ~Normalizer, or the end of the process.
Close ==
    /\ pc = "idle"
    /\ pc' = "closed"
    /\ UNCHANGED <<request, reading, stdin, stdout, side>>

-----------------------------------------------------------------------------
(* The coprocess.                                                          *)

due == IF child = "header" THEN Width ELSE get_u32le(First(Width, heard)) + Width

\* read_exact, with the header kept in front of the content.
Hear ==
    /\ child \in {"header", "content"} /\ Len(heard) < due
    /\ \E n \in 1..Smaller(Len(stdin), due - Len(heard)) :
          /\ heard' = heard \o First(n, stdin)
          /\ stdin' = Rest(n, stdin)
    /\ UNCHANGED <<pc, request, reading, stdout, child, reply>>

Announced ==
    /\ child = "header" /\ Len(heard) = due
    /\ child' = "content"
    /\ UNCHANGED <<pc, request, reading, stdin, stdout, heard, reply>>

LineFrame(l) == <<l.flag>> \o put_u32le(Len(l.key)) \o l.key
Frame(lines) ==
    put_u32le(Len(lines)) \o FlattenSeq([n \in DOMAIN lines |-> LineFrame(lines[n])])

\* normalize
Answers ==
    /\ child = "content" /\ Len(heard) = due
    /\ reply' = Frame(Answer[Rest(Width, heard)])
    /\ heard' = <<>>
    /\ child' = "answer"
    /\ UNCHANGED <<pc, request, reading, stdin, stdout>>

\* fwrite, also to a tool that is gone.
Speak ==
    /\ child = "answer"
    /\ \E n \in IF over THEN {Len(reply)} ELSE 1..Smaller(Len(reply), PipeSize - Len(stdout)) :
          /\ stdout' = IF over THEN stdout ELSE stdout \o First(n, reply)
          /\ reply' = Rest(n, reply)
          /\ child' = IF n = Len(reply) THEN "header" ELSE "answer"
    /\ UNCHANGED <<pc, request, reading, stdin, heard>>

\* A short read means that the tool has closed the pipe.
ChildEnds ==
    /\ child \in {"header", "content"} /\ Len(heard) < due /\ stdin = <<>> /\ over
    /\ child' = "gone"
    /\ UNCHANGED <<pc, request, reading, stdin, stdout, heard, reply>>

\* It cannot be executed, runs out of memory, or is killed.
ChildDies ==
    /\ child # "gone"
    /\ child' = "gone"
    /\ UNCHANGED <<pc, request, reading, stdin, stdout, heard, reply>>

Tool == (\E c \in DOMAIN Answer : Request(c)) \/ WriteSome \/ BrokenPipe \/ Fill \/ Truncated
        \/ Gather \/ Header \/ Meta \/ ViewInBuffer \/ ViewInScratch \/ Close
Child == Hear \/ Announced \/ Answers \/ Speak \/ ChildEnds

ExchangeNext == Tool \/ Child \/ ChildDies

ExchangeSpec == ExchangeInit /\ [][ExchangeNext]_exchangeVars /\ WF_exchangeVars(Tool) /\ WF_exchangeVars(Child)

-----------------------------------------------------------------------------
(* Properties.                                                             *)

\* on_line gets the lines of the answer to this very file, in order, each key in one
\* piece however the answer is cut into reads; and a file counts as normalized only
\* when all its lines came (comment of run_each).
KeysAreTheAnswers ==
    asked > 0 => /\ IsPrefix(delivered, Answer[content])
                 /\ pc = "idle" => delivered = Answer[content]

\* The protocol is half-duplex: between two requests nothing is left in the buffer
\* or the pipes, so that a bulk read never takes bytes of another answer (comment
\* of fill_buffer).
NothingLeftOver ==
    pc = "idle" => /\ avail = 0 /\ got = <<>> /\ stdin = <<>> /\ stdout = <<>>
                   /\ child \in {"header", "gone"} /\ (child = "header" => heard = <<>>)

\* However small the pipes are, both sides end: neither waits for the other to
\* read or write, also when one dies in the middle.
BothEnd == <>(over /\ child = "gone")

-----------------------------------------------------------------------------
(* What is on its way: the invariant behind them.                          *)

ThisRequest == put_u32le(Len(content)) \o content
ThisAnswer == Answer[content]
Frames == [n \in DOMAIN ThisAnswer |-> LineFrame(ThisAnswer[n])]

\* The bytes of the lines from the n-th on.
LinesFrom(n) == FlattenSeq(SubSeq(Frames, n, Len(Frames)))

\* What the tool has still to take apart, and what the coprocess has to hear.
buffered == Rest(rpos, rbuf)
Unread == got \o (buffered \o (stdout \o reply))
Unheard == heard \o (stdin \o unsent)

\* The request is on its way: nothing has come back.
Asked ==
    /\ Unheard = ThisRequest /\ Unread = <<>> /\ delivered = <<>>
    /\ child \in {"header", "content", "gone"}
    /\ child = "content" => Len(heard) >= Width
    /\ child = "header" => Len(heard) <= Width

\* The answer is on its way: what is left of it is what belongs to the place where
\* the tool is.
Answered ==
    /\ Unheard = <<>> /\ child \in {"answer", "header", "gone"}
    /\ child = "answer" => reply # <<>>
    /\ pc = "header" => delivered = <<>> /\ Unread = Frame(ThisAnswer)
    /\ pc \in {"meta", "key"} =>
          Len(delivered) < Len(ThisAnswer) /\ left = Len(ThisAnswer) - Len(delivered)
    /\ pc = "meta" => Unread = LinesFrom(Len(delivered) + 1)
    /\ pc = "key" =>
          LET l == ThisAnswer[Len(delivered) + 1]
          IN  /\ line = [flag |-> l.flag, klen |-> Len(l.key)]
              /\ Unread = l.key \o LinesFrom(Len(delivered) + 2)

Quiet == Unread = <<>> /\ Unheard = <<>> /\ child \in {"header", "gone"}

Stream ==
    /\ {rbuf, got, stdin, stdout, heard, reply, unsent} \subseteq Seq(Byte)
    /\ rpos \in 0..Len(rbuf)
    /\ CASE pc = "idle" -> Quiet /\ (asked > 0 => delivered = ThisAnswer)
         [] pc = "write" -> Asked /\ unsent # <<>>
         [] pc = "header" -> (Asked /\ unsent = <<>>) \/ Answered
         [] OTHER -> Answered

Told == delivered = SubSeq(ThisAnswer, 1, Len(delivered)) /\ Len(delivered) <= Len(ThisAnswer)

StreamInv ==
    /\ asked \in Nat /\ pc \in {"idle", "write", "header", "meta", "key", "closed", "fatal", "killed"}
    /\ pc # "idle" /\ ~over => asked > 0
    /\ asked > 0 => content \in DOMAIN Answer /\ delivered \in Seq(NormLine) /\ Told
    /\ ~over => Stream
=============================================================================
