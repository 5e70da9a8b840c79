------------------------------ MODULE MiStream ------------------------------
(***************************************************************************)
(* The thread that reads GDB's output, with the parser it feeds: chunks of *)
(* any size, lines, records.  The stream is a sequence of tokens, as       *)
(* MiParser has them; the newline and the return are tokens too.           *)
(***************************************************************************)
EXTENDS MiParser

CONSTANTS
  Tokens,      \* that a stream consists of
  Streams,     \* what GDB may write
  MaxRecord    \* MAX_MI_RECORD_BYTES, in tokens

ASSUME StreamAssumption == Streams \subseteq Seq(Tokens) /\ MaxRecord \in Nat \ {0}

VARIABLES
  stream, pos,   \* all that GDB will write, and how much of it was read
  pending,       \* the parser's buffer
  pushing,       \* push is at work on it
  records,       \* and these are the records it has found
  sent,          \* what the thread sent to the session
  error          \* and the error it ended with; "end" is the end of the stream
vars == <<stream, pos, pending, pushing, records, sent, error>>

\* A record, by its tree; history: where in the stream its line ends.
Record(end, tree) == [end |-> end, tree |-> tree]

Init ==
  /\ stream \in Streams /\ pos = 0
  /\ pending = <<>> /\ pushing = FALSE /\ records = <<>> /\ sent = <<>> /\ error = "none"

\* read_stdout: a read returns some of what there is, and push takes it up.
\* Faulty variant first: what remained of the last chunk is forgotten.
Replaced(chunk) == chunk
Extended(chunk) == pending \o chunk

Read ==
  /\ error = "none" /\ ~pushing
  /\ \E next \in (pos + 1)..Len(stream) :
       pos' = next /\ pending' = Extended(SubSeq(stream, pos + 1, next))
  /\ pushing' = TRUE
  /\ UNCHANGED <<stream, records, sent, error>>

\* What is before the first newline of the buffer, and what is if there is none.
Newline(i) == i \in DOMAIN pending /\ pending[i] = "\n" /\ \A j \in 1..(i - 1) : pending[j] # "\n"
NoNewline == \A i \in DOMAIN pending : pending[i] # "\n"

\* Faulty variant first: only the newline is cut off.
WithoutNewline(line) == line
WithoutReturn(line) == IF line # <<>> /\ Last(line) = "\r" THEN Front(line) ELSE line

\* push returns an error: what it has found is dropped, the thread and the
\* session end.
Fail(why) == error' = why /\ pushing' = FALSE /\ records' = <<>> /\ UNCHANGED sent

\* The loop of push takes the complete lines off the buffer.
TakeLine ==
  /\ pushing
  /\ \E i \in 1..(MaxRecord + 1) :
       LET line == WithoutReturn(SubSeq(pending, 1, i - 1))
           r == ParseRecord(line)
       IN /\ Newline(i)
          /\ pending' = SubSeq(pending, i + 1, Len(pending))
          /\ \/ line = <<>> /\ UNCHANGED <<pushing, records, sent, error>>
             \/ line # <<>> /\ r.at = 0 /\ Fail("invalid")
             \/ /\ line # <<>> /\ r.at # 0
                /\ records' = Append(records, Record(pos - Len(pending) + i, r.tree))
                /\ UNCHANGED <<pushing, sent, error>>
  /\ UNCHANGED <<stream, pos>>

\* The line is too long, whether it is complete or not.
TooLarge ==
  /\ pushing
  /\ (NoNewline /\ Len(pending) > MaxRecord) \/ \E i \in DOMAIN pending : Newline(i) /\ i > MaxRecord + 1
  /\ pending' = <<>> /\ Fail("too large")
  /\ UNCHANGED <<stream, pos>>

\* push returns, and what it has found is sent.
Send ==
  /\ pushing /\ NoNewline /\ Len(pending) <= MaxRecord
  /\ pushing' = FALSE /\ sent' = sent \o records /\ records' = <<>>
  /\ UNCHANGED <<stream, pos, pending, error>>

\* MiStreamParser.finish
EndOfStream ==
  /\ error = "none" /\ ~pushing /\ pos = Len(stream)
  /\ error' = IF pending = <<>> THEN "end" ELSE "truncated"
  /\ pending' = <<>>
  /\ UNCHANGED <<stream, pos, pushing, records, sent>>

Next == Read \/ TakeLine \/ TooLarge \/ Send \/ EndOfStream
Spec == Init /\ [][Next]_vars
-----------------------------------------------------------------------------
\* The ends of lines in the first n tokens, and where the line begins that e is in.
Ends(n) == {e \in 1..n : stream[e] = "\n"}
Begins(b, e) == (b = 1 \/ stream[b - 1] = "\n") /\ \A i \in b..(e - 1) : stream[i] # "\n"
Start(e) == CHOOSE b \in 1..e : Begins(b, e)
Line(e) == WithoutReturn(SubSeq(stream, Start(e), e - 1))
Good(e) == e - Start(e) <= MaxRecord /\ (Line(e) = <<>> \/ ParseRecord(Line(e)).at # 0)
IsSent(e) == \E i \in DOMAIN sent : sent[i].end = e

\* Nothing that was read is in hand, and there was no error in it.
Settled == (error = "none" /\ ~pushing) \/ error \in {"end", "truncated"}

\* The line that begins at b is too long, or does not parse.
StopsAt(b) ==
  IF error = "too large" THEN b + MaxRecord <= pos /\ Begins(b, b + MaxRecord + 1)
  ELSE \E e \in Ends(pos) : Start(e) = b /\ ~Good(e) /\ e - b <= MaxRecord

\* However the pipe cuts the stream: what is sent are the records of the first
\* lines, one for each that is not empty, in order, none twice; of all the lines
\* that were read, unless one has failed.  That is the first line that is too long
\* or does not parse; nothing from it on is believed.
SendsWholeLines ==
  /\ \A i, j \in DOMAIN sent : i < j => sent[i].end < sent[j].end
  /\ \A i \in DOMAIN sent :
       LET e == sent[i].end
       IN /\ e \in Ends(pos) /\ Good(e) /\ Line(e) # <<>> /\ sent[i].tree = ParseRecord(Line(e)).tree
          /\ \A f \in Ends(e) : Good(f) /\ (Line(f) # <<>> => IsSent(f))
  /\ Settled =>
       /\ \A e \in Ends(pos) : Good(e) /\ (Line(e) # <<>> => IsSent(e))
       /\ \A b \in 1..pos : Begins(b, pos + 1) => pos + 1 - b <= MaxRecord
  /\ error \in {"end", "truncated"} =>
       pos = Len(stream) /\ (error = "end" <=> (stream = <<>> \/ Last(stream) = "\n"))
  /\ error \in {"invalid", "too large"} =>
       \E b \in 1..pos :
         /\ \A e \in Ends(b - 1) : Good(e)
         /\ \A i \in DOMAIN sent : sent[i].end < b
         /\ StopsAt(b)
=============================================================================
