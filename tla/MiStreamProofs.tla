---------------------------- MODULE MiStreamProofs ----------------------------
(* Proofs about MiStream and MiGrammar, for all tokens, streams and record       *)
(* sizes.  First push and the thread that calls it: of the parser nothing is     *)
(* used there, it holds for whatever ParseRecord returns.  Then the parser: it   *)
(* is shown to accept the grammar's records and nothing else.  Last the two      *)
(* together.                                                                     *)
EXTENDS MiGrammar, Integers, SequenceTheorems, WellFoundedInduction, TLAPS

\* Line e as push should record it.
Entry(e) == Record(e, ParseRecord(Line(e)).tree)
Entries == {Entry(e) : e \in {e \in Ends(Len(stream)) : Line(e) # <<>>}}

\* o has the records of the first n tokens, which end with a line, all of them good.
Holds(o, n) ==
  /\ o \in Seq(Entries)
  /\ \A i, j \in DOMAIN o : i < j => o[i].end < o[j].end
  /\ \A i \in DOMAIN o : o[i].end \in Ends(n) /\ Line(o[i].end) # <<>>
  /\ \A e \in Ends(n) : Good(e) /\ (Line(e) # <<>> => \E i \in DOMAIN o : o[i].end = e)

\* The lines of the first t tokens were taken off the buffer, o is what they were.
NoEnd(t, n) == \A i \in (t + 1)..n : stream[i] # "\n"
Frame(t, o) ==
  /\ t \in 0..pos /\ pending = SubSeq(stream, t + 1, pos) /\ (t = 0 \/ stream[t] = "\n")
  /\ o = sent \o records /\ Holds(o, t)
  /\ ~pushing => records = <<>> /\ NoEnd(t, pos) /\ pos - t <= MaxRecord

Typed == stream \in Seq(Tokens) /\ pos \in 0..Len(stream) /\ pushing \in BOOLEAN
Sound == \E n, o : n \in 0..pos /\ o = sent /\ Holds(o, n)
Reading == error = "none" => records \in Seq(Entries) /\ \E t, o : Frame(t, o)

\* Where the thread has ended, and why.
Finished ==
  error \in {"end", "truncated"} =>
    /\ \A e \in Ends(pos) : Good(e) /\ (Line(e) # <<>> => IsSent(e))
    /\ \A b \in 1..pos : Begins(b, pos + 1) => pos + 1 - b <= MaxRecord
    /\ pos = Len(stream) /\ (error = "end" <=> (stream = <<>> \/ Last(stream) = "\n"))
Failed ==
  error \in {"invalid", "too large"} =>
    \E b \in 1..pos :
      /\ \A e \in Ends(b - 1) : Good(e)
      /\ \A i \in DOMAIN sent : sent[i].end < b
      /\ StopsAt(b)

FrameInv ==
  /\ Typed /\ Sound /\ Reading /\ Finished /\ Failed
  /\ error \in {"none", "end", "truncated", "invalid", "too large"} /\ (error # "none" => ~pushing)
-----------------------------------------------------------------------------
LEMMA PartOfPart ==
  ASSUME NEW s \in Seq(Tokens), NEW t \in Nat, NEW n \in Nat, t <= n, n <= Len(s),
         NEW p, p = SubSeq(s, t + 1, n), NEW i \in 1..(n - t)
  PROVE  /\ p \in Seq(Tokens) /\ Len(p) = n - t /\ \A j \in 1..(n - t) : p[j] = s[t + j]
         /\ SubSeq(p, 1, i - 1) = SubSeq(s, t + 1, t + i - 1)
         /\ SubSeq(p, i + 1, Len(p)) = SubSeq(s, t + i + 1, n)
<1>1. p \in Seq(Tokens) /\ Len(p) = n - t /\ \A j \in 1..(n - t) : p[j] = s[t + j]
  OBVIOUS
<1>2. SubSeq(p, 1, i - 1) = SubSeq(s, t + 1, t + i - 1)
  <2>1. /\ SubSeq(p, 1, i - 1) \in Seq(Tokens) /\ Len(SubSeq(p, 1, i - 1)) = i - 1
        /\ \A j \in 1..(i - 1) : SubSeq(p, 1, i - 1)[j] = p[j]
    BY <1>1
  <2>2. /\ SubSeq(s, t + 1, t + i - 1) \in Seq(Tokens) /\ Len(SubSeq(s, t + 1, t + i - 1)) = i - 1
        /\ \A j \in 1..(i - 1) : SubSeq(s, t + 1, t + i - 1)[j] = s[t + j]
    OBVIOUS
  <2> QED BY <1>1, <2>1, <2>2, SeqEqual
<1>3. SubSeq(p, i + 1, Len(p)) = SubSeq(s, t + i + 1, n)
  <2>0. \A k \in (i + 1)..Len(p) : p[k] \in Tokens
    BY <1>1
  <2>1. /\ SubSeq(p, i + 1, Len(p)) \in Seq(Tokens) /\ Len(SubSeq(p, i + 1, Len(p))) = n - t - i
        /\ \A j \in 1..(n - t - i) : SubSeq(p, i + 1, Len(p))[j] = p[i + j]
    <3>0. PICK l : l = Len(p)
      OBVIOUS
    <3>1. l \in Int /\ l = n - t /\ i + 1 \in Int /\ \A k \in (i + 1)..l : p[k] \in Tokens
      <4>1. l = n - t
        BY <1>1, <3>0
      <4>2. \A k \in (i + 1)..l : p[k] \in Tokens
        BY <2>0, <3>0, Zenon
      <4> QED BY <4>1, <4>2
    <3>2. /\ SubSeq(p, i + 1, l) \in Seq(Tokens) /\ Len(SubSeq(p, i + 1, l)) = n - t - i
          /\ \A j \in 1..(l - (i + 1) + 1) : SubSeq(p, i + 1, l)[j] = p[(i + 1) + j - 1]
      BY <3>1, SubSeqProperties
    <3>3. \A j \in 1..(n - t - i) : SubSeq(p, i + 1, l)[j] = p[i + j]
      BY <3>1, <3>2
    <3> QED BY <3>0, <3>2, <3>3
  <2>2. /\ SubSeq(s, t + i + 1, n) \in Seq(Tokens) /\ Len(SubSeq(s, t + i + 1, n)) = n - t - i
        /\ \A j \in 1..(n - t - i) : SubSeq(s, t + i + 1, n)[j] = s[t + i + j]
    OBVIOUS
  <2> QED BY <1>1, <2>1, <2>2, SeqEqual
<1> QED BY <1>1, <1>2, <1>3

LEMMA FirstOfConcat ==
  ASSUME NEW S, NEW p \in Seq(S), NEW q \in Seq(S)
  PROVE  \A i \in DOMAIN p : i \in DOMAIN (p \o q) /\ (p \o q)[i] = p[i]
OBVIOUS

\* The line that begins after the last end of a line.
LEMMA StartIsNext ==
  ASSUME NEW t \in Nat, NEW e \in Nat, t < e, t = 0 \/ stream[t] = "\n", NoEnd(t, e - 1)
  PROVE  Start(e) = t + 1 /\ Begins(t + 1, e)
         /\ \A b \in 1..e : Begins(b, e) => b = t + 1
<1>1. t + 1 \in 1..e /\ Begins(t + 1, e)
  BY DEF Begins, NoEnd
<1>2. ASSUME NEW b \in 1..e, Begins(b, e)
      PROVE  b = t + 1
  <2>1. CASE b <= t
    <3>1. t \in b..(e - 1) /\ stream[t] = "\n"
      BY <2>1
    <3> QED BY <1>2, <3>1 DEF Begins
  <2>2. CASE b > t + 1
    <3>1. b - 1 \in (t + 1)..(e - 1) /\ stream[b - 1] = "\n"
      BY <1>2, <2>2 DEF Begins
    <3> QED BY <3>1 DEF NoEnd
  <2> QED BY <2>1, <2>2
<1> QED BY <1>1, <1>2 DEF Start

\* What is known of the buffer.
LEMMA BufferIs ==
  ASSUME Typed, NEW t, NEW o, Frame(t, o)
  PROVE  /\ t \in Nat /\ pos \in Nat /\ t <= pos /\ pos <= Len(stream) /\ Len(stream) \in Nat
         /\ pending \in Seq(Tokens) /\ Len(pending) = pos - t /\ DOMAIN pending = 1..(pos - t)
         /\ \A j \in 1..(pos - t) : pending[j] = stream[t + j]
<1>1. stream \in Seq(Tokens) /\ t \in Nat /\ pos \in Nat /\ t <= pos /\ pos <= Len(stream)
      /\ Len(stream) \in Nat /\ pending = SubSeq(stream, t + 1, pos)
  BY DEF Typed, Frame
<1>2. /\ pending \in Seq(Tokens) /\ Len(pending) = pos - t
      /\ \A j \in 1..(pos - t) : pending[j] = stream[t + j]
  BY <1>1
<1> QED BY <1>1, <1>2

\* The stream does not change, nor does what it holds.
LEMMA Frozen ==
  ASSUME UNCHANGED stream
  PROVE  /\ \A n : Ends(n)' = Ends(n)
         /\ \A e : Line(e)' = Line(e) /\ Good(e)' = Good(e) /\ Start(e)' = Start(e)
         /\ \A b, e : Begins(b, e)' = Begins(b, e)
         /\ \A o, n : Holds(o, n)' = Holds(o, n)
         /\ \A t, n : NoEnd(t, n)' = NoEnd(t, n)
         /\ Entries' = Entries /\ \A e : Entry(e)' = Entry(e)
BY DEF Ends, Line, Good, Start, Begins, Holds, NoEnd, Entries, Entry

\* A line more that has no record, or has one.
LEMMA HoldsMore ==
  ASSUME Typed, NEW t \in Nat, NEW e \in 1..Len(stream), t < e, NEW o, Holds(o, t),
         NoEnd(t, e - 1), stream[e] = "\n", Good(e)
  PROVE  /\ Line(e) = <<>> => Holds(o, e)
         /\ Line(e) # <<>> => Holds(Append(o, Entry(e)), e)
<1>1. \A f \in Ends(e) : f \in Ends(t) \/ f = e
  BY DEF Ends, NoEnd, Typed
<1>2. e \in Ends(e) /\ e \in Ends(Len(stream)) /\ (\A f \in Ends(t) : f \in Ends(e) /\ f < e)
  BY DEF Ends, Typed
<1>3. CASE Line(e) = <<>>
  BY <1>1, <1>2, <1>3 DEF Holds
<1>4. CASE Line(e) # <<>>
  <2> DEFINE x == Entry(e)
             p == Append(o, x)
             last == Len(o) + 1
  <2>1. x \in Entries /\ x.end = e
    BY <1>2, <1>4 DEF Entries, Entry, Record
  <2> HIDE DEF x
  <2>2. /\ p \in Seq(Entries) /\ Len(o) \in Nat /\ DOMAIN p = 1..last /\ DOMAIN o = 1..Len(o)
        /\ \A i \in 1..Len(o) : p[i] = o[i]
        /\ p[last] = x
    BY <2>1 DEF Holds
  <2> HIDE DEF p
  <2>3. \A i \in 1..Len(o) : p[i].end \in Ends(t) /\ Line(p[i].end) # <<>>
    BY <2>2 DEF Holds
  <2>4. \A i \in DOMAIN p : p[i].end \in Ends(e) /\ Line(p[i].end) # <<>>
    <3>1. TAKE i \in DOMAIN p
    <3>2. CASE i = last
      BY <1>2, <1>4, <2>1, <2>2, <3>2
    <3>3. CASE i \in 1..Len(o)
      BY <1>2, <2>3, <3>3
    <3> QED BY <2>2, <3>2, <3>3
  <2>5. ASSUME NEW i \in DOMAIN p, NEW j \in DOMAIN p, i < j
        PROVE  p[i].end < p[j].end
    <3>1. i \in 1..Len(o)
      BY <2>2, <2>5
    <3>2. CASE j = last
      BY <1>2, <2>1, <2>2, <2>3, <3>1, <3>2
    <3>3. CASE j \in 1..Len(o)
      BY <2>2, <2>5, <3>1, <3>3 DEF Holds
    <3> QED BY <2>2, <3>2, <3>3
  <2>6. ASSUME NEW f \in Ends(e)
        PROVE  Good(f) /\ (Line(f) # <<>> => \E i \in DOMAIN p : p[i].end = f)
    <3>1. CASE f = e
      <4>1. last \in DOMAIN p /\ p[last].end = e
        BY <2>1, <2>2
      <4> QED BY <3>1, <4>1
    <3>2. CASE f \in Ends(t)
      <4>1. Good(f) /\ (Line(f) # <<>> => \E i \in DOMAIN o : o[i].end = f)
        BY <3>2 DEF Holds
      <4>2. \A i \in DOMAIN o : i \in DOMAIN p /\ p[i] = o[i]
        BY <2>2
      <4> QED BY <4>1, <4>2
    <3> QED BY <1>1, <3>1, <3>2
  <2>7. Holds(p, e)
    BY <2>2, <2>4, <2>5, <2>6 DEF Holds
  <2> QED BY <1>4, <2>7 DEF p, x
<1> QED BY <1>3, <1>4

\* Tokens more without an end of a line.
LEMMA HoldsOn ==
  ASSUME Typed, NEW t \in Nat, NEW n \in Nat, t <= n, NoEnd(t, n), NEW o, Holds(o, t)
  PROVE  Holds(o, n)
<1>1. Ends(n) = Ends(t)
  BY DEF Ends, NoEnd
<1> QED BY <1>1 DEF Holds

\* The newline at i in the buffer ends line e of the stream.
NewLine(t, i, e) ==
  /\ t \in Nat /\ i \in Nat \ {0} /\ pos - Len(pending) + i = e
  /\ e \in 1..pos /\ e \in Ends(pos) /\ stream[e] = "\n" /\ t < e
  /\ NoEnd(t, e - 1) /\ Start(e) = t + 1
  /\ SubSeq(pending, 1, i - 1) = SubSeq(stream, Start(e), e - 1)
  /\ SubSeq(pending, i + 1, Len(pending)) = SubSeq(stream, e + 1, pos)

LEMMA LineInStream ==
  ASSUME Typed, NEW t, NEW o, Frame(t, o), NEW i, Newline(i)
  PROVE  NewLine(t, i, t + i)
<1>0. i \in DOMAIN pending
  BY DEF Newline
<1>1. /\ t \in Nat /\ pos \in Nat /\ t <= pos /\ pos <= Len(stream) /\ stream \in Seq(Tokens)
      /\ Len(pending) = pos - t /\ i \in 1..(pos - t)
      /\ \A j \in 1..(pos - t) : pending[j] = stream[t + j]
  BY <1>0, BufferIs DEF Typed
<1>2. t + i \in 1..pos /\ stream[t + i] = "\n" /\ t + i \in Nat /\ t < t + i
  <2>1. pending[i] = "\n"
    BY DEF Newline
  <2> QED BY <1>1, <2>1
<1>3. NoEnd(t, t + i - 1)
  <2>1. ASSUME NEW k \in (t + 1)..(t + i - 1)
        PROVE  stream[k] # "\n"
    <3>1. k - t \in 1..(i - 1) /\ k - t \in 1..(pos - t) /\ t + (k - t) = k
      BY <1>1
    <3> QED BY <1>1, <3>1 DEF Newline
  <2> QED BY <2>1 DEF NoEnd
<1>4. Start(t + i) = t + 1
  BY <1>1, <1>2, <1>3, StartIsNext DEF Frame
<1>5. /\ SubSeq(pending, 1, i - 1) = SubSeq(stream, t + 1, t + i - 1)
      /\ SubSeq(pending, i + 1, Len(pending)) = SubSeq(stream, t + i + 1, pos)
  <2>1. pending = SubSeq(stream, t + 1, pos)
    BY DEF Frame
  <2>2. stream \in Seq(Tokens) /\ t \in Nat /\ pos \in Nat /\ t <= pos /\ pos <= Len(stream) /\ i \in 1..(pos - t)
    BY <1>1
  <2>3. \A p : p = SubSeq(stream, t + 1, pos) =>
          /\ SubSeq(p, 1, i - 1) = SubSeq(stream, t + 1, t + i - 1)
          /\ SubSeq(p, i + 1, Len(p)) = SubSeq(stream, t + i + 1, pos)
    BY <2>2, PartOfPart
  <2> QED BY <2>1, <2>3
<1>6. pos - Len(pending) + i = t + i /\ i \in Nat \ {0} /\ t < t + i
  BY <1>1
<1>7. t + i \in Ends(pos)
  BY <1>2 DEF Ends
<1> QED BY <1>1, <1>2, <1>3, <1>4, <1>5, <1>6, <1>7 DEF NewLine

LEMMA NoLineInStream ==
  ASSUME Typed, NEW t, NEW o, Frame(t, o), NoNewline
  PROVE  NoEnd(t, pos)
<1>1. /\ t \in Nat /\ pos \in Nat /\ DOMAIN pending = 1..(pos - t)
      /\ \A j \in 1..(pos - t) : pending[j] = stream[t + j]
  BY BufferIs
<1>2. ASSUME NEW k \in (t + 1)..pos PROVE stream[k] # "\n"
  <2>1. k - t \in 1..(pos - t) /\ t + (k - t) = k
    BY <1>1
  <2> QED BY <1>1, <2>1 DEF NoNewline
<1> QED BY <1>2 DEF NoEnd

\* The steps.
LEMMA ReadStep ==
  ASSUME FrameInv, Read
  PROVE  FrameInv'
<1>1. /\ error = "none" /\ ~pushing /\ pushing' /\ pushing' \in BOOLEAN
      /\ UNCHANGED <<stream, records, sent, error>>
  BY DEF Read
<1>2. PICK next \in (pos + 1)..Len(stream) :
        pos' = next /\ pending' = pending \o SubSeq(stream, pos + 1, next)
  BY DEF Read, Extended
<1>0. Typed
  BY DEF FrameInv
<1>3. Typed /\ stream \in Seq(Tokens) /\ pos \in Nat /\ Len(stream) \in Nat
  BY <1>0 DEF Typed
<1>4. Typed'
  BY <1>1, <1>2, <1>3 DEF Typed
<1>5. PICK t, o : Frame(t, o)
  BY <1>1 DEF FrameInv, Reading
<1>6. Frame(t, o)'
  <2>1. t \in 0..pos /\ pending = SubSeq(stream, t + 1, pos)
    BY <1>5 DEF Frame
  <2>2. pending' = SubSeq(stream, t + 1, next)
    <3>1. t + 1 \in 1..(Len(stream) + 1) /\ pos \in ((t + 1) - 1)..Len(stream) /\ next \in pos..Len(stream)
      BY <1>2, <1>3, <2>1
    <3> QED BY <1>2, <1>3, <2>1, <3>1, ConcatAdjacentSubSeq
  <2>3. t \in 0..next
    BY <1>2, <1>3, <2>1
  <2> QED BY <1>1, <1>2, <1>5, <2>2, <2>3, Frozen DEF Frame
<1>7. Sound'
  <2>1. PICK n, s : n \in 0..pos /\ s = sent /\ Holds(s, n)
    BY DEF FrameInv, Sound
  <2>2. n \in 0..next /\ Holds(s, n)'
    BY <1>1, <1>2, <1>3, <2>1, Frozen
  <2> QED BY <1>1, <1>2, <2>1, <2>2 DEF Sound
<1>8. Reading' /\ Finished' /\ Failed'
  BY <1>1, <1>6, Frozen DEF FrameInv, Reading, Finished, Failed
<1> QED BY <1>1, <1>4, <1>7, <1>8 DEF FrameInv

\* All that was sent is of lines before the one that is at the head of the buffer.
LEMMA SentBefore ==
  ASSUME NEW t \in Nat, NEW o, Holds(o, t), o = sent \o records,
         sent \in Seq(Entries), records \in Seq(Entries)
  PROVE  (\A e \in Ends((t + 1) - 1) : Good(e)) /\ \A i \in DOMAIN sent : sent[i].end < t + 1
<1>1. \A i \in DOMAIN sent : i \in DOMAIN o /\ o[i] = sent[i]
  BY FirstOfConcat
<1>2. \A i \in DOMAIN o : o[i].end \in Ends(t)
  BY DEF Holds
<1>3. \A i \in DOMAIN sent : sent[i].end \in Ends(t)
  BY <1>1, <1>2
<1>4. \A e \in Ends(t) : e < t + 1
  BY DEF Ends
<1>5. (t + 1) - 1 = t
  OBVIOUS
<1>6. \A e \in Ends((t + 1) - 1) : Good(e)
  BY <1>5 DEF Holds
<1> QED BY <1>3, <1>4, <1>6

\* An error in the line after the first t tokens.
Blames(b) ==
  /\ b \in 1..pos
  /\ \A e \in Ends(b - 1) : Good(e)
  /\ \A i \in DOMAIN sent : sent[i].end < b

LEMMA BlamesHead ==
  ASSUME FrameInv, error = "none", NEW t, NEW o, Frame(t, o), pos > t
  PROVE  Blames(t + 1)
<1>1. Typed /\ t \in Nat /\ pos \in Nat
  BY BufferIs DEF FrameInv
<1>2. t + 1 \in 1..pos
  BY <1>1
<1>3. PICK n, s : n \in 0..pos /\ s = sent /\ Holds(s, n)
  BY DEF FrameInv, Sound
<1>4. sent \in Seq(Entries) /\ records \in Seq(Entries)
  BY <1>3 DEF Holds, FrameInv, Reading
<1>5. Holds(o, t) /\ o = sent \o records
  BY DEF Frame
<1>6. (\A e \in Ends((t + 1) - 1) : Good(e)) /\ \A i \in DOMAIN sent : sent[i].end < t + 1
  BY <1>1, <1>4, <1>5, SentBefore
<1> QED BY <1>2, <1>6 DEF Blames

LEMMA FailStep ==
  ASSUME FrameInv, error = "none", NEW why, Fail(why), UNCHANGED <<stream, pos>>,
         why \in {"invalid", "too large"}, NEW b, Blames(b), StopsAt(b)'
  PROVE  FrameInv'
<1>1. /\ error' = why /\ ~pushing' /\ pushing' \in BOOLEAN /\ error' # "none"
      /\ UNCHANGED <<sent, stream, pos>>
  BY DEF Fail
<1>2. Typed' /\ Sound'
  <2>1. PICK n, s : n \in 0..pos /\ s = sent /\ Holds(s, n)
    BY DEF FrameInv, Sound
  <2>2. Holds(s, n)'
    BY <1>1, <2>1, Frozen
  <2>3. Sound'
    BY <1>1, <2>1, <2>2 DEF Sound
  <2> QED BY <1>1, <2>3 DEF FrameInv, Typed
<1>3. Reading' /\ Finished'
  BY <1>1 DEF Reading, Finished
<1>4. Failed'
  <2>1. /\ b \in 1..pos' /\ (\A e \in Ends(b - 1)' : Good(e)')
        /\ \A i \in DOMAIN sent' : sent'[i].end < b
    BY <1>1, Frozen DEF Blames
  <2> QED BY <2>1 DEF Failed
<1>5. error' \in {"none", "end", "truncated", "invalid", "too large"}
  BY <1>1
<1> QED BY <1>1, <1>2, <1>3, <1>4, <1>5 DEF FrameInv

\* A record found is in the stream's account, whether it is sent or not yet.
LEMMA OneMoreFound ==
  ASSUME sent \in Seq(Entries), records \in Seq(Entries), NEW x \in Entries,
         records' = Append(records, x), NEW o, o = sent \o records
  PROVE  Append(o, x) = sent \o records' /\ records' \in Seq(Entries)
<1>1. sent \o Append(records, x) = Append(sent \o records, x) /\ Append(records, x) \in Seq(Entries)
  OBVIOUS
<1> QED BY <1>1

LEMMA GoodLine ==
  ASSUME NEW e, e - Start(e) <= MaxRecord, Line(e) = <<>> \/ ParseRecord(Line(e)).at # 0
  PROVE  Good(e)
BY DEF Good

\* The line is good, or is empty.
LEMMA KeepLine ==
  ASSUME FrameInv, error = "none", NEW t, NEW o, Frame(t, o), pushing, NEW i, NEW e, NewLine(t, i, e),
         UNCHANGED <<stream, pos, pushing, sent, error>>,
         pending' = SubSeq(stream, e + 1, pos), Good(e),
         \/ Line(e) = <<>> /\ UNCHANGED records
         \/ Line(e) # <<>> /\ records' = Append(records, Entry(e))
  PROVE  FrameInv'
<1>1. /\ e \in 1..pos /\ e \in Ends(pos) /\ stream[e] = "\n" /\ NoEnd(t, e - 1) /\ t \in Nat
      /\ pending' = SubSeq(stream, e + 1, pos) /\ t < e
  BY DEF NewLine
<1>2. Typed /\ pos \in Nat /\ pos <= Len(stream) /\ Len(stream) \in Nat
  BY BufferIs DEF FrameInv
<1>3. e \in 1..Len(stream) /\ e \in 0..pos
  BY <1>1, <1>2
<1>4. Holds(o, t) /\ o = sent \o records
  BY DEF Frame
<1>5. sent \in Seq(Entries) /\ records \in Seq(Entries)
  BY DEF FrameInv, Sound, Holds, Reading
<1>7. /\ Line(e) = <<>> => Holds(o, e)
      /\ Line(e) # <<>> => Holds(Append(o, Entry(e)), e)
  BY <1>1, <1>2, <1>3, <1>4, HoldsMore
<1>8. Reading'
  <2>1. CASE Line(e) = <<>> /\ UNCHANGED records
    <3>1. Frame(e, o)'
      BY <1>1, <1>3, <1>4, <1>7, <2>1, Frozen DEF Frame
    <3>2. records' \in Seq(Entries)'
      BY <1>5, <2>1, Frozen
    <3> QED BY <3>1, <3>2 DEF Reading
  <2>2. CASE Line(e) # <<>> /\ records' = Append(records, Entry(e))
    <3>1. Entry(e) \in Entries
      <4>1. e \in Ends(Len(stream))
        BY <1>1, <1>3 DEF Ends
      <4> QED BY <2>2, <4>1 DEF Entries
    <3>2. Append(o, Entry(e)) = sent' \o records' /\ records' \in Seq(Entries)
      <4>1. Append(o, Entry(e)) = sent \o records' /\ records' \in Seq(Entries)
        BY <1>4, <1>5, <2>2, <3>1, OneMoreFound
      <4> QED BY <4>1
    <3>3. PICK p : p = Append(o, Entry(e))
      OBVIOUS
    <3>4. Frame(e, p)'
      BY <1>1, <1>3, <1>7, <2>2, <3>2, <3>3, Frozen DEF Frame
    <3>5. records' \in Seq(Entries)'
      BY <3>2, Frozen
    <3> QED BY <3>4, <3>5 DEF Reading
  <2> QED BY <2>1, <2>2
<1>9. Typed' /\ Sound'
  <2>1. PICK n, s : n \in 0..pos /\ s = sent /\ Holds(s, n)
    BY DEF FrameInv, Sound
  <2>2. Holds(s, n)'
    BY <2>1, Frozen
  <2>3. Sound'
    BY <2>1, <2>2 DEF Sound
  <2> QED BY <2>3 DEF FrameInv, Typed
<1>10. Finished' /\ Failed'
  BY DEF Finished, Failed
<1> QED BY <1>8, <1>9, <1>10 DEF FrameInv

LEMMA TakeLineStep ==
  ASSUME FrameInv, TakeLine
  PROVE  FrameInv'
<1>1. pushing /\ error = "none" /\ UNCHANGED <<stream, pos>> /\ Typed
  BY DEF TakeLine, FrameInv
<1>2. PICK t, o : Frame(t, o)
  BY <1>1 DEF FrameInv, Reading
<1>3. PICK i : i \in 1..(MaxRecord + 1) /\
        LET line == WithoutReturn(SubSeq(pending, 1, i - 1))
            r == ParseRecord(line)
        IN /\ Newline(i)
           /\ pending' = SubSeq(pending, i + 1, Len(pending))
           /\ \/ line = <<>> /\ UNCHANGED <<pushing, records, sent, error>>
              \/ line # <<>> /\ r.at = 0 /\ Fail("invalid")
              \/ /\ line # <<>> /\ r.at # 0
                 /\ records' = Append(records, Record(pos - Len(pending) + i, r.tree))
                 /\ UNCHANGED <<pushing, sent, error>>
  BY DEF TakeLine
<1>4. PICK e : e = t + i
  OBVIOUS
<1>5. NewLine(t, i, e)
  BY <1>1, <1>2, <1>3, <1>4, LineInStream
<1>6. e - Start(e) <= MaxRecord /\ e - (t + 1) <= MaxRecord
  <2>1. i \in 1..(MaxRecord + 1)
    BY <1>3
  <2>2. t \in Nat /\ Start(e) = t + 1
    BY <1>5 DEF NewLine
  <2> QED BY <1>4, <2>1, <2>2, StreamAssumption
<1>7. /\ pending' = SubSeq(stream, e + 1, pos)
      /\ \/ Line(e) = <<>> /\ UNCHANGED <<pushing, records, sent, error>>
         \/ Line(e) # <<>> /\ ParseRecord(Line(e)).at = 0 /\ Fail("invalid")
         \/ /\ Line(e) # <<>> /\ ParseRecord(Line(e)).at # 0
            /\ records' = Append(records, Entry(e))
            /\ UNCHANGED <<pushing, sent, error>>
  <2> DEFINE line == WithoutReturn(SubSeq(pending, 1, i - 1))
  <2>1. line = Line(e)
    <3>1. SubSeq(pending, 1, i - 1) = SubSeq(stream, Start(e), e - 1)
      BY <1>5 DEF NewLine
    <3> QED BY <3>1, Zenon DEF Line
  <2>2. /\ pending' = SubSeq(pending, i + 1, Len(pending))
        /\ \/ line = <<>> /\ UNCHANGED <<pushing, records, sent, error>>
           \/ line # <<>> /\ ParseRecord(line).at = 0 /\ Fail("invalid")
           \/ /\ line # <<>> /\ ParseRecord(line).at # 0
              /\ records' = Append(records, Record(pos - Len(pending) + i, ParseRecord(line).tree))
              /\ UNCHANGED <<pushing, sent, error>>
    BY <1>3
  <2> HIDE DEF line
  <2>3. pos - Len(pending) + i = e /\ SubSeq(pending, i + 1, Len(pending)) = SubSeq(stream, e + 1, pos)
    BY <1>5 DEF NewLine
  <2> QED BY <2>1, <2>2, <2>3, Zenon DEF Entry
<1>8. CASE Line(e) = <<>> /\ UNCHANGED <<pushing, records, sent, error>>
  <2>1. Good(e)
    BY <1>6, <1>8, GoodLine
  <2> QED BY <1>1, <1>2, <1>5, <1>7, <1>8, <2>1, KeepLine
<1>9. CASE Line(e) # <<>> /\ ParseRecord(Line(e)).at = 0 /\ Fail("invalid")
  <2>1. ~Good(e)
    BY <1>9 DEF Good
  <2>2. pos > t /\ pos \in Nat
    <3>1. pos \in Nat
      BY <1>1, <1>2, BufferIs
    <3> QED BY <1>5, <3>1 DEF NewLine
  <2>3. Blames(t + 1)
    BY <1>1, <1>2, <2>2, BlamesHead
  <2>4. StopsAt(t + 1)'
    <3>1. error' = "invalid"
      BY <1>9 DEF Fail
    <3>2. e \in Ends(pos)' /\ Start(e)' = t + 1 /\ ~Good(e)'
      BY <1>1, <1>5, <2>1, Frozen DEF NewLine
    <3>3. e - (t + 1) <= MaxRecord
      BY <1>6
    <3> QED BY <3>1, <3>2, <3>3, Zenon DEF StopsAt
  <2> QED BY <1>1, <1>9, <2>3, <2>4, FailStep
<1>10. CASE /\ Line(e) # <<>> /\ ParseRecord(Line(e)).at # 0 /\ records' = Append(records, Entry(e))
            /\ UNCHANGED <<pushing, sent, error>>
  <2>1. Good(e)
    BY <1>6, <1>10, GoodLine
  <2> QED BY <1>1, <1>2, <1>5, <1>7, <1>10, <2>1, KeepLine
<1> QED BY <1>7, <1>8, <1>9, <1>10

LEMMA TooLargeStep ==
  ASSUME FrameInv, TooLarge
  PROVE  FrameInv'
<1>1. pushing /\ error = "none" /\ UNCHANGED <<stream, pos>> /\ Typed /\ Fail("too large")
  BY DEF TooLarge, FrameInv
<1>2. PICK t, o : Frame(t, o)
  BY <1>1 DEF FrameInv, Reading
<1>3. /\ t \in Nat /\ pos \in Nat /\ t <= pos /\ Len(pending) = pos - t
      /\ DOMAIN pending = 1..(pos - t) /\ MaxRecord \in Nat \ {0}
  BY <1>1, <1>2, BufferIs, StreamAssumption
<1>4. t + 1 + MaxRecord <= pos /\ NoEnd(t, t + 1 + MaxRecord)
  <2>1. CASE NoNewline /\ Len(pending) > MaxRecord
    <3>1. NoEnd(t, pos)
      BY <1>1, <1>2, <2>1, NoLineInStream
    <3>2. t + 1 + MaxRecord <= pos
      BY <1>3, <2>1
    <3> QED BY <1>3, <3>1, <3>2 DEF NoEnd
  <2>2. ASSUME NEW i \in DOMAIN pending, Newline(i), i > MaxRecord + 1
        PROVE  t + 1 + MaxRecord <= pos /\ NoEnd(t, t + 1 + MaxRecord)
    <3>1. NoEnd(t, t + i - 1)
      <4>1. NewLine(t, i, t + i)
        BY <1>1, <1>2, <2>2, LineInStream
      <4> QED BY <4>1 DEF NewLine
    <3>2. i \in 1..(pos - t)
      BY <1>3
    <3>3. t + 1 + MaxRecord <= pos /\ t + 1 + MaxRecord <= t + i - 1
      BY <1>3, <2>2, <3>2
    <3>4. NoEnd(t, t + 1 + MaxRecord)
      BY <1>3, <3>1, <3>2, <3>3 DEF NoEnd
    <3> QED BY <3>3, <3>4
  <2> QED BY <2>1, <2>2 DEF TooLarge
<1>5. Begins(t + 1, t + 1 + MaxRecord + 1)
  <2>1. t = 0 \/ stream[t] = "\n"
    BY <1>2 DEF Frame
  <2>2. NoEnd(t, (t + 1 + MaxRecord + 1) - 1) /\ t + 1 + MaxRecord + 1 \in Nat /\ t < t + 1 + MaxRecord + 1
    <3>1. (t + 1 + MaxRecord + 1) - 1 = t + 1 + MaxRecord
      BY <1>3
    <3> QED BY <1>3, <1>4, <3>1
  <2> QED BY <1>3, <2>1, <2>2, StartIsNext
<1>6. Blames(t + 1)
  <2>1. pos > t
    BY <1>3, <1>4
  <2> QED BY <1>1, <1>2, <2>1, BlamesHead
<1>7. StopsAt(t + 1)'
  <2>1. error' = "too large"
    BY <1>1 DEF Fail
  <2>2. Begins(t + 1, t + 1 + MaxRecord + 1)'
    BY <1>1, <1>5, Frozen
  <2> QED BY <1>1, <1>4, <2>1, <2>2 DEF StopsAt
<1> QED BY <1>1, <1>6, <1>7, FailStep

LEMMA SendStep ==
  ASSUME FrameInv, Send
  PROVE  FrameInv'
<1>1. /\ pushing /\ error = "none" /\ Typed /\ NoNewline /\ Len(pending) <= MaxRecord
      /\ ~pushing' /\ pushing' \in BOOLEAN /\ sent' = sent \o records /\ records' = <<>>
      /\ UNCHANGED <<stream, pos, pending, error>>
  BY DEF Send, FrameInv
<1>2. PICK t, o : Frame(t, o)
  BY <1>1 DEF FrameInv, Reading
<1>3. t \in Nat /\ pos \in Nat /\ t \in 0..pos /\ Len(pending) = pos - t
  BY <1>1, <1>2, BufferIs
<1>4. NoEnd(t, pos)
  BY <1>1, <1>2, NoLineInStream
<1>5. o = sent' /\ Holds(o, t)' /\ Holds(o, t)
  BY <1>1, <1>2, Frozen DEF Frame
<1>6. o = sent' \o records'
  <2>1. o \in Seq(Entries)
    BY <1>5 DEF Holds
  <2>2. o \o <<>> = o
    BY <2>1
  <2> QED BY <1>1, <1>5, <2>2
<1>7. Frame(t, o)'
  <2>1. pos - t <= MaxRecord
    BY <1>1, <1>3
  <2>2. t \in 0..pos /\ pending = SubSeq(stream, t + 1, pos) /\ (t = 0 \/ stream[t] = "\n")
    BY <1>2 DEF Frame
  <2>3. NoEnd(t, pos)'
    BY <1>1, <1>4, Frozen
  <2> QED BY <1>1, <1>5, <1>6, <2>1, <2>2, <2>3 DEF Frame
<1>8. Reading'
  <2>1. records' \in Seq(Entries)'
    BY <1>1
  <2> QED BY <1>7, <2>1 DEF Reading
<1>9. Typed' /\ Sound'
  BY <1>1, <1>3, <1>5 DEF Typed, Sound
<1>10. Finished' /\ Failed'
  BY <1>1 DEF Finished, Failed
<1> QED BY <1>1, <1>8, <1>9, <1>10 DEF FrameInv

\* Between two calls of push, what was read is sent, but for the start of a line.
LEMMA AllSent ==
  ASSUME FrameInv, error = "none", ~pushing
  PROVE  /\ \A e \in Ends(pos) : Good(e) /\ (Line(e) # <<>> => IsSent(e))
         /\ \A b \in 1..pos : Begins(b, pos + 1) => pos + 1 - b <= MaxRecord
         /\ pending = <<>> <=> (pos = 0 \/ stream[pos] = "\n")
<1>1. PICK t, o : Frame(t, o)
  BY DEF FrameInv, Reading
<1>2. /\ Typed /\ t \in Nat /\ pos \in Nat /\ t <= pos /\ pos + 1 \in Nat
      /\ pending \in Seq(Tokens) /\ Len(pending) = pos - t
  BY <1>1, BufferIs DEF FrameInv
<1>3. o = sent /\ Holds(o, t)
  <2>1. o = sent \o <<>> /\ Holds(o, t)
    BY <1>1 DEF Frame
  <2>2. sent \in Seq(Entries)
    BY DEF FrameInv, Sound, Holds
  <2>3. sent \o <<>> = sent
    BY <2>2
  <2> QED BY <2>1, <2>3
<1>4. NoEnd(t, pos) /\ pos - t <= MaxRecord /\ (t = 0 \/ stream[t] = "\n")
  BY <1>1 DEF Frame
<1>5. Holds(sent, pos)
  BY <1>2, <1>3, <1>4, HoldsOn
<1>6. ASSUME NEW b \in 1..pos, Begins(b, pos + 1)
      PROVE  pos + 1 - b <= MaxRecord
  <2>1. PICK e : e = pos + 1
    OBVIOUS
  <2>2. t < e /\ e \in Nat /\ e - 1 = pos /\ b \in 1..e
    BY <1>2, <2>1
  <2>3. b = t + 1
    BY <1>2, <1>4, <1>6, <2>1, <2>2, StartIsNext
  <2> QED BY <1>2, <1>4, <2>3, StreamAssumption
<1>7. pending = <<>> <=> (pos = 0 \/ stream[pos] = "\n")
  <2>1. pending = <<>> <=> pos = t
    BY <1>2
  <2>2. pos = t => pos = 0 \/ stream[pos] = "\n"
    BY <1>4
  <2>3. t < pos => pos # 0 /\ stream[pos] # "\n"
    BY <1>2, <1>4 DEF NoEnd
  <2> QED BY <1>2, <2>1, <2>2, <2>3
<1> QED BY <1>5, <1>6, <1>7 DEF Holds, IsSent

LEMMA EndStep ==
  ASSUME FrameInv, EndOfStream
  PROVE  FrameInv'
<1>1. /\ error = "none" /\ ~pushing /\ pos = Len(stream)
      /\ error' = IF pending = <<>> THEN "end" ELSE "truncated"
      /\ UNCHANGED <<stream, pos, pushing, records, sent>>
  BY DEF EndOfStream
<1>2. error' \in {"end", "truncated"} /\ (error' = "end" <=> pending = <<>>)
  BY <1>1
<1>3. /\ \A e \in Ends(pos) : Good(e) /\ (Line(e) # <<>> => IsSent(e))
      /\ \A b \in 1..pos : Begins(b, pos + 1) => pos + 1 - b <= MaxRecord
      /\ pending = <<>> <=> (pos = 0 \/ stream[pos] = "\n")
  BY <1>1, AllSent
<1>4. (pos = 0 \/ stream[pos] = "\n") <=> (stream = <<>> \/ Last(stream) = "\n")
  <2>1. stream \in Seq(Tokens)
    BY DEF FrameInv, Typed
  <2>2. pos = 0 <=> stream = <<>>
    BY <1>1, <2>1
  <2>3. Last(stream) = stream[pos]
    BY <1>1 DEF Last
  <2> QED BY <2>2, <2>3
<1>5. Typed' /\ Sound'
  <2>1. PICK n, s : n \in 0..pos /\ s = sent /\ Holds(s, n)
    BY DEF FrameInv, Sound
  <2>2. Holds(s, n)'
    BY <1>1, <2>1, Frozen
  <2>3. Sound'
    BY <1>1, <2>1, <2>2 DEF Sound
  <2> QED BY <1>1, <2>3 DEF FrameInv, Typed
<1>6. Finished'
  <2>1. \A e \in Ends(pos)' : Good(e)' /\ (Line(e)' # <<>> => IsSent(e)')
    BY <1>1, <1>3, Frozen DEF IsSent
  <2>2. \A b \in 1..pos' : Begins(b, pos + 1)' => pos' + 1 - b <= MaxRecord
    BY <1>1, <1>3, Frozen
  <2>3. pos' = Len(stream') /\ (error' = "end" <=> (stream' = <<>> \/ Last(stream') = "\n"))
    BY <1>1, <1>2, <1>3, <1>4
  <2> QED BY <2>1, <2>2, <2>3 DEF Finished
<1>7. Reading' /\ Failed'
  BY <1>2 DEF Reading, Failed
<1> QED BY <1>1, <1>2, <1>5, <1>6, <1>7 DEF FrameInv

\* What SendsWholeLines says, from the invariant.
LEMMA FrameImplies ==
  ASSUME FrameInv
  PROVE  SendsWholeLines
<1>1. PICK n, o : n \in 0..pos /\ o = sent /\ Holds(o, n)
  BY DEF FrameInv, Sound
<1>2. Typed /\ pos \in Nat /\ n \in Nat /\ n <= pos /\ Holds(sent, n)
  <2>1. Typed
    BY DEF FrameInv
  <2>2. stream \in Seq(Tokens) /\ pos \in 0..Len(stream)
    BY <2>1 DEF Typed
  <2>3. Len(stream) \in Nat
    BY <2>2
  <2>4. pos \in Nat
    BY <2>2, <2>3
  <2> QED BY <1>1, <2>1, <2>4
<1>3. \A i, j \in DOMAIN sent : i < j => sent[i].end < sent[j].end
  BY <1>2 DEF Holds
<1>4. ASSUME NEW i \in DOMAIN sent, NEW e, e = sent[i].end
      PROVE  /\ e \in Ends(pos) /\ Good(e) /\ Line(e) # <<>> /\ sent[i].tree = ParseRecord(Line(e)).tree
             /\ \A f \in Ends(e) : Good(f) /\ (Line(f) # <<>> => IsSent(f))
  <2>1. e \in Ends(n) /\ Line(e) # <<>>
    BY <1>2, <1>4 DEF Holds
  <2>2. e \in Ends(pos) /\ \A f \in Ends(e) : f \in Ends(n)
    BY <1>2, <2>1 DEF Ends
  <2>3. \A f \in Ends(n) : Good(f) /\ (Line(f) # <<>> => IsSent(f))
    BY <1>2 DEF Holds, IsSent
  <2>4. sent[i].tree = ParseRecord(Line(e)).tree
    <3>1. sent[i] \in Entries
      <4>1. sent \in Seq(Entries)
        BY <1>2 DEF Holds
      <4> QED BY <4>1
    <3>2. PICK d : sent[i] = Entry(d)
      BY <3>1 DEF Entries
    <3>3. sent[i].end = d /\ sent[i].tree = ParseRecord(Line(d)).tree
      BY <3>2 DEF Entry, Record
    <3> QED BY <1>4, <3>3
  <2> QED BY <2>1, <2>2, <2>3, <2>4
<1>5. ASSUME Settled
      PROVE  /\ \A e \in Ends(pos) : Good(e) /\ (Line(e) # <<>> => IsSent(e))
             /\ \A b \in 1..pos : Begins(b, pos + 1) => pos + 1 - b <= MaxRecord
  <2>1. CASE error = "none" /\ ~pushing
    BY <2>1, AllSent
  <2>2. CASE error \in {"end", "truncated"}
    BY <2>2 DEF FrameInv, Finished
  <2> QED BY <1>5, <2>1, <2>2 DEF Settled
<1>6. error \in {"end", "truncated"} =>
        pos = Len(stream) /\ (error = "end" <=> (stream = <<>> \/ Last(stream) = "\n"))
  BY DEF FrameInv, Finished
<1>7. error \in {"invalid", "too large"} =>
        \E b \in 1..pos :
          /\ \A e \in Ends(b - 1) : Good(e)
          /\ \A i \in DOMAIN sent : sent[i].end < b
          /\ StopsAt(b)
  BY DEF FrameInv, Failed
<1> QED BY <1>3, <1>4, <1>5, <1>6, <1>7 DEF SendsWholeLines

LEMMA FrameInit ==
  ASSUME Init
  PROVE  FrameInv
<1>1. /\ stream \in Seq(Tokens) /\ pos = 0 /\ pending = <<>> /\ pushing = FALSE
      /\ records = <<>> /\ sent = <<>> /\ error = "none" /\ Len(stream) \in Nat
  BY StreamAssumption DEF Init
<1>2. PICK o : o = <<>>
  OBVIOUS
<1>3. Holds(o, 0)
  <2>1. Ends(0) = {} /\ o \in Seq(Entries) /\ DOMAIN o = {}
    BY <1>2 DEF Ends
  <2> QED BY <2>1 DEF Holds
<1>4. Frame(0, o)
  <2>1. SubSeq(stream, 1, 0) = <<>> /\ o = sent \o records
    BY <1>1, <1>2
  <2>2. NoEnd(0, 0)
    BY DEF NoEnd
  <2> QED BY <1>1, <1>3, <2>1, <2>2, StreamAssumption DEF Frame
<1>5. Typed /\ Sound
  <2>1. Typed
    <3>1. pos \in 0..Len(stream)
      <4>1. Len(stream) \in Nat /\ pos = 0
        BY <1>1
      <4> QED BY <4>1
    <3>2. pushing \in BOOLEAN
      BY <1>1, Zenon
    <3> QED BY <1>1, <3>1, <3>2 DEF Typed
  <2>2. 0 \in 0..pos /\ o = sent
    BY <1>1, <1>2
  <2> QED BY <1>3, <2>1, <2>2 DEF Sound
<1>6. Reading /\ Finished /\ Failed
  BY <1>1, <1>4 DEF Reading, Finished, Failed
<1> QED BY <1>1, <1>5, <1>6 DEF FrameInv

LEMMA FrameStep ==
  ASSUME FrameInv, [Next]_vars
  PROVE  FrameInv'
<1>1. CASE UNCHANGED vars
  <2>1. UNCHANGED <<stream, pos, pending, pushing, records, sent, error>>
    BY <1>1 DEF vars
  <2>2. Typed'
    BY <2>1 DEF FrameInv, Typed
  <2>3. Sound'
    BY <2>1, Frozen DEF FrameInv, Sound
  <2>4. Reading'
    <3>1. ASSUME error = "none"
          PROVE  records' \in Seq(Entries)' /\ \E t, o : Frame(t, o)'
      <4>1. PICK t, o : Frame(t, o)
        BY <3>1 DEF FrameInv, Reading
      <4>2. Frame(t, o)'
        BY <2>1, <4>1, Frozen DEF Frame
      <4>3. records' \in Seq(Entries)'
        BY <2>1, <3>1, Frozen DEF FrameInv, Reading
      <4> QED BY <4>2, <4>3
    <3> QED BY <2>1, <3>1 DEF Reading
  <2>5. Finished'
    BY <2>1, Frozen DEF FrameInv, Finished, IsSent
  <2>6. Failed'
    BY <2>1, Frozen DEF FrameInv, Failed, StopsAt
  <2> QED BY <2>1, <2>2, <2>3, <2>4, <2>5, <2>6 DEF FrameInv
<1> QED BY <1>1, ReadStep, TakeLineStep, TooLargeStep, SendStep, EndStep DEF Next

\* However GDB's output is cut into chunks, and whatever the parser makes of a
\* line: push takes the stream apart at its newlines, and read_stdout sends the
\* records of the first lines, each once and in order, up to the first line that
\* is too long or is refused.
THEOREM WholeLinesSent == Spec => []SendsWholeLines
<1>1. Init => FrameInv
  BY FrameInit
<1>2. FrameInv /\ [Next]_vars => FrameInv'
  BY FrameStep
<1>3. FrameInv => SendsWholeLines
  BY FrameImplies
<1> QED BY <1>1, <1>2, <1>3, PTL DEF Spec
-----------------------------------------------------------------------------
\* Induction over the number of tokens: a set of naturals that has 0 and, with n,
\* n + 1 has them all; the library's least elements give that.  With it the
\* recursive functions of the model are what their definitions say.
Below == {p \in Nat \X Nat : p[1] < p[2]}

LEMMA NatHasLeast ==
  ASSUME NEW T, T \subseteq Nat, T # {}
  PROVE  \E m \in T : \A k \in T : m <= k
<1>1. IsWellFoundedOn(OpToRel(<, Nat), Nat)
  BY NatLessThanWellFounded
<1>2. IsWellFoundedOn(Below, Nat)
  BY <1>1 DEF Below, OpToRel
<1>3. \E m \in T : \A k \in T : ~(<<k, m>> \in Below)
  BY <1>2, WFMin
<1>4. PICK m \in T : \A k \in T : ~(<<k, m>> \in Below)
  BY <1>3
<1>5. \A k \in T : k \in Nat /\ m \in Nat /\ ~(k < m)
  BY <1>4 DEF Below
<1> QED BY <1>5

LEMMA Upward ==
  ASSUME NEW T, 0 \in T, \A n \in Nat : n \in T => n + 1 \in T
  PROVE  \A n \in Nat : n \in T
<1> SUFFICES ASSUME NEW b \in Nat, b \notin T PROVE FALSE
  OBVIOUS
<1>1. PICK m \in Nat \ T : \A k \in Nat \ T : m <= k
  BY NatHasLeast
<1>2. m # 0 /\ m - 1 \in Nat /\ ~(m <= m - 1)
  BY <1>1
<1>3. m - 1 \in T
  BY <1>1, <1>2
<1> QED BY <1>1, <1>2, <1>3

SameBelow(G, H, m) == \A n \in 0..MaxValue : n < m => G[n] = H[n]

LEMMA LengthSame ==
  ASSUME NEW G, NEW H, NEW n \in 0..MaxValue, SameBelow(G, H, n)
  PROVE  OfLength(G, n) = OfLength(H, n)
<1>0. MaxValue \in Nat
  BY GrammarAssumption
<1>1. ASSUME NEW k \in 0..n, NEW form
      PROVE  Values(G, k) = Values(H, k) /\ Elements(G, form, k) = Elements(H, form, k)
  <2>1. k > 2 => G[k - 2] = H[k - 2]
    BY <1>0 DEF SameBelow
  <2>2. Values(G, k) = Values(H, k)
    BY <2>1 DEF Values
  <2> QED BY <2>1, <2>2 DEF Elements
<1>2. ASSUME NEW form
      PROVE  Sequences(G, form, n) = Sequences(H, form, n)
  <2>1. \A k \in 1..(n - 1) : G[n - 1 - k] = H[n - 1 - k]
    BY <1>0 DEF SameBelow
  <2>2. \A k \in 1..(n - 1) : Elements(G, form, k) = Elements(H, form, k)
    BY <1>0, <1>1
  <2>3. Elements(G, form, n) = Elements(H, form, n)
    BY <1>0, <1>1
  <2> QED BY <2>1, <2>2, <2>3 DEF Sequences
<1>3. Values(G, n) = Values(H, n)
  BY <1>0, <1>1
<1> QED BY <1>2, <1>3 DEF OfLength

\* A function that is the grammar for fewer than m tokens.
GrammarBelow(G, m) ==
  /\ G = [n \in 0..MaxValue |-> G[n]]
  /\ \A n \in 0..MaxValue : n < m => G[n] = OfLength(G, n)

LEMMA GrammarGrows ==
  ASSUME NEW G, NEW m \in Nat, GrammarBelow(G, m)
  PROVE  \E H : GrammarBelow(H, m + 1)
<1>0. MaxValue \in Nat
  BY GrammarAssumption
<1> DEFINE H == [n \in 0..MaxValue |-> IF n = m THEN OfLength(G, m) ELSE G[n]]
<1>1. H = [n \in 0..MaxValue |-> H[n]]
  OBVIOUS
<1>2. \A n \in 0..MaxValue : n # m => H[n] = G[n]
  OBVIOUS
<1>3. m \in 0..MaxValue => H[m] = OfLength(G, m)
  OBVIOUS
<1> HIDE DEF H
<1>4. ASSUME NEW n \in 0..MaxValue, n < m + 1
      PROVE  H[n] = OfLength(H, n)
  <2>1. SameBelow(G, H, n)
    BY <1>0, <1>2, <1>4 DEF SameBelow
  <2>2. OfLength(G, n) = OfLength(H, n)
    BY <2>1, LengthSame
  <2>3. CASE n = m
    BY <1>3, <2>2, <2>3
  <2>4. CASE n # m
    <3>1. n < m
      BY <1>0, <1>4, <2>4
    <3> QED BY <1>2, <2>2, <2>4, <3>1 DEF GrammarBelow
  <2> QED BY <2>3, <2>4
<1> QED BY <1>1, <1>4 DEF GrammarBelow

\* The grammar is what its definition says, for every number of tokens.
LEMMA GrammarIs == \A n \in 0..MaxValue : Grammar[n] = OfLength(Grammar, n)
<1>0. MaxValue \in Nat
  BY GrammarAssumption
<1> DEFINE T == {m \in Nat : \E G : GrammarBelow(G, m)}
<1>1. 0 \in T
  <2>1. GrammarBelow([n \in 0..MaxValue |-> n], 0)
    BY <1>0 DEF GrammarBelow
  <2> QED BY <2>1
<1>2. \A m \in Nat : m \in T => m + 1 \in T
  BY GrammarGrows
<1> HIDE DEF T
<1>3. \A m \in Nat : m \in T
  BY <1>1, <1>2, Upward
<1>4. PICK G : GrammarBelow(G, MaxValue + 1)
  BY <1>0, <1>3 DEF T
<1>5. G = [n \in 0..MaxValue |-> OfLength(G, n)]
  <2>1. \A n \in 0..MaxValue : G[n] = OfLength(G, n)
    BY <1>0, <1>4 DEF GrammarBelow
  <2> QED BY <1>4, <2>1 DEF GrammarBelow
<1>6. Grammar = CHOOSE H : H = [n \in 0..MaxValue |-> OfLength(H, n)]
  BY DEF Grammar
<1>7. Grammar = [n \in 0..MaxValue |-> OfLength(Grammar, n)]
  BY <1>5, <1>6
<1> QED BY <1>7
-----------------------------------------------------------------------------
\* The parser's functions, each by itself: what they return lies further on, and
\* depends only on what the parser returns further on.
IsText(text) == text \in Seq(Tokens)

\* What a function of the parser returns at i: nothing, or the position after
\* the tokens it took.
Result(r, text, i) ==
  r.at \in Nat /\ (r.at # 0 => i < r.at /\ r.at <= Len(text) + 1)
ResultsAfter(P, text, i) ==
  \A j \in 1..(Len(text) + 1), form \in Forms : i < j => Result(P[j][form], text, j)
SameAfter(P, Q, text, i) ==
  \A j \in 1..(Len(text) + 1) : i < j => P[j] = Q[j]

LEMMA ParsedIs ==
  ASSUME NEW at, NEW tree
  PROVE  /\ Parsed(at, tree).at = at /\ Parsed(at, tree).tree = tree
         /\ Invalid.at = 0 /\ Parsed(at, tree) = Parsed(at, tree)
BY DEF Parsed, Invalid

LEMMA ResultParsed ==
  ASSUME NEW text, IsText(text), NEW i \in Nat, NEW at \in Nat, NEW tree
  PROVE  /\ Result(Invalid, text, i)
         /\ i < at /\ at <= Len(text) + 1 => Result(Parsed(at, tree), text, i)
BY ParsedIs DEF Result, IsText

LEMMA Peeked ==
  ASSUME NEW text, IsText(text), NEW i, Peek(text, i) # "none"
  PROVE  i \in 1..Len(text) /\ Peek(text, i) = text[i] /\ Len(text) \in Nat
<1>1. i \in DOMAIN text /\ Peek(text, i) = text[i]
  BY DEF Peek
<1>2. DOMAIN text = 1..Len(text) /\ Len(text) \in Nat
  BY DEF IsText
<1> QED BY <1>1, <1>2

LEMMA FormsAre == Forms = {"value", "fields", "body", "items"}
BY DEF Forms, Terminators

LEMMA TerminatorsAre ==
  /\ DOMAIN Terminators = {"fields", "body", "items"}
  /\ Terminators["fields"] = {"rbrace", "none"} /\ Terminators["body"] = {"none"}
  /\ Terminators["items"] = {"rbracket"}
BY DEF Terminators

LEMMA WithinIs ==
  ASSUME NEW text, IsText(text), NEW i \in 1..Len(text), NEW P, NEW Q,
         NEW elements \in Forms, NEW close, NEW kind, close # "none",
         ResultsAfter(P, text, i), SameAfter(P, Q, text, i)
  PROVE  /\ Result(Within(P, text, i, elements, close, kind), text, i)
         /\ Within(P, text, i, elements, close, kind) = Within(Q, text, i, elements, close, kind)
<1>0. i \in Nat /\ Len(text) \in Nat
  BY DEF IsText
<1>1. i + 1 \in 1..(Len(text) + 1) /\ i < i + 1
  BY <1>0
<1>2. Result(P[i + 1][elements], text, i + 1) /\ P[i + 1] = Q[i + 1]
  BY <1>1 DEF ResultsAfter, SameAfter
<1> DEFINE r == IF Peek(text, i + 1) = close THEN Parsed(i + 1, <<>>) ELSE P[i + 1][elements]
<1>3. r.at \in Nat /\ (r.at # 0 => i < r.at)
  BY <1>0, <1>1, <1>2 DEF Result, Parsed
<1>4. Peek(text, r.at) = close => r.at <= Len(text)
  BY <1>0, Peeked
<1>5. Within(P, text, i, elements, close, kind) =
        IF r.at # 0 /\ Peek(text, r.at) = close THEN Parsed(r.at + 1, Node(kind, r.tree)) ELSE Invalid
  BY DEF Within
<1>6. Within(Q, text, i, elements, close, kind) =
        IF r.at # 0 /\ Peek(text, r.at) = close THEN Parsed(r.at + 1, Node(kind, r.tree)) ELSE Invalid
  BY <1>2 DEF Within
<1> HIDE DEF r
<1> QED BY <1>0, <1>3, <1>4, <1>5, <1>6 DEF Result, Parsed, Invalid

LEMMA ValueCases ==
  ASSUME NEW text, NEW i, NEW P
  PROVE  /\ Peek(text, i) = "str" => ValueAt(P, text, i) = Parsed(i + 1, Node("const", <<>>))
         /\ Peek(text, i) = "lbrace" =>
              ValueAt(P, text, i) = Within(P, text, i, "fields", "rbrace", "tuple")
         /\ Peek(text, i) = "lbracket" =>
              ValueAt(P, text, i) = Within(P, text, i, "items", "rbracket", "list")
         /\ Peek(text, i) \notin {"str", "lbrace", "lbracket"} => ValueAt(P, text, i) = Invalid
BY DEF ValueAt

LEMMA ValueIs ==
  ASSUME NEW text, IsText(text), NEW i \in 1..(Len(text) + 1), NEW P, NEW Q,
         ResultsAfter(P, text, i), SameAfter(P, Q, text, i)
  PROVE  /\ Result(ValueAt(P, text, i), text, i)
         /\ ValueAt(P, text, i) = ValueAt(Q, text, i)
<1>0. i \in Nat /\ Len(text) \in Nat /\ "fields" \in Forms /\ "items" \in Forms
  BY FormsAre DEF IsText
<1>1. CASE Peek(text, i) = "str"
  <2>1. i \in 1..Len(text)
    BY <1>1, Peeked
  <2>2. /\ ValueAt(P, text, i) = Parsed(i + 1, Node("const", <<>>))
        /\ ValueAt(Q, text, i) = Parsed(i + 1, Node("const", <<>>))
    BY <1>1, ValueCases
  <2>3. i + 1 \in Nat /\ i < i + 1 /\ i + 1 <= Len(text) + 1
    BY <1>0, <2>1
  <2> QED BY <1>0, <2>2, <2>3, ResultParsed
<1>2. CASE Peek(text, i) = "lbrace"
  <2>1. i \in 1..Len(text)
    BY <1>2, Peeked
  <2>2. /\ ValueAt(P, text, i) = Within(P, text, i, "fields", "rbrace", "tuple")
        /\ ValueAt(Q, text, i) = Within(Q, text, i, "fields", "rbrace", "tuple")
    BY <1>2, ValueCases
  <2>0. "rbrace" # "none"
    OBVIOUS
  <2>3. Result(Within(P, text, i, "fields", "rbrace", "tuple"), text, i)
    BY <2>0, <1>0, <2>1, WithinIs
  <2>4. Within(P, text, i, "fields", "rbrace", "tuple") = Within(Q, text, i, "fields", "rbrace", "tuple")
    BY <1>0, <2>0, <2>1, WithinIs
  <2> QED BY <2>2, <2>3, <2>4
<1>3. CASE Peek(text, i) = "lbracket"
  <2>1. i \in 1..Len(text)
    BY <1>3, Peeked
  <2>2. /\ ValueAt(P, text, i) = Within(P, text, i, "items", "rbracket", "list")
        /\ ValueAt(Q, text, i) = Within(Q, text, i, "items", "rbracket", "list")
    BY <1>3, ValueCases
  <2> QED BY <1>0, <2>1, <2>2, WithinIs
<1>4. CASE Peek(text, i) \notin {"str", "lbrace", "lbracket"}
  <2>1. ValueAt(P, text, i) = Invalid /\ ValueAt(Q, text, i) = Invalid
    BY <1>4, ValueCases
  <2> QED BY <1>0, <2>1, ResultParsed
<1> QED BY <1>1, <1>2, <1>3, <1>4

LEMMA ResultIs ==
  ASSUME NEW text, IsText(text), NEW i \in 1..(Len(text) + 1), NEW P, NEW Q,
         ResultsAfter(P, text, i), SameAfter(P, Q, text, i)
  PROVE  /\ Result(ResultAt(P, text, i), text, i)
         /\ ResultAt(P, text, i) = ResultAt(Q, text, i)
<1>0. i \in Nat /\ Len(text) \in Nat /\ "value" \in Forms
  BY FormsAre DEF IsText
<1>1. CASE NameAhead(text, i)
  <2>1. i + 1 \in 1..Len(text)
    BY <1>1, Peeked DEF NameAhead
  <2>2. i + 2 \in 1..(Len(text) + 1) /\ i < i + 2
    BY <1>0, <2>1
  <2>3. Result(P[i + 2]["value"], text, i + 2) /\ P[i + 2] = Q[i + 2]
    BY <1>0, <2>2 DEF ResultsAfter, SameAfter
  <2> QED BY <1>0, <2>2, <2>3 DEF ResultAt, Result, Parsed, Invalid
<1>2. CASE ~NameAhead(text, i)
  BY <1>2 DEF ResultAt, Result, Parsed, Invalid
<1> QED BY <1>1, <1>2

LEMMA ElementIs ==
  ASSUME NEW text, IsText(text), NEW i \in 1..(Len(text) + 1), NEW P, NEW Q, NEW form,
         ResultsAfter(P, text, i), SameAfter(P, Q, text, i)
  PROVE  /\ Result(ElementAt(P, text, form, i), text, i)
         /\ ElementAt(P, text, form, i) = ElementAt(Q, text, form, i)
BY ValueIs, ResultIs DEF ElementAt

LEMMA SequenceCases ==
  ASSUME NEW text, NEW i, NEW P, NEW form \in DOMAIN Terminators,
         NEW x, x = ElementAt(P, text, form, i)
  PROVE  /\ x.at = 0 => SequenceAt(P, text, form, i) = Invalid
         /\ x.at # 0 /\ Peek(text, x.at) = "comma" /\ P[x.at + 1][form].at # 0 =>
              SequenceAt(P, text, form, i) =
                Parsed(P[x.at + 1][form].at, <<x.tree>> \o P[x.at + 1][form].tree)
         /\ x.at # 0 /\ Peek(text, x.at) = "comma" /\ P[x.at + 1][form].at = 0 =>
              SequenceAt(P, text, form, i) = Invalid
         /\ x.at # 0 /\ Peek(text, x.at) # "comma" =>
              SequenceAt(P, text, form, i) =
                IF Peek(text, x.at) \in Terminators[form] THEN Parsed(x.at, <<x.tree>>) ELSE Invalid
<1>1. "comma" \notin Terminators[form]
  <2>1. form = "fields" \/ form = "body" \/ form = "items"
    BY TerminatorsAre
  <2> QED BY <2>1, TerminatorsAre
<1> DEFINE rest == P[x.at + 1][form]
<1>2. SequenceAt(P, text, form, i) =
        CASE x.at # 0 /\ Peek(text, x.at) = "comma" /\ rest.at # 0 ->
               Parsed(rest.at, <<x.tree>> \o rest.tree)
          [] x.at # 0 /\ Peek(text, x.at) \in Terminators[form] -> Parsed(x.at, <<x.tree>>)
          [] OTHER -> Invalid
  BY DEF SequenceAt
<1> HIDE DEF rest
<1>3. /\ x.at = 0 => SequenceAt(P, text, form, i) = Invalid
      /\ x.at # 0 /\ Peek(text, x.at) = "comma" /\ rest.at # 0 =>
           SequenceAt(P, text, form, i) = Parsed(rest.at, <<x.tree>> \o rest.tree)
      /\ x.at # 0 /\ Peek(text, x.at) = "comma" /\ rest.at = 0 => SequenceAt(P, text, form, i) = Invalid
      /\ x.at # 0 /\ Peek(text, x.at) # "comma" =>
           SequenceAt(P, text, form, i) =
             IF Peek(text, x.at) \in Terminators[form] THEN Parsed(x.at, <<x.tree>>) ELSE Invalid
  BY <1>1, <1>2
<1> QED BY <1>3 DEF rest

LEMMA SequenceIs ==
  ASSUME NEW text, IsText(text), NEW i \in 1..(Len(text) + 1), NEW P, NEW Q,
         NEW form \in DOMAIN Terminators,
         ResultsAfter(P, text, i), SameAfter(P, Q, text, i)
  PROVE  /\ Result(SequenceAt(P, text, form, i), text, i)
         /\ SequenceAt(P, text, form, i) = SequenceAt(Q, text, form, i)
<1>0. i \in Nat /\ Len(text) \in Nat /\ form \in Forms
  BY DEF Forms, IsText
<1>1. PICK x : x = ElementAt(P, text, form, i)
  OBVIOUS
<1>2. x = ElementAt(Q, text, form, i) /\ Result(x, text, i)
  BY <1>1, ElementIs
<1>a. PICK at : at = x.at /\ at \in Nat /\ (at # 0 => i < at /\ at <= Len(text) + 1)
  BY <1>2 DEF Result
<1>3. CASE at = 0
  <2>1. SequenceAt(P, text, form, i) = Invalid
    BY <1>1, <1>3, <1>a, SequenceCases
  <2>2. SequenceAt(Q, text, form, i) = Invalid
    BY <1>2, <1>3, <1>a, SequenceCases
  <2> QED BY <1>0, <2>1, <2>2, ResultParsed
<1>4. CASE at # 0 /\ Peek(text, at) = "comma"
  <2>1. at \in 1..Len(text)
    BY <1>4, Peeked
  <2>0. i < at
    BY <1>a, <1>4
  <2>2. at + 1 \in 1..(Len(text) + 1) /\ i < at + 1
    BY <1>0, <2>0, <2>1
  <2>3. PICK rest : rest = P[at + 1][form]
    OBVIOUS
  <2>4. rest = Q[at + 1][form]
    BY <2>2, <2>3 DEF SameAfter
  <2>5. Result(rest, text, at + 1)
    BY <1>0, <2>2, <2>3 DEF ResultsAfter
  <2>6. CASE rest.at = 0
    <3>1. SequenceAt(P, text, form, i) = Invalid
      BY <1>1, <1>4, <1>a, <2>3, <2>6, SequenceCases
    <3>2. SequenceAt(Q, text, form, i) = Invalid
      BY <1>2, <1>4, <1>a, <2>4, <2>6, SequenceCases
    <3> QED BY <1>0, <3>1, <3>2, ResultParsed
  <2>7. CASE rest.at # 0
    <3>1. SequenceAt(P, text, form, i) = Parsed(rest.at, <<x.tree>> \o rest.tree)
      BY <1>1, <1>4, <1>a, <2>3, <2>7, SequenceCases
    <3>2. SequenceAt(Q, text, form, i) = Parsed(rest.at, <<x.tree>> \o rest.tree)
      BY <1>2, <1>4, <1>a, <2>4, <2>7, SequenceCases
    <3>3. rest.at \in Nat /\ at + 1 < rest.at /\ rest.at <= Len(text) + 1
      BY <2>5, <2>7 DEF Result
    <3>4. i < rest.at
      BY <1>0, <1>a, <2>2, <3>3
    <3> QED BY <1>0, <3>1, <3>2, <3>3, <3>4, ResultParsed
  <2> QED BY <2>6, <2>7
<1>5. CASE at # 0 /\ Peek(text, at) # "comma"
  <2>1. SequenceAt(P, text, form, i) =
          IF Peek(text, at) \in Terminators[form] THEN Parsed(at, <<x.tree>>) ELSE Invalid
    BY <1>1, <1>5, <1>a, SequenceCases
  <2>2. SequenceAt(Q, text, form, i) =
          IF Peek(text, at) \in Terminators[form] THEN Parsed(at, <<x.tree>>) ELSE Invalid
    BY <1>2, <1>5, <1>a, SequenceCases
  <2>3. Result(Parsed(at, <<x.tree>>), text, i) /\ Result(Invalid, text, i)
    BY <1>0, <1>5, <1>a, ResultParsed
  <2> QED BY <2>1, <2>2, <2>3
<1> QED BY <1>3, <1>4, <1>5

LEMMA PositionIs ==
  ASSUME NEW text, IsText(text), NEW i \in 1..(Len(text) + 1), NEW P, NEW Q,
         ResultsAfter(P, text, i), SameAfter(P, Q, text, i)
  PROVE  /\ \A form \in Forms : Result(ParsedAt(P, text, i)[form], text, i)
         /\ ParsedAt(P, text, i) = ParsedAt(Q, text, i)
<1>1. ValueAt(P, text, i) = ValueAt(Q, text, i) /\ Result(ValueAt(P, text, i), text, i)
  BY ValueIs
<1>2. \A form \in Forms : form # "value" =>
        /\ SequenceAt(P, text, form, i) = SequenceAt(Q, text, form, i)
        /\ Result(SequenceAt(P, text, form, i), text, i)
  BY SequenceIs DEF Forms
<1> QED BY <1>1, <1>2 DEF ParsedAt
-----------------------------------------------------------------------------
\* The parser is what its definition says, from the end of the text backwards.
\* A function that is the parser's from position k on.
ParserFrom(P, text, k) ==
  /\ P = [i \in 1..(Len(text) + 1) |-> P[i]]
  /\ \A i \in 1..(Len(text) + 1) : k <= i => P[i] = ParsedAt(P, text, i)
  /\ \A i \in 1..(Len(text) + 1), form \in Forms : Result(P[i][form], text, i)

LEMMA ParserGrows ==
  ASSUME NEW text, IsText(text), NEW k \in 1..(Len(text) + 1),
         NEW P, ParserFrom(P, text, k + 1)
  PROVE  \E Q : ParserFrom(Q, text, k)
<1>0. Len(text) \in Nat /\ k \in Nat
  BY DEF IsText
<1> DEFINE D == 1..(Len(text) + 1)
           Q == [i \in D |-> IF i = k THEN ParsedAt(P, text, k) ELSE P[i]]
<1>1. Q = [i \in D |-> Q[i]]
  OBVIOUS
<1>2. \A i \in D : i # k => Q[i] = P[i]
  OBVIOUS
<1>3. Q[k] = ParsedAt(P, text, k)
  OBVIOUS
<1> HIDE DEF Q
<1>4. \A i \in D : k <= i => SameAfter(P, Q, text, i)
  BY <1>0, <1>2 DEF SameAfter
<1>5. \A i \in D : ResultsAfter(P, text, i)
  BY DEF ParserFrom, ResultsAfter
<1>6. \A i \in D : k <= i => ParsedAt(P, text, i) = ParsedAt(Q, text, i)
  BY <1>4, <1>5, PositionIs
<1>7. ASSUME NEW i \in D, k <= i
      PROVE  Q[i] = ParsedAt(Q, text, i)
  <2>1. CASE i = k
    BY <1>3, <1>6, <1>7, <2>1
  <2>2. CASE i # k
    <3>1. k + 1 <= i
      BY <1>0, <1>7, <2>2
    <3> QED BY <1>2, <1>6, <1>7, <2>2, <3>1 DEF ParserFrom
  <2> QED BY <2>1, <2>2
<1>8. ASSUME NEW i \in D, NEW form \in Forms
      PROVE  Result(Q[i][form], text, i)
  <2>1. CASE i = k
    <3>1. SameAfter(P, P, text, k)
      BY DEF SameAfter
    <3> QED BY <1>3, <1>5, <2>1, <3>1, PositionIs
  <2>2. CASE i # k
    BY <1>2, <2>2 DEF ParserFrom
  <2> QED BY <2>1, <2>2
<1> QED BY <1>1, <1>7, <1>8 DEF ParserFrom

\* The parser is what its definition says, at every position.
LEMMA ParserExists ==
  ASSUME NEW text, IsText(text)
  PROVE  \A i \in 1..(Len(text) + 1) : Parse(text)[i] = ParsedAt(Parse(text), text, i)
<1> DEFINE D == 1..(Len(text) + 1)
           T == {m \in Nat : m <= Len(text) + 1 => \E P : ParserFrom(P, text, Len(text) + 2 - m)}
<1>0. Len(text) \in Nat
  BY DEF IsText
<1>1. 0 \in T
  <2> DEFINE P == [i \in D |-> [form \in Forms |-> Invalid]]
  <2>1. P = [i \in D |-> P[i]]
    OBVIOUS
  <2>2. \A i \in D, form \in Forms : P[i][form] = Invalid
    OBVIOUS
  <2> HIDE DEF P
  <2>3. \A i \in D, form \in Forms : Result(P[i][form], text, i)
    BY <2>2, ResultParsed
  <2>4. \A i \in D : ~(Len(text) + 2 - 0 <= i)
    BY <1>0
  <2>5. ParserFrom(P, text, Len(text) + 2 - 0)
    BY <2>1, <2>3, <2>4 DEF ParserFrom
  <2> QED BY <2>5
<1>2. ASSUME NEW m \in Nat, m \in T
      PROVE  m + 1 \in T
  <2>1. SUFFICES ASSUME m + 1 <= Len(text) + 1
                 PROVE  \E P : ParserFrom(P, text, Len(text) + 2 - (m + 1))
    OBVIOUS
  <2>2. PICK k : k = Len(text) + 2 - (m + 1) /\ k + 1 = Len(text) + 2 - m /\ k \in D
    BY <1>0, <2>1
  <2>3. \E P : ParserFrom(P, text, k + 1)
    BY <1>0, <1>2, <2>1, <2>2
  <2> QED BY <2>2, <2>3, ParserGrows
<1> HIDE DEF T
<1>3. \A m \in Nat : m \in T
  BY <1>1, <1>2, Upward
<1>4. Len(text) + 1 \in T /\ Len(text) + 2 - (Len(text) + 1) = 1
  BY <1>0, <1>3
<1>5. PICK P : ParserFrom(P, text, 1)
  BY <1>0, <1>4 DEF T
<1>6. P = [i \in D |-> ParsedAt(P, text, i)]
  <2>1. \A i \in D : P[i] = ParsedAt(P, text, i)
    BY <1>5 DEF ParserFrom
  <2> QED BY <1>5, <2>1 DEF ParserFrom
<1>7. Parse(text) = CHOOSE Q : Q = [i \in D |-> ParsedAt(Q, text, i)]
  BY DEF Parse
<1>8. Parse(text) = [i \in D |-> ParsedAt(Parse(text), text, i)]
  BY <1>6, <1>7
<1> QED BY <1>8

\* What it returns anywhere is nothing, or a later position of the text.
LEMMA ParserReturns ==
  ASSUME NEW text, IsText(text)
  PROVE  \A i \in 1..(Len(text) + 1), form \in Forms : Result(Parse(text)[i][form], text, i)
<1> DEFINE D == 1..(Len(text) + 1)
           T == {m \in Nat : \A i \in D : Len(text) + 1 - i < m =>
                               \A form \in Forms : Result(Parse(text)[i][form], text, i)}
<1>0. Len(text) \in Nat
  BY DEF IsText
<1>1. 0 \in T
  BY <1>0
<1>2. ASSUME NEW m \in Nat, m \in T
      PROVE  m + 1 \in T
  <2> SUFFICES ASSUME NEW i \in D, Len(text) + 1 - i < m + 1
               PROVE  \A form \in Forms : Result(Parse(text)[i][form], text, i)
    OBVIOUS
  <2>1. \A j \in D : i < j => Len(text) + 1 - j < m
    BY <1>0
  <2>2. ResultsAfter(Parse(text), text, i)
    BY <1>2, <2>1 DEF ResultsAfter
  <2>3. SameAfter(Parse(text), Parse(text), text, i)
    BY DEF SameAfter
  <2> QED BY <2>2, <2>3, ParserExists, PositionIs
<1> HIDE DEF T
<1>3. \A m \in Nat : m \in T
  BY <1>1, <1>2, Upward
<1>4. \A i \in D : Len(text) + 1 - i < Len(text) + 1 /\ Len(text) + 1 \in T
  BY <1>0, <1>3
<1> QED BY <1>4 DEF T

LEMMA ParserIs ==
  ASSUME NEW text, IsText(text), NEW i \in 1..(Len(text) + 1)
  PROVE  /\ Parse(text)[i]["value"] = ValueAt(Parse(text), text, i)
         /\ \A form \in DOMAIN Terminators :
              Parse(text)[i][form] = SequenceAt(Parse(text), text, form, i)
<1>1. Parse(text)[i] = ParsedAt(Parse(text), text, i)
  BY ParserExists
<1>2. "value" \in Forms /\ \A form \in DOMAIN Terminators : form \in Forms /\ form # "value"
  BY FormsAre, TerminatorsAre
<1> QED BY <1>1, <1>2 DEF ParsedAt
-----------------------------------------------------------------------------
\* The grammar: what its sets are made of.
LEMMA GrammarForms ==
  ASSUME NEW n \in 0..MaxValue
  PROVE  /\ Grammar[n]["value"] = Values(Grammar, n)
         /\ Grammar[n]["results"] = Sequences(Grammar, "results", n)
         /\ Grammar[n]["items"] = Sequences(Grammar, "items", n)
BY GrammarIs DEF OfLength

LEMMA ValuesAre ==
  ASSUME NEW n \in Nat, NEW v
  PROVE  v \in Values(Grammar, n) <=>
           \/ n = 1 /\ v = Said(<<"str">>, Node("const", <<>>))
           \/ n = 2 /\ v = Said(<<"lbrace", "rbrace">>, Node("tuple", <<>>))
           \/ n = 2 /\ v = Said(<<"lbracket", "rbracket">>, Node("list", <<>>))
           \/ n > 2 /\ \E s \in Grammar[n - 2]["results"] : v = Enclosed("lbrace", s, "rbrace", "tuple")
           \/ n > 2 /\ \E s \in Grammar[n - 2]["items"] : v = Enclosed("lbracket", s, "rbracket", "list")
<1>1. CASE n = 1
  <2>1. ~(n = 2) /\ ~(n > 2)
    BY <1>1
  <2>2. Values(Grammar, n) = {Said(<<"str">>, Node("const", <<>>))}
    BY <1>1, <2>1, Zenon DEF Values
  <2> QED BY <1>1, <2>1, <2>2, Zenon
<1>2. CASE n = 2
  <2>1. ~(n = 1) /\ ~(n > 2)
    BY <1>2
  <2>2. Values(Grammar, n) = {Said(<<"lbrace", "rbrace">>, Node("tuple", <<>>)),
                              Said(<<"lbracket", "rbracket">>, Node("list", <<>>))}
    BY <1>2, <2>1, Zenon DEF Values
  <2> QED BY <1>2, <2>1, <2>2, Zenon
<1>3. CASE n > 2
  <2>1. ~(n = 1) /\ ~(n = 2)
    BY <1>3
  <2>2. Values(Grammar, n) =
          {Enclosed("lbrace", s, "rbrace", "tuple") : s \in Grammar[n - 2]["results"]}
          \cup {Enclosed("lbracket", s, "rbracket", "list") : s \in Grammar[n - 2]["items"]}
    BY <1>3, <2>1, Zenon DEF Values
  <2> QED BY <1>3, <2>1, <2>2, Zenon
<1>4. CASE n = 0
  <2>1. ~(n = 1) /\ ~(n = 2) /\ ~(n > 2)
    BY <1>4
  <2>2. Values(Grammar, n) = {}
    BY <2>1, Zenon DEF Values
  <2> QED BY <2>1, <2>2, Zenon
<1> QED BY <1>1, <1>2, <1>3, <1>4

LEMMA ElementsAre ==
  ASSUME NEW n \in Nat, NEW form, NEW x
  PROVE  x \in Elements(Grammar, form, n) <=>
           \/ n > 2 /\ \E v \in Grammar[n - 2]["value"] : x = Named(v)
           \/ form = "items" /\ x \in Values(Grammar, n)
BY Zenon DEF Elements

LEMMA SequencesAre ==
  ASSUME NEW n \in Nat, NEW form, NEW s
  PROVE  s \in Sequences(Grammar, form, n) <=>
           \/ \E x \in Elements(Grammar, form, n) : s = Said(x.text, <<x.tree>>)
           \/ \E k \in 1..(n - 1) : \E x \in Elements(Grammar, form, k) :
                \E xs \in Grammar[n - 1 - k][form] : s = Listed(x, xs)
BY DEF Sequences

\* The tokens of a value or a sequence, and what it begins with.
Words == Punctuation \cup Classes \cup {"name", "str", "digits"}
Leads == [value |-> {"str", "lbrace", "lbracket"}, results |-> {"name"},
          items |-> {"str", "lbrace", "lbracket", "name"}]
Shaped(g, form, n) ==
  /\ n > 0 /\ g.text \in Seq(Words) /\ Len(g.text) = n /\ g.text[1] \in Leads[form]
  /\ form = "value" => (g.tree.kind = "tuple" <=> g.text[1] = "lbrace")

LEMMA SaidIs ==
  ASSUME NEW text, NEW tree
  PROVE  Said(text, tree).text = text /\ Said(text, tree).tree = tree
BY DEF Said

LEMMA Joined ==
  ASSUME NEW s \in Seq(Words), NEW t \in Seq(Words)
  PROVE  /\ s \o t \in Seq(Words) /\ Len(s \o t) = Len(s) + Len(t)
         /\ \A j \in 1..Len(s) : (s \o t)[j] = s[j]
         /\ \A j \in 1..Len(t) : (s \o t)[Len(s) + j] = t[j]
OBVIOUS

LEMMA OneWord ==
  ASSUME NEW c \in Words
  PROVE  <<c>> \in Seq(Words) /\ Len(<<c>>) = 1 /\ <<c>>[1] = c
OBVIOUS
LEMMA TwoWords ==
  ASSUME NEW c \in Words, NEW d \in Words
  PROVE  <<c, d>> \in Seq(Words) /\ Len(<<c, d>>) = 2 /\ <<c, d>>[1] = c /\ <<c, d>>[2] = d
OBVIOUS

LEMMA WordsAre ==
  /\ {"comma", "equals", "lbrace", "rbrace", "lbracket", "rbracket", "name", "str", "digits"} \subseteq Words
  /\ {"^done", "+download"} = Classes /\ Classes \subseteq Words
  /\ Words = {"comma", "equals", "lbrace", "rbrace", "lbracket", "rbracket", "name", "str", "digits",
              "^done", "+download"}
BY DEF Words, Punctuation, Classes

LEMMA NamedShaped ==
  ASSUME NEW v, v.text \in Seq(Words)
  PROVE  /\ Named(v).text \in Seq(Words) /\ Len(Named(v).text) = Len(v.text) + 2
         /\ Named(v).text[1] = "name"
<1>1. /\ <<"name", "equals">> \in Seq(Words) /\ Len(<<"name", "equals">>) = 2
      /\ <<"name", "equals">>[1] = "name"
  BY TwoWords, WordsAre
<1>2. Named(v).text = <<"name", "equals">> \o v.text
  BY SaidIs DEF Named
<1>3. PICK head : head = <<"name", "equals">>
  OBVIOUS
<1>4. head \in Seq(Words) /\ Len(head) = 2 /\ head[1] = "name" /\ Named(v).text = head \o v.text
  BY <1>1, <1>2, <1>3
<1>5. /\ head \o v.text \in Seq(Words) /\ Len(head \o v.text) = Len(head) + Len(v.text)
      /\ \A j \in 1..Len(head) : (head \o v.text)[j] = head[j]
  BY <1>4, Joined
<1>6. 1 \in 1..Len(head)
  BY <1>4
<1>7. (head \o v.text)[1] = "name"
  BY <1>4, <1>5, <1>6
<1>8. Len(v.text) \in Nat
  OBVIOUS
<1> QED BY <1>4, <1>5, <1>7, <1>8

LEMMA EnclosedShaped ==
  ASSUME NEW s, s.text \in Seq(Words), NEW open \in Words, NEW close \in Words, NEW kind
  PROVE  /\ Enclosed(open, s, close, kind).text \in Seq(Words)
         /\ Len(Enclosed(open, s, close, kind).text) = Len(s.text) + 2
         /\ Enclosed(open, s, close, kind).text[1] = open
         /\ Enclosed(open, s, close, kind).tree = Node(kind, s.tree)
<1>1. /\ Enclosed(open, s, close, kind).text = <<open>> \o s.text \o <<close>>
      /\ Enclosed(open, s, close, kind).tree = Node(kind, s.tree)
  BY SaidIs DEF Enclosed
<1>2. PICK a, b, t : a = <<open>> /\ b = <<close>> /\ t = s.text
  OBVIOUS
<1>3. /\ a \in Seq(Words) /\ Len(a) = 1 /\ a[1] = open
      /\ b \in Seq(Words) /\ Len(b) = 1 /\ t \in Seq(Words)
  BY <1>2, OneWord
<1>4. /\ a \o t \in Seq(Words) /\ Len(a \o t) = Len(a) + Len(t)
      /\ \A j \in 1..Len(a) : (a \o t)[j] = a[j]
  BY <1>3, Joined
<1>5. PICK at : at = a \o t
  OBVIOUS
<1>6. at \in Seq(Words) /\ Len(at) = 1 + Len(t) /\ at[1] = open /\ Len(t) \in Nat
  <2>1. 1 \in 1..Len(a)
    BY <1>3
  <2> QED BY <1>3, <1>4, <1>5, <2>1
<1>7. /\ at \o b \in Seq(Words) /\ Len(at \o b) = Len(at) + Len(b)
      /\ \A j \in 1..Len(at) : (at \o b)[j] = at[j]
  BY <1>3, <1>6, Joined
<1>8. (at \o b)[1] = open
  <2>1. 1 \in 1..Len(at)
    BY <1>6
  <2> QED BY <1>6, <1>7, <2>1
<1>9. Enclosed(open, s, close, kind).text = at \o b
  BY <1>1, <1>2, <1>5
<1>10. Len(at \o b) = Len(s.text) + 2
  BY <1>2, <1>3, <1>6, <1>7
<1> QED BY <1>1, <1>7, <1>8, <1>9, <1>10

LEMMA ListedShaped ==
  ASSUME NEW x, NEW xs, x.text \in Seq(Words), xs.text \in Seq(Words), Len(x.text) > 0
  PROVE  /\ Listed(x, xs).text \in Seq(Words)
         /\ Len(Listed(x, xs).text) = Len(x.text) + 1 + Len(xs.text)
         /\ Listed(x, xs).text[1] = x.text[1]
<1>1. Listed(x, xs).text = x.text \o <<"comma">> \o xs.text
  BY SaidIs DEF Listed
<1>2. PICK a, b, c : a = x.text /\ b = <<"comma">> /\ c = xs.text
  OBVIOUS
<1>3. /\ a \in Seq(Words) /\ Len(a) \in Nat /\ Len(a) > 0
      /\ b \in Seq(Words) /\ Len(b) = 1 /\ c \in Seq(Words) /\ Len(c) \in Nat
  BY <1>2, OneWord, WordsAre
<1>4. /\ a \o b \in Seq(Words) /\ Len(a \o b) = Len(a) + Len(b)
      /\ \A j \in 1..Len(a) : (a \o b)[j] = a[j]
  BY <1>3, Joined
<1>5. PICK ab : ab = a \o b
  OBVIOUS
<1>6. ab \in Seq(Words) /\ Len(ab) = Len(a) + 1 /\ ab[1] = a[1]
  <2>1. 1 \in 1..Len(a)
    BY <1>3
  <2> QED BY <1>3, <1>4, <1>5, <2>1
<1>7. /\ ab \o c \in Seq(Words) /\ Len(ab \o c) = Len(ab) + Len(c)
      /\ \A j \in 1..Len(ab) : (ab \o c)[j] = ab[j]
  BY <1>3, <1>6, Joined
<1>8. (ab \o c)[1] = a[1]
  <2>1. 1 \in 1..Len(ab)
    BY <1>3, <1>6
  <2> QED BY <1>6, <1>7, <2>1
<1>9. Listed(x, xs).text = ab \o c
  BY <1>1, <1>2, <1>5
<1>10. Len(ab \o c) = Len(x.text) + 1 + Len(xs.text)
  BY <1>2, <1>6, <1>7
<1>11. x.text[1] = a[1]
  BY <1>2
<1> QED BY <1>7, <1>8, <1>9, <1>10, <1>11
-----------------------------------------------------------------------------
\* What the texts of the grammar begin with, and how long they are.
LEMMA LeadsAre ==
  /\ DOMAIN Leads = {"value", "results", "items"}
  /\ Leads["value"] = {"str", "lbrace", "lbracket"} /\ Leads["results"] = {"name"}
  /\ Leads["items"] = {"str", "lbrace", "lbracket", "name"}
BY DEF Leads

LEMMA NodeIs == ASSUME NEW kind, NEW of PROVE Node(kind, of).kind = kind
BY DEF Node

ShapedBelow(m) ==
  \A n \in 0..MaxValue : n < m =>
    \A form \in DOMAIN Leads : \A g \in Grammar[n][form] : Shaped(g, form, n)

LEMMA ValueShaped ==
  ASSUME NEW n \in 0..MaxValue, NEW m \in Nat, n <= m, ShapedBelow(m), NEW v \in Values(Grammar, n)
  PROVE  Shaped(v, "value", n)
<1>0. MaxValue \in Nat /\ n \in Nat
  BY GrammarAssumption
<1>1. CASE n = 1 /\ v = Said(<<"str">>, Node("const", <<>>))
  <2>1. v.text = <<"str">> /\ v.tree.kind = "const"
    BY <1>1, SaidIs, NodeIs
  <2>2. v.text \in Seq(Words) /\ Len(v.text) = 1 /\ v.text[1] = "str"
    BY <2>1, OneWord, WordsAre
  <2> QED BY <1>1, <2>1, <2>2, LeadsAre DEF Shaped
<1>2. CASE n = 2 /\ v = Said(<<"lbrace", "rbrace">>, Node("tuple", <<>>))
  <2>1. v.text = <<"lbrace", "rbrace">> /\ v.tree.kind = "tuple"
    BY <1>2, SaidIs, NodeIs
  <2>2. v.text \in Seq(Words) /\ Len(v.text) = 2 /\ v.text[1] = "lbrace"
    BY <2>1, TwoWords, WordsAre
  <2> QED BY <1>2, <2>1, <2>2, LeadsAre DEF Shaped
<1>3. CASE n = 2 /\ v = Said(<<"lbracket", "rbracket">>, Node("list", <<>>))
  <2>1. v.text = <<"lbracket", "rbracket">> /\ v.tree.kind = "list"
    BY <1>3, SaidIs, NodeIs
  <2>2. v.text \in Seq(Words) /\ Len(v.text) = 2 /\ v.text[1] = "lbracket"
    BY <2>1, TwoWords, WordsAre
  <2> QED BY <1>3, <2>1, <2>2, LeadsAre DEF Shaped
<1>4. CASE n > 2 /\ \E s \in Grammar[n - 2]["results"] : v = Enclosed("lbrace", s, "rbrace", "tuple")
  <2>1. PICK s \in Grammar[n - 2]["results"] : v = Enclosed("lbrace", s, "rbrace", "tuple")
    BY <1>4
  <2>2. n - 2 \in 0..MaxValue /\ n - 2 < m
    BY <1>0, <1>4
  <2>3. s.text \in Seq(Words) /\ Len(s.text) = n - 2
    BY <2>1, <2>2, LeadsAre DEF ShapedBelow, Shaped
  <2>4. "lbrace" \in Words /\ "rbrace" \in Words
    BY WordsAre
  <2>5. /\ v.text \in Seq(Words) /\ Len(v.text) = Len(s.text) + 2 /\ v.text[1] = "lbrace"
        /\ v.tree = Node("tuple", s.tree)
    BY <2>1, <2>3, <2>4, EnclosedShaped
  <2>6. v.tree.kind = "tuple" /\ Len(v.text) = n
    BY <1>0, <2>3, <2>5, NodeIs
  <2> QED BY <1>4, <2>5, <2>6, LeadsAre DEF Shaped
<1>5. CASE n > 2 /\ \E s \in Grammar[n - 2]["items"] : v = Enclosed("lbracket", s, "rbracket", "list")
  <2>1. PICK s \in Grammar[n - 2]["items"] : v = Enclosed("lbracket", s, "rbracket", "list")
    BY <1>5
  <2>2. n - 2 \in 0..MaxValue /\ n - 2 < m
    BY <1>0, <1>5
  <2>3. s.text \in Seq(Words) /\ Len(s.text) = n - 2
    BY <2>1, <2>2, LeadsAre DEF ShapedBelow, Shaped
  <2>4. "lbracket" \in Words /\ "rbracket" \in Words
    BY WordsAre
  <2>5. /\ v.text \in Seq(Words) /\ Len(v.text) = Len(s.text) + 2 /\ v.text[1] = "lbracket"
        /\ v.tree = Node("list", s.tree)
    BY <2>1, <2>3, <2>4, EnclosedShaped
  <2>6. v.tree.kind = "list" /\ Len(v.text) = n
    BY <1>0, <2>3, <2>5, NodeIs
  <2> QED BY <1>5, <2>5, <2>6, LeadsAre DEF Shaped
<1> QED BY <1>0, <1>1, <1>2, <1>3, <1>4, <1>5, ValuesAre

\* An element is one of a sequence of its own.
LEMMA ElementShaped ==
  ASSUME NEW n \in 0..MaxValue, NEW m \in Nat, n <= m, ShapedBelow(m),
         NEW form \in {"results", "items"}, NEW x \in Elements(Grammar, form, n)
  PROVE  Shaped(x, form, n)
<1>0. MaxValue \in Nat /\ n \in Nat
  BY GrammarAssumption
<1>1. CASE n > 2 /\ \E v \in Grammar[n - 2]["value"] : x = Named(v)
  <2>1. PICK v \in Grammar[n - 2]["value"] : x = Named(v)
    BY <1>1
  <2>2. n - 2 \in 0..MaxValue /\ n - 2 < m
    BY <1>0, <1>1
  <2>3. v.text \in Seq(Words) /\ Len(v.text) = n - 2
    BY <2>1, <2>2, LeadsAre DEF ShapedBelow, Shaped
  <2>4. x.text \in Seq(Words) /\ Len(x.text) = n /\ x.text[1] = "name"
    BY <1>0, <2>1, <2>3, NamedShaped
  <2>5. "name" \in Leads[form] /\ form # "value"
    BY LeadsAre
  <2> QED BY <1>1, <2>4, <2>5 DEF Shaped
<1>2. CASE form = "items" /\ x \in Values(Grammar, n)
  <2>1. Shaped(x, "value", n)
    BY <1>2, ValueShaped
  <2> QED BY <1>2, <2>1, LeadsAre DEF Shaped
<1> QED BY <1>0, <1>1, <1>2, ElementsAre

LEMMA SequenceShaped ==
  ASSUME NEW n \in 0..MaxValue, NEW m \in Nat, n <= m, ShapedBelow(m),
         NEW form \in {"results", "items"}, NEW s \in Sequences(Grammar, form, n)
  PROVE  Shaped(s, form, n)
<1>0. MaxValue \in Nat /\ n \in Nat /\ form # "value" /\ form \in DOMAIN Leads
  BY GrammarAssumption, LeadsAre
<1>1. CASE \E x \in Elements(Grammar, form, n) : s = Said(x.text, <<x.tree>>)
  <2>1. PICK x \in Elements(Grammar, form, n) : s = Said(x.text, <<x.tree>>)
    BY <1>1
  <2>2. Shaped(x, form, n) /\ s.text = x.text
    BY <2>1, ElementShaped, SaidIs
  <2> QED BY <1>0, <2>2 DEF Shaped
<1>2. CASE \E k \in 1..(n - 1) : \E x \in Elements(Grammar, form, k) :
             \E xs \in Grammar[n - 1 - k][form] : s = Listed(x, xs)
  <2>a. PICK k \in 1..(n - 1) : \E x \in Elements(Grammar, form, k) :
          \E xs \in Grammar[n - 1 - k][form] : s = Listed(x, xs)
    BY <1>2
  <2>b. PICK x \in Elements(Grammar, form, k) :
          \E xs \in Grammar[n - 1 - k][form] : s = Listed(x, xs)
    BY <2>a
  <2>1. PICK xs \in Grammar[n - 1 - k][form] : s = Listed(x, xs)
    BY <2>b
  <2>2. /\ k \in 0..MaxValue /\ k <= m
        /\ n - 1 - k \in 0..MaxValue /\ n - 1 - k < m
    BY <1>0
  <2>3. Shaped(x, form, k)
    BY <2>1, <2>2, ElementShaped
  <2>4. Shaped(xs, form, n - 1 - k)
    BY <1>0, <2>1, <2>2 DEF ShapedBelow
  <2>5. x.text \in Seq(Words) /\ Len(x.text) = k /\ k > 0 /\ x.text[1] \in Leads[form]
    BY <2>3 DEF Shaped
  <2>6. xs.text \in Seq(Words) /\ Len(xs.text) = n - 1 - k
    BY <2>4 DEF Shaped
  <2>7. /\ s.text \in Seq(Words) /\ s.text[1] = x.text[1]
        /\ Len(s.text) = Len(x.text) + 1 + Len(xs.text)
    BY <2>1, <2>5, <2>6, ListedShaped
  <2>8. Len(s.text) = n /\ n > 0
    BY <1>0, <2>1, <2>5, <2>6, <2>7
  <2> QED BY <1>0, <2>5, <2>7, <2>8 DEF Shaped
<1> QED BY <1>0, <1>1, <1>2, SequencesAre

\* What the grammar's texts look like, for every number of tokens.
LEMMA GrammarShaped ==
  /\ \A m \in Nat : ShapedBelow(m)
  /\ \A n \in 0..MaxValue : \A form \in DOMAIN Leads : \A g \in Grammar[n][form] : Shaped(g, form, n)
<1> DEFINE T == {m \in Nat : ShapedBelow(m)}
<1>0. MaxValue \in Nat
  BY GrammarAssumption
<1>1. 0 \in T
  BY <1>0 DEF ShapedBelow
<1>2. ASSUME NEW m \in Nat, m \in T
      PROVE  m + 1 \in T
  <2> SUFFICES ASSUME NEW n \in 0..MaxValue, n < m + 1, NEW form \in DOMAIN Leads,
                      NEW g \in Grammar[n][form]
               PROVE  Shaped(g, form, n)
    BY DEF ShapedBelow
  <2>1. n <= m /\ ShapedBelow(m)
    BY <1>0, <1>2
  <2>2. CASE form = "value"
    BY <2>1, <2>2, GrammarForms, ValueShaped
  <2>3. CASE form \in {"results", "items"}
    <3>1. g \in Sequences(Grammar, form, n)
      BY <2>3, GrammarForms
    <3> QED BY <2>1, <2>3, <3>1, SequenceShaped
  <2> QED BY <2>2, <2>3, LeadsAre
<1> HIDE DEF T
<1>3. \A m \in Nat : m \in T
  BY <1>1, <1>2, Upward
<1>4. \A m \in Nat : ShapedBelow(m)
  BY <1>3 DEF T
<1>5. ShapedBelow(MaxValue + 1)
  BY <1>0, <1>4
<1>6. \A n \in 0..MaxValue : n < MaxValue + 1
  BY <1>0
<1> QED BY <1>4, <1>5, <1>6 DEF ShapedBelow

\* s is what the text has at i.
Occurs(text, i, s) == \A j \in 1..Len(s) : Peek(text, i + j - 1) = s[j]

LEMMA OccursJoined ==
  ASSUME NEW text, NEW i \in Nat, NEW s \in Seq(Words), NEW t \in Seq(Words)
  PROVE  Occurs(text, i, s \o t) <=> Occurs(text, i, s) /\ Occurs(text, i + Len(s), t)
<1>0. Len(s) \in Nat /\ Len(t) \in Nat
  OBVIOUS
<1>1. PICK u : u = s \o t
  OBVIOUS
<1>2. /\ Len(u) = Len(s) + Len(t)
      /\ \A j \in 1..Len(s) : u[j] = s[j]
      /\ \A j \in 1..Len(t) : u[Len(s) + j] = t[j]
  BY <1>1, Joined
<1>3. ASSUME Occurs(text, i, u)
      PROVE  Occurs(text, i, s) /\ Occurs(text, i + Len(s), t)
  <2>1. ASSUME NEW j \in 1..Len(s)
        PROVE  Peek(text, i + j - 1) = s[j]
    <3>1. j \in 1..Len(u)
      BY <1>0, <1>2
    <3> QED BY <1>2, <1>3, <3>1 DEF Occurs
  <2>2. ASSUME NEW j \in 1..Len(t)
        PROVE  Peek(text, i + Len(s) + j - 1) = t[j]
    <3>1. Len(s) + j \in 1..Len(u) /\ i + (Len(s) + j) - 1 = i + Len(s) + j - 1
      BY <1>0, <1>2
    <3>2. Peek(text, i + (Len(s) + j) - 1) = u[Len(s) + j]
      BY <1>3, <3>1 DEF Occurs
    <3> QED BY <1>2, <3>1, <3>2
  <2> QED BY <2>1, <2>2 DEF Occurs
<1>4. ASSUME Occurs(text, i, s), Occurs(text, i + Len(s), t)
      PROVE  Occurs(text, i, u)
  <2> SUFFICES ASSUME NEW j \in 1..Len(u)
               PROVE  Peek(text, i + j - 1) = u[j]
    BY DEF Occurs
  <2>1. CASE j <= Len(s)
    <3>1. j \in 1..Len(s)
      BY <1>0, <2>1
    <3> QED BY <1>2, <1>4, <3>1 DEF Occurs
  <2>2. CASE j > Len(s)
    <3>1. PICK k \in 1..Len(t) : j = Len(s) + k
      <4>1. j - Len(s) \in 1..Len(t) /\ j = Len(s) + (j - Len(s))
        BY <1>0, <1>2, <2>2
      <4> QED BY <4>1
    <3>2. Peek(text, i + Len(s) + k - 1) = t[k]
      BY <1>4 DEF Occurs
    <3>3. i + Len(s) + k - 1 = i + j - 1
      BY <1>0, <3>1
    <3> QED BY <1>2, <3>1, <3>2, <3>3
  <2>3. j \in Nat
    OBVIOUS
  <2> QED BY <1>0, <2>1, <2>2, <2>3
<1> QED BY <1>1, <1>3, <1>4

LEMMA OccursWord ==
  ASSUME NEW text, NEW i \in Nat, NEW c \in Words
  PROVE  Occurs(text, i, <<c>>) <=> Peek(text, i) = c
<1>1. PICK s : s = <<c>>
  OBVIOUS
<1>2. Len(s) = 1 /\ s[1] = c /\ 1..Len(s) = {1} /\ i + 1 - 1 = i
  BY <1>1
<1>3. Occurs(text, i, s) <=> Peek(text, i + 1 - 1) = s[1]
  BY <1>2 DEF Occurs
<1> QED BY <1>1, <1>2, <1>3

LEMMA OccursTwo ==
  ASSUME NEW text, NEW i \in Nat, NEW c \in Words, NEW d \in Words
  PROVE  Occurs(text, i, <<c, d>>) <=> Peek(text, i) = c /\ Peek(text, i + 1) = d
<1>1. PICK s : s = <<c, d>>
  OBVIOUS
<1>2. Len(s) = 2 /\ s[1] = c /\ s[2] = d /\ 1..Len(s) = {1, 2} /\ i + 1 - 1 = i /\ i + 2 - 1 = i + 1
  BY <1>1
<1>3. Occurs(text, i, s) <=> Peek(text, i + 1 - 1) = s[1] /\ Peek(text, i + 2 - 1) = s[2]
  BY <1>2 DEF Occurs
<1> QED BY <1>1, <1>2, <1>3

LEMMA OccursNamed ==
  ASSUME NEW text, NEW i \in Nat, NEW v, v.text \in Seq(Words)
  PROVE  Occurs(text, i, Named(v).text) <=> NameAhead(text, i) /\ Occurs(text, i + 2, v.text)
<1>1. PICK a : a = <<"name", "equals">>
  OBVIOUS
<1>2. a \in Seq(Words) /\ Len(a) = 2
  BY <1>1, TwoWords, WordsAre
<1>3. Named(v).text = a \o v.text
  BY <1>1, SaidIs DEF Named
<1>4. Occurs(text, i, a) <=> NameAhead(text, i)
  BY <1>1, OccursTwo, WordsAre DEF NameAhead
<1>5. Occurs(text, i, a \o v.text) <=> Occurs(text, i, a) /\ Occurs(text, i + Len(a), v.text)
  BY <1>2, OccursJoined
<1> QED BY <1>2, <1>3, <1>4, <1>5

LEMMA OccursEnclosed ==
  ASSUME NEW text, NEW i \in Nat, NEW s, s.text \in Seq(Words), NEW n \in Nat, Len(s.text) = n,
         NEW open \in Words, NEW close \in Words, NEW kind
  PROVE  Occurs(text, i, Enclosed(open, s, close, kind).text) <=>
           Peek(text, i) = open /\ Occurs(text, i + 1, s.text) /\ Peek(text, i + 1 + n) = close
<1>1. PICK a, b, t : a = <<open>> /\ b = <<close>> /\ t = s.text
  OBVIOUS
<1>2. a \in Seq(Words) /\ Len(a) = 1 /\ b \in Seq(Words) /\ t \in Seq(Words) /\ Len(t) = n
  BY <1>1, OneWord
<1>3. PICK at : at = a \o t
  OBVIOUS
<1>4. at \in Seq(Words) /\ Len(at) = 1 + n
  <2>1. a \o t \in Seq(Words) /\ Len(a \o t) = Len(a) + Len(t)
    BY <1>2, Joined
  <2> QED BY <1>2, <1>3, <2>1
<1>5. Enclosed(open, s, close, kind).text = at \o b
  BY <1>1, <1>3, SaidIs DEF Enclosed
<1>6. Occurs(text, i, at \o b) <=> Occurs(text, i, at) /\ Occurs(text, i + Len(at), b)
  BY <1>2, <1>4, OccursJoined
<1>7. Occurs(text, i, at) <=> Occurs(text, i, a) /\ Occurs(text, i + Len(a), t)
  BY <1>2, <1>3, OccursJoined
<1>8. i + 1 + n \in Nat /\ i + Len(at) = i + 1 + n
  BY <1>4
<1>9. Occurs(text, i, a) <=> Peek(text, i) = open
  BY <1>1, OccursWord
<1>10. Occurs(text, i + 1 + n, b) <=> Peek(text, i + 1 + n) = close
  BY <1>1, <1>8, OccursWord
<1>11. Occurs(text, i, at \o b) <=> Occurs(text, i, at) /\ Occurs(text, i + 1 + n, b)
  BY <1>6, <1>8
<1>12. Occurs(text, i, at) <=> Occurs(text, i, a) /\ Occurs(text, i + 1, s.text)
  BY <1>1, <1>2, <1>7
<1> QED BY <1>5, <1>9, <1>10, <1>11, <1>12

LEMMA OccursListed ==
  ASSUME NEW text, NEW i \in Nat, NEW x, x.text \in Seq(Words), NEW n \in Nat, Len(x.text) = n,
         NEW xs, xs.text \in Seq(Words)
  PROVE  Occurs(text, i, Listed(x, xs).text) <=>
           /\ Occurs(text, i, x.text) /\ Peek(text, i + n) = "comma"
           /\ Occurs(text, i + n + 1, xs.text)
<1>1. PICK a, b, c : a = x.text /\ b = <<"comma">> /\ c = xs.text
  OBVIOUS
<1>2. a \in Seq(Words) /\ Len(a) = n /\ b \in Seq(Words) /\ Len(b) = 1 /\ c \in Seq(Words)
  BY <1>1, OneWord, WordsAre
<1>3. PICK ab : ab = a \o b
  OBVIOUS
<1>4. ab \in Seq(Words) /\ Len(ab) = n + 1
  <2>1. a \o b \in Seq(Words) /\ Len(a \o b) = Len(a) + Len(b)
    BY <1>2, Joined
  <2> QED BY <1>2, <1>3, <2>1
<1>5. Listed(x, xs).text = ab \o c
  BY <1>1, <1>3, SaidIs DEF Listed
<1>6. Occurs(text, i, ab \o c) <=> Occurs(text, i, ab) /\ Occurs(text, i + Len(ab), c)
  BY <1>2, <1>4, OccursJoined
<1>7. Occurs(text, i, ab) <=> Occurs(text, i, a) /\ Occurs(text, i + Len(a), b)
  BY <1>2, <1>3, OccursJoined
<1>8. i + n \in Nat /\ i + Len(ab) = i + n + 1 /\ i + Len(a) = i + n
  BY <1>2, <1>4
<1>9. Occurs(text, i + n, b) <=> Peek(text, i + n) = "comma"
  BY <1>1, <1>8, OccursWord, WordsAre
<1> QED BY <1>1, <1>5, <1>6, <1>7, <1>8, <1>9
-----------------------------------------------------------------------------
\* The parser reads the grammar: what occurs in the text at i is what it returns
\* there, with the tree it has in the grammar.
\* What the parser's forms read of the grammar.
FormOf == [value |-> "value", fields |-> "results", body |-> "results", items |-> "items"]

LEMMA FormOfIs ==
  /\ FormOf["value"] = "value" /\ FormOf["fields"] = "results" /\ FormOf["body"] = "results"
  /\ FormOf["items"] = "items"
  /\ \A form \in Forms : FormOf[form] \in DOMAIN Leads
  /\ \A form \in DOMAIN Terminators :
       form \in Forms /\ form # "value" /\ FormOf[form] \in {"results", "items"}
<1>1. /\ FormOf["value"] = "value" /\ FormOf["fields"] = "results" /\ FormOf["body"] = "results"
      /\ FormOf["items"] = "items"
  BY DEF FormOf
<1> QED BY <1>1, FormsAre, TerminatorsAre, LeadsAre

\* g is read at i: what has to follow it does.
Ready(text, form, i, n) == form # "value" => Peek(text, i + n) \in Terminators[form]
ReadsBelow(text, m) ==
  \A n \in 0..MaxValue : n < m =>
    \A form \in Forms, i \in 1..(Len(text) + 1) : \A g \in Grammar[n][FormOf[form]] :
      Occurs(text, i, g.text) /\ Ready(text, form, i, n) =>
        Parse(text)[i][form] = Parsed(i + n, g.tree)

LEMMA SequenceGoesOn ==
  ASSUME NEW text, NEW i, NEW P, NEW form \in DOMAIN Terminators,
         NEW x, x = ElementAt(P, text, form, i), NEW at, x.at = at, at # 0, Peek(text, at) = "comma",
         NEW rest, rest = P[at + 1][form], rest.at # 0
  PROVE  SequenceAt(P, text, form, i) = Parsed(rest.at, <<x.tree>> \o rest.tree)
BY SequenceCases

LEMMA OccursFirst ==
  ASSUME NEW text, NEW i \in Nat, NEW s, Len(s) \in Nat, Len(s) > 0, Occurs(text, i, s)
  PROVE  Peek(text, i) = s[1]
<1>1. 1 \in 1..Len(s) /\ i + 1 - 1 = i
  OBVIOUS
<1>2. Peek(text, i + 1 - 1) = s[1]
  BY <1>1 DEF Occurs
<1> QED BY <1>1, <1>2

LEMMA WithinReads ==
  ASSUME NEW text, IsText(text), NEW m \in Nat, ReadsBelow(text, m),
         NEW i \in 1..Len(text), NEW k \in 0..MaxValue, k < m,
         NEW elements \in {"fields", "items"}, NEW close, close \in Terminators[elements],
         close \in {"rbrace", "rbracket"}, NEW kind,
         NEW s \in Grammar[k][FormOf[elements]], Occurs(text, i + 1, s.text),
         Peek(text, i + 1 + k) = close
  PROVE  Within(Parse(text), text, i, elements, close, kind) = Parsed(i + 1 + k + 1, Node(kind, s.tree))
<1>0. /\ MaxValue \in Nat /\ k \in Nat /\ i \in Nat /\ Len(text) \in Nat
      /\ i + 1 \in Nat /\ i + 1 \in 1..(Len(text) + 1) /\ i + 1 + k # 0
  BY GrammarAssumption DEF IsText
<1>1. elements \in Forms /\ FormOf[elements] \in DOMAIN Leads
  BY FormsAre, FormOfIs
<1>2. Shaped(s, FormOf[elements], k)
  BY <1>1, GrammarShaped
<1>3. Len(s.text) \in Nat /\ Len(s.text) > 0 /\ s.text[1] \in Leads[FormOf[elements]]
  BY <1>2 DEF Shaped
<1>4. Peek(text, i + 1) # close
  <2>1. Peek(text, i + 1) = s.text[1]
    BY <1>0, <1>3, OccursFirst
  <2>2. s.text[1] \in {"str", "lbrace", "lbracket", "name"}
    BY <1>3, FormOfIs, LeadsAre
  <2> QED BY <2>1, <2>2
<1>5. Ready(text, elements, i + 1, k)
  BY DEF Ready
<1>6. Parse(text)[i + 1][elements] = Parsed(i + 1 + k, s.tree)
  BY <1>0, <1>1, <1>5 DEF ReadsBelow
<1>7. /\ Parse(text)[i + 1][elements].at = i + 1 + k /\ Parse(text)[i + 1][elements].tree = s.tree
  BY <1>6, ParsedIs
<1> QED BY <1>0, <1>4, <1>7 DEF Within

LEMMA EnclosedOccurs ==
  ASSUME NEW text, NEW i \in Nat, NEW k \in Nat, NEW form, NEW s, Shaped(s, form, k),
         NEW open \in Words, NEW close \in Words, NEW kind,
         NEW v, v = Enclosed(open, s, close, kind)
  PROVE  /\ v.tree = Node(kind, s.tree)
         /\ Occurs(text, i, v.text) <=>
              Peek(text, i) = open /\ Occurs(text, i + 1, s.text) /\ Peek(text, i + 1 + k) = close
<1>1. s.text \in Seq(Words) /\ Len(s.text) = k
  BY DEF Shaped
<1>2. v.tree = Node(kind, s.tree)
  BY <1>1, EnclosedShaped
<1>3. Occurs(text, i, v.text) <=>
        Peek(text, i) = open /\ Occurs(text, i + 1, s.text) /\ Peek(text, i + 1 + k) = close
  BY <1>1, OccursEnclosed
<1> QED BY <1>2, <1>3

\* What encloses a tuple and a list, and what the parser and the grammar call
\* what is in it.
Bracket(open, close, kind, elements, f) ==
  \/ open = "lbrace" /\ close = "rbrace" /\ kind = "tuple" /\ elements = "fields" /\ f = "results"
  \/ open = "lbracket" /\ close = "rbracket" /\ kind = "list" /\ elements = "items" /\ f = "items"

LEMMA BracketIs ==
  ASSUME NEW open, NEW close, NEW kind, NEW elements, NEW f, Bracket(open, close, kind, elements, f)
  PROVE  /\ open \in Words /\ close \in Words /\ open # "none" /\ close \in {"rbrace", "rbracket"}
         /\ elements \in {"fields", "items"} /\ elements \in Forms /\ close \in Terminators[elements]
         /\ f \in DOMAIN Leads /\ f = FormOf[elements]
         /\ \A P, text, i : Peek(text, i) = open =>
              ValueAt(P, text, i) = Within(P, text, i, elements, close, kind)
<1>1. CASE open = "lbrace" /\ close = "rbrace" /\ kind = "tuple" /\ elements = "fields" /\ f = "results"
  BY <1>1, WordsAre, FormsAre, TerminatorsAre, LeadsAre, FormOfIs, ValueCases
<1>2. CASE open = "lbracket" /\ close = "rbracket" /\ kind = "list" /\ elements = "items" /\ f = "items"
  BY <1>2, WordsAre, FormsAre, TerminatorsAre, LeadsAre, FormOfIs, ValueCases
<1> QED BY <1>1, <1>2 DEF Bracket

LEMMA LongValues ==
  ASSUME NEW n \in Nat, n > 2, NEW v
  PROVE  v \in Values(Grammar, n) <=>
           \E open, close, kind, elements, f : 
             /\ Bracket(open, close, kind, elements, f)
             /\ \E s \in Grammar[n - 2][f] : v = Enclosed(open, s, close, kind)
<1>1. ~(n = 1) /\ ~(n = 2)
  OBVIOUS
<1>2. v \in Values(Grammar, n) <=>
        \/ \E s \in Grammar[n - 2]["results"] : v = Enclosed("lbrace", s, "rbrace", "tuple")
        \/ \E s \in Grammar[n - 2]["items"] : v = Enclosed("lbracket", s, "rbracket", "list")
  BY <1>1, ValuesAre, Zenon
<1> QED BY <1>2, Zenon DEF Bracket

LEMMA EnclosedReads ==
  ASSUME NEW text, IsText(text), NEW m \in Nat, ReadsBelow(text, m),
         NEW i \in 1..(Len(text) + 1), NEW k \in 0..MaxValue, k < m,
         NEW open, NEW close, NEW kind, NEW elements, NEW f, Bracket(open, close, kind, elements, f),
         NEW s \in Grammar[k][f],
         NEW v, v = Enclosed(open, s, close, kind), Occurs(text, i, v.text)
  PROVE  ValueAt(Parse(text), text, i) = Parsed(i + k + 2, v.tree)
<1>0. MaxValue \in Nat /\ k \in Nat /\ i \in Nat
  BY GrammarAssumption
<1>1. /\ open \in Words /\ close \in Words /\ open # "none" /\ close \in {"rbrace", "rbracket"}
      /\ elements \in {"fields", "items"} /\ elements \in Forms /\ close \in Terminators[elements]
      /\ f \in DOMAIN Leads /\ f = FormOf[elements]
  BY BracketIs
<1>2. Shaped(s, f, k)
  BY <1>1, GrammarShaped
<1>3. /\ v.tree = Node(kind, s.tree)
      /\ Peek(text, i) = open /\ Occurs(text, i + 1, s.text) /\ Peek(text, i + 1 + k) = close
  BY <1>0, <1>1, <1>2, EnclosedOccurs
<1>4. i \in 1..Len(text)
  BY <1>1, <1>3, Peeked
<1>5. Within(Parse(text), text, i, elements, close, kind) = Parsed(i + 1 + k + 1, Node(kind, s.tree))
  BY <1>1, <1>3, <1>4, WithinReads
<1>6. i + 1 + k + 1 = i + k + 2
  BY <1>0
<1>7. ValueAt(Parse(text), text, i) = Within(Parse(text), text, i, elements, close, kind)
  BY <1>3, BracketIs
<1> QED BY <1>3, <1>5, <1>6, <1>7

LEMMA ValueReads ==
  ASSUME NEW text, IsText(text), NEW m \in Nat, ReadsBelow(text, m),
         NEW i \in 1..(Len(text) + 1), NEW n \in 0..MaxValue, n <= m,
         NEW v \in Values(Grammar, n), Occurs(text, i, v.text)
  PROVE  ValueAt(Parse(text), text, i) = Parsed(i + n, v.tree)
<1>0. MaxValue \in Nat /\ n \in Nat /\ i \in Nat /\ i # 0 /\ Len(text) \in Nat
  BY GrammarAssumption DEF IsText
<1>1. CASE n = 1 /\ v = Said(<<"str">>, Node("const", <<>>))
  <2>1. v.text = <<"str">> /\ v.tree = Node("const", <<>>)
    BY <1>1, SaidIs
  <2>2. Peek(text, i) = "str"
    BY <1>0, <2>1, OccursWord, WordsAre
  <2> QED BY <1>1, <2>1, <2>2, ValueCases
<1>2. ASSUME n = 2, NEW open \in Words, NEW close \in Words, NEW kind, NEW elements,
             open # "none", v = Said(<<open, close>>, Node(kind, <<>>))
      PROVE  /\ Peek(text, i) = open
             /\ Within(Parse(text), text, i, elements, close, kind) = Parsed(i + n, v.tree)
  <2>1. v.text = <<open, close>> /\ v.tree = Node(kind, <<>>)
    BY <1>2, SaidIs
  <2>2. Peek(text, i) = open /\ Peek(text, i + 1) = close
    BY <1>0, <2>1, OccursTwo
  <2>3. Parsed(i + 1, <<>>).at = i + 1 /\ Parsed(i + 1, <<>>).tree = <<>> /\ i + 1 # 0 /\ i + 1 + 1 = i + n
    BY <1>0, <1>2, ParsedIs
  <2> QED BY <2>1, <2>2, <2>3 DEF Within
<1>3. CASE n = 2 /\ v = Said(<<"lbrace", "rbrace">>, Node("tuple", <<>>))
  <2>1. /\ Peek(text, i) = "lbrace"
        /\ Within(Parse(text), text, i, "fields", "rbrace", "tuple") = Parsed(i + n, v.tree)
    BY <1>2, <1>3, WordsAre
  <2> QED BY <2>1, ValueCases
<1>4. CASE n = 2 /\ v = Said(<<"lbracket", "rbracket">>, Node("list", <<>>))
  <2>1. /\ Peek(text, i) = "lbracket"
        /\ Within(Parse(text), text, i, "items", "rbracket", "list") = Parsed(i + n, v.tree)
    BY <1>2, <1>4, WordsAre
  <2> QED BY <2>1, ValueCases
<1>5. CASE n > 2
  <2>1. PICK open, close, kind, elements, f : 
          /\ Bracket(open, close, kind, elements, f)
          /\ \E s \in Grammar[n - 2][f] : v = Enclosed(open, s, close, kind)
    BY <1>0, <1>5, LongValues
  <2>2. PICK k : k = n - 2 /\ k \in 0..MaxValue /\ k < m /\ i + k + 2 = i + n
    BY <1>0, <1>5
  <2>3. PICK s \in Grammar[k][f] : v = Enclosed(open, s, close, kind)
    BY <2>1, <2>2
  <2>4. ValueAt(Parse(text), text, i) = Parsed(i + k + 2, v.tree)
    BY <2>1, <2>2, <2>3, EnclosedReads
  <2> QED BY <2>2, <2>4
<1> QED BY <1>0, <1>1, <1>3, <1>4, <1>5, ValuesAre

LEMMA ElementReads ==
  ASSUME NEW text, IsText(text), NEW m \in Nat, ReadsBelow(text, m),
         NEW i \in 1..(Len(text) + 1), NEW n \in 0..MaxValue, n <= m,
         NEW form \in DOMAIN Terminators, NEW f, f = FormOf[form],
         NEW x \in Elements(Grammar, f, n), Occurs(text, i, x.text)
  PROVE  ElementAt(Parse(text), text, form, i) = Parsed(i + n, x.tree)
<1>0. MaxValue \in Nat /\ n \in Nat /\ i \in Nat /\ i # 0 /\ Len(text) \in Nat
  BY GrammarAssumption DEF IsText
<1>1. CASE n > 2 /\ \E v \in Grammar[n - 2]["value"] : x = Named(v)
  <2>1. PICK k : k = n - 2 /\ k \in 0..MaxValue /\ k \in Nat /\ k < m /\ i + 2 + k = i + n /\ i + n # 0
    BY <1>0, <1>1
  <2>2. PICK v \in Grammar[k]["value"] : x = Named(v)
    BY <1>1, <2>1
  <2>3. Shaped(v, "value", k)
    BY <2>1, <2>2, GrammarShaped, LeadsAre
  <2>4. v.text \in Seq(Words)
    BY <2>3 DEF Shaped
  <2>5. NameAhead(text, i) /\ Occurs(text, i + 2, v.text)
    BY <1>0, <2>2, <2>4, OccursNamed
  <2>6. i + 2 \in 1..(Len(text) + 1)
    <3>1. i + 1 \in 1..Len(text)
      BY <2>5, Peeked DEF NameAhead
    <3> QED BY <1>0, <3>1
  <2>7. Ready(text, "value", i + 2, k) /\ "value" \in Forms /\ v \in Grammar[k][FormOf["value"]]
    BY <2>2, FormsAre, FormOfIs DEF Ready
  <2>8. Parse(text)[i + 2]["value"] = Parsed(i + 2 + k, v.tree)
    BY <2>1, <2>5, <2>6, <2>7 DEF ReadsBelow
  <2>9. Parse(text)[i + 2]["value"].at = i + n /\ Parse(text)[i + 2]["value"].tree = v.tree
    BY <2>1, <2>8, ParsedIs
  <2>10. x.tree = Node("result", <<v.tree>>)
    BY <2>2, SaidIs DEF Named
  <2>11. ResultAt(Parse(text), text, i) = Parsed(i + n, x.tree)
    BY <2>1, <2>5, <2>9, <2>10 DEF ResultAt
  <2> QED BY <2>5, <2>11 DEF ElementAt
<1>2. CASE f = "items" /\ x \in Values(Grammar, n)
  <2>1. Shaped(x, "value", n)
    BY <1>0, <1>2, GrammarShaped, ValueShaped
  <2>2. x.text \in Seq(Words) /\ Len(x.text) = n /\ n > 0 /\ x.text[1] \in {"str", "lbrace", "lbracket"}
    BY <2>1, LeadsAre DEF Shaped
  <2>3. Peek(text, i) = x.text[1]
    BY <1>0, <2>2, OccursFirst
  <2>4. ~NameAhead(text, i)
    BY <2>2, <2>3 DEF NameAhead
  <2>5. form = "items"
    BY <1>2, FormOfIs, TerminatorsAre
  <2>6. ValueAt(Parse(text), text, i) = Parsed(i + n, x.tree)
    BY <1>2, ValueReads
  <2> QED BY <2>4, <2>5, <2>6, Zenon DEF ElementAt
<1>3. \/ n > 2 /\ \E v \in Grammar[n - 2]["value"] : x = Named(v)
      \/ f = "items" /\ x \in Values(Grammar, n)
  BY <1>0, ElementsAre
<1> QED BY <1>1, <1>2, <1>3

LEMMA SequenceReads ==
  ASSUME NEW text, IsText(text), NEW m \in Nat, ReadsBelow(text, m),
         NEW i \in 1..(Len(text) + 1), NEW n \in 0..MaxValue, n <= m,
         NEW form \in DOMAIN Terminators, NEW f, f = FormOf[form],
         NEW s \in Sequences(Grammar, f, n), Occurs(text, i, s.text),
         Peek(text, i + n) \in Terminators[form]
  PROVE  SequenceAt(Parse(text), text, form, i) = Parsed(i + n, s.tree)
<1>0. MaxValue \in Nat /\ n \in Nat /\ i \in Nat /\ i # 0 /\ Len(text) \in Nat
  BY GrammarAssumption DEF IsText
<1>1. form \in Forms /\ form # "value" /\ f \in {"results", "items"}
  BY FormOfIs
<1>2. CASE \E x \in Elements(Grammar, f, n) : s = Said(x.text, <<x.tree>>)
  <2>1. PICK x \in Elements(Grammar, f, n) : s = Said(x.text, <<x.tree>>)
    BY <1>2
  <2>2. s.text = x.text /\ s.tree = <<x.tree>>
    BY <2>1, SaidIs
  <2>3. PICK first : first = ElementAt(Parse(text), text, form, i) /\ first = Parsed(i + n, x.tree)
    BY <2>2, ElementReads
  <2>4. first.at = i + n /\ first.tree = x.tree /\ i + n # 0
    BY <1>0, <2>3, ParsedIs
  <2>5. Peek(text, i + n) # "comma"
    BY TerminatorsAre
  <2>6. SequenceAt(Parse(text), text, form, i) = Parsed(first.at, <<first.tree>>)
    <3>1. first.at # 0 /\ Peek(text, first.at) # "comma" /\ Peek(text, first.at) \in Terminators[form]
      BY <2>4, <2>5
    <3>2. SequenceAt(Parse(text), text, form, i) =
            IF Peek(text, first.at) \in Terminators[form]
            THEN Parsed(first.at, <<first.tree>>) ELSE Invalid
      BY <2>3, <3>1, SequenceCases
    <3> QED BY <3>1, <3>2
  <2> QED BY <2>2, <2>4, <2>6
<1>3. CASE \E k \in 1..(n - 1) : \E x \in Elements(Grammar, f, k) :
             \E xs \in Grammar[n - 1 - k][f] : s = Listed(x, xs)
  <2>a. PICK k \in 1..(n - 1) : \E x \in Elements(Grammar, f, k) :
          \E xs \in Grammar[n - 1 - k][f] : s = Listed(x, xs)
    BY <1>3
  <2>b. PICK x \in Elements(Grammar, f, k) :
          \E xs \in Grammar[n - 1 - k][f] : s = Listed(x, xs)
    BY <2>a
  <2>c. PICK r : r = n - 1 - k /\ r \in 0..MaxValue /\ r \in Nat /\ r < m /\ i + k + 1 + r = i + n
    BY <1>0
  <2>1. PICK xs \in Grammar[r][f] : s = Listed(x, xs)
    BY <2>b, <2>c
  <2>2. k \in 0..MaxValue /\ k \in Nat /\ k <= m /\ i + k # 0 /\ i + n # 0
    BY <1>0
  <2>3. Shaped(x, f, k)
    BY <1>1, <2>2, GrammarShaped, ElementShaped
  <2>4. x.text \in Seq(Words) /\ Len(x.text) = k
    BY <2>3 DEF Shaped
  <2>5. Shaped(xs, f, r)
    BY <1>1, <2>1, <2>c, GrammarShaped, LeadsAre
  <2>6. xs.text \in Seq(Words)
    BY <2>5 DEF Shaped
  <2>7. /\ Occurs(text, i, x.text) /\ Peek(text, i + k) = "comma"
        /\ Occurs(text, i + k + 1, xs.text)
    BY <1>0, <2>1, <2>2, <2>4, <2>6, OccursListed
  <2>8. PICK first : first = ElementAt(Parse(text), text, form, i) /\ first = Parsed(i + k, x.tree)
    BY <2>2, <2>7, ElementReads
  <2>9. first.at = i + k /\ first.tree = x.tree
    BY <2>8, ParsedIs
  <2>10. i + k + 1 \in 1..(Len(text) + 1)
    <3>1. i + k \in 1..Len(text)
      BY <2>7, Peeked
    <3> QED BY <1>0, <2>2, <3>1
  <2>11. Ready(text, form, i + k + 1, r)
    BY <2>c DEF Ready
  <2>12. Parse(text)[i + k + 1][form] = Parsed(i + n, xs.tree)
    BY <1>1, <2>1, <2>7, <2>c, <2>10, <2>11 DEF ReadsBelow
  <2>13. PICK rest : rest = Parse(text)[first.at + 1][form] /\ rest.at = i + n /\ rest.tree = xs.tree
    BY <2>9, <2>12, ParsedIs
  <2>14. PICK P : P = Parse(text)
    OBVIOUS
  <2>15. SequenceAt(P, text, form, i) = Parsed(rest.at, <<first.tree>> \o rest.tree)
    <3>1. first = ElementAt(P, text, form, i) /\ rest = P[(i + k) + 1][form]
      BY <2>8, <2>9, <2>13, <2>14
    <3> QED BY <2>2, <2>7, <2>9, <2>13, <3>1, SequenceGoesOn
  <2>16. s.tree = <<x.tree>> \o xs.tree
    BY <2>1, SaidIs DEF Listed
  <2>17. PICK t : t = <<first.tree>> \o rest.tree /\ t = s.tree
    BY <2>9, <2>13, <2>16
  <2>18. SequenceAt(P, text, form, i) = Parsed(rest.at, t)
    BY <2>15, <2>17
  <2> QED BY <1>0, <2>13, <2>14, <2>17, <2>18
<1>4. \/ \E x \in Elements(Grammar, f, n) : s = Said(x.text, <<x.tree>>)
      \/ \E k \in 1..(n - 1) : \E x \in Elements(Grammar, f, k) :
           \E xs \in Grammar[n - 1 - k][f] : s = Listed(x, xs)
  BY <1>0, SequencesAre
<1> QED BY <1>2, <1>3, <1>4

\* All that the grammar has is parsed, wherever it occurs.
LEMMA ParserReads ==
  ASSUME NEW text, IsText(text)
  PROVE  \A m \in Nat : ReadsBelow(text, m)
<1> DEFINE T == {m \in Nat : ReadsBelow(text, m)}
<1>0. MaxValue \in Nat
  BY GrammarAssumption
<1>1. 0 \in T
  BY <1>0 DEF ReadsBelow
<1>2. ASSUME NEW m \in Nat, m \in T
      PROVE  m + 1 \in T
  <2> SUFFICES ASSUME NEW n \in 0..MaxValue, n < m + 1, NEW form \in Forms,
                      NEW i \in 1..(Len(text) + 1), NEW g \in Grammar[n][FormOf[form]],
                      Occurs(text, i, g.text), Ready(text, form, i, n)
               PROVE  Parse(text)[i][form] = Parsed(i + n, g.tree)
    BY DEF ReadsBelow
  <2>1. n <= m /\ ReadsBelow(text, m)
    BY <1>0, <1>2
  <2>2. CASE form = "value"
    <3>1. g \in Values(Grammar, n)
      BY <2>2, GrammarForms, FormOfIs
    <3>2. ValueAt(Parse(text), text, i) = Parsed(i + n, g.tree)
      BY <2>1, <3>1, ValueReads
    <3> QED BY <2>2, <3>2, ParserIs
  <2>3. CASE form # "value"
    <3>1. form \in DOMAIN Terminators
      BY <2>3 DEF Forms
    <3>2. g \in Sequences(Grammar, FormOf[form], n)
      BY <3>1, GrammarForms, FormOfIs
    <3>3. Peek(text, i + n) \in Terminators[form]
      BY <2>3 DEF Ready
    <3>4. SequenceAt(Parse(text), text, form, i) = Parsed(i + n, g.tree)
      BY <2>1, <3>1, <3>2, <3>3, SequenceReads
    <3> QED BY <3>1, <3>4, ParserIs
  <2> QED BY <2>2, <2>3
<1> HIDE DEF T
<1>3. \A m \in Nat : m \in T
  BY <1>1, <1>2, Upward
<1> QED BY <1>3 DEF T
-----------------------------------------------------------------------------
\* The parser reads nothing else: what it returns at i is in the grammar.
\* What was parsed from i to at is in the grammar, unless it is too long for it.
Found(text, f, i, at) ==
  at # 0 /\ at - i <= MaxValue => \E g \in Grammar[at - i][f] : Occurs(text, i, g.text)
FoundAfter(text, i) ==
  \A j \in 1..(Len(text) + 1), form \in Forms :
    i < j => Found(text, FormOf[form], j, Parse(text)[j][form].at)

LEMMA ReturnsAfter ==
  ASSUME NEW text, IsText(text), NEW i \in 1..(Len(text) + 1)
  PROVE  ResultsAfter(Parse(text), text, i) /\ SameAfter(Parse(text), Parse(text), text, i)
BY ParserReturns DEF ResultsAfter, SameAfter

LEMMA SequenceStops ==
  ASSUME NEW text, NEW i, NEW P, NEW form \in DOMAIN Terminators,
         NEW x, x = ElementAt(P, text, form, i),
         NEW at, x.at = at, NEW rest, rest = P[at + 1][form],
         at = 0 \/ (Peek(text, at) = "comma" /\ rest.at = 0)
  PROVE  SequenceAt(P, text, form, i).at = 0
<1>1. SequenceAt(P, text, form, i) = Invalid
  BY SequenceCases
<1> QED BY <1>1, ParsedIs

LEMMA ListedFound ==
  ASSUME NEW f, NEW n \in Nat, NEW k \in 1..(n - 1), NEW r, r = n - 1 - k,
         NEW y \in Elements(Grammar, f, k), NEW ys \in Grammar[r][f]
  PROVE  Listed(y, ys) \in Sequences(Grammar, f, n)
<1>1. \E z \in Grammar[n - 1 - k][f] : Listed(y, ys) = Listed(y, z)
  OBVIOUS
<1>2. \E kk \in 1..(n - 1) : \E yy \in Elements(Grammar, f, kk) :
        \E z \in Grammar[n - 1 - kk][f] : Listed(y, ys) = Listed(yy, z)
  BY <1>1, Zenon
<1> QED BY <1>2, SequencesAre

LEMMA EmptyFound ==
  ASSUME NEW text, NEW i \in Nat, NEW open, NEW close, NEW kind, NEW elements, NEW f,
         Bracket(open, close, kind, elements, f),
         Peek(text, i) = open, Peek(text, i + 1) = close
  PROVE  \E v \in Values(Grammar, 2) : Occurs(text, i, v.text)
<1>1. PICK v : v = Said(<<open, close>>, Node(kind, <<>>))
  OBVIOUS
<1>2. v \in Values(Grammar, 2)
  <2>1. v = Said(<<"lbrace", "rbrace">>, Node("tuple", <<>>))
          \/ v = Said(<<"lbracket", "rbracket">>, Node("list", <<>>))
    BY <1>1, Zenon DEF Bracket
  <2>2. 2 \in Nat /\ 2 = 2
    OBVIOUS
  <2> QED BY <2>1, <2>2, ValuesAre, Zenon
<1>3. v.text = <<open, close>>
  BY <1>1, SaidIs
<1>4. open \in Words /\ close \in Words
  BY BracketIs
<1>5. Occurs(text, i, <<open, close>>)
  BY <1>4, OccursTwo
<1> QED BY <1>2, <1>3, <1>5

LEMMA EnclosedFound ==
  ASSUME NEW text, IsText(text), NEW i \in 1..(Len(text) + 1), FoundAfter(text, i),
         NEW open, NEW close, NEW kind, NEW elements, NEW f, Bracket(open, close, kind, elements, f),
         Peek(text, i) = open,
         NEW at, at = Within(Parse(text), text, i, elements, close, kind).at,
         at # 0, at - i <= MaxValue
  PROVE  at - i \in Nat /\ \E v \in Values(Grammar, at - i) : Occurs(text, i, v.text)
<1>0. MaxValue \in Nat /\ i \in Nat /\ Len(text) \in Nat /\ i + 1 \in Nat
  BY GrammarAssumption DEF IsText
<1>1. /\ open \in Words /\ close \in Words /\ open # "none"
      /\ elements \in Forms /\ f \in DOMAIN Leads /\ f = FormOf[elements]
  BY BracketIs
<1>2. i \in 1..Len(text) /\ i + 1 \in 1..(Len(text) + 1)
  <2>1. i \in 1..Len(text)
    BY <1>1, Peeked
  <2> QED BY <1>0, <2>1
<1>3. CASE Peek(text, i + 1) = close
  <2>1. Parsed(i + 1, <<>>).at = i + 1 /\ i + 1 # 0
    BY <1>0, ParsedIs
  <2>2. \E tree : Within(Parse(text), text, i, elements, close, kind) = Parsed(i + 1 + 1, tree)
    BY <1>3, <2>1 DEF Within
  <2>3. at = i + 1 + 1
    BY <2>2, ParsedIs
  <2>4. at - i = 2
    BY <1>0, <2>3
  <2> QED BY <1>0, <1>3, <2>4, EmptyFound
<1>4. CASE Peek(text, i + 1) # close
  <2>1. PICK r : r = Parse(text)[i + 1][elements]
    OBVIOUS
  <2>2. Within(Parse(text), text, i, elements, close, kind) =
          IF r.at # 0 /\ Peek(text, r.at) = close THEN Parsed(r.at + 1, Node(kind, r.tree)) ELSE Invalid
    BY <1>4, <2>1 DEF Within
  <2>3. r.at # 0 /\ Peek(text, r.at) = close /\ at = r.at + 1
    BY <2>2, ParsedIs
  <2>4. Result(r, text, i + 1)
    BY <1>1, <1>2, <2>1, ParserReturns
  <2>5. PICK e : e = r.at /\ e \in Nat /\ i + 1 < e /\ at = e + 1
    BY <2>3, <2>4 DEF Result
  <2>6. PICK k : k = e - (i + 1) /\ k \in 0..MaxValue /\ k \in Nat /\ k > 0 /\ at - i = k + 2 /\ i + 1 + k = e
    BY <1>0, <2>5
  <2>7. Found(text, f, i + 1, e)
    BY <1>0, <1>1, <1>2, <2>1, <2>5 DEF FoundAfter
  <2>8. PICK s \in Grammar[k][f] : Occurs(text, i + 1, s.text)
    BY <2>3, <2>5, <2>6, <2>7 DEF Found
  <2>9. Shaped(s, f, k)
    BY <1>1, <2>6, GrammarShaped
  <2>10. PICK v : v = Enclosed(open, s, close, kind)
    OBVIOUS
  <2>11. Occurs(text, i, v.text)
    <3>1. Peek(text, i + 1 + k) = close
      BY <2>3, <2>5, <2>6
    <3> QED BY <1>0, <1>1, <2>6, <2>8, <2>9, <2>10, <3>1, EnclosedOccurs
  <2>12. PICK n : n = k + 2 /\ n \in Nat /\ n > 2 /\ n - 2 = k
    BY <2>6
  <2>13. v \in Values(Grammar, n)
    <3>1. s \in Grammar[n - 2][f]
      BY <2>8, <2>12
    <3> QED BY <2>10, <2>12, <3>1, LongValues
  <2> QED BY <2>6, <2>11, <2>12, <2>13
<1> QED BY <1>3, <1>4

LEMMA ValueFound ==
  ASSUME NEW text, IsText(text), NEW i \in 1..(Len(text) + 1), FoundAfter(text, i),
         NEW at, at = ValueAt(Parse(text), text, i).at, at # 0, at - i <= MaxValue
  PROVE  at - i \in Nat /\ \E v \in Values(Grammar, at - i) : Occurs(text, i, v.text)
<1>0. i \in Nat
  BY DEF IsText
<1>1. CASE Peek(text, i) = "str"
  <2>1. at = i + 1
    BY <1>1, ValueCases, ParsedIs
  <2>2. PICK v : v = Said(<<"str">>, Node("const", <<>>))
    OBVIOUS
  <2>3. v \in Values(Grammar, 1)
    <3>1. 1 \in Nat /\ 1 = 1
      OBVIOUS
    <3> QED BY <2>2, <3>1, ValuesAre, Zenon
  <2>4. v.text = <<"str">>
    BY <2>2, SaidIs
  <2>5. Occurs(text, i, v.text)
    BY <1>0, <1>1, <2>4, OccursWord, WordsAre
  <2>6. at - i = 1
    BY <1>0, <2>1
  <2> QED BY <2>3, <2>5, <2>6
<1>2. CASE Peek(text, i) \in {"lbrace", "lbracket"}
  <2>1. PICK open, close, kind, elements, f :
          Peek(text, i) = open /\ Bracket(open, close, kind, elements, f)
    BY <1>2 DEF Bracket
  <2>2. ValueAt(Parse(text), text, i) = Within(Parse(text), text, i, elements, close, kind)
    BY <2>1, BracketIs
  <2>3. at = Within(Parse(text), text, i, elements, close, kind).at
    BY <2>2
  <2> QED BY <2>1, <2>3, EnclosedFound
<1>3. CASE Peek(text, i) \notin {"str", "lbrace", "lbracket"}
  BY <1>3, ValueCases, ParsedIs
<1> QED BY <1>1, <1>2, <1>3

LEMMA ElementFound ==
  ASSUME NEW text, IsText(text), NEW i \in 1..(Len(text) + 1), FoundAfter(text, i),
         NEW form \in DOMAIN Terminators, NEW f, f = FormOf[form],
         NEW at, at = ElementAt(Parse(text), text, form, i).at, at # 0, at - i <= MaxValue
  PROVE  at - i \in Nat /\ \E x \in Elements(Grammar, f, at - i) : Occurs(text, i, x.text)
<1>0. MaxValue \in Nat /\ i \in Nat /\ Len(text) \in Nat
  BY GrammarAssumption DEF IsText
<1>1. CASE form = "items" /\ ~NameAhead(text, i)
  <2>1. at = ValueAt(Parse(text), text, i).at
    BY <1>1 DEF ElementAt
  <2>2. at - i \in Nat /\ \E v \in Values(Grammar, at - i) : Occurs(text, i, v.text)
    BY <2>1, ValueFound
  <2>3. f = "items"
    BY <1>1, FormOfIs
  <2>4. PICK n : n = at - i
    OBVIOUS
  <2>5. n \in Nat /\ \E v \in Values(Grammar, n) : Occurs(text, i, v.text)
    BY <2>2, <2>4
  <2> QED BY <2>3, <2>4, <2>5, ElementsAre
<1>2. CASE ~(form = "items" /\ ~NameAhead(text, i))
  <2>1. PICK r : r = Parse(text)[i + 2]["value"]
    OBVIOUS
  <2>2. ElementAt(Parse(text), text, form, i) =
          IF NameAhead(text, i) /\ r.at # 0 THEN Parsed(r.at, Node("result", <<r.tree>>)) ELSE Invalid
    BY <1>2, <2>1 DEF ElementAt, ResultAt
  <2>3. NameAhead(text, i) /\ r.at # 0 /\ at = r.at
    BY <2>2, ParsedIs
  <2>4. i + 2 \in 1..(Len(text) + 1) /\ i + 2 \in Nat
    <3>1. i + 1 \in 1..Len(text)
      BY <2>3, Peeked DEF NameAhead
    <3> QED BY <1>0, <3>1
  <2>5. Result(r, text, i + 2)
    BY <2>1, <2>4, ParserReturns, FormsAre
  <2>6. PICK e : e = at /\ e = r.at /\ e \in Nat /\ i + 2 < e
    BY <2>3, <2>5 DEF Result
  <2>7. PICK k : k = e - (i + 2) /\ k \in 0..MaxValue /\ k \in Nat /\ k > 0 /\ e - i = k + 2
    BY <1>0, <2>6
  <2>8. Found(text, "value", i + 2, e)
    <3>1. Found(text, FormOf["value"], i + 2, Parse(text)[i + 2]["value"].at)
      BY <1>0, <2>4, FormsAre DEF FoundAfter
    <3> QED BY <2>1, <2>6, <3>1, FormOfIs
  <2>9. PICK v \in Grammar[k]["value"] : Occurs(text, i + 2, v.text)
    BY <2>3, <2>6, <2>7, <2>8 DEF Found
  <2>10. Shaped(v, "value", k)
    BY <2>7, GrammarShaped, LeadsAre
  <2>11. v.text \in Seq(Words)
    BY <2>10 DEF Shaped
  <2>12. PICK x : x = Named(v)
    OBVIOUS
  <2>13. Occurs(text, i, x.text)
    BY <1>0, <2>3, <2>9, <2>11, <2>12, OccursNamed
  <2>14. PICK n : n = k + 2 /\ n \in Nat /\ n > 2 /\ n - 2 = k
    BY <2>7
  <2>15. x \in Elements(Grammar, f, n)
    <3>1. v \in Grammar[n - 2]["value"]
      BY <2>9, <2>14
    <3> QED BY <2>12, <2>14, <3>1, ElementsAre
  <2> QED BY <2>6, <2>7, <2>13, <2>14, <2>15
<1> QED BY <1>1, <1>2

LEMMA SequenceFound ==
  ASSUME NEW text, IsText(text), NEW i \in 1..(Len(text) + 1), FoundAfter(text, i),
         NEW form \in DOMAIN Terminators, NEW f, f = FormOf[form],
         NEW at, at = SequenceAt(Parse(text), text, form, i).at, at # 0, at - i <= MaxValue
  PROVE  at - i \in Nat /\ \E s \in Sequences(Grammar, f, at - i) : Occurs(text, i, s.text)
<1>0. MaxValue \in Nat /\ i \in Nat /\ Len(text) \in Nat
  BY GrammarAssumption DEF IsText
<1>1. /\ form \in Forms /\ f \in {"results", "items"} /\ f \in DOMAIN Leads
  BY FormOfIs, LeadsAre
<1>2. PICK x : x = ElementAt(Parse(text), text, form, i)
  OBVIOUS
<1>3. Result(x, text, i)
  BY <1>2, ReturnsAfter, ElementIs
<1>4. x.at # 0 /\ (Peek(text, x.at) = "comma" => Parse(text)[x.at + 1][form].at # 0)
  <2>1. x.at = 0 => at = 0
    BY <1>2, SequenceStops
  <2>2. Peek(text, x.at) = "comma" /\ Parse(text)[x.at + 1][form].at = 0 => at = 0
    BY <1>2, SequenceStops
  <2> QED BY <2>1, <2>2
<1>5. PICK e : e = x.at /\ e \in Nat /\ i < e /\ e # 0
  BY <1>3, <1>4 DEF Result
<1>6. CASE Peek(text, e) = "comma"
  <2>1. PICK rest : rest = Parse(text)[e + 1][form]
    OBVIOUS
  <2>2. rest.at # 0
    BY <1>4, <1>5, <1>6, <2>1
  <2>3. SequenceAt(Parse(text), text, form, i) = Parsed(rest.at, <<x.tree>> \o rest.tree)
    BY <1>2, <1>5, <1>6, <2>1, <2>2, SequenceGoesOn
  <2>4. at = rest.at
    BY <2>3, ParsedIs
  <2>5. e + 1 \in 1..(Len(text) + 1) /\ e + 1 \in Nat
    <3>1. e \in 1..Len(text)
      BY <1>6, Peeked
    <3> QED BY <1>0, <1>5, <3>1
  <2>6. Result(rest, text, e + 1)
    BY <1>1, <2>1, <2>5, ParserReturns
  <2>7. at \in Nat /\ e + 1 < at
    BY <2>2, <2>4, <2>6 DEF Result
  <2>8. PICK n, k, r :
          /\ n = at - i /\ n \in Nat /\ k = e - i /\ k \in 1..(n - 1) /\ k \in Nat /\ k \in 0..MaxValue
          /\ r = at - (e + 1) /\ r = n - 1 - k /\ r \in Nat /\ r \in 0..MaxValue
          /\ i + k = e /\ i + k + 1 = e + 1
    <3>a. PICK z \in Nat : z = at /\ z - i <= MaxValue /\ e + 1 < z
      BY <2>7
    <3>1. PICK n, k, r : n = z - i /\ k = e - i /\ r = z - (e + 1)
      BY Zenon
    <3>2. /\ n \in Nat /\ k \in 1..(n - 1) /\ k \in Nat /\ k \in 0..MaxValue
          /\ r = n - 1 - k /\ r \in Nat /\ r \in 0..MaxValue
          /\ i + k = e /\ i + k + 1 = e + 1
      <4>1. i \in Nat /\ e \in Nat /\ z \in Nat /\ MaxValue \in Nat /\ i < e /\ e + 1 < z /\ z - i <= MaxValue
        BY <1>0, <1>5, <3>a
      <4>2. n \in Nat /\ k \in Nat /\ r \in Nat
        BY <4>1, <3>1
      <4>3. k \in 1..(n - 1) /\ r = n - 1 - k
        BY <4>1, <3>1
      <4>4. k \in 0..MaxValue /\ r \in 0..MaxValue
        BY <4>1, <3>1
      <4>5. i + k = e /\ i + k + 1 = e + 1
        BY <4>1, <3>1
      <4> QED BY <4>2, <4>3, <4>4, <4>5
    <3> QED BY <3>a, <3>1, <3>2, Zenon
  <2>9. \E y \in Elements(Grammar, f, k) : Occurs(text, i, y.text)
    <3>1. e = ElementAt(Parse(text), text, form, i).at /\ e - i <= MaxValue
      BY <1>0, <1>2, <1>5, <2>8
    <3>2. \E y \in Elements(Grammar, f, e - i) : Occurs(text, i, y.text)
      BY <1>5, <3>1, ElementFound
    <3> QED BY <2>8, <3>2
  <2>10. PICK y \in Elements(Grammar, f, k) : Occurs(text, i, y.text)
    BY <2>9
  <2>11. Found(text, f, e + 1, at)
    BY <1>0, <1>1, <1>5, <2>1, <2>4, <2>5 DEF FoundAfter
  <2>12. PICK ys \in Grammar[r][f] : Occurs(text, e + 1, ys.text)
    BY <2>8, <2>11 DEF Found
  <2>13. Shaped(y, f, k)
    BY <1>1, <2>8, <2>10, GrammarShaped, ElementShaped
  <2>14. Shaped(ys, f, r)
    BY <1>1, <2>8, <2>12, GrammarShaped
  <2>15. y.text \in Seq(Words) /\ Len(y.text) = k
    BY <2>13 DEF Shaped
  <2>16. ys.text \in Seq(Words)
    BY <2>14 DEF Shaped
  <2>17. PICK s : s = Listed(y, ys)
    OBVIOUS
  <2>18. Peek(text, i + k) = "comma" /\ Occurs(text, i + k + 1, ys.text)
    BY <1>6, <2>8, <2>12
  <2>19. Occurs(text, i, s.text)
    BY <1>0, <2>8, <2>10, <2>15, <2>16, <2>17, <2>18, OccursListed
  <2>20. s \in Sequences(Grammar, f, n)
    BY <2>8, <2>10, <2>12, <2>17, ListedFound
  <2> QED BY <2>8, <2>19, <2>20
<1>7. CASE Peek(text, e) # "comma"
  <2>1. SequenceAt(Parse(text), text, form, i) =
          IF Peek(text, e) \in Terminators[form] THEN Parsed(e, <<x.tree>>) ELSE Invalid
    BY <1>2, <1>5, <1>7, SequenceCases
  <2>2. at = e
    BY <2>1, ParsedIs
  <2>3. PICK n : n = at - i /\ n \in Nat
    BY <1>0, <1>5, <2>2
  <2>4. \E y \in Elements(Grammar, f, n) : Occurs(text, i, y.text)
    <3>1. at = ElementAt(Parse(text), text, form, i).at
      BY <1>2, <1>5, <2>2
    <3> QED BY <2>3, <3>1, ElementFound
  <2>5. PICK y \in Elements(Grammar, f, n) : Occurs(text, i, y.text)
    BY <2>4
  <2>6. PICK s : s = Said(y.text, <<y.tree>>) /\ s.text = y.text
    BY SaidIs
  <2>7. s \in Sequences(Grammar, f, n)
    BY <2>3, <2>5, <2>6, SequencesAre
  <2> QED BY <2>3, <2>5, <2>6, <2>7
<1> QED BY <1>6, <1>7

\* All that is parsed is in the grammar.
LEMMA ParserFinds ==
  ASSUME NEW text, IsText(text)
  PROVE  \A i \in 1..(Len(text) + 1), form \in Forms :
           Found(text, FormOf[form], i, Parse(text)[i][form].at)
<1> DEFINE D == 1..(Len(text) + 1)
           T == {m \in Nat : \A i \in D : Len(text) + 1 - i < m =>
                               \A form \in Forms : Found(text, FormOf[form], i, Parse(text)[i][form].at)}
<1>0. Len(text) \in Nat
  BY DEF IsText
<1>1. 0 \in T
  BY <1>0
<1>2. ASSUME NEW m \in Nat, m \in T
      PROVE  m + 1 \in T
  <2> SUFFICES ASSUME NEW i \in D, Len(text) + 1 - i < m + 1, NEW form \in Forms
               PROVE  Found(text, FormOf[form], i, Parse(text)[i][form].at)
    OBVIOUS
  <2>1. \A j \in D : i < j => Len(text) + 1 - j < m
    BY <1>0
  <2>2. FoundAfter(text, i)
    BY <1>2, <2>1 DEF FoundAfter
  <2>3. PICK at : at = Parse(text)[i][form].at
    OBVIOUS
  <2>4. SUFFICES ASSUME at # 0, at - i <= MaxValue
                 PROVE  \E g \in Grammar[at - i][FormOf[form]] : Occurs(text, i, g.text)
    BY <2>3 DEF Found
  <2>5. CASE form = "value"
    <3>1. at = ValueAt(Parse(text), text, i).at
      BY <2>3, <2>5, ParserIs
    <3>2. at - i \in Nat /\ \E v \in Values(Grammar, at - i) : Occurs(text, i, v.text)
      BY <2>2, <2>4, <3>1, ValueFound
    <3>3. PICK n : n = at - i /\ n \in 0..MaxValue
      BY <2>4, <3>2, GrammarAssumption
    <3>4. Grammar[n][FormOf[form]] = Values(Grammar, n)
      BY <2>5, <3>3, GrammarForms, FormOfIs
    <3> QED BY <3>2, <3>3, <3>4
  <2>6. CASE form # "value"
    <3>1. PICK f : f = FormOf[form]
      OBVIOUS
    <3>2. form \in DOMAIN Terminators /\ f \in {"results", "items"}
      BY <2>6, <3>1, FormOfIs DEF Forms
    <3>3. at = SequenceAt(Parse(text), text, form, i).at
      BY <2>3, <3>2, ParserIs
    <3>4. at - i \in Nat /\ \E s \in Sequences(Grammar, f, at - i) : Occurs(text, i, s.text)
      BY <2>2, <2>4, <3>1, <3>2, <3>3, SequenceFound
    <3>5. PICK n : n = at - i /\ n \in 0..MaxValue
      BY <2>4, <3>4, GrammarAssumption
    <3>6. Grammar[n][f] = Sequences(Grammar, f, n)
      BY <3>2, <3>5, GrammarForms
    <3> QED BY <3>1, <3>4, <3>5, <3>6
  <2> QED BY <2>5, <2>6
<1> HIDE DEF T
<1>3. \A m \in Nat : m \in T
  BY <1>1, <1>2, Upward
<1>4. \A i \in D : Len(text) + 1 - i < Len(text) + 1 /\ Len(text) + 1 \in T
  BY <1>0, <1>3
<1> QED BY <1>4 DEF T
-----------------------------------------------------------------------------
\* Records: a class, with or without a body, after a token or without one.
LEMMA Texted ==
  ASSUME NEW text, IsText(text)
  PROVE  /\ Len(text) \in Nat /\ DOMAIN text = 1..Len(text) /\ Peek(text, Len(text) + 1) = "none"
         /\ \A j \in 1..Len(text) : Peek(text, j) = text[j]
<1>1. Len(text) \in Nat /\ DOMAIN text = 1..Len(text)
  BY DEF IsText
<1>2. Len(text) + 1 \notin 1..Len(text)
  BY <1>1
<1> QED BY <1>1, <1>2 DEF Peek

LEMMA SameText ==
  ASSUME NEW text, IsText(text), NEW w \in Seq(Words), Len(w) = Len(text), Occurs(text, 1, w)
  PROVE  text = w
<1>0. Len(text) \in Nat /\ \A j \in 1..Len(text) : Peek(text, j) = text[j]
  BY Texted
<1>1. \A j \in 1..Len(text) : text[j] = w[j]
  <2> SUFFICES ASSUME NEW j \in 1..Len(text) PROVE text[j] = w[j]
    OBVIOUS
  <2>1. 1 + j - 1 = j /\ j \in 1..Len(w)
    BY <1>0
  <2>2. Peek(text, 1 + j - 1) = w[j]
    BY <2>1 DEF Occurs
  <2> QED BY <1>0, <2>1, <2>2
<1>2. text = [j \in 1..Len(text) |-> text[j]]
  BY DEF IsText
<1>3. w = [j \in 1..Len(w) |-> w[j]]
  OBVIOUS
<1>4. [j \in 1..Len(text) |-> text[j]] = [j \in 1..Len(w) |-> w[j]]
  BY <1>1
<1> QED BY <1>2, <1>3, <1>4, Zenon

LEMMA ResultsAre ==
  ASSUME NEW s
  PROVE  s \in Results <=> \E n \in 0..MaxValue : s \in Grammar[n]["results"]
BY Zenon DEF Results

LEMMA TuplesAre ==
  ASSUME NEW v
  PROVE  v \in Tuples <=> (\E n \in 0..MaxValue : v \in Grammar[n]["value"]) /\ v.tree.kind = "tuple"
BY Zenon DEF Tuples

\* A record's body and its tree, for the class c.
Body(c, g, n, tree) ==
  /\ c \in Classes /\ n \in 0..MaxValue
  /\ \/ g \in Grammar[n]["results"] /\ tree = g.tree
     \/ /\ c = "+download" /\ g \in Grammar[n]["value"] /\ g.tree.kind = "tuple"
        /\ tree = <<Node("result", <<g.tree>>)>>

LEMMA ClassedIs ==
  ASSUME NEW b
  PROVE  b \in Classed <=>
           \/ \E c \in Classes : b = Said(<<c>>, Node("record", <<>>))
           \/ \E c, g, n, tree :
                Body(c, g, n, tree) /\ b = Said(<<c, "comma">> \o g.text, Node("record", tree))
<1>1. b \in Classed <=>
        \/ \E c \in Classes : b = Said(<<c>>, Node("record", <<>>))
        \/ \E c \in Classes : \E g \in Results : b = Said(<<c, "comma">> \o g.text, Node("record", g.tree))
        \/ \E g \in Tuples :
             b = Said(<<"+download", "comma">> \o g.text, Node("record", <<Node("result", <<g.tree>>)>>))
  <2> DEFINE bare == {Said(<<c>>, Node("record", <<>>)) : c \in Classes}
             full == {Said(<<c, "comma">> \o g.text, Node("record", g.tree)) : c \in Classes, g \in Results}
             load == {Said(<<"+download", "comma">> \o g.text,
                           Node("record", <<Node("result", <<g.tree>>)>>)) : g \in Tuples}
  <2>1. b \in bare <=> \E c \in Classes : b = Said(<<c>>, Node("record", <<>>))
    BY Zenon
  <2>2. b \in full <=>
          \E c \in Classes : \E g \in Results : b = Said(<<c, "comma">> \o g.text, Node("record", g.tree))
    BY Z3
  <2>3. b \in load <=>
          \E g \in Tuples :
            b = Said(<<"+download", "comma">> \o g.text, Node("record", <<Node("result", <<g.tree>>)>>))
    BY Zenon
  <2>4. b \in Classed <=> b \in bare \/ b \in full \/ b \in load
    <3>1. Classed = bare \cup full \cup load
      BY DEF Classed
    <3> HIDE DEF bare, full, load
    <3> QED BY <3>1
  <2> HIDE DEF bare, full, load
  <2> QED BY <2>1, <2>2, <2>3, <2>4, Zenon
<1>2. "+download" \in Classes
  BY WordsAre
<1>3. ASSUME NEW c \in Classes, NEW g \in Results, b = Said(<<c, "comma">> \o g.text, Node("record", g.tree))
      PROVE  \E cc, gg, n, tree :
                Body(cc, gg, n, tree) /\ b = Said(<<cc, "comma">> \o gg.text, Node("record", tree))
  BY <1>3, ResultsAre, Zenon DEF Body
<1>4. ASSUME NEW g \in Tuples,
             b = Said(<<"+download", "comma">> \o g.text, Node("record", <<Node("result", <<g.tree>>)>>))
      PROVE  \E cc, gg, n, tree :
                Body(cc, gg, n, tree) /\ b = Said(<<cc, "comma">> \o gg.text, Node("record", tree))
  BY <1>2, <1>4, TuplesAre, Zenon DEF Body
<1>5. ASSUME NEW c, NEW g, NEW n, NEW tree, Body(c, g, n, tree),
             b = Said(<<c, "comma">> \o g.text, Node("record", tree))
      PROVE  \/ \E cc \in Classes : \E gg \in Results :
                  b = Said(<<cc, "comma">> \o gg.text, Node("record", gg.tree))
             \/ \E gg \in Tuples :
                  b = Said(<<"+download", "comma">> \o gg.text, Node("record", <<Node("result", <<gg.tree>>)>>))
  BY <1>5, ResultsAre, TuplesAre, Zenon DEF Body
<1> QED BY <1>1, <1>3, <1>4, <1>5, Zenon

LEMMA BodyShaped ==
  ASSUME NEW c, NEW g, NEW n, NEW tree, Body(c, g, n, tree)
  PROVE  /\ c \in Classes /\ n \in Nat /\ n > 0 /\ g.text \in Seq(Words) /\ Len(g.text) = n
         /\ g.text[1] \in {"str", "lbrace", "lbracket", "name"}
<1>0. n \in 0..MaxValue /\ MaxValue \in Nat /\ c \in Classes
  BY GrammarAssumption DEF Body
<1>1. Shaped(g, "value", n) \/ Shaped(g, "results", n)
  BY <1>0, GrammarShaped, LeadsAre DEF Body
<1> QED BY <1>0, <1>1, LeadsAre DEF Shaped

LEMMA BodyOccurs ==
  ASSUME NEW text, NEW i \in Nat, NEW c, NEW g, NEW n, NEW tree, Body(c, g, n, tree)
  PROVE  /\ <<c, "comma">> \o g.text \in Seq(Words) /\ Len(<<c, "comma">> \o g.text) = n + 2
         /\ (<<c, "comma">> \o g.text)[1] = c
         /\ Occurs(text, i, <<c, "comma">> \o g.text) <=>
              Peek(text, i) = c /\ Peek(text, i + 1) = "comma" /\ Occurs(text, i + 2, g.text)
<1>1. /\ c \in Classes /\ n \in Nat /\ n > 0 /\ g.text \in Seq(Words) /\ Len(g.text) = n
  BY BodyShaped
<1>2. c \in Words /\ "comma" \in Words
  BY <1>1, WordsAre
<1>3. PICK a, t : a = <<c, "comma">> /\ t = g.text
  OBVIOUS
<1>4. a \in Seq(Words) /\ Len(a) = 2 /\ a[1] = c
  BY <1>2, <1>3, TwoWords
<1>5. t \in Seq(Words) /\ Len(t) = n
  BY <1>1, <1>3
<1>6. /\ a \o t \in Seq(Words) /\ Len(a \o t) = Len(a) + Len(t)
      /\ \A j \in 1..Len(a) : (a \o t)[j] = a[j]
  BY <1>4, <1>5, Joined
<1>7. (a \o t)[1] = c
  <2>1. 1 \in 1..Len(a)
    BY <1>4
  <2> QED BY <1>4, <1>6, <2>1
<1>8. Len(a \o t) = n + 2
  BY <1>1, <1>4, <1>5, <1>6
<1>9. Occurs(text, i, a \o t) <=> Occurs(text, i, a) /\ Occurs(text, i + Len(a), t)
  BY <1>4, <1>5, OccursJoined
<1>10. Occurs(text, i, a) <=> Peek(text, i) = c /\ Peek(text, i + 1) = "comma"
  BY <1>2, <1>3, OccursTwo
<1> QED BY <1>3, <1>4, <1>6, <1>7, <1>8, <1>9, <1>10

LEMMA ClassedShaped ==
  ASSUME NEW b \in Classed
  PROVE  b.text \in Seq(Words) /\ Len(b.text) \in Nat /\ Len(b.text) > 0 /\ b.text[1] \in Classes
<1>1. CASE \E c \in Classes : b = Said(<<c>>, Node("record", <<>>))
  <2>1. PICK c \in Classes : b = Said(<<c>>, Node("record", <<>>))
    BY <1>1
  <2>2. b.text = <<c>> /\ c \in Words
    BY <2>1, SaidIs, WordsAre
  <2> QED BY <2>2, OneWord
<1>2. CASE \E c, g, n, tree :
             Body(c, g, n, tree) /\ b = Said(<<c, "comma">> \o g.text, Node("record", tree))
  <2>1. PICK c, g, n, tree :
          Body(c, g, n, tree) /\ b = Said(<<c, "comma">> \o g.text, Node("record", tree))
    BY <1>2
  <2>2. b.text = <<c, "comma">> \o g.text
    BY <2>1, SaidIs
  <2>3. PICK t : t = <<c, "comma">> \o g.text
    OBVIOUS
  <2>4. t \in Seq(Words) /\ Len(t) = n + 2 /\ t[1] = c /\ n \in Nat /\ c \in Classes
    BY <2>1, <2>3, BodyOccurs, BodyShaped
  <2> QED BY <2>2, <2>3, <2>4
<1> QED BY <1>1, <1>2, ClassedIs

\* b is the record of the text, after a token or without one.
Recorded(text, i, b) ==
  /\ b \in Classed /\ i \in {1, 2} /\ Occurs(text, i, b.text)
  /\ Len(text) = i - 1 + Len(b.text) /\ (i = 2 => text[1] = "digits")

LEMMA RecordCases ==
  ASSUME NEW text, IsText(text), text # <<"(gdb)">>, text # <<"~", "str">>
  PROVE  /\ HasClass(text) /\ Len(text) = ClassAt(text) =>
              ParseRecord(text) = Parsed(ClassAt(text) + 1, Node("record", <<>>))
         /\ HasClass(text) /\ Len(text) # ClassAt(text) /\ Peek(text, ClassAt(text) + 1) = "comma" =>
              ParseRecord(text) = ParseBody(text, ClassAt(text) + 2)
         /\ ~HasClass(text) \/ (Len(text) # ClassAt(text) /\ Peek(text, ClassAt(text) + 1) # "comma") =>
              ParseRecord(text) = Invalid
<1> DEFINE i == ClassAt(text)
           prompt == Parsed(2, Node("prompt", <<>>))
           console == Parsed(3, Node("stream", <<>>))
           r == Parsed(i + 1, Node("record", <<>>))
           d == ParseBody(text, i + 2)
           p == text = <<"(gdb)">>
           q == text = <<"~", "str">>
           bare == HasClass(text) /\ Len(text) = i
           full == HasClass(text) /\ Peek(text, i + 1) = "comma"
<1>0. ParseRecord(text) =
        CASE p -> prompt [] q -> console [] bare -> r [] full -> d [] OTHER -> Invalid
  BY Zenon DEF ParseRecord
<1>1. ~p /\ ~q
  OBVIOUS
<1>2. bare => ~full
  <2>1. Peek(text, Len(text) + 1) # "comma"
    BY Texted
  <2> QED BY <2>1
<1>3. /\ HasClass(text) /\ Len(text) = i => bare
      /\ HasClass(text) /\ Len(text) # i /\ Peek(text, i + 1) = "comma" => ~bare /\ full
      /\ ~HasClass(text) \/ (Len(text) # i /\ Peek(text, i + 1) # "comma") => ~bare /\ ~full
  OBVIOUS
<1>4. bare => ParseRecord(text) = r
  <2> HIDE DEF p, q, bare, full, r, d, prompt, console
  <2> QED BY <1>0, <1>1, <1>2
<1>5. ~bare /\ full => ParseRecord(text) = d
  <2> HIDE DEF p, q, bare, full, r, d, prompt, console
  <2> QED BY <1>0, <1>1
<1>6. ~bare /\ ~full => ParseRecord(text) = Invalid
  <2> HIDE DEF p, q, bare, full, r, d, prompt, console
  <2> QED BY <1>0, <1>1
<1> HIDE DEF p, q, bare, full, r, d, prompt, console
<1>7. /\ HasClass(text) /\ Len(text) = i => ParseRecord(text) = r
      /\ HasClass(text) /\ Len(text) # i /\ Peek(text, i + 1) = "comma" => ParseRecord(text) = d
      /\ ~HasClass(text) \/ (Len(text) # i /\ Peek(text, i + 1) # "comma") => ParseRecord(text) = Invalid
  BY <1>3, <1>4, <1>5, <1>6, Zenon
<1> QED BY <1>7, Zenon DEF r, d

LEMMA RecordedHasClass ==
  ASSUME NEW text, IsText(text), NEW i, NEW b, Recorded(text, i, b)
  PROVE  /\ i \in Nat /\ i = ClassAt(text) /\ HasClass(text) /\ Peek(text, i) = text[i] /\ text[i] = b.text[1]
         /\ text # <<"(gdb)">> /\ text # <<"~", "str">>
<1>0. Len(text) \in Nat /\ i \in Nat /\ \A j \in 1..Len(text) : Peek(text, j) = text[j]
  BY Texted DEF Recorded
<1>1. b.text \in Seq(Words) /\ Len(b.text) \in Nat /\ Len(b.text) > 0 /\ b.text[1] \in Classes
  BY ClassedShaped DEF Recorded
<1>2. PICK n : n = Len(b.text) /\ n \in Nat /\ n > 0 /\ Len(text) = i - 1 + n /\ (i = 1 \/ i = 2)
  BY <1>1 DEF Recorded
<1>3. \A j \in 1..n : b.text[j] \in Words
  BY <1>1, <1>2
<1>4. \A j \in 1..n : Peek(text, i + j - 1) = b.text[j]
  BY <1>2 DEF Recorded, Occurs
<1>5. Peek(text, i) = b.text[1] /\ Peek(text, i) = text[i]
  <2>1. 1 \in 1..n /\ i + 1 - 1 = i /\ i \in 1..Len(text)
    BY <1>0, <1>2
  <2> QED BY <1>0, <1>4, <2>1
<1>6. \A j \in 1..Len(text) : text[j] \in Words
  <2> SUFFICES ASSUME NEW j \in 1..Len(text) PROVE text[j] \in Words
    OBVIOUS
  <2>1. CASE j < i
    <3>1. j = 1 /\ i = 2
      BY <1>0, <1>2, <2>1
    <3> QED BY <3>1, WordsAre DEF Recorded
  <2>2. CASE ~(j < i)
    <3>1. PICK k : k = j - i + 1 /\ k \in 1..n /\ i + k - 1 = j
      BY <1>0, <1>2, <2>2
    <3> QED BY <1>0, <1>3, <1>4, <3>1
  <2> QED BY <2>1, <2>2
<1>7. ~Contains(text, "invalid-utf8")
  <2>1. "invalid-utf8" \notin Words
    BY WordsAre
  <2> QED BY <1>6, <2>1 DEF Contains
<1>8. text[1] \in Words /\ 1 \in 1..Len(text)
  BY <1>0, <1>2, <1>6
<1>9. ClassAt(text) = i
  <2>1. CASE i = 1
    BY <1>1, <1>5, <2>1, WordsAre DEF ClassAt
  <2>2. CASE i = 2
    BY <2>2 DEF ClassAt, Recorded
  <2> QED BY <1>2, <2>1, <2>2
<1>10. text # <<"(gdb)">> /\ text # <<"~", "str">>
  <2>1. text[1] # "(gdb)" /\ text[1] # "~"
    BY <1>8, WordsAre
  <2>2. <<"(gdb)">>[1] = "(gdb)" /\ <<"~", "str">>[1] = "~"
    OBVIOUS
  <2> QED BY <2>1, <2>2, Zenon
<1>11. text[1] # "overflow"
  BY <1>8, WordsAre
<1> QED BY <1>0, <1>1, <1>5, <1>7, <1>9, <1>10, <1>11 DEF HasClass

LEMMA BodyCases ==
  ASSUME NEW text, NEW i \in Nat, NEW v, v = Parse(text)[i + 2]["value"],
         NEW r, r = Parse(text)[i + 2]["body"], NEW bare \in BOOLEAN,
         bare <=> text[i] = "+download" /\ Peek(text, i + 2) = "lbrace"
  PROVE  /\ bare /\ v.at = Len(text) + 1 =>
              ParseBody(text, i + 2) = Parsed(v.at, Node("record", <<Node("result", <<v.tree>>)>>))
         /\ ~bare /\ r.at = Len(text) + 1 => ParseBody(text, i + 2) = Parsed(r.at, Node("record", r.tree))
         /\ bare /\ v.at # Len(text) + 1 => ParseBody(text, i + 2) = Invalid
         /\ ~bare /\ r.at # Len(text) + 1 => ParseBody(text, i + 2) = Invalid
<1> DEFINE whole == Parsed(v.at, <<Node("result", <<v.tree>>)>>)
           s == IF bare THEN whole ELSE r
<1>1. i + 2 - 2 = i
  OBVIOUS
<1>2. ParseBody(text, i + 2) =
        IF s.at = Len(text) + 1 THEN Parsed(s.at, Node("record", s.tree)) ELSE Invalid
  BY <1>1 DEF ParseBody
<1>3. whole.at = v.at /\ whole.tree = <<Node("result", <<v.tree>>)>>
  BY ParsedIs
<1>4. (bare => s = whole) /\ (~bare => s = r)
  OBVIOUS
<1> HIDE DEF s, whole
<1> QED BY <1>2, <1>3, <1>4

LEMMA BodyRead ==
  ASSUME NEW text, IsText(text), NEW i \in Nat, i > 0, NEW c, NEW g, NEW n, NEW tree, Body(c, g, n, tree),
         Peek(text, i) = c, Occurs(text, i + 2, g.text), Len(text) = i + n + 1
  PROVE  ParseBody(text, i + 2) = Parsed(Len(text) + 1, Node("record", tree))
<1>0. /\ n \in 0..MaxValue /\ MaxValue \in Nat /\ n \in Nat /\ Len(text) \in Nat
      /\ i + 2 \in 1..(Len(text) + 1) /\ i + 2 + n = Len(text) + 1 /\ i + 2 \in Nat
      /\ n + 1 \in Nat /\ n < n + 1
  BY GrammarAssumption DEF Body, IsText
<1>1. text[i] = c
  <2>1. i \in 1..Len(text)
    BY <1>0
  <2> QED BY <2>1, Texted
<1>2. ReadsBelow(text, n + 1)
  BY <1>0, ParserReads
<1>3. Peek(text, i + 2 + n) = "none"
  BY <1>0, Texted
<1>4. Peek(text, i + 2) = g.text[1]
  <2>1. Len(g.text) \in Nat /\ Len(g.text) > 0
    BY BodyShaped
  <2> QED BY <1>0, <2>1, OccursFirst
<1>5. PICK v, r : v = Parse(text)[i + 2]["value"] /\ r = Parse(text)[i + 2]["body"]
  OBVIOUS
<1>6. CASE g \in Grammar[n]["results"] /\ tree = g.tree
  <2>1. Shaped(g, "results", n)
    BY <1>0, <1>6, GrammarShaped, LeadsAre
  <2>2. g.text[1] = "name"
    BY <2>1, LeadsAre DEF Shaped
  <2>3. "body" \in Forms /\ g \in Grammar[n][FormOf["body"]] /\ Ready(text, "body", i + 2, n)
    BY <1>3, <1>6, FormsAre, FormOfIs, TerminatorsAre DEF Ready
  <2>4. r = Parsed(i + 2 + n, g.tree)
    BY <1>0, <1>2, <1>5, <2>3 DEF ReadsBelow
  <2>5. r.at = Len(text) + 1 /\ r.tree = tree
    BY <1>0, <1>6, <2>4, ParsedIs
  <2>6. ~(text[i] = "+download" /\ Peek(text, i + 2) = "lbrace")
    BY <1>4, <2>2
  <2> QED BY <1>5, <2>5, <2>6, BodyCases
<1>7. CASE /\ c = "+download" /\ g \in Grammar[n]["value"] /\ g.tree.kind = "tuple"
           /\ tree = <<Node("result", <<g.tree>>)>>
  <2>1. Shaped(g, "value", n)
    BY <1>0, <1>7, GrammarShaped, LeadsAre
  <2>2. g.text[1] = "lbrace"
    BY <1>7, <2>1 DEF Shaped
  <2>3. "value" \in Forms /\ g \in Grammar[n][FormOf["value"]] /\ Ready(text, "value", i + 2, n)
    BY <1>7, FormsAre, FormOfIs DEF Ready
  <2>4. v = Parsed(i + 2 + n, g.tree)
    BY <1>0, <1>2, <1>5, <2>3 DEF ReadsBelow
  <2>5. v.at = Len(text) + 1 /\ v.tree = g.tree
    BY <1>0, <2>4, ParsedIs
  <2>6. text[i] = "+download" /\ Peek(text, i + 2) = "lbrace"
    BY <1>1, <1>4, <1>7, <2>2
  <2>7. ParseBody(text, i + 2) = Parsed(v.at, Node("record", <<Node("result", <<v.tree>>)>>))
    BY <1>5, <2>5, <2>6, BodyCases
  <2> QED BY <1>7, <2>5, <2>7
<1> QED BY <1>6, <1>7 DEF Body

LEMMA BodyFound ==
  ASSUME NEW text, IsText(text), Len(text) <= MaxValue + 2, NEW i \in Nat, i > 0,
         NEW c \in Classes, Peek(text, i) = c, Peek(text, i + 1) = "comma", ParseBody(text, i + 2).at # 0
  PROVE  \E g, n, tree : /\ Body(c, g, n, tree) /\ Occurs(text, i + 2, g.text)
                         /\ n \in Nat /\ Len(text) = i + n + 1
<1>1. Len(text) \in Nat /\ i + 1 \in 1..Len(text) /\ i \in 1..Len(text) /\ text[i] = c
  <2>1. Len(text) \in Nat /\ i + 1 \in 1..Len(text)
    BY Peeked
  <2>2. i \in 1..Len(text)
    BY <2>1
  <2> QED BY <2>1, <2>2, Texted
<1>2. PICK n \in Nat : /\ n \in 0..MaxValue /\ Len(text) = i + n + 1 /\ Len(text) + 1 - (i + 2) = n
                       /\ i + 2 \in 1..(Len(text) + 1) /\ i + 2 \in Nat /\ Len(text) + 1 # 0 /\ n <= MaxValue
  <2>1. Len(text) - i - 1 \in Nat /\ Len(text) - i - 1 \in 0..MaxValue
    BY <1>1, GrammarAssumption
  <2> QED BY <1>1, <2>1
<1>3. PICK v, r : v = Parse(text)[i + 2]["value"] /\ r = Parse(text)[i + 2]["body"]
  OBVIOUS
<1>4. Found(text, "value", i + 2, v.at) /\ Found(text, "results", i + 2, r.at)
  BY <1>2, <1>3, ParserFinds, FormsAre, FormOfIs
<1>5. ParseBody(text, i + 2) # Invalid
  BY ParsedIs
<1>6. PICK bare \in BOOLEAN : bare <=> text[i] = "+download" /\ Peek(text, i + 2) = "lbrace"
  OBVIOUS
<1>7. (bare => v.at = Len(text) + 1) /\ (~bare => r.at = Len(text) + 1)
  <2>1. /\ bare /\ v.at # Len(text) + 1 => ParseBody(text, i + 2) = Invalid
        /\ ~bare /\ r.at # Len(text) + 1 => ParseBody(text, i + 2) = Invalid
    BY <1>3, <1>6, BodyCases
  <2> QED BY <1>5, <2>1
<1>8. CASE bare
  <2>1. v.at = Len(text) + 1
    BY <1>7, <1>8
  <2>2. PICK g \in Grammar[n]["value"] : Occurs(text, i + 2, g.text)
    BY <1>2, <1>4, <2>1 DEF Found
  <2>3. Shaped(g, "value", n)
    BY <1>2, GrammarShaped, LeadsAre
  <2>4. g.text[1] = "lbrace"
    <3>1. Len(g.text) \in Nat /\ Len(g.text) > 0
      BY <2>3 DEF Shaped
    <3> QED BY <1>2, <1>6, <1>8, <2>2, <3>1, OccursFirst
  <2>5. g.tree.kind = "tuple"
    BY <2>3, <2>4 DEF Shaped
  <2>6. Body(c, g, n, <<Node("result", <<g.tree>>)>>)
    BY <1>1, <1>2, <1>6, <1>8, <2>5 DEF Body
  <2> QED BY <1>2, <2>2, <2>6
<1>9. CASE ~bare
  <2>1. r.at = Len(text) + 1
    BY <1>7, <1>9
  <2>2. PICK g \in Grammar[n]["results"] : Occurs(text, i + 2, g.text)
    BY <1>2, <1>4, <2>1 DEF Found
  <2>3. Body(c, g, n, g.tree)
    BY <1>2 DEF Body
  <2> QED BY <1>2, <2>2, <2>3
<1> QED BY <1>8, <1>9

\* Every record of the grammar is parsed, as its tree.
LEMMA RecordRead ==
  ASSUME NEW text, IsText(text), NEW i, NEW b, Recorded(text, i, b)
  PROVE  ParseRecord(text) = Parsed(Len(text) + 1, b.tree) /\ Len(text) \in Nat
<1>1. /\ i \in Nat /\ i = ClassAt(text) /\ HasClass(text) /\ Peek(text, i) = text[i] /\ text[i] = b.text[1]
      /\ text # <<"(gdb)">> /\ text # <<"~", "str">>
  BY RecordedHasClass
<1>2. Len(text) \in Nat
  BY Texted
<1>3. i > 0 /\ Occurs(text, i, b.text) /\ Len(text) = i - 1 + Len(b.text) /\ b \in Classed
  BY DEF Recorded
<1>4. CASE \E c \in Classes : b = Said(<<c>>, Node("record", <<>>))
  <2>1. PICK c \in Classes : b = Said(<<c>>, Node("record", <<>>))
    BY <1>4
  <2>2. b.text = <<c>> /\ b.tree = Node("record", <<>>)
    BY <2>1, SaidIs
  <2>3. Len(b.text) = 1
    BY <2>2
  <2>4. Len(text) = i
    BY <1>1, <1>3, <2>3
  <2> QED BY <1>1, <1>2, <2>2, <2>4, RecordCases
<1>5. CASE \E c, g, n, tree :
             Body(c, g, n, tree) /\ b = Said(<<c, "comma">> \o g.text, Node("record", tree))
  <2>1. PICK c, g, n, tree :
          Body(c, g, n, tree) /\ b = Said(<<c, "comma">> \o g.text, Node("record", tree))
    BY <1>5
  <2>2. b.text = <<c, "comma">> \o g.text /\ b.tree = Node("record", tree)
    BY <2>1, SaidIs
  <2>3. Len(b.text) = n + 2 /\ n \in Nat
    BY <2>1, <2>2, BodyOccurs, BodyShaped
  <2>4. Peek(text, i) = c /\ Peek(text, i + 1) = "comma" /\ Occurs(text, i + 2, g.text)
    <3>1. Occurs(text, i, <<c, "comma">> \o g.text)
      BY <1>3, <2>2
    <3>2. Occurs(text, i, <<c, "comma">> \o g.text) =>
            Peek(text, i) = c /\ Peek(text, i + 1) = "comma" /\ Occurs(text, i + 2, g.text)
      BY <1>1, <2>1, BodyOccurs
    <3> QED BY <3>1, <3>2, Zenon
  <2>5. Len(text) = i + n + 1 /\ Len(text) # i
    BY <1>1, <1>3, <2>3
  <2>6. ParseRecord(text) = ParseBody(text, i + 2)
    BY <1>1, <2>4, <2>5, RecordCases
  <2>7. ParseBody(text, i + 2) = Parsed(Len(text) + 1, Node("record", tree))
    BY <1>1, <1>3, <2>1, <2>4, <2>5, BodyRead
  <2> QED BY <1>2, <2>2, <2>6, <2>7
<1> QED BY <1>3, <1>4, <1>5, ClassedIs

\* What is parsed is a record of the grammar, the prompt or console output.
LEMMA RecordFound ==
  ASSUME NEW text, IsText(text), Len(text) > 0, Len(text) <= MaxValue + 2, ParseRecord(text).at # 0,
         text # <<"(gdb)">>, text # <<"~", "str">>
  PROVE  \E i, b : Recorded(text, i, b)
<1>0. Len(text) \in Nat
  BY Texted
<1>1. PICK i : i = ClassAt(text) /\ i \in {1, 2} /\ i \in Nat /\ i > 0
  BY DEF ClassAt
<1>2. HasClass(text) /\ (Len(text) = i \/ Peek(text, i + 1) = "comma")
  BY <1>1, RecordCases, ParsedIs
<1>3. PICK c \in Classes : c = Peek(text, i)
  BY <1>1, <1>2 DEF HasClass
<1>4. i = 2 => text[1] = "digits"
  BY <1>1, <1>2 DEF HasClass, ClassAt
<1>5. c \in Words
  BY WordsAre
<1>6. CASE Len(text) = i
  <2>1. PICK b : b = Said(<<c>>, Node("record", <<>>))
    OBVIOUS
  <2>2. b \in Classed
    BY <2>1, ClassedIs
  <2>3. b.text = <<c>>
    BY <2>1, SaidIs
  <2>4. Len(b.text) = 1 /\ Occurs(text, i, b.text)
    BY <1>1, <1>3, <1>5, <2>3, OccursWord
  <2>5. Len(text) = i - 1 + Len(b.text)
    BY <1>1, <1>6, <2>4
  <2> QED BY <1>1, <1>4, <2>2, <2>4, <2>5 DEF Recorded
<1>7. CASE Len(text) # i /\ Peek(text, i + 1) = "comma"
  <2>1. ParseBody(text, i + 2).at # 0
    BY <1>1, <1>2, <1>7, RecordCases
  <2>2. PICK g, n, tree : /\ Body(c, g, n, tree) /\ Occurs(text, i + 2, g.text)
                          /\ n \in Nat /\ Len(text) = i + n + 1
    BY <1>1, <1>3, <1>7, <2>1, BodyFound
  <2>3. PICK b : b = Said(<<c, "comma">> \o g.text, Node("record", tree))
    OBVIOUS
  <2>4. b \in Classed
    BY <2>2, <2>3, ClassedIs, Zenon
  <2>5. b.text = <<c, "comma">> \o g.text
    BY <2>3, SaidIs
  <2>6. Len(b.text) = n + 2 /\ Occurs(text, i, b.text)
    BY <1>1, <1>3, <1>7, <2>2, <2>5, BodyOccurs
  <2>7. Len(text) = i - 1 + Len(b.text)
    BY <1>1, <2>2, <2>6
  <2> QED BY <1>1, <1>4, <2>4, <2>6, <2>7 DEF Recorded
<1> QED BY <1>2, <1>6, <1>7
-----------------------------------------------------------------------------
\* All the documents.
LEMMA DocumentsAre ==
  ASSUME NEW d
  PROVE  d \in Documents <=>
           \/ d = Said(<<"(gdb)">>, Node("prompt", <<>>))
           \/ d = Said(<<"~", "str">>, Node("stream", <<>>))
           \/ d \in Classed
           \/ \E b \in Classed : d = Said(<<"digits">> \o b.text, b.tree)
BY Zenon DEF Documents

\* The prompt and the console's output are no records.
LEMMA FixedParsed ==
  /\ ParseRecord(<<"(gdb)">>) = Parsed(2, Node("prompt", <<>>))
  /\ ParseRecord(<<"~", "str">>) = Parsed(3, Node("stream", <<>>))
<1>1. ~HasClass(<<"(gdb)">>)
  <2>1. ClassAt(<<"(gdb)">>) = 1 /\ Peek(<<"(gdb)">>, 1) = "(gdb)"
    BY DEF ClassAt, Peek
  <2> QED BY <2>1 DEF HasClass, Classes
<1>2. ~HasClass(<<"~", "str">>)
  <2>1. ClassAt(<<"~", "str">>) = 1 /\ Peek(<<"~", "str">>, 1) = "~"
    BY DEF ClassAt, Peek
  <2> QED BY <2>1 DEF HasClass, Classes
<1>3. <<"(gdb)">> # <<"~", "str">>
  <2>1. Len(<<"(gdb)">>) = 1 /\ Len(<<"~", "str">>) = 2
    OBVIOUS
  <2> QED BY <2>1
<1>4. ParseRecord(<<"(gdb)">>) = Parsed(2, Node("prompt", <<>>))
  BY <1>1, <1>3 DEF ParseRecord
<1>5. ParseRecord(<<"~", "str">>) = Parsed(3, Node("stream", <<>>))
  BY <1>2, <1>3 DEF ParseRecord
<1> QED BY <1>4, <1>5

LEMMA TokenRecorded ==
  ASSUME NEW text, IsText(text), NEW b \in Classed
  PROVE  /\ text = b.text <=> Recorded(text, 1, b)
         /\ text = <<"digits">> \o b.text <=> Recorded(text, 2, b)
<1>0. /\ Len(text) \in Nat /\ \A j \in 1..Len(text) : Peek(text, j) = text[j]
  BY Texted
<1>1. b.text \in Seq(Words) /\ Len(b.text) \in Nat /\ Len(b.text) > 0
  BY ClassedShaped
<1>2. PICK w : w = b.text
  OBVIOUS
<1>3. PICK o : o = <<"digits">>
  OBVIOUS
<1>4. PICK u : u = o \o w
  OBVIOUS
<1>5. o \in Seq(Words) /\ Len(o) = 1 /\ o[1] = "digits" /\ "digits" \in Words
  BY <1>3, WordsAre, OneWord
<1>6. w \in Seq(Words) /\ Len(w) \in Nat
  BY <1>1, <1>2
<1>7. u \in Seq(Words) /\ Len(u) = 1 + Len(w) /\ Len(u) \in Nat
  <2>1. u \in Seq(Words) /\ Len(u) = Len(o) + Len(w)
    BY <1>4, <1>5, <1>6, Joined
  <2> QED BY <1>5, <1>6, <2>1
<1>8. \A s \in Seq(Words) : text = s => Occurs(text, 1, s)
  <2> SUFFICES ASSUME NEW s \in Seq(Words), text = s, NEW j \in 1..Len(s) PROVE Peek(text, 1 + j - 1) = s[j]
    BY DEF Occurs
  <2>1. 1 + j - 1 = j
    OBVIOUS
  <2> QED BY <1>0, <2>1
<1>9. Occurs(text, 1, u) <=> Peek(text, 1) = "digits" /\ Occurs(text, 2, w)
  <2>1. Occurs(text, 1, u) <=> Occurs(text, 1, o) /\ Occurs(text, 1 + Len(o), w)
    BY <1>4, <1>5, <1>6, OccursJoined
  <2>2. 1 + Len(o) = 2
    BY <1>5
  <2>3. Occurs(text, 1, o) <=> Peek(text, 1) = "digits"
    BY <1>3, <1>5, OccursWord
  <2> QED BY <2>1, <2>2, <2>3
<1>10. text = w <=> Occurs(text, 1, w) /\ Len(text) = Len(w)
  BY <1>6, <1>8, SameText
<1>11. text = u <=> Occurs(text, 1, u) /\ Len(text) = Len(u)
  BY <1>7, <1>8, SameText
<1>12. Len(text) = Len(u) => Peek(text, 1) = text[1]
  <2>1. Len(text) = Len(u) => 1 \in 1..Len(text)
    BY <1>0, <1>6, <1>7
  <2> QED BY <1>0, <2>1
<1>13. text = w <=> Recorded(text, 1, b)
  <2>1. 1 - 1 + Len(w) = Len(w) /\ 1 # 2
    BY <1>6
  <2>2. Recorded(text, 1, b) <=> Occurs(text, 1, w) /\ Len(text) = Len(w)
    BY <1>2, <2>1 DEF Recorded
  <2> QED BY <1>10, <2>2
<1>14. text = u <=> Recorded(text, 2, b)
  <2>1. 2 - 1 + Len(w) = Len(u)
    BY <1>6, <1>7
  <2>2. Recorded(text, 2, b) <=> Occurs(text, 2, w) /\ Len(text) = Len(u) /\ text[1] = "digits"
    BY <1>2, <2>1 DEF Recorded
  <2> QED BY <1>9, <1>11, <1>12, <2>2
<1> QED BY <1>2, <1>3, <1>4, <1>13, <1>14

LEMMA DocumentRead ==
  ASSUME NEW d \in Documents, IsText(d.text)
  PROVE  ParseRecord(d.text).at # 0 /\ ParseRecord(d.text).tree = d.tree
<1>1. CASE d = Said(<<"(gdb)">>, Node("prompt", <<>>))
  BY <1>1, SaidIs, FixedParsed, ParsedIs
<1>2. CASE d = Said(<<"~", "str">>, Node("stream", <<>>))
  BY <1>2, SaidIs, FixedParsed, ParsedIs
<1>3. ASSUME NEW text, text = d.text, NEW i, NEW b, Recorded(text, i, b), d.tree = b.tree
      PROVE  ParseRecord(d.text).at # 0 /\ ParseRecord(d.text).tree = d.tree
  <2>1. ParseRecord(text) = Parsed(Len(text) + 1, b.tree) /\ Len(text) \in Nat
    BY <1>3, RecordRead
  <2>2. Len(text) + 1 # 0
    BY <2>1
  <2> QED BY <1>3, <2>1, <2>2, ParsedIs
<1>4. CASE d \in Classed
  BY <1>3, <1>4, TokenRecorded
<1>5. ASSUME NEW b \in Classed, d = Said(<<"digits">> \o b.text, b.tree)
      PROVE  ParseRecord(d.text).at # 0 /\ ParseRecord(d.text).tree = d.tree
  <2>1. PICK text : text = d.text
    OBVIOUS
  <2>2. text = <<"digits">> \o b.text /\ d.tree = b.tree
    BY <1>5, <2>1, SaidIs
  <2>3. Recorded(text, 2, b)
    BY <2>1, <2>2, TokenRecorded
  <2> QED BY <1>3, <2>1, <2>2, <2>3
<1> QED BY <1>1, <1>2, <1>4, <1>5, DocumentsAre

\* Of all the lines that are not too long, the code's recursive descent accepts
\* those that are records of the grammar, and no other; what it returns is the tree
\* that the record has there.
THEOREM ParsesTheGrammar ==
  ASSUME NEW text, IsText(text), Len(text) > 0, Len(text) <= MaxValue + 2
  PROVE  /\ ParseRecord(text).at # 0 <=> text \in Texts
         /\ text \in Texts => TreeOf[text] = ParseRecord(text).tree
<1>1. ASSUME text \in Texts
      PROVE  ParseRecord(text).at # 0 /\ TreeOf[text] = ParseRecord(text).tree
  <2>1. \E d \in Documents : d.text = text
    BY <1>1 DEF Texts
  <2>2. PICK d : d = CHOOSE e \in Documents : e.text = text
    OBVIOUS
  <2>3. d \in Documents /\ d.text = text
    BY <2>1, <2>2
  <2>4. ParseRecord(text).at # 0 /\ ParseRecord(text).tree = d.tree
    BY <2>3, DocumentRead
  <2>5. TreeOf[text] = d.tree
    BY <1>1, <2>2 DEF TreeOf
  <2> QED BY <2>4, <2>5
<1>2. ASSUME ParseRecord(text).at # 0
      PROVE  text \in Texts
  <2>1. SUFFICES \E d \in Documents : d.text = text
    BY DEF Texts
  <2>2. CASE text = <<"(gdb)">>
    <3>1. PICK d : d = Said(<<"(gdb)">>, Node("prompt", <<>>))
      OBVIOUS
    <3> QED BY <2>2, <3>1, SaidIs, DocumentsAre
  <2>3. CASE text = <<"~", "str">>
    <3>1. PICK d : d = Said(<<"~", "str">>, Node("stream", <<>>))
      OBVIOUS
    <3> QED BY <2>3, <3>1, SaidIs, DocumentsAre
  <2>4. CASE text # <<"(gdb)">> /\ text # <<"~", "str">>
    <3>1. PICK i, b : Recorded(text, i, b)
      BY <1>2, <2>4, RecordFound
    <3>2. b \in Classed /\ (i = 1 \/ i = 2)
      BY <3>1 DEF Recorded
    <3>3. CASE i = 1
      BY <3>1, <3>2, <3>3, TokenRecorded, DocumentsAre
    <3>4. CASE i = 2
      <4>1. text = <<"digits">> \o b.text
        BY <3>1, <3>2, <3>4, TokenRecorded
      <4>2. PICK d : d = Said(<<"digits">> \o b.text, b.tree)
        OBVIOUS
      <4>3. d \in Documents
        BY <3>2, <4>2, DocumentsAre
      <4> QED BY <4>1, <4>2, <4>3, SaidIs
    <3> QED BY <3>2, <3>3, <3>4
  <2> QED BY <2>2, <2>3, <2>4
<1> QED BY <1>1, <1>2
-----------------------------------------------------------------------------
\* The stream again: its lines are texts, short enough for the grammar.
\* A line begins after the last newline before its own.
LEMMA StartOf ==
  ASSUME NEW e \in Nat, e > 0
  PROVE  Start(e) \in 1..e
<1> DEFINE S == {k \in 0..(e - 1) : k = e - 1 \/ stream[e - 1 - k] = "\n"}
<1>1. e - 1 \in S /\ S \subseteq Nat
  OBVIOUS
<1>2. PICK k \in S : \A j \in S : k <= j
  BY <1>1, NatHasLeast
<1>3. PICK t : t = e - 1 - k
  OBVIOUS
<1>4. k \in 0..(e - 1) /\ t \in Nat /\ t < e /\ (t = 0 \/ stream[t] = "\n")
  BY <1>2, <1>3
<1>5. \A i \in (t + 1)..(e - 1) : stream[i] # "\n"
  <2> SUFFICES ASSUME NEW i \in (t + 1)..(e - 1), stream[i] = "\n" PROVE FALSE
    OBVIOUS
  <2>1. PICK j : j = e - 1 - i /\ j \in 0..(e - 1) /\ e - 1 - j = i /\ j < k
    BY <1>3, <1>4
  <2>2. j \in S
    BY <2>1
  <2> QED BY <1>2, <1>4, <2>1, <2>2
<1>6. NoEnd(t, e - 1)
  BY <1>5 DEF NoEnd
<1>7. Start(e) = t + 1
  BY <1>4, <1>6, StartIsNext
<1> QED BY <1>4, <1>7

\* What push cuts off is what was written.
LEMMA LineIs ==
  ASSUME Typed, NEW e \in 1..pos
  PROVE  /\ Line(e) = Written(e) /\ IsText(Line(e))
         /\ Len(Line(e)) \in Nat /\ e \in Nat /\ Start(e) \in Nat /\ Len(Line(e)) <= e - Start(e)
<1>0. e \in Nat /\ e > 0 /\ e <= Len(stream) /\ Len(stream) \in Nat /\ stream \in Seq(Tokens)
  BY DEF Typed
<1>1. PICK b \in 1..e : b = Start(e)
  BY <1>0, StartOf
<1>2. PICK p : p = SubSeq(stream, b, e - 1)
  OBVIOUS
<1>3. PICK t \in Nat : b = t + 1 /\ t <= e - 1
  <2>1. b - 1 \in Nat /\ b = (b - 1) + 1 /\ b - 1 <= e - 1
    BY <1>0
  <2> QED BY <2>1
<1>4. PICK n \in Nat : n = e - 1 /\ n <= Len(stream) /\ n - t \in Nat /\ n - t = e - b
  BY <1>0, <1>3
<1>5. /\ p \in Seq(Tokens) /\ Len(p) = n - t /\ \A j \in 1..(n - t) : p[j] = stream[t + j]
  BY <1>0, <1>2, <1>3, <1>4
<1>6. p # <<>> <=> e > b
  <2>1. p # <<>> <=> Len(p) # 0
    BY <1>5
  <2> QED BY <1>0, <1>4, <1>5, <2>1
<1>7. e > b => Last(p) = stream[e - 1] /\ Front(p) = SubSeq(stream, b, e - 2)
  <2> SUFFICES ASSUME e > b
               PROVE  Last(p) = stream[e - 1] /\ Front(p) = SubSeq(stream, b, e - 2)
    OBVIOUS
  <2>1. PICK i : i = n - t /\ i \in 1..(n - t) /\ t + i = e - 1 /\ t + i - 1 = e - 2
    BY <1>0, <1>4, <1>3
  <2>2. SubSeq(p, 1, i - 1) = SubSeq(stream, t + 1, t + i - 1)
    BY <1>0, <1>2, <1>3, <1>4, <2>1, PartOfPart
  <2>3. Len(p) = i /\ p[i] = stream[e - 1]
    BY <1>5, <2>1
  <2> QED BY <1>3, <2>1, <2>2, <2>3 DEF Last, Front
<1>8. Line(e) = IF p # <<>> /\ Last(p) = "\r" THEN Front(p) ELSE p
  BY <1>1, <1>2 DEF Line, WithoutReturn
<1>9. Written(e) = SubSeq(stream, b, IF e > b /\ stream[e - 1] = "\r" THEN e - 2 ELSE e - 1)
  BY <1>1 DEF Written
<1>10. CASE e > b /\ stream[e - 1] = "\r"
  <2>1. Line(e) = SubSeq(stream, b, e - 2) /\ Written(e) = SubSeq(stream, b, e - 2)
    BY <1>6, <1>7, <1>8, <1>9, <1>10
  <2>2. /\ SubSeq(stream, b, e - 2) \in Seq(Tokens) /\ Len(SubSeq(stream, b, e - 2)) = e - 2 - b + 1
    BY <1>0, <1>10
  <2>3. Len(Line(e)) = e - b - 1 /\ e - b - 1 \in Nat /\ e - b - 1 <= e - b
    BY <1>0, <1>10, <2>1, <2>2
  <2> QED BY <1>0, <1>1, <2>1, <2>2, <2>3 DEF IsText
<1>11. CASE ~(e > b /\ stream[e - 1] = "\r")
  <2>1. Line(e) = p /\ Written(e) = p
    BY <1>2, <1>6, <1>7, <1>8, <1>9, <1>11
  <2>2. Len(Line(e)) \in Nat /\ Len(Line(e)) <= e - b
    BY <1>4, <1>5, <2>1
  <2> QED BY <1>0, <1>1, <1>5, <2>1, <2>2 DEF IsText
<1> QED BY <1>10, <1>11

\* A line that is not too long is in the grammar if it is parsed, as what is parsed.
LEMMA LineRead ==
  ASSUME Typed, NEW e \in Ends(pos), e - Start(e) <= MaxRecord
  PROVE  /\ Line(e) = <<>> => Written(e) = <<>>
         /\ Line(e) # <<>> =>
              /\ ParseRecord(Line(e)).at # 0 <=> Written(e) \in Texts
              /\ Written(e) \in Texts => TreeOf[Written(e)] = ParseRecord(Line(e)).tree
              /\ Written(e) # <<>>
<1>1. e \in 1..pos
  BY DEF Ends
<1>2. PICK text : text = Line(e)
  OBVIOUS
<1>3. /\ text = Written(e) /\ IsText(text) /\ Len(text) \in Nat /\ e \in Nat /\ Start(e) \in Nat
      /\ Len(text) <= e - Start(e)
  BY <1>1, <1>2, LineIs
<1>4. Len(text) <= MaxValue + 2
  BY <1>3, GrammarAssumption, StreamAssumption
<1>5. text # <<>> => Len(text) > 0
  BY <1>3 DEF IsText
<1>6. text # <<>> =>
        /\ ParseRecord(text).at # 0 <=> text \in Texts
        /\ text \in Texts => TreeOf[text] = ParseRecord(text).tree
  BY <1>3, <1>4, <1>5, ParsesTheGrammar
<1> QED BY <1>2, <1>3, <1>6

LEMMA LinesRead ==
  ASSUME Typed, SendsWholeLines
  PROVE  ReadsWhatGdbWrote
<1>1. ASSUME NEW e \in Ends(pos), Good(e)
      PROVE  /\ Line(e) # <<>> => Written(e) \in Texts /\ TreeOf[Written(e)] = ParseRecord(Line(e)).tree
             /\ Written(e) \in Texts \cup {<<>>}
  BY <1>1, LineRead DEF Good
<1>2. ASSUME NEW i \in DOMAIN sent
      PROVE  Written(sent[i].end) \in Texts /\ sent[i].tree = TreeOf[Written(sent[i].end)]
  <2>1. PICK e : e = sent[i].end
    OBVIOUS
  <2>2. e \in Ends(pos) /\ Good(e) /\ Line(e) # <<>> /\ sent[i].tree = ParseRecord(Line(e)).tree
    BY <2>1 DEF SendsWholeLines
  <2> QED BY <1>1, <2>1, <2>2
<1>3. ASSUME Settled, NEW e \in Ends(pos)
      PROVE  Written(e) \in Texts \cup {<<>>}
  BY <1>1, <1>3 DEF SendsWholeLines
<1>4. ASSUME error = "invalid"
      PROVE  \E e \in Ends(pos) : Written(e) \notin Texts \cup {<<>>}
  <2>1. PICK b \in 1..pos : StopsAt(b)
    BY <1>4 DEF SendsWholeLines
  <2>2. PICK e \in Ends(pos) : Start(e) = b /\ ~Good(e) /\ e - b <= MaxRecord
    BY <1>4, <2>1 DEF StopsAt
  <2>3. e - Start(e) <= MaxRecord /\ Line(e) # <<>> /\ ParseRecord(Line(e)).at = 0
    BY <2>2 DEF Good
  <2>4. Written(e) \notin Texts /\ Written(e) # <<>>
    BY <2>3, LineRead
  <2> QED BY <2>4
<1> QED BY <1>2, <1>3, <1>4 DEF ReadsWhatGdbWrote

\* However GDB's output is cut into chunks, the session gets what GDB wrote: every
\* record as the tree that it stands for, none that GDB did not write; and it is
\* stopped by a line that is no record, not by one that is.
THEOREM GdbIsRead == Spec => []ReadsWhatGdbWrote
<1>1. Init => FrameInv
  BY FrameInit
<1>2. FrameInv /\ [Next]_vars => FrameInv'
  BY FrameStep
<1>3. FrameInv => ReadsWhatGdbWrote
  BY FrameImplies, LinesRead DEF FrameInv
<1> QED BY <1>1, <1>2, <1>3, PTL DEF Spec
=============================================================================
