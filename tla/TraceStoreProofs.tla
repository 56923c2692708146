---------------------------- MODULE TraceStoreProofs ----------------------------
(******************************************************************************)
(* Proofs about the trace store, for any number of processes, runs and days and *)
(* for any digest function.                                                     *)
(******************************************************************************)
EXTENDS TraceStore, SequenceTheorems, TLAPS

--------------------------------------------------------------------------------
(* Lines and files.                                                           *)

\* The line record() writes is a line of a file, whatever the digest.
LEMMA LineType ==
  ASSUME NEW r \in Runs, NEW p \in Digests
  PROVE  /\ Line(r, p) \in Lines
         /\ Line(r, p).json = TRUE
         /\ Line(r, p).run = r
         /\ Line(r, p).prev = p
         /\ Line(r, p).hash = Digest[<<r, p>>]
BY DigestType, GenesisIsDigest DEF Line, Lines

\* A line that parses is a record with a digest in it.
LEMMA ParsedLine ==
  ASSUME NEW l \in Lines, l.json
  PROVE  l \in [json : {TRUE}, run : Runs, prev : Digests, hash : Digests]
<1>1. l # Damaged
  <2>1. ~Damaged.json
    BY DEF Damaged
  <2> QED
    BY <2>1, Zenon
<1> QED
  BY <1>1 DEF Lines

\* _last_hash answers a digest on every file whose last line parses.
LEMMA LastHashType ==
  ASSUME NEW f \in Seq(Lines), Readable(f)
  PROVE  LastHash(f) \in Digests
<1>1. CASE f = <<>>
  BY <1>1, GenesisIsDigest DEF LastHash
<1>2. CASE f # <<>>
  <2>1. Len(f) \in 1 .. Len(f)
    BY <1>2, EmptySeq, LenProperties
  <2>2. f[Len(f)] \in Lines /\ f[Len(f)].json
    BY <1>2, <2>1, ElementOfSeq DEF Readable
  <2>3. f[Len(f)].hash \in Digests
    BY <2>2, ParsedLine
  <2> QED
    BY <1>2, <2>3 DEF LastHash
<1> QED
  BY <1>1, <1>2

\* Adding text to a file, cut or not, leaves a file.
LEMMA PutType ==
  ASSUME TypeOK, NEW d \in Days, NEW line \in Lines
  PROVE  Put(d, line) \in Seq(Lines)
<1>1. files[d] \in Seq(Lines) /\ Damaged \in Lines
  BY DEF TypeOK, Lines
<1>2. [files[d] EXCEPT ![Len(files[d])] = Damaged] \in Seq(Lines)
  <2>1. CASE files[d] = <<>>
    <3>1. Len(files[d]) \notin DOMAIN files[d]
      BY <2>1, EmptySeq, LenProperties
    <3>2. [files[d] EXCEPT ![Len(files[d])] = Damaged] = files[d]
      BY <3>1, <1>1, LenProperties
    <3> QED
      BY <1>1, <3>2
  <2>2. CASE files[d] # <<>>
    BY <1>1, <2>2, EmptySeq, LenProperties, ExceptSeq
  <2> QED
    BY <2>1, <2>2
<1>3. Append(files[d], line) \in Seq(Lines)
  BY <1>1, AppendProperties
<1> QED
  BY <1>2, <1>3 DEF Put

\* A file with a line added: what was there stays, and the line comes last.
LEMMA AppendedFile ==
  ASSUME NEW f \in Seq(Lines), NEW l \in Lines
  PROVE  /\ Append(f, l) \in Seq(Lines)
         /\ Append(f, l) # <<>>
         /\ Len(Append(f, l)) = Len(f) + 1
         /\ DOMAIN Append(f, l) = DOMAIN f \cup {Len(f) + 1}
         /\ DOMAIN f = 1 .. Len(f)
         /\ Len(f) \in Nat
         /\ \A i \in DOMAIN f : Append(f, l)[i] = f[i]
         /\ Append(f, l)[Len(f) + 1] = l
<1>1. /\ Len(f) \in Nat
      /\ DOMAIN f = 1 .. Len(f)
  BY LenProperties
<1>2. /\ Append(f, l) \in Seq(Lines)
      /\ Len(Append(f, l)) = Len(f) + 1
      /\ \A i \in 1 .. Len(f) : Append(f, l)[i] = f[i]
      /\ Append(f, l)[Len(f) + 1] = l
  BY <1>1, AppendProperties
<1>3. DOMAIN Append(f, l) = 1 .. Len(f) + 1
  BY <1>2, LenProperties
<1>4. 1 .. Len(f) + 1 = (1 .. Len(f)) \cup {Len(f) + 1}
  BY <1>1
<1>5. Append(f, l) # <<>>
  BY <1>1, <1>2, EmptySeq
<1> QED
  BY <1>1, <1>2, <1>3, <1>4, <1>5

--------------------------------------------------------------------------------
(* Type correctness, of every variant of the specification.                   *)

\* Whatever the processes, the clock and failing writes do, files stay sequences of
\* lines, jobs are one of the three shapes, and only runs are accounted for.
LEMMA TypeInductive ==
  ASSUME TypeOK, [Next]_vars
  PROVE  TypeOK'
<1> USE DEF TypeOK
<1>1. ASSUME NEW w \in Writers, NEW r \in Runs, ChoosePath(w, r)
      PROVE  TypeOK'
  BY <1>1 DEF ChoosePath, Idle, Reading, Appending
<1>2. ASSUME NEW w \in Writers, ReadLastHash(w)
      PROVE  TypeOK'
  <2>1. job[w].day \in Days /\ job[w].run \in Runs
    BY <1>2 DEF ReadLastHash, Idle
  <2>2. LastHash(files[job[w].day]) \in Digests
    BY <1>2, <2>1, LastHashType DEF ReadLastHash
  <2> QED
    BY <1>2, <2>1, <2>2 DEF ReadLastHash, Idle, Appending
<1>3. ASSUME NEW w \in Writers, ReadRaises(w)
      PROVE  TypeOK'
  BY <1>3 DEF ReadRaises, Idle
<1>4. ASSUME NEW w \in Writers, AppendLine(w)
      PROVE  TypeOK'
  <2>1. job[w].day \in Days /\ job[w].run \in Runs /\ job[w].prev \in Digests
    BY <1>4 DEF AppendLine, Idle
  <2>2. Put(job[w].day, Line(job[w].run, job[w].prev)) \in Seq(Lines)
    BY <2>1, LineType, PutType
  <2>3. Append(Put(job[w].day, Damaged), Damaged) \in Seq(Lines)
    <3>1. Damaged \in Lines
      BY DEF Lines
    <3> QED
      BY <2>1, <3>1, PutType, AppendProperties
  <2>4. files' \in [Days -> Seq(Lines)]
    BY <1>4, <2>2, <2>3 DEF AppendLine
  <2> QED
    BY <1>4, <2>1, <2>4 DEF AppendLine, Idle
<1>5. ASSUME NEW w \in Writers, AppendTorn(w)
      PROVE  TypeOK'
  <2>1. job[w].day \in Days /\ job[w].run \in Runs /\ job[w].prev \in Digests
    BY <1>5 DEF AppendTorn, Idle
  <2>2. PICK line \in {Damaged, Line(job[w].run, job[w].prev)} :
          files' = [files EXCEPT ![job[w].day] = Put(job[w].day, line)]
    BY <1>5 DEF AppendTorn
  <2>3. line \in Lines
    <3>1. Damaged \in Lines
      BY DEF Lines
    <3>2. Line(job[w].run, job[w].prev) \in Lines
      BY <2>1, LineType
    <3> QED
      BY <2>2, <3>1, <3>2
  <2>4. files' \in [Days -> Seq(Lines)]
    BY <2>1, <2>2, <2>3, PutType
  <2> QED
    BY <1>5, <2>1, <2>4 DEF AppendTorn, Idle
<1>6. ASSUME NEW w \in Writers, Abandon(w)
      PROVE  TypeOK'
  BY <1>6 DEF Abandon, Idle
<1>7. CASE Rotate
  BY <1>7, MaxDayNat DEF Rotate, Days
<1>8. CASE UNCHANGED vars
  BY <1>8 DEF vars
<1> QED
  BY <1>1, <1>2, <1>3, <1>4, <1>5, <1>6, <1>7, <1>8 DEF Next

\* Types hold throughout, concurrent writers, torn and split writes included.
THEOREM TypeCorrect == Spec => []TypeOK
<1>1. Init => TypeOK
  BY MaxDayNat, EmptySeq DEF Init, TypeOK, Days, Idle
<1> QED
  BY <1>1, TypeInductive, PTL DEF Spec


--------------------------------------------------------------------------------
(* With no torn write, no line is ever cut, so that an append touches no line that *)
(* is there: the log is append-only, however the writers interleave.              *)

NothingCut == \A d \in Days : ~cut[d]

\* What a whole write does to the files when no line is cut.
LEMMA WholeWrite ==
  ASSUME TypeOK, NothingCut, NEW w \in Writers, AppendLine(w)
  PROVE  /\ job[w].day \in Days /\ job[w].run \in Runs /\ job[w].prev \in Digests
         /\ Line(job[w].run, job[w].prev) \in Lines
         /\ files' = [files EXCEPT ![job[w].day] =
              IF job[w].run \in SplitRuns
              THEN Append(Append(files[job[w].day], Damaged), Damaged)
              ELSE Append(files[job[w].day], Line(job[w].run, job[w].prev))]
<1>1. job[w].day \in Days /\ job[w].run \in Runs /\ job[w].prev \in Digests
  BY DEF TypeOK, AppendLine, Idle
<1>2. ~cut[job[w].day]
  BY <1>1 DEF NothingCut
<1> QED
  BY <1>1, <1>2, LineType DEF AppendLine, Put

\* Without torn writes no line is ever cut.
LEMMA NothingCutInductive ==
  ASSUME ~TornWrites, TypeOK, NothingCut, [Next]_vars
  PROVE  NothingCut'
<1>1. ASSUME NEW w \in Writers, AppendLine(w)
      PROVE  NothingCut'
  BY <1>1 DEF AppendLine, NothingCut, TypeOK
<1>2. CASE UNCHANGED cut
  BY <1>2 DEF NothingCut
<1> QED
  BY <1>1, <1>2 DEF Next, vars, ChoosePath, ReadLastHash, ReadRaises, AppendTorn,
                    Abandon, Rotate

\* The files of a step: unchanged, or one of them with a line or a split line added.
LEMMA StepKeepsLines ==
  ASSUME ~TornWrites, TypeOK, NothingCut, [Next]_vars,
         NEW d \in Days, NEW i \in DOMAIN files[d]
  PROVE  i \in DOMAIN files'[d] /\ files'[d][i] = files[d][i]
<1>1. files[d] \in Seq(Lines) /\ Damaged \in Lines
  BY DEF TypeOK, Lines
<1>2. ASSUME NEW w \in Writers, AppendLine(w), d = job[w].day
      PROVE  i \in DOMAIN files'[d] /\ files'[d][i] = files[d][i]
  <2>1. CASE job[w].run \in SplitRuns
    <3>1. files'[d] = Append(Append(files[d], Damaged), Damaged)
      BY <1>2, <2>1, WholeWrite DEF TypeOK
    <3>2. /\ Append(files[d], Damaged) \in Seq(Lines)
          /\ i \in DOMAIN Append(files[d], Damaged)
          /\ Append(files[d], Damaged)[i] = files[d][i]
      BY <1>1, AppendedFile
    <3> QED
      BY <1>1, <3>1, <3>2, AppendedFile
  <2>2. CASE job[w].run \notin SplitRuns
    <3>1. /\ files'[d] = Append(files[d], Line(job[w].run, job[w].prev))
          /\ Line(job[w].run, job[w].prev) \in Lines
      <4>1. files' = [files EXCEPT ![job[w].day] =
                        Append(files[job[w].day], Line(job[w].run, job[w].prev))]
        BY <1>2, <2>2, WholeWrite
      <4>2. files \in [Days -> Seq(Lines)]
        BY DEF TypeOK
      <4> QED
        BY <1>2, <4>1, <4>2, WholeWrite
    <3>2. /\ i \in DOMAIN Append(files[d], Line(job[w].run, job[w].prev))
          /\ Append(files[d], Line(job[w].run, job[w].prev))[i] = files[d][i]
      BY <1>1, <3>1, AppendedFile
    <3> QED
      BY <3>1, <3>2
  <2> QED
    BY <2>1, <2>2
<1>3. ASSUME NEW w \in Writers, AppendLine(w), d # job[w].day
      PROVE  files'[d] = files[d]
  BY <1>3, WholeWrite DEF TypeOK
<1>4. CASE UNCHANGED files
  BY <1>4
<1> QED
  BY <1>2, <1>3, <1>4 DEF Next, vars, ChoosePath, ReadLastHash, ReadRaises, AppendTorn,
                          Abandon, Rotate

\* The store never rewrites a line: no step of any process changes or removes one, as
\* long as writes are whole. Split records are included.
THEOREM LogIsAppendOnly == ASSUME ~TornWrites PROVE Spec => AppendOnly
<1>1. Init => NothingCut
  BY DEF Init, NothingCut
<1>2. TypeOK /\ NothingCut /\ [Next]_vars => NothingCut'
  BY NothingCutInductive
<1>3. TypeOK /\ NothingCut /\ [Next]_vars =>
        [\A d \in Days : \A i \in DOMAIN files[d] :
           i \in DOMAIN files'[d] /\ files'[d][i] = files[d][i]]_vars
  BY StepKeepsLines
<1> QED
  BY <1>1, <1>2, <1>3, TypeCorrect, PTL DEF Spec, AppendOnly


--------------------------------------------------------------------------------
(* With whole and unsplit writes, every line is a record, and AppendLine is the    *)
(* only step that adds one. The writers may still interleave.                      *)

Whole == ~TornWrites /\ SplitRuns = {}

AllReadable == \A d \in Days : \A i \in DOMAIN files[d] : files[d][i].json

\* After a write, each line is one that was there or the new one at the end.
LEMMA OneLineAdded ==
  ASSUME Whole, TypeOK, NothingCut, NEW w \in Writers, AppendLine(w)
  PROVE  /\ files[job[w].day] \in Seq(Lines)
         /\ files'[job[w].day] = Append(files[job[w].day], Line(job[w].run, job[w].prev))
         /\ \A e \in Days \ {job[w].day} : files'[e] = files[e]
<1>1. /\ job[w].day \in Days
      /\ files' = [files EXCEPT ![job[w].day] =
                     Append(files[job[w].day], Line(job[w].run, job[w].prev))]
  BY WholeWrite DEF Whole
<1>2. files \in [Days -> Seq(Lines)]
  BY DEF TypeOK
<1> QED
  BY <1>1, <1>2

\* A write leaves every earlier line alone and adds the writer's line at the end of
\* its day's file.
LEMMA LinesAfterWrite ==
  ASSUME Whole, TypeOK, NothingCut, NEW w \in Writers, AppendLine(w),
         NEW d \in Days, NEW i \in DOMAIN files'[d]
  PROVE  \/ i \in DOMAIN files[d] /\ files'[d][i] = files[d][i]
         \/ /\ d = job[w].day /\ i = Len(files[d]) + 1
            /\ files'[d][i] = Line(job[w].run, job[w].prev)
<1>1. CASE d = job[w].day
  <2>1. /\ files[d] \in Seq(Lines)
        /\ Line(job[w].run, job[w].prev) \in Lines
        /\ files'[d] = Append(files[d], Line(job[w].run, job[w].prev))
    BY <1>1, OneLineAdded, WholeWrite
  <2> QED
    BY <1>1, <2>1, AppendedFile
<1>2. CASE d # job[w].day
  BY <1>2, OneLineAdded
<1> QED
  BY <1>1, <1>2

\* The line a write adds holds the run and the hash of its job.
LEMMA NewLine ==
  ASSUME TypeOK, NEW w \in Writers, AppendLine(w)
  PROVE  /\ Line(job[w].run, job[w].prev) \in Lines
         /\ Line(job[w].run, job[w].prev).json = TRUE
         /\ Line(job[w].run, job[w].prev).run = job[w].run
<1>1. job[w].run \in Runs /\ job[w].prev \in Digests
  BY DEF TypeOK, AppendLine, Idle
<1> QED
  BY <1>1, LineType

\* The steps of a whole-write log other than AppendLine leave the files alone.
LEMMA OtherStepsKeepFiles ==
  ASSUME ~TornWrites, [Next]_vars, \A w \in Writers : ~AppendLine(w)
  PROVE  UNCHANGED <<files, cut, returned>>
BY DEF Next, vars, ChoosePath, ReadLastHash, ReadRaises, AppendTorn, Abandon, Rotate

\* While writes are whole, every line stays readable.
LEMMA AllReadableInductive ==
  ASSUME Whole, TypeOK, NothingCut, AllReadable, [Next]_vars
  PROVE  AllReadable'
<1>1. ASSUME NEW w \in Writers, AppendLine(w)
      PROVE  AllReadable'
  <2> SUFFICES ASSUME NEW d \in Days, NEW i \in DOMAIN files'[d]
               PROVE  files'[d][i].json
    BY DEF AllReadable
  <2>1. CASE i \in DOMAIN files[d] /\ files'[d][i] = files[d][i]
    BY <2>1 DEF AllReadable
  <2>2. CASE files'[d][i] = Line(job[w].run, job[w].prev)
    BY <1>1, <2>2, NewLine
  <2> QED
    BY <1>1, <2>1, <2>2, LinesAfterWrite
<1>2. CASE \A w \in Writers : ~AppendLine(w)
  BY <1>2, OtherStepsKeepFiles DEF AllReadable, Whole
<1> QED
  BY <1>1, <1>2

\* What a run has been through: a run in a job or in a file has begun; it is in one
\* job or on one line of one file, and never in both.
RunsAreFresh ==
  /\ \A w \in Writers : job[w] # Idle => job[w].run \in begun
  /\ \A v, w \in Writers :
       job[v] # Idle /\ job[w] # Idle /\ job[v].run = job[w].run => v = w
  /\ \A d \in Days : \A i \in DOMAIN files[d] :
       /\ files[d][i].run \in begun
       /\ \A w \in Writers : job[w] # Idle => files[d][i].run # job[w].run

WholeInv == TypeOK /\ NothingCut /\ AllReadable /\ RunsAreFresh /\ StoredOnce

\* A run that is still being stored is in no file yet.
LEMMA RunsAreFreshInductive ==
  ASSUME Whole, WholeInv, [Next]_vars
  PROVE  RunsAreFresh'
<1> USE DEF WholeInv
<1>1. ASSUME NEW w \in Writers, NEW r \in Runs, ChoosePath(w, r)
      PROVE  RunsAreFresh'
  BY <1>1 DEF ChoosePath, Reading, Idle, RunsAreFresh, TypeOK
<1>2. ASSUME NEW w \in Writers, ReadLastHash(w)
      PROVE  RunsAreFresh'
  BY <1>2 DEF ReadLastHash, Appending, Idle, RunsAreFresh, TypeOK
<1>3. ASSUME NEW w \in Writers, job[w] # Idle, job' = [job EXCEPT ![w] = Idle],
             UNCHANGED <<files, begun>>
      PROVE  RunsAreFresh'
  BY <1>3 DEF Idle, RunsAreFresh, TypeOK
<1>4. ASSUME NEW w \in Writers, AppendLine(w)
      PROVE  RunsAreFresh'
  <2>1. job[w] # Idle /\ job' = [job EXCEPT ![w] = Idle] /\ UNCHANGED begun
    BY <1>4 DEF AppendLine, Idle
  <2>2. \A v \in Writers : job'[v] # Idle => v # w /\ job'[v] = job[v]
    BY <2>1 DEF TypeOK
  <2>3. ASSUME NEW d \in Days, NEW i \in DOMAIN files'[d]
        PROVE  \/ i \in DOMAIN files[d] /\ files'[d][i] = files[d][i]
               \/ files'[d][i].run = job[w].run
    <3>1. \/ i \in DOMAIN files[d] /\ files'[d][i] = files[d][i]
          \/ files'[d][i] = Line(job[w].run, job[w].prev)
      BY <1>4, LinesAfterWrite
    <3>2. Line(job[w].run, job[w].prev).run = job[w].run
      BY <1>4, NewLine
    <3> QED
      BY <3>1, <3>2
  <2>4. ASSUME NEW d \in Days, NEW i \in DOMAIN files'[d]
        PROVE  /\ files'[d][i].run \in begun'
               /\ \A v \in Writers : job'[v] # Idle => files'[d][i].run # job'[v].run
    BY <2>1, <2>2, <2>3 DEF RunsAreFresh
  <2> QED
    BY <2>1, <2>2, <2>4 DEF RunsAreFresh
<1>5. CASE UNCHANGED <<files, job, begun>>
  BY <1>5 DEF RunsAreFresh
<1>6. ASSUME NEW w \in Writers, ReadRaises(w)
      PROVE  RunsAreFresh'
  <2>1. job[w] # Idle
    BY <1>6 DEF ReadRaises, Idle
  <2> QED
    BY <1>3, <1>6, <2>1 DEF ReadRaises
<1>7. ASSUME NEW w \in Writers, Abandon(w)
      PROVE  RunsAreFresh'
  BY <1>3, <1>7 DEF Abandon
<1> QED
  BY <1>1, <1>2, <1>4, <1>5, <1>6, <1>7 DEF Next, vars, AppendTorn, Rotate, Whole

\* Each run has at most one line, in one file.
LEMMA StoredOnceInductive ==
  ASSUME Whole, WholeInv, [Next]_vars
  PROVE  StoredOnce'
<1> USE DEF WholeInv
<1>1. ASSUME NEW w \in Writers, AppendLine(w)
      PROVE  StoredOnce'
  <2> DEFINE D == job[w].day
             new == Len(files[D]) + 1
  <2>1. ASSUME NEW d \in Days, NEW i \in DOMAIN files'[d], ~(d = D /\ i = new)
        PROVE  /\ i \in DOMAIN files[d] /\ files'[d][i] = files[d][i]
               /\ files'[d][i].run # job[w].run
    <3>1. i \in DOMAIN files[d] /\ files'[d][i] = files[d][i]
      BY <1>1, <2>1, LinesAfterWrite
    <3> QED
      BY <1>1, <3>1 DEF RunsAreFresh, AppendLine, Idle
  <2>2. files'[D][new].run = job[w].run
    <3>1. files'[D][new] = Line(job[w].run, job[w].prev)
      BY <1>1, OneLineAdded, NewLine, AppendedFile
    <3> QED
      BY <1>1, <3>1, NewLine
  <2> SUFFICES ASSUME NEW d \in Days, NEW e \in Days,
                      NEW i \in DOMAIN files'[d], NEW j \in DOMAIN files'[e],
                      files'[d][i].json, files'[e][j].json,
                      files'[d][i].run = files'[e][j].run
               PROVE  d = e /\ i = j
    BY DEF StoredOnce
  <2>3. CASE d = D /\ i = new
    <3>1. files'[e][j].run = job[w].run
      BY <2>2, <2>3
    <3> QED
      BY <2>1, <2>3, <3>1
  <2>4. CASE e = D /\ j = new
    <3>1. files'[d][i].run = job[w].run
      BY <2>2, <2>4
    <3> QED
      BY <2>1, <2>4, <3>1
  <2>5. CASE ~(d = D /\ i = new) /\ ~(e = D /\ j = new)
    BY <2>1, <2>5 DEF StoredOnce
  <2> QED
    BY <2>3, <2>4, <2>5
<1>2. CASE \A w \in Writers : ~AppendLine(w)
  <2>1. UNCHANGED files
    BY <1>2, OtherStepsKeepFiles DEF Whole
  <2> QED
    BY <2>1 DEF StoredOnce
<1> QED
  BY <1>1, <1>2

\* The invariant of whole writes holds at all times.
LEMMA WholeInvariant == ASSUME Whole PROVE Spec => []WholeInv
<1>1. Init => NothingCut /\ AllReadable /\ RunsAreFresh /\ StoredOnce
  BY DEF Init, NothingCut, AllReadable, RunsAreFresh, StoredOnce, Idle
<1>2. WholeInv /\ TypeOK' /\ [Next]_vars => WholeInv'
  BY NothingCutInductive, AllReadableInductive, RunsAreFreshInductive,
     StoredOnceInductive DEF WholeInv, Whole
<1>3. TypeOK /\ NothingCut /\ AllReadable /\ RunsAreFresh /\ StoredOnce => WholeInv
  BY DEF WholeInv
<1> QED
  BY <1>1, <1>2, <1>3, TypeCorrect, PTL DEF Spec

\* No run is recorded twice, however the processes interleave: run ids are not reused,
\* and a write that returned or raised is not tried again.
THEOREM RunsAreStoredOnce == ASSUME Whole PROVE Spec => []StoredOnce
<1>1. WholeInv => StoredOnce
  BY DEF WholeInv
<1> QED
  BY <1>1, WholeInvariant, PTL

--------------------------------------------------------------------------------
(* Nothing that was promised is lost: a run whose record() returned can be read    *)
(* back.                                                                           *)

\* A run whose store call returned has its line.
LEMMA ReturnedIsStoredInductive ==
  ASSUME Whole, WholeInv, ReturnedIsStored, [Next]_vars
  PROVE  ReturnedIsStored'
<1> USE DEF WholeInv
<1>1. ASSUME NEW r \in returned
      PROVE  Stored(r)'
  <2>1. PICK d \in Days : \E i \in DOMAIN files[d] : files[d][i].json /\ files[d][i].run = r
    BY DEF ReturnedIsStored, Stored
  <2>2. PICK i \in DOMAIN files[d] : files[d][i].json /\ files[d][i].run = r
    BY <2>1
  <2>3. i \in DOMAIN files'[d] /\ files'[d][i] = files[d][i]
    BY StepKeepsLines DEF Whole
  <2> QED
    BY <2>2, <2>3 DEF Stored
<1>2. ASSUME NEW w \in Writers, AppendLine(w), NEW r, r = job[w].run
      PROVE  Stored(r)'
  <2> DEFINE f == files[job[w].day]
             l == Line(job[w].run, job[w].prev)
  <2>1. job[w].day \in Days
    BY <1>2, WholeWrite
  <2>2. Len(f) + 1 \in DOMAIN Append(f, l) /\ Append(f, l)[Len(f) + 1] = l
    BY <1>2, OneLineAdded, NewLine, AppendedFile
  <2>3. files'[job[w].day] = Append(f, l)
    BY <1>2, OneLineAdded
  <2>4. l.json /\ l.run = r
    BY <1>2, NewLine
  <2> HIDE DEF f, l
  <2> QED
    BY <2>1, <2>2, <2>3, <2>4 DEF Stored
<1>3. ASSUME NEW w \in Writers, AppendLine(w)
      PROVE  returned' = returned \cup {job[w].run}
  BY <1>3 DEF AppendLine
<1>4. CASE \A w \in Writers : ~AppendLine(w)
  <2>1. returned' = returned
    BY <1>4, OtherStepsKeepFiles DEF Whole
  <2> QED
    BY <1>1, <2>1 DEF ReturnedIsStored
<1> QED
  BY <1>1, <1>2, <1>3, <1>4 DEF ReturnedIsStored

\* A run id that record() returned names a record in the log, for any number of
\* processes: racing writers may break the chain, but they lose nothing.
THEOREM ReturnedRunsAreStored == ASSUME Whole PROVE Spec => []ReturnedIsStored
<1>1. Init => ReturnedIsStored
  BY DEF Init, ReturnedIsStored
<1>2. WholeInv /\ ReturnedIsStored /\ [Next]_vars => ReturnedIsStored'
  BY ReturnedIsStoredInductive
<1> QED
  BY <1>1, <1>2, WholeInvariant, PTL DEF Spec

--------------------------------------------------------------------------------
(* The refinement of AuditLog.                                                    *)

\* Reading a file of readable lines gives as many runs as it has lines.
LEMMA RunsOfType ==
  ASSUME NEW f \in Seq(Lines), \A i \in DOMAIN f : f[i].json
  PROVE  RunsOf(f) \in Seq(Runs) /\ Len(RunsOf(f)) = Len(f)
<1>1. Len(f) \in Nat /\ DOMAIN f = 1 .. Len(f)
  BY LenProperties
<1>2. \A i \in 1 .. Len(f) : f[i].run \in Runs
  <2> SUFFICES ASSUME NEW i \in 1 .. Len(f)
               PROVE  f[i].run \in Runs
    OBVIOUS
  <2>1. f[i] \in Lines /\ f[i].json
    BY <1>1, ElementOfSeq
  <2> QED
    BY <2>1, ParsedLine
<1>3. RunsOf(f) \in [1 .. Len(f) -> Runs]
  BY <1>1, <1>2 DEF RunsOf
<1>4. RunsOf(f) \in Seq(Runs)
  BY <1>1, <1>3, SeqDef
<1>5. 1 .. Len(RunsOf(f)) = 1 .. Len(f) /\ Len(RunsOf(f)) \in Nat
  BY <1>3, <1>4, LenProperties
<1> QED
  BY <1>1, <1>4, <1>5

\* A readable line appended to the file is read as one more run at the end.
LEMMA RunsOfAppend ==
  ASSUME NEW f \in Seq(Lines), \A i \in DOMAIN f : f[i].json, NEW l \in Lines, l.json
  PROVE  RunsOf(Append(f, l)) = Append(RunsOf(f), l.run)
<1> DEFINE g == Append(f, l)
           s == Append(RunsOf(f), l.run)
<1>1. /\ g \in Seq(Lines) /\ Len(g) = Len(f) + 1 /\ Len(f) \in Nat
      /\ DOMAIN f = 1 .. Len(f)
      /\ \A i \in 1 .. Len(f) : g[i] = f[i]
      /\ g[Len(f) + 1] = l
      /\ DOMAIN g = 1 .. Len(f) + 1
  BY AppendedFile, LenProperties
<1>2. \A i \in DOMAIN g : g[i].json
  BY <1>1
<1>3. RunsOf(g) \in Seq(Runs) /\ Len(RunsOf(g)) = Len(f) + 1
  <2> HIDE DEF g
  <2> QED
    BY <1>1, <1>2, RunsOfType
<1>4. l.run \in Runs
  BY ParsedLine
<1>5. /\ s \in Seq(Runs) /\ Len(s) = Len(f) + 1
      /\ \A i \in 1 .. Len(f) : s[i] = RunsOf(f)[i]
      /\ s[Len(f) + 1] = l.run
  BY <1>4, RunsOfType, AppendProperties
<1> HIDE DEF g, s
<1>6. \A i \in 1 .. Len(f) + 1 : RunsOf(g)[i] = s[i]
  BY <1>1, <1>5 DEF RunsOf
<1>7. RunsOf(g) = s
  BY <1>3, <1>5, <1>6, SeqEqual
<1> QED
  BY <1>7 DEF g, s

\* A write records its run in the abstract log.
LEMMA WriteIsRecord ==
  ASSUME Whole, WholeInv, NEW w \in Writers, AppendLine(w)
  PROVE  Log!Record(job[w].day, job[w].run) /\ job[w].day \in Days /\ job[w].run \in Runs
<1> USE DEF WholeInv
<1> DEFINE D == job[w].day
           r == job[w].run
           log == [d \in Days |-> RunsOf(files[d])]
<1>1. D \in Days /\ r \in Runs
  BY WholeWrite
<1>2. \A d \in Days : \A i \in DOMAIN files[d] : files[d][i].run # r
  BY DEF RunsAreFresh, AppendLine, Idle
<1>3. ~Log!Logged(r)
  BY <1>2 DEF Log!Logged, RunsOf
<1>4. RunsOf(files'[D]) = Append(RunsOf(files[D]), r)
  <2>1. /\ files[D] \in Seq(Lines)
        /\ files'[D] = Append(files[D], Line(r, job[w].prev))
    BY OneLineAdded
  <2>2. /\ Line(r, job[w].prev) \in Lines
        /\ Line(r, job[w].prev).json
        /\ Line(r, job[w].prev).run = r
    BY NewLine
  <2>3. \A i \in DOMAIN files[D] : files[D][i].json
    BY <1>1 DEF AllReadable
  <2> QED
    BY <2>1, <2>2, <2>3, RunsOfAppend
<1>5. log' = [log EXCEPT ![D] = Append(@, r)]
  BY <1>1, <1>4, OneLineAdded
<1>6. returned' = returned \cup {r}
  BY DEF AppendLine
<1> QED
  BY <1>1, <1>3, <1>5, <1>6 DEF Log!Record

\* The trace store implements the audit log for concurrent processes and any digest:
\* each write adds one run, not logged before, and every other step changes nothing
\* an auditor sees.
THEOREM TraceStoreImplementsAuditLog == ASSUME Whole PROVE Spec => ImplementsAuditLog
<1>1. Init => Log!LogInit
  BY EmptySeq, LenProperties DEF Init, Log!LogInit, RunsOf
<1>2. WholeInv /\ [Next]_vars => [Log!LogNext]_Log!logVars
  <2> SUFFICES ASSUME WholeInv, [Next]_vars
               PROVE  [Log!LogNext]_Log!logVars
    OBVIOUS
  <2>1. CASE \E w \in Writers : AppendLine(w)
    BY <2>1, WriteIsRecord DEF Log!LogNext
  <2>2. CASE \A w \in Writers : ~AppendLine(w)
    <3>1. UNCHANGED <<files, returned>>
      BY <2>2, OtherStepsKeepFiles DEF Whole
    <3> QED
      BY <3>1 DEF Log!logVars
  <2> QED
    BY <2>1, <2>2
<1> QED
  BY <1>1, <1>2, WholeInvariant, PTL DEF Spec, ImplementsAuditLog, Log!LogSpec

--------------------------------------------------------------------------------
(* The hash chain: with one record() at a time and whole writes, verify() accepts   *)
(* every file; processes that race can only fork the chain; a failed write damages  *)
(* the end of a file only; and with a collision-free digest verify() notices what   *)
(* it can notice.                                                                   *)


Serial == Whole /\ ~Concurrent

OneAtATime == \A v, w \in Writers : job[v] # Idle /\ job[w] # Idle => v = w

\* The hash a process read is still the last one of its file: what concurrency breaks.
HashIsFresh ==
  \A w \in Writers : job[w].pc = "append" => job[w].prev = LastHash(files[job[w].day])

ChainInv == WholeInv /\ UntouchedLogVerifies /\ OneAtATime /\ HashIsFresh

--------------------------------------------------------------------------------
\* A chain that verifies, continued from its last hash, verifies.
LEMMA VerifyAppend ==
  ASSUME NEW f \in Seq(Lines), Verify(f), NEW r \in Runs, NEW p \in Digests,
         p = LastHash(f)
  PROVE  Verify(Append(f, Line(r, p)))
<1> DEFINE l == Line(r, p)
           g == Append(f, l)
<1>1. /\ l \in Lines /\ l.json /\ l.run = r /\ l.prev = p
      /\ l.hash = Digest[<<r, p>>]
  BY LineType
<1> HIDE DEF l
<1>2. /\ Len(f) \in Nat /\ DOMAIN f = 1 .. Len(f)
      /\ DOMAIN g = 1 .. Len(f) + 1
      /\ \A i \in 1 .. Len(f) : g[i] = f[i]
      /\ g[Len(f) + 1] = l
  BY <1>1, AppendedFile, LenProperties
<1> HIDE DEF g
<1>3. ASSUME NEW i \in 1 .. Len(f)
      PROVE  Linked(g, i)
  <2>1. Linked(f, i)
    BY <1>2 DEF Verify
  <2>2. g[i] = f[i] /\ (i # 1 => g[i - 1] = f[i - 1])
    BY <1>2
  <2> QED
    BY <2>1, <2>2 DEF Linked
<1>4. Linked(g, Len(f) + 1)
  <2>1. CASE f = <<>>
    <3>1. Len(f) + 1 = 1 /\ p = Genesis
      BY <2>1, EmptySeq DEF LastHash
    <3> QED
      BY <1>1, <1>2, <3>1 DEF Linked
  <2>2. CASE f # <<>>
    <3>1. Len(f) + 1 # 1 /\ g[Len(f) + 1 - 1] = f[Len(f)] /\ p = f[Len(f)].hash
      BY <1>2, <2>2, EmptySeq DEF LastHash
    <3> QED
      BY <1>1, <1>2, <3>1 DEF Linked
  <2> QED
    BY <2>1, <2>2
<1>5. \A i \in DOMAIN g : i \in 1 .. Len(f) \/ i = Len(f) + 1
  BY <1>2
<1>6. Verify(g)
  BY <1>3, <1>4, <1>5 DEF Verify
<1> QED
  BY <1>6 DEF g, l

\* With one writer at a time, appending a line that carries the last line's hash keeps
\* the chain unbroken.
LEMMA VerifiesInductive ==
  ASSUME Serial, ChainInv, [Next]_vars
  PROVE  UntouchedLogVerifies'
<1> USE DEF ChainInv, WholeInv, Serial
<1>1. ASSUME NEW w \in Writers, AppendLine(w), NEW d \in Days
      PROVE  Verify(files'[d])
  <2>1. CASE d = job[w].day
    <3>1. /\ files[d] \in Seq(Lines)
          /\ files'[d] = Append(files[d], Line(job[w].run, job[w].prev))
      BY <1>1, <2>1, OneLineAdded
    <3>2. job[w].run \in Runs /\ job[w].prev \in Digests
      BY <1>1, WholeWrite
    <3>3. job[w].prev = LastHash(files[d])
      BY <1>1, <2>1 DEF HashIsFresh, AppendLine
    <3>4. Verify(files[d])
      BY DEF UntouchedLogVerifies
    <3> QED
      BY <3>1, <3>2, <3>3, <3>4, VerifyAppend
  <2>2. CASE d # job[w].day
    BY <1>1, <2>2, OneLineAdded DEF UntouchedLogVerifies
  <2> QED
    BY <2>1, <2>2
<1>2. CASE \A w \in Writers : ~AppendLine(w)
  <2>1. files' = files
    BY <1>2, OtherStepsKeepFiles DEF Whole
  <2> QED
    BY <2>1 DEF UntouchedLogVerifies
<1> QED
  BY <1>1, <1>2 DEF UntouchedLogVerifies

\* A process starts only when no other is inside record(), torn writes or not.
LEMMA OneAtATimeInductive ==
  ASSUME ~Concurrent, TypeOK, OneAtATime, [Next]_vars
  PROVE  OneAtATime'
<1>1. ASSUME NEW w \in Writers, NEW r \in Runs, ChoosePath(w, r)
      PROVE  OneAtATime'
  BY <1>1 DEF ChoosePath, OneAtATime, TypeOK
<1>2. ASSUME NEW w \in Writers, job[w] # Idle, NEW j, job' = [job EXCEPT ![w] = j]
      PROVE  OneAtATime'
  BY <1>2 DEF OneAtATime, TypeOK
<1>3. ASSUME NEW w \in Writers,
             ReadLastHash(w) \/ ReadRaises(w) \/ AppendLine(w) \/ AppendTorn(w) \/ Abandon(w)
      PROVE  OneAtATime'
  <2>1. job[w] # Idle
    BY <1>3 DEF ReadLastHash, ReadRaises, AppendLine, AppendTorn, Abandon, Idle
  <2>2. \E j : job' = [job EXCEPT ![w] = j]
    BY <1>3 DEF ReadLastHash, ReadRaises, AppendLine, AppendTorn, Abandon
  <2> QED
    BY <1>2, <2>1, <2>2
<1>4. CASE UNCHANGED job
  BY <1>4 DEF OneAtATime
<1> QED
  BY <1>1, <1>3, <1>4 DEF Next, vars, Rotate

\* With one writer at a time, the hash a writer holds is still that of the last line.
LEMMA HashIsFreshInductive ==
  ASSUME Serial, ChainInv, [Next]_vars
  PROVE  HashIsFresh'
<1> USE DEF ChainInv, WholeInv, Serial
<1>1. ASSUME NEW w \in Writers, NEW r \in Runs, ChoosePath(w, r)
      PROVE  HashIsFresh'
  BY <1>1 DEF ChoosePath, Reading, HashIsFresh, TypeOK
<1>2. ASSUME NEW w \in Writers, ReadLastHash(w)
      PROVE  HashIsFresh'
  BY <1>2 DEF ReadLastHash, Appending, HashIsFresh, TypeOK
<1>3. ASSUME NEW w \in Writers, AppendLine(w)
      PROVE  HashIsFresh'
  <2>1. job[w] # Idle /\ job' = [job EXCEPT ![w] = Idle]
    BY <1>3 DEF AppendLine, Idle
  <2>2. \A v \in Writers : job'[v] = Idle
    BY <2>1 DEF OneAtATime, TypeOK
  <2> QED
    BY <2>2 DEF HashIsFresh, Idle
<1>4. ASSUME NEW w \in Writers, job' = [job EXCEPT ![w] = Idle], UNCHANGED files
      PROVE  HashIsFresh'
  BY <1>4 DEF HashIsFresh, Idle, TypeOK
<1>5. ASSUME NEW w \in Writers, ReadRaises(w) \/ Abandon(w)
      PROVE  HashIsFresh'
  BY <1>4, <1>5 DEF ReadRaises, Abandon
<1>6. CASE UNCHANGED <<job, files>>
  BY <1>6 DEF HashIsFresh
<1> QED
  BY <1>1, <1>2, <1>3, <1>5, <1>6 DEF Next, vars, AppendTorn, Rotate, Whole

\* The invariant of serial writing holds at all times.
LEMMA ChainInvariant == ASSUME Serial PROVE Spec => []ChainInv
<1> USE DEF Serial
<1>1. Init => UntouchedLogVerifies /\ OneAtATime /\ HashIsFresh
  BY DEF Init, UntouchedLogVerifies, Verify, OneAtATime, HashIsFresh, Idle
<1>2. ChainInv /\ WholeInv' /\ [Next]_vars => ChainInv'
  BY VerifiesInductive, OneAtATimeInductive, HashIsFreshInductive
  DEF ChainInv, WholeInv, Serial
<1>3. WholeInv /\ UntouchedLogVerifies /\ OneAtATime /\ HashIsFresh => ChainInv
  BY DEF ChainInv
<1> QED
  BY <1>1, <1>2, <1>3, WholeInvariant, PTL DEF Spec

\* verify() accepts every file of a log that record() alone has written, one call at a
\* time with whole writes, across midnights, abandoned calls and any digest.
THEOREM SerialLogVerifies == ASSUME Serial PROVE Spec => []UntouchedLogVerifies
<1>1. ChainInv => UntouchedLogVerifies
  BY DEF ChainInv
<1> QED
  BY <1>1, ChainInvariant, PTL

--------------------------------------------------------------------------------
(* What verify() notices, when the digest has no collisions and never gives the     *)
(* genesis hash. A finite set of digests cannot have that, so TLC's instance only   *)
(* has it up to the length of its logs; here it is a hypothesis.                    *)

CollisionFree ==
  /\ \A c, e \in Runs \X Digests : Digest[c] = Digest[e] => c = e
  /\ \A c \in Runs \X Digests : Digest[c] # Genesis

\* What a line must have as prevHash to stand at position i of a file.
PrevAt(f, i) == IF i = 1 THEN Genesis ELSE f[i - 1].hash

DistinctRuns(f) == \A i, j \in DOMAIN f : f[i].run = f[j].run => i = j

\* The lines of a file that verifies: typed, linked, and hashed from their run.
LEMMA VerifiedLine ==
  ASSUME NEW f \in Seq(Lines), Verify(f), NEW i \in DOMAIN f
  PROVE  /\ i \in Nat /\ i >= 1 /\ i <= Len(f) /\ Len(f) \in Nat
         /\ f[i].run \in Runs /\ f[i].prev \in Digests
         /\ f[i].hash = Digest[<<f[i].run, f[i].prev>>]
         /\ f[i].prev = PrevAt(f, i)
<1>1. DOMAIN f = 1 .. Len(f) /\ Len(f) \in Nat
  BY LenProperties
<1>2. Linked(f, i)
  BY DEF Verify
<1>3. f[i] \in Lines /\ f[i].json
  BY <1>1, <1>2, ElementOfSeq DEF Linked
<1>4. f[i].run \in Runs /\ f[i].prev \in Digests
  BY <1>3, ParsedLine
<1> QED
  BY <1>1, <1>2, <1>4 DEF Linked, PrevAt

\* A line moved up to an earlier place does not link there.
LEMMA MovedUpIsUnlinked ==
  ASSUME CollisionFree, NEW f \in Seq(Lines), Verify(f), DistinctRuns(f),
         NEW a \in DOMAIN f, NEW b \in DOMAIN f, a < b
  PROVE  f[b].prev # PrevAt(f, a)
<1>1. DOMAIN f = 1 .. Len(f) /\ Len(f) \in Nat
  BY LenProperties
<1>2. b - 1 \in DOMAIN f /\ b # 1
  BY <1>1
<1>3. f[b].prev = f[b - 1].hash
  BY <1>2, VerifiedLine DEF PrevAt
<1>4. /\ <<f[b - 1].run, f[b - 1].prev>> \in Runs \X Digests
      /\ f[b - 1].hash = Digest[<<f[b - 1].run, f[b - 1].prev>>]
  BY <1>2, VerifiedLine
<1>5. CASE a = 1
  BY <1>3, <1>4, <1>5 DEF CollisionFree, PrevAt
<1>6. CASE a # 1
  <2>1. a - 1 \in DOMAIN f /\ a - 1 # b - 1
    BY <1>1, <1>6
  <2>2. /\ <<f[a - 1].run, f[a - 1].prev>> \in Runs \X Digests
        /\ f[a - 1].hash = Digest[<<f[a - 1].run, f[a - 1].prev>>]
    BY <2>1, VerifiedLine
  <2>3. f[a - 1].run # f[b - 1].run
    BY <1>2, <2>1 DEF DistinctRuns
  <2>4. f[a - 1].hash # f[b - 1].hash
    BY <1>4, <2>2, <2>3 DEF CollisionFree
  <2> QED
    BY <1>3, <1>6, <2>4 DEF PrevAt
<1> QED
  BY <1>5, <1>6

\* Replacing the run of one line breaks the chain.
LEMMA EditIsDetected ==
  ASSUME CollisionFree, NEW f \in Seq(Lines), Verify(f),
         NEW i \in DOMAIN f, NEW r \in Runs \ {f[i].run}
  PROVE  ~Verify(Edited(f, i, r))
<1> DEFINE g == Edited(f, i, r)
<1>1. f[i] \in [json : {TRUE}, run : Runs, prev : Digests, hash : Digests]
  <2>1. f[i] \in Lines
    BY LenProperties, ElementOfSeq
  <2>2. f[i].json
    BY DEF Verify, Linked
  <2> QED
    BY <2>1, <2>2, ParsedLine
<1>2. /\ DOMAIN g = DOMAIN f
      /\ g[i].run = r /\ g[i].prev = f[i].prev /\ g[i].hash = f[i].hash
  BY <1>1 DEF Edited
<1>3. f[i].hash = Digest[<<f[i].run, f[i].prev>>]
  BY VerifiedLine
<1>4. Digest[<<r, f[i].prev>>] # Digest[<<f[i].run, f[i].prev>>]
  BY <1>1 DEF CollisionFree
<1>5. ~Linked(g, i)
  BY <1>2, <1>3, <1>4 DEF Linked
<1> QED
  BY <1>2, <1>5 DEF Verify

\* Rewriting a line that is not the last breaks the chain, even if its hash is made to fit:
\* the next line links to the hash it had.
LEMMA RewritingIsDetected ==
  ASSUME CollisionFree, NEW f \in Seq(Lines), Verify(f),
         NEW i \in DOMAIN f, i < Len(f), NEW r \in Runs \ {f[i].run}
  PROVE  ~Verify(Rewritten(f, i, r))
<1> DEFINE g == Rewritten(f, i, r)
<1>1. DOMAIN f = 1 .. Len(f) /\ Len(f) \in Nat
  BY LenProperties
<1>2. /\ i + 1 \in DOMAIN f /\ i + 1 # i /\ i + 1 # 1 /\ (i + 1) - 1 = i
  BY <1>1
<1>3. f[i + 1].prev = f[i].hash
  BY <1>2, VerifiedLine DEF PrevAt
<1>4. /\ <<f[i].run, f[i].prev>> \in Runs \X Digests
      /\ f[i].hash = Digest[<<f[i].run, f[i].prev>>]
  BY VerifiedLine
<1>5. /\ DOMAIN g = DOMAIN f
      /\ g[i] = Line(r, f[i].prev) /\ g[i + 1] = f[i + 1]
  BY <1>2 DEF Rewritten
<1>6. g[i].hash = Digest[<<r, f[i].prev>>]
  BY <1>5 DEF Line
<1> HIDE DEF g
<1>7. g[i].hash # f[i].hash
  BY <1>4, <1>6 DEF CollisionFree
<1>8. ~Linked(g, i + 1)
  BY <1>2, <1>3, <1>5, <1>7 DEF Linked
<1>9. ~Verify(g)
  BY <1>2, <1>5, <1>8 DEF Verify
<1> QED
  BY <1>9 DEF g

\* Exchanging two lines breaks the chain.
LEMMA SwapIsDetected ==
  ASSUME CollisionFree, NEW f \in Seq(Lines), Verify(f), DistinctRuns(f),
         NEW i \in DOMAIN f, NEW j \in DOMAIN f, i # j
  PROVE  ~Verify(Swapped(f, i, j))
<1>1. DOMAIN f = 1 .. Len(f) /\ Len(f) \in Nat
  BY LenProperties
<1>2. ASSUME NEW g, NEW a \in DOMAIN f, NEW b \in DOMAIN f, a < b,
             DOMAIN g = DOMAIN f, g[a] = f[b],
             \A k \in DOMAIN f \ {a, b} : g[k] = f[k]
      PROVE  ~Verify(g)
  <2>1. PrevAt(g, a) = PrevAt(f, a)
    BY <1>1, <1>2 DEF PrevAt
  <2>2. g[a].prev # PrevAt(g, a)
    BY <1>2, <2>1, MovedUpIsUnlinked
  <2> QED
    BY <1>2, <2>2 DEF Verify, Linked, PrevAt
<1>3. /\ DOMAIN Swapped(f, i, j) = DOMAIN f
      /\ Swapped(f, i, j)[i] = f[j] /\ Swapped(f, i, j)[j] = f[i]
      /\ \A k \in DOMAIN f \ {i, j} : Swapped(f, i, j)[k] = f[k]
  BY DEF Swapped
<1>4. i < j \/ j < i
  BY <1>1
<1>5. CASE i < j
  BY <1>2, <1>3, <1>5
<1>6. CASE j < i
  BY <1>2, <1>3, <1>6
<1> QED
  BY <1>4, <1>5, <1>6

\* Taking out a line that is not the last breaks the chain.
LEMMA RemovalIsDetected ==
  ASSUME CollisionFree, NEW f \in Seq(Lines), Verify(f), DistinctRuns(f),
         NEW i \in DOMAIN f, i < Len(f)
  PROVE  ~Verify(Without(f, i))
<1> DEFINE g == Without(f, i)
<1>1. DOMAIN f = 1 .. Len(f) /\ Len(f) \in Nat
  BY LenProperties
<1>2. /\ i \in DOMAIN g /\ i + 1 \in DOMAIN f /\ i < i + 1
      /\ g[i] = f[i + 1]
      /\ i # 1 => g[i - 1] = f[i - 1]
  BY <1>1 DEF Without
<1> HIDE DEF g
<1>3. PrevAt(g, i) = PrevAt(f, i)
  BY <1>2 DEF PrevAt
<1>4. g[i].prev # PrevAt(g, i)
  BY <1>2, <1>3, MovedUpIsUnlinked
<1>5. ~Verify(g)
  BY <1>2, <1>4 DEF Verify, Linked, PrevAt
<1> QED
  BY <1>5 DEF g

\* With a digest that has no collisions, and however processes interleaved before: on a
\* file that verify() accepts, it notices every edited record, every exchange of two
\* records, and every removal, and every rewriting with a hash that fits, of a record that
\* has one after it. (The last record can be removed or rewritten unnoticed.)
THEOREM ChangesToIntactLogAreDetected ==
  ASSUME Whole, CollisionFree PROVE Spec => []ChangesAreDetected
<1>1. WholeInv => ChangesAreDetected
  <2> SUFFICES ASSUME WholeInv, NEW d \in Days, Verify(files[d]), NEW i \in DOMAIN files[d]
               PROVE  /\ \A r \in Runs \ {files[d][i].run} : ~Verify(Edited(files[d], i, r))
                      /\ \A j \in DOMAIN files[d] \ {i} : ~Verify(Swapped(files[d], i, j))
                      /\ i < Len(files[d]) =>
                           /\ ~Verify(Without(files[d], i))
                           /\ \A r \in Runs \ {files[d][i].run} : ~Verify(Rewritten(files[d], i, r))
    BY DEF ChangesAreDetected
  <2>1. files[d] \in Seq(Lines)
    BY DEF WholeInv, TypeOK
  <2>2. DistinctRuns(files[d])
    BY DEF WholeInv, AllReadable, StoredOnce, DistinctRuns
  <2> QED
    BY <2>1, <2>2, EditIsDetected, SwapIsDetected, RemovalIsDetected, RewritingIsDetected
<1> QED
  BY <1>1, WholeInvariant, PTL

--------------------------------------------------------------------------------
(* Processes that race can only fork the chain.                                 *)

\* The hashes a line added to f may link to.
Known(f) == {Genesis} \cup {f[j].hash : j \in DOMAIN f}

\* The hash a process read is still one of its file, if no longer the last.
HashIsKnown == \A w \in Writers : job[w].pc = "append" => job[w].prev \in Known(files[job[w].day])

LinkInv == WholeInv /\ HashIsKnown /\ LinksPointBack

\* Every line points back at an earlier line of its file, or at the start of the
\* chain.
LEMMA LinksInductive ==
  ASSUME Whole, LinkInv, [Next]_vars
  PROVE  LinksPointBack'
<1> USE DEF LinkInv, WholeInv
<1>1. ASSUME NEW w \in Writers, AppendLine(w)
      PROVE  LinksPointBack'
  <2> DEFINE Above(f, i) == {f[j].hash : j \in {k \in 1 .. i - 1 : f[k].json}}
  <2> SUFFICES ASSUME NEW d \in Days, NEW i \in DOMAIN files'[d], files'[d][i].json
               PROVE  /\ files'[d][i].hash = Digest[<<files'[d][i].run, files'[d][i].prev>>]
                      /\ files'[d][i].prev \in {Genesis} \cup Above(files'[d], i)
    BY DEF LinksPointBack
  <2>1. /\ files[d] \in Seq(Lines)
        /\ Len(files[d]) \in Nat /\ DOMAIN files[d] = 1 .. Len(files[d])
    BY LenProperties DEF TypeOK
  <2>2. \A k \in DOMAIN files[d] : k \in DOMAIN files'[d] /\ files'[d][k] = files[d][k]
    BY StepKeepsLines DEF Whole
  <2>3. CASE i \in DOMAIN files[d]
    <3>1. files'[d][i] = files[d][i]
      BY <2>2, <2>3
    <3>2. \A k \in 1 .. i - 1 : k \in DOMAIN files[d]
      BY <2>1, <2>3
    <3>3. Above(files'[d], i) = Above(files[d], i)
      BY <2>2, <3>2
    <3>4. /\ files[d][i].hash = Digest[<<files[d][i].run, files[d][i].prev>>]
          /\ files[d][i].prev \in {Genesis} \cup Above(files[d], i)
      BY <2>3, <3>1 DEF LinksPointBack
    <3> HIDE DEF Above
    <3> QED
      BY <3>1, <3>3, <3>4
  <2>4. CASE i \notin DOMAIN files[d]
    <3>1. /\ d = job[w].day /\ i = Len(files[d]) + 1
          /\ files'[d][i] = Line(job[w].run, job[w].prev)
      BY <1>1, <2>1, <2>4, LinesAfterWrite
    <3>2. /\ files'[d][i].prev = job[w].prev
          /\ files'[d][i].hash = Digest[<<files'[d][i].run, files'[d][i].prev>>]
      BY <3>1 DEF Line
    <3>3. job[w].prev \in Known(files[d])
      BY <1>1, <3>1 DEF HashIsKnown, AppendLine
    <3>4. \A k \in DOMAIN files[d] : k \in 1 .. i - 1 /\ files'[d][k].json /\ files'[d][k].hash = files[d][k].hash
      BY <2>1, <2>2, <3>1 DEF AllReadable
    <3> QED
      BY <3>2, <3>3, <3>4 DEF Known
  <2> QED
    BY <2>3, <2>4
<1>2. CASE \A w \in Writers : ~AppendLine(w)
  <2>1. files' = files
    BY <1>2, OtherStepsKeepFiles DEF Whole
  <2> QED
    BY <2>1 DEF LinksPointBack
<1> QED
  BY <1>1, <1>2

\* The hash a writer holds is that of some line of the file it is about to append to,
\* or the start of the chain.
LEMMA HashIsKnownInductive ==
  ASSUME Whole, LinkInv, [Next]_vars
  PROVE  HashIsKnown'
<1> USE DEF LinkInv, WholeInv
<1> SUFFICES ASSUME NEW w \in Writers, job'[w].pc = "append"
             PROVE  job'[w].prev \in Known(files'[job'[w].day])
  BY DEF HashIsKnown
<1>1. \A d \in Days : Known(files[d]) \subseteq Known(files'[d])
  BY StepKeepsLines DEF Whole, Known
<1>2. CASE job'[w] = job[w]
  <2>1. job[w].day \in Days
    BY <1>2 DEF TypeOK, Idle
  <2> QED
    BY <1>1, <1>2, <2>1 DEF HashIsKnown
<1>3. CASE job'[w] # job[w]
  <2>1. ReadLastHash(w)
    BY <1>3 DEF TypeOK, Next, vars, ChoosePath, ReadLastHash, ReadRaises, AppendLine, AppendTorn,
                Abandon, Rotate, Idle, Reading
  <2>2. /\ job[w].day \in Days
        /\ job'[w].day = job[w].day
        /\ job'[w].prev = LastHash(files[job[w].day])
    BY <2>1 DEF TypeOK, ReadLastHash, Idle, Appending
  <2>3. files[job[w].day] \in Seq(Lines)
    BY <2>2 DEF TypeOK
  <2>4. LastHash(files[job[w].day]) \in Known(files[job[w].day])
    BY <2>3, LenProperties, EmptySeq DEF LastHash, Known
  <2> QED
    BY <1>1, <2>2, <2>4
<1> QED
  BY <1>2, <1>3

\* Links point back at all times, however many writers there are.
LEMMA LinkInvariant == ASSUME Whole PROVE Spec => []LinkInv
<1>1. Init => HashIsKnown /\ LinksPointBack
  BY DEF Init, HashIsKnown, LinksPointBack, Idle
<1>2. LinkInv /\ WholeInv' /\ [Next]_vars => LinkInv'
  BY LinksInductive, HashIsKnownInductive DEF LinkInv
<1> QED
  BY <1>1, <1>2, WholeInvariant, PTL DEF Spec, LinkInv

\* Whatever the interleaving, every record links to the genesis hash or to a record above
\* it in its file, and hashes to its own hash: forks are all a race can do.
THEOREM RacesOnlyForkTheChain == ASSUME Whole PROVE Spec => []LinksPointBack
<1>1. LinkInv => LinksPointBack
  BY DEF LinkInv
<1> QED
  BY <1>1, LinkInvariant, PTL

\* Two lines of a file extend the same one.
Forked(f) == \E i, j \in DOMAIN f : i # j /\ f[i].prev = f[j].prev

\* A chain that verifies, continued from any hash of it, verifies or is forked: by the
\* new line and the first one, or by the new line and the one after the line it extends.
LEMMA VerifyAppendKnown ==
  ASSUME NEW f \in Seq(Lines), Verify(f), NEW r \in Runs, NEW p \in Digests, p \in Known(f)
  PROVE  Verify(Append(f, Line(r, p))) \/ Forked(Append(f, Line(r, p)))
<1> DEFINE g == Append(f, Line(r, p))
<1>1. /\ Len(f) \in Nat /\ DOMAIN f = 1 .. Len(f)
      /\ DOMAIN g = DOMAIN f \cup {Len(f) + 1}
      /\ \A i \in DOMAIN f : g[i] = f[i]
      /\ g[Len(f) + 1].prev = p
  <2>1. Line(r, p) \in Lines /\ Line(r, p).prev = p
    BY LineType
  <2> QED
    BY <2>1, AppendedFile
<1>2. CASE p = LastHash(f)
  BY <1>2, VerifyAppend
<1> HIDE DEF g
<1>3. ASSUME NEW k \in DOMAIN f, f[k].prev = p
      PROVE  Forked(g)
  <2>1. k \in DOMAIN g /\ Len(f) + 1 \in DOMAIN g /\ k # Len(f) + 1
    BY <1>1
  <2>2. g[k].prev = g[Len(f) + 1].prev
    BY <1>1, <1>3
  <2> QED
    BY <2>1, <2>2 DEF Forked
<1>4. CASE p # LastHash(f) /\ p = Genesis
  <2>1. f # <<>>
    BY <1>4 DEF LastHash
  <2>2. 1 \in DOMAIN f
    BY <1>1, <2>1, EmptySeq
  <2>3. f[1].prev = p
    BY <1>4, <2>2 DEF Verify, Linked
  <2> QED
    BY <1>3, <2>2, <2>3 DEF g
<1>5. CASE p # LastHash(f) /\ p # Genesis
  <2>1. PICK j \in DOMAIN f : p = f[j].hash
    BY <1>5 DEF Known
  <2>2. j # Len(f)
    BY <1>1, <1>5, <2>1, EmptySeq DEF LastHash
  <2>3. j + 1 \in DOMAIN f /\ j + 1 # 1 /\ j + 1 - 1 = j
    BY <1>1, <2>2
  <2>4. f[j + 1].prev = PrevAt(f, j + 1)
    BY <2>3, VerifiedLine
  <2>5. PrevAt(f, j + 1) = f[j].hash
    BY <2>3 DEF PrevAt
  <2> QED
    BY <1>3, <2>1, <2>3, <2>4, <2>5 DEF g
<1> QED
  BY <1>2, <1>4, <1>5

\* A line appended after a hash that is not the last line's shares its link with an
\* earlier line, so a chain that breaks always shows a fork.
LEMMA ForksInductive ==
  ASSUME Whole, LinkInv, OnlyForksBreakTheChain, [Next]_vars
  PROVE  OnlyForksBreakTheChain'
<1> USE DEF LinkInv, WholeInv
<1>1. ASSUME NEW w \in Writers, AppendLine(w), NEW d \in Days
      PROVE  Verify(files'[d]) \/ Forked(files'[d])
  <2>1. CASE d # job[w].day
    <3>1. files'[d] = files[d]
      BY <1>1, <2>1, OneLineAdded
    <3> QED
      BY <3>1 DEF OnlyForksBreakTheChain, Forked
  <2>2. CASE d = job[w].day /\ Verify(files[d])
    <3>1. /\ files[d] \in Seq(Lines)
          /\ files'[d] = Append(files[d], Line(job[w].run, job[w].prev))
      BY <1>1, <2>2, OneLineAdded
    <3>2. job[w].run \in Runs /\ job[w].prev \in Digests
      BY <1>1, WholeWrite
    <3>3. job[w].prev \in Known(files[d])
      BY <1>1, <2>2 DEF HashIsKnown, AppendLine
    <3> QED
      BY <2>2, <3>1, <3>2, <3>3, VerifyAppendKnown
  <2>3. CASE ~Verify(files[d])
    <3>1. PICK i, j \in DOMAIN files[d] : i # j /\ files[d][i].prev = files[d][j].prev
      BY <2>3 DEF OnlyForksBreakTheChain
    <3>2. /\ i \in DOMAIN files'[d] /\ files'[d][i] = files[d][i]
          /\ j \in DOMAIN files'[d] /\ files'[d][j] = files[d][j]
      BY <3>1, StepKeepsLines DEF Whole
    <3> QED
      BY <3>1, <3>2 DEF Forked
  <2> QED
    BY <2>1, <2>2, <2>3
<1>2. CASE \A w \in Writers : ~AppendLine(w)
  <2>1. files' = files
    BY <1>2, OtherStepsKeepFiles DEF Whole
  <2> QED
    BY <2>1 DEF OnlyForksBreakTheChain
<1> QED
  BY <1>1, <1>2 DEF OnlyForksBreakTheChain, Forked

\* However processes race, and whatever the day they started on: a file of whole lines that
\* verify() rejects has two records that extend the same one.
THEOREM OnlyForksAreRejected == ASSUME Whole PROVE Spec => []OnlyForksBreakTheChain
<1>1. Init => OnlyForksBreakTheChain
  BY DEF Init, OnlyForksBreakTheChain, Verify
<1>2. LinkInv /\ OnlyForksBreakTheChain /\ [Next]_vars => OnlyForksBreakTheChain'
  BY ForksInductive
<1> QED
  BY <1>1, <1>2, LinkInvariant, PTL DEF Spec

--------------------------------------------------------------------------------
(* Torn and split writes, one record() at a time.                               *)

\* What a process read before it appends: a file that ends in a record, whose hash it has.
LastIsRead ==
  \A w \in Writers : job[w].pc = "append" =>
    /\ Readable(files[job[w].day])
    /\ job[w].prev = LastHash(files[job[w].day])

\* A cut file has a line, the one that was cut.
CutHasLine == \A d \in Days : cut[d] => files[d] # <<>>

TailInv == TypeOK /\ OneAtATime /\ LastIsRead /\ CutHasLine /\ DamageIsTheTail

\* The text a call adds when it does not add its record: damaged lines, and a cut line
\* turned into one.
DamagedFrom(f, g, k) ==
  \A i \in DOMAIN g : IF i < k THEN i \in DOMAIN f /\ g[i] = f[i] ELSE g[i] = Damaged

\* Verify accepts a file up to its first damaged line, and no record follows it.
TailOnly(f) == \A i \in DOMAIN f : Linked(f, i) \/ \A j \in i .. Len(f) : f[j] = Damaged

\* A chain that verifies is damaged from some line on, at its end only.
LEMMA DamagedChain ==
  ASSUME NEW f \in Seq(Lines), Verify(f), NEW g \in Seq(Lines), NEW k \in Nat, k # 0,
         DamagedFrom(f, g, k)
  PROVE  TailOnly(g)
<1>1. Len(g) \in Nat /\ DOMAIN g = 1 .. Len(g)
  BY LenProperties
<1>2. ASSUME NEW i \in DOMAIN g, i < k
      PROVE  Linked(g, i)
  <2>1. i \in DOMAIN f /\ g[i] = f[i]
    BY <1>2 DEF DamagedFrom
  <2>2. i # 1 => i - 1 \in DOMAIN g /\ i - 1 < k
    BY <1>1, <1>2
  <2>3. i # 1 => g[i - 1] = f[i - 1]
    BY <2>2 DEF DamagedFrom
  <2>4. Linked(f, i)
    BY <2>1 DEF Verify
  <2> QED
    BY <2>1, <2>3, <2>4 DEF Linked
<1>3. ASSUME NEW i \in DOMAIN g, ~(i < k)
      PROVE  \A j \in i .. Len(g) : g[j] = Damaged
  <2>1. \A j \in i .. Len(g) : j \in DOMAIN g /\ ~(j < k)
    BY <1>1, <1>3
  <2> QED
    BY <2>1 DEF DamagedFrom
<1> QED
  BY <1>2, <1>3 DEF TailOnly

\* A damaged tail that ends in a record is no tail at all.
LEMMA ReadableVerifies ==
  ASSUME NEW f \in Seq(Lines), TailOnly(f), Readable(f)
  PROVE  Verify(f)
<1>1. Len(f) \in Nat /\ DOMAIN f = 1 .. Len(f)
  BY LenProperties
<1>2. ~Damaged.json
  BY DEF Damaged
<1>3. ASSUME NEW i \in DOMAIN f
      PROVE  Linked(f, i)
  <2>1. f # <<>> /\ Len(f) \in i .. Len(f)
    BY <1>1, EmptySeq
  <2>2. f[Len(f)].json
    BY <2>1 DEF Readable
  <2>3. f[Len(f)] # Damaged
    BY <1>2, <2>2
  <2> QED
    BY <2>1, <2>3 DEF TailOnly
<1> QED
  BY <1>3 DEF Verify

\* Text put after the last line of a chain, or in place of a cut one, damages its end only:
\* one line of it, or two.
LEMMA PutDamages ==
  ASSUME TailInv, NEW d \in Days, Verify(files[d])
  PROVE  /\ TailOnly(Put(d, Damaged))
         /\ TailOnly(Append(Put(d, Damaged), Damaged))
         /\ cut[d] => \A line \in Lines : Put(d, line) = Put(d, Damaged)
<1> DEFINE f == files[d]
           n == Len(f)
           h == Put(d, Damaged)
           g == Append(h, Damaged)
<1>1. Damaged \in Lines
  BY DEF Lines
<1>2. f \in Seq(Lines) /\ h \in Seq(Lines)
  BY <1>1, PutType DEF TailInv, TypeOK
<1>3. n \in Nat /\ DOMAIN f = 1 .. n
  BY <1>2, LenProperties
<1>4. PICK k \in Nat : k # 0 /\ DamagedFrom(f, h, k)
  <2>1. CASE cut[d]
    <3>1. f # <<>>
      BY <2>1 DEF TailInv, CutHasLine
    <3>2. n # 0
      BY <1>2, <3>1, EmptySeq
    <3>3. h = [f EXCEPT ![n] = Damaged]
      BY <2>1 DEF Put
    <3>4. DamagedFrom(f, h, n)
      BY <1>3, <3>2, <3>3 DEF DamagedFrom
    <3> QED
      BY <1>3, <3>2, <3>4
  <2>2. CASE ~cut[d]
    <3>1. h = Append(f, Damaged)
      BY <2>2 DEF Put
    <3> HIDE DEF h
    <3>2. /\ DOMAIN h = DOMAIN f \cup {n + 1}
          /\ \A i \in DOMAIN f : h[i] = f[i]
          /\ h[n + 1] = Damaged
      BY <1>1, <1>2, <3>1, AppendedFile
    <3>3. DamagedFrom(f, h, n + 1)
      BY <1>3, <3>2 DEF DamagedFrom
    <3> QED
      BY <1>3, <3>3
  <2> QED
    BY <2>1, <2>2
<1>5. TailOnly(h)
  BY <1>2, <1>4, DamagedChain
<1> HIDE DEF h
<1>6. /\ g \in Seq(Lines) /\ Len(h) \in Nat /\ DOMAIN h = 1 .. Len(h)
      /\ DOMAIN g = DOMAIN h \cup {Len(h) + 1}
      /\ \A i \in DOMAIN h : g[i] = h[i]
      /\ g[Len(h) + 1] = Damaged
  BY <1>1, <1>2, AppendedFile
<1> HIDE DEF g
<1>7. TailOnly(g)
  <2>1. CASE Len(h) + 1 >= k
    <3>1. DamagedFrom(f, g, k)
      BY <1>4, <1>6, <2>1 DEF DamagedFrom
    <3> QED
      BY <1>2, <1>4, <1>6, <3>1, DamagedChain
  <2>2. CASE Len(h) + 1 < k
    <3>1. DamagedFrom(f, g, Len(h) + 1)
      BY <1>4, <1>6, <2>2 DEF DamagedFrom
    <3> QED
      BY <1>2, <1>6, <3>1, DamagedChain
  <2> QED
    BY <1>4, <1>6, <2>1, <2>2
<1>8. cut[d] => \A line \in Lines : Put(d, line) = Put(d, Damaged)
  BY DEF Put
<1> QED
  BY <1>5, <1>7, <1>8 DEF h, g

\* A write, whole, split or torn, is made with the last hash of a chain that verifies and
\* ends the only call there is.
LEMMA WriteEndsTheCall ==
  ASSUME TailInv, NEW w \in Writers, AppendLine(w) \/ AppendTorn(w)
  PROVE  /\ job[w].day \in Days /\ job[w].run \in Runs /\ job[w].prev \in Digests
         /\ Line(job[w].run, job[w].prev) \in Lines
         /\ Verify(files[job[w].day]) /\ job[w].prev = LastHash(files[job[w].day])
         /\ \A v \in Writers : job'[v] = Idle
<1>1. job[w].pc = "append" /\ job' = [job EXCEPT ![w] = Idle]
  BY DEF AppendLine, AppendTorn
<1>2. /\ job[w].day \in Days /\ job[w].run \in Runs /\ job[w].prev \in Digests
      /\ job[w] # Idle
  BY <1>1 DEF TailInv, TypeOK, Idle
<1>3. Line(job[w].run, job[w].prev) \in Lines
  BY <1>2, LineType
<1>4. Readable(files[job[w].day]) /\ job[w].prev = LastHash(files[job[w].day])
  BY <1>1 DEF TailInv, LastIsRead
<1>5. files[job[w].day] \in Seq(Lines) /\ TailOnly(files[job[w].day])
  BY <1>2 DEF TailInv, TypeOK, DamageIsTheTail, TailOnly
<1>6. Verify(files[job[w].day])
  BY <1>4, <1>5, ReadableVerifies
<1>7. \A v \in Writers : job'[v] = Idle
  BY <1>1, <1>2 DEF TailInv, TypeOK, OneAtATime
<1> QED
  BY <1>2, <1>3, <1>4, <1>6, <1>7

\* A writer that is alone holds what it read at the end of the file.
LEMMA LastIsReadInductive ==
  ASSUME TailInv, [Next]_vars
  PROVE  LastIsRead'
<1>1. ASSUME NEW w \in Writers, NEW r \in Runs, ChoosePath(w, r)
      PROVE  LastIsRead'
  BY <1>1 DEF ChoosePath, Reading, LastIsRead, TailInv, TypeOK
<1>2. ASSUME NEW w \in Writers, ReadLastHash(w)
      PROVE  LastIsRead'
  BY <1>2 DEF ReadLastHash, Appending, LastIsRead, TailInv, TypeOK
<1>3. ASSUME NEW w \in Writers, AppendLine(w) \/ AppendTorn(w)
      PROVE  LastIsRead'
  <2>1. \A v \in Writers : job'[v] = Idle
    BY <1>3, WriteEndsTheCall
  <2> QED
    BY <2>1 DEF LastIsRead, Idle
<1>4. ASSUME NEW w \in Writers, ReadRaises(w) \/ Abandon(w)
      PROVE  LastIsRead'
  BY <1>4 DEF ReadRaises, Abandon, Idle, LastIsRead, TailInv, TypeOK
<1>5. CASE UNCHANGED <<job, files>>
  BY <1>5 DEF LastIsRead, TailInv
<1> QED
  BY <1>1, <1>2, <1>3, <1>4, <1>5 DEF Next, vars, Rotate

\* A file with text put into it has a line.
LEMMA PutNotEmpty ==
  ASSUME TailInv, NEW d \in Days, NEW line \in Lines
  PROVE  Put(d, line) # <<>>
<1>1. files[d] \in Seq(Lines)
  BY DEF TailInv, TypeOK
<1>2. CASE cut[d]
  <2>1. DOMAIN Put(d, line) = DOMAIN files[d]
    BY <1>2 DEF Put
  <2>2. files[d] # <<>>
    BY <1>2 DEF TailInv, CutHasLine
  <2>3. 1 \in DOMAIN files[d]
    BY <1>1, <2>2, EmptySeq, LenProperties
  <2> QED
    BY <2>1, <2>3
<1>3. CASE ~cut[d]
  BY <1>1, <1>3, AppendedFile DEF Put
<1> QED
  BY <1>2, <1>3

\* A file that is cut has the line that was cut.
LEMMA CutHasLineInductive ==
  ASSUME TailInv, [Next]_vars
  PROVE  CutHasLine'
<1>1. cut \in [Days -> BOOLEAN] /\ files \in [Days -> Seq(Lines)] /\ CutHasLine
  BY DEF TailInv, TypeOK
<1>2. ASSUME NEW w \in Writers, AppendLine(w)
      PROVE  CutHasLine'
  <2>1. /\ cut' = [cut EXCEPT ![job[w].day] = FALSE]
        /\ \A d \in Days \ {job[w].day} : files'[d] = files[d]
    BY <1>1, <1>2 DEF AppendLine
  <2> QED
    BY <1>1, <2>1 DEF CutHasLine
<1>3. ASSUME NEW w \in Writers, AppendTorn(w)
      PROVE  CutHasLine'
  <2>1. PICK line \in {Damaged, Line(job[w].run, job[w].prev)} :
          files' = [files EXCEPT ![job[w].day] = Put(job[w].day, line)]
    BY <1>3 DEF AppendTorn
  <2>2. line \in Lines /\ job[w].day \in Days
    BY <1>3, <2>1, WriteEndsTheCall DEF Lines
  <2>3. files'[job[w].day] # <<>>
    BY <1>1, <2>1, <2>2, PutNotEmpty
  <2>4. cut' = [cut EXCEPT ![job[w].day] = TRUE]
    BY <1>3 DEF AppendTorn
  <2> QED
    BY <1>1, <2>1, <2>3, <2>4 DEF CutHasLine
<1>4. CASE UNCHANGED <<cut, files>>
  BY <1>1, <1>4 DEF CutHasLine
<1> QED
  BY <1>2, <1>3, <1>4 DEF Next, vars, ChoosePath, ReadLastHash, ReadRaises, Abandon, Rotate

\* With one writer at a time, a failed or split write damages the end of a file and
\* nothing else.
LEMMA TailInductive ==
  ASSUME TailInv, [Next]_vars
  PROVE  DamageIsTheTail'
<1>1. files \in [Days -> Seq(Lines)] /\ \A d \in Days : TailOnly(files[d])
  BY DEF TailInv, TypeOK, DamageIsTheTail, TailOnly
<1>2. ASSUME NEW w \in Writers, AppendLine(w) \/ AppendTorn(w)
      PROVE  TailOnly(Put(job[w].day, Line(job[w].run, job[w].prev)))
  <2> DEFINE d == job[w].day
             l == Line(job[w].run, job[w].prev)
  <2>1. CASE cut[d]
    BY <1>2, <2>1, WriteEndsTheCall, PutDamages
  <2>2. CASE ~cut[d]
    <3>1. /\ files[d] \in Seq(Lines) /\ Verify(files[d])
          /\ job[w].run \in Runs /\ job[w].prev \in Digests
          /\ job[w].prev = LastHash(files[d])
      BY <1>1, <1>2, WriteEndsTheCall
    <3>2. Verify(Append(files[d], l))
      BY <3>1, VerifyAppend
    <3> QED
      BY <2>2, <3>2 DEF Put, Verify, TailOnly
  <2> QED
    BY <2>1, <2>2
<1>3. ASSUME NEW w \in Writers, AppendLine(w), NEW d \in Days
      PROVE  TailOnly(files'[d])
  <2>1. CASE d # job[w].day
    <3>1. files'[d] = files[d]
      BY <1>1, <1>3, <2>1 DEF AppendLine
    <3> QED
      BY <1>1, <3>1
  <2>2. CASE d = job[w].day
    <3>1. \/ files'[d] = Append(Put(d, Damaged), Damaged)
          \/ files'[d] = Put(d, Line(job[w].run, job[w].prev))
      BY <1>1, <1>3, <2>2 DEF AppendLine
    <3>2. Verify(files[d])
      BY <1>3, <2>2, WriteEndsTheCall
    <3> QED
      BY <1>2, <1>3, <2>2, <3>1, <3>2, PutDamages
  <2> QED
    BY <2>1, <2>2
<1>4. ASSUME NEW w \in Writers, AppendTorn(w), NEW d \in Days
      PROVE  TailOnly(files'[d])
  <2>1. PICK line \in {Damaged, Line(job[w].run, job[w].prev)} :
          files' = [files EXCEPT ![job[w].day] = Put(job[w].day, line)]
    BY <1>4 DEF AppendTorn
  <2>2. CASE d # job[w].day
    BY <1>1, <2>1, <2>2
  <2>3. CASE d = job[w].day
    <3>1. files'[d] = Put(d, line)
      BY <1>1, <2>1, <2>3
    <3>2. Verify(files[d])
      BY <1>4, <2>3, WriteEndsTheCall
    <3> QED
      BY <1>2, <1>4, <2>1, <2>3, <3>1, <3>2, PutDamages
  <2> QED
    BY <2>2, <2>3
<1>5. UNCHANGED files => \A d \in Days : TailOnly(files'[d])
  <2>1. \A d \in Days : TailOnly(files[d])
    BY <1>1
  <2> QED
    BY <2>1
<1>6. \A d \in Days : TailOnly(files'[d])
  BY <1>3, <1>4, <1>5 DEF Next, vars, ChoosePath, ReadLastHash, ReadRaises, Abandon, Rotate
<1> QED
  BY <1>6 DEF DamageIsTheTail, TailOnly

\* With one record() at a time, and whatever writes are torn, split, abandoned or follow
\* one that was: verify() accepts a file up to its first damaged line, and no record
\* follows it, on any day and with any digest.
THEOREM DamageStaysAtTheEnd == ASSUME ~Concurrent PROVE Spec => []DamageIsTheTail
<1>1. Init => OneAtATime /\ LastIsRead /\ CutHasLine /\ DamageIsTheTail
  BY DEF Init, OneAtATime, LastIsRead, CutHasLine, DamageIsTheTail, Idle
<1>2. TailInv /\ TypeOK' /\ [Next]_vars => TailInv'
  BY OneAtATimeInductive, LastIsReadInductive, CutHasLineInductive, TailInductive DEF TailInv
<1>3. TypeOK /\ OneAtATime /\ LastIsRead /\ CutHasLine /\ DamageIsTheTail => TailInv
  BY DEF TailInv
<1>4. TailInv => DamageIsTheTail
  BY DEF TailInv
<1> QED
  BY <1>1, <1>2, <1>3, <1>4, TypeCorrect, PTL DEF Spec

--------------------------------------------------------------------------------
\* With whole and unsplit records no record() is refused: what a refused run meets is
\* always a line that some write damaged, never what racing processes left.
THEOREM NoneIsRefusedUnlessDamaged == ASSUME Whole PROVE Spec => []NoRunIsRefused
<1>1. Init => NoRunIsRefused
  BY DEF Init, NoRunIsRefused
<1>2. ASSUME WholeInv, NEW w \in Writers
      PROVE  ~ReadRaises(w)
  <2> SUFFICES ASSUME ReadRaises(w)
               PROVE  FALSE
    OBVIOUS
  <2> DEFINE f == files[job[w].day]
  <2>1. job[w].pc = "read" /\ ~Readable(f)
    BY DEF ReadRaises
  <2>2. job[w].day \in Days
    BY <1>2, <2>1 DEF WholeInv, TypeOK, Idle
  <2>3. f \in Seq(Lines) /\ \A i \in DOMAIN f : f[i].json
    BY <1>2, <2>2 DEF WholeInv, TypeOK, AllReadable
  <2>4. f # <<>> /\ ~f[Len(f)].json
    BY <2>1 DEF Readable
  <2> HIDE DEF f
  <2> QED
    BY <2>3, <2>4, EmptySeq, LenProperties
<1>3. NoRunIsRefused /\ WholeInv /\ [Next]_vars => NoRunIsRefused'
  BY <1>2 DEF Next, vars, ChoosePath, ReadLastHash, AppendLine, AppendTorn, Abandon, Rotate,
              NoRunIsRefused
<1> QED
  BY <1>1, <1>3, WholeInvariant, PTL DEF Spec

================================================================================
