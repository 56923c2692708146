------------------------------- MODULE TraceStore -------------------------------
(******************************************************************************)
(* The audit sink: TraceStore.record appends one hash-chained line to the file  *)
(* of the day, TraceStore.verify checks a file. Nothing locks the file, so a     *)
(* record() is three steps - pick the path, read the last line's hash, append -  *)
(* and the steps of several processes that share the directory interleave.       *)
(*                                                                              *)
(* A file is the sequence of lines its readers see. A line is a record that       *)
(* parses, or Damaged: text that json.loads refuses. "cut" marks a file whose     *)
(* last line has no newline, so that the next append continues it.               *)
(*                                                                              *)
(* A run stands for the content of its record, prevHash and recordHash aside;    *)
(* Digest is SHA-256 over that content and prevHash, any function at all.        *)
(******************************************************************************)
EXTENDS Naturals, Sequences

CONSTANTS Writers,     \* processes that record runs into one directory
          Runs,        \* the runs they may record, which bounds a behaviour
          MaxDay,      \* bound: days the log rotates through
          Digests,     \* hash values
          Genesis,     \* GENESIS_HASH
          Digest,      \* <<run, prevHash>> -> recordHash
          Concurrent,  \* may a process start while another is inside record()?
          TornWrites,  \* may a write stop part way (full disk, crash)?
          SplitRuns    \* runs whose text holds a line break JSON leaves unescaped

ASSUME MaxDayNat == MaxDay \in Nat \ {0}
ASSUME GenesisIsDigest == Genesis \in Digests
ASSUME DigestType == Digest \in [Runs \X Digests -> Digests]
ASSUME FaultTypes == Concurrent \in BOOLEAN /\ TornWrites \in BOOLEAN /\ SplitRuns \subseteq Runs

VARIABLES today,     \* the UTC date
          files,     \* day -> lines of tool_call_traces-<day>.jsonl; <<>> when absent
          cut,       \* day -> does its last line lack the newline?
          job,       \* writer -> the record() call it is in
          begun,     \* runs whose record() has begun: run ids are never reused
          returned,  \* runs whose record() has returned their id
          refused    \* runs whose record() raised because the log cannot be read

vars == <<today, files, cut, job, begun, returned, refused>>

Days == 1 .. MaxDay

LineHashedFirst(r, prev) ==   \* Seeded fault: hashed before prevHash is put in.
  [json |-> TRUE, run |-> r, prev |-> prev, hash |-> Digest[<<r, Genesis>>]]
Line(r, prev) == [json |-> TRUE, run |-> r, prev |-> prev, hash |-> Digest[<<r, prev>>]]
Damaged == [json |-> FALSE]
Lines == [json : {TRUE}, run : Runs, prev : Digests, hash : Digests] \cup {Damaged}

Idle == [pc |-> "idle"]
Reading(d, r) == [pc |-> "read", day |-> d, run |-> r]
Appending(d, r, prev) == [pc |-> "append", day |-> d, run |-> r, prev |-> prev]

Init == /\ today = 1
        /\ files = [d \in Days |-> <<>>]
        /\ cut = [d \in Days |-> FALSE]
        /\ job = [w \in Writers |-> Idle]
        /\ begun = {}
        /\ returned = {}
        /\ refused = {}

--------------------------------------------------------------------------------
\* record(), up to "path = self.path": the file is today's from here on.
ChoosePath(w, r) ==
  /\ job[w] = Idle
  /\ Concurrent \/ \A v \in Writers : job[v] = Idle
  /\ r \in Runs \ begun
  /\ begun' = begun \cup {r}
  /\ job' = [job EXCEPT ![w] = Reading(today, r)]
  /\ UNCHANGED <<today, files, cut, returned, refused>>

\* _last_hash: the hash of the last line, or Genesis when there is none.
LastHash(f) == IF f = <<>> THEN Genesis ELSE f[Len(f)].hash
Readable(f) == f # <<>> => f[Len(f)].json

\* Seeded fault: an unreadable last line is answered with the genesis hash.
ReadLastHashLeniently(w) ==
  LET f == files[job[w].day]
  IN  /\ job[w].pc = "read"
      /\ job' = [job EXCEPT ![w] = Appending(job[w].day, job[w].run,
                   IF Readable(f) THEN LastHash(f) ELSE Genesis)]
      /\ UNCHANGED <<today, files, cut, begun, returned, refused>>

ReadLastHash(w) ==
  LET f == files[job[w].day]
  IN  /\ job[w].pc = "read"
      /\ Readable(f)
      /\ job' = [job EXCEPT ![w] = Appending(job[w].day, job[w].run, LastHash(f))]
      /\ UNCHANGED <<today, files, cut, begun, returned, refused>>

\* _last_hash when the last line does not parse: JSONDecodeError leaves record().
ReadRaises(w) ==
  LET f == files[job[w].day]
  IN  /\ job[w].pc = "read"
      /\ ~Readable(f)
      /\ refused' = refused \cup {job[w].run}
      /\ job' = [job EXCEPT ![w] = Idle]
      /\ UNCHANGED <<today, files, cut, begun, returned>>

\* Text added to the file of day d; text without its own line start continues a cut line.
Put(d, line) ==
  IF cut[d] THEN [files[d] EXCEPT ![Len(files[d])] = Damaged] ELSE Append(files[d], line)

\* Seeded faults: the path is asked for again at the write; the file is opened to be
\* overwritten; a write that succeeded is tried again; the day is returned, not the id.
AppendLineToday(w) ==
  /\ job[w].pc = "append"
  /\ files' = [files EXCEPT ![today] = Append(@, Line(job[w].run, job[w].prev))]
  /\ returned' = returned \cup {job[w].run}
  /\ job' = [job EXCEPT ![w] = Idle]
  /\ UNCHANGED <<today, cut, begun, refused>>
AppendLineOver(w) ==
  /\ job[w].pc = "append"
  /\ files' = [files EXCEPT ![job[w].day] = <<Line(job[w].run, job[w].prev)>>]
  /\ returned' = returned \cup {job[w].run}
  /\ job' = [job EXCEPT ![w] = Idle]
  /\ UNCHANGED <<today, cut, begun, refused>>
AppendLineAgain(w) ==
  /\ job[w].pc = "append"
  /\ files' = [files EXCEPT ![job[w].day] = Append(@, Line(job[w].run, job[w].prev))]
  /\ returned' = returned \cup {job[w].run}
  /\ UNCHANGED <<today, cut, job, begun, refused>>
AppendLineWrongId(w) ==
  /\ job[w].pc = "append"
  /\ files' = [files EXCEPT ![job[w].day] = Put(job[w].day, Line(job[w].run, job[w].prev))]
  /\ cut' = [cut EXCEPT ![job[w].day] = FALSE]
  /\ returned' = returned \cup {job[w].day}
  /\ job' = [job EXCEPT ![w] = Idle]
  /\ UNCHANGED <<today, begun, refused>>

\* The write of a whole line, newline included: two damaged lines when it splits.
AppendLine(w) ==
  LET d == job[w].day
      r == job[w].run
  IN  /\ job[w].pc = "append"
      /\ files' = [files EXCEPT ![d] = IF r \in SplitRuns THEN Append(Put(d, Damaged), Damaged)
                                       ELSE Put(d, Line(r, job[w].prev))]
      /\ cut' = [cut EXCEPT ![d] = FALSE]
      /\ returned' = returned \cup {r}
      /\ job' = [job EXCEPT ![w] = Idle]
      /\ UNCHANGED <<today, begun, refused>>

\* The write stops part way, inside the text or just before its newline, and raises.
AppendTorn(w) ==
  LET d == job[w].day
  IN  /\ TornWrites
      /\ job[w].pc = "append"
      /\ \E line \in {Damaged, Line(job[w].run, job[w].prev)} :
           files' = [files EXCEPT ![d] = Put(d, line)]
      /\ cut' = [cut EXCEPT ![d] = TRUE]
      /\ job' = [job EXCEPT ![w] = Idle]
      /\ UNCHANGED <<today, begun, returned, refused>>

\* Seeded fault: record() swallows the exception and returns the id.
AbandonSilently(w) ==
  /\ job[w] # Idle
  /\ job' = [job EXCEPT ![w] = Idle]
  /\ returned' = returned \cup {job[w].run}
  /\ UNCHANGED <<today, files, cut, begun, refused>>

\* The process dies inside record(), or cannot open the file, having written nothing.
Abandon(w) ==
  /\ job[w] # Idle
  /\ job' = [job EXCEPT ![w] = Idle]
  /\ UNCHANGED <<today, files, cut, begun, returned, refused>>

RotateAway ==   \* Seeded fault: rotation drops the file it leaves.
  /\ today < MaxDay
  /\ today' = today + 1
  /\ files' = [files EXCEPT ![today] = <<>>]
  /\ UNCHANGED <<cut, job, begun, returned, refused>>

\* Midnight, UTC.
Rotate == /\ today < MaxDay
          /\ today' = today + 1
          /\ UNCHANGED <<files, cut, job, begun, returned, refused>>

Next == \/ \E w \in Writers :
             \/ \E r \in Runs : ChoosePath(w, r)
             \/ ReadLastHash(w) \/ ReadRaises(w)
             \/ AppendLine(w) \/ AppendTorn(w) \/ Abandon(w)
        \/ Rotate

Spec == Init /\ [][Next]_vars

--------------------------------------------------------------------------------
\* Seeded fault: the links are checked, the hashes are not.
LinkedOnly(f, i) == f[i].json /\ f[i].prev = (IF i = 1 THEN Genesis ELSE f[i - 1].hash)

\* verify(): every line parses, links to the line before it, and hashes to its hash.
Linked(f, i) ==
  /\ f[i].json
  /\ f[i].prev = IF i = 1 THEN Genesis ELSE f[i - 1].hash
  /\ f[i].hash = Digest[<<f[i].run, f[i].prev>>]

Verify(f) == \A i \in DOMAIN f : Linked(f, i)

--------------------------------------------------------------------------------
(* Properties.                                                                *)

TypeOK ==
  /\ today \in Days
  /\ files \in [Days -> Seq(Lines)]
  /\ cut \in [Days -> BOOLEAN]
  /\ job \in [Writers -> {Idle} \cup [pc : {"read"}, day : Days, run : Runs]
                \cup [pc : {"append"}, day : Days, run : Runs, prev : Digests]]
  /\ begun \subseteq Runs /\ returned \subseteq Runs /\ refused \subseteq Runs

\* verify's docstring: (True, None) if intact. Nobody but record() touches the files
\* here, so verify accepts every file at every moment.
UntouchedLogVerifies == \A d \in Days : Verify(files[d])

\* A run whose record() returned its id can be read back from some day's file.
Stored(r) == \E d \in Days : \E i \in DOMAIN files[d] :
               files[d][i].json /\ files[d][i].run = r
ReturnedIsStored == \A r \in returned : Stored(r)

\* No run is recorded twice, in one file or in two.
StoredOnce ==
  \A d, e \in Days : \A i \in DOMAIN files[d] : \A j \in DOMAIN files[e] :
    files[d][i].json /\ files[e][j].json /\ files[d][i].run = files[e][j].run
      => d = e /\ i = j

\* Forks are all that concurrent writers can do to the chain: every line still links
\* to Genesis or to a line above it, and hashes to its own hash.
LinksPointBack ==
  \A d \in Days : \A i \in DOMAIN files[d] :
    files[d][i].json =>
      /\ files[d][i].hash = Digest[<<files[d][i].run, files[d][i].prev>>]
      /\ files[d][i].prev \in {Genesis} \cup
           {files[d][j].hash : j \in {k \in 1 .. i - 1 : files[d][k].json}}

\* Forks are also all that makes verify reject a file of whole lines: whatever raced, and
\* whenever the day changed, a file is intact unless two of its records extend the same one.
OnlyForksBreakTheChain ==
  \A d \in Days :
    \/ Verify(files[d])
    \/ \E i, j \in DOMAIN files[d] : i # j /\ files[d][i].prev = files[d][j].prev

\* A failed or split write damages the end of a file and nothing else: verify accepts
\* all lines up to the first damaged one, and no record follows it.
DamageIsTheTail ==
  \A d \in Days : \A i \in DOMAIN files[d] :
    Linked(files[d], i) \/ \A j \in i .. Len(files[d]) : files[d][j] = Damaged

\* trace_store.py: "records are only ever appended; the store never rewrites prior
\* lines". A step leaves every line that was there, in its place.
AppendOnly ==
  [][\A d \in Days : \A i \in DOMAIN files[d] :
       i \in DOMAIN files'[d] /\ files'[d][i] = files[d][i]]_vars

\* README: every run is durably recorded. A run is then kept out of the log only by its
\* own crash or its own failed write, never by the state another run left the file in:
\* record() does not raise on reading the log.
NoRunIsRefused == refused = {}

\* Changes to a file after the fact, one at a time. A record is edited with its stored
\* hash kept, or rewritten with the hash that fits its new text: no key is needed for one.
Edited(f, i, r) == [f EXCEPT ![i].run = r]
Rewritten(f, i, r) == [f EXCEPT ![i] = Line(r, f[i].prev)]
Without(f, i) == [j \in 1 .. Len(f) - 1 |-> IF j < i THEN f[j] ELSE f[j + 1]]
Swapped(f, i, j) == [f EXCEPT ![i] = f[j], ![j] = f[i]]

\* On a file that verify accepts, it notices every edit of a record and every exchange of
\* two records, and, of a record that has one after it, every rewriting with a new hash
\* and every deletion. Nothing links to the last record: rewriting or deleting it is not
\* noticed, contrary to trace_store.py:11, "Any retroactive edit, deletion, or reordering
\* breaks the chain".
ChangesAreDetected ==
  \A d \in Days :
    LET f == files[d]
    IN  Verify(f) => \A i \in DOMAIN f :
          /\ \A r \in Runs \ {f[i].run} : ~Verify(Edited(f, i, r))
          /\ \A j \in DOMAIN f \ {i} : ~Verify(Swapped(f, i, j))
          /\ i < Len(f) => /\ ~Verify(Without(f, i))
                           /\ \A r \in Runs \ {f[i].run} : ~Verify(Rewritten(f, i, r))

\* The promise: with no torn and no split write, the files are an audit log, whatever
\* the interleaving of the processes that write them.
RunsOf(f) == [i \in DOMAIN f |-> f[i].run]
Log == INSTANCE AuditLog WITH log <- [d \in Days |-> RunsOf(files[d])]
ImplementsAuditLog == Log!LogSpec

================================================================================
