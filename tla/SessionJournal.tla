---------------------------- MODULE SessionJournal ----------------------------
(***************************************************************************)
(* The durable session: JsonlSessionStorage with its append-only file, the *)
(* projection of its tree of records (journal.py, types.py) and the        *)
(* SessionRecorders that write agents' runs to it.                         *)
(*                                                                         *)
(* A storage call takes the storage's asyncio lock and works in a thread   *)
(* until it returns; a call that is cancelled gives the lock up, but its   *)
(* thread goes on.  file holds the complete lines and torn an incomplete   *)
(* one behind them.  The lines are taken to be of one length, so that an   *)
(* offset into the file is a number of lines.  The program may crash; what *)
(* was not synced may then be lost, a line at a time or in part.           *)
(*                                                                         *)
(* A session here is of one agent.  Entries are <<run, sequence>>, the     *)
(* sequence counting the recorded events of the run.                       *)
(***************************************************************************)
EXTENDS Naturals, FiniteSets, SequencesExt

CONSTANTS
    Recorders,     \* SessionRecorders, each the sink of an agent
    Threads,       \* threads of the executor
    Branches,      \* branch ids
    Main,          \* DEFAULT_SESSION_BRANCH
    None,          \* no thread, no recorder
    Setups,        \* the ways the program uses the session, and their bounds
    MaxRuns,       \* bound: runs begun
    MaxCancels,    \* bound: cancelled callers
    MaxCrashes     \* bound: crashes of the program

ASSUME JournalAssumption ==
    /\ Main \in Branches
    /\ None \notin Threads \cup Recorders
    /\ \A s \in Setups :
        /\ s.branches \subseteq Branches /\ Main \in s.branches
        /\ {s.shared, s.save} \subseteq BOOLEAN
        /\ {s.recorders, s.messages, s.records} \subseteq Nat
    /\ {MaxRuns, MaxCancels, MaxCrashes} \subseteq Nat

VARIABLES
    setup,    \* branches used; recorders that are attached at one time;
              \* whether they may share a branch; whether the program also
              \* calls save; bounds: messages of a run after its task, records
    file,     \* the complete lines of the journal
    torn,     \* an incomplete line follows them
    synced,   \* how many of the lines are on disk
    lock,     \* the thread whose caller holds the storage's lock
    job,      \* what each thread is doing
    rec,      \* what each recorder is doing
    view,     \* entries that each recorder's agent remembers
    acked,    \* records whose append was reported to its caller
    made      \* counters: records, runs, cancellations, crashes

vars == <<setup, file, torn, synced, lock, job, rec, view, acked, made>>

NoRecord == 0
NoRun == 0

EmptySession ==
    [runs |-> {}, done |-> {}, entries |-> <<>>, kept |-> {}, covered |-> 0]

\* A SessionRecord.  source and sourceHead are data of branch_created, saved
\* is the document of a checkpoint, kept the messages of a compaction; a
\* branch_created with a run is the retry of that run.
Draft(kind, branch) ==
    [id |-> NoRecord, parent |-> NoRecord, branch |-> branch, rev |-> 0,
     kind |-> kind, run |-> NoRun, n |-> 0, source |-> Main,
     sourceHead |-> NoRecord, saved |-> EmptySession, kept |-> {}]

\* A line that is no record: a record written behind an incomplete line.
Garbage == Draft("garbage", Main)

-----------------------------------------------------------------------------
(* apply_session_record and the AgentSession methods it calls.             *)

Unfinished(s) == s.runs \ s.done

LastSequence(s, r) ==
    LET own == {i \in 1..Len(s.entries) : s.entries[i][1] = r}
    IN  s.entries[CHOOSE i \in own : \A j \in own : j <= i][2]

\* Mutant: a run may begin while another one is unfinished.
MutantMayBegin(s, r) == r \notin s.runs
MayBegin(s, r) == r \notin s.runs /\ Unfinished(s) = {}

CanApply(s, line) ==
    \/ line.kind \in {"checkpoint", "branch_created", "compaction_applied"}
    \/ line.kind = "run_started" /\ MayBegin(s, line.run)
    \/ /\ line.kind = "message_appended"
       /\ line.run \in Unfinished(s)
       /\ line.n >= LastSequence(s, line.run)
    \/ /\ line.kind = "run_finished"
       /\ line.run \in Unfinished(s)
       /\ line.n > LastSequence(s, line.run)

\* Mutant: a compaction covers the entry that will follow it.
MutantCovered(s) == Len(s.entries) + 1
Covered(s) == Len(s.entries)

Apply(s, line) ==
    CASE line.kind = "checkpoint" -> line.saved
      [] line.kind = "run_started" ->
            [s EXCEPT !.runs = @ \cup {line.run},
                      !.entries = Append(@, <<line.run, line.n>>)]
      [] line.kind = "message_appended" ->
            [s EXCEPT !.entries = Append(@, <<line.run, line.n>>)]
      [] line.kind = "run_finished" -> [s EXCEPT !.done = @ \cup {line.run}]
      [] line.kind = "compaction_applied" ->
            [s EXCEPT !.kept = line.kept, !.covered = Covered(s)]
      [] OTHER -> s

\* AgentSession.messages: what an agent restored from the session remembers.
Remembered(s) ==
    s.kept \cup Range(SubSeq(s.entries, s.covered + 1, Len(s.entries)))

-----------------------------------------------------------------------------
(* The journal's index: branches, their heads, ancestry and projection.    *)

Known(lines, id) == \E i \in 1..Len(lines) : lines[i].id = id

HeadOf(lines, b) ==
    LET own == {i \in 1..Len(lines) : lines[i].branch = b}
    IN  IF own = {} THEN NoRecord
        ELSE lines[CHOOSE i \in own : \A j \in own : j <= i].id

LineOf(lines, id) == CHOOSE i \in 1..Len(lines) : lines[i].id = id

ParentOf(lines, i) == CHOOSE j \in 1..(i - 1) : lines[j].id = lines[i].parent

\* The records from the root to a record, and the session they project to.
Root == [path |-> {}, session |-> EmptySession]
Longer(trail, line) ==
    [path |-> trail.path \cup {line}, session |-> Apply(trail.session, line)]

TrailTo(lines, id) ==
    LET trail[i \in 1..Len(lines)] ==
            Longer(IF lines[i].parent = NoRecord THEN Root
                   ELSE trail[ParentOf(lines, i)], lines[i])
    IN  IF id = NoRecord THEN Root ELSE trail[LineOf(lines, id)]

PathTo(lines, id) == TrailTo(lines, id).path

Project(lines, id) == TrailTo(lines, id).session

Ancestors(lines, id) == {l.id : l \in PathTo(lines, id)}

Finished(lines, id) == Unfinished(Project(lines, id)) = {}

\* The run_started record of run r on the way to record id, if any.
RunStarts(lines, id, r) ==
    {l \in PathTo(lines, id) : l.kind = "run_started" /\ l.run = r}

\* _add_record, _branch_from_record: the line fits those before it.
Fits(lines, line) ==
    /\ line.kind # "garbage"
    /\ line.id # NoRecord
    /\ ~Known(lines, line.id)
    /\ line.rev = Len(lines) + 1
    /\ line.parent # NoRecord => Known(lines, line.parent)
    /\ IF line.kind = "branch_created"
       THEN /\ line.branch # Main
            /\ HeadOf(lines, line.branch) = NoRecord
            /\ HeadOf(lines, line.source) # NoRecord
            /\ HeadOf(lines, line.source) = line.sourceHead
            /\ IF line.parent = NoRecord THEN line.run # NoRun
               ELSE line.parent \in Ancestors(lines, line.sourceHead)
       ELSE /\ line.parent = HeadOf(lines, line.branch)
            /\ line.parent = NoRecord => line.branch = Main
    /\ CanApply(Project(lines, line.parent), line)

\* _read_sync accepts every complete line.
Readable(lines) ==
    \A i \in 1..Len(lines) : Fits(SubSeq(lines, 1, i - 1), lines[i])

\* It skips an incomplete line, but not as the first one.
CanRead == Readable(file) /\ (torn => file # <<>>)

-----------------------------------------------------------------------------

Idle == [pc |-> "free", op |-> "append", draft |-> Draft("checkpoint", Main),
         check |-> FALSE, expected |-> NoRecord, owner |-> None, valid |-> 0]
Detached == [pc |-> "detached", branch |-> Main, run |-> NoRun, n |-> 0,
             draft |-> Draft("checkpoint", Main), expected |-> NoRecord,
             ending |-> FALSE, missed |-> FALSE]

Init ==
    /\ setup \in Setups
    /\ file = <<>>
    /\ torn = FALSE
    /\ synced = 0
    /\ lock = None
    /\ job = [t \in Threads |-> Idle]
    /\ rec = [r \in Recorders |-> Detached]
    /\ view = [r \in Recorders |-> {}]
    /\ acked = {}
    /\ made = [records |-> 0, runs |-> 0, cancels |-> 0, crashes |-> 0]

-----------------------------------------------------------------------------
(* The calls of a storage: each takes the lock and a thread.               *)

Call(t, op, draft, check, expected, owner) ==
    /\ lock = None
    /\ job[t].pc = "free"
    /\ lock' = t
    /\ job' = [job EXCEPT ![t] =
                 [Idle EXCEPT !.pc = "reading", !.op = op, !.draft = draft,
                              !.check = check, !.expected = expected,
                              !.owner = owner]]

\* fork and rollback: a new branch at the head or at a record of another.
\* Naming the main branch only raises.
CreateBranch(t) ==
    \E b \in setup.branches \ {Main}, source \in setup.branches,
       base \in {NoRecord} \cup {l.id : l \in Range(file)} :
        /\ Call(t, "branch",
                [Draft("branch_created", b) EXCEPT !.source = source,
                                                   !.parent = base],
                FALSE, NoRecord, None)
        /\ UNCHANGED <<file, torn, synced, rec, view, acked, made>>

PrepareRetry(t) ==
    \E b \in setup.branches \ {Main}, source \in setup.branches, r \in 1..made.runs :
        /\ Call(t, "retry",
                [Draft("branch_created", b) EXCEPT !.source = source, !.run = r],
                FALSE, NoRecord, None)
        /\ UNCHANGED <<file, torn, synced, rec, view, acked, made>>

\* save appends a checkpoint of a session loaded from main at some time.
Save(t) ==
    /\ setup.save
    /\ Readable(file)
    /\ \E i \in 1..Len(file) :
        LET then == SubSeq(file, 1, i) IN
        Call(t, "append",
             [Draft("checkpoint", Main) EXCEPT
                !.saved = Project(then, HeadOf(then, Main))],
             FALSE, NoRecord, None)
    /\ UNCHANGED <<file, torn, synced, rec, view, acked, made>>

-----------------------------------------------------------------------------
(* The work of a thread: _append_sync, _create_branch_sync and             *)
(* _prepare_retry_sync, then _write_record_sync.                           *)

\* Mutant: a retry branches at the head of its source.
MutantRetryBase(lines, source, start) == HeadOf(lines, source)
RetryBase(lines, source, start) == start.parent

\* Mutant: the head is not compared.
MutantHeadMatches(lines, j) == TRUE
HeadMatches(lines, j) ==
    j.check => HeadOf(lines, j.draft.branch) = j.expected

\* The records a job may append to the lines it has read: none, when its
\* checks raise, or one.
Candidates(lines, j) ==
    LET d == [j.draft EXCEPT !.id = made.records + 1, !.rev = Len(lines) + 1]
        source == HeadOf(lines, d.source)
        branched == [d EXCEPT !.sourceHead = source]
    IN  {l \in
           CASE j.op = "append" ->
                  IF \/ HeadOf(lines, d.branch) = NoRecord /\ d.branch # Main
                     \/ ~HeadMatches(lines, j)
                  THEN {}
                  ELSE {[d EXCEPT !.parent = HeadOf(lines, d.branch)]}
             [] j.op = "branch" ->
                  LET base == IF d.parent = NoRecord THEN source ELSE d.parent
                  IN  IF source # NoRecord /\ Known(lines, base)
                      THEN {[branched EXCEPT !.parent = base]} ELSE {}
             [] j.op = "retry" ->
                  {[branched EXCEPT !.parent = RetryBase(lines, d.source, start)] :
                      start \in RunStarts(lines, source, d.run)}
         : /\ Fits(lines, l)
           /\ j.op # "append" => Finished(lines, l.parent)}

ReadJournal(t) ==
    /\ job[t].pc = "reading"
    /\ IF CanRead /\ Candidates(file, job[t]) # {}
       THEN /\ made.records < setup.records
            /\ made' = [made EXCEPT !.records = @ + 1]
            /\ \E l \in Candidates(file, job[t]) :
                job' = [job EXCEPT ![t].pc = "opened", ![t].draft = l,
                                   ![t].valid = Len(file)]
       ELSE /\ job' = [job EXCEPT ![t] = [Idle EXCEPT !.pc = "failed",
                                                       !.owner = job[t].owner]]
            /\ UNCHANGED made
    /\ UNCHANGED <<file, torn, synced, lock, rec, view, acked>>

\* Mutant: what follows the lines that were read is left in place.
MutantRepaired(valid) == UNCHANGED <<file, torn, synced>>

\* Everything behind the lines that were read is cut off.
Repaired(valid) ==
    IF valid < Len(file) \/ (torn /\ valid = Len(file))
    THEN /\ file' = SubSeq(file, 1, valid)
         /\ torn' = FALSE
         /\ synced' = IF synced < valid THEN synced ELSE valid
    ELSE UNCHANGED <<file, torn, synced>>

RepairTail(t) ==
    /\ job[t].pc = "opened"
    /\ Repaired(job[t].valid)
    /\ job' = [job EXCEPT ![t].pc = "writing"]
    /\ UNCHANGED <<lock, rec, view, acked, made>>

WriteLine(t) ==
    /\ job[t].pc = "writing"
    /\ \/ /\ file' = Append(file, IF torn THEN Garbage ELSE job[t].draft)
          /\ torn' = FALSE
          /\ job' = [job EXCEPT ![t].pc = "syncing"]
       \/ /\ torn' = TRUE   \* a partial write raises OSError
          /\ job' = [job EXCEPT ![t].pc = "failed"]
          /\ UNCHANGED file
    /\ UNCHANGED <<synced, lock, rec, view, acked, made>>

\* Mutant: the descriptor is closed without fsync.
MutantFlushed == synced
Flushed == Len(file)

SyncFile(t) ==
    /\ job[t].pc = "syncing"
    /\ \/ /\ synced' = Flushed
          /\ job' = [job EXCEPT ![t].pc = "done"]
       \/ /\ job' = [job EXCEPT ![t].pc = "failed"]
          /\ UNCHANGED synced
    /\ UNCHANGED <<file, torn, lock, rec, view, acked, made>>

-----------------------------------------------------------------------------
(* The recorder: SessionRecorder.emit, one event at a time.                *)

\* What was recorded, or not, leaves the run going; its last event ends it.
AfterSuccess(x) ==
    IF x.draft.kind = "run_finished"
    THEN [x EXCEPT !.pc = "idle", !.run = NoRun, !.n = 0, !.ending = FALSE]
    ELSE [x EXCEPT !.pc = "idle"]

\* AgentEventEmitter.emit logs an exception of its sink and goes on.
AfterFailure(x) == [AfterSuccess(x) EXCEPT !.missed = TRUE]

\* A cancellation passes through it: of the run, only its AgentFinished is
\* still emitted.
AfterCancel(x) ==
    LET y == AfterFailure(x) IN [y EXCEPT !.ending = (y.run # NoRun)]

\* restore_session of a checkout without unfinished runs, or a new session.
Attach(r) ==
    /\ rec[r].pc = "detached"
    /\ Cardinality({q \in Recorders : rec[q].pc # "detached"}) < setup.recorders
    /\ lock = None
    /\ CanRead
    /\ \E b \in setup.branches :
        /\ HeadOf(file, b) # NoRecord \/ (b = Main /\ file = <<>>)
        /\ ~setup.shared => \A q \in Recorders :
                        rec[q].pc = "detached" \/ rec[q].branch # b
        /\ Finished(file, HeadOf(file, b))
        /\ rec' = [rec EXCEPT ![r].pc = "idle", ![r].branch = b]
        /\ view' = [view EXCEPT ![r] = Remembered(Project(file, HeadOf(file, b)))]
    /\ UNCHANGED <<file, torn, synced, lock, job, acked, made>>

\* An event that the recorder keeps: the agent has it in its history first.
EmitEvent(r, kind, run, n) ==
    LET known == IF kind \in {"run_started", "message_appended"}
                 THEN view[r] \cup {<<run, n>>} ELSE view[r]
    IN  /\ rec[r].pc = "idle"
        /\ rec' = [rec EXCEPT ![r].pc = "event", ![r].run = run, ![r].n = n,
                     ![r].draft = [Draft(kind, rec[r].branch) EXCEPT
                                     !.run = run, !.n = n,
                                     !.kept = IF kind = "compaction_applied"
                                              THEN known ELSE {}]]
        /\ view' = [view EXCEPT ![r] = known]
        /\ UNCHANGED <<file, torn, synced, lock, job, acked>>

AgentStarts(r) ==
    /\ rec[r].run = NoRun
    /\ made.runs < MaxRuns
    /\ EmitEvent(r, "run_started", made.runs + 1, 1)
    /\ made' = [made EXCEPT !.runs = @ + 1]

AgentSpeaks(r) ==
    /\ rec[r].run # NoRun
    /\ ~rec[r].ending
    /\ rec[r].n <= setup.messages
    /\ EmitEvent(r, "message_appended", rec[r].run, rec[r].n + 1)
    /\ UNCHANGED made

\* Inside a run or between runs; its number in the run is not looked at.
AgentCompacts(r) ==
    /\ ~rec[r].ending
    /\ EmitEvent(r, "compaction_applied", rec[r].run, rec[r].n)
    /\ UNCHANGED made

AgentFinishes(r) ==
    /\ rec[r].run # NoRun
    /\ EmitEvent(r, "run_finished", rec[r].run, rec[r].n + 1)
    /\ UNCHANGED made

\* checkout of the branch, and the event applied to its projection.
CheckEvent(r) ==
    LET x == rec[r]
        head == HeadOf(file, x.branch) IN
    /\ x.pc = "event"
    /\ lock = None
    /\ rec' = [rec EXCEPT ![r] =
                 IF /\ CanRead
                    /\ head # NoRecord \/ x.branch = Main
                    /\ CanApply(Project(file, head), x.draft)
                 THEN [x EXCEPT !.pc = "checked", !.expected = head]
                 ELSE AfterFailure(x)]
    /\ UNCHANGED <<file, torn, synced, lock, job, view, acked, made>>

AppendEvent(r, t) ==
    /\ rec[r].pc = "checked"
    /\ Call(t, "append", rec[r].draft, TRUE, rec[r].expected, r)
    /\ rec' = [rec EXCEPT ![r].pc = "appending"]
    /\ UNCHANGED <<file, torn, synced, view, acked, made>>

\* The recorder, if it made the call, learns how it ended.
Inform(owner, told) ==
    IF owner = None THEN UNCHANGED rec ELSE rec' = [rec EXCEPT ![owner] = told]

\* The thread is done; its caller, if still there, is resumed.
Return(t) ==
    /\ job[t].pc \in {"done", "failed"}
    /\ job' = [job EXCEPT ![t] = Idle]
    /\ IF lock = t
       THEN LET x == rec[job[t].owner] IN
            /\ lock' = None
            /\ IF job[t].pc = "done"
               THEN /\ acked' = acked \cup {job[t].draft}
                    /\ Inform(job[t].owner, AfterSuccess(x))
               ELSE /\ acked' = acked
                    /\ Inform(job[t].owner, AfterFailure(x))
       ELSE UNCHANGED <<lock, acked, rec>>
    /\ UNCHANGED <<file, torn, synced, view, made>>

\* The caller is cancelled and releases the lock.  The thread goes on,
\* unless it was not running yet.
CancelCall(t) ==
    /\ made.cancels < MaxCancels
    /\ made' = [made EXCEPT !.cancels = @ + 1]
    /\ lock = t
    /\ lock' = None
    /\ Inform(job[t].owner, AfterCancel(rec[job[t].owner]))
    /\ \/ job' = [job EXCEPT ![t].owner = None]
       \/ job[t].pc = "reading" /\ job' = [job EXCEPT ![t] = Idle]
    /\ UNCHANGED <<file, torn, synced, view, acked>>

\* The agent is cancelled while its recorder waits for a lock or reads.
CancelEvent(r) ==
    /\ made.cancels < MaxCancels
    /\ made' = [made EXCEPT !.cancels = @ + 1]
    /\ rec[r].pc \in {"event", "checked"}
    /\ rec' = [rec EXCEPT ![r] = AfterCancel(@)]
    /\ UNCHANGED <<file, torn, synced, lock, job, view, acked>>

\* Everything but the file is gone.  A tail of the lines that were not
\* synced may be lost, the first lost line in part.
Crash ==
    /\ made.crashes < MaxCrashes
    /\ made' = [made EXCEPT !.crashes = @ + 1]
    /\ \E n \in synced..Len(file) :
        /\ file' = SubSeq(file, 1, n)
        /\ torn' \in IF n < Len(file) \/ torn
                        \/ \E t \in Threads : job[t].pc = "writing"
                     THEN BOOLEAN ELSE {FALSE}
        /\ synced' = n
    /\ lock' = None
    /\ job' = [t \in Threads |-> Idle]
    /\ rec' = [r \in Recorders |-> Detached]
    /\ view' = [r \in Recorders |-> {}]
    /\ UNCHANGED acked

-----------------------------------------------------------------------------

Step ==
    \/ \E t \in Threads :
        \/ CreateBranch(t) \/ PrepareRetry(t) \/ Save(t)
        \/ ReadJournal(t) \/ RepairTail(t) \/ WriteLine(t) \/ SyncFile(t)
        \/ Return(t) \/ CancelCall(t)
        \/ \E r \in Recorders : AppendEvent(r, t)
    \/ \E r \in Recorders :
        \/ Attach(r) \/ AgentStarts(r) \/ AgentSpeaks(r) \/ AgentCompacts(r)
        \/ AgentFinishes(r) \/ CheckEvent(r)
        \/ CancelEvent(r)
    \/ Crash

Next == Step /\ UNCHANGED setup

Spec == Init /\ [][Next]_vars

-----------------------------------------------------------------------------
(* Properties.                                                             *)

Kinds == {"checkpoint", "branch_created", "run_started", "message_appended",
          "compaction_applied", "run_finished"}
Entries == (1..MaxRuns) \X (1..setup.messages + 2)
Sessions == [runs : SUBSET (1..MaxRuns), done : SUBSET (1..MaxRuns),
             entries : Seq(Entries), kept : SUBSET Entries, covered : Nat]
Lines == [id : 0..setup.records, parent : 0..setup.records, branch : Branches,
          rev : 0..setup.records, kind : Kinds, run : 0..MaxRuns,
          n : 0..setup.messages + 2, source : Branches,
          sourceHead : 0..setup.records, saved : Sessions, kept : SUBSET Entries]

TypeOK ==
    /\ file \in Seq(Lines)
    /\ torn \in BOOLEAN
    /\ synced \in 0..Len(file)
    /\ lock \in Threads \cup {None}
    /\ job \in [Threads ->
                 [pc : {"free", "reading", "opened", "writing", "syncing",
                        "done", "failed"},
                  op : {"append", "branch", "retry"}, draft : Lines,
                  check : BOOLEAN, expected : 0..setup.records,
                  owner : Recorders \cup {None}, valid : 0..setup.records]]
    /\ rec \in [Recorders ->
                 [pc : {"detached", "idle", "event", "checked", "appending"},
                  branch : Branches, run : 0..MaxRuns, n : 0..setup.messages + 2,
                  draft : Lines, expected : 0..setup.records, ending : BOOLEAN,
                  missed : BOOLEAN]]
    /\ view \in [Recorders -> SUBSET Entries]
    /\ acked \subseteq Lines
    /\ made \in [records : 0..setup.records, runs : 0..MaxRuns,
                 cancels : 0..MaxCancels, crashes : 0..MaxCrashes]

\* Whatever was interrupted, failed or raced, every complete line of the file
\* is a record that a later read accepts and projects.
JournalReadable == Readable(file)

\* A record whose append was reported stays where it was written, through
\* crashes, repairs and later writers ("immutable ... Session records").
AcknowledgedDurable ==
    \A line \in acked : line.rev <= synced /\ file[line.rev] = line

\* A recorder's event is written behind the very record whose projection it
\* was checked against, however recorders and saves of one branch interleave.
EventFollowsChecked ==
    \A r \in Recorders, t \in Threads :
        job[t].owner = r /\ job[t].pc \in {"syncing", "done"} =>
            job[t].draft.parent = rec[r].expected

\* What is unfinished in s was started on the way to record id, from where
\* everything was finished.
Restartable(lines, s, id) ==
    \A r \in Unfinished(s) :
        \E start \in RunStarts(lines, id, r) : Finished(lines, start.parent)

\* A run left unfinished at the head of a branch, by a crash or a failed
\* write, can always be retried: its start is recorded and what preceded it
\* was complete.
Recoverable ==
    \A b \in setup.branches :
        LET head == HeadOf(file, b) IN Restartable(file, Project(file, head), head)

\* A retry branch starts before the run it retries and from a projection
\* without unfinished runs.
RetryStartsBefore ==
    \A i \in 1..Len(file) :
        file[i].kind = "branch_created" /\ file[i].run # NoRun =>
            LET s == Project(file, file[i].id) IN
            file[i].run \notin s.runs /\ Unfinished(s) = {}

\* An agent restored from its branch would remember what the running agent
\* remembers, through compactions, branching and crashes, as long as every
\* event reached the journal and nobody else writes to the branch.
RestoreMatches ==
    ~setup.shared /\ ~setup.save => \A r \in Recorders :
        rec[r].pc = "idle" /\ ~rec[r].missed =>
            Remembered(Project(file, HeadOf(file, rec[r].branch))) = view[r]

-----------------------------------------------------------------------------
(* The log that its users see.                                             *)

Log == INSTANCE SessionLog WITH log <- file

\* The journal is a log of immutable records: it only grows, by the record of
\* one call at a time, and a crash takes nothing that was reported.
DurableLog == Log!Spec

-----------------------------------------------------------------------------
(* The invariants behind them, for SessionJournal_proof.                   *)

\* Drafts, threads and recorders keep the fields they are made with.
IsLine(d) ==
    {"id", "parent", "branch", "rev", "kind", "run", "n", "source", "sourceHead",
     "saved", "kept"} \subseteq DOMAIN d
JobFields(j) ==
    {"pc", "op", "draft", "check", "expected", "owner", "valid"} \subseteq DOMAIN j
RecFields(x) ==
    {"pc", "branch", "run", "n", "draft", "expected", "ending", "missed"}
        \subseteq DOMAIN x
Shapes ==
    /\ job = [t \in Threads |-> job[t]]
    /\ rec = [r \in Recorders |-> rec[r]]
    /\ \A t \in Threads : /\ JobFields(job[t])
                          /\ job[t].pc = "reading" => IsLine(job[t].draft)
    /\ \A r \in Recorders : RecFields(rec[r]) /\ IsLine(rec[r].draft)

\* A thread that works for a recorder has its lock, and the recorder waits
\* for it; what it has read is what the recorder's check expects.
OwnedCall(t) ==
    LET x == rec[job[t].owner] IN
    job[t].owner # None =>
        /\ job[t].owner \in Recorders
        /\ lock = t
        /\ x.pc = "appending"
        /\ job[t].pc = "reading" =>
              job[t].op = "append" /\ job[t].check /\ job[t].expected = x.expected
        /\ job[t].pc \notin {"reading", "failed"} =>
              job[t].draft.parent = x.expected
OwnedCalls == \A t \in Threads : OwnedCall(t)

CallInv == Shapes /\ OwnedCalls

\* No two threads work on the journal at one time.
OneWriter ==
    \A t, u \in Threads : job[t].pc # "free" /\ job[u].pc # "free" => t = u

\* What a thread has read is still the journal when it writes behind it, and
\* what it wrote is the end of the journal until it returns.
CurrentJob(j) ==
    /\ j.pc = "opened" => j.valid = Len(file)
    /\ j.pc = "writing" => ~torn
    /\ j.pc \in {"opened", "writing"} => Fits(file, j.draft)
    /\ j.pc \in {"syncing", "done"} =>
          /\ j.draft.rev = Len(file)
          /\ file # <<>> /\ file[Len(file)] = j.draft
    /\ j.pc = "done" => synced = Len(file)

\* What was reported is on disk.
AckedInFile ==
    \A line \in acked : line.rev \in 1..synced /\ file[line.rev] = line

FileInv ==
    /\ file \in Seq(Range(file))
    /\ synced \in 0..Len(file)
    /\ \A t \in Threads : CurrentJob(job[t])
    /\ AckedInFile
    /\ JournalReadable

\* What a record projects to, and a checkpoint may hold.
IsSession(s) ==
    /\ {"runs", "done", "entries", "kept", "covered"} \subseteq DOMAIN s
    /\ s.entries \in Seq(Range(s.entries))
    /\ s.covered \in 0..Len(s.entries)

\* A retry goes back to where its run was started.
GoesBack(lines, line) ==
    line.kind = "branch_created" /\ line.run # NoRun =>
        \E start \in Range(lines) :
            /\ start.kind = "run_started" /\ start.run = line.run
            /\ start.parent = line.parent

\* What is recorded can be projected and retried.
Sound(lines) ==
    \A i \in 1..Len(lines) :
        LET s == Project(lines, lines[i].id) IN
        /\ IsSession(s)
        /\ Restartable(lines, s, lines[i].id)
        /\ GoesBack(SubSeq(lines, 1, i - 1), lines[i])

\* So can what a thread is going to record.
DraftSound(lines, j) ==
    /\ j.pc \in {"reading", "opened", "writing"} /\ j.draft.kind = "checkpoint" =>
          /\ j.draft.branch = Main /\ IsSession(j.draft.saved)
          /\ Restartable(lines, j.draft.saved, HeadOf(lines, Main))
    /\ j.pc = "reading" =>
          /\ j.op \in {"append", "branch", "retry"}
          /\ j.op = "append" => j.draft.kind # "branch_created"
          /\ j.op = "branch" => j.draft.run = NoRun
    /\ j.pc \in {"opened", "writing"} => GoesBack(lines, j.draft)

EventKinds ==
    {"run_started", "message_appended", "compaction_applied", "run_finished"}

SessionInv ==
    /\ Sound(file)
    /\ \A t \in Threads : DraftSound(file, job[t])
    /\ \A r \in Recorders :
          rec[r].pc \in {"event", "checked"} => rec[r].draft.kind \in EventKinds

\* Thread t has still to write the event of recorder r, or has written it.
ToWrite(t, r) ==
    job[t].owner = r /\ job[t].pc \in {"reading", "opened", "writing"}
Wrote(t, r) == job[t].owner = r /\ job[t].pc \in {"syncing", "done"}

\* Recorder r has its branch to itself, or has missed an event.
BranchExists(r) == rec[r].branch = Main \/ HeadOf(file, rec[r].branch) # NoRecord
Apart(r) ==
    \A q \in Recorders \ {r} : rec[q].pc # "detached" => rec[q].branch # rec[r].branch

\* What is appended to a branch is the event of its recorder, or was cancelled.
AppendsOwn(j) ==
    j.pc \in {"reading", "opened", "writing"} =>
        /\ j.op \in {"append", "branch", "retry"}
        /\ j.op # "append" => j.draft.kind = "branch_created"
        /\ j.op = "append" =>
              \E r \in Recorders :
                 /\ rec[r].pc # "detached" /\ rec[r].branch = j.draft.branch
                 /\ j.owner = r \/ rec[r].missed

SameEvent(d, e) ==
    /\ d.branch = e.branch /\ d.kind = e.kind
    /\ d.run = e.run /\ d.n = e.n /\ d.kept = e.kept

\* An agent remembers what its branch projects to, with the event that is on
\* its way there.
Recorded(r) == rec[r].pc = "idle" \/ \E t \in Threads : Wrote(t, r)
Pending(r) ==
    rec[r].pc \in {"event", "checked"} \/ \E t \in Threads : ToWrite(t, r)
Remembers(r) ==
    LET s == Project(file, HeadOf(file, rec[r].branch)) IN
    /\ Recorded(r) => view[r] = Remembered(s)
    /\ Pending(r) => view[r] = Remembered(Apply(s, rec[r].draft))

OwnCall(t) ==
    /\ AppendsOwn(job[t])
    /\ \A r \in Recorders :
          ToWrite(t, r) => SameEvent(job[t].draft, rec[r].draft)
OwnBranch(r) ==
    rec[r].pc # "detached" =>
        /\ BranchExists(r) /\ Apart(r)
        /\ rec[r].pc # "idle" =>
              /\ rec[r].draft.branch = rec[r].branch
              /\ rec[r].draft.kind \in EventKinds
        /\ ~rec[r].missed => Remembers(r)

Separate == ~setup.shared /\ ~setup.save
RestoreInv ==
    Separate => /\ \A t \in Threads : OwnCall(t)
                /\ \A r \in Recorders : OwnBranch(r)
                /\ DOMAIN view = Recorders
==============================================================================
