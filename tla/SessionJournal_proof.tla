------------------------ MODULE SessionJournal_proof ------------------------
(***************************************************************************)
(* Proofs about SessionJournal, for any recorders, threads and branches,   *)
(* any ways of using the session and any bounds.                           *)
(*                                                                         *)
(* What a recorder appends follows what it checked, whatever else goes on. *)
(* As long as no two threads work on the journal at one time, every line   *)
(* of the file can be read, what was reported is durable, the journal      *)
(* implements SessionLog, whatever a run was interrupted by it can be      *)
(* retried, and an agent restored from a branch of its own remembers what  *)
(* the agent did that wrote it.  A record projects to what its parent      *)
(* projects to and its own event (TrailTo, a recursion along the parents,  *)
(* which come before it), so that later records leave it alone.            *)
(***************************************************************************)
EXTENDS SessionJournal, Aggregates_proof, SequenceTheorems, TLAPS

-----------------------------------------------------------------------------
(* Records, threads and recorders.                                         *)

\* A new draft is a line.
LEMMA DraftIsLine ==
    ASSUME NEW kind, NEW branch
    PROVE  /\ IsLine(Draft(kind, branch))
           /\ Draft(kind, branch).kind = kind
           /\ Draft(kind, branch).branch = branch
  BY DEF IsLine, Draft

\* A thread and a recorder that are not at work.
LEMMA Resting ==
    /\ Idle.pc = "free" /\ Idle.owner = None /\ IsLine(Idle.draft)
    /\ JobFields(Idle)
    /\ Detached.pc = "detached" /\ IsLine(Detached.draft)
    /\ RecFields(Detached)
  BY DraftIsLine DEF Idle, Detached, JobFields, RecFields

\* What a call of a thread may append fits the lines it read.
LEMMA CandidatesFit ==
    ASSUME NEW lines, NEW j, NEW l \in Candidates(lines, j)
    PROVE  Fits(lines, l)
  BY DEF Candidates

\* A checked append is written behind the record that it expects.
LEMMA CandidatesFollow ==
    ASSUME NEW lines, NEW j, NEW l \in Candidates(lines, j),
           IsLine(j.draft), j.op = "append", j.check
    PROVE  l.parent = j.expected
<1> DEFINE d == [j.draft EXCEPT !.id = made.records + 1, !.rev = Len(lines) + 1]
<1>1. /\ l = [d EXCEPT !.parent = HeadOf(lines, d.branch)]
      /\ HeadMatches(lines, j)
  BY DEF Candidates
<1>2. d.branch = j.draft.branch /\ "parent" \in DOMAIN d
  BY DEF IsLine
<1>3. l.parent = HeadOf(lines, d.branch)
  BY <1>1, <1>2
<1> QED
  BY <1>1, <1>2, <1>3 DEF HeadMatches

\* What happens to a recorder's event leaves its event and its fields.
LEMMA AfterEvent ==
    ASSUME NEW x, RecFields(x), IsLine(x.draft)
    PROVE  /\ RecFields(AfterSuccess(x)) /\ IsLine(AfterSuccess(x).draft)
           /\ RecFields(AfterFailure(x)) /\ IsLine(AfterFailure(x).draft)
           /\ RecFields(AfterCancel(x)) /\ IsLine(AfterCancel(x).draft)
<1>1. ASSUME NEW y, RecFields(y), IsLine(y.draft)
      PROVE  /\ RecFields(AfterSuccess(y))
             /\ AfterSuccess(y).draft = y.draft
  <2>1. CASE y.draft.kind = "run_finished"
    <3>1. AfterSuccess(y) =
            [y EXCEPT !.pc = "idle", !.run = NoRun, !.n = 0, !.ending = FALSE]
      BY <2>1 DEF AfterSuccess
    <3> QED
      BY <1>1, <3>1 DEF RecFields
  <2>2. CASE y.draft.kind # "run_finished"
    <3>1. AfterSuccess(y) = [y EXCEPT !.pc = "idle"]
      BY <2>2 DEF AfterSuccess
    <3> QED
      BY <1>1, <3>1 DEF RecFields
  <2> QED
    BY <2>1, <2>2
<1>2. /\ RecFields(AfterSuccess(x))
      /\ AfterSuccess(x).draft = x.draft
  BY <1>1
<1>3. /\ RecFields(AfterFailure(x))
      /\ AfterFailure(x).draft = x.draft
  BY <1>2 DEF AfterFailure, RecFields
<1>4. /\ RecFields(AfterCancel(x))
      /\ AfterCancel(x).draft = x.draft
  BY <1>3 DEF AfterCancel, RecFields
<1> QED
  BY <1>2, <1>3, <1>4

-----------------------------------------------------------------------------
(* Calls and the recorders that wait for them.                             *)

\* A step of a recorder that waits for no call.
LEMMA RecorderStep ==
    ASSUME CallInv, UNCHANGED <<job, lock>>,
           NEW r \in Recorders, NEW x,
           rec[r].pc # "appending", rec' = [rec EXCEPT ![r] = x],
           RecFields(x), IsLine(x.draft)
    PROVE  CallInv'
<1>0. Shapes /\ OwnedCalls
  BY DEF CallInv
<1>1. /\ rec'[r] = x
      /\ \A q \in Recorders : q # r => rec'[q] = rec[q]
      /\ rec' = [q \in Recorders |-> rec'[q]]
  BY <1>0 DEF Shapes
<1>2. Shapes'
  BY <1>0, <1>1 DEF Shapes
<1>3. ASSUME NEW t \in Threads
      PROVE  OwnedCall(t)'
  BY <1>0, <1>1 DEF OwnedCalls, OwnedCall
<1> QED
  BY <1>2, <1>3 DEF CallInv, OwnedCalls

\* A step of a thread, whose caller neither comes nor goes.
LEMMA ThreadStep ==
    ASSUME CallInv, UNCHANGED <<rec, lock>>,
           NEW t \in Threads, NEW j,
           job' = [job EXCEPT ![t] = j],
           JobFields(j), j.pc # "reading",
           j.owner # None =>
              /\ j.owner = job[t].owner
              /\ j.pc # "failed" => j.draft.parent = rec[j.owner].expected
    PROVE  CallInv'
<1>0. Shapes /\ OwnedCalls
  BY DEF CallInv
<1>1. /\ job'[t] = j
      /\ \A u \in Threads : u # t => job'[u] = job[u]
      /\ job' = [u \in Threads |-> job'[u]]
  BY <1>0 DEF Shapes
<1>2. Shapes'
  BY <1>0, <1>1 DEF Shapes
<1>3. ASSUME NEW u \in Threads
      PROVE  OwnedCall(u)'
  BY <1>0, <1>1 DEF OwnedCalls, OwnedCall
<1> QED
  BY <1>2, <1>3 DEF CallInv, OwnedCalls

\* Thread t, whose call begins or ends, goes on as j; a caller that it now
\* has waits for it with the lock.
CallerMoves(t, j) ==
    /\ lock \in {None, t}
    /\ job' = [job EXCEPT ![t] = j]
    /\ JobFields(j)
    /\ j.pc = "reading" => IsLine(j.draft)
    /\ rec' = [r \in Recorders |-> rec'[r]]
    /\ \A r \in Recorders : RecFields(rec'[r]) /\ IsLine(rec'[r].draft)
    /\ j.owner # None =>
          /\ j.owner \in Recorders /\ lock' = t /\ j.pc = "reading"
          /\ rec'[j.owner].pc = "appending"
          /\ j.op = "append" /\ j.check
          /\ j.expected = rec'[j.owner].expected

\* A call begins or ends: until then no other thread has a caller.
LEMMA CallerStep ==
    ASSUME CallInv, NEW t \in Threads, NEW j, CallerMoves(t, j)
    PROVE  CallInv'
<1> USE DEF CallerMoves
<1>0. Shapes /\ OwnedCalls
  BY DEF CallInv
<1>1. /\ job'[t] = j
      /\ \A u \in Threads : u # t => job'[u] = job[u]
      /\ job' = [u \in Threads |-> job'[u]]
  BY <1>0 DEF Shapes
<1>2. Shapes'
  BY <1>0, <1>1 DEF Shapes
<1>3. ASSUME NEW u \in Threads
      PROVE  OwnedCall(u)'
  <2>1. CASE u = t
    BY <1>1, <2>1 DEF OwnedCall
  <2>2. CASE u # t
    <3>1. None \notin Threads
      BY JournalAssumption
    <3>2. job[u].owner = None
      BY <1>0, <2>2, <3>1 DEF OwnedCalls, OwnedCall
    <3> QED
      BY <1>1, <2>2, <3>2 DEF OwnedCall
  <2> QED
    BY <2>1, <2>2
<1> QED
  BY <1>2, <1>3 DEF CallInv, OwnedCalls

\* What a call asks of its thread.
Asked(op, draft, check, expected, owner) ==
    [Idle EXCEPT !.pc = "reading", !.op = op, !.draft = draft, !.check = check,
                 !.expected = expected, !.owner = owner]

\* The calls of the program.
LEMMA ProgramCalls ==
    ASSUME CallInv, NEW t \in Threads,
           CreateBranch(t) \/ PrepareRetry(t) \/ Save(t)
    PROVE  CallInv'
<1>1. PICK op, draft : /\ Call(t, op, draft, FALSE, NoRecord, None)
                       /\ IsLine(draft)
  <2>1. CASE CreateBranch(t)
    <3>1. PICK b, source, base :
             Call(t, "branch",
                  [Draft("branch_created", b) EXCEPT !.source = source,
                                                     !.parent = base],
                  FALSE, NoRecord, None)
      BY <2>1 DEF CreateBranch
    <3>2. IsLine([Draft("branch_created", b) EXCEPT !.source = source,
                                                    !.parent = base])
      BY DEF Draft, IsLine
    <3> QED
      BY <3>1, <3>2
  <2>2. CASE PrepareRetry(t)
    <3>1. PICK b, source, r :
             Call(t, "retry",
                  [Draft("branch_created", b) EXCEPT !.source = source, !.run = r],
                  FALSE, NoRecord, None)
      BY <2>2 DEF PrepareRetry
    <3>2. IsLine([Draft("branch_created", b) EXCEPT !.source = source, !.run = r])
      BY DEF Draft, IsLine
    <3> QED
      BY <3>1, <3>2
  <2>3. CASE Save(t)
    <3>1. PICK saved :
             Call(t, "append", [Draft("checkpoint", Main) EXCEPT !.saved = saved],
                  FALSE, NoRecord, None)
      BY <2>3 DEF Save
    <3>2. IsLine([Draft("checkpoint", Main) EXCEPT !.saved = saved])
      BY DEF Draft, IsLine
    <3> QED
      BY <3>1, <3>2
  <2> QED
    BY <2>1, <2>2, <2>3
<1>2. rec' = rec
  BY DEF CreateBranch, PrepareRetry, Save
<1> DEFINE j == Asked(op, draft, FALSE, NoRecord, None)
<1>3. lock = None /\ lock' = t /\ job' = [job EXCEPT ![t] = j]
  BY <1>1 DEF Call, Asked
<1>4. JobFields(j) /\ j.draft = draft /\ j.owner = None
  BY DEF Asked, Idle, JobFields
<1> HIDE DEF j
<1>5. CallerMoves(t, j)
  BY <1>1, <1>2, <1>3, <1>4 DEF CallInv, Shapes, CallerMoves
<1> QED
  BY <1>5, CallerStep

\* The call of a recorder.
LEMMA RecorderCalls ==
    ASSUME CallInv, NEW t \in Threads, NEW r \in Recorders, AppendEvent(r, t)
    PROVE  CallInv'
<1>0. Shapes
  BY DEF CallInv
<1> DEFINE j == Asked("append", rec[r].draft, TRUE, rec[r].expected, r)
<1>1. lock = None /\ lock' = t /\ job' = [job EXCEPT ![t] = j]
  BY DEF AppendEvent, Call, Asked
<1>4. /\ JobFields(j) /\ j.pc = "reading" /\ j.op = "append"
      /\ j.draft = rec[r].draft /\ j.check = TRUE
      /\ j.expected = rec[r].expected /\ j.owner = r
  BY DEF Asked, Idle, JobFields
<1>2. rec' = [rec EXCEPT ![r].pc = "appending"]
  BY DEF AppendEvent
<1>3. /\ rec' = [q \in Recorders |-> rec'[q]]
      /\ \A q \in Recorders : RecFields(rec'[q]) /\ rec'[q].draft = rec[q].draft
      /\ rec'[r].pc = "appending" /\ rec'[r].expected = rec[r].expected
  BY <1>0, <1>2 DEF Shapes, RecFields
<1> HIDE DEF j
<1>5. CallerMoves(t, j)
  BY <1>0, <1>1, <1>3, <1>4 DEF Shapes, CallerMoves
<1> QED
  BY <1>5, CallerStep

\* The work of a thread.
LEMMA ThreadWorks ==
    ASSUME CallInv, NEW t \in Threads,
           ReadJournal(t) \/ RepairTail(t) \/ WriteLine(t) \/ SyncFile(t)
    PROVE  CallInv'
<1>0. /\ Shapes /\ OwnedCall(t)
      /\ JobFields(job[t])
  BY DEF CallInv, OwnedCalls, Shapes
<1>1. rec' = rec /\ lock' = lock
  BY DEF ReadJournal, RepairTail, WriteLine, SyncFile
<1>2. CASE ReadJournal(t)
  <2>1. CASE CanRead /\ Candidates(file, job[t]) # {}
    <3>1. PICK l \in Candidates(file, job[t]) :
             job' = [job EXCEPT ![t].pc = "opened", ![t].draft = l,
                                ![t].valid = Len(file)]
      BY <1>2, <2>1 DEF ReadJournal
    <3> DEFINE j == [job[t] EXCEPT !.pc = "opened", !.draft = l,
                                   !.valid = Len(file)]
    <3>2. job' = [job EXCEPT ![t] = j]
      BY <3>1, <1>0 DEF Shapes
    <3>3. /\ JobFields(j) /\ j.pc = "opened" /\ j.owner = job[t].owner
          /\ j.draft = l
      BY <1>0 DEF JobFields
    <3>4. j.owner # None => j.draft.parent = rec[j.owner].expected
      <4> SUFFICES ASSUME job[t].owner # None
                   PROVE  l.parent = rec[job[t].owner].expected
        BY <3>3
      <4>1. job[t].pc = "reading"
        BY <1>2 DEF ReadJournal
      <4>2. /\ job[t].op = "append" /\ job[t].check
            /\ job[t].expected = rec[job[t].owner].expected
            /\ IsLine(job[t].draft)
        BY <1>0, <4>1 DEF OwnedCall, Shapes
      <4> QED
        BY <4>2, CandidatesFollow
    <3> HIDE DEF j
    <3> QED
      BY <1>1, <3>2, <3>3, <3>4, ThreadStep
  <2>2. CASE ~(CanRead /\ Candidates(file, job[t]) # {})
    <3> DEFINE j == [Idle EXCEPT !.pc = "failed", !.owner = job[t].owner]
    <3>1. job' = [job EXCEPT ![t] = j]
      BY <1>2, <2>2 DEF ReadJournal
    <3>2. JobFields(j) /\ j.pc = "failed" /\ j.owner = job[t].owner
      BY DEF Idle, JobFields
    <3> HIDE DEF j
    <3> QED
      BY <1>1, <3>1, <3>2, ThreadStep
  <2> QED
    BY <2>1, <2>2
<1>3. CASE RepairTail(t) \/ WriteLine(t) \/ SyncFile(t)
  <2>1. PICK pc \in {"writing", "syncing", "done", "failed"} :
           job' = [job EXCEPT ![t].pc = pc]
    BY <1>3 DEF RepairTail, WriteLine, SyncFile
  <2> DEFINE j == [job[t] EXCEPT !.pc = pc]
  <2>2. job' = [job EXCEPT ![t] = j]
    BY <2>1, <1>0 DEF Shapes
  <2>3. /\ JobFields(j) /\ j.pc = pc /\ j.owner = job[t].owner
        /\ j.draft = job[t].draft
    BY <1>0 DEF JobFields
  <2>4. job[t].pc \notin {"reading", "failed"}
    BY <1>3 DEF RepairTail, WriteLine, SyncFile
  <2>5. j.owner # None => j.draft.parent = rec[j.owner].expected
    BY <1>0, <2>3, <2>4 DEF OwnedCall
  <2> HIDE DEF j
  <2> QED
    BY <1>1, <2>2, <2>3, <2>5, ThreadStep
<1> QED
  BY <1>2, <1>3

\* The recorder of a call, if there is one, learns how it ended.
LEMMA Informed ==
    ASSUME CallInv, NEW owner, NEW told,
           owner # None => /\ owner \in Recorders
                           /\ RecFields(told) /\ IsLine(told.draft),
           Inform(owner, told)
    PROVE  /\ rec' = [r \in Recorders |-> rec'[r]]
           /\ \A r \in Recorders : RecFields(rec'[r]) /\ IsLine(rec'[r].draft)
  BY DEF CallInv, Shapes, Inform

\* The end of a call: its thread returns, or its caller is cancelled.
LEMMA CallEnds ==
    ASSUME CallInv, NEW t \in Threads, Return(t) \/ CancelCall(t)
    PROVE  CallInv'
<1>0. /\ Shapes /\ OwnedCall(t)
      /\ JobFields(job[t])
  BY DEF CallInv, OwnedCalls, Shapes
<1> DEFINE x == rec[job[t].owner]
<1>1. job[t].owner # None => /\ job[t].owner \in Recorders
                             /\ RecFields(x) /\ IsLine(x.draft)
  BY <1>0 DEF OwnedCall, Shapes
<1>2. job[t].owner # None =>
        /\ RecFields(AfterSuccess(x)) /\ IsLine(AfterSuccess(x).draft)
        /\ RecFields(AfterFailure(x)) /\ IsLine(AfterFailure(x).draft)
        /\ RecFields(AfterCancel(x)) /\ IsLine(AfterCancel(x).draft)
  BY <1>1, AfterEvent
<1> HIDE DEF x
<1>3. CASE Return(t) /\ lock # t
  <2>1. /\ job' = [job EXCEPT ![t] = Idle]
        /\ UNCHANGED <<rec, lock>>
    BY <1>3 DEF Return
  <2> QED
    BY <2>1, Resting, ThreadStep
<1>4. CASE Return(t) /\ lock = t
  <2>1. /\ job' = [job EXCEPT ![t] = Idle]
        /\ Inform(job[t].owner, AfterSuccess(x))
           \/ Inform(job[t].owner, AfterFailure(x))
    BY <1>4 DEF Return, x
  <2>2. /\ rec' = [r \in Recorders |-> rec'[r]]
        /\ \A r \in Recorders : RecFields(rec'[r]) /\ IsLine(rec'[r].draft)
    <3>1. CASE Inform(job[t].owner, AfterSuccess(x))
      BY <1>1, <1>2, <3>1, Informed
    <3>2. CASE Inform(job[t].owner, AfterFailure(x))
      BY <1>1, <1>2, <3>2, Informed
    <3> QED
      BY <2>1, <3>1, <3>2
  <2>3. CallerMoves(t, Idle)
    BY <1>4, <2>1, <2>2, Resting DEF CallerMoves
  <2> QED
    BY <2>3, CallerStep
<1>5. CASE CancelCall(t)
  <2>1. /\ lock = t
        /\ Inform(job[t].owner, AfterCancel(x))
    BY <1>5 DEF CancelCall, x
  <2>2. /\ rec' = [r \in Recorders |-> rec'[r]]
        /\ \A r \in Recorders : RecFields(rec'[r]) /\ IsLine(rec'[r].draft)
    BY <1>1, <1>2, <2>1, Informed
  <2>3. CASE job' = [job EXCEPT ![t] = Idle]
    <3>1. CallerMoves(t, Idle)
      BY <2>1, <2>2, <2>3, Resting DEF CallerMoves
    <3> QED
      BY <3>1, CallerStep
  <2>4. CASE job' = [job EXCEPT ![t].owner = None]
    <3> DEFINE j == [job[t] EXCEPT !.owner = None]
    <3>1. job' = [job EXCEPT ![t] = j]
      BY <1>0, <2>4 DEF Shapes
    <3>2. /\ JobFields(j) /\ j.pc = job[t].pc /\ j.owner = None
          /\ j.draft = job[t].draft
      BY <1>0 DEF JobFields
    <3>3. j.pc = "reading" => IsLine(j.draft)
      BY <1>0, <3>2 DEF Shapes
    <3> HIDE DEF j
    <3>4. CallerMoves(t, j)
      BY <2>1, <2>2, <3>1, <3>2, <3>3 DEF CallerMoves
    <3> QED
      BY <3>4, CallerStep
  <2> QED
    BY <1>5, <2>3, <2>4 DEF CancelCall
<1> QED
  BY <1>3, <1>4, <1>5

\* The events of a recorder, until its call.
LEMMA RecorderEvents ==
    ASSUME CallInv, NEW r \in Recorders,
           \/ Attach(r) \/ AgentStarts(r) \/ AgentSpeaks(r) \/ AgentCompacts(r)
           \/ AgentFinishes(r) \/ CheckEvent(r) \/ CancelEvent(r)
    PROVE  CallInv'
<1>0. /\ rec = [q \in Recorders |-> rec[q]]
      /\ RecFields(rec[r]) /\ IsLine(rec[r].draft)
  BY DEF CallInv, Shapes
<1>1. PICK x : /\ rec' = [rec EXCEPT ![r] = x]
               /\ RecFields(x) /\ IsLine(x.draft)
  <2>1. CASE Attach(r)
    <3>1. PICK b : rec' = [rec EXCEPT ![r].pc = "idle", ![r].branch = b]
      BY <2>1 DEF Attach
    <3> DEFINE x == [rec[r] EXCEPT !.pc = "idle", !.branch = b]
    <3>2. rec' = [rec EXCEPT ![r] = x]
      BY <1>0, <3>1
    <3>3. RecFields(x) /\ x.draft = rec[r].draft
      BY <1>0 DEF RecFields
    <3> QED
      BY <1>0, <3>2, <3>3
  <2>2. CASE AgentStarts(r) \/ AgentSpeaks(r) \/ AgentCompacts(r)
             \/ AgentFinishes(r)
    <3>1. PICK kind, run, n : EmitEvent(r, kind, run, n)
      BY <2>2 DEF AgentStarts, AgentSpeaks, AgentCompacts, AgentFinishes
    <3>2. PICK draft :
             /\ rec' = [rec EXCEPT ![r].pc = "event", ![r].run = run,
                                   ![r].n = n, ![r].draft = draft]
             /\ IsLine(draft)
      <4>1. PICK kept :
               rec' = [rec EXCEPT ![r].pc = "event", ![r].run = run, ![r].n = n,
                         ![r].draft = [Draft(kind, rec[r].branch) EXCEPT
                                         !.run = run, !.n = n, !.kept = kept]]
        BY <3>1 DEF EmitEvent
      <4>2. IsLine([Draft(kind, rec[r].branch) EXCEPT
                      !.run = run, !.n = n, !.kept = kept])
        BY DEF Draft, IsLine
      <4> QED
        BY <4>1, <4>2
    <3> DEFINE x == [rec[r] EXCEPT !.pc = "event", !.run = run, !.n = n,
                                   !.draft = draft]
    <3>3. rec' = [rec EXCEPT ![r] = x]
      BY <1>0, <3>2
    <3>4. RecFields(x) /\ x.draft = draft
      BY <1>0 DEF RecFields
    <3> QED
      BY <3>2, <3>3, <3>4
  <2>3. CASE CheckEvent(r)
    <3> DEFINE x == [rec[r] EXCEPT !.pc = "checked",
                                   !.expected = HeadOf(file, rec[r].branch)]
    <3>1. \/ rec' = [rec EXCEPT ![r] = x]
          \/ rec' = [rec EXCEPT ![r] = AfterFailure(rec[r])]
      BY <2>3 DEF CheckEvent
    <3>2. RecFields(x) /\ x.draft = rec[r].draft
      BY <1>0 DEF RecFields
    <3> QED
      BY <1>0, <3>1, <3>2, AfterEvent
  <2>4. CASE CancelEvent(r)
    <3>1. rec' = [rec EXCEPT ![r] = AfterCancel(rec[r])]
      BY <2>4, SMTT(60) DEF CancelEvent
    <3> QED
      BY <1>0, <3>1, AfterEvent
  <2> QED
    BY <2>1, <2>2, <2>3, <2>4
<1>2. /\ rec[r].pc # "appending"
      /\ UNCHANGED <<job, lock>>
  BY DEF Attach, AgentStarts, AgentSpeaks, AgentCompacts, AgentFinishes,
         EmitEvent, CheckEvent, CancelEvent
<1> QED
  BY <1>1, <1>2, RecorderStep

\* Between calls and after a crash nothing is at work.
LEMMA NothingAtWork ==
    job = [t \in Threads |-> Idle] /\ rec = [r \in Recorders |-> Detached]
        => CallInv
  BY Resting DEF CallInv, Shapes, OwnedCalls, OwnedCall

\* A crash ends all calls and forgets what recorders were at.
LEMMA CrashStep == ASSUME Crash PROVE CallInv'
  BY Resting DEF Crash, CallInv, Shapes, OwnedCalls, OwnedCall

\* Whoever calls, returns, is cancelled or crashes, a thread that works for a
\* recorder holds the lock, has the recorder waiting, and appends behind the
\* record that the recorder's event was checked against.
THEOREM CallInvariant == Spec => []CallInv
<1>1. Init => CallInv
  BY NothingAtWork DEF Init
<1>2. CallInv /\ [Next]_vars => CallInv'
  <2> SUFFICES ASSUME CallInv, [Next]_vars PROVE CallInv'
    OBVIOUS
  <2>1. ASSUME NEW t \in Threads,
               \/ CreateBranch(t) \/ PrepareRetry(t) \/ Save(t)
               \/ ReadJournal(t) \/ RepairTail(t) \/ WriteLine(t) \/ SyncFile(t)
               \/ Return(t) \/ CancelCall(t)
               \/ \E r \in Recorders : AppendEvent(r, t)
        PROVE  CallInv'
    <3>1. CASE CreateBranch(t) \/ PrepareRetry(t) \/ Save(t)
      BY <3>1, ProgramCalls
    <3>2. CASE ReadJournal(t) \/ RepairTail(t) \/ WriteLine(t) \/ SyncFile(t)
      BY <3>2, ThreadWorks
    <3>3. CASE Return(t) \/ CancelCall(t)
      BY <3>3, CallEnds
    <3>4. CASE \E r \in Recorders : AppendEvent(r, t)
      BY <3>4, RecorderCalls
    <3> QED
      BY <2>1, <3>1, <3>2, <3>3, <3>4
  <2>2. ASSUME NEW r \in Recorders,
               \/ Attach(r) \/ AgentStarts(r) \/ AgentSpeaks(r) \/ AgentCompacts(r)
               \/ AgentFinishes(r) \/ CheckEvent(r) \/ CancelEvent(r)
        PROVE  CallInv'
    BY <2>2, RecorderEvents
  <2>3. CASE Crash
    BY <2>3, CrashStep
  <2>4. CASE UNCHANGED vars
    BY <2>4 DEF vars, CallInv, Shapes, OwnedCalls, OwnedCall
  <2> QED
    BY <2>1, <2>2, <2>3, <2>4 DEF Next, Step
<1> QED
  BY <1>1, <1>2, PTL DEF Spec

\* A recorder's event is written behind the very record whose projection it
\* was checked against (_append_sync compares the head under the lock),
\* whatever other recorders, saves, cancellations and crashes interleave.
THEOREM RecordsFollow == Spec => []EventFollowsChecked
<1>1. CallInv => EventFollowsChecked
  <2> SUFFICES ASSUME CallInv, NEW r \in Recorders, NEW t \in Threads,
                      job[t].owner = r, job[t].pc \in {"syncing", "done"}
               PROVE  job[t].draft.parent = rec[r].expected
    BY DEF EventFollowsChecked
  <2>1. job[t].owner # None
    BY JournalAssumption
  <2> QED
    BY <2>1 DEF CallInv, OwnedCalls, OwnedCall
<1> QED
  BY <1>1, CallInvariant, PTL

-----------------------------------------------------------------------------
(* The journal, as long as one thread at a time works on it.               *)

\* A sequence is one of its own elements.
LEMMA OfItsRange ==
    ASSUME NEW S, NEW s \in Seq(S)
    PROVE  s \in Seq(Range(s))
<1>1. Len(s) \in Nat /\ s \in [1..Len(s) -> S]
  BY LenProperties
<1>2. s \in [1..Len(s) -> Range(s)]
  BY <1>1 DEF Range
<1> QED
  BY <1>1, <1>2, SeqDef

\* The lines of a journal and a line behind them.
LEMMA Appended ==
    ASSUME NEW lines, lines \in Seq(Range(lines)), NEW line
    PROVE  LET longer == Append(lines, line) IN
           /\ longer \in Seq(Range(longer))
           /\ Len(longer) = Len(lines) + 1
           /\ \A i \in 1..Len(lines) : longer[i] = lines[i]
           /\ longer[Len(lines) + 1] = line
           /\ \A n \in 0..Len(lines) : SubSeq(longer, 1, n) = SubSeq(lines, 1, n)
<1> DEFINE S == Range(lines) \cup {line}
           longer == Append(lines, line)
<1>1. lines \in Seq(S) /\ Len(lines) \in Nat
  BY SeqMonotonic
<1>2. /\ longer \in Seq(S) /\ Len(longer) = Len(lines) + 1
      /\ \A i \in 1..Len(lines) : longer[i] = lines[i]
      /\ longer[Len(lines) + 1] = line
  BY <1>1
<1>3. longer \in Seq(Range(longer))
  BY <1>2, OfItsRange
<1>4. ASSUME NEW n \in 0..Len(lines)
      PROVE  SubSeq(longer, 1, n) = SubSeq(lines, 1, n)
  BY <1>1, <1>2
<1> QED
  BY <1>2, <1>3, <1>4

\* The first lines of a journal.
LEMMA Shortened ==
    ASSUME NEW lines, lines \in Seq(Range(lines)), NEW n \in 0..Len(lines)
    PROVE  LET shorter == SubSeq(lines, 1, n) IN
           /\ shorter \in Seq(Range(shorter))
           /\ Len(shorter) = n
           /\ \A i \in 1..n : shorter[i] = lines[i]
           /\ \A m \in 0..n : SubSeq(shorter, 1, m) = SubSeq(lines, 1, m)
           /\ IsPrefix(shorter, lines)
<1> DEFINE S == Range(lines)
           shorter == SubSeq(lines, 1, n)
<1>1. Len(lines) \in Nat /\ n \in Nat /\ n <= Len(lines)
  OBVIOUS
<1>2. /\ shorter \in Seq(S) /\ Len(shorter) = n
      /\ \A i \in 1..n : shorter[i] = lines[i]
  BY <1>1
<1>3. shorter \in Seq(Range(shorter))
  BY <1>2, OfItsRange
<1>4. ASSUME NEW m \in 0..n
      PROVE  SubSeq(shorter, 1, m) = SubSeq(lines, 1, m)
  BY <1>1, <1>2
<1>5. IsPrefix(shorter, lines)
  BY <1>1, <1>2, <1>4 DEF IsPrefix
<1> QED
  BY <1>2, <1>3, <1>4, <1>5

\* A line that fits keeps a journal readable.
LEMMA ReadableAppended ==
    ASSUME NEW lines, lines \in Seq(Range(lines)), NEW line,
           Readable(lines), Fits(lines, line)
    PROVE  Readable(Append(lines, line))
<1> DEFINE longer == Append(lines, line)
<1> SUFFICES ASSUME NEW i \in 1..Len(longer)
             PROVE  Fits(SubSeq(longer, 1, i - 1), longer[i])
  BY DEF Readable
<1>1. /\ Len(lines) \in Nat /\ Len(longer) = Len(lines) + 1
      /\ \A k \in 1..Len(lines) : longer[k] = lines[k]
      /\ longer[Len(lines) + 1] = line
      /\ \A n \in 0..Len(lines) : SubSeq(longer, 1, n) = SubSeq(lines, 1, n)
  BY Appended
<1> HIDE DEF longer
<1>2. i - 1 \in 0..Len(lines) /\ SubSeq(longer, 1, i - 1) = SubSeq(lines, 1, i - 1)
  BY <1>1
<1>3. CASE i \in 1..Len(lines)
  BY <1>1, <1>2, <1>3 DEF Readable
<1>4. CASE i = Len(lines) + 1
  <2>1. SubSeq(lines, 1, i - 1) = lines
    BY <1>1, <1>4, SubSeqFull
  <2> QED
    BY <1>1, <1>2, <1>4, <2>1
<1> QED
  BY <1>1, <1>3, <1>4

\* So does any loss of its end.
LEMMA ReadableShortened ==
    ASSUME NEW lines, lines \in Seq(Range(lines)), NEW n \in 0..Len(lines),
           Readable(lines)
    PROVE  Readable(SubSeq(lines, 1, n))
<1> DEFINE shorter == SubSeq(lines, 1, n)
<1> SUFFICES ASSUME NEW i \in 1..Len(shorter)
             PROVE  Fits(SubSeq(shorter, 1, i - 1), shorter[i])
  BY DEF Readable
<1>1. /\ Len(lines) \in Nat /\ Len(shorter) = n
      /\ \A k \in 1..n : shorter[k] = lines[k]
      /\ \A m \in 0..n : SubSeq(shorter, 1, m) = SubSeq(lines, 1, m)
  BY Shortened
<1> HIDE DEF shorter
<1>2. i \in 1..Len(lines) /\ i - 1 \in 0..n /\ i \in 1..n
  BY <1>1
<1> QED
  BY <1>1, <1>2 DEF Readable

\* A step of a thread that leaves the file.
LEMMA FileStays ==
    ASSUME FileInv, Shapes, UNCHANGED <<file, torn, synced>>,
           NEW t \in Threads, NEW j,
           job' = [job EXCEPT ![t] = j], CurrentJob(j), AckedInFile'
    PROVE  FileInv'
<1>1. \A u \in Threads : job'[u] = IF u = t THEN j ELSE job[u]
  BY DEF Shapes
<1>2. \A u \in Threads : CurrentJob(job[u])'
  BY <1>1 DEF FileInv, CurrentJob
<1> QED
  BY <1>2 DEF FileInv, JournalReadable

\* A call begins, or ends without a report.
LEMMA FileAtCalls ==
    ASSUME FileInv, Shapes, NEW t \in Threads,
           \/ CreateBranch(t) \/ PrepareRetry(t) \/ Save(t)
           \/ \E r \in Recorders : AppendEvent(r, t)
           \/ CancelCall(t)
    PROVE  FileInv'
<1>1. UNCHANGED <<file, torn, synced, acked>>
  BY DEF CreateBranch, PrepareRetry, Save, AppendEvent, CancelCall
<1>2. AckedInFile'
  BY <1>1 DEF FileInv, AckedInFile
<1>3. PICK j : job' = [job EXCEPT ![t] = j] /\ CurrentJob(j)
  <2>1. CASE CancelCall(t)
    <3>1. CASE job' = [job EXCEPT ![t] = Idle]
      <4>1. CurrentJob(Idle)
        BY Resting DEF CurrentJob
      <4> QED
        BY <3>1, <4>1
    <3>2. CASE job' = [job EXCEPT ![t].owner = None]
      <4> DEFINE j == [job[t] EXCEPT !.owner = None]
      <4>1. job' = [job EXCEPT ![t] = j]
        BY <3>2 DEF Shapes
      <4>2. /\ j.pc = job[t].pc /\ j.draft = job[t].draft
            /\ j.valid = job[t].valid
        BY DEF Shapes, JobFields
      <4>3. CurrentJob(job[t])
        BY DEF FileInv
      <4> HIDE DEF j
      <4>4. CurrentJob(j)
        BY <4>2, <4>3 DEF CurrentJob
      <4> QED
        BY <4>1, <4>4
    <3> QED
      BY <2>1, <3>1, <3>2 DEF CancelCall
  <2>2. CASE ~CancelCall(t)
    <3>1. PICK op, draft, check, expected, owner :
             Call(t, op, draft, check, expected, owner)
      BY <2>2 DEF CreateBranch, PrepareRetry, Save, AppendEvent
    <3> DEFINE j == Asked(op, draft, check, expected, owner)
    <3>2. job' = [job EXCEPT ![t] = j]
      BY <3>1 DEF Call, Asked
    <3>3. j.pc = "reading"
      BY DEF Asked, Idle
    <3> HIDE DEF j
    <3>4. CurrentJob(j)
      BY <3>3 DEF CurrentJob
    <3> QED
      BY <3>2, <3>4
  <2> QED
    BY <2>1, <2>2
<1> QED
  BY <1>1, <1>2, <1>3, FileStays

\* A thread reads the journal.
LEMMA FileRead ==
    ASSUME FileInv, Shapes, NEW t \in Threads, ReadJournal(t)
    PROVE  FileInv'
<1>1. UNCHANGED <<file, torn, synced, acked>>
  BY DEF ReadJournal
<1>2. AckedInFile'
  BY <1>1 DEF FileInv, AckedInFile
<1>3. PICK j : job' = [job EXCEPT ![t] = j] /\ CurrentJob(j)
  <2>1. CASE CanRead /\ Candidates(file, job[t]) # {}
    <3>1. PICK l \in Candidates(file, job[t]) :
             job' = [job EXCEPT ![t].pc = "opened", ![t].draft = l,
                                ![t].valid = Len(file)]
      BY <2>1 DEF ReadJournal
    <3> DEFINE j == [job[t] EXCEPT !.pc = "opened", !.draft = l,
                                   !.valid = Len(file)]
    <3>2. job' = [job EXCEPT ![t] = j]
      BY <3>1 DEF Shapes
    <3>3. j.pc = "opened" /\ j.draft = l /\ j.valid = Len(file)
      BY DEF Shapes, JobFields
    <3>4. Fits(file, l)
      BY CandidatesFit
    <3> HIDE DEF j
    <3>5. CurrentJob(j)
      BY <3>3, <3>4 DEF CurrentJob
    <3> QED
      BY <3>2, <3>5
  <2>2. CASE ~(CanRead /\ Candidates(file, job[t]) # {})
    <3> DEFINE j == [Idle EXCEPT !.pc = "failed", !.owner = job[t].owner]
    <3>1. job' = [job EXCEPT ![t] = j]
      BY <2>2 DEF ReadJournal
    <3>2. j.pc = "failed"
      BY DEF Idle
    <3> HIDE DEF j
    <3>3. CurrentJob(j)
      BY <3>2 DEF CurrentJob
    <3> QED
      BY <3>1, <3>3
  <2> QED
    BY <2>1, <2>2
<1> QED
  BY <1>1, <1>2, <1>3, FileStays

\* A thread returns and may report the record that is the end of the journal.
LEMMA FileReturn ==
    ASSUME FileInv, Shapes, NEW t \in Threads, Return(t)
    PROVE  FileInv'
<1>1. /\ UNCHANGED <<file, torn, synced>>
      /\ job' = [job EXCEPT ![t] = Idle]
  BY DEF Return
<1>2. CurrentJob(Idle)
  BY Resting DEF CurrentJob
<1>3. AckedInFile'
  <2>1. CASE acked' = acked
    BY <1>1, <2>1 DEF FileInv, AckedInFile
  <2>2. CASE job[t].pc = "done" /\ acked' = acked \cup {job[t].draft}
    <3>1. CurrentJob(job[t]) /\ file \in Seq(Range(file))
      BY DEF FileInv
    <3>2. /\ job[t].draft.rev = Len(file) /\ synced = Len(file)
          /\ file # <<>> /\ file[Len(file)] = job[t].draft
      BY <2>2, <3>1 DEF CurrentJob
    <3>3. Len(file) \in 1..synced
      BY <3>1, <3>2, EmptySeq
    <3> QED
      BY <1>1, <2>2, <3>2, <3>3 DEF FileInv, AckedInFile
  <2> QED
    BY <2>1, <2>2 DEF Return
<1> QED
  BY <1>1, <1>2, <1>3, FileStays

\* The thread that works is the only one whose work has to be current.
LEMMA OnlyWorker ==
    ASSUME OneWriter, Shapes, NEW t \in Threads, NEW j,
           job[t].pc # "free", job' = [job EXCEPT ![t] = j], CurrentJob(j)'
    PROVE  \A u \in Threads : CurrentJob(job[u])'
<1> SUFFICES ASSUME NEW u \in Threads
             PROVE  CurrentJob(job[u])'
  OBVIOUS
<1>1. CASE u = t
  <2>1. job'[u] = j
    BY <1>1 DEF Shapes
  <2> QED
    BY <2>1 DEF CurrentJob
<1>2. CASE u # t
  <2>1. job'[u] = job[u] /\ job[u].pc = "free"
    BY <1>2 DEF Shapes, OneWriter
  <2> QED
    BY <2>1 DEF CurrentJob
<1> QED
  BY <1>1, <1>2

\* A thread goes on.
LEMMA PcSet ==
    ASSUME Shapes, NEW t \in Threads, NEW pc, job' = [job EXCEPT ![t].pc = pc]
    PROVE  \E j : /\ job' = [job EXCEPT ![t] = j]
                  /\ j.pc = pc /\ j.draft = job[t].draft
<1> DEFINE j == [job[t] EXCEPT !.pc = pc]
<1>1. job' = [job EXCEPT ![t] = j]
  BY DEF Shapes
<1>2. j.pc = pc /\ j.draft = job[t].draft
  BY DEF Shapes, JobFields
<1> QED
  BY <1>1, <1>2

\* The tail is cut off behind the lines read, which are all there are.
LEMMA FileRepaired ==
    ASSUME FileInv, Shapes, OneWriter, NEW t \in Threads, RepairTail(t)
    PROVE  /\ FileInv'
           /\ UNCHANGED <<file, acked>>
<1>1. /\ job[t].pc = "opened" /\ Repaired(job[t].valid)
      /\ job' = [job EXCEPT ![t].pc = "writing"] /\ acked' = acked
  BY DEF RepairTail, Shapes
<1>2. PICK j : /\ job' = [job EXCEPT ![t] = j]
               /\ j.pc = "writing" /\ j.draft = job[t].draft
  BY <1>1, PcSet, ZenonT(60)
<1>3. /\ CurrentJob(job[t]) /\ file \in Seq(Range(file))
      /\ synced \in 0..Len(file) /\ Len(file) \in Nat
  BY DEF FileInv
<1>4. job[t].valid = Len(file) /\ Fits(file, job[t].draft)
  BY <1>1, <1>3 DEF CurrentJob
<1>5. UNCHANGED <<file, synced>>
  <2>1. SubSeq(file, 1, Len(file)) = file
    BY <1>3, SubSeqFull
  <2> QED
    BY <1>1, <1>3, <1>4, <2>1 DEF Repaired
<1>6. ~torn'
  BY <1>1, <1>3, <1>4 DEF Repaired
<1>7. CurrentJob(j)'
  BY <1>2, <1>4, <1>5, <1>6 DEF CurrentJob
<1>8. \A u \in Threads : CurrentJob(job[u])'
  BY <1>1, <1>2, <1>7, OnlyWorker
<1> QED
  BY <1>1, <1>5, <1>8 DEF FileInv, AckedInFile, JournalReadable

\* A line is written behind the others, or in part, which is no line.
LEMMA FileWritten ==
    ASSUME FileInv, Shapes, OneWriter, NEW t \in Threads, WriteLine(t)
    PROVE  /\ FileInv'
           /\ acked' = acked
           /\ file' = file \/ file' = Append(file, job[t].draft)
<1>0. /\ file \in Seq(Range(file)) /\ Len(file) \in Nat
      /\ synced \in 0..Len(file)
  BY DEF FileInv
<1>1. /\ job[t].pc = "writing" /\ ~torn /\ Fits(file, job[t].draft)
      /\ UNCHANGED <<synced, acked>>
  BY DEF WriteLine, FileInv, CurrentJob
<1>2. CASE /\ file' = Append(file, job[t].draft) /\ torn' = FALSE
           /\ job' = [job EXCEPT ![t].pc = "syncing"]
  <2>1. PICK j : /\ job' = [job EXCEPT ![t] = j]
                 /\ j.pc = "syncing" /\ j.draft = job[t].draft
    BY <1>2, PcSet
  <2>3. /\ file' \in Seq(Range(file')) /\ Len(file') = Len(file) + 1
        /\ \A i \in 1..Len(file) : file'[i] = file[i]
        /\ file'[Len(file) + 1] = job[t].draft
    BY <1>0, <1>2, Appended
  <2>4. job[t].draft.rev = Len(file) + 1
    BY <1>1 DEF Fits
  <2>5. CurrentJob(j)'
    <3>1. file' # <<>>
      BY <1>0, <2>3
    <3> QED
      BY <2>1, <2>3, <2>4, <3>1 DEF CurrentJob
  <2>6. \A u \in Threads : CurrentJob(job[u])'
    BY <1>1, <2>1, <2>5, OnlyWorker
  <2>7. Readable(file')
    BY <1>0, <1>1, <1>2, ReadableAppended DEF FileInv, JournalReadable
  <2>8. AckedInFile'
    BY <1>0, <1>1, <2>3 DEF FileInv, AckedInFile
  <2>9. synced' \in 0..Len(file')
    BY <1>0, <1>1, <2>3
  <2> QED
    BY <1>1, <1>2, <2>3, <2>6, <2>7, <2>8, <2>9 DEF FileInv, JournalReadable
<1>3. CASE file' = file /\ job' = [job EXCEPT ![t].pc = "failed"]
  <2>1. PICK j : /\ job' = [job EXCEPT ![t] = j]
                 /\ j.pc = "failed" /\ j.draft = job[t].draft
    BY <1>3, PcSet
  <2>3. CurrentJob(j)'
    BY <2>1 DEF CurrentJob
  <2>4. \A u \in Threads : CurrentJob(job[u])'
    BY <1>1, <2>1, <2>3, OnlyWorker
  <2> QED
    BY <1>1, <1>3, <2>4 DEF FileInv, AckedInFile, JournalReadable
<1> QED
  BY <1>1, <1>2, <1>3 DEF WriteLine

\* All lines are on disk, or the flush fails.
LEMMA FileSynced ==
    ASSUME FileInv, Shapes, OneWriter, NEW t \in Threads, SyncFile(t)
    PROVE  FileInv'
<1>0. file \in Seq(Range(file)) /\ Len(file) \in Nat /\ synced \in 0..Len(file)
  BY DEF FileInv
<1>1. /\ job[t].pc = "syncing" /\ UNCHANGED <<file, torn, acked>>
      /\ CurrentJob(job[t])
  BY DEF SyncFile, FileInv
<1>2. PICK pc \in {"done", "failed"} :
         /\ job' = [job EXCEPT ![t].pc = pc]
         /\ synced' = IF pc = "done" THEN Len(file) ELSE synced
  BY DEF SyncFile, Flushed
<1>3. PICK j : /\ job' = [job EXCEPT ![t] = j]
               /\ j.pc = pc /\ j.draft = job[t].draft
  BY <1>2, PcSet
<1>5. CurrentJob(j)'
  BY <1>1, <1>2, <1>3 DEF CurrentJob
<1>6. \A u \in Threads : CurrentJob(job[u])'
  BY <1>1, <1>3, <1>5, OnlyWorker
<1>7. synced' \in 0..Len(file) /\ synced <= synced' /\ synced' \in Nat
  BY <1>0, <1>2
<1>8. AckedInFile'
  BY <1>0, <1>1, <1>7 DEF FileInv, AckedInFile
<1> QED
  BY <1>1, <1>6, <1>7, <1>8 DEF FileInv, JournalReadable

\* A crash keeps what is on disk.
LEMMA FileCrashed ==
    ASSUME FileInv, Crash
    PROVE  /\ FileInv'
           /\ acked' = acked /\ IsPrefix(file', file)
<1>0. file \in Seq(Range(file)) /\ Len(file) \in Nat /\ synced \in 0..Len(file)
  BY DEF FileInv
<1>1. PICK n \in synced..Len(file) : file' = SubSeq(file, 1, n) /\ synced' = n
  BY DEF Crash
<1>2. n \in 0..Len(file) /\ n \in Nat /\ synced <= n
  BY <1>0
<1>3. /\ file' \in Seq(Range(file')) /\ Len(file') = n
      /\ \A i \in 1..n : file'[i] = file[i]
      /\ IsPrefix(file', file)
  BY <1>0, <1>1, <1>2, Shortened
<1>4. Readable(file')
  BY <1>0, <1>1, <1>2, ReadableShortened DEF FileInv, JournalReadable
<1>5. \A t \in Threads : CurrentJob(job[t])'
  BY Resting DEF Crash, CurrentJob
<1>6. acked' = acked
  BY DEF Crash
<1>7. AckedInFile'
  BY <1>0, <1>1, <1>2, <1>3, <1>6 DEF FileInv, AckedInFile
<1> QED
  BY <1>1, <1>2, <1>3, <1>4, <1>5, <1>6, <1>7 DEF FileInv, JournalReadable

\* A step of one writing thread, or of anyone else, keeps the journal and is a
\* step of the log or none.
LEMMA JournalStep ==
    ASSUME CallInv, FileInv, OneWriter, [Next]_vars
    PROVE  FileInv' /\ [Log!Next]_(Log!vars)
<1>0. Shapes
  BY DEF CallInv
<1> USE DEF Log!vars
<1>1. ASSUME NEW t \in Threads,
             \/ CreateBranch(t) \/ PrepareRetry(t) \/ Save(t)
             \/ CancelCall(t) \/ ReadJournal(t) \/ SyncFile(t)
             \/ \E r \in Recorders : AppendEvent(r, t)
      PROVE  FileInv' /\ [Log!Next]_(Log!vars)
  <2>1. FileInv'
    BY <1>0, <1>1, FileAtCalls, FileRead, FileSynced
  <2>2. UNCHANGED <<file, acked>>
    BY <1>1 DEF CreateBranch, PrepareRetry, Save, CancelCall, ReadJournal,
                SyncFile, AppendEvent
  <2> QED
    BY <2>1, <2>2
<1>2. ASSUME NEW t \in Threads, RepairTail(t)
      PROVE  FileInv' /\ [Log!Next]_(Log!vars)
  <2>1. FileInv' /\ UNCHANGED <<file, acked>>
    BY <1>0, <1>2, FileRepaired
  <2> QED
    BY <2>1
<1>3. ASSUME NEW t \in Threads, WriteLine(t)
      PROVE  FileInv' /\ [Log!Next]_(Log!vars)
  <2>1. /\ FileInv' /\ acked' = acked
        /\ file' = file \/ file' = Append(file, job[t].draft)
    BY <1>0, <1>3, FileWritten
  <2>2. CASE file' = file
    BY <2>1, <2>2
  <2>3. CASE file' = Append(file, job[t].draft)
    <3>1. file \in Seq(Range(file)) /\ Len(file) \in Nat
      BY DEF FileInv
    <3>2. /\ Len(file') = Len(file) + 1
          /\ SubSeq(file', 1, Len(file)) = SubSeq(file, 1, Len(file))
      BY <2>3, <3>1, Appended
    <3>3. IsPrefix(file, file')
      BY <3>1, <3>2 DEF IsPrefix
    <3>4. Log!Write
      BY <2>1, <3>2, <3>3 DEF Log!Write, Log!IsPrefix, IsPrefix
    <3> QED
      BY <2>1, <3>4 DEF Log!Next
  <2> QED
    BY <2>1, <2>2, <2>3
<1>4. ASSUME NEW t \in Threads, Return(t)
      PROVE  FileInv' /\ [Log!Next]_(Log!vars)
  <2>1. FileInv' /\ file' = file
    BY <1>0, <1>4, FileReturn DEF Return
  <2>2. CASE acked' = acked
    BY <2>1, <2>2
  <2>3. CASE job[t].pc = "done" /\ acked' = acked \cup {job[t].draft}
    <3>1. /\ file \in Seq(Range(file)) /\ file # <<>>
          /\ file[Len(file)] = job[t].draft
      BY <2>3 DEF FileInv, CurrentJob
    <3>2. Len(file) \in DOMAIN file
      BY <3>1, EmptySeq
    <3>3. job[t].draft \in Range(file)
      BY <3>1, <3>2 DEF Range
    <3>4. Log!Acknowledge
      BY <2>1, <2>3, <3>3 DEF Log!Acknowledge, Log!Range, Range
    <3> QED
      BY <2>1, <3>4 DEF Log!Next
  <2> QED
    BY <1>4, <2>2, <2>3 DEF Return
<1>5. ASSUME NEW r \in Recorders,
             \/ Attach(r) \/ AgentStarts(r) \/ AgentSpeaks(r) \/ AgentCompacts(r)
             \/ AgentFinishes(r) \/ CheckEvent(r) \/ CancelEvent(r)
      PROVE  FileInv' /\ [Log!Next]_(Log!vars)
  <2>1. UNCHANGED <<file, torn, synced, job, acked>>
    BY <1>5 DEF Attach, AgentStarts, AgentSpeaks, AgentCompacts,
                AgentFinishes, EmitEvent, CheckEvent, CancelEvent
  <2>2. FileInv'
    BY <2>1 DEF FileInv, CurrentJob, AckedInFile, JournalReadable
  <2> QED
    BY <2>1, <2>2, SMTT(60)
<1>6. CASE Crash
  <2>1. FileInv' /\ acked' = acked /\ IsPrefix(file', file)
    BY <1>6, FileCrashed
  <2>2. acked \subseteq Range(file')
    <3> SUFFICES ASSUME NEW line \in acked
                 PROVE  line \in Range(file')
      OBVIOUS
    <3>1. /\ line.rev \in 1..synced' /\ file'[line.rev] = line
          /\ synced' \in 0..Len(file') /\ file' \in Seq(Range(file'))
      BY <2>1 DEF FileInv, AckedInFile
    <3>2. line.rev \in DOMAIN file'
      BY <3>1
    <3> QED
      BY <3>1, <3>2 DEF Range
  <2>3. Log!Lose
    BY <2>1, <2>2 DEF Log!Lose, Log!IsPrefix, IsPrefix, Log!Range, Range
  <2> QED
    BY <2>1, <2>3 DEF Log!Next
<1>7. CASE UNCHANGED vars
  <2>1. UNCHANGED <<file, torn, synced, job, acked>>
    BY <1>7 DEF vars
  <2>2. FileInv'
    BY <2>1 DEF FileInv, CurrentJob, AckedInFile, JournalReadable
  <2> QED
    BY <2>1, <2>2
<1> QED
  BY <1>1, <1>2, <1>3, <1>4, <1>5, <1>6, <1>7 DEF Next, Step

\* A new journal is empty, and so is the log.
LEMMA JournalBegins == Init => FileInv /\ Log!Init
<1> SUFFICES ASSUME Init PROVE FileInv /\ Log!Init
  OBVIOUS
<1>1. file = <<>> /\ synced = 0 /\ acked = {} /\ job = [t \in Threads |-> Idle]
  BY DEF Init
<1>2. file \in Seq(Range(file)) /\ Len(file) = 0
  BY <1>1, EmptySeq
<1>3. \A t \in Threads : CurrentJob(job[t])
  BY <1>1, Resting DEF CurrentJob
<1>4. Readable(file)
  BY <1>2 DEF Readable
<1> QED
  BY <1>1, <1>2, <1>3, <1>4 DEF FileInv, AckedInFile, JournalReadable, Log!Init

\* As long as no two threads work on the journal at one time, what a thread
\* read is still the whole journal when it writes.
THEOREM FileInvariant == Spec /\ []OneWriter => []FileInv
  BY JournalBegins, JournalStep, CallInvariant, PTL DEF Spec

\* With one writing thread every complete line of the file is a record that a
\* later read accepts (_read_sync, _add_record), through partial writes,
\* failed flushes, cancelled calls and crashes.
THEOREM AlwaysReadable == Spec /\ []OneWriter => []JournalReadable
<1>1. FileInv => JournalReadable
  BY DEF FileInv
<1> QED
  BY <1>1, FileInvariant, PTL

\* With one writing thread a record whose append was reported stays on disk
\* where it was written; with two it need not.
THEOREM ReportedIsDurable == Spec /\ []OneWriter => []AcknowledgedDurable
<1>1. FileInv => AcknowledgedDurable
  BY DEF FileInv, AckedInFile, AcknowledgedDurable
<1> QED
  BY <1>1, FileInvariant, PTL

\* With one writing thread the journal implements SessionLog: it grows by the
\* record of one call at a time, and a crash takes nothing that was reported.
THEOREM JournalIsLog == Spec /\ []OneWriter => DurableLog
  BY JournalBegins, JournalStep, CallInvariant, FileInvariant, PTL
  DEF Spec, DurableLog, Log!Spec

-----------------------------------------------------------------------------
(* The tree of records and what it projects to.                            *)

\* Lines that a read accepts.
Journal(lines) == lines \in Seq(Range(lines)) /\ Readable(lines)

\* The lines before a line.
LEMMA LinesBefore ==
    ASSUME NEW lines, Journal(lines), NEW i \in 1..Len(lines)
    PROVE  LET before == SubSeq(lines, 1, i - 1) IN
           /\ Len(before) = i - 1 /\ i - 1 \in 0..Len(lines)
           /\ \A k \in 1..(i - 1) : before[k] = lines[k]
           /\ Fits(before, lines[i])
           /\ Journal(before)
<1>1. /\ lines \in Seq(Range(lines)) /\ Len(lines) \in Nat
      /\ i - 1 \in 0..Len(lines)
  BY DEF Journal
<1>2. Readable(lines)
  BY DEF Journal
<1>3. Readable(SubSeq(lines, 1, i - 1))
  BY <1>1, <1>2, ReadableShortened
<1> QED
  BY <1>1, <1>2, <1>3, Shortened DEF Journal, Readable

\* Ids are used once.
LEMMA IdsDiffer ==
    ASSUME NEW lines, Journal(lines),
           NEW i \in 1..Len(lines), NEW j \in 1..Len(lines),
           lines[i].id = lines[j].id
    PROVE  i = j
<1>1. ASSUME NEW a \in 1..Len(lines), NEW b \in 1..Len(lines), a < b
      PROVE  lines[a].id # lines[b].id
  <2> DEFINE before == SubSeq(lines, 1, b - 1)
  <2>1. /\ Len(before) = b - 1
        /\ \A k \in 1..(b - 1) : before[k] = lines[k]
        /\ Fits(before, lines[b])
    BY LinesBefore
  <2> HIDE DEF before
  <2>2. a \in 1..Len(before) /\ before[a] = lines[a]
    BY <1>1, <2>1
  <2> QED
    BY <2>1, <2>2 DEF Fits, Known
<1> QED
  BY <1>1

\* A line is found by its id, and its parent before it.
LEMMA LineFound ==
    ASSUME NEW lines, Journal(lines), NEW i \in 1..Len(lines)
    PROVE  /\ lines[i].id # NoRecord /\ LineOf(lines, lines[i].id) = i
           /\ lines[i].parent # NoRecord =>
                 LET p == ParentOf(lines, i) IN
                 /\ p \in 1..(i - 1) /\ p \in 1..Len(lines)
                 /\ lines[p].id = lines[i].parent
                 /\ LineOf(lines, lines[i].parent) = p
<1> DEFINE before == SubSeq(lines, 1, i - 1)
<1>1. /\ Len(before) = i - 1
      /\ \A k \in 1..(i - 1) : before[k] = lines[k]
      /\ Fits(before, lines[i])
  BY LinesBefore
<1> HIDE DEF before
<1>2. ASSUME NEW k \in 1..Len(lines) PROVE LineOf(lines, lines[k].id) = k
  BY IdsDiffer DEF LineOf
<1>3. ASSUME lines[i].parent # NoRecord
      PROVE  \E p \in 1..(i - 1) : lines[p].id = lines[i].parent
  BY <1>1, <1>3 DEF Fits, Known
<1>4. lines[i].id # NoRecord
  BY <1>1 DEF Fits
<1>5. ASSUME lines[i].parent # NoRecord
      PROVE  /\ ParentOf(lines, i) \in 1..(i - 1)
             /\ lines[ParentOf(lines, i)].id = lines[i].parent
  BY <1>3, <1>5 DEF ParentOf
<1>6. \A p \in 1..(i - 1) : p \in 1..Len(lines)
  OBVIOUS
<1> QED
  BY <1>2, <1>4, <1>5, <1>6

\* What the trail up to line i is made from.
Before(lines, f, i) ==
    IF lines[i].parent = NoRecord THEN Root ELSE f[ParentOf(lines, i)]

\* The recursion along the parents has a solution, since they come before.
LEMMA TrailDef ==
    ASSUME NEW lines, Journal(lines)
    PROVE  \E f : /\ \A i \in 1..Len(lines) :
                        f[i] = Longer(Before(lines, f, i), lines[i])
                  /\ \A id : TrailTo(lines, id) = IF id = NoRecord THEN Root
                                                  ELSE f[LineOf(lines, id)]
<1> DEFINE n == Len(lines)
           Def(f) == [i \in 1..n |-> Longer(Before(lines, f, i), lines[i])]
           Solves(f, k) ==
              \A i \in 1..k : f[i] = Longer(Before(lines, f, i), lines[i])
           G == {k \in 0..n : \E f : Solves(f, k)}
           u == CHOOSE t : t = Def(t)
<1>1. n \in Nat
  BY DEF Journal
<1>2. ASSUME NEW f, NEW g, NEW i \in 1..n, \A j \in 1..(i - 1) : f[j] = g[j]
      PROVE  Before(lines, f, i) = Before(lines, g, i)
  BY <1>2, LineFound DEF Before
<1>3. 0 \in G
  BY <1>1
<1>4. ASSUME NEW k \in 1..n, k - 1 \in G
      PROVE  k \in G
  <2>1. PICK f : Solves(f, k - 1)
    BY <1>4
  <2> DEFINE g == [i \in 1..k |-> IF i = k THEN Longer(Before(lines, f, k), lines[k])
                                  ELSE f[i]]
  <2>2. ASSUME NEW i \in 1..k
        PROVE  g[i] = Longer(Before(lines, g, i), lines[i])
    <3>1. \A j \in 1..(i - 1) : f[j] = g[j]
      BY <1>1
    <3>2. Before(lines, f, i) = Before(lines, g, i)
      BY <1>1, <1>2, <3>1
    <3>3. g[i] = Longer(Before(lines, f, i), lines[i])
      BY <1>1, <2>1
    <3> QED
      BY <3>2, <3>3
  <2> HIDE DEF g
  <2> QED
    BY <1>1, <2>2
<1>5. n \in G
  <2>1. 0..n \subseteq G
    BY <1>1, <1>3, <1>4, Induction
  <2> QED
    BY <1>1, <2>1
<1>6. PICK f : Solves(f, n)
  BY <1>5
<1> DEFINE g == [i \in 1..n |-> f[i]]
<1>7. g = Def(g)
  <2>1. \A i \in 1..n : Before(lines, f, i) = Before(lines, g, i)
    BY <1>1, <1>2
  <2> QED
    BY <1>6, <2>1
<1> HIDE DEF g
<1>8. u = Def(u)
  BY <1>7
<1>9. \A i \in 1..n : u[i] = Longer(Before(lines, u, i), lines[i])
  BY <1>8
<1>10. \A id : TrailTo(lines, id) = IF id = NoRecord THEN Root
                                    ELSE u[LineOf(lines, id)]
  BY DEF TrailTo, Before
<1> HIDE DEF u
<1> QED
  BY <1>9, <1>10

\* The trail to a line is that to its parent, and the line.
LEMMA TrailAt ==
    ASSUME NEW lines, Journal(lines), NEW i \in 1..Len(lines)
    PROVE  TrailTo(lines, lines[i].id) =
              Longer(TrailTo(lines, lines[i].parent), lines[i])
<1>1. PICK f : /\ \A k \in 1..Len(lines) :
                     f[k] = Longer(Before(lines, f, k), lines[k])
               /\ \A id : TrailTo(lines, id) = IF id = NoRecord THEN Root
                                               ELSE f[LineOf(lines, id)]
  BY TrailDef
<1>2. TrailTo(lines, lines[i].id) = f[i]
  BY <1>1, LineFound
<1>3. Before(lines, f, i) = TrailTo(lines, lines[i].parent)
  BY <1>1, LineFound DEF Before
<1> QED
  BY <1>1, <1>2, <1>3

\* So are its records and its session.
LEMMA PathAt ==
    ASSUME NEW lines, Journal(lines), NEW i \in 1..Len(lines)
    PROVE  /\ PathTo(lines, lines[i].id) =
                 PathTo(lines, lines[i].parent) \cup {lines[i]}
           /\ Project(lines, lines[i].id) =
                 Apply(Project(lines, lines[i].parent), lines[i])
<1>1. PICK trail : trail = TrailTo(lines, lines[i].parent)
  OBVIOUS
<1>2. TrailTo(lines, lines[i].id) = Longer(trail, lines[i])
  BY <1>1, TrailAt
<1> QED
  BY <1>1, <1>2 DEF PathTo, Project, Longer

\* From nowhere.
LEMMA TrailToNone == ASSUME NEW lines PROVE TrailTo(lines, NoRecord) = Root
  BY DEF TrailTo

\* What is true of lines as soon as it is true of their parents is true of
\* all of them.
LEMMA AlongParents ==
    ASSUME NEW lines, Journal(lines), NEW G,
           \A i \in 1..Len(lines) :
              (lines[i].parent # NoRecord => ParentOf(lines, i) \in G) => i \in G
    PROVE  1..Len(lines) \subseteq G
<1> DEFINE n == Len(lines)
           H == {k \in 0..n : 1..k \subseteq G}
<1>1. n \in Nat
  BY DEF Journal
<1>2. 0 \in H
  BY <1>1
<1>3. ASSUME NEW k \in 1..n, k - 1 \in H
      PROVE  k \in H
  <2>1. 1..(k - 1) \subseteq G
    BY <1>3
  <2>2. k \in G
    BY <2>1, LineFound
  <2>3. 1..k = 1..(k - 1) \cup {k}
    BY <1>1
  <2> QED
    BY <1>1, <2>1, <2>2, <2>3
<1>4. 0..n \subseteq H
  BY <1>1, <1>2, <1>3, Induction
<1> QED
  BY <1>1, <1>4

\* The first lines of a journal, which hold the record id, if it is one.
Holds(lines, id) == id = NoRecord \/ Known(lines, id)
Beginning(few, lines) ==
    /\ Journal(few) /\ Journal(lines)
    /\ Len(few) <= Len(lines) /\ \A i \in 1..Len(few) : few[i] = lines[i]

\* Later lines leave the trails alone.
LEMMA TrailStays ==
    ASSUME NEW few, NEW lines, Beginning(few, lines), NEW id, Holds(few, id)
    PROVE  TrailTo(few, id) = TrailTo(lines, id)
<1>1. /\ Journal(few) /\ Journal(lines)
      /\ Len(few) \in Nat /\ Len(lines) \in Nat /\ Len(few) <= Len(lines)
      /\ \A i \in 1..Len(few) : few[i] = lines[i] /\ i \in 1..Len(lines)
  BY DEF Beginning, Journal
<1> DEFINE G == {i \in 1..Len(few) :
                    TrailTo(few, few[i].id) = TrailTo(lines, few[i].id)}
<1>2. ASSUME NEW i \in 1..Len(few),
             few[i].parent # NoRecord => ParentOf(few, i) \in G
      PROVE  i \in G
  <2>1. TrailTo(few, few[i].parent) = TrailTo(lines, few[i].parent)
    <3>1. CASE few[i].parent = NoRecord
      BY <3>1, TrailToNone
    <3>2. CASE few[i].parent # NoRecord
      BY <1>1, <1>2, <3>2, LineFound
    <3> QED
      BY <3>1, <3>2
  <2> QED
    BY <1>1, <2>1, TrailAt
<1>3. 1..Len(few) \subseteq G
  <2> HIDE DEF G
  <2> QED
    BY <1>1, <1>2, AlongParents
<1>4. CASE id = NoRecord
  BY <1>4, TrailToNone
<1>5. CASE Known(few, id)
  BY <1>3, <1>5 DEF Known
<1> QED
  BY <1>4, <1>5 DEF Holds

\* A trail is of lines of the journal, and their parents are in it.
LEMMA PathInLines ==
    ASSUME NEW lines, Journal(lines), NEW id, Holds(lines, id),
           NEW line \in PathTo(lines, id)
    PROVE  /\ \E k \in 1..Len(lines) : line = lines[k]
           /\ Holds(lines, line.parent)
<1> DEFINE G == {i \in 1..Len(lines) :
                    \A l \in PathTo(lines, lines[i].id) :
                       \E k \in 1..Len(lines) : l = lines[k]}
<1>1. ASSUME NEW i \in 1..Len(lines),
             lines[i].parent # NoRecord => ParentOf(lines, i) \in G
      PROVE  i \in G
  <2>1. PathTo(lines, lines[i].id) = PathTo(lines, lines[i].parent) \cup {lines[i]}
    BY PathAt
  <2>2. CASE lines[i].parent = NoRecord
    BY <2>1, <2>2, TrailToNone DEF PathTo, Root
  <2>3. CASE lines[i].parent # NoRecord
    BY <1>1, <2>1, <2>3, LineFound
  <2> QED
    BY <2>2, <2>3
<1>2. 1..Len(lines) \subseteq G
  <2> HIDE DEF G
  <2> QED
    BY <1>1, AlongParents
<1>3. \E k \in 1..Len(lines) : line = lines[k]
  <2>1. CASE id = NoRecord
    BY <2>1, TrailToNone DEF PathTo, Root
  <2>2. CASE Known(lines, id)
    BY <1>2, <2>2 DEF Known
  <2> QED
    BY <2>1, <2>2 DEF Holds
<1>4. ASSUME NEW k \in 1..Len(lines)
      PROVE  Holds(lines, lines[k].parent)
  BY LineFound DEF Holds, Known
<1> QED
  BY <1>3, <1>4

\* The last of the lines of a branch is its head.
LEMMA HeadIs ==
    ASSUME NEW lines, Len(lines) \in Nat, NEW b,
           \E i \in 1..Len(lines) : lines[i].branch = b
    PROVE  \E i \in 1..Len(lines) :
              /\ lines[i].branch = b /\ HeadOf(lines, b) = lines[i].id
              /\ \A j \in 1..Len(lines) : lines[j].branch = b => j <= i
<1> DEFINE n == Len(lines)
           own == {i \in 1..n : lines[i].branch = b}
           S == {n - i : i \in own}
<1>1. n \in Nat /\ own # {} /\ S \in SUBSET Nat /\ S # {}
  OBVIOUS
<1>2. PICK m \in S : \A k \in S : m <= k
  BY <1>1, Least
<1>3. PICK i \in own : m = n - i
  BY <1>2
<1>4. \A j \in own : j <= i
  <2> SUFFICES ASSUME NEW j \in own PROVE j <= i
    OBVIOUS
  <2>1. n - j \in S
    OBVIOUS
  <2>2. n - i <= n - j
    BY <1>2, <1>3, <2>1
  <2> QED
    BY <1>1, <2>2
<1> DEFINE h == CHOOSE k \in own : \A j \in own : j <= k
<1>5. h \in own /\ \A j \in own : j <= h
  BY <1>4
<1>6. HeadOf(lines, b) = lines[h].id
  BY <1>1 DEF HeadOf
<1> QED
  BY <1>5, <1>6

\* A branch without lines has no head; in a journal one with lines has.
LEMMA NoHead ==
    ASSUME NEW lines, NEW b, \A i \in 1..Len(lines) : lines[i].branch # b
    PROVE  HeadOf(lines, b) = NoRecord
  BY DEF HeadOf

\* A head is a record, and the head of a branch with lines is not none.
LEMMA HeadHeld ==
    ASSUME NEW lines, Journal(lines), NEW b
    PROVE  /\ Holds(lines, HeadOf(lines, b))
           /\ (\E i \in 1..Len(lines) : lines[i].branch = b)
                 => HeadOf(lines, b) # NoRecord
<1>1. Len(lines) \in Nat
  BY DEF Journal
<1>2. CASE \E i \in 1..Len(lines) : lines[i].branch = b
  <2>1. PICK i \in 1..Len(lines) : HeadOf(lines, b) = lines[i].id
    BY <1>1, <1>2, HeadIs
  <2> QED
    BY <2>1, LineFound DEF Holds, Known
<1>3. CASE \A i \in 1..Len(lines) : lines[i].branch # b
  BY <1>3, NoHead DEF Holds
<1> QED
  BY <1>2, <1>3

\* A line is the new head of its branch and of no other.
LEMMA HeadMoves ==
    ASSUME NEW lines, lines \in Seq(Range(lines)), NEW line, NEW b
    PROVE  HeadOf(Append(lines, line), b) =
              IF line.branch = b THEN line.id ELSE HeadOf(lines, b)
<1> DEFINE n == Len(lines)
           more == Append(lines, line)
<1>1. /\ n \in Nat /\ Len(more) = n + 1 /\ more[n + 1] = line
      /\ \A i \in 1..n : more[i] = lines[i]
  BY Appended
<1> HIDE DEF more
<1>2. CASE line.branch = b
  <2>1. PICK i \in 1..(n + 1) :
           /\ HeadOf(more, b) = more[i].id
           /\ \A j \in 1..(n + 1) : more[j].branch = b => j <= i
    BY <1>1, <1>2, HeadIs
  <2>2. i = n + 1
    BY <1>1, <1>2, <2>1
  <2> QED
    BY <1>1, <1>2, <2>1, <2>2 DEF more
<1>3. CASE line.branch # b
  <2> DEFINE own == {i \in 1..n : lines[i].branch = b}
             last == CHOOSE i \in own : \A j \in own : j <= i
  <2>1. 1..Len(more) = 1..n \cup {n + 1}
    BY <1>1
  <2>2. {i \in 1..Len(more) : more[i].branch = b} = own
    BY <1>1, <1>3, <2>1
  <2>3. HeadOf(more, b) = IF own = {} THEN NoRecord ELSE more[last].id
    <3> DEFINE its == {i \in 1..Len(more) : more[i].branch = b}
    <3>1. HeadOf(more, b) =
             IF its = {} THEN NoRecord
             ELSE more[CHOOSE i \in its : \A j \in its : j <= i].id
      BY DEF HeadOf
    <3>2. its = own
      BY <2>2
    <3> HIDE DEF its, own
    <3> QED
      BY <3>1, <3>2, Zenon
  <2>4. HeadOf(lines, b) = IF own = {} THEN NoRecord ELSE lines[last].id
    BY DEF HeadOf
  <2>5. ASSUME own # {} PROVE last \in 1..n
    <3>1. \E i \in 1..n : lines[i].branch = b
      BY <2>5
    <3>2. PICK i \in 1..n : /\ lines[i].branch = b
                            /\ \A j \in 1..n : lines[j].branch = b => j <= i
      BY <1>1, <3>1, HeadIs
    <3>3. i \in own /\ \A j \in own : j <= i
      BY <3>2
    <3>4. last \in own
      BY <3>3
    <3> QED
      BY <3>4
  <2> HIDE DEF own, last
  <2> QED
    BY <1>1, <1>3, <2>3, <2>4, <2>5 DEF more
<1> QED
  BY <1>2, <1>3

\* A journal and a line that fits behind it.
LEMMA OneMore ==
    ASSUME NEW lines, Journal(lines), NEW line, Fits(lines, line)
    PROVE  LET more == Append(lines, line) IN
           /\ Journal(more) /\ Beginning(lines, more)
           /\ Len(more) = Len(lines) + 1 /\ more[Len(lines) + 1] = line
           /\ Holds(lines, line.parent) /\ line.id # NoRecord
           /\ PathTo(more, line.id) = PathTo(lines, line.parent) \cup {line}
           /\ Project(more, line.id) = Apply(Project(lines, line.parent), line)
<1> DEFINE more == Append(lines, line)
<1>1. /\ lines \in Seq(Range(lines)) /\ Readable(lines) /\ Len(lines) \in Nat
  BY DEF Journal
<1>2. /\ more \in Seq(Range(more)) /\ Len(more) = Len(lines) + 1
      /\ \A i \in 1..Len(lines) : more[i] = lines[i]
      /\ more[Len(lines) + 1] = line
  BY <1>1, Appended
<1>3. Readable(more)
  BY <1>1, ReadableAppended
<1> HIDE DEF more
<1>4. Journal(more) /\ Beginning(lines, more)
  BY <1>1, <1>2, <1>3 DEF Journal, Beginning
<1>5. Holds(lines, line.parent) /\ line.id # NoRecord
  BY DEF Fits, Holds
<1>6. Len(lines) + 1 \in 1..Len(more)
  BY <1>1, <1>2
<1>7. /\ PathTo(more, line.id) = PathTo(more, line.parent) \cup {line}
      /\ Project(more, line.id) = Apply(Project(more, line.parent), line)
  BY <1>2, <1>4, <1>6, PathAt
<1>8. TrailTo(lines, line.parent) = TrailTo(more, line.parent)
  BY <1>4, <1>5, TrailStays
<1>9. /\ PathTo(more, line.parent) = PathTo(lines, line.parent)
      /\ Project(more, line.parent) = Project(lines, line.parent)
  BY <1>8 DEF PathTo, Project
<1> QED
  BY <1>2, <1>4, <1>5, <1>7, <1>9 DEF more

\* The beginning of a journal.
LEMMA SomeLess ==
    ASSUME NEW lines, Journal(lines), NEW n \in 0..Len(lines)
    PROVE  LET few == SubSeq(lines, 1, n) IN
           /\ Journal(few) /\ Beginning(few, lines) /\ Len(few) = n
<1>1. lines \in Seq(Range(lines)) /\ Readable(lines) /\ Len(lines) \in Nat
  BY DEF Journal
<1>2. Readable(SubSeq(lines, 1, n))
  BY <1>1, ReadableShortened
<1> QED
  BY <1>1, <1>2, Shortened DEF Journal, Beginning

\* Later lines leave alone what can be retried.
LEMMA StaysRestartable ==
    ASSUME NEW few, NEW lines, Beginning(few, lines),
           NEW id, Holds(few, id), NEW s
    PROVE  /\ Restartable(few, s, id) <=> Restartable(lines, s, id)
           /\ Project(few, id) = Project(lines, id)
<1>1. TrailTo(few, id) = TrailTo(lines, id)
  BY TrailStays
<1>2. PathTo(few, id) = PathTo(lines, id) /\ Project(few, id) = Project(lines, id)
  BY <1>1 DEF PathTo, Project
<1>3. ASSUME NEW start \in PathTo(few, id)
      PROVE  Finished(few, start.parent) <=> Finished(lines, start.parent)
  <2>1. Holds(few, start.parent)
    BY PathInLines DEF Beginning
  <2>2. TrailTo(few, start.parent) = TrailTo(lines, start.parent)
    BY <2>1, TrailStays
  <2> QED
    BY <2>2 DEF Finished, Project
<1> QED
  BY <1>2, <1>3 DEF Restartable, RunStarts

\* What can be retried from a record can be from one behind it.
LEMMA RestartableBehind ==
    ASSUME NEW lines, NEW id, NEW later, NEW s,
           PathTo(lines, id) \subseteq PathTo(lines, later),
           Restartable(lines, s, id)
    PROVE  Restartable(lines, s, later)
  BY DEF Restartable, RunStarts

\* The records of main are one path.
LEMMA MainIsPath ==
    ASSUME NEW lines, Journal(lines),
           NEW i \in 1..Len(lines), lines[i].branch = Main
    PROVE  PathTo(lines, lines[i].id) \subseteq PathTo(lines, HeadOf(lines, Main))
<1> DEFINE n == Len(lines)
           G == {k \in 0..n : \A j \in 1..k, m \in 1..k :
                    lines[m].branch = Main /\ lines[j].branch = Main /\ j <= m =>
                       PathTo(lines, lines[j].id) \subseteq PathTo(lines, lines[m].id)}
<1>1. n \in Nat
  BY DEF Journal
<1>2. 0 \in G
  BY <1>1
<1>3. ASSUME NEW k \in 1..n, k - 1 \in G
      PROVE  k \in G
  <2> SUFFICES ASSUME NEW j \in 1..k, NEW m \in 1..k, j <= m,
                      lines[m].branch = Main, lines[j].branch = Main
               PROVE  PathTo(lines, lines[j].id) \subseteq PathTo(lines, lines[m].id)
    BY <1>1
  <2>1. CASE m < k \/ j = m
    <3>1. m < k => j \in 1..(k - 1) /\ m \in 1..(k - 1)
      BY <1>1
    <3> QED
      BY <1>3, <2>1, <3>1
  <2>2. CASE m = k /\ j < k
    <3> DEFINE before == SubSeq(lines, 1, k - 1)
    <3>1. /\ Len(before) = k - 1 /\ k - 1 \in Nat
          /\ \A i1 \in 1..(k - 1) : before[i1] = lines[i1]
          /\ Fits(before, lines[k])
      BY <1>1, LinesBefore, SMTT(60)
    <3> HIDE DEF before
    <3>2. lines[k].parent = HeadOf(before, Main)
      BY <2>2, <3>1 DEF Fits
    <3>3. j \in 1..(k - 1) /\ before[j].branch = Main
      BY <1>1, <2>2, <3>1
    <3>4. PICK p \in 1..(k - 1) :
             /\ before[p].branch = Main /\ HeadOf(before, Main) = before[p].id
             /\ \A q \in 1..(k - 1) : before[q].branch = Main => q <= p
      BY <3>1, <3>3, HeadIs
    <3>5. j <= p /\ lines[p].branch = Main /\ lines[k].parent = lines[p].id
      BY <3>1, <3>2, <3>3, <3>4
    <3>6. PathTo(lines, lines[j].id) \subseteq PathTo(lines, lines[p].id)
      BY <1>3, <3>3, <3>5
    <3>7. PathTo(lines, lines[k].id) = PathTo(lines, lines[k].parent) \cup {lines[k]}
      BY PathAt
    <3> QED
      BY <2>2, <3>5, <3>6, <3>7
  <2> QED
    BY <1>1, <2>1, <2>2
<1>4. n \in G
  <2>1. 0..n \subseteq G
    <3> HIDE DEF G
    <3> QED
      BY <1>1, <1>2, <1>3, Induction
  <2> QED
    BY <1>1, <2>1, SMTT(60)
<1>5. PICK h \in 1..n : /\ lines[h].branch = Main /\ HeadOf(lines, Main) = lines[h].id
                        /\ i <= h
  BY <1>1, HeadIs
<1> QED
  BY <1>4, <1>5

-----------------------------------------------------------------------------
(* The sessions of a journal.                                              *)

\* A session without records.
LEMMA EmptyIsSession == IsSession(EmptySession) /\ Unfinished(EmptySession) = {}
<1>1. EmptySession.entries = <<>> /\ EmptySession.covered = 0
  BY DEF EmptySession
<1>2. <<>> \in Seq(Range(<<>>)) /\ Len(<<>>) = 0
  BY EmptySeq
<1>3. {"runs", "done", "entries", "kept", "covered"} \subseteq DOMAIN EmptySession
  BY DEF EmptySession
<1>4. Unfinished(EmptySession) = {}
  BY DEF EmptySession, Unfinished
<1> QED
  BY <1>1, <1>2, <1>3, <1>4 DEF IsSession

\* What a record makes of a session.
LEMMA Applied ==
    ASSUME NEW s, IsSession(s), NEW line,
           line.kind = "checkpoint" => IsSession(line.saved)
    PROVE  LET new == Apply(s, line) IN
           /\ IsSession(new)
           /\ line.kind = "checkpoint" => new = line.saved
           /\ line.kind = "branch_created" => new = s
           /\ line.kind # "checkpoint" =>
                 /\ s.done \subseteq new.done
                 /\ new.runs \subseteq
                       s.runs \cup IF line.kind = "run_started" THEN {line.run} ELSE {}
<1> DEFINE new == Apply(s, line)
           longer == Append(s.entries, <<line.run, line.n>>)
<1>1. /\ {"runs", "done", "entries", "kept", "covered"} \subseteq DOMAIN s
      /\ s.entries \in Seq(Range(s.entries)) /\ Len(s.entries) \in Nat
      /\ s.covered \in 0..Len(s.entries)
  BY DEF IsSession
<1>2. /\ longer \in Seq(Range(longer))
      /\ s.covered \in 0..Len(longer)
  <2>1. longer \in Seq(Range(longer)) /\ Len(longer) = Len(s.entries) + 1
    BY <1>1, Appended
  <2> HIDE DEF longer
  <2> QED
    BY <1>1, <2>1
<1> HIDE DEF longer
<1>3. CASE line.kind = "checkpoint"
  BY <1>3 DEF Apply
<1>4. CASE line.kind = "run_started"
  <2>1. new = [s EXCEPT !.runs = @ \cup {line.run}, !.entries = longer]
    BY <1>4 DEF Apply, longer
  <2>2. /\ {"runs", "done", "entries", "kept", "covered"} \subseteq DOMAIN new
        /\ new.entries = longer /\ new.covered = s.covered /\ new.done = s.done
        /\ new.runs = s.runs \cup {line.run}
    BY <1>1, <2>1
  <2> QED
    BY <1>2, <1>4, <2>2 DEF IsSession
<1>5. CASE line.kind = "message_appended"
  <2>1. new = [s EXCEPT !.entries = longer]
    BY <1>5 DEF Apply, longer
  <2>2. /\ {"runs", "done", "entries", "kept", "covered"} \subseteq DOMAIN new
        /\ new.entries = longer /\ new.covered = s.covered /\ new.done = s.done
        /\ new.runs = s.runs
    BY <1>1, <2>1
  <2> QED
    BY <1>2, <1>5, <2>2 DEF IsSession
<1>6. CASE line.kind = "run_finished"
  <2>1. new = [s EXCEPT !.done = @ \cup {line.run}]
    BY <1>6 DEF Apply
  <2>2. /\ {"runs", "done", "entries", "kept", "covered"} \subseteq DOMAIN new
        /\ new.entries = s.entries /\ new.covered = s.covered
        /\ s.done \subseteq new.done /\ new.runs = s.runs
    BY <1>1, <2>1
  <2> QED
    BY <1>1, <1>6, <2>2 DEF IsSession
<1>7. CASE line.kind = "compaction_applied"
  <2>1. new = [s EXCEPT !.kept = line.kept, !.covered = Len(s.entries)]
    BY <1>7 DEF Apply, Covered
  <2>2. /\ {"runs", "done", "entries", "kept", "covered"} \subseteq DOMAIN new
        /\ new.entries = s.entries /\ new.covered = Len(s.entries)
        /\ new.done = s.done /\ new.runs = s.runs
    BY <1>1, <2>1
  <2> QED
    BY <1>1, <1>7, <2>2 DEF IsSession
<1>8. CASE line.kind \notin {"checkpoint", "run_started", "message_appended",
                            "run_finished", "compaction_applied"}
  <2>1. new = s
    BY <1>8 DEF Apply
  <2> QED
    BY <1>8, <2>1
<1> QED
  BY <1>3, <1>4, <1>5, <1>6, <1>7, <1>8

\* A record behind one from which everything can be retried.
LEMMA RestartableApplied ==
    ASSUME NEW lines, Journal(lines), NEW line, Fits(lines, line),
           IsSession(Project(lines, line.parent)),
           Restartable(lines, Project(lines, line.parent), line.parent),
           line.kind = "checkpoint" =>
              /\ IsSession(line.saved)
              /\ Restartable(lines, line.saved, line.parent)
    PROVE  LET more == Append(lines, line) IN
           /\ IsSession(Project(more, line.id))
           /\ Restartable(more, Project(more, line.id), line.id)
<1> DEFINE more == Append(lines, line)
           s == Project(lines, line.parent)
           old == IF line.kind = "checkpoint" THEN line.saved ELSE s
<1>1. /\ Journal(more) /\ Beginning(lines, more) /\ Holds(lines, line.parent)
      /\ PathTo(more, line.id) = PathTo(lines, line.parent) \cup {line}
      /\ Project(more, line.id) = Apply(s, line)
  BY OneMore
<1> HIDE DEF more
<1>2. /\ IsSession(Apply(s, line))
      /\ line.kind = "checkpoint" => Apply(s, line) = line.saved
      /\ line.kind # "checkpoint" =>
            /\ s.done \subseteq Apply(s, line).done
            /\ Apply(s, line).runs \subseteq
                  s.runs \cup IF line.kind = "run_started" THEN {line.run} ELSE {}
  BY Applied
<1>3. /\ Project(more, line.parent) = s
      /\ Restartable(more, old, line.parent)
  BY <1>1, StaysRestartable
<1>4. PathTo(more, line.parent) \subseteq PathTo(more, line.id)
  <2>1. PathTo(more, line.parent) = PathTo(lines, line.parent)
    BY <1>1, TrailStays DEF PathTo
  <2> QED
    BY <1>1, <2>1
<1>5. Restartable(more, old, line.id)
  BY <1>3, <1>4, RestartableBehind
<1>6. ASSUME NEW r \in Unfinished(Apply(s, line))
      PROVE  \E start \in RunStarts(more, line.id, r) : Finished(more, start.parent)
  <2>1. CASE r \in Unfinished(old)
    BY <1>5, <2>1 DEF Restartable
  <2>2. CASE r \notin Unfinished(old)
    <3>1. line.kind = "run_started" /\ r = line.run
      BY <1>2, <1>6, <2>2 DEF Unfinished
    <3>2. line \in RunStarts(more, line.id, r)
      BY <1>1, <3>1 DEF RunStarts
    <3>3. Unfinished(s) = {}
      BY <3>1 DEF Fits, CanApply, MayBegin
    <3>4. Finished(more, line.parent)
      BY <1>3, <3>3 DEF Finished
    <3> QED
      BY <3>2, <3>4
  <2> QED
    BY <2>1, <2>2
<1>7. Restartable(more, Apply(s, line), line.id)
  BY <1>6 DEF Restartable
<1> QED
  BY <1>1, <1>2, <1>7 DEF more

\* Any record of a sound journal, or none, leads to a session.
LEMMA SoundAt ==
    ASSUME NEW lines, Journal(lines), Sound(lines), NEW id, Holds(lines, id)
    PROVE  IsSession(Project(lines, id)) /\ Restartable(lines, Project(lines, id), id)
<1>1. CASE id = NoRecord
  <2>1. Project(lines, id) = EmptySession
    BY <1>1, TrailToNone DEF Project, Root
  <2> QED
    BY <2>1, EmptyIsSession DEF Restartable
<1>2. CASE Known(lines, id)
  BY <1>2 DEF Known, Sound
<1> QED
  BY <1>1, <1>2 DEF Holds

\* A sound journal stays so behind a record that keeps to what it is for.
LEMMA SoundAppended ==
    ASSUME NEW lines, Journal(lines), Sound(lines), NEW line, Fits(lines, line),
           line.kind = "checkpoint" =>
              /\ line.branch = Main /\ IsSession(line.saved)
              /\ Restartable(lines, line.saved, HeadOf(lines, Main)),
           GoesBack(lines, line)
    PROVE  Sound(Append(lines, line))
<1> DEFINE more == Append(lines, line)
<1>1. /\ Journal(more) /\ Beginning(lines, more) /\ Holds(lines, line.parent)
      /\ Len(more) = Len(lines) + 1 /\ more[Len(lines) + 1] = line
  BY OneMore
<1>2. /\ Len(lines) \in Nat /\ lines \in Seq(Range(lines))
  BY DEF Journal
<1>3. \A n \in 0..Len(lines) : SubSeq(more, 1, n) = SubSeq(lines, 1, n)
  BY <1>2, Appended
<1> HIDE DEF more
<1>4. SubSeq(lines, 1, Len(lines)) = lines
  BY <1>2, SubSeqFull
<1>5. \A i \in 1..Len(lines) : more[i] = lines[i]
  BY <1>1 DEF Beginning
<1> SUFFICES ASSUME NEW i \in 1..Len(more)
             PROVE  /\ IsSession(Project(more, more[i].id))
                    /\ Restartable(more, Project(more, more[i].id), more[i].id)
                    /\ GoesBack(SubSeq(more, 1, i - 1), more[i])
  BY DEF Sound, more
<1>6. CASE i \in 1..Len(lines)
  <2>1. Holds(lines, lines[i].id)
    BY <1>6 DEF Holds, Known
  <2>2. /\ IsSession(Project(lines, lines[i].id))
        /\ Restartable(lines, Project(lines, lines[i].id), lines[i].id)
        /\ GoesBack(SubSeq(lines, 1, i - 1), lines[i])
    BY <1>6 DEF Sound
  <2>3. SubSeq(more, 1, i - 1) = SubSeq(lines, 1, i - 1) /\ more[i] = lines[i]
    BY <1>2, <1>3, <1>5, <1>6
  <2>4. /\ Project(more, lines[i].id) = Project(lines, lines[i].id)
        /\ Restartable(more, Project(lines, lines[i].id), lines[i].id)
    BY <1>1, <2>1, <2>2, StaysRestartable
  <2> QED
    BY <2>2, <2>3, <2>4
<1>7. CASE i = Len(lines) + 1
  <2>1. /\ IsSession(Project(lines, line.parent))
        /\ Restartable(lines, Project(lines, line.parent), line.parent)
    BY <1>1, SoundAt
  <2>2. line.kind = "checkpoint" => line.parent = HeadOf(lines, Main)
    BY DEF Fits
  <2>3. /\ IsSession(Project(more, line.id))
        /\ Restartable(more, Project(more, line.id), line.id)
    BY <2>1, <2>2, RestartableApplied DEF more
  <2>4. SubSeq(more, 1, i - 1) = lines
    BY <1>2, <1>3, <1>4, <1>7
  <2> QED
    BY <1>1, <1>7, <2>3, <2>4
<1> QED
  BY <1>1, <1>2, <1>6, <1>7

\* So does its beginning.
LEMMA SoundShortened ==
    ASSUME NEW lines, Journal(lines), Sound(lines), NEW n \in 0..Len(lines)
    PROVE  Sound(SubSeq(lines, 1, n))
<1> DEFINE few == SubSeq(lines, 1, n)
<1>1. Journal(few) /\ Beginning(few, lines) /\ Len(few) = n
  BY SomeLess
<1>2. Len(lines) \in Nat /\ lines \in Seq(Range(lines))
  BY DEF Journal
<1>3. \A m \in 0..n : SubSeq(few, 1, m) = SubSeq(lines, 1, m)
  BY <1>2, Shortened
<1> HIDE DEF few
<1> SUFFICES ASSUME NEW i \in 1..n
             PROVE  /\ IsSession(Project(few, few[i].id))
                    /\ Restartable(few, Project(few, few[i].id), few[i].id)
                    /\ GoesBack(SubSeq(few, 1, i - 1), few[i])
  BY <1>1 DEF Sound, few
<1>4. few[i] = lines[i] /\ i \in 1..Len(lines) /\ i - 1 \in 0..n
  BY <1>1, <1>2 DEF Beginning
<1>5. Holds(few, few[i].id)
  BY <1>1 DEF Holds, Known
<1>6. /\ IsSession(Project(lines, lines[i].id))
      /\ Restartable(lines, Project(lines, lines[i].id), lines[i].id)
      /\ GoesBack(SubSeq(lines, 1, i - 1), lines[i])
  BY <1>4 DEF Sound
<1>7. /\ Project(few, lines[i].id) = Project(lines, lines[i].id)
      /\ Restartable(few, Project(lines, lines[i].id), lines[i].id)
  BY <1>1, <1>4, <1>5, <1>6, StaysRestartable
<1> QED
  BY <1>3, <1>4, <1>6, <1>7

\* In a sound journal what is unfinished at a head can be retried, and a retry
\* is before its run.
LEMMA SoundMeans ==
    ASSUME Journal(file), Sound(file)
    PROVE  Recoverable /\ RetryStartsBefore
<1>1. ASSUME NEW b
      PROVE  LET head == HeadOf(file, b) IN
             Restartable(file, Project(file, head), head)
  BY HeadHeld, SoundAt
<1>2. ASSUME NEW i \in 1..Len(file), file[i].kind = "branch_created",
             file[i].run # NoRun
      PROVE  /\ file[i].run \notin Project(file, file[i].id).runs
             /\ Unfinished(Project(file, file[i].id)) = {}
  <2> DEFINE before == SubSeq(file, 1, i - 1)
             s == Project(file, file[i].parent)
  <2>1. /\ Len(before) = i - 1
        /\ \A k \in 1..(i - 1) : before[k] = file[k]
        /\ Journal(before)
    BY LinesBefore
  <2> HIDE DEF before
  <2>2. PICK start \in Range(before) :
           /\ start.kind = "run_started" /\ start.run = file[i].run
           /\ start.parent = file[i].parent
    BY <1>2 DEF Sound, GoesBack, before
  <2>3. PICK k \in 1..(i - 1) : start = file[k]
    BY <2>1, <2>2 DEF Range, Journal
  <2> DEFINE less == SubSeq(file, 1, k - 1)
  <2>4. k \in 1..Len(file) /\ k - 1 \in 0..Len(file)
    OBVIOUS
  <2>5. Fits(less, file[k]) /\ Beginning(less, file)
    BY <2>4, LinesBefore, SomeLess
  <2> HIDE DEF less
  <2>6. Holds(less, file[k].parent)
    BY <2>5 DEF Fits, Holds
  <2>7. Project(less, file[k].parent) = s
    BY <2>2, <2>3, <2>5, <2>6, StaysRestartable
  <2>8. MayBegin(s, file[i].run)
    BY <2>2, <2>3, <2>5, <2>7 DEF Fits, CanApply
  <2>9. Project(file, file[i].id) = s
    <3>1. Project(file, file[i].id) = Apply(s, file[i])
      BY PathAt
    <3> QED
      BY <1>2, <3>1 DEF Apply
  <2> QED
    BY <2>8, <2>9 DEF MayBegin
<1> QED
  BY <1>1, <1>2 DEF Recoverable, RetryStartsBefore

-----------------------------------------------------------------------------
(* What threads are going to record.                                       *)

\* What a thread may record is its draft in its place; a retry is placed
\* before the start of its run.
LEMMA CandidateFields ==
    ASSUME NEW lines, NEW j, NEW l \in Candidates(lines, j),
           IsLine(j.draft), j.op \in {"append", "branch", "retry"}
    PROVE  /\ SameEvent(l, j.draft) /\ l.saved = j.draft.saved
           /\ j.op = "retry" =>
                 \E start \in RunStarts(lines, HeadOf(lines, j.draft.source), l.run) :
                    l.parent = start.parent
<1> DEFINE d == [j.draft EXCEPT !.id = made.records + 1, !.rev = Len(lines) + 1]
           source == HeadOf(lines, j.draft.source)
           branched == [d EXCEPT !.sourceHead = source]
<1>1. d.source = j.draft.source /\ d.run = j.draft.run
  BY SMTT(60) DEF IsLine
<1>2. \/ j.op # "retry" /\ \E p : l = [d EXCEPT !.parent = p]
      \/ j.op # "retry" /\ \E p : l = [branched EXCEPT !.parent = p]
      \/ /\ j.op = "retry"
         /\ \E start \in RunStarts(lines, source, j.draft.run) :
               l = [branched EXCEPT !.parent = RetryBase(lines, j.draft.source, start)]
  <2>1. CASE j.op = "append"
    <3>1. l = [d EXCEPT !.parent = HeadOf(lines, d.branch)]
      BY <2>1 DEF Candidates
    <3> QED
      BY <2>1, <3>1
  <2>2. CASE j.op = "branch"
    <3>1. \E p : l = [branched EXCEPT !.parent = p]
      BY <1>1, <2>2 DEF Candidates
    <3> QED
      BY <2>2, <3>1
  <2>3. CASE j.op = "retry"
    <3>1. \E start \in RunStarts(lines, source, j.draft.run) :
             l = [branched EXCEPT !.parent = RetryBase(lines, j.draft.source, start)]
      BY <1>1, <2>3 DEF Candidates
    <3> QED
      BY <2>3, <3>1
  <2> QED
    BY <2>1, <2>2, <2>3
<1>3. ASSUME NEW p, l = [d EXCEPT !.parent = p] \/ l = [branched EXCEPT !.parent = p]
      PROVE  /\ SameEvent(l, j.draft) /\ l.saved = j.draft.saved
             /\ l.parent = p
  BY <1>3 DEF IsLine, SameEvent
<1>4. CASE j.op # "retry"
  BY <1>2, <1>3, <1>4
<1>5. CASE j.op = "retry"
  <2>1. PICK start \in RunStarts(lines, source, j.draft.run) :
           l = [branched EXCEPT !.parent = start.parent]
    BY <1>2, <1>5 DEF RetryBase
  <2>2. /\ SameEvent(l, j.draft) /\ l.saved = j.draft.saved
        /\ l.parent = start.parent
    BY <1>3, <2>1
  <2> QED
    BY <2>1, <2>2 DEF SameEvent
<1> QED
  BY <1>4, <1>5

\* A start of a run on a path is a line.
LEMMA StartsInLines ==
    ASSUME NEW lines, Journal(lines), NEW b, NEW r,
           NEW start \in RunStarts(lines, HeadOf(lines, b), r)
    PROVE  start \in Range(lines) /\ start.kind = "run_started" /\ start.run = r
<1>1. /\ start \in PathTo(lines, HeadOf(lines, b))
      /\ start.kind = "run_started" /\ start.run = r
  BY DEF RunStarts
<1>2. \E k \in 1..Len(lines) : start = lines[k]
  BY <1>1, HeadHeld, PathInLines
<1> QED
  BY <1>1, <1>2 DEF Range, Journal

\* A thread that has read keeps a sound draft.
LEMMA CandidateSound ==
    ASSUME NEW lines, Journal(lines), NEW j, NEW l \in Candidates(lines, j),
           j.pc = "reading", IsLine(j.draft), DraftSound(lines, j),
           NEW k, k.pc = "opened", k.draft = l
    PROVE  DraftSound(lines, k)
<1>1. /\ j.op \in {"append", "branch", "retry"}
      /\ j.op = "append" => j.draft.kind # "branch_created"
      /\ j.op = "branch" => j.draft.run = NoRun
      /\ j.draft.kind = "checkpoint" =>
          /\ j.draft.branch = Main /\ IsSession(j.draft.saved)
          /\ Restartable(lines, j.draft.saved, HeadOf(lines, Main))
  BY DEF DraftSound
<1>2. /\ l.kind = j.draft.kind /\ l.branch = j.draft.branch
      /\ l.run = j.draft.run /\ l.saved = j.draft.saved
      /\ j.op = "retry" =>
            \E start \in RunStarts(lines, HeadOf(lines, j.draft.source), l.run) :
               l.parent = start.parent
  BY <1>1, CandidateFields DEF SameEvent
<1>3. GoesBack(lines, l)
  BY <1>1, <1>2, StartsInLines DEF GoesBack
<1> QED
  BY <1>1, <1>2, <1>3 DEF DraftSound

\* A thread that is not at work on a draft has none to be sound.
LEMMA NoDraft ==
    ASSUME NEW lines, NEW j, j.pc \notin {"reading", "opened", "writing"}
    PROVE  DraftSound(lines, j)
  BY DEF DraftSound

\* A thread goes on while the file stays.
LEMMA SessionsStay ==
    ASSUME SessionInv, Shapes, file' = file, NEW t \in Threads, NEW j,
           job' = [job EXCEPT ![t] = j], DraftSound(file, j),
           \A r \in Recorders : rec'[r].pc \in {"event", "checked"} =>
              rec'[r].pc = rec[r].pc /\ rec'[r].draft = rec[r].draft
    PROVE  SessionInv'
<1>1. \A u \in Threads : job'[u] = IF u = t THEN j ELSE job[u]
  BY DEF Shapes
<1>2. \A u \in Threads : DraftSound(file, job'[u])
  BY <1>1 DEF SessionInv
<1> QED
  BY <1>2 DEF SessionInv

\* The session that save writes was a projection of the journal.
LEMMA SavedSound ==
    ASSUME NEW lines, Journal(lines), Sound(lines), NEW n \in 1..Len(lines)
    PROVE  LET then == SubSeq(lines, 1, n)
               saved == Project(then, HeadOf(then, Main))
           IN  IsSession(saved) /\ Restartable(lines, saved, HeadOf(lines, Main))
<1> DEFINE then == SubSeq(lines, 1, n)
           head == HeadOf(then, Main)
           saved == Project(then, head)
<1>1. Journal(then) /\ Beginning(then, lines) /\ Len(then) = n
  BY SomeLess
<1>2. Sound(then)
  BY SoundShortened
<1> HIDE DEF then
<1>3. Holds(then, head)
  BY <1>1, HeadHeld
<1>4. IsSession(saved) /\ Restartable(then, saved, head)
  BY <1>1, <1>2, <1>3, SoundAt
<1>5. Restartable(lines, saved, head)
  BY <1>1, <1>3, <1>4, StaysRestartable
<1>6. PathTo(lines, head) \subseteq PathTo(lines, HeadOf(lines, Main))
  <2>1. CASE \E i \in 1..n : then[i].branch = Main
    <3>1. PICK i \in 1..n : then[i].branch = Main /\ head = then[i].id
      BY <1>1, <2>1, HeadIs
    <3>2. i \in 1..Len(lines) /\ lines[i] = then[i]
      BY <1>1 DEF Beginning, Journal
    <3> QED
      BY <3>1, <3>2, MainIsPath
  <2>2. CASE \A i \in 1..n : then[i].branch # Main
    <3>1. head = NoRecord
      BY <1>1, <2>2, NoHead
    <3> QED
      BY <3>1, TrailToNone DEF PathTo, Root
  <2> QED
    BY <2>1, <2>2
<1> QED
  BY <1>4, <1>5, <1>6, RestartableBehind DEF then

\* The calls of the program and of recorders.
LEMMA SessionsAtCalls ==
    ASSUME SessionInv, CallInv, FileInv, NEW t \in Threads,
           \/ CreateBranch(t) \/ PrepareRetry(t) \/ Save(t)
           \/ \E r \in Recorders : AppendEvent(r, t)
    PROVE  SessionInv'
<1>0. Shapes /\ Journal(file) /\ Sound(file)
  BY DEF CallInv, FileInv, JournalReadable, Journal, SessionInv
<1>1. PICK op, draft, check, expected, owner :
         /\ Call(t, op, draft, check, expected, owner)
         /\ op \in {"append", "branch", "retry"}
         /\ op = "append" => draft.kind # "branch_created"
         /\ op = "branch" => draft.run = NoRun
         /\ draft.kind = "checkpoint" =>
               /\ draft.branch = Main /\ IsSession(draft.saved)
               /\ Restartable(file, draft.saved, HeadOf(file, Main))
  <2>1. CASE CreateBranch(t)
    <3>1. PICK b, source, base :
             Call(t, "branch",
                  [Draft("branch_created", b) EXCEPT !.source = source,
                                                     !.parent = base],
                  FALSE, NoRecord, None)
      BY <2>1 DEF CreateBranch
    <3> DEFINE d == [Draft("branch_created", b) EXCEPT !.source = source,
                                                       !.parent = base]
    <3>2. d.kind = "branch_created" /\ d.run = NoRun
      BY DEF Draft
    <3> HIDE DEF d
    <3> QED
      BY <3>1, <3>2 DEF d
  <2>2. CASE PrepareRetry(t)
    <3>1. PICK b, source, r :
             Call(t, "retry",
                  [Draft("branch_created", b) EXCEPT !.source = source, !.run = r],
                  FALSE, NoRecord, None)
      BY <2>2 DEF PrepareRetry
    <3> DEFINE d == [Draft("branch_created", b) EXCEPT !.source = source, !.run = r]
    <3>2. d.kind = "branch_created"
      BY DEF Draft
    <3> HIDE DEF d
    <3> QED
      BY <3>1, <3>2 DEF d
  <2>3. CASE Save(t)
    <3>1. PICK i \in 1..Len(file) :
             LET then == SubSeq(file, 1, i) IN
             Call(t, "append", [Draft("checkpoint", Main) EXCEPT
                                  !.saved = Project(then, HeadOf(then, Main))],
                  FALSE, NoRecord, None)
      BY <2>3 DEF Save
    <3>2. PICK saved :
             /\ Call(t, "append", [Draft("checkpoint", Main) EXCEPT !.saved = saved],
                     FALSE, NoRecord, None)
             /\ IsSession(saved)
             /\ Restartable(file, saved, HeadOf(file, Main))
      BY <1>0, <3>1, SavedSound
    <3> DEFINE d == [Draft("checkpoint", Main) EXCEPT !.saved = saved]
    <3>3. d.kind = "checkpoint" /\ d.branch = Main /\ d.saved = saved
      BY DEF Draft
    <3> HIDE DEF d
    <3> QED
      BY <3>2, <3>3 DEF d
  <2>4. CASE \E r \in Recorders : AppendEvent(r, t)
    <3>1. PICK r \in Recorders : AppendEvent(r, t)
      BY <2>4
    <3>2. rec[r].draft.kind \in EventKinds
      BY <3>1 DEF AppendEvent, SessionInv
    <3> QED
      BY <3>1, <3>2 DEF AppendEvent, EventKinds
  <2> QED
    BY <2>1, <2>2, <2>3, <2>4
<1> DEFINE j == Asked(op, draft, check, expected, owner)
<1>2. job' = [job EXCEPT ![t] = j]
  BY <1>1 DEF Call, Asked
<1>3. j.pc = "reading" /\ j.op = op /\ j.draft = draft
  BY DEF Asked, Idle
<1> HIDE DEF j
<1>4. DraftSound(file, j)
  BY <1>1, <1>3, SMTT(60) DEF DraftSound
<1>5. file' = file
  BY DEF CreateBranch, PrepareRetry, Save, AppendEvent
<1>6. ASSUME NEW r \in Recorders, rec'[r].pc \in {"event", "checked"}
      PROVE  rec'[r].pc = rec[r].pc /\ rec'[r].draft = rec[r].draft
  <2>1. CASE rec' = rec
    BY <2>1
  <2>2. CASE \E q \in Recorders : rec' = [rec EXCEPT ![q].pc = "appending"]
    BY <1>0, <1>6, <2>2 DEF Shapes, RecFields
  <2> QED
    BY <2>1, <2>2 DEF CreateBranch, PrepareRetry, Save, AppendEvent
<1> QED
  BY <1>0, <1>2, <1>4, <1>5, <1>6, SessionsStay

\* What an event's failure, success or cancellation leaves is no event.
LEMMA AfterIsIdle ==
    ASSUME NEW x, RecFields(x)
    PROVE  /\ AfterSuccess(x).pc = "idle" /\ AfterFailure(x).pc = "idle"
           /\ AfterCancel(x).pc = "idle"
<1>1. ASSUME NEW y, RecFields(y)
      PROVE  AfterSuccess(y).pc = "idle" /\ RecFields(AfterSuccess(y))
  <2>1. CASE y.draft.kind = "run_finished"
    <3>1. AfterSuccess(y) =
            [y EXCEPT !.pc = "idle", !.run = NoRun, !.n = 0, !.ending = FALSE]
      BY <2>1 DEF AfterSuccess
    <3> QED
      BY <1>1, <3>1 DEF RecFields
  <2>2. CASE y.draft.kind # "run_finished"
    <3>1. AfterSuccess(y) = [y EXCEPT !.pc = "idle"]
      BY <2>2 DEF AfterSuccess
    <3> QED
      BY <1>1, <3>1 DEF RecFields
  <2> QED
    BY <2>1, <2>2
<1>2. AfterFailure(x).pc = "idle" /\ RecFields(AfterFailure(x))
  BY <1>1 DEF AfterFailure, RecFields
<1>3. AfterCancel(x).pc = "idle"
  BY <1>2 DEF AfterCancel, RecFields
<1> QED
  BY <1>1, <1>2, <1>3

\* The work of the one thread, and its end.
LEMMA SessionsAtWork ==
    ASSUME SessionInv, CallInv, FileInv, OneWriter, NEW t \in Threads,
           \/ ReadJournal(t) \/ RepairTail(t) \/ WriteLine(t) \/ SyncFile(t)
           \/ Return(t) \/ CancelCall(t)
    PROVE  SessionInv'
<1>0. /\ Shapes /\ OwnedCall(t) /\ Journal(file) /\ Sound(file)
      /\ JobFields(job[t]) /\ DraftSound(file, job[t]) /\ CurrentJob(job[t])
  BY DEF CallInv, OwnedCalls, FileInv, JournalReadable, Journal, SessionInv, Shapes
<1>1. ASSUME NEW r \in Recorders, rec'[r].pc \in {"event", "checked"}
      PROVE  rec'[r].pc = rec[r].pc /\ rec'[r].draft = rec[r].draft
  <2> DEFINE x == rec[job[t].owner]
  <2>1. \/ rec' = rec
        \/ /\ job[t].owner \in Recorders
           /\ \/ rec' = [rec EXCEPT ![job[t].owner] = AfterSuccess(x)]
              \/ rec' = [rec EXCEPT ![job[t].owner] = AfterFailure(x)]
              \/ rec' = [rec EXCEPT ![job[t].owner] = AfterCancel(x)]
    BY <1>0 DEF ReadJournal, RepairTail, WriteLine, SyncFile, Return, CancelCall,
                Inform, OwnedCall
  <2>2. CASE rec' = rec
    BY <2>2
  <2>3. CASE rec' # rec
    <3>1. RecFields(x) /\ job[t].owner \in Recorders
      BY <1>0, <2>1, <2>3 DEF Shapes
    <3>2. rec'[job[t].owner].pc = "idle"
      BY <1>0, <2>1, <2>3, <3>1, AfterIsIdle DEF Shapes
    <3>3. r # job[t].owner
      BY <1>1, <3>2
    <3> QED
      BY <1>0, <2>1, <2>3, <3>3 DEF Shapes
  <2> QED
    BY <2>2, <2>3, SMTT(60)
<1>2. CASE ReadJournal(t)
  <2>1. CASE CanRead /\ Candidates(file, job[t]) # {}
    <3>1. PICK l \in Candidates(file, job[t]) :
             job' = [job EXCEPT ![t].pc = "opened", ![t].draft = l,
                                ![t].valid = Len(file)]
      BY <1>2, <2>1 DEF ReadJournal
    <3> DEFINE j == [job[t] EXCEPT !.pc = "opened", !.draft = l,
                                   !.valid = Len(file)]
    <3>2. job' = [job EXCEPT ![t] = j]
      BY <1>0, <3>1 DEF Shapes
    <3>3. j.pc = "opened" /\ j.draft = l
      BY <1>0 DEF JobFields
    <3> HIDE DEF j
    <3>4. job[t].pc = "reading" /\ IsLine(job[t].draft) /\ file' = file
      BY <1>0, <1>2 DEF ReadJournal, Shapes
    <3>5. DraftSound(file, j)
      BY <1>0, <3>3, <3>4, CandidateSound
    <3> QED
      BY <1>0, <1>1, <3>2, <3>4, <3>5, SessionsStay
  <2>2. CASE ~(CanRead /\ Candidates(file, job[t]) # {})
    <3> DEFINE j == [Idle EXCEPT !.pc = "failed", !.owner = job[t].owner]
    <3>1. job' = [job EXCEPT ![t] = j] /\ file' = file
      BY <1>2, <2>2 DEF ReadJournal
    <3>2. j.pc = "failed"
      BY DEF Idle
    <3> HIDE DEF j
    <3> QED
      BY <1>0, <1>1, <3>1, <3>2, NoDraft, SessionsStay
  <2> QED
    BY <2>1, <2>2
<1>3. CASE RepairTail(t)
  <2>1. file' = file /\ job[t].pc = "opened"
    BY <1>0, <1>3, FileRepaired DEF RepairTail
  <2>2. PICK j : /\ job' = [job EXCEPT ![t] = j]
                 /\ j.pc = "writing" /\ j.draft = job[t].draft
    BY <1>0, <1>3, PcSet DEF RepairTail
  <2>3. DraftSound(file, j)
    BY <1>0, <2>1, <2>2 DEF DraftSound
  <2> QED
    BY <1>0, <1>1, <2>1, <2>2, <2>3, SessionsStay
<1>4. CASE WriteLine(t)
  <2>1. PICK j : /\ job' = [job EXCEPT ![t] = j]
                 /\ j.pc \in {"syncing", "failed"}
    <3>1. PICK pc \in {"syncing", "failed"} : job' = [job EXCEPT ![t].pc = pc]
      BY <1>4 DEF WriteLine
    <3>2. PICK k : /\ job' = [job EXCEPT ![t] = k]
                   /\ k.pc = pc /\ k.draft = job[t].draft
      BY <1>0, <3>1, PcSet
    <3> QED
      BY <3>1, <3>2
  <2>3. job[t].pc = "writing"
    BY <1>4 DEF WriteLine
  <2>4. ASSUME NEW u \in Threads
        PROVE  job'[u].pc \notin {"reading", "opened", "writing"}
    <3>1. CASE u = t
      BY <1>0, <2>1, <3>1 DEF Shapes
    <3>2. CASE u # t
      BY <1>0, <2>1, <2>3, <3>2 DEF Shapes, OneWriter
    <3> QED
      BY <3>1, <3>2
  <2>5. \A u \in Threads : DraftSound(file', job'[u])
    BY <2>4, NoDraft
  <2>6. Sound(file')
    <3>1. Fits(file, job[t].draft) /\ GoesBack(file, job[t].draft)
      BY <1>0, <2>3 DEF CurrentJob, DraftSound
    <3>2. job[t].draft.kind = "checkpoint" =>
            /\ job[t].draft.branch = Main /\ IsSession(job[t].draft.saved)
            /\ Restartable(file, job[t].draft.saved, HeadOf(file, Main))
      BY <1>0, <2>3 DEF DraftSound
    <3>3. Sound(Append(file, job[t].draft))
      BY <1>0, <3>1, <3>2, SoundAppended
    <3>4. file' = file \/ file' = Append(file, job[t].draft)
      BY <1>0, <1>4, FileWritten
    <3> QED
      BY <1>0, <3>3, <3>4
  <2> QED
    BY <1>1, <2>5, <2>6 DEF SessionInv
<1>5. CASE SyncFile(t) \/ Return(t)
  <2>1. PICK j : /\ job' = [job EXCEPT ![t] = j]
                 /\ j.pc \in {"done", "failed", "free"}
    <3>1. CASE SyncFile(t)
      <4>1. PICK pc \in {"done", "failed"} : job' = [job EXCEPT ![t].pc = pc]
        BY <3>1 DEF SyncFile
      <4>2. PICK k : /\ job' = [job EXCEPT ![t] = k]
                     /\ k.pc = pc /\ k.draft = job[t].draft
        BY <1>0, <4>1, PcSet
      <4> QED
        BY <4>1, <4>2
    <3>2. CASE Return(t)
      BY <3>2, Resting DEF Return
    <3> QED
      BY <1>5, <3>1, <3>2
  <2>2. file' = file
    BY <1>5 DEF SyncFile, Return
  <2> QED
    BY <1>0, <1>1, <2>1, <2>2, NoDraft, SessionsStay
<1>6. CASE CancelCall(t)
  <2>1. CASE job' = [job EXCEPT ![t] = Idle]
    BY <1>0, <1>1, <1>6, <2>1, Resting, NoDraft, SessionsStay DEF CancelCall
  <2>2. CASE job' = [job EXCEPT ![t].owner = None]
    <3> DEFINE j == [job[t] EXCEPT !.owner = None]
    <3>1. job' = [job EXCEPT ![t] = j]
      BY <1>0, <2>2 DEF Shapes
    <3>2. j.pc = job[t].pc /\ j.draft = job[t].draft /\ j.op = job[t].op
      BY <1>0 DEF JobFields
    <3> HIDE DEF j
    <3>3. DraftSound(file, j)
      BY <1>0, <3>2 DEF DraftSound
    <3>4. file' = file
      BY <1>6 DEF CancelCall
    <3> QED
      BY <1>0, <1>1, <3>1, <3>3, <3>4, SessionsStay
  <2> QED
    BY <1>6, <2>1, <2>2 DEF CancelCall
<1> QED
  BY <1>2, <1>3, <1>4, <1>5, <1>6

\* The steps of recorders between their calls.
LEMMA SessionsAtEvents ==
    ASSUME SessionInv, CallInv, NEW r \in Recorders,
           \/ Attach(r) \/ AgentStarts(r) \/ AgentSpeaks(r) \/ AgentCompacts(r)
           \/ AgentFinishes(r) \/ CheckEvent(r) \/ CancelEvent(r)
    PROVE  SessionInv'
<1>0. /\ rec = [q \in Recorders |-> rec[q]]
      /\ RecFields(rec[r])
      /\ rec[r].pc \in {"event", "checked"} => rec[r].draft.kind \in EventKinds
  BY DEF CallInv, Shapes, SessionInv
<1>1. PICK x : /\ rec' = [rec EXCEPT ![r] = x]
               /\ x.pc \in {"event", "checked"} => x.draft.kind \in EventKinds
  <2>1. CASE Attach(r)
    <3>1. PICK b : rec' = [rec EXCEPT ![r].pc = "idle", ![r].branch = b]
      BY <2>1 DEF Attach
    <3> DEFINE x == [rec[r] EXCEPT !.pc = "idle", !.branch = b]
    <3>2. rec' = [rec EXCEPT ![r] = x]
      BY <1>0, <3>1
    <3>3. x.pc = "idle"
      BY <1>0 DEF RecFields
    <3> QED
      BY <3>2, <3>3
  <2>2. CASE AgentStarts(r) \/ AgentSpeaks(r) \/ AgentCompacts(r)
             \/ AgentFinishes(r)
    <3>1. PICK kind, run, n : kind \in EventKinds /\ EmitEvent(r, kind, run, n)
      BY <2>2 DEF AgentStarts, AgentSpeaks, AgentCompacts, AgentFinishes, EventKinds
    <3>2. PICK draft :
             /\ rec' = [rec EXCEPT ![r].pc = "event", ![r].run = run,
                                   ![r].n = n, ![r].draft = draft]
             /\ draft.kind = kind
      <4>1. PICK kept :
               rec' = [rec EXCEPT ![r].pc = "event", ![r].run = run, ![r].n = n,
                         ![r].draft = [Draft(kind, rec[r].branch) EXCEPT
                                         !.run = run, !.n = n, !.kept = kept]]
        BY <3>1 DEF EmitEvent
      <4>2. [Draft(kind, rec[r].branch) EXCEPT
                      !.run = run, !.n = n, !.kept = kept].kind = kind
        BY DEF Draft
      <4> QED
        BY <4>1, <4>2
    <3> DEFINE x == [rec[r] EXCEPT !.pc = "event", !.run = run, !.n = n,
                                   !.draft = draft]
    <3>3. rec' = [rec EXCEPT ![r] = x]
      BY <1>0, <3>2
    <3>4. x.draft = draft
      BY <1>0 DEF RecFields
    <3>5. draft.kind \in EventKinds
      BY <3>1, <3>2
    <3> HIDE DEF x
    <3> QED
      BY <3>3, <3>4, <3>5
  <2>3. CASE CheckEvent(r)
    <3> DEFINE x == [rec[r] EXCEPT !.pc = "checked",
                                   !.expected = HeadOf(file, rec[r].branch)]
    <3>1. /\ \/ rec' = [rec EXCEPT ![r] = x]
             \/ rec' = [rec EXCEPT ![r] = AfterFailure(rec[r])]
          /\ rec[r].pc = "event"
      BY <2>3 DEF CheckEvent
    <3>2. x.draft = rec[r].draft
      BY <1>0 DEF RecFields
    <3> HIDE DEF x
    <3> QED
      BY <1>0, <3>1, <3>2, AfterIsIdle
  <2>4. CASE CancelEvent(r)
    <3>1. rec' = [rec EXCEPT ![r] = AfterCancel(rec[r])]
      BY <2>4 DEF CancelEvent
    <3> QED
      BY <1>0, <3>1, AfterIsIdle
  <2> QED
    BY <2>1, <2>2, <2>3, <2>4
<1>2. UNCHANGED <<job, file>>
  BY DEF Attach, AgentStarts, AgentSpeaks, AgentCompacts, AgentFinishes,
         EmitEvent, CheckEvent, CancelEvent
<1>3. \A q \in Recorders : rec'[q] = IF q = r THEN x ELSE rec[q]
  BY <1>0, <1>1
<1> QED
  BY <1>1, <1>2, <1>3 DEF SessionInv

\* A crash leaves a sound beginning.
LEMMA SessionsCrash ==
    ASSUME SessionInv, FileInv, Crash
    PROVE  SessionInv'
<1>1. Journal(file) /\ Sound(file) /\ Len(file) \in Nat
  BY DEF FileInv, JournalReadable, Journal, SessionInv
<1>2. PICK n \in synced..Len(file) : file' = SubSeq(file, 1, n)
  BY DEF Crash
<1>3. n \in 0..Len(file)
  BY <1>1, <1>2 DEF FileInv
<1>4. Sound(file')
  BY <1>1, <1>2, <1>3, SoundShortened
<1>5. \A t \in Threads : DraftSound(file', job'[t])
  BY Resting, NoDraft DEF Crash
<1>6. \A r \in Recorders : rec'[r].pc = "detached"
  BY Resting DEF Crash
<1> QED
  BY <1>4, <1>5, <1>6 DEF SessionInv

\* Every step keeps the sessions sound.
LEMMA SessionStep ==
    ASSUME SessionInv, CallInv, FileInv, OneWriter, [Next]_vars
    PROVE  SessionInv'
<1>1. CASE UNCHANGED vars
  BY <1>1 DEF vars, SessionInv
<1> QED
  BY <1>1, SessionsAtCalls, SessionsAtWork, SessionsAtEvents, SessionsCrash
  DEF Next, Step

\* A new journal has none.
LEMMA SessionBegins == Init => SessionInv
<1> SUFFICES ASSUME Init PROVE SessionInv
  OBVIOUS
<1>1. file = <<>> /\ Len(file) = 0
  BY DEF Init
<1>2. Sound(file)
  BY <1>1 DEF Sound
<1> QED
  BY <1>2, Resting, NoDraft DEF Init, SessionInv

\* As long as no two threads work on the journal, every record projects to a
\* session whose unfinished runs can be retried.
THEOREM SessionInvariant == Spec /\ []OneWriter => []SessionInv
  BY SessionBegins, SessionStep, CallInvariant, FileInvariant, PTL DEF Spec

\* With one writing thread an interrupted run can always be retried: its start
\* is on its branch and what preceded it was finished (_prepare_retry_sync).
THEOREM RunsRecoverable == Spec /\ []OneWriter => []Recoverable
<1>1. FileInv /\ SessionInv => Recoverable
  BY SoundMeans DEF FileInv, JournalReadable, Journal, SessionInv
<1> QED
  BY <1>1, SessionInvariant, FileInvariant, PTL

\* With one writing thread a retry branches before the run that it retries.
THEOREM RetriesGoBack == Spec /\ []OneWriter => []RetryStartsBefore
<1>1. FileInv /\ SessionInv => RetryStartsBefore
  BY SoundMeans DEF FileInv, JournalReadable, Journal, SessionInv
<1> QED
  BY <1>1, SessionInvariant, FileInvariant, PTL

-----------------------------------------------------------------------------
(* What agents remember.                                                   *)

\* A recorder that has nothing to do with a step.
LEMMA StaysOwn ==
    ASSUME NEW r \in Recorders, OwnBranch(r), file' = file, Apart(r)',
           rec'[r] = rec[r], view'[r] = view[r],
           \A t \in Threads : /\ ToWrite(t, r)' => ToWrite(t, r)
                              /\ Wrote(t, r)' => Wrote(t, r)
    PROVE  OwnBranch(r)'
  BY DEF OwnBranch, BranchExists, Remembers, Recorded, Pending

\* A thread goes on while the file and the recorders stay.
LEMMA JobMoves ==
    ASSUME Separate, RestoreInv, Shapes, UNCHANGED <<file, rec, view>>,
           NEW t \in Threads, NEW j, job' = [job EXCEPT ![t] = j],
           AppendsOwn(j),
           \A r \in Recorders : j.owner = r =>
              /\ j.pc \in {"reading", "opened", "writing"} =>
                    ToWrite(t, r) /\ SameEvent(j.draft, rec[r].draft)
              /\ j.pc \in {"syncing", "done"} => Wrote(t, r)
    PROVE  RestoreInv'
<1>1. \A u \in Threads : job'[u] = IF u = t THEN j ELSE job[u]
  BY DEF Shapes
<1>2. \A u \in Threads : OwnCall(u)
  BY DEF RestoreInv
<1>3. ASSUME NEW u \in Threads
      PROVE  OwnCall(u)'
  <2>1. AppendsOwn(job'[u])
    BY <1>1, <1>2 DEF OwnCall
  <2>2. AppendsOwn(job[u])'
    BY <2>1 DEF AppendsOwn
  <2> QED
    BY <1>1, <1>2, <2>2 DEF OwnCall, ToWrite
<1>4. ASSUME NEW r \in Recorders
      PROVE  OwnBranch(r)'
  <2>1. OwnBranch(r)
    BY DEF RestoreInv
  <2>2. ASSUME NEW u \in Threads
        PROVE  /\ ToWrite(u, r)' => ToWrite(u, r)
               /\ Wrote(u, r)' => Wrote(u, r)
    BY <1>1 DEF ToWrite, Wrote
  <2>3. CASE rec[r].pc = "detached"
    BY <2>3 DEF OwnBranch
  <2>4. CASE rec[r].pc # "detached"
    <3>1. Apart(r)'
      BY <2>1, <2>4 DEF OwnBranch, Apart
    <3> QED
      BY <2>1, <2>2, <3>1, StaysOwn
  <2> QED
    BY <2>3, <2>4
<1> QED
  BY <1>3, <1>4 DEF RestoreInv

\* A recorder goes on, or is attached, while it waits for no call.
LEMMA RecMoves ==
    ASSUME Separate, RestoreInv, CallInv, UNCHANGED <<file, job>>,
           NEW r \in Recorders, NEW x, rec' = [rec EXCEPT ![r] = x],
           \A q \in Recorders : q # r => view'[q] = view[q],
           DOMAIN view' = Recorders,
           rec[r].pc # "appending",
           x.pc \notin {"detached", "appending"},
           rec[r].pc # "detached" =>
              x.branch = rec[r].branch /\ (rec[r].missed => x.missed),
           x.branch = Main \/ HeadOf(file, x.branch) # NoRecord,
           \A q \in Recorders \ {r} :
              rec[q].pc # "detached" => rec[q].branch # x.branch,
           x.pc # "idle" =>
              x.draft.branch = x.branch /\ x.draft.kind \in EventKinds,
           LET s == Project(file, HeadOf(file, x.branch)) IN
              ~x.missed => view'[r] = IF x.pc = "idle" THEN Remembered(s)
                                      ELSE Remembered(Apply(s, x.draft))
    PROVE  RestoreInv'
<1>0. Shapes /\ OwnedCalls
  BY DEF CallInv
<1>1. \A q \in Recorders : rec'[q] = IF q = r THEN x ELSE rec[q]
  BY <1>0 DEF Shapes
<1>2. \A t \in Threads : job[t].owner # r
  BY JournalAssumption, <1>0 DEF OwnedCalls, OwnedCall
<1>3. ASSUME NEW t \in Threads
      PROVE  OwnCall(t)'
  <2>1. OwnCall(t)
    BY DEF RestoreInv
  <2>2. AppendsOwn(job[t])'
    <3> SUFFICES ASSUME job[t].pc \in {"reading", "opened", "writing"},
                        job[t].op = "append"
                 PROVE  \E q \in Recorders :
                           /\ rec'[q].pc # "detached"
                           /\ rec'[q].branch = job[t].draft.branch
                           /\ job[t].owner = q \/ rec'[q].missed
      BY <2>1 DEF OwnCall, AppendsOwn
    <3>1. PICK q \in Recorders :
             /\ rec[q].pc # "detached" /\ rec[q].branch = job[t].draft.branch
             /\ job[t].owner = q \/ rec[q].missed
      BY <2>1 DEF OwnCall, AppendsOwn
    <3> QED
      BY <1>1, <3>1
  <2>3. ASSUME NEW q \in Recorders, ToWrite(t, q)'
        PROVE  SameEvent(job[t].draft, rec'[q].draft)
    <3>1. q # r /\ ToWrite(t, q)
      BY <1>2, <2>3 DEF ToWrite
    <3> QED
      BY <1>1, <2>1, <3>1 DEF OwnCall
  <2> QED
    BY <2>2, <2>3 DEF OwnCall
<1>4. ASSUME NEW q \in Recorders, q # r
      PROVE  OwnBranch(q)'
  <2>1. OwnBranch(q)
    BY DEF RestoreInv
  <2>2. CASE rec[q].pc = "detached"
    BY <1>1, <1>4, <2>2 DEF OwnBranch
  <2>3. CASE rec[q].pc # "detached"
    <3>1. Apart(q)'
      BY <1>1, <1>4, <2>1, <2>3 DEF OwnBranch, Apart
    <3>2. \A t \in Threads : /\ ToWrite(t, q)' => ToWrite(t, q)
                             /\ Wrote(t, q)' => Wrote(t, q)
      BY DEF ToWrite, Wrote
    <3> QED
      BY <1>1, <1>4, <2>1, <3>1, <3>2, StaysOwn
  <2> QED
    BY <2>2, <2>3
<1>5. OwnBranch(r)'
  <2>1. Apart(r)'
    BY <1>1 DEF Apart
  <2>2. BranchExists(r)'
    BY <1>1 DEF BranchExists
  <2>3. \A t \in Threads : ~ToWrite(t, r)' /\ ~Wrote(t, r)'
    BY <1>2 DEF ToWrite, Wrote
  <2>4. ~x.missed => Remembers(r)'
    BY <1>1, <2>3 DEF Remembers, Recorded, Pending
  <2> QED
    BY <1>1, <2>1, <2>2, <2>4 DEF OwnBranch
<1> QED
  BY <1>3, <1>4, <1>5 DEF RestoreInv, Separate

\* A call that was made for a recorder is over.
LEMMA CallOver ==
    ASSUME Separate, RestoreInv, CallInv, UNCHANGED <<file, view>>,
           NEW t \in Threads, NEW j, job' = [job EXCEPT ![t] = j],
           job[t].owner \in Recorders,
           NEW x, rec' = [rec EXCEPT ![job[t].owner] = x],
           j.owner = None,
           j.pc \in {"reading", "opened", "writing"} =>
              j.pc = job[t].pc /\ j.op = job[t].op /\ j.draft = job[t].draft,
           x.pc = "idle", x.branch = rec[job[t].owner].branch,
           rec[job[t].owner].missed => x.missed,
           job[t].pc # "done" => x.missed
    PROVE  RestoreInv'
<1> DEFINE r == job[t].owner
<1>0. Shapes /\ OwnedCalls /\ None \notin Recorders
  BY JournalAssumption DEF CallInv
<1>1. /\ \A q \in Recorders : rec'[q] = IF q = r THEN x ELSE rec[q]
      /\ \A u \in Threads : job'[u] = IF u = t THEN j ELSE job[u]
  BY <1>0 DEF Shapes
<1>2. /\ lock = t /\ rec[r].pc = "appending"
      /\ \A u \in Threads : u # t => job[u].owner = None
  BY <1>0 DEF OwnedCalls, OwnedCall
<1>3. ASSUME NEW u \in Threads
      PROVE  OwnCall(u)'
  <2>1. OwnCall(u)
    BY DEF RestoreInv
  <2>2. job'[u].owner = None
    BY <1>1, <1>2
  <2>3. \A q \in Recorders : ~ToWrite(u, q)'
    BY <1>0, <2>2 DEF ToWrite
  <2>4. AppendsOwn(job[u])'
    <3> SUFFICES ASSUME job'[u].pc \in {"reading", "opened", "writing"}
                 PROVE  /\ job'[u].op \in {"append", "branch", "retry"}
                        /\ job'[u].op # "append" =>
                              job'[u].draft.kind = "branch_created"
                        /\ job'[u].op = "append" =>
                              \E q \in Recorders :
                                 /\ rec'[q].pc # "detached"
                                 /\ rec'[q].branch = job'[u].draft.branch
                                 /\ job'[u].owner = q \/ rec'[q].missed
      BY DEF AppendsOwn
    <3>1. /\ job'[u].pc = job[u].pc /\ job'[u].op = job[u].op
          /\ job'[u].draft = job[u].draft
      BY <1>1
    <3>2. job[u].pc # "done"
      BY <3>1
    <3>3. ASSUME NEW q \in Recorders, rec[q].pc # "detached",
                 job[u].owner = q \/ rec[q].missed
          PROVE  /\ rec'[q].pc # "detached" /\ rec'[q].branch = rec[q].branch
                 /\ rec'[q].missed
      <4>1. CASE q = r
        <5>1. u # t => rec[q].missed
          BY <1>0, <1>2, <3>3
        <5> QED
          BY <1>1, <3>2, <3>3, <4>1, <5>1
      <4>2. CASE q # r
        BY <1>0, <1>1, <1>2, <3>3, <4>2
      <4> QED
        BY <4>1, <4>2
    <3> QED
      BY <2>1, <3>1, <3>3 DEF OwnCall, AppendsOwn
  <2> QED
    BY <2>3, <2>4 DEF OwnCall
<1>4. ASSUME NEW q \in Recorders
      PROVE  OwnBranch(q)'
  <2>1. OwnBranch(q)
    BY DEF RestoreInv
  <2>2. CASE rec[q].pc = "detached"
    BY <1>1, <1>2, <2>2 DEF OwnBranch
  <2>3. CASE rec[q].pc # "detached"
    <3>1. Apart(q)'
      <4>1. \A p \in Recorders : /\ rec'[p].branch = rec[p].branch
                                 /\ rec'[p].pc # "detached" => rec[p].pc # "detached"
        BY <1>1, <1>2
      <4> QED
        BY <2>1, <2>3, <4>1 DEF OwnBranch, Apart
    <3>2. \A u \in Threads : ~ToWrite(u, q)' /\ ~Wrote(u, q)'
      BY <1>0, <1>1, <1>2 DEF ToWrite, Wrote
    <3>3. CASE q # r
      BY <1>1, <2>1, <3>1, <3>2, <3>3, StaysOwn
    <3>4. CASE q = r
      <4>1. BranchExists(q)'
        BY <1>1, <2>1, <2>3, <3>4 DEF OwnBranch, BranchExists
      <4>2. ASSUME ~x.missed
            PROVE  Remembers(q)'
        <5>1. Wrote(t, q) /\ ~rec[q].missed
          BY <3>4, <4>2 DEF Wrote
        <5>2. view[q] = Remembered(Project(file, HeadOf(file, rec[q].branch)))
          BY <2>1, <2>3, <5>1 DEF OwnBranch, Remembers, Recorded
        <5> QED
          BY <1>1, <3>2, <3>4, <5>2 DEF Remembers, Recorded, Pending
      <4> QED
        BY <1>1, <3>1, <3>4, <4>1, <4>2 DEF OwnBranch
    <3> QED
      BY <3>3, <3>4
  <2> QED
    BY <2>2, <2>3
<1> QED
  BY <1>3, <1>4 DEF RestoreInv, Separate

\* What is between two places of a sequence.
LEMMA SubSequence ==
    ASSUME NEW q, q \in Seq(Range(q)), NEW c \in 0..Len(q), NEW m \in c..Len(q)
    PROVE  /\ DOMAIN SubSeq(q, c + 1, m) = 1..(m - c)
           /\ \A i \in 1..(m - c) : SubSeq(q, c + 1, m)[i] = q[c + i]
<1>1. /\ Len(q) \in Nat /\ c \in Nat /\ m \in Nat /\ c <= m /\ m <= Len(q)
      /\ \A i \in 1..Len(q) : q[i] \in Range(q)
  BY LenProperties
<1>2. c + 1 \in Int /\ m \in Int /\ \A i \in (c + 1)..m : q[i] \in Range(q)
  BY <1>1
<1> DEFINE part == SubSeq(q, c + 1, m)
<1>3. /\ part \in Seq(Range(q))
      /\ Len(part) = IF c + 1 <= m THEN m - (c + 1) + 1 ELSE 0
      /\ \A i \in 1..(m - (c + 1) + 1) : part[i] = q[c + 1 + i - 1]
  BY <1>2, SubSeqProperties
<1>4. DOMAIN part = 1..Len(part)
  BY <1>3, LenProperties
<1> HIDE DEF part
<1>5. /\ Len(part) = m - c /\ m - (c + 1) + 1 = m - c
      /\ \A i \in 1..(m - c) : c + 1 + i - 1 = c + i
  BY <1>1, <1>3
<1> QED
  BY <1>3, <1>4, <1>5 DEF part

\* A session and one more entry.
LEMMA EntryRemembered ==
    ASSUME NEW s, IsSession(s), NEW entry,
           NEW new, new.kept = s.kept, new.covered = s.covered,
           new.entries = Append(s.entries, entry)
    PROVE  Remembered(new) = Remembered(s) \cup {entry}
<1> DEFINE n == Len(s.entries)
           c == s.covered
           old == SubSeq(s.entries, c + 1, n)
           longer == Append(s.entries, entry)
           more == SubSeq(longer, c + 1, n + 1)
<1>1. /\ s.entries \in Seq(Range(s.entries)) /\ n \in Nat /\ c \in 0..n
  BY DEF IsSession
<1>2. /\ longer \in Seq(Range(longer)) /\ Len(longer) = n + 1
      /\ \A i \in 1..n : longer[i] = s.entries[i]
      /\ longer[n + 1] = entry
  BY <1>1, Appended
<1>3. Remembered(new) = s.kept \cup Range(more)
  BY <1>2 DEF Remembered
<1> HIDE DEF longer
<1>4. /\ DOMAIN old = 1..(n - c)
      /\ \A i \in 1..(n - c) : old[i] = s.entries[c + i]
  <2>1. c \in 0..Len(s.entries) /\ n \in c..Len(s.entries)
    BY <1>1
  <2> QED
    BY <1>1, <2>1, SubSequence
<1>5. /\ DOMAIN more = 1..(n + 1 - c)
      /\ \A i \in 1..(n + 1 - c) : more[i] = longer[c + i]
  <2>1. /\ longer \in Seq(Range(longer))
        /\ c \in 0..Len(longer) /\ n + 1 \in c..Len(longer)
        /\ n \in Nat /\ c \in Nat
    BY <1>1, <1>2
  <2> HIDE DEF n, c
  <2>2. ASSUME NEW m \in c..Len(longer)
        PROVE  /\ DOMAIN SubSeq(longer, c + 1, m) = 1..(m - c)
               /\ \A i \in 1..(m - c) : SubSeq(longer, c + 1, m)[i] = longer[c + i]
    BY <2>1, SubSequence
  <2> QED
    BY <2>1, <2>2
<1>6. Remembered(s) = s.kept \cup Range(old)
  BY DEF Remembered
<1> HIDE DEF old, more
<1>7. /\ \A i \in 1..(n - c) : more[i] = old[i]
      /\ more[n + 1 - c] = entry
      /\ 1..(n + 1 - c) = 1..(n - c) \cup {n + 1 - c}
  <2>1. /\ 1..(n + 1 - c) = 1..(n - c) \cup {n + 1 - c}
        /\ n + 1 - c \in 1..(n + 1 - c) /\ c + (n + 1 - c) = n + 1
        /\ \A i \in 1..(n - c) : i \in 1..(n + 1 - c) /\ c + i \in 1..n
    <3>1. n \in Nat /\ c \in Nat /\ c <= n
      BY <1>1
    <3> HIDE DEF n, c
    <3>2. PICK k : k = n - c
      OBVIOUS
    <3>3. k \in Nat /\ n + 1 - c = k + 1 /\ c + (k + 1) = n + 1 /\ c + k = n
      BY <3>1, <3>2
    <3>4. 1..(k + 1) = 1..k \cup {k + 1}
      BY <3>3
    <3>5. \A i \in 1..k : i \in 1..(k + 1) /\ c + i \in 1..n
      BY <3>1, <3>3
    <3> QED
      BY <3>2, <3>3, <3>4, <3>5
  <2> HIDE DEF n, c
  <2> QED
    BY <1>2, <1>4, <1>5, <2>1
<1> HIDE DEF n, c
<1>8. Range(more) = Range(old) \cup {entry}
  BY <1>4, <1>5, <1>7 DEF Range
<1> QED
  BY <1>3, <1>6, <1>8

\* An event changes a session the way it changes what its agent remembers.
LEMMA EventRemembered ==
    ASSUME NEW s, IsSession(s), NEW line, line.kind \in EventKinds,
           line.kind = "compaction_applied" => line.kept = Remembered(s)
    PROVE  Remembered(Apply(s, line)) =
              IF line.kind \in {"run_started", "message_appended"}
              THEN Remembered(s) \cup {<<line.run, line.n>>} ELSE Remembered(s)
<1> DEFINE new == Apply(s, line)
<1>1. /\ {"runs", "done", "entries", "kept", "covered"} \subseteq DOMAIN s
      /\ s.entries \in Seq(Range(s.entries)) /\ Len(s.entries) \in Nat
  BY DEF IsSession
<1>2. CASE line.kind \in {"run_started", "message_appended"}
  <2>1. /\ new.kept = s.kept /\ new.covered = s.covered
        /\ new.entries = Append(s.entries, <<line.run, line.n>>)
    BY <1>1, <1>2 DEF Apply
  <2> QED
    BY <1>2, <2>1, EntryRemembered
<1>3. CASE line.kind = "run_finished"
  <2>1. /\ new.kept = s.kept /\ new.covered = s.covered
        /\ new.entries = s.entries
    BY <1>1, <1>3 DEF Apply
  <2> QED
    BY <1>3, <2>1 DEF Remembered
<1>4. CASE line.kind = "compaction_applied"
  <2>1. /\ new.kept = Remembered(s) /\ new.covered = Len(s.entries)
        /\ new.entries = s.entries
    BY <1>1, <1>4 DEF Apply, Covered
  <2> HIDE DEF new
  <2>2. Range(SubSeq(s.entries, Len(s.entries) + 1, Len(s.entries))) = {}
    BY <1>1 DEF Range
  <2>3. Remembered(new) = Remembered(s)
    BY <2>1, <2>2 DEF Remembered
  <2> QED
    BY <1>4, <2>3 DEF new
<1> QED
  BY <1>2, <1>3, <1>4 DEF EventKinds

\* Two drafts of one event do the same to a session.
LEMMA SameApplied ==
    ASSUME NEW s, NEW d, NEW e, SameEvent(d, e), e.kind \in EventKinds
    PROVE  Apply(s, d) = Apply(s, e)
  BY DEF SameEvent, EventKinds, Apply

\* The program makes branches.
LEMMA RestoreAtCalls ==
    ASSUME Separate, RestoreInv, CallInv, NEW t \in Threads,
           CreateBranch(t) \/ PrepareRetry(t)
    PROVE  RestoreInv'
<1>0. Shapes
  BY DEF CallInv
<1>1. PICK op, draft, check, expected :
         /\ Call(t, op, draft, check, expected, None)
         /\ op \in {"branch", "retry"} /\ draft.kind = "branch_created"
  <2>1. CASE CreateBranch(t)
    <3>1. PICK b, source, base :
             Call(t, "branch",
                  [Draft("branch_created", b) EXCEPT !.source = source,
                                                     !.parent = base],
                  FALSE, NoRecord, None)
      BY <2>1 DEF CreateBranch
    <3> DEFINE d == [Draft("branch_created", b) EXCEPT !.source = source,
                                                       !.parent = base]
    <3>2. d.kind = "branch_created"
      BY DEF Draft
    <3> HIDE DEF d
    <3> QED
      BY <3>1, <3>2 DEF d
  <2>2. CASE PrepareRetry(t)
    <3>1. PICK b, source, r :
             Call(t, "retry",
                  [Draft("branch_created", b) EXCEPT !.source = source, !.run = r],
                  FALSE, NoRecord, None)
      BY <2>2 DEF PrepareRetry
    <3> DEFINE d == [Draft("branch_created", b) EXCEPT !.source = source, !.run = r]
    <3>2. d.kind = "branch_created"
      BY DEF Draft
    <3> HIDE DEF d
    <3> QED
      BY <3>1, <3>2 DEF d
  <2> QED
    BY <2>1, <2>2
<1> DEFINE j == Asked(op, draft, check, expected, None)
<1>2. job' = [job EXCEPT ![t] = j]
  BY <1>1 DEF Call, Asked
<1>3. j.pc = "reading" /\ j.op = op /\ j.draft = draft /\ j.owner = None
  BY DEF Asked, Idle
<1> HIDE DEF j
<1>4. AppendsOwn(j)
  BY <1>1, <1>3 DEF AppendsOwn
<1>5. UNCHANGED <<file, rec, view>>
  BY DEF CreateBranch, PrepareRetry
<1>6. \A r \in Recorders : j.owner # r
  BY <1>3, JournalAssumption
<1> QED
  BY <1>0, <1>2, <1>4, <1>5, <1>6, JobMoves

\* A recorder appends its event.
LEMMA RestoreAtAppend ==
    ASSUME Separate, RestoreInv, CallInv,
           NEW r \in Recorders, NEW t \in Threads, AppendEvent(r, t)
    PROVE  RestoreInv'
<1>0. Shapes /\ OwnedCalls
  BY DEF CallInv
<1> DEFINE j == Asked("append", rec[r].draft, TRUE, rec[r].expected, r)
<1>1. /\ job[t].pc = "free" /\ job' = [job EXCEPT ![t] = j]
      /\ rec' = [rec EXCEPT ![r].pc = "appending"] /\ rec[r].pc = "checked"
      /\ UNCHANGED <<file, view>>
  BY DEF AppendEvent, Call, Asked
<1>2. j.pc = "reading" /\ j.op = "append" /\ j.draft = rec[r].draft /\ j.owner = r
  BY DEF Asked, Idle
<1> HIDE DEF j
<1>3. /\ \A u \in Threads : job'[u] = IF u = t THEN j ELSE job[u]
      /\ \A q \in Recorders : q # r => rec'[q] = rec[q]
      /\ rec'[r].pc = "appending" /\ rec'[r].branch = rec[r].branch
      /\ rec'[r].draft = rec[r].draft /\ rec'[r].missed = rec[r].missed
  BY <1>0, <1>1 DEF Shapes, RecFields
<1>4. \A u \in Threads : job[u].owner # r
  BY <1>0, <1>1, JournalAssumption DEF OwnedCalls, OwnedCall
<1>5. /\ \A u \in Threads : OwnCall(u)
      /\ \A q \in Recorders : OwnBranch(q)
  BY DEF RestoreInv
<1>6. ASSUME NEW u \in Threads
      PROVE  OwnCall(u)'
  <2>1. AppendsOwn(job[u])'
    <3> SUFFICES ASSUME job'[u].pc \in {"reading", "opened", "writing"}
                 PROVE  /\ job'[u].op \in {"append", "branch", "retry"}
                        /\ job'[u].op # "append" =>
                              job'[u].draft.kind = "branch_created"
                        /\ job'[u].op = "append" =>
                              \E q \in Recorders :
                                 /\ rec'[q].pc # "detached"
                                 /\ rec'[q].branch = job'[u].draft.branch
                                 /\ job'[u].owner = q \/ rec'[q].missed
      BY DEF AppendsOwn
    <3>1. CASE u = t
      <4>1. rec[r].draft.branch = rec[r].branch
        BY <1>1, <1>5 DEF OwnBranch
      <4>2. /\ rec'[r].pc # "detached" /\ rec'[r].branch = job'[u].draft.branch
            /\ job'[u].owner = r /\ job'[u].op = "append"
        BY <1>2, <1>3, <3>1, <4>1
      <4> QED
        BY <4>2
    <3>2. CASE u # t
      <4>1. job'[u] = job[u] /\ AppendsOwn(job[u])
        BY <1>3, <1>5, <3>2 DEF OwnCall
      <4>2. \A q \in Recorders :
               /\ rec'[q].pc # "detached" <=> rec[q].pc # "detached"
               /\ rec'[q].branch = rec[q].branch /\ rec'[q].missed = rec[q].missed
        BY <1>1, <1>3
      <4> QED
        BY <4>1, <4>2 DEF AppendsOwn
    <3> QED
      BY <3>1, <3>2
  <2>2. ASSUME NEW q \in Recorders, ToWrite(u, q)'
        PROVE  SameEvent(job'[u].draft, rec'[q].draft)
    <3>1. CASE u = t
      <4>1. q = r
        BY <1>2, <1>3, <2>2, <3>1 DEF ToWrite
      <4> QED
        BY <1>2, <1>3, <3>1, <4>1 DEF SameEvent
    <3>2. CASE u # t
      <4>1. ToWrite(u, q) /\ q # r
        BY <1>3, <1>4, <2>2, <3>2 DEF ToWrite
      <4> QED
        BY <1>3, <1>5, <3>2, <4>1 DEF OwnCall
    <3> QED
      BY <3>1, <3>2
  <2> QED
    BY <2>1, <2>2 DEF OwnCall
<1>7. ASSUME NEW q \in Recorders
      PROVE  OwnBranch(q)'
  <2>1. CASE rec[q].pc = "detached"
    BY <1>1, <1>3, <2>1 DEF OwnBranch
  <2>2. CASE rec[q].pc # "detached"
    <3>1. Apart(q)'
      <4>1. \A p \in Recorders :
               /\ rec'[p].pc # "detached" => rec[p].pc # "detached"
               /\ rec'[p].branch = rec[p].branch
        BY <1>1, <1>3
      <4> QED
        BY <1>5, <2>2, <4>1 DEF OwnBranch, Apart
    <3>2. CASE q # r
      <4>1. \A u \in Threads : /\ ToWrite(u, q)' => ToWrite(u, q)
                               /\ Wrote(u, q)' => Wrote(u, q)
        BY <1>2, <1>3, <3>2 DEF ToWrite, Wrote
      <4> QED
        BY <1>1, <1>3, <1>5, <3>1, <3>2, <4>1, StaysOwn
    <3>3. CASE q = r
      <4>1. \A u \in Threads : ~Wrote(u, q)'
        BY <1>2, <1>3, <1>4, <3>3 DEF Wrote
      <4>2. ~rec[q].missed =>
               view[q] = Remembered(Apply(Project(file, HeadOf(file, rec[q].branch)),
                                          rec[q].draft))
        BY <1>1, <1>5, <3>3 DEF OwnBranch, Remembers, Pending
      <4>3. ~rec[q].missed => Remembers(q)'
        BY <1>1, <1>3, <3>3, <4>1, <4>2 DEF Remembers, Recorded
      <4>4. BranchExists(q)'
        BY <1>1, <1>3, <1>5, <2>2, <3>3 DEF OwnBranch, BranchExists
      <4>5. /\ rec[r].draft.branch = rec[r].branch
            /\ rec[r].draft.kind \in EventKinds
        BY <1>1, <1>5 DEF OwnBranch
      <4> QED
        BY <1>3, <3>1, <3>3, <4>3, <4>4, <4>5 DEF OwnBranch
    <3> QED
      BY <3>2, <3>3
  <2> QED
    BY <2>1, <2>2
<1> QED
  BY <1>1, <1>6, <1>7 DEF RestoreInv, Separate

\* The end of an event leaves the recorder on its branch; only success does
\* not count as missing it.
LEMMA AfterOnBranch ==
    ASSUME NEW x, RecFields(x)
    PROVE  /\ AfterSuccess(x).branch = x.branch /\ AfterSuccess(x).missed = x.missed
           /\ AfterFailure(x).branch = x.branch /\ AfterFailure(x).missed
           /\ AfterCancel(x).branch = x.branch /\ AfterCancel(x).missed
<1>1. /\ AfterSuccess(x).branch = x.branch /\ AfterSuccess(x).missed = x.missed
      /\ {"branch", "missed", "run", "ending"} \subseteq DOMAIN AfterSuccess(x)
  <2>1. CASE x.draft.kind = "run_finished"
    <3>1. AfterSuccess(x) =
            [x EXCEPT !.pc = "idle", !.run = NoRun, !.n = 0, !.ending = FALSE]
      BY <2>1 DEF AfterSuccess
    <3> QED
      BY <3>1 DEF RecFields
  <2>2. CASE x.draft.kind # "run_finished"
    <3>1. AfterSuccess(x) = [x EXCEPT !.pc = "idle"]
      BY <2>2 DEF AfterSuccess
    <3> QED
      BY <3>1 DEF RecFields
  <2> QED
    BY <2>1, <2>2
<1>2. /\ AfterFailure(x).branch = x.branch /\ AfterFailure(x).missed
      /\ {"branch", "missed", "run", "ending"} \subseteq DOMAIN AfterFailure(x)
  BY <1>1 DEF AfterFailure
<1>3. AfterCancel(x).branch = x.branch /\ AfterCancel(x).missed
  BY <1>2 DEF AfterCancel
<1> QED
  BY <1>1, <1>2, <1>3

\* A recorder is attached to a branch of its own, or misses an event.
LEMMA RestoreAtAttach ==
    ASSUME Separate, RestoreInv, CallInv, NEW r \in Recorders,
           Attach(r) \/ CancelEvent(r)
    PROVE  RestoreInv'
<1>0. Shapes /\ RecFields(rec[r]) /\ rec = [q \in Recorders |-> rec[q]]
  BY DEF CallInv, Shapes
<1>1. CASE Attach(r)
  <2>1. PICK b :
           /\ HeadOf(file, b) # NoRecord \/ b = Main
           /\ \A q \in Recorders : rec[q].pc = "detached" \/ rec[q].branch # b
           /\ rec' = [rec EXCEPT ![r].pc = "idle", ![r].branch = b]
           /\ view' = [view EXCEPT ![r] = Remembered(Project(file, HeadOf(file, b)))]
    BY <1>1 DEF Attach, Separate
  <2>2. rec[r].pc = "detached" /\ UNCHANGED <<file, job>>
    BY <1>1 DEF Attach
  <2> DEFINE x == [rec[r] EXCEPT !.pc = "idle", !.branch = b]
  <2>3. rec' = [rec EXCEPT ![r] = x]
    BY <1>0, <2>1
  <2>4. x.pc = "idle" /\ x.branch = b
    BY <1>0 DEF RecFields
  <2>5. /\ view'[r] = Remembered(Project(file, HeadOf(file, b)))
        /\ \A q \in Recorders : q # r => view'[q] = view[q]
        /\ DOMAIN view' = Recorders
    BY <2>1 DEF RestoreInv
  <2> HIDE DEF x
  <2>6. /\ x.branch = Main \/ HeadOf(file, x.branch) # NoRecord
        /\ \A q \in Recorders \ {r} :
              rec[q].pc # "detached" => rec[q].branch # x.branch
        /\ view'[r] = Remembered(Project(file, HeadOf(file, x.branch)))
    BY <2>1, <2>4, <2>5
  <2> QED
    BY <2>2, <2>3, <2>4, <2>5, <2>6, RecMoves
<1>2. CASE CancelEvent(r)
  <2> DEFINE x == AfterCancel(rec[r])
  <2>1. /\ rec' = [rec EXCEPT ![r] = x] /\ rec[r].pc \in {"event", "checked"}
        /\ UNCHANGED <<file, job, view>>
    BY <1>2 DEF CancelEvent
  <2>2. x.pc = "idle" /\ x.branch = rec[r].branch /\ x.missed
    BY <1>0, AfterIsIdle, AfterOnBranch
  <2> HIDE DEF x
  <2>3. BranchExists(r) /\ Apart(r) /\ DOMAIN view = Recorders
    BY <2>1 DEF RestoreInv, OwnBranch
  <2>4. /\ x.branch = Main \/ HeadOf(file, x.branch) # NoRecord
        /\ \A q \in Recorders \ {r} :
              rec[q].pc # "detached" => rec[q].branch # x.branch
        /\ \A q \in Recorders : q # r => view'[q] = view[q]
    BY <2>1, <2>2, <2>3 DEF BranchExists, Apart
  <2> QED
    BY <2>1, <2>2, <2>3, <2>4, RecMoves
<1> QED
  BY <1>1, <1>2

\* An agent's event changes what it remembers, and will change its branch.
LEMMA RestoreAtEvents ==
    ASSUME Separate, RestoreInv, CallInv, FileInv, SessionInv, NEW r \in Recorders,
           \/ AgentStarts(r) \/ AgentSpeaks(r) \/ AgentCompacts(r)
           \/ AgentFinishes(r) \/ CheckEvent(r)
    PROVE  RestoreInv'
<1>0. /\ RecFields(rec[r]) /\ rec = [q \in Recorders |-> rec[q]]
      /\ OwnBranch(r) /\ DOMAIN view = Recorders
      /\ Journal(file) /\ Sound(file)
  BY DEF CallInv, Shapes, RestoreInv, FileInv, JournalReadable, Journal, SessionInv
<1> DEFINE s == Project(file, HeadOf(file, rec[r].branch))
<1>1. IsSession(s)
  BY <1>0, HeadHeld, SoundAt
<1>2. UNCHANGED <<file, job>>
  BY DEF AgentStarts, AgentSpeaks, AgentCompacts, AgentFinishes, EmitEvent,
         CheckEvent
<1>3. CASE AgentStarts(r) \/ AgentSpeaks(r) \/ AgentCompacts(r)
           \/ AgentFinishes(r)
  <2>1. PICK kind, run, n : kind \in EventKinds /\ EmitEvent(r, kind, run, n)
    BY <1>3 DEF AgentStarts, AgentSpeaks, AgentCompacts, AgentFinishes, EventKinds
  <2> DEFINE known == IF kind \in {"run_started", "message_appended"}
                      THEN view[r] \cup {<<run, n>>} ELSE view[r]
             draft == [Draft(kind, rec[r].branch) EXCEPT
                         !.run = run, !.n = n,
                         !.kept = IF kind = "compaction_applied" THEN known ELSE {}]
             x == [rec[r] EXCEPT !.pc = "event", !.run = run, !.n = n,
                                 !.draft = draft]
  <2>2. /\ rec[r].pc = "idle"
        /\ rec' = [rec EXCEPT ![r].pc = "event", ![r].run = run,
                              ![r].n = n, ![r].draft = draft]
        /\ view' = [view EXCEPT ![r] = known]
    BY <2>1 DEF EmitEvent
  <2>3. /\ draft.kind = kind /\ draft.branch = rec[r].branch
        /\ draft.run = run /\ draft.n = n
        /\ draft.kind = "compaction_applied" => draft.kept = known
    BY DEF Draft
  <2> HIDE DEF draft
  <2>4. /\ rec' = [rec EXCEPT ![r] = x]
        /\ x.pc = "event" /\ x.branch = rec[r].branch
        /\ x.missed = rec[r].missed /\ x.draft = draft
    BY <1>0, <2>2 DEF RecFields
  <2> HIDE DEF x
  <2>5. /\ view'[r] = known /\ DOMAIN view' = Recorders
        /\ \A q \in Recorders : q # r => view'[q] = view[q]
    BY <1>0, <2>2
  <2>6. BranchExists(r) /\ Apart(r)
    BY <1>0, <2>2 DEF OwnBranch
  <2>7. ASSUME ~x.missed
        PROVE  known = Remembered(Apply(s, x.draft))
    <3>1. view[r] = Remembered(s)
      BY <1>0, <2>2, <2>4, <2>7 DEF OwnBranch, Remembers, Recorded
    <3>2. Remembered(Apply(s, draft)) =
             IF draft.kind \in {"run_started", "message_appended"}
             THEN Remembered(s) \cup {<<draft.run, draft.n>>} ELSE Remembered(s)
      BY <1>1, <2>1, <2>3, <3>1, EventRemembered
    <3> QED
      BY <2>3, <2>4, <3>1, <3>2
  <2> HIDE DEF known
  <2>8. /\ x.branch = Main \/ HeadOf(file, x.branch) # NoRecord
        /\ \A q \in Recorders \ {r} :
              rec[q].pc # "detached" => rec[q].branch # x.branch
        /\ x.draft.branch = x.branch /\ x.draft.kind \in EventKinds
        /\ ~x.missed =>
              view'[r] = Remembered(Apply(Project(file, HeadOf(file, x.branch)),
                                          x.draft))
        /\ x.pc # "idle" /\ x.pc \notin {"detached", "appending"}
        /\ rec[r].pc # "appending" /\ (rec[r].missed => x.missed)
    BY <2>1, <2>2, <2>3, <2>4, <2>5, <2>6, <2>7 DEF BranchExists, Apart
  <2> QED
    BY <1>2, <2>4, <2>5, <2>8, RecMoves
<1>4. CASE CheckEvent(r)
  <2> DEFINE y == [rec[r] EXCEPT !.pc = "checked",
                                 !.expected = HeadOf(file, rec[r].branch)]
  <2>1. /\ rec[r].pc = "event" /\ view' = view
        /\ \/ rec' = [rec EXCEPT ![r] = y]
           \/ rec' = [rec EXCEPT ![r] = AfterFailure(rec[r])]
    BY <1>4 DEF CheckEvent
  <2>2. /\ y.pc = "checked" /\ y.branch = rec[r].branch
        /\ y.missed = rec[r].missed /\ y.draft = rec[r].draft
    BY <1>0 DEF RecFields
  <2> HIDE DEF y
  <2>3. PICK x : /\ rec' = [rec EXCEPT ![r] = x] /\ x.branch = rec[r].branch
                 /\ rec[r].missed => x.missed
                 /\ \/ x = y
                    \/ x.pc = "idle" /\ x.missed
    BY <1>0, <2>1, <2>2, AfterIsIdle, AfterOnBranch
  <2>4. BranchExists(r) /\ Apart(r)
    BY <1>0, <2>1 DEF OwnBranch
  <2>5. ~rec[r].missed => view[r] = Remembered(Apply(s, rec[r].draft))
    BY <1>0, <2>1 DEF OwnBranch, Remembers, Pending
  <2>6. rec[r].draft.branch = rec[r].branch /\ rec[r].draft.kind \in EventKinds
    BY <1>0, <2>1 DEF OwnBranch
  <2>7. /\ x.branch = Main \/ HeadOf(file, x.branch) # NoRecord
        /\ \A q \in Recorders \ {r} :
              rec[q].pc # "detached" => rec[q].branch # x.branch
        /\ x.pc # "idle" =>
              x.draft.branch = x.branch /\ x.draft.kind \in EventKinds
        /\ ~x.missed => /\ x.pc # "idle"
                        /\ view'[r] = Remembered(
                              Apply(Project(file, HeadOf(file, x.branch)), x.draft))
    BY <2>1, <2>2, <2>3, <2>4, <2>5, <2>6 DEF BranchExists, Apart
  <2> QED
    BY <1>0, <1>2, <2>1, <2>2, <2>3, <2>7, RecMoves
<1> QED
  BY <1>3, <1>4

\* A crash ends all that agents remember.
LEMMA RestoreAtCrash ==
    ASSUME Crash
    PROVE  RestoreInv'
  BY Resting DEF Crash, RestoreInv, OwnCall, AppendsOwn, ToWrite, OwnBranch, Separate

\* A thread reads, cuts the tail off or fails.
LEMMA RestoreAtWork ==
    ASSUME Separate, RestoreInv, CallInv, FileInv, OneWriter, NEW t \in Threads,
           \/ ReadJournal(t) \/ RepairTail(t) \/ SyncFile(t)
           \/ WriteLine(t) /\ file' = file
    PROVE  RestoreInv'
<1>0. /\ Shapes /\ JobFields(job[t]) /\ OwnCall(t)
      /\ job[t].pc = "reading" => IsLine(job[t].draft)
  BY DEF CallInv, Shapes, RestoreInv
<1>1. CASE ReadJournal(t)
  <2>1. job[t].pc = "reading" /\ UNCHANGED <<file, rec, view>>
    BY <1>1 DEF ReadJournal
  <2>2. CASE CanRead /\ Candidates(file, job[t]) # {}
    <3>1. PICK l \in Candidates(file, job[t]) :
             job' = [job EXCEPT ![t].pc = "opened", ![t].draft = l,
                                ![t].valid = Len(file)]
      BY <1>1, <2>2 DEF ReadJournal
    <3> DEFINE j == [job[t] EXCEPT !.pc = "opened", !.draft = l,
                                   !.valid = Len(file)]
    <3>2. job' = [job EXCEPT ![t] = j]
      BY <1>0, <3>1 DEF Shapes
    <3>3. /\ j.pc = "opened" /\ j.draft = l /\ j.op = job[t].op
          /\ j.owner = job[t].owner
      BY <1>0 DEF JobFields
    <3> HIDE DEF j
    <3>4. job[t].op \in {"append", "branch", "retry"}
      BY <1>0, <2>1 DEF OwnCall, AppendsOwn
    <3>5. SameEvent(l, job[t].draft)
      BY <1>0, <2>1, <3>4, CandidateFields
    <3>6. AppendsOwn(j)
      BY <1>0, <2>1, <3>3, <3>5 DEF OwnCall, AppendsOwn, SameEvent
    <3>7. ASSUME NEW r \in Recorders, j.owner = r
          PROVE  ToWrite(t, r) /\ SameEvent(j.draft, rec[r].draft)
      <4>1. ToWrite(t, r)
        BY <2>1, <3>3, <3>7 DEF ToWrite
      <4>2. SameEvent(job[t].draft, rec[r].draft)
        BY <1>0, <4>1 DEF OwnCall
      <4> QED
        BY <3>3, <3>5, <4>1, <4>2 DEF SameEvent
    <3> QED
      BY <1>0, <2>1, <3>2, <3>3, <3>6, <3>7, JobMoves
  <2>3. CASE ~(CanRead /\ Candidates(file, job[t]) # {})
    <3> DEFINE j == [Idle EXCEPT !.pc = "failed", !.owner = job[t].owner]
    <3>1. job' = [job EXCEPT ![t] = j]
      BY <1>1, <2>3 DEF ReadJournal
    <3>2. j.pc = "failed"
      BY DEF Idle
    <3> HIDE DEF j
    <3>3. AppendsOwn(j)
      BY <3>2 DEF AppendsOwn
    <3> QED
      BY <1>0, <2>1, <3>1, <3>2, <3>3, JobMoves
  <2> QED
    BY <2>2, <2>3
<1>2. CASE RepairTail(t) \/ SyncFile(t) \/ (WriteLine(t) /\ file' = file)
  <2>1. UNCHANGED <<file, rec, view>>
    BY <1>0, <1>2, FileRepaired DEF RepairTail, SyncFile, WriteLine
  <2>2. PICK pc : /\ job' = [job EXCEPT ![t].pc = pc]
                  /\ \/ pc = "writing" /\ job[t].pc = "opened"
                     \/ pc = "done" /\ job[t].pc = "syncing"
                     \/ pc = "failed"
    <3>1. CASE RepairTail(t)
      BY <3>1 DEF RepairTail
    <3>2. CASE SyncFile(t)
      BY <3>2 DEF SyncFile
    <3>3. CASE WriteLine(t) /\ file' = file
      <4>1. file' # Append(file, job[t].draft)
        <5>1. file \in Seq(Range(file))
          BY DEF FileInv
        <5> QED
          BY <3>3, <5>1, Appended
      <4>2. ~torn
        BY <3>3 DEF WriteLine, FileInv, CurrentJob
      <4> QED
        BY <3>3, <4>1, <4>2 DEF WriteLine
    <3> QED
      BY <1>2, <3>1, <3>2, <3>3
  <2> DEFINE j == [job[t] EXCEPT !.pc = pc]
  <2>3. job' = [job EXCEPT ![t] = j]
    BY <1>0, <2>2 DEF Shapes
  <2>4. /\ j.pc = pc /\ j.draft = job[t].draft /\ j.op = job[t].op
        /\ j.owner = job[t].owner
    BY <1>0 DEF JobFields
  <2> HIDE DEF j
  <2>5. AppendsOwn(j)
    BY <1>0, <2>2, <2>4 DEF OwnCall, AppendsOwn
  <2>6. ASSUME NEW r \in Recorders, j.owner = r
        PROVE  /\ j.pc \in {"reading", "opened", "writing"} =>
                     ToWrite(t, r) /\ SameEvent(j.draft, rec[r].draft)
               /\ j.pc \in {"syncing", "done"} => Wrote(t, r)
    BY <1>0, <2>2, <2>4, <2>6 DEF OwnCall, ToWrite, Wrote
  <2> QED
    BY <1>0, <2>1, <2>3, <2>5, <2>6, JobMoves
<1> QED
  BY <1>1, <1>2

\* A line behind a journal is the end of its branch alone.
LEMMA ProjectMoves ==
    ASSUME NEW lines, Journal(lines), NEW line, Fits(lines, line), NEW b
    PROVE  LET more == Append(lines, line) IN
           /\ line.branch # b =>
                 /\ HeadOf(more, b) = HeadOf(lines, b)
                 /\ Project(more, HeadOf(more, b)) = Project(lines, HeadOf(lines, b))
           /\ line.branch = b => HeadOf(more, b) # NoRecord
           /\ line.branch = b /\ line.kind # "branch_created" =>
                 Project(more, HeadOf(more, b)) =
                    Apply(Project(lines, HeadOf(lines, b)), line)
<1> DEFINE more == Append(lines, line)
<1>1. HeadOf(more, b) = IF line.branch = b THEN line.id ELSE HeadOf(lines, b)
  BY HeadMoves DEF Journal
<1>2. /\ Beginning(lines, more) /\ line.id # NoRecord
      /\ Project(more, line.id) = Apply(Project(lines, line.parent), line)
  BY OneMore
<1> HIDE DEF more
<1>3. Project(more, HeadOf(lines, b)) = Project(lines, HeadOf(lines, b))
  BY <1>2, HeadHeld, TrailStays DEF Project
<1>4. line.kind # "branch_created" => line.parent = HeadOf(lines, line.branch)
  BY DEF Fits
<1> QED
  BY <1>1, <1>2, <1>3, <1>4 DEF more

\* The line that a thread writes is the event of the recorder of its branch, or
\* makes a branch.
LEMMA RestoreAtWrite ==
    ASSUME Separate, RestoreInv, CallInv, FileInv, OneWriter, NEW t \in Threads,
           WriteLine(t), file' # file
    PROVE  RestoreInv'
<1>0. /\ Shapes /\ OwnedCalls /\ Journal(file) /\ CurrentJob(job[t])
      /\ DOMAIN view = Recorders
      /\ \A q \in Recorders : OwnBranch(q)
  BY DEF CallInv, FileInv, JournalReadable, Journal, RestoreInv
<1> DEFINE d == job[t].draft
<1>1. /\ job[t].pc = "writing" /\ Fits(file, d) /\ file' = Append(file, d)
      /\ job' = [job EXCEPT ![t].pc = "syncing"]
      /\ UNCHANGED <<rec, view>>
  BY <1>0 DEF WriteLine, CurrentJob
<1>2. /\ job'[t].pc = "syncing" /\ job'[t].owner = job[t].owner
      /\ \A u \in Threads : u # t => job'[u].pc = "free"
  BY <1>0, <1>1 DEF Shapes, JobFields, OneWriter
<1>3. AppendsOwn(job[t]) /\ \A q \in Recorders :
         job[t].owner = q => SameEvent(d, rec[q].draft)
  BY <1>1 DEF RestoreInv, OwnCall, ToWrite
<1>4. ASSUME NEW u \in Threads
      PROVE  OwnCall(u)'
  BY <1>2 DEF OwnCall, AppendsOwn, ToWrite
<1>5. ASSUME NEW q \in Recorders, rec[q].pc # "detached"
      PROVE  OwnBranch(q)'
  <2> DEFINE b == rec[q].branch
             s == Project(file, HeadOf(file, b))
             new == Project(file', HeadOf(file', b))
  <2>1. BranchExists(q) /\ Apart(q)
    BY <1>0, <1>5 DEF OwnBranch
  <2>2. /\ d.branch # b => HeadOf(file', b) = HeadOf(file, b) /\ new = s
        /\ d.branch = b => HeadOf(file', b) # NoRecord
        /\ d.branch = b /\ d.kind # "branch_created" => new = Apply(s, d)
    BY <1>0, <1>1, ProjectMoves
  <2>3. BranchExists(q)' /\ Apart(q)'
    BY <1>1, <2>1, <2>2 DEF BranchExists, Apart
  <2>4. /\ \A u \in Threads : ~ToWrite(u, q)'
        /\ (\E u \in Threads : Wrote(u, q)') <=> job[t].owner = q
    BY <1>2 DEF ToWrite, Wrote
  <2>5. ASSUME ~rec[q].missed
        PROVE  Remembers(q)'
    <3>1. Remembers(q)
      BY <1>0, <1>5, <2>5 DEF OwnBranch
    <3>2. CASE job[t].owner = q
      <4>1. rec[q].pc = "appending" /\ ToWrite(t, q)
        BY <1>0, <1>1, <3>2, JournalAssumption DEF OwnedCalls, OwnedCall, ToWrite
      <4>2. rec[q].draft.branch = b /\ rec[q].draft.kind \in EventKinds
        BY <1>0, <4>1 DEF OwnBranch
      <4>3. SameEvent(d, rec[q].draft)
        BY <1>3, <3>2
      <4>4. d.branch = b /\ d.kind # "branch_created"
        BY <4>2, <4>3 DEF SameEvent, EventKinds
      <4>5. new = Apply(s, rec[q].draft)
        BY <2>2, <4>2, <4>3, <4>4, SameApplied
      <4>6. view[q] = Remembered(new)
        BY <3>1, <4>1, <4>5 DEF Remembers, Pending
      <4> QED
        BY <1>1, <2>4, <4>1, <4>6 DEF Remembers, Pending
    <3>3. CASE job[t].owner # q
      <4>1. d.branch # b
        <5> SUFFICES ASSUME d.branch = b PROVE FALSE
          OBVIOUS
        <5>1. CASE job[t].op = "append"
          <6>1. PICK p \in Recorders :
                   /\ rec[p].pc # "detached" /\ rec[p].branch = d.branch
                   /\ job[t].owner = p \/ rec[p].missed
            BY <1>1, <1>3, <5>1 DEF AppendsOwn
          <6>2. p = q
            BY <2>1, <6>1 DEF Apart
          <6> QED
            BY <2>5, <3>3, <6>1, <6>2
        <5>2. CASE job[t].op # "append"
          <6>1. d.kind = "branch_created"
            BY <1>1, <1>3, <5>2 DEF AppendsOwn
          <6>2. d.branch # Main /\ HeadOf(file, d.branch) = NoRecord
            BY <1>1, <6>1 DEF Fits
          <6> QED
            BY <2>1, <6>2 DEF BranchExists
        <5> QED
          BY <5>1, <5>2
      <4>2. new = s
        BY <2>2, <4>1
      <4> QED
        BY <1>1, <2>4, <3>1, <3>3, <4>2 DEF Remembers, Recorded, Pending
    <3> QED
      BY <3>2, <3>3
  <2>6. rec[q].pc # "idle" => /\ rec[q].draft.branch = rec[q].branch
                              /\ rec[q].draft.kind \in EventKinds
    BY <1>0, <1>5 DEF OwnBranch
  <2> QED
    BY <1>1, <2>3, <2>5, <2>6 DEF OwnBranch
<1>6. ASSUME NEW q \in Recorders, rec[q].pc = "detached"
      PROVE  OwnBranch(q)'
  BY <1>1, <1>6 DEF OwnBranch
<1> QED
  BY <1>0, <1>1, <1>4, <1>5, <1>6 DEF RestoreInv, Separate

\* A call returns or is cancelled.
LEMMA RestoreAtEnd ==
    ASSUME Separate, RestoreInv, CallInv, NEW t \in Threads,
           Return(t) \/ CancelCall(t)
    PROVE  RestoreInv'
<1>0. /\ Shapes /\ OwnedCall(t) /\ JobFields(job[t]) /\ OwnCall(t)
      /\ None \notin Recorders
  BY JournalAssumption DEF CallInv, OwnedCalls, Shapes, RestoreInv
<1> DEFINE r == job[t].owner
<1>1. r # None => r \in Recorders /\ RecFields(rec[r]) /\ lock = t
  BY <1>0 DEF OwnedCall, Shapes
<1>2. UNCHANGED <<file, view>>
  BY DEF Return, CancelCall
<1>3. PICK j : /\ job' = [job EXCEPT ![t] = j] /\ j.owner = None
               /\ j.pc \in {"reading", "opened", "writing"} =>
                     j.pc = job[t].pc /\ j.op = job[t].op /\ j.draft = job[t].draft
               /\ j.pc \in {"syncing", "done"} => j.pc = job[t].pc
  <2>1. CASE job' = [job EXCEPT ![t] = Idle]
    BY <2>1, Resting
  <2>2. CASE job' = [job EXCEPT ![t].owner = None]
    <3> DEFINE j == [job[t] EXCEPT !.owner = None]
    <3>1. job' = [job EXCEPT ![t] = j]
      BY <1>0, <2>2 DEF Shapes
    <3>2. /\ j.pc = job[t].pc /\ j.draft = job[t].draft /\ j.op = job[t].op
          /\ j.owner = None
      BY <1>0 DEF JobFields
    <3> HIDE DEF j
    <3> QED
      BY <3>1, <3>2
  <2> QED
    BY <2>1, <2>2 DEF Return, CancelCall
<1>4. CASE r = None
  <2>1. rec' = rec
    BY <1>4 DEF Return, CancelCall, Inform
  <2>2. AppendsOwn(j)
    BY <1>0, <1>3, <1>4 DEF OwnCall, AppendsOwn
  <2>3. \A q \in Recorders : j.owner # q
    BY <1>0, <1>3
  <2> QED
    BY <1>0, <1>2, <1>3, <2>1, <2>2, <2>3, JobMoves
<1>5. CASE r # None
  <2>1. PICK x : /\ rec' = [rec EXCEPT ![r] = x]
                 /\ x.pc = "idle" /\ x.branch = rec[r].branch
                 /\ rec[r].missed => x.missed
                 /\ job[t].pc # "done" => x.missed
    <3>1. \/ rec' = [rec EXCEPT ![r] = AfterSuccess(rec[r])] /\ job[t].pc = "done"
          \/ rec' = [rec EXCEPT ![r] = AfterFailure(rec[r])]
          \/ rec' = [rec EXCEPT ![r] = AfterCancel(rec[r])]
      BY <1>1, <1>5 DEF Return, CancelCall, Inform
    <3>2. RecFields(rec[r])
      BY <1>1, <1>5
    <3> QED
      BY <3>1, <3>2, AfterIsIdle, AfterOnBranch
  <2> QED
    BY <1>1, <1>2, <1>3, <1>5, <2>1, CallOver
<1> QED
  BY <1>4, <1>5

\* Every step keeps what agents remember.
LEMMA RestoreStep ==
    ASSUME RestoreInv, CallInv, FileInv, SessionInv, OneWriter, [Next]_vars
    PROVE  RestoreInv'
<1>1. CASE UNCHANGED vars
  BY <1>1 DEF vars, RestoreInv, Separate, OwnCall, AppendsOwn, ToWrite, OwnBranch,
              BranchExists, Apart, Remembers, Recorded, Pending, Wrote
<1>2. CASE Next /\ ~Separate
  BY <1>2 DEF Next, RestoreInv, Separate
<1>3. CASE Next /\ Separate
  <2>1. Step
    BY <1>3 DEF Next
  <2>2. ASSUME NEW t \in Threads PROVE ~Save(t)
    BY <1>3 DEF Separate, Save
  <2> QED
    BY <1>3, <2>1, <2>2, RestoreAtCalls, RestoreAtAppend, RestoreAtWork,
       RestoreAtWrite, RestoreAtEnd, RestoreAtAttach, RestoreAtEvents, RestoreAtCrash
    DEF Step
<1> QED
  BY <1>1, <1>2, <1>3

\* With one writing thread an agent on a branch of its own remembers what its
\* branch projects to, and the event that is on its way there.
THEOREM RestoreInvariant == Spec /\ []OneWriter => []RestoreInv
<1>1. Init => RestoreInv
  BY Resting DEF Init, RestoreInv, OwnCall, AppendsOwn, ToWrite, OwnBranch
<1> QED
  BY <1>1, RestoreStep, CallInvariant, FileInvariant, SessionInvariant, PTL DEF Spec

\* With one writing thread an agent restored from its branch remembers what the
\* agent remembered that wrote it (restore_session, AgentSession.messages).
THEOREM RestoresMatch == Spec /\ []OneWriter => []RestoreMatches
<1>1. RestoreInv => RestoreMatches
  BY DEF RestoreInv, Separate, OwnBranch, Remembers, Recorded, RestoreMatches
<1> QED
  BY <1>1, RestoreInvariant, PTL

-----------------------------------------------------------------------------
(* When one thread writes.                                                 *)

\* An executor of one thread never has two of them work.
THEOREM OneThread ==
    ASSUME \A t, u \in Threads : t = u
    PROVE  Spec => /\ DurableLog /\ []JournalReadable /\ []AcknowledgedDurable
                   /\ []Recoverable /\ []RetryStartsBefore /\ []RestoreMatches
<1>1. OneWriter
  BY DEF OneWriter
<1> QED
  BY <1>1, JournalIsLog, AlwaysReadable, ReportedIsDurable, RunsRecoverable,
     RetriesGoBack, RestoresMatch, PTL

\* Without cancellations the storage's lock is held until the thread is done.
LockKept ==
    /\ {"cancels"} \subseteq DOMAIN made /\ made.cancels = 0
    /\ \A t \in Threads : job[t].pc # "free" => lock = t

\* Every step keeps the lock with the thread that works.
LEMMA LockKeptStep ==
    ASSUME MaxCancels = 0, CallInv, LockKept, [Next]_vars
    PROVE  LockKept'
<1>0. Shapes /\ None \notin Threads
  BY JournalAssumption DEF CallInv
<1> USE DEF LockKept
<1>1. ASSUME NEW t \in Threads,
             \/ CreateBranch(t) \/ PrepareRetry(t) \/ Save(t)
             \/ \E r \in Recorders : AppendEvent(r, t)
      PROVE  LockKept'
  <2>1. PICK j : lock = None /\ lock' = t /\ job' = [job EXCEPT ![t] = j]
    BY <1>1 DEF CreateBranch, PrepareRetry, Save, AppendEvent, Call
  <2>2. made' = made
    BY <1>1 DEF CreateBranch, PrepareRetry, Save, AppendEvent
  <2> QED
    BY <1>0, <2>1, <2>2, SMTT(60) DEF Shapes
<1>2. ASSUME NEW t \in Threads,
             ReadJournal(t) \/ RepairTail(t) \/ WriteLine(t) \/ SyncFile(t)
      PROVE  LockKept'
  <2>1. job[t].pc # "free" /\ lock' = lock
    BY <1>2 DEF ReadJournal, RepairTail, WriteLine, SyncFile
  <2>2. PICK j : job' = [job EXCEPT ![t] = j]
    <3>1. CASE ReadJournal(t)
      <4>1. \/ job' = [job EXCEPT ![t] = [Idle EXCEPT !.pc = "failed",
                                                     !.owner = job[t].owner]]
            \/ \E l : job' = [job EXCEPT ![t].pc = "opened", ![t].draft = l,
                                         ![t].valid = Len(file)]
        BY <3>1 DEF ReadJournal
      <4> QED
        BY <1>0, <4>1 DEF Shapes
    <3>2. CASE RepairTail(t) \/ WriteLine(t) \/ SyncFile(t)
      <4>1. \E pc : job' = [job EXCEPT ![t].pc = pc]
        BY <3>2 DEF RepairTail, WriteLine, SyncFile
      <4> QED
        BY <1>0, <4>1, PcSet
    <3> QED
      BY <1>2, <3>1, <3>2, SMTT(60)
  <2>3. made' = made \/ made' = [made EXCEPT !.records = @ + 1]
    BY <1>2 DEF ReadJournal, RepairTail, WriteLine, SyncFile
  <2>4. {"cancels"} \subseteq DOMAIN made' /\ made'.cancels = 0
    BY <2>3
  <2> QED
    BY <1>0, <2>1, <2>2, <2>4 DEF Shapes
<1>3. ASSUME NEW t \in Threads, Return(t)
      PROVE  LockKept'
  <2>1. job' = [job EXCEPT ![t] = Idle] /\ lock = t /\ made' = made
    BY <1>3 DEF Return
  <2> QED
    BY <1>0, <2>1, Resting DEF Shapes
<1>4. ASSUME NEW t \in Threads, CancelCall(t)
      PROVE  FALSE
  BY <1>4 DEF CancelCall
<1>5. ASSUME NEW r \in Recorders,
             \/ Attach(r) \/ AgentStarts(r) \/ AgentSpeaks(r) \/ AgentCompacts(r)
             \/ AgentFinishes(r) \/ CheckEvent(r)
      PROVE  LockKept'
  <2>1. UNCHANGED <<job, lock>>
    BY <1>5, SMTT(60) DEF Attach, AgentStarts, AgentSpeaks, AgentCompacts,
                AgentFinishes, EmitEvent, CheckEvent
  <2>2. made' = made \/ made' = [made EXCEPT !.runs = @ + 1]
    BY <1>5 DEF Attach, AgentStarts, AgentSpeaks, AgentCompacts,
                AgentFinishes, EmitEvent, CheckEvent
  <2>3. {"cancels"} \subseteq DOMAIN made' /\ made'.cancels = 0
    BY <2>2
  <2> QED
    BY <2>1, <2>3, SMTT(60)
<1>6. ASSUME NEW r \in Recorders, CancelEvent(r)
      PROVE  FALSE
  BY <1>6 DEF CancelEvent
<1>7. CASE Crash
  <2>1. made' = [made EXCEPT !.crashes = @ + 1] /\ job' = [t \in Threads |-> Idle]
    BY <1>7 DEF Crash
  <2>2. {"cancels"} \subseteq DOMAIN made' /\ made'.cancels = 0
    BY <2>1
  <2> QED
    BY <2>1, <2>2, Resting
<1>8. CASE UNCHANGED vars
  BY <1>8 DEF vars
<1> QED
  BY <1>1, <1>2, <1>3, <1>4, <1>5, <1>6, <1>7, <1>8 DEF Next, Step

\* If no caller of the storage is ever cancelled, its lock serves: however many
\* threads the executor has, the journal is the log that it should be.
THEOREM Uncancelled ==
    ASSUME MaxCancels = 0
    PROVE  Spec => /\ DurableLog /\ []JournalReadable /\ []AcknowledgedDurable
                   /\ []Recoverable /\ []RetryStartsBefore /\ []RestoreMatches
<1>1. Init => LockKept
  BY Resting DEF Init, LockKept
<1>2. CallInv /\ LockKept /\ [Next]_vars => LockKept'
  BY LockKeptStep
<1>3. LockKept => OneWriter
  BY DEF LockKept, OneWriter
<1> QED
  BY <1>1, <1>2, <1>3, CallInvariant, JournalIsLog, AlwaysReadable,
     ReportedIsDurable, RunsRecoverable, RetriesGoBack, RestoresMatch, PTL DEF Spec
=============================================================================
