----------------------------- MODULE ProviderStream -----------------------------
(***************************************************************************)
(* One model request after another of a run: _request_model of the         *)
(* orchestrator pulls events from the generator of the OpenAI adapter,     *)
(* which reads chunks of a response and puts the message together.         *)
(*                                                                         *)
(* Each pull runs in a task of its own under CancellationToken.run, which  *)
(* cancels that task on an abort; the task of the run may be cancelled     *)
(* too.  Inside it the generator waits for the request or a chunk the same *)
(* way, but the outer wait is registered first, so that on an abort the    *)
(* cancellation of the task always reaches the generator before its own    *)
(* wait does: only its explicit checks read the token.                     *)
(*                                                                         *)
(* The provider sends text, reasoning and fragments of tool calls in any   *)
(* split and interleaving of calls, may report usage, and may stop or fail *)
(* anywhere.  The message it means to send is history.                     *)
(***************************************************************************)
EXTENDS Naturals, SequencesExt, FiniteSets, Aggregates

CONSTANTS
    NoCount,      \* Python's None for a count
    NoReport,     \* no usage reported
    NoChunk,      \* nothing left of the last chunk
    Reports,      \* usage reports: input tokens and cached tokens or NoCount
    MaxRequests,  \* bound: requests of the run
    MaxChunks,    \* bound: chunks of all responses of the run
    MaxCancels    \* bound: cancellations of the run's task

ASSUME StreamAssumption ==
    /\ \A r \in Reports : r.input \in Nat /\ r.cached \in Nat \cup {NoCount}
    /\ NoCount \notin Nat
    /\ NoReport \notin Reports
    /\ {MaxRequests, MaxChunks, MaxCancels} \subseteq Nat

Calls == {1, 2}
\* What the client raises: its class, and whether it speaks of the context.
Raised == [class : {"auth", "rate", "timeout", "other"}, overflow : BOOLEAN]

VARIABLES
    provider,  \* streams calls with or without an index, or completes only
    totals,    \* UsageAccumulator
    recorded,  \* history: the reports of the completed requests
    token,     \* the run was aborted
    cancels,   \* cancellations of the run's task
    signals,   \* history: "none" came to this request, one at a "quiet" point
               \* of it, or "others"
    main,      \* _request_model
    outcome,   \* how the request ends
    started,   \* response_started
    shown,     \* the deltas emitted; a text is a number, reasoning is 0
    work,      \* the task of a pull: "none", "running" or its result
    poked,     \* CancelledError is to be thrown into the generator's wait
    gen,       \* the generator
    raising,   \* what it raises after its finally block
    arrived,   \* what the generator waits for: "none" yet, or what came
    chunk,     \* the chunk that came, later its rest
    reply,     \* content_parts, tool_calls, has_finish_reason and usage
    open,      \* the response is open
    sent       \* history: what the provider sent

runVars == <<provider, totals, recorded>>
mainVars == <<main, outcome, started, shown>>
genVars == <<work, poked, gen, raising, chunk, reply>>
vars == <<runVars, token, cancels, signals, mainVars, genVars, arrived, open,
          sent>>

NoReply == [content |-> <<>>, calls |-> <<>>, finished |-> FALSE,
            usage |-> NoReport]
NothingSent == [deltas |-> <<>>, parts |-> <<>>, finished |-> FALSE,
                usage |-> NoReport, chunks |-> 0]

Init ==
    /\ provider \in {"indexed", "unindexed", "complete"}
    /\ totals = [requests |-> 0, reported |-> 0, input |-> 0, cached |-> NoCount]
    /\ recorded = <<>>
    /\ token = FALSE
    /\ cancels = 0
    /\ signals = "none"
    /\ main = "ended"
    /\ outcome = "none"
    /\ started = FALSE
    /\ shown = <<>>
    /\ work = "none"
    /\ poked = FALSE
    /\ gen = "over"
    /\ raising = "none"
    /\ arrived = "none"
    /\ chunk = NoChunk
    /\ reply = NoReply
    /\ open = FALSE
    /\ sent = NothingSent

-----------------------------------------------------------------------------
(* UsageAccumulator.                                                       *)

\* Mutant: a report without the counter counts as zero.
MutantAddOptional(current, value, previous) ==
    IF value = NoCount THEN current
    ELSE IF current = NoCount THEN value ELSE current + value
\* A counter that some report lacks is unknown from there on.
AddOptional(current, value, previous) ==
    IF previous = 0 THEN value
    ELSE IF NoCount \in {current, value} THEN NoCount ELSE current + value

Record(report) ==
    IF report = NoReport THEN UNCHANGED <<totals, recorded>>
    ELSE /\ totals' = [totals EXCEPT
                !.reported = @ + 1,
                !.input = @ + report.input,
                !.cached = AddOptional(@, report.cached, totals.reported)]
         /\ recorded' = Append(recorded, report)

-----------------------------------------------------------------------------
(* _request_model.                                                         *)

\* The next request of a run: after a reply, or the retry after a compaction.
BeginRequest ==
    /\ main = "ended"
    /\ outcome = "overflow" => ~started
    /\ outcome \in {"none", "completed", "overflow"}
    /\ totals.requests < MaxRequests
    /\ totals' = [totals EXCEPT !.requests = @ + 1]
    /\ signals' = "none"
    /\ main' = "ready"
    /\ outcome' = "none"
    /\ started' = FALSE
    /\ shown' = <<>>
    /\ work' = "none"
    /\ poked' = FALSE
    /\ gen' = "fresh"
    /\ raising' = "none"
    /\ arrived' = "none"
    /\ chunk' = NoChunk
    /\ reply' = NoReply
    /\ open' = FALSE
    /\ sent' = [NothingSent EXCEPT !.chunks = sent.chunks]
    /\ UNCHANGED <<provider, recorded, token, cancels>>

\* Before each pull the token is checked.
Pull ==
    /\ main = "ready"
    /\ IF token
       THEN /\ main' = "closing"
            /\ outcome' = "aborted"
            /\ UNCHANGED work
       ELSE /\ main' = "pulling"
            /\ work' = "running"
            /\ UNCHANGED outcome
    /\ UNCHANGED <<runVars, token, cancels, signals, started, shown, poked, gen,
                   raising, arrived, chunk, reply, open, sent>>

MarksStarted == started

\* The pull ended.  Deltas are emitted and the next one is pulled.
TakeEvent ==
    /\ main = "pulling"
    /\ work \notin {"none", "running"}
    /\ CASE work = "text" ->
              /\ shown' = Append(shown, Last(reply.content))
              /\ started' = TRUE
              /\ main' = "ready"
              /\ UNCHANGED outcome
         [] work = "thinking" ->
              /\ shown' = Append(shown, 0)
              /\ started' = TRUE
              /\ main' = "ready"
              /\ UNCHANGED outcome
         [] OTHER ->
              /\ outcome' = work
              /\ started' = (started /\ (work = "overflow" => MarksStarted))
              /\ main' = "closing"
              /\ UNCHANGED shown
    /\ work' = "none"
    /\ UNCHANGED <<runVars, token, cancels, signals, poked, gen, raising,
                   arrived, chunk, reply, open, sent>>

Signal(quiet) ==
    signals' = IF signals = "none" /\ quiet THEN "quiet" ELSE "others"

\* Agent.abort.
Abort ==
    /\ main # "ended"
    /\ ~token
    /\ token' = TRUE
    /\ Signal(main # "pulling")
    /\ UNCHANGED <<runVars, cancels, mainVars, genVars, arrived, open, sent>>

\* Mutant: the token is only read between two events.
MutantNoticeAbort == FALSE /\ UNCHANGED vars
\* CancellationToken.run wakes up, the pull is not done: it is cancelled.
NoticeAbort ==
    /\ main = "pulling"
    /\ token
    /\ work = "running"
    /\ poked' = TRUE
    /\ main' = "interrupting"
    /\ outcome' = "aborted"
    /\ UNCHANGED <<runVars, token, cancels, signals, started, shown, work, gen,
                   raising, arrived, chunk, reply, open, sent>>

Passes == work = "running" \/ gen = "closing"

\* The task of the run is cancelled at whatever it awaits: the cancellation
\* is passed on to the pull, or thrown into aclose.
CancelTask ==
    /\ main \in {"ready", "pulling", "interrupting"} \/ gen = "closing"
    /\ cancels < MaxCancels
    /\ cancels' = cancels + 1
    /\ Signal(gen \notin {"requesting", "closing"})
    /\ outcome' = "cancelled"
    /\ main' = IF main \in {"pulling", "interrupting"} THEN "interrupting"
               ELSE "closing"
    /\ poked' = Passes
    /\ UNCHANGED <<runVars, token, started, shown, work, gen, raising, arrived,
                   chunk, reply, open, sent>>

\* The interrupted pull is done; its event, if any, is lost.
Interrupted ==
    /\ main = "interrupting"
    /\ work # "running"
    /\ main' = "closing"
    /\ work' = "none"
    /\ UNCHANGED <<runVars, token, cancels, signals, outcome, started, shown,
                   poked, gen, raising, arrived, chunk, reply, open, sent>>

\* Mutant: the generator is left to the garbage collector.
MutantCloses == FALSE
Closes == gen = "yielded"

\* aclose throws GeneratorExit into a generator that is suspended at a yield.
CloseGenerator ==
    /\ main = "closing"
    /\ Closes
    /\ gen' = "closing"
    /\ raising' = "exit"
    /\ UNCHANGED <<runVars, token, cancels, signals, mainVars, work, poked,
                   arrived, chunk, reply, open, sent>>

\* The request is over; the usage of a reply is recorded.
EndRequest ==
    /\ main = "closing"
    /\ gen # "closing"
    /\ ~Closes
    /\ main' = "ended"
    /\ IF outcome = "completed" THEN Record(reply.usage)
       ELSE UNCHANGED <<totals, recorded>>
    /\ UNCHANGED <<provider, token, cancels, signals, outcome, started,
                   shown, genVars, arrived, open, sent>>

-----------------------------------------------------------------------------
(* The generator: stream of the OpenAI adapter, or the stream that           *)
(* ModelAdapter puts around complete().                                      *)

\* The task of the pull ends with an event or an exception.
Ends(result) == work' = (IF work = "running" THEN result ELSE work)

\* _normalize_provider_error.
Normalize(raw) ==
    IF raw.class # "other" THEN raw.class
    ELSE IF raw.overflow THEN "overflow" ELSE "provider"

\* The first pull: the request is sent, unless the token is set.
StartGenerator ==
    /\ work = "running"
    /\ gen = "fresh"
    /\ ~poked
    /\ IF token THEN gen' = "over" /\ Ends("aborted")
                ELSE gen' = "requesting" /\ UNCHANGED work
    /\ UNCHANGED <<runVars, token, cancels, signals, mainVars, poked, raising,
                   arrived, chunk, reply, open, sent>>

\* The task of the pull is cancelled before it runs: the generator stays.
NeverRan ==
    /\ work = "running"
    /\ gen \in {"fresh", "yielded"}
    /\ poked
    /\ poked' = FALSE
    /\ Ends("cancelled")
    /\ UNCHANGED <<runVars, token, cancels, signals, mainVars, gen, raising,
                   arrived, chunk, reply, open, sent>>

\* The call parts a provider may send next: of a call its head (id and name),
\* with or without arguments, or arguments; of the first call the head may be
\* missing.  Without indexes all calls come whole, in one chunk.
Part(c, head, argument) ==
    [call |-> c, index |-> c, head |-> head, argument |-> argument]
PartsOf(c) == [call : {c}, index : {c}, head : BOOLEAN, argument : Nat]
SentOf(c) == Selected(sent.parts, PartsOf(c))
Heads(c) == IF SentOf(c) = <<>> THEN {Part(c, TRUE, 0), Part(c, TRUE, 1)} ELSE {}
Tails(c) == IF SentOf(c) # <<>> \/ c = 1
            THEN {Part(c, FALSE, Len(SentOf(c)) + 1)} ELSE {}
WholeCalls == <<Part(1, TRUE, 1), Part(2, TRUE, 1)>>
PartLists ==
    IF provider = "indexed"
    THEN {<<p>> : p \in UNION {Heads(c) \cup Tails(c) : c \in Calls}}
         \cup {<<p, q>> : p \in Heads(2) \cup Tails(2), q \in Tails(1)}
         \cup {<<p, q>> : p \in Tails(2), q \in Heads(1)}
    ELSE {SubSeq(WholeCalls, 1, n) : n \in IF sent.parts = <<>> THEN 1..2 ELSE {}}

\* Chunks: text, reasoning or both; parts of calls, alone or at the end of the
\* last text; a finish reason with or without text or usage; usage alone, which
\* comes without a choice.
Chunk(text, thinking, parts, finished, usage) ==
    [text |-> text, thinking |-> thinking, parts |-> parts,
     finished |-> finished, usage |-> usage]
NextText == Len(sent.deltas) + 1
Texts == {0, NextText}
Chunks ==
    {Chunk(NextText, th, <<>>, FALSE, NoReport) : th \in BOOLEAN}
    \cup {Chunk(0, TRUE, <<>>, FALSE, NoReport)}
    \cup {Chunk(0, FALSE, ps, FALSE, NoReport) : ps \in PartLists}
    \cup {Chunk(NextText, FALSE, ps, TRUE, NoReport) : ps \in PartLists \cup {<<>>}}
    \cup {Chunk(0, FALSE, <<>>, f, u) : f \in BOOLEAN, u \in Reports}
Messages == {Chunk(t, FALSE, ps, TRUE, NoReport) :
                t \in Texts, ps \in PartLists \cup {<<>>}}

\* The text and the deltas of a chunk.
TextOf(c) == IF c.text = 0 THEN <<>> ELSE <<c.text>>
DeltasOf(c) == TextOf(c) \o (IF c.thinking THEN <<0>> ELSE <<>>)

Send(c) ==
    /\ chunk' = c
    /\ arrived' = "chunk"
    /\ sent' = [deltas |-> sent.deltas \o DeltasOf(c),
                parts |-> sent.parts \o c.parts,
                finished |-> sent.finished \/ c.finished,
                usage |-> IF c.usage = NoReport THEN sent.usage ELSE c.usage,
                chunks |-> sent.chunks + 1]

\* What the generator sees of an error of the provider.
Fails == arrived' \in {Normalize(raw) : raw \in Raised} /\ UNCHANGED <<chunk, sent>>

\* The provider answers the request with a stream, or with the message that
\* complete() asked for, or it fails.
Answer ==
    /\ gen = "requesting"
    /\ arrived = "none"
    /\ \/ /\ provider # "complete"
          /\ arrived' = "response"
          /\ open' = TRUE
          /\ UNCHANGED <<chunk, sent>>
       \/ provider = "complete" /\ (\E m \in Messages : Send(m)) /\ UNCHANGED open
       \/ Fails /\ UNCHANGED open
    /\ UNCHANGED <<runVars, token, cancels, signals, mainVars, work, poked, gen,
                   raising, reply>>

\* A chunk, the end of the stream, or an error.
Deliver ==
    /\ gen = "reading"
    /\ arrived = "none"
    /\ \/ sent.chunks < MaxChunks /\ \E c \in Chunks : Send(c)
       \/ arrived' = "end" /\ UNCHANGED <<chunk, sent>>
       \/ Fails
    /\ UNCHANGED <<runVars, token, cancels, signals, mainVars, work, poked, gen,
                   raising, reply, open>>

\* Leave the loop for the finally block.
Leave(error) == gen' = "closing" /\ raising' = error /\ UNCHANGED work

\* The head of the loop.
ReadOn ==
    IF token THEN Leave("aborted")
    ELSE gen' = "reading" /\ UNCHANGED <<raising, work>>

NoCall == [id |-> 0, name |-> <<>>, arguments |-> <<>>]
\* The key of a part: its index, or its position in the chunk.
\* Mutant: always the position.
MutantKey(part, position) == position - 1
Key(part, position) ==
    IF provider = "indexed" THEN part.index ELSE position - 1

\* One part added to the calls put together so far.
AddPart(cs, part, position) ==
    LET k == Key(part, position)
        old == IF k \in DOMAIN cs THEN cs[k] ELSE NoCall
        new == [id |-> IF part.head THEN part.call ELSE old.id,
                name |-> old.name \o (IF part.head THEN <<part.call>> ELSE <<>>),
                arguments |-> old.arguments
                    \o (IF part.argument = 0 THEN <<>>
                        ELSE <<<<part.call, part.argument>>>>)]
    IN  [x \in DOMAIN cs \cup {k} |-> IF x = k THEN new ELSE cs[x]]
AddParts(cs, parts) ==
    CASE Len(parts) = 0 -> cs
      [] Len(parts) = 1 -> AddPart(cs, parts[1], 1)
      [] OTHER -> AddPart(AddPart(cs, parts[1], 1), parts[2], 2)

\* Mutant: reasoning is only looked for when there is no text.
MutantAfterText(c) == [c EXCEPT !.text = 0, !.thinking = FALSE]
AfterText(c) == [c EXCEPT !.text = 0]

\* Work on a chunk: its text, then its reasoning is yielded, and the parts of
\* calls are added when the generator has been resumed after both.
Produce(c, r) ==
    IF c.text # 0
    THEN /\ reply' = [r EXCEPT !.content = Append(@, c.text)]
         /\ chunk' = AfterText(c)
         /\ gen' = "yielded"
         /\ Ends("text")
         /\ UNCHANGED raising
    ELSE IF c.thinking
    THEN /\ reply' = r
         /\ chunk' = [c EXCEPT !.thinking = FALSE]
         /\ gen' = "yielded"
         /\ Ends("thinking")
         /\ UNCHANGED raising
    ELSE /\ reply' = [r EXCEPT !.calls = AddParts(@, c.parts)]
         /\ chunk' = NoChunk
         /\ ReadOn

\* The request was answered and the generator resumes.
TakeAnswer ==
    /\ work = "running"
    /\ gen = "requesting"
    /\ arrived # "none"
    /\ ~poked
    /\ arrived' = "none"
    /\ CASE arrived = "response" -> ReadOn /\ UNCHANGED <<reply, chunk>>
         [] arrived = "chunk" ->
              /\ reply' = [NoReply EXCEPT
                    !.content = TextOf(chunk),
                    !.calls = AddParts(@, chunk.parts)]
              /\ chunk' = NoChunk
              /\ gen' = "over"
              /\ Ends("completed")
              /\ UNCHANGED raising
         [] OTHER ->
              /\ gen' = "over"
              /\ Ends(arrived)
              /\ UNCHANGED <<reply, chunk, raising>>
    /\ UNCHANGED <<runVars, token, cancels, signals, mainVars, poked, open, sent>>

\* A chunk came.  The last usage report counts.
UsageOf(c) == IF c.usage = NoReport THEN reply.usage ELSE c.usage

TakeChunk ==
    /\ work = "running"
    /\ gen = "reading"
    /\ arrived # "none"
    /\ ~poked
    /\ arrived' = "none"
    /\ CASE arrived = "chunk" ->
              Produce(chunk, [reply EXCEPT !.usage = UsageOf(chunk),
                                           !.finished = @ \/ chunk.finished])
         [] arrived = "end" -> Leave("none") /\ UNCHANGED <<reply, chunk>>
         [] OTHER -> Leave(arrived) /\ UNCHANGED <<reply, chunk>>
    /\ UNCHANGED <<runVars, token, cancels, signals, mainVars, poked, open, sent>>

\* The next pull resumes the generator after its yield.
Resume ==
    /\ work = "running"
    /\ gen = "yielded"
    /\ ~poked
    /\ Produce(chunk, reply)
    /\ UNCHANGED <<runVars, token, cancels, signals, mainVars, poked, arrived,
                   open, sent>>

\* CancelledError is thrown into the wait for the request or a chunk, even if
\* it came already: then it is lost, and the response has no one to close it.
ThrowCancelled ==
    /\ work = "running"
    /\ poked
    /\ poked' = FALSE
    /\ \/ gen = "requesting" /\ gen' = "over" /\ Ends("cancelled")
                             /\ UNCHANGED raising
       \/ gen = "reading" /\ Leave("cancelled")
    /\ UNCHANGED <<runVars, token, cancels, signals, mainVars, arrived, chunk,
                   reply, open, sent>>

\* The checks after the loop.
Accepted ==
    /\ reply.finished
    /\ \A k \in DOMAIN reply.calls : reply.calls[k].id # 0

\* The response is closed, whatever its close raises, and the generator ends.
CloseResponse ==
    /\ gen = "closing"
    /\ ~poked
    /\ open' = FALSE
    /\ gen' = "over"
    /\ Ends(IF raising # "none" THEN raising
            ELSE IF Accepted THEN "completed" ELSE "provider")
    /\ UNCHANGED <<runVars, token, cancels, signals, mainVars, poked, raising,
                   arrived, chunk, reply, sent>>

\* CancelledError is thrown into the close, which may not have closed yet.
InterruptClose ==
    /\ gen = "closing"
    /\ poked
    /\ poked' = FALSE
    /\ open' \in {open, FALSE}
    /\ gen' = "over"
    /\ Ends("cancelled")
    /\ UNCHANGED <<runVars, token, cancels, signals, mainVars, raising, arrived,
                   chunk, reply, sent>>

GeneratorStep ==
    \/ StartGenerator \/ NeverRan \/ TakeAnswer \/ TakeChunk \/ Resume
    \/ ThrowCancelled \/ CloseResponse \/ InterruptClose
RequestStep ==
    Pull \/ TakeEvent \/ NoticeAbort \/ Interrupted \/ CloseGenerator \/ EndRequest

Next ==
    \/ BeginRequest \/ RequestStep \/ GeneratorStep
    \/ Answer \/ Deliver
    \/ Abort \/ CancelTask

Spec == Init /\ [][Next]_vars

\* The event loop runs what can run, and event sinks and closes return; the
\* provider may be silent for ever.
FairSpec == Spec /\ WF_vars(RequestStep) /\ WF_vars(GeneratorStep)

-----------------------------------------------------------------------------
(* Properties.                                                             *)

Outcomes == {"none", "completed", "aborted", "cancelled", "overflow", "provider",
             "auth", "rate", "timeout"}

TypeOK ==
    /\ provider \in {"indexed", "unindexed", "complete"}
    /\ totals.requests \in 0..MaxRequests /\ totals.input \in Nat
    /\ signals \in {"none", "quiet", "others"}
    /\ token \in BOOLEAN /\ cancels \in 0..MaxCancels
    /\ main \in {"ended", "ready", "pulling", "interrupting", "closing"}
    /\ outcome \in Outcomes
    /\ started \in BOOLEAN
    /\ work \in Outcomes \cup {"running", "text", "thinking"}
    /\ gen \in {"fresh", "requesting", "reading", "yielded", "closing", "over"}
    /\ raising \in Outcomes \cup {"exit"}
    /\ arrived \in Outcomes \cup {"response", "chunk", "end"}
    /\ chunk # NoChunk => chunk.text \in Nat
    /\ open \in BOOLEAN
    /\ poked => work = "running" \/ gen = "closing"

\* The arguments that some parts of call c carry, in order.
Arguments(c, parts) ==
    Selected([i \in DOMAIN parts |-> <<c, parts[i].argument>>], {c} \X (Nat \ {0}))
\* The tool calls the provider means, in the order of their numbers.
Meant ==
    LET Call(c) == [id |-> c, name |-> <<c>>, arguments |-> Arguments(c, SentOf(c))]
        there == Selected(<<1, 2>>, {c \in Calls : SentOf(c) # <<>>})
    IN  [i \in DOMAIN there |-> Call(there[i])]
\* The calls of the reply, in the order of their keys (0 to 2, see ReplyInv).
Returned ==
    LET keys == Selected(<<0, 1, 2>>, DOMAIN reply.calls)
    IN  [i \in DOMAIN keys |-> reply.calls[keys[i]]]

\* A request that completes returns the message the provider sent, all of it:
\* text, calls and last usage report, however calls were cut and interleaved,
\* and never of a stream that broke off before its finish reason.
ReplyExact ==
    outcome = "completed" =>
        /\ sent.finished
        /\ reply.content = Selected(sent.deltas, Nat \ {0})
        /\ Returned = Meant
        /\ reply.usage = sent.usage

\* The deltas a user sees are what the provider sent, in order, with nothing
\* twice or left out: all of it when the request completes, and nothing when
\* its failure leads to another try.
ShownFaithful ==
    /\ IsPrefix(shown, sent.deltas)
    /\ outcome = "completed" /\ provider # "complete" => shown = sent.deltas
    /\ main = "ended" /\ outcome = "overflow" /\ ~started => shown = <<>>

\* The response of a request is closed when the request ends, whatever ended
\* it: what the provider does, one cancellation of the run unless it hits the
\* wait for the request or a close, and an abort that comes while an event is
\* handled.
ResponseReleased ==
    main = "ended" /\ open => signals = "others"

\* The totals of the run are the sums over the reports, and a counter is known
\* exactly when there is a report and each report has it.
UsageExact ==
    /\ totals.reported = Len(recorded)
    /\ totals.reported <= totals.requests
    /\ totals.input = Total([i \in DOMAIN recorded |-> recorded[i].input])
    /\ totals.cached =
         IF recorded = <<>> \/ \E i \in DOMAIN recorded : recorded[i].cached = NoCount
         THEN NoCount
         ELSE Total([i \in DOMAIN recorded |-> recorded[i].cached])

\* An aborted request ends, even when the provider never speaks again.
AbortEndsRequest == token ~> main = "ended"

\* What the documentation says: an abort closes the provider's stream.
AbortClosesStream == main = "ended" /\ open => cancels > 0

-----------------------------------------------------------------------------
(* The invariants behind them, for ProviderStream_proof.                   *)

\* A generator that waits does so for a pull, and a request lets go of it only
\* when it is suspended or over.
Errors == {"auth", "rate", "timeout", "overflow", "provider"}
PullInv ==
    /\ arrived \in {"none", "response", "chunk", "end"} \cup Errors
    /\ raising \in {"none", "exit", "aborted", "cancelled"} \cup Errors
    /\ gen \in {"fresh", "requesting", "reading", "yielded", "closing", "over"}
    /\ gen \in {"requesting", "reading"} => work = "running"
    /\ gen = "reading" => arrived # "response"
    /\ gen = "yielded" => arrived = "none"
    /\ work \in {"text", "thinking"} => gen = "yielded"
    /\ work # "none" => main \in {"pulling", "interrupting"}
    /\ main = "ready" => gen \in {"fresh", "yielded"}
    /\ main = "ended" => gen \in {"fresh", "over"}
    /\ gen = "over" => work # "running"
    /\ poked => work = "running" \/ gen = "closing"
    /\ poked => main \in {"interrupting", "closing"}

\* An open response has a generator that will close it, or was hit by a
\* signal at one of the points where the code loses it.
OpenInv ==
    /\ main = "pulling" /\ token => signals = "others"
    /\ poked /\ gen \in {"requesting", "closing"} => signals = "others"
    /\ gen = "fresh" => ~open /\ arrived = "none"
    /\ gen = "requesting" /\ open => arrived = "response"
    /\ gen = "over" /\ open => signals = "others"

\* What a chunk is still to yield, and the delta that a pull brought.
IsChunk(c) ==
    /\ {"text", "thinking", "parts"} \subseteq DOMAIN c
    /\ c.text \in Nat /\ c.thinking \in BOOLEAN
Pending == gen = "yielded" \/ (gen = "reading" /\ arrived = "chunk")
InFlight ==
    (CASE work = "text" -> <<Last(reply.content)>>
       [] work = "thinking" -> <<0>>
       [] OTHER -> <<>>)
    \o (IF Pending THEN DeltasOf(chunk) ELSE <<>>)

\* Every delta sent was shown or is on its way, as long as nothing interrupts
\* the request.
ShownInv ==
    /\ shown \in Seq(Nat) /\ sent.deltas \in Seq(Nat)
    /\ {"content", "calls"} \subseteq DOMAIN reply /\ reply.content \in Seq(Nat)
    /\ Pending => IsChunk(chunk)
    /\ work = "text" => reply.content # <<>>
    /\ gen \in {"reading", "yielded"} => provider # "complete"
    /\ gen = "requesting" =>
          /\ arrived # "end"
          /\ arrived = "response" => provider # "complete"
          /\ arrived = "chunk" => provider = "complete" /\ IsChunk(chunk)
    /\ work = "completed" => gen = "over"
    /\ outcome = "completed" => main \in {"closing", "ended"} /\ gen = "over"
    /\ IsPrefix(shown, sent.deltas)
    /\ main \in {"ready", "pulling"} /\ provider # "complete" =>
          sent.deltas = shown \o InFlight
    /\ outcome = "completed" /\ provider # "complete" => shown = sent.deltas
    /\ ~started => shown = <<>>

\* A request under way has reported nothing yet, and what it may report, from
\* its last chunk or from those before, is a report.
UsageInv ==
    /\ totals \in [requests : Nat, reported : Nat, input : Nat,
                   cached : Nat \cup {NoCount}]
    /\ recorded \in Seq(Reports)
    /\ main # "ended" => totals.reported < totals.requests
    /\ DOMAIN reply = DOMAIN NoReply /\ reply.usage \in Reports \cup {NoReport}
    /\ gen = "reading" /\ arrived = "chunk" =>
          chunk.usage \in Reports \cup {NoReport}
    /\ UsageExact

\* The calls that some parts make, by their keys.
KeyOf(c) == IF provider = "indexed" THEN c ELSE c - 1
CallAt(k) == IF provider = "indexed" THEN k ELSE k + 1
CallOf(c, parts) ==
    [id |-> IF parts[1].head THEN c ELSE 0,
     name |-> IF parts[1].head THEN <<c>> ELSE <<>>,
     arguments |-> Arguments(c, parts)]
Assembled(parts) ==
    LET Mine(c) == Selected(parts, PartsOf(c))
        keys == {KeyOf(c) : c \in {d \in Calls : Mine(d) # <<>>}}
    IN  [k \in keys |-> CallOf(CallAt(k), Mine(CallAt(k)))]

\* The request may still complete; it does, with calls that all have a head.
MayComplete ==
    \/ gen \in {"fresh", "requesting", "reading", "yielded"}
    \/ gen = "closing" /\ raising = "none"
    \/ "completed" \in {work, outcome}
AllHeaded == \A c \in Calls : SentOf(c) # <<>> => SentOf(c)[1].head

\* A chunk that came; one of which something is still to be added to the reply.
Incoming == gen \in {"requesting", "reading"} /\ arrived = "chunk"
Held == gen = "yielded" \/ Incoming

Fragments == [call : Calls, index : Calls, head : BOOLEAN, argument : Nat]

\* The reply, with the rest of the chunk at hand, is what was sent.
ReplyWhole ==
    /\ Selected(sent.deltas, Nat \ {0}) =
         reply.content \o (IF Held THEN TextOf(chunk) ELSE <<>>)
    /\ Assembled(sent.parts) =
         AddParts(reply.calls, IF Held THEN chunk.parts ELSE <<>>)
    /\ sent.usage = IF Incoming THEN UsageOf(chunk) ELSE reply.usage
ReplyInv ==
    /\ sent.parts \in Seq(Fragments)
    /\ provider # "indexed" => AllHeaded
    /\ gen \in {"fresh", "requesting"} => reply = NoReply
    /\ gen = "requesting" /\ Incoming => chunk.usage = NoReport /\ sent.finished
    /\ reply.finished \/ (Incoming /\ chunk.finished) => sent.finished
    /\ MayComplete => ReplyWhole
    /\ "completed" \in {work, outcome} => sent.finished /\ AllHeaded

IInv == PullInv /\ OpenInv /\ ShownInv /\ UsageInv /\ ReplyInv
=================================================================================
