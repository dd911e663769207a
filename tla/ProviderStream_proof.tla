------------------------ MODULE ProviderStream_proof ------------------------
(***************************************************************************)
(* Proofs about ProviderStream, for any usage reports and any number of    *)
(* requests, chunks and cancellations: which responses are closed, that    *)
(* the deltas shown are those that were sent, that the totals are the sums *)
(* of what was reported, and that a completed reply is what was sent, with *)
(* its two calls cut and interleaved in any way.                           *)
(***************************************************************************)
EXTENDS ProviderStream, Aggregates_proof, SequenceTheorems, TLAPS

-----------------------------------------------------------------------------
(* The pulls, the generator and its response.                              *)

FlowInv == PullInv /\ OpenInv

\* What the generator sees of an error.
LEMMA ErrorsNormalized == \A raw \in Raised : Normalize(raw) \in Errors
  BY DEF Raised, Normalize, Errors

\* Steps of the request.
LEMMA FlowRequest ==
    ASSUME FlowInv, BeginRequest \/ RequestStep
    PROVE  FlowInv'
<1> USE DEF FlowInv, PullInv, OpenInv, Errors
<1>1. CASE BeginRequest
  BY <1>1 DEF BeginRequest
<1>2. CASE Pull
  BY <1>2 DEF Pull, runVars
<1>3. CASE TakeEvent
  <2>1. /\ main = "pulling" /\ work \notin {"none", "running"} /\ work' = "none"
        /\ \/ work \in {"text", "thinking"} /\ main' = "ready"
           \/ main' = "closing"
        /\ UNCHANGED <<token, signals, poked, gen, raising, arrived, open>>
    BY <1>3 DEF TakeEvent
  <2> QED
    BY <2>1
<1>4. CASE NoticeAbort
  BY <1>4 DEF NoticeAbort, runVars
<1>5. CASE Interrupted
  BY <1>5 DEF Interrupted, runVars
<1>6. CASE CloseGenerator
  BY <1>6 DEF CloseGenerator, Closes, runVars, mainVars
<1>7. CASE EndRequest
  <2>1. /\ main = "closing" /\ gen \notin {"closing", "yielded"}
        /\ main' = "ended"
        /\ UNCHANGED <<token, signals, work, poked, gen, raising, arrived, open>>
    BY <1>7 DEF EndRequest, Closes, genVars
  <2> QED
    BY <2>1
<1> QED
  BY <1>1, <1>2, <1>3, <1>4, <1>5, <1>6, <1>7 DEF RequestStep

\* Steps of the generator.
LEMMA FlowGenerator ==
    ASSUME FlowInv, GeneratorStep
    PROVE  FlowInv'
<1> USE DEF FlowInv, PullInv, OpenInv, Errors, Ends, runVars, mainVars
<1>1. CASE StartGenerator
  BY <1>1 DEF StartGenerator
<1>2. CASE NeverRan
  BY <1>2 DEF NeverRan
<1>3. CASE TakeAnswer
  BY <1>3 DEF TakeAnswer, ReadOn, Leave
<1>4. CASE TakeChunk
  <2>1. /\ work = "running" /\ gen = "reading" /\ ~poked /\ arrived' = "none"
        /\ UNCHANGED <<token, signals, main, poked, open>>
        /\ \/ gen' = "yielded" /\ work' \in {"text", "thinking"}
              /\ raising' = raising
           \/ gen' = "reading" /\ work' = work /\ raising' = raising
           \/ /\ gen' = "closing" /\ work' = work
              /\ raising' \in {"none", "aborted"} \cup Errors
    <3>1. CASE arrived = "chunk"
      BY <1>4, <3>1 DEF TakeChunk, Produce, ReadOn, Leave
    <3>2. CASE arrived = "end"
      BY <1>4, <3>2 DEF TakeChunk, Leave
    <3>3. CASE arrived \notin {"chunk", "end"}
      <4>1. arrived \notin {"none", "response", "chunk", "end"}
        BY <1>4, <3>3 DEF TakeChunk
      <4>2. arrived \in Errors
        BY <4>1
      <4> QED
        BY <1>4, <3>3, <4>2 DEF TakeChunk, Leave
    <3> QED
      BY <3>1, <3>2, <3>3
  <2> QED
    BY <2>1
<1>5. CASE Resume
  BY <1>5 DEF Resume, Produce, ReadOn, Leave
<1>6. CASE ThrowCancelled
  BY <1>6 DEF ThrowCancelled, Leave
<1>7. CASE CloseResponse
  BY <1>7 DEF CloseResponse
<1>8. CASE InterruptClose
  BY <1>8 DEF InterruptClose
<1> QED
  BY <1>1, <1>2, <1>3, <1>4, <1>5, <1>6, <1>7, <1>8 DEF GeneratorStep

\* The provider, and the signals.
LEMMA FlowOthers ==
    ASSUME FlowInv, Answer \/ Deliver \/ Abort \/ CancelTask \/ UNCHANGED vars
    PROVE  FlowInv'
<1> USE DEF FlowInv, PullInv, OpenInv, runVars, mainVars, genVars
<1>1. CASE Answer
  <2>1. /\ gen = "requesting" /\ arrived = "none"
        /\ UNCHANGED <<token, signals, main, work, poked, gen, raising>>
        /\ \/ arrived' = "response" /\ open' = TRUE
           \/ arrived' \in {"chunk"} \cup Errors /\ open' = open
    BY <1>1, ErrorsNormalized DEF Answer, Send, Fails
  <2> QED
    BY <2>1 DEF Errors
<1>2. CASE Deliver
  BY <1>2, ErrorsNormalized DEF Deliver, Send, Fails, Errors
<1>3. CASE Abort
  BY <1>3 DEF Abort, Signal
<1>4. CASE CancelTask
  BY <1>4, ZenonT(60) DEF CancelTask, Signal, Passes
<1>5. CASE UNCHANGED vars
  BY <1>5 DEF vars
<1> QED
  BY <1>1, <1>2, <1>3, <1>4, <1>5

\* A pull or a close of the generator is waited for, and an open response has
\* a generator that will close it unless signals hit it where it is lost.
THEOREM FlowInvariant == Spec => []FlowInv
<1>1. Init => FlowInv
  BY DEF Init, FlowInv, PullInv, OpenInv
<1>2. FlowInv /\ [Next]_vars => FlowInv'
  BY FlowRequest, FlowGenerator, FlowOthers DEF Next
<1> QED
  BY <1>1, <1>2, PTL DEF Spec

\* When a request ends its response is closed, unless two signals met or one
\* came while the request or a close was waited for, or an abort during a pull
\* (_request_model's aclose, CancellationToken.run, the adapter's finally).
THEOREM ClosesResponse == Spec => []ResponseReleased
<1>1. FlowInv => ResponseReleased
  BY DEF FlowInv, PullInv, OpenInv, ResponseReleased
<1> QED
  BY <1>1, FlowInvariant, PTL

-----------------------------------------------------------------------------
(* The deltas.                                                             *)

\* What the provider may send is a chunk.
LEMMA ChunksSent ==
    ASSUME sent.deltas \in Seq(Nat), NEW c \in Chunks \cup Messages
    PROVE  IsChunk(c)
<1>1. NextText \in Nat
  BY DEF NextText
<1>2. ASSUME NEW t \in Nat, NEW th \in BOOLEAN, NEW ps, NEW f, NEW u,
             c = [text |-> t, thinking |-> th, parts |-> ps,
                  finished |-> f, usage |-> u]
      PROVE  IsChunk(c)
  BY <1>2 DEF IsChunk
<1>3. CASE c \in Messages
  <2>1. PICK t \in Texts, ps \in PartLists \cup {<<>>} :
           c = [text |-> t, thinking |-> FALSE, parts |-> ps,
                finished |-> TRUE, usage |-> NoReport]
    BY <1>3 DEF Messages, Chunk
  <2>2. t \in Nat /\ FALSE \in BOOLEAN
    BY <1>1 DEF Texts
  <2> QED
    BY <1>2, <2>1, <2>2
<1>4. CASE c \in Chunks
  <2>1. PICK t \in {0, NextText}, ps \in PartLists \cup {<<>>},
             f \in BOOLEAN, u \in Reports \cup {NoReport} :
           \/ c = [text |-> t, thinking |-> FALSE, parts |-> ps,
                   finished |-> f, usage |-> u]
           \/ c = [text |-> t, thinking |-> TRUE, parts |-> ps,
                   finished |-> f, usage |-> u]
    <3> DEFINE A == {Chunk(NextText, th, <<>>, FALSE, NoReport) : th \in BOOLEAN}
               B == {Chunk(0, TRUE, <<>>, FALSE, NoReport)}
               C == {Chunk(0, FALSE, ps, FALSE, NoReport) : ps \in PartLists}
               D == {Chunk(NextText, FALSE, ps, TRUE, NoReport) :
                       ps \in PartLists \cup {<<>>}}
               E == {Chunk(0, FALSE, <<>>, f, u) : f \in BOOLEAN, u \in Reports}
    <3>1. CASE c \in A
      BY <3>1 DEF Chunk
    <3>2. CASE c \in B
      BY <3>2 DEF Chunk
    <3>3. CASE c \in C
      BY <3>3 DEF Chunk
    <3>4. CASE c \in D
      BY <3>4 DEF Chunk
    <3>5. CASE c \in E
      BY <3>5 DEF Chunk
    <3>6. Chunks = A \cup B \cup C \cup D \cup E
      BY DEF Chunks
    <3> HIDE DEF A, B, C, D, E
    <3> QED
      BY <1>4, <3>1, <3>2, <3>3, <3>4, <3>5, <3>6
  <2>2. t \in Nat /\ TRUE \in BOOLEAN /\ FALSE \in BOOLEAN
    BY <1>1
  <2> QED
    BY <1>2, <2>1, <2>2
<1> QED
  BY <1>3, <1>4

\* The deltas of a chunk: its text, then its reasoning.
LEMMA ChunkDeltas ==
    ASSUME NEW c, IsChunk(c)
    PROVE  /\ DeltasOf(c) \in Seq(Nat) /\ TextOf(c) \in Seq(Nat)
           /\ c.text # 0 => /\ IsChunk(AfterText(c))
                            /\ DeltasOf(c) = <<c.text>> \o DeltasOf(AfterText(c))
           /\ c.text = 0 /\ c.thinking =>
                 /\ IsChunk([c EXCEPT !.thinking = FALSE])
                 /\ DeltasOf(c) = <<0>> \o DeltasOf([c EXCEPT !.thinking = FALSE])
           /\ c.text = 0 /\ ~c.thinking => DeltasOf(c) = <<>>
<1>1. DeltasOf(c) \in Seq(Nat) /\ TextOf(c) \in Seq(Nat)
  BY DEF IsChunk, DeltasOf, TextOf
<1>2. ASSUME c.text # 0
      PROVE  /\ IsChunk(AfterText(c))
             /\ DeltasOf(c) = <<c.text>> \o DeltasOf(AfterText(c))
  <2> DEFINE d == AfterText(c)
  <2>1. IsChunk(d) /\ d.text = 0 /\ d.thinking = c.thinking
    BY DEF IsChunk, AfterText
  <2>2. DeltasOf(d) = IF c.thinking THEN <<0>> ELSE <<>>
    BY <2>1 DEF DeltasOf, TextOf
  <2>3. DeltasOf(c) = <<c.text>> \o (IF c.thinking THEN <<0>> ELSE <<>>)
    BY <1>2 DEF DeltasOf, TextOf
  <2> QED
    BY <2>1, <2>2, <2>3
<1>3. ASSUME c.text = 0, c.thinking
      PROVE  /\ IsChunk([c EXCEPT !.thinking = FALSE])
             /\ DeltasOf(c) = <<0>> \o DeltasOf([c EXCEPT !.thinking = FALSE])
  <2> DEFINE d == [c EXCEPT !.thinking = FALSE]
  <2>1. IsChunk(d) /\ d.text = 0 /\ ~d.thinking
    BY <1>3 DEF IsChunk
  <2>2. DeltasOf(d) = <<>>
    BY <2>1 DEF DeltasOf, TextOf
  <2>3. DeltasOf(c) = <<0>>
    BY <1>3 DEF DeltasOf, TextOf
  <2>4. <<0>> \o <<>> = <<0>>
    OBVIOUS
  <2> HIDE DEF d
  <2>5. DeltasOf(c) = <<0>> \o DeltasOf(d)
    BY <2>2, <2>3, <2>4
  <2> QED
    BY <2>1, <2>5 DEF d
<1>4. ASSUME c.text = 0, ~c.thinking
      PROVE  DeltasOf(c) = <<>>
  BY <1>4 DEF DeltasOf, TextOf
<1> QED
  BY <1>1, <1>2, <1>3, <1>4

\* A prefix of a sequence stays one when both sequences go on alike.
LEMMA PrefixGrows ==
    ASSUME NEW S, NEW s \in Seq(S), NEW t \in Seq(S), NEW u \in Seq(S)
    PROVE  /\ IsPrefix(s, s \o u)
           /\ IsPrefix(s, t) => IsPrefix(s, t \o u)
<1>1. /\ s \o u \in Seq(S) /\ Len(s \o u) = Len(s) + Len(u)
      /\ t \o u \in Seq(S) /\ Len(t \o u) = Len(t) + Len(u)
      /\ Len(s) \in Nat /\ Len(t) \in Nat /\ Len(u) \in Nat
  BY ConcatProperties
<1>2. SubSeq(s, 1, Len(s)) = SubSeq(s \o u, 1, Len(s))
  BY <1>1
<1>3. ASSUME IsPrefix(s, t)
      PROVE  SubSeq(s, 1, Len(s)) = SubSeq(t \o u, 1, Len(s))
  <2>1. Len(s) <= Len(t) /\ SubSeq(s, 1, Len(s)) = SubSeq(t, 1, Len(s))
    BY <1>3 DEF IsPrefix
  <2>2. SubSeq(t, 1, Len(s)) = SubSeq(t \o u, 1, Len(s))
    BY <1>1, <2>1
  <2> QED
    BY <2>1, <2>2
<1> QED
  BY <1>1, <1>2, <1>3 DEF IsPrefix

\* A step that brings, shows and drops no delta.
Silent ==
    /\ UNCHANGED <<shown, sent, started, reply, provider, chunk>>
    /\ Pending' => Pending
    /\ main' \in {"ready", "pulling"} /\ provider # "complete" =>
          main \in {"ready", "pulling"} /\ InFlight' = InFlight
    /\ work' = "text" => work = "text"
    /\ gen' \in {"reading", "yielded"} =>
          gen \in {"reading", "yielded"} \/ provider # "complete"
    /\ gen' = "requesting" =>
          \/ arrived' \notin {"response", "chunk", "end"}
          \/ arrived' = "response" /\ provider # "complete"
          \/ gen = "requesting" /\ arrived' = arrived
    /\ work' = "completed" => gen' = "over"
    /\ outcome' = "completed" =>
          outcome = "completed" /\ main' \in {"closing", "ended"} /\ gen' = "over"

\* Such a step leaves what is known of the deltas.
LEMMA SilentStep ==
    ASSUME FlowInv, ShownInv, Silent
    PROVE  ShownInv'
<1> USE DEF Silent
<1>1. /\ (shown \in Seq(Nat))' /\ (sent.deltas \in Seq(Nat))'
      /\ ({"content", "calls"} \subseteq DOMAIN reply)'
      /\ (reply.content \in Seq(Nat))'
      /\ (IsPrefix(shown, sent.deltas))'
      /\ (~started => shown = <<>>)'
  BY DEF ShownInv
<1>2. (Pending => IsChunk(chunk))'
  BY DEF ShownInv
<1>3. (work = "text" => reply.content # <<>>)'
  BY DEF ShownInv
<1>4. (gen = "requesting" =>
          /\ arrived # "end"
          /\ arrived = "response" => provider # "complete"
          /\ arrived = "chunk" => provider = "complete" /\ IsChunk(chunk))'
  BY DEF ShownInv
<1>8. (gen \in {"reading", "yielded"} => provider # "complete")'
  BY DEF ShownInv
<1>5. /\ (work = "completed" => gen = "over")'
      /\ (outcome = "completed" => main \in {"closing", "ended"} /\ gen = "over")'
  OBVIOUS
<1>6. (main \in {"ready", "pulling"} /\ provider # "complete" =>
          sent.deltas = shown \o InFlight)'
  BY DEF ShownInv
<1>7. (outcome = "completed" /\ provider # "complete" => shown = sent.deltas)'
  BY DEF ShownInv
<1> QED
  BY <1>1, <1>2, <1>3, <1>4, <1>5, <1>6, <1>7, <1>8 DEF ShownInv

\* The steps of the request but for its deltas, and the signals.
LEMMA SilentRequest ==
    ASSUME FlowInv, ShownInv,
           \/ Pull \/ NoticeAbort \/ Interrupted \/ CloseGenerator \/ EndRequest
           \/ Abort \/ CancelTask
    PROVE  ShownInv'
<1> USE DEF runVars, mainVars, genVars
<1>1. CASE Pull
  <2>1. /\ UNCHANGED <<shown, sent, started, reply, provider, chunk, gen, arrived>>
        /\ main = "ready" /\ work = "none" /\ work' \in {"none", "running"}
        /\ \/ outcome' = outcome /\ main' = "pulling"
           \/ outcome' = "aborted" /\ main' = "closing"
    BY <1>1 DEF Pull, FlowInv, PullInv
  <2>2. Pending' = Pending /\ InFlight' = InFlight
    BY <2>1 DEF Pending, InFlight
  <2>3. Silent
    BY <2>1, <2>2 DEF Silent, ShownInv
  <2> QED
    BY <2>3, SilentStep
<1>2. CASE NoticeAbort \/ Interrupted \/ CloseGenerator \/ EndRequest
  <2>1. /\ UNCHANGED <<shown, sent, started, reply, provider, chunk, arrived>>
        /\ gen' \in {gen, "closing"} /\ work' \in {work, "none"}
        /\ main' \in {"interrupting", "closing", "ended"}
    BY <1>2 DEF NoticeAbort, Interrupted, CloseGenerator, EndRequest
  <2>2. Pending' => Pending
    BY <2>1 DEF Pending
  <2>3. /\ work' = "completed" => gen' = "over"
        /\ outcome' = "completed" =>
              /\ outcome = "completed" /\ main' \in {"closing", "ended"}
              /\ gen' = "over"
    <3>1. /\ work = "completed" => gen = "over"
          /\ outcome = "completed" => main \in {"closing", "ended"} /\ gen = "over"
      BY DEF ShownInv
    <3>2. CASE NoticeAbort
      BY <3>1, <3>2 DEF NoticeAbort
    <3>3. CASE Interrupted
      BY <3>1, <3>3 DEF Interrupted
    <3>4. CASE CloseGenerator
      BY <3>1, <3>4 DEF CloseGenerator, Closes
    <3>5. CASE EndRequest
      BY <3>1, <3>5 DEF EndRequest
    <3> QED
      BY <1>2, <3>2, <3>3, <3>4, <3>5
  <2>4. Silent
    BY <2>1, <2>2, <2>3 DEF Silent
  <2> QED
    BY <2>4, SilentStep
<1>3. CASE Abort
  <2>1. /\ UNCHANGED <<shown, sent, started, reply, provider, chunk, gen, arrived,
                       work, main, outcome>>
    BY <1>3 DEF Abort
  <2>2. Pending' = Pending /\ InFlight' = InFlight
    BY <2>1 DEF Pending, InFlight
  <2>3. Silent
    BY <2>1, <2>2 DEF Silent, ShownInv
  <2> QED
    BY <2>3, SilentStep
<1>4. CASE CancelTask
  <2>1. /\ UNCHANGED <<shown, sent, started, reply, provider, chunk, gen, arrived,
                       work>>
        /\ outcome' = "cancelled" /\ main' \in {"interrupting", "closing"}
    BY <1>4 DEF CancelTask
  <2>2. Pending' = Pending
    BY <2>1 DEF Pending
  <2>3. Silent
    BY <2>1, <2>2 DEF Silent, ShownInv
  <2> QED
    BY <2>3, SilentStep
<1> QED
  BY <1>1, <1>2, <1>3, <1>4

\* The steps of the generator that work on no chunk.
LEMMA SilentGenerator ==
    ASSUME FlowInv, ShownInv,
           \/ StartGenerator \/ NeverRan \/ ThrowCancelled
           \/ CloseResponse \/ InterruptClose
    PROVE  ShownInv'
<1> USE DEF runVars, mainVars, Ends
<1>1. CASE StartGenerator
  <2>1. /\ UNCHANGED <<shown, sent, started, reply, provider, chunk, arrived,
                       main, outcome>>
        /\ gen = "fresh" /\ arrived = "none" /\ work = "running"
        /\ \/ gen' = "over" /\ work' = "aborted"
           \/ gen' = "requesting" /\ work' = "running"
    BY <1>1 DEF StartGenerator, FlowInv, OpenInv
  <2>2. ~Pending /\ ~Pending'
    BY <2>1 DEF Pending
  <2>3. InFlight = <<>> /\ InFlight' = <<>>
    BY <2>1, <2>2 DEF InFlight
  <2>4. Silent
    BY <2>1, <2>2, <2>3 DEF Silent, ShownInv
  <2> QED
    BY <2>4, SilentStep
<1>2. CASE NeverRan \/ ThrowCancelled \/ InterruptClose
  <2>1. /\ UNCHANGED <<shown, sent, started, reply, provider, chunk, arrived,
                       main, outcome>>
        /\ poked
        /\ gen' \in {gen, "over", "closing"} /\ gen' # "requesting"
        /\ work' \in {work, "cancelled"}
        /\ gen' = gen \/ gen \in {"requesting", "reading", "closing"}
        /\ gen' = gen => work' # work
    BY <1>2 DEF NeverRan, ThrowCancelled, InterruptClose, Leave
  <2>2. Pending' => Pending
    BY <2>1 DEF Pending
  <2>3. main \in {"interrupting", "closing"}
    BY <2>1 DEF FlowInv, PullInv
  <2>4. Silent
    BY <2>1, <2>2, <2>3 DEF Silent, ShownInv
  <2> QED
    BY <2>4, SilentStep
<1>3. CASE CloseResponse
  <2>1. /\ UNCHANGED <<shown, sent, started, reply, provider, chunk, arrived,
                       main, outcome>>
        /\ gen = "closing" /\ gen' = "over"
        /\ work' = work \/ work' \notin {"text", "thinking"}
    <3>1. CASE work = "running"
      <4>1. work' \in {raising, "completed", "provider"} \ {"none"}
        BY <1>3, <3>1 DEF CloseResponse
      <4>2. raising \notin {"text", "thinking"}
        BY DEF FlowInv, PullInv, Errors
      <4> QED
        BY <1>3, <4>1, <4>2 DEF CloseResponse
    <3>2. CASE work # "running"
      BY <1>3, <3>2 DEF CloseResponse
    <3> QED
      BY <3>1, <3>2
  <2>2. ~Pending /\ ~Pending' /\ work \notin {"text", "thinking"}
    BY <2>1 DEF Pending, FlowInv, PullInv
  <2>3. InFlight = <<>> /\ InFlight' = <<>>
    BY <2>1, <2>2 DEF InFlight
  <2>4. Silent
    BY <2>1, <2>2, <2>3 DEF Silent, ShownInv
  <2> QED
    BY <2>4, SilentStep
<1> QED
  BY <1>1, <1>2, <1>3

\* Work on a chunk c, of which every delta before it was shown.
LEMMA ProduceStep ==
    ASSUME FlowInv, ShownInv, NEW c, NEW r,
           Produce(c, r), IsChunk(c),
           {"content", "calls"} \subseteq DOMAIN r, r.content \in Seq(Nat),
           UNCHANGED <<provider, main, outcome, started, shown, sent>>,
           work = "running", gen \in {"reading", "yielded"}, arrived' = "none",
           main = "pulling" /\ provider # "complete" =>
              sent.deltas = shown \o DeltasOf(c)
    PROVE  ShownInv'
<1>0. /\ main # "ready" /\ outcome # "completed" /\ provider # "complete"
      /\ shown \in Seq(Nat) /\ sent.deltas \in Seq(Nat)
      /\ IsPrefix(shown, sent.deltas)
      /\ ~started => shown = <<>>
  BY DEF FlowInv, PullInv, ShownInv
<1>1. /\ DeltasOf(c) \in Seq(Nat)
      /\ c.text # 0 => /\ IsChunk(AfterText(c))
                       /\ DeltasOf(c) = <<c.text>> \o DeltasOf(AfterText(c))
      /\ c.text = 0 /\ c.thinking =>
            /\ IsChunk([c EXCEPT !.thinking = FALSE])
            /\ DeltasOf(c) = <<0>> \o DeltasOf([c EXCEPT !.thinking = FALSE])
      /\ c.text = 0 /\ ~c.thinking => DeltasOf(c) = <<>>
  BY ChunkDeltas
<1>2. CASE c.text # 0
  <2>1. /\ reply' = [r EXCEPT !.content = Append(@, c.text)]
        /\ chunk' = AfterText(c) /\ gen' = "yielded" /\ work' = "text"
    BY <1>2 DEF Produce, Ends
  <2>2. /\ {"content", "calls"} \subseteq DOMAIN reply'
        /\ reply'.content = Append(r.content, c.text)
    BY <2>1
  <2>3. /\ reply'.content \in Seq(Nat) /\ reply'.content # <<>>
        /\ Last(reply'.content) = c.text
    BY <2>2 DEF Last, IsChunk
  <2>4. InFlight' = DeltasOf(c)
    <3>1. Pending'
      BY <2>1 DEF Pending
    <3>2. InFlight' = <<Last(reply'.content)>> \o DeltasOf(chunk)'
      BY <2>1, <3>1 DEF InFlight
    <3>3. DeltasOf(chunk)' = DeltasOf(AfterText(c))
      BY <2>1 DEF DeltasOf, TextOf
    <3> QED
      BY <1>1, <1>2, <2>3, <3>2, <3>3
  <2>5. IsChunk(chunk)'
    BY <1>1, <1>2, <2>1 DEF IsChunk
  <2> QED
    BY <1>0, <2>1, <2>2, <2>3, <2>4, <2>5 DEF ShownInv
<1>3. CASE c.text = 0 /\ c.thinking
  <2>1. /\ reply' = r /\ chunk' = [c EXCEPT !.thinking = FALSE]
        /\ gen' = "yielded" /\ work' = "thinking"
    BY <1>3 DEF Produce, Ends
  <2>2. InFlight' = DeltasOf(c)
    <3>1. Pending'
      BY <2>1 DEF Pending
    <3>2. InFlight' = <<0>> \o DeltasOf(chunk)'
      BY <2>1, <3>1 DEF InFlight
    <3>3. DeltasOf(chunk)' = DeltasOf([c EXCEPT !.thinking = FALSE])
      BY <2>1 DEF DeltasOf, TextOf
    <3> QED
      BY <1>1, <1>3, <3>2, <3>3
  <2>3. IsChunk(chunk)'
    BY <1>1, <1>3, <2>1 DEF IsChunk
  <2> QED
    BY <1>0, <2>1, <2>2, <2>3 DEF ShownInv
<1>4. CASE c.text = 0 /\ ~c.thinking
  <2>1. /\ reply' = [r EXCEPT !.calls = AddParts(@, c.parts)]
        /\ gen' \in {"reading", "closing"} /\ work' = work
    BY <1>4 DEF Produce, ReadOn, Leave
  <2>2. /\ {"content", "calls"} \subseteq DOMAIN reply'
        /\ reply'.content = r.content
    BY <2>1
  <2>3. ~Pending'
    BY <2>1 DEF Pending
  <2>4. InFlight' = DeltasOf(c)
    BY <1>1, <1>4, <2>1, <2>3 DEF InFlight
  <2> QED
    BY <1>0, <2>1, <2>2, <2>3, <2>4 DEF ShownInv
<1> QED
  BY <1>2, <1>3, <1>4 DEF IsChunk

\* A chunk is read, or a pull goes on with the rest of one.
LEMMA ChunkSteps ==
    ASSUME FlowInv, ShownInv,
           Resume \/ (TakeChunk /\ arrived = "chunk")
    PROVE  ShownInv'
<1>1. /\ work = "running" /\ gen \in {"reading", "yielded"} /\ Pending
      /\ UNCHANGED <<provider, main, outcome, started, shown, sent>>
      /\ arrived' = "none"
  BY DEF Resume, TakeChunk, runVars, mainVars, Pending, FlowInv, PullInv
<1>2. IsChunk(chunk)
  BY <1>1 DEF ShownInv
<1>3. ASSUME main = "pulling", provider # "complete"
      PROVE  sent.deltas = shown \o DeltasOf(chunk)
  <2>1. InFlight = <<>> \o DeltasOf(chunk)
    BY <1>1 DEF InFlight
  <2>2. InFlight = DeltasOf(chunk)
    BY <1>2, <2>1, ChunkDeltas, ConcatEmptySeq
  <2> QED
    BY <1>3, <2>2 DEF ShownInv
<1>4. CASE Resume
  <2>1. Produce(chunk, reply)
    BY <1>4 DEF Resume
  <2>2. {"content", "calls"} \subseteq DOMAIN reply /\ reply.content \in Seq(Nat)
    BY DEF ShownInv
  <2> QED
    BY <1>1, <1>2, <1>3, <2>1, <2>2, ProduceStep
<1>5. CASE TakeChunk /\ arrived = "chunk"
  <2> DEFINE r == [reply EXCEPT !.usage = UsageOf(chunk),
                                !.finished = @ \/ chunk.finished]
  <2>1. Produce(chunk, r)
    BY <1>5 DEF TakeChunk
  <2>2. {"content", "calls"} \subseteq DOMAIN r /\ r.content \in Seq(Nat)
    BY DEF ShownInv
  <2> HIDE DEF r
  <2> QED
    BY <1>1, <1>2, <1>3, <2>1, <2>2, ProduceStep
<1> QED
  BY <1>4, <1>5

\* The provider answers.
LEMMA ProviderSteps ==
    ASSUME FlowInv, ShownInv, Answer \/ Deliver
    PROVE  ShownInv'
<1> USE DEF runVars, mainVars
<1>0. /\ shown \in Seq(Nat) /\ sent.deltas \in Seq(Nat)
      /\ IsPrefix(shown, sent.deltas)
  BY DEF ShownInv
<1>1. ASSUME NEW c, IsChunk(c), Send(c)
      PROVE  /\ sent'.deltas = sent.deltas \o DeltasOf(c)
             /\ sent'.deltas \in Seq(Nat)
             /\ IsPrefix(shown, sent'.deltas)
             /\ chunk' = c /\ arrived' = "chunk"
  BY <1>0, <1>1, ChunkDeltas, PrefixGrows, ConcatProperties DEF Send
<1>2. CASE Answer /\ arrived' # "chunk"
  <2>1. /\ UNCHANGED <<shown, sent, started, reply, provider, chunk, main, outcome,
                       work, gen>>
        /\ gen = "requesting" /\ arrived = "none"
        /\ \/ arrived' = "response" /\ provider # "complete"
           \/ arrived' \in Errors
    BY <1>2, ErrorsNormalized DEF Answer, Send, Fails
  <2>2. work = "running" /\ ~Pending /\ ~Pending'
    BY <2>1 DEF Pending, FlowInv, PullInv
  <2>3. InFlight' = InFlight
    BY <2>1, <2>2 DEF InFlight
  <2>4. Silent
    BY <2>1, <2>2, <2>3 DEF Silent, ShownInv, Errors
  <2> QED
    BY <2>4, SilentStep
<1>3. CASE Answer /\ arrived' = "chunk"
  <2>1. PICK m \in Messages : Send(m)
    BY <1>3, ErrorsNormalized DEF Answer, Fails, Errors
  <2>2. /\ provider = "complete" /\ gen = "requesting"
        /\ UNCHANGED <<shown, started, reply, provider, main, outcome, work, gen>>
    BY <1>3, ErrorsNormalized DEF Answer, Fails, Errors
  <2>3. IsChunk(m)
    BY <1>0, ChunksSent
  <2>4. /\ sent'.deltas \in Seq(Nat) /\ IsPrefix(shown, sent'.deltas)
        /\ chunk' = m
    BY <1>1, <2>1, <2>3
  <2>5. IsChunk(chunk)' /\ ~Pending'
    BY <2>2, <2>3, <2>4 DEF IsChunk, Pending
  <2> QED
    BY <1>3, <2>2, <2>4, <2>5 DEF ShownInv
<1>4. CASE Deliver /\ arrived' # "chunk"
  <2>1. /\ UNCHANGED <<shown, sent, started, reply, provider, chunk, main, outcome,
                       work, gen>>
        /\ gen = "reading" /\ arrived = "none"
    BY <1>4 DEF Deliver, Send, Fails
  <2>2. work = "running" /\ ~Pending /\ ~Pending'
    BY <1>4, <2>1 DEF Pending, FlowInv, PullInv
  <2>3. InFlight' = InFlight
    BY <2>1, <2>2 DEF InFlight
  <2>4. Silent
    BY <2>1, <2>2, <2>3 DEF Silent, ShownInv
  <2> QED
    BY <2>4, SilentStep
<1>5. CASE Deliver /\ arrived' = "chunk"
  <2>1. PICK c \in Chunks : Send(c)
    BY <1>5, ErrorsNormalized DEF Deliver, Fails, Errors
  <2>2. /\ gen = "reading" /\ arrived = "none"
        /\ UNCHANGED <<shown, started, reply, provider, main, outcome, work, gen>>
    BY <1>5 DEF Deliver
  <2>3. IsChunk(c)
    BY <1>0, ChunksSent
  <2>4. /\ sent'.deltas = sent.deltas \o DeltasOf(c)
        /\ sent'.deltas \in Seq(Nat) /\ IsPrefix(shown, sent'.deltas)
        /\ chunk' = c
    BY <1>1, <2>1, <2>3
  <2>5. IsChunk(chunk)' /\ Pending' /\ ~Pending /\ work = "running"
    BY <1>5, <2>2, <2>3, <2>4 DEF IsChunk, Pending, FlowInv, PullInv
  <2>6. InFlight = <<>>
    BY <2>5 DEF InFlight
  <2>7. InFlight' = <<>> \o DeltasOf(c)
    <3>1. DeltasOf(chunk)' = DeltasOf(c)
      BY <2>4 DEF DeltasOf, TextOf
    <3> QED
      BY <2>2, <2>5, <3>1 DEF InFlight
  <2>8. InFlight' = DeltasOf(c)
    BY <2>3, <2>7, ChunkDeltas, ConcatEmptySeq
  <2>9. ASSUME main \in {"ready", "pulling"}, provider # "complete"
        PROVE  sent.deltas = shown
    BY <1>0, <2>6, <2>9, ConcatEmptySeq DEF ShownInv
  <2>10. outcome # "completed"
    BY <2>2 DEF ShownInv
  <2> QED
    BY <1>5, <2>2, <2>4, <2>5, <2>8, <2>9, <2>10 DEF ShownInv
<1> QED
  BY <1>2, <1>3, <1>4, <1>5

\* The generator takes an answer, or the end of the stream.
LEMMA AnswerSteps ==
    ASSUME FlowInv, ShownInv,
           TakeAnswer \/ (TakeChunk /\ arrived # "chunk")
    PROVE  ShownInv'
<1> USE DEF runVars, mainVars, Ends
<1>1. CASE TakeAnswer /\ arrived # "chunk"
  <2>1. /\ UNCHANGED <<shown, sent, started, reply, provider, chunk, main, outcome>>
        /\ gen = "requesting" /\ work = "running" /\ arrived' = "none"
        /\ \/ gen' \in {"reading", "closing"} /\ arrived = "response"
              /\ work' = work
           \/ gen' = "over" /\ work' \in Errors
    <3>1. CASE arrived = "response"
      BY <1>1, <3>1 DEF TakeAnswer, ReadOn, Leave
    <3>2. CASE arrived # "response"
      <4>1. arrived \in Errors
        BY <1>1, <3>2 DEF TakeAnswer, FlowInv, PullInv, ShownInv
      <4> QED
        BY <1>1, <3>2, <4>1 DEF TakeAnswer
    <3> QED
      BY <3>1, <3>2
  <2>2. ~Pending /\ ~Pending'
    BY <2>1 DEF Pending
  <2>3. InFlight = <<>> /\ InFlight' = <<>>
    BY <2>1, <2>2 DEF InFlight, Errors
  <2>4. Silent
    BY <2>1, <2>2, <2>3 DEF Silent, ShownInv, Errors
  <2> QED
    BY <2>4, SilentStep
<1>2. CASE TakeAnswer /\ arrived = "chunk"
  <2>1. /\ UNCHANGED <<shown, sent, started, provider, main, outcome>>
        /\ gen = "requesting" /\ gen' = "over" /\ work' = "completed"
        /\ reply' = [NoReply EXCEPT !.content = TextOf(chunk),
                                    !.calls = AddParts(@, chunk.parts)]
    BY <1>2 DEF TakeAnswer
  <2>2. provider = "complete" /\ IsChunk(chunk)
    BY <1>2, <2>1 DEF ShownInv
  <2>3. /\ {"content", "calls"} \subseteq DOMAIN reply'
        /\ reply'.content \in Seq(Nat)
    BY <2>1, <2>2, ChunkDeltas DEF NoReply
  <2>4. ~Pending'
    BY <2>1 DEF Pending
  <2> QED
    BY <2>1, <2>2, <2>3, <2>4 DEF ShownInv
<1>3. CASE TakeChunk /\ arrived # "chunk"
  <2>1. /\ UNCHANGED <<shown, sent, started, reply, provider, chunk, main, outcome>>
        /\ gen = "reading" /\ work = "running" /\ arrived' = "none"
        /\ gen' = "closing" /\ work' = work
    BY <1>3 DEF TakeChunk, Leave
  <2>2. ~Pending /\ ~Pending'
    BY <1>3, <2>1 DEF Pending
  <2>3. InFlight = <<>> /\ InFlight' = <<>>
    BY <2>1, <2>2 DEF InFlight
  <2>4. Silent
    BY <2>1, <2>2, <2>3 DEF Silent, ShownInv
  <2> QED
    BY <2>4, SilentStep
<1> QED
  BY <1>1, <1>2, <1>3

\* A request begins with nothing sent and nothing shown.
LEMMA BeginShows ==
    ASSUME ShownInv, BeginRequest
    PROVE  ShownInv'
<1>1. /\ main' = "ready" /\ outcome' = "none" /\ started' = FALSE
      /\ shown' = <<>> /\ work' = "none" /\ gen' = "fresh"
      /\ reply' = NoReply /\ UNCHANGED provider
      /\ sent' = [NothingSent EXCEPT !.chunks = sent.chunks]
  BY DEF BeginRequest
<1>2. sent'.deltas = <<>>
  BY <1>1 DEF NothingSent
<1>3. {"content", "calls"} \subseteq DOMAIN reply' /\ reply'.content = <<>>
  BY <1>1 DEF NoReply
<1>4. ~Pending'
  BY <1>1 DEF Pending
<1>5. InFlight' = <<>>
  BY <1>1, <1>4 DEF InFlight
<1>6. <<>> \in Seq(Nat) /\ <<>> \o <<>> = <<>> /\ IsPrefix(<<>>, <<>>)
  BY DEF IsPrefix
<1> QED
  BY <1>1, <1>2, <1>3, <1>4, <1>5, <1>6 DEF ShownInv

\* A delta that a pull brought is shown next, and then the rest of its chunk.
LEMMA DeltaShown ==
    ASSUME NEW s \in Seq(Nat), NEW d \in Nat, NEW rest \in Seq(Nat)
    PROVE  /\ Append(s, d) \in Seq(Nat)
           /\ s \o (<<d>> \o rest) = Append(s, d) \o rest
           /\ IsPrefix(Append(s, d), Append(s, d) \o rest)
<1>1. Append(s, d) \in Seq(Nat)
  OBVIOUS
<1>2. s \o (<<d>> \o rest) = Append(s, d) \o rest
  <2>1. PICK t : t = <<d>>
    OBVIOUS
  <2>2. Append(s, d) = s \o t /\ t \in Seq(Nat)
    BY <2>1, AppendIsConcat
  <2>3. (s \o t) \o rest = s \o (t \o rest)
    BY <2>2, ConcatAssociative, SMTT(60)
  <2> QED
    BY <2>1, <2>2, <2>3
<1>3. IsPrefix(Append(s, d), Append(s, d) \o rest)
  BY <1>1, PrefixGrows
<1> QED
  BY <1>1, <1>2, <1>3

\* The request takes what a pull brought.
LEMMA EventSteps ==
    ASSUME FlowInv, ShownInv, TakeEvent
    PROVE  ShownInv'
<1>0. /\ main = "pulling" /\ work \notin {"none", "running"} /\ work' = "none"
      /\ UNCHANGED <<provider, gen, arrived, chunk, reply, sent>>
  BY DEF TakeEvent, runVars
<1>1. /\ shown \in Seq(Nat) /\ sent.deltas \in Seq(Nat)
      /\ reply.content \in Seq(Nat)
      /\ outcome # "completed"
      /\ ~started => shown = <<>>
  BY <1>0 DEF ShownInv
<1>2. ASSUME NEW d \in Nat, work \in {"text", "thinking"},
             shown' = Append(shown, d), started' = TRUE, main' = "ready",
             outcome' = outcome, InFlight = <<d>> \o DeltasOf(chunk)
      PROVE  ShownInv'
  <2>1. gen = "yielded" /\ Pending /\ Pending'
    BY <1>0, <1>2 DEF FlowInv, PullInv, Pending
  <2>2. IsChunk(chunk) /\ IsChunk(chunk)' /\ DeltasOf(chunk) \in Seq(Nat)
    <3>1. IsChunk(chunk)
      BY <2>1 DEF ShownInv
    <3> QED
      BY <1>0, <3>1, ChunkDeltas DEF IsChunk
  <2>3. provider # "complete"
    BY <2>1 DEF ShownInv
  <2>4. sent.deltas = shown \o (<<d>> \o DeltasOf(chunk))
    BY <1>0, <1>2, <2>3 DEF ShownInv
  <2>5. /\ shown' \in Seq(Nat) /\ sent'.deltas = shown' \o DeltasOf(chunk)
        /\ IsPrefix(shown', sent'.deltas)
    <3>1. Append(shown, d) \in Seq(Nat)
      BY <1>1, <1>2
    <3>2. sent.deltas = Append(shown, d) \o DeltasOf(chunk)
      BY <1>1, <1>2, <2>2, <2>4, DeltaShown
    <3>3. IsPrefix(Append(shown, d), Append(shown, d) \o DeltasOf(chunk))
      BY <1>1, <1>2, <2>2, DeltaShown
    <3>4. IsPrefix(Append(shown, d), sent.deltas)
      BY <3>2, <3>3
    <3> QED
      BY <1>0, <1>2, <3>1, <3>2, <3>4
  <2>6. InFlight' = DeltasOf(chunk)
    <3>1. DeltasOf(chunk)' = DeltasOf(chunk)
      BY <1>0 DEF DeltasOf, TextOf
    <3>2. InFlight' = <<>> \o DeltasOf(chunk)
      BY <1>0, <2>1, <3>1 DEF InFlight
    <3> QED
      BY <2>2, <3>2, ConcatEmptySeq
  <2>7. /\ (sent.deltas \in Seq(Nat))' /\ (reply.content \in Seq(Nat))'
        /\ ({"content", "calls"} \subseteq DOMAIN reply)'
    BY <1>0 DEF ShownInv
  <2> QED
    BY <1>0, <1>1, <1>2, <2>1, <2>2, <2>3, <2>5, <2>6, <2>7 DEF ShownInv
<1>3. CASE work = "text"
  <2>1. /\ shown' = Append(shown, Last(reply.content)) /\ started' = TRUE
        /\ main' = "ready" /\ outcome' = outcome
    BY <1>3 DEF TakeEvent
  <2>2. Last(reply.content) \in Nat
    BY <1>1, <1>3, SMTT(60) DEF ShownInv, Last
  <2>3. InFlight = <<Last(reply.content)>> \o DeltasOf(chunk)
    BY <1>3 DEF InFlight, Pending, FlowInv, PullInv
  <2> QED
    BY <1>2, <1>3, <2>1, <2>2, <2>3
<1>4. CASE work = "thinking"
  <2>1. /\ shown' = Append(shown, 0) /\ started' = TRUE
        /\ main' = "ready" /\ outcome' = outcome
    BY <1>4 DEF TakeEvent
  <2>2. InFlight = <<0>> \o DeltasOf(chunk)
    BY <1>4 DEF InFlight, Pending, FlowInv, PullInv
  <2> QED
    BY <1>2, <1>4, <2>1, <2>2
<1>5. CASE work \notin {"text", "thinking"}
  <2>1. /\ outcome' = work /\ main' = "closing" /\ UNCHANGED shown
        /\ started' = (started /\ (work = "overflow" => started))
    BY <1>5 DEF TakeEvent, MarksStarted
  <2>2. Pending' = Pending
    BY <1>0 DEF Pending
  <2>3. ASSUME outcome' = "completed", provider # "complete"
        PROVE  gen = "over" /\ shown = sent.deltas
    <3>1. gen = "over"
      BY <2>1, <2>3 DEF ShownInv
    <3>2. InFlight = <<>>
      BY <1>5, <3>1 DEF InFlight, Pending
    <3>3. sent.deltas = shown \o <<>>
      BY <1>0, <2>3, <3>2 DEF ShownInv
    <3> QED
      BY <1>1, <3>1, <3>3, ConcatEmptySeq
  <2>4. outcome' = "completed" => gen' = "over"
    BY <1>0, <2>1 DEF ShownInv
  <2>5. (Pending => IsChunk(chunk))'
    BY <1>0, <2>2 DEF ShownInv, IsChunk
  <2>6. (gen = "requesting" =>
            /\ arrived # "end"
            /\ arrived = "response" => provider # "complete"
            /\ arrived = "chunk" => provider = "complete" /\ IsChunk(chunk))'
    BY <1>0 DEF ShownInv, IsChunk
  <2>7. /\ (sent.deltas \in Seq(Nat))' /\ (reply.content \in Seq(Nat))'
        /\ ({"content", "calls"} \subseteq DOMAIN reply)'
        /\ (IsPrefix(shown, sent.deltas))'
        /\ (gen \in {"reading", "yielded"} => provider # "complete")'
    BY <1>0, <2>1 DEF ShownInv
  <2>8. (~started => shown = <<>>)'
    BY <1>1, <2>1
  <2> QED
    BY <1>0, <1>1, <2>1, <2>3, <2>4, <2>5, <2>6, <2>7, <2>8 DEF ShownInv
<1> QED
  BY <1>3, <1>4, <1>5

\* Every delta sent is shown or on its way while nothing interrupts the request.
THEOREM ShownInvariant == Spec => []ShownInv
<1>1. Init => ShownInv
  <2> SUFFICES ASSUME Init
               PROVE  ShownInv
    OBVIOUS
  <2>1. /\ main = "ended" /\ outcome = "none" /\ started = FALSE /\ shown = <<>>
        /\ work = "none" /\ gen = "over" /\ sent.deltas = <<>>
    BY DEF Init, NothingSent
  <2>2. {"content", "calls"} \subseteq DOMAIN reply /\ reply.content = <<>>
    BY DEF Init, NoReply
  <2>3. <<>> \in Seq(Nat) /\ IsPrefix(<<>>, <<>>) /\ ~Pending
    BY <2>1 DEF IsPrefix, Pending
  <2> QED
    BY <2>1, <2>2, <2>3 DEF ShownInv
<1>2. FlowInv /\ ShownInv /\ [Next]_vars => ShownInv'
  <2> SUFFICES ASSUME FlowInv, ShownInv, [Next]_vars
               PROVE  ShownInv'
    OBVIOUS
  <2>1. CASE UNCHANGED vars
    <3>1. /\ UNCHANGED <<shown, sent, started, reply, provider, chunk, gen,
                         arrived, work, main, outcome>>
      BY <2>1 DEF vars, runVars, mainVars, genVars
    <3>2. Pending' = Pending /\ InFlight' = InFlight
      BY <3>1 DEF Pending, InFlight, DeltasOf, TextOf
    <3>3. Silent
      BY <3>1, <3>2 DEF Silent, ShownInv
    <3> QED
      BY <3>3, SilentStep
  <2>2. CASE Next
    <3>1. CASE BeginRequest
      BY <3>1, BeginShows
    <3>2. CASE RequestStep
      BY <3>2, SilentRequest, EventSteps DEF RequestStep
    <3>3. CASE GeneratorStep
      BY <3>3, SilentGenerator, ChunkSteps, AnswerSteps DEF GeneratorStep
    <3>4. CASE Answer \/ Deliver
      BY <3>4, ProviderSteps
    <3>5. CASE Abort \/ CancelTask
      BY <3>5, SilentRequest
    <3> QED
      BY <2>2, <3>1, <3>2, <3>3, <3>4, <3>5 DEF Next
  <2> QED
    BY <2>1, <2>2
<1> QED
  BY <1>1, <1>2, FlowInvariant, PTL DEF Spec

\* The user sees what the provider sent, in order, with nothing twice or left
\* out, all of it when a streamed request completes (_request_model emits the
\* events of the adapter one by one), and nothing of a request that is retried.
THEOREM ShowsFaithfully == Spec => []ShownFaithful
<1>1. ShownInv => ShownFaithful
  BY DEF ShownInv, ShownFaithful
<1> QED
  BY <1>1, ShownInvariant, PTL

-----------------------------------------------------------------------------
(* The totals.                                                             *)

\* A report more.
LEMMA ReportAdded ==
    ASSUME UsageInv, NEW r \in Reports, totals.reported < totals.requests,
           Record(r)
    PROVE  /\ totals' \in [requests : Nat, reported : Nat, input : Nat,
                           cached : Nat \cup {NoCount}]
           /\ recorded' \in Seq(Reports)
           /\ UsageExact'
<1>1. /\ r.input \in Nat /\ r.cached \in Nat \cup {NoCount} /\ NoCount \notin Nat
      /\ r # NoReport
      /\ \A u \in Reports : u.input \in Nat /\ u.cached \in Nat \cup {NoCount}
  BY StreamAssumption
<1>2. PICK n \in Nat : n = Len(recorded)
  BY DEF UsageInv
<1>3. /\ recorded' = Append(recorded, r) /\ recorded' \in Seq(Reports)
      /\ DOMAIN recorded = 1..n /\ DOMAIN recorded' = 1..(n + 1)
      /\ Len(recorded') = n + 1
      /\ \A i \in 1..n : recorded'[i] = recorded[i] /\ recorded[i] \in Reports
      /\ recorded'[n + 1] = r
  <2>1. recorded \in Seq(Reports) /\ recorded' = Append(recorded, r)
    BY <1>1 DEF Record, UsageInv
  <2> QED
    BY <1>2, <2>1, AppendProperties, LenProperties
<1>4. /\ totals'.requests = totals.requests
      /\ totals'.reported = totals.reported + 1
      /\ totals'.input = totals.input + r.input
      /\ totals'.cached = AddOptional(totals.cached, r.cached, totals.reported)
      /\ totals.requests \in Nat /\ totals.reported \in Nat
      /\ totals.input \in Nat /\ totals.cached \in Nat \cup {NoCount}
      /\ totals' = [totals EXCEPT !.reported = totals'.reported,
                                  !.input = totals'.input,
                                  !.cached = totals'.cached]
  BY <1>1 DEF Record, UsageInv
<1>5. /\ totals.reported = n
      /\ totals.input = Total([i \in 1..n |-> recorded[i].input])
      /\ totals.cached =
           IF n = 0 \/ \E i \in 1..n : recorded[i].cached = NoCount
           THEN NoCount ELSE Total([i \in 1..n |-> recorded[i].cached])
  <2>1. recorded = <<>> <=> n = 0
    BY <1>2 DEF UsageInv
  <2>2. UsageExact
    BY DEF UsageInv
  <2> QED
    BY <1>2, <1>3, <2>1, <2>2 DEF UsageExact
<1>6. totals'.input = Total([i \in 1..(n + 1) |-> recorded'[i].input])
  <2> DEFINE v == [i \in 1..n |-> recorded[i].input]
  <2>1. v \in Seq(Nat)
    BY <1>1, <1>3
  <2>2. [i \in 1..(n + 1) |-> recorded'[i].input] = Append(v, r.input)
    BY <1>3
  <2> HIDE DEF v
  <2>3. Total(Append(v, r.input)) = Total(v) + r.input
    BY <1>1, <2>1, TotalAppend
  <2> QED
    BY <1>4, <1>5, <2>2, <2>3 DEF v
<1>7. /\ totals'.cached \in Nat \cup {NoCount}
      /\ totals'.cached =
           IF \E i \in 1..(n + 1) : recorded'[i].cached = NoCount
           THEN NoCount ELSE Total([i \in 1..(n + 1) |-> recorded'[i].cached])
  <2> DEFINE v == [i \in 1..n |-> recorded[i].cached]
             lacks == \E i \in 1..n : recorded[i].cached = NoCount
  <2>1. (\E i \in 1..(n + 1) : recorded'[i].cached = NoCount)
           <=> lacks \/ r.cached = NoCount
    BY <1>3
  <2>2. [i \in 1..(n + 1) |-> recorded'[i].cached] = Append(v, r.cached)
    BY <1>3
  <2>3. CASE lacks
    <3>1. n # 0 /\ totals.cached = NoCount
      BY <1>5, <2>3
    <3>2. totals'.cached = NoCount
      BY <1>4, <1>5, <3>1 DEF AddOptional
    <3> QED
      BY <2>1, <2>3, <3>2
  <2>4. CASE ~lacks /\ r.cached = NoCount
    <3>1. totals'.cached = NoCount
      BY <1>4, <1>5, <2>4 DEF AddOptional
    <3> QED
      BY <2>1, <2>4, <3>1
  <2>5. CASE ~lacks /\ r.cached # NoCount
    <3>1. v \in Seq(Nat)
      BY <1>1, <1>3, <2>5
    <3>2. r.cached \in Nat
      BY <1>1, <2>5
    <3> HIDE DEF v
    <3>3. Total(Append(v, r.cached)) = Total(v) + r.cached /\ Total(v) \in Nat
      BY <3>1, <3>2, TotalAppend
    <3>4. n # 0 => totals.cached = Total(v)
      BY <1>5, <2>5 DEF v
    <3>5. n = 0 => Total(v) = 0
      <4> SUFFICES ASSUME n = 0 PROVE Total(v) = 0
        OBVIOUS
      <4>1. Len(v) = 0
        BY DEF v
      <4>2. \A i \in 1..Len(v) : v[i] = 0
        BY <4>1
      <4>3. Total(v) = IF 0 = 0 THEN 0 ELSE Len(v)
        BY <3>1, <4>2, TotalOfSame
      <4> QED
        BY <4>3
    <3>6. totals'.cached = Total(v) + r.cached
      <4>1. CASE n = 0
        BY <1>4, <1>5, <3>2, <3>5, <4>1 DEF AddOptional
      <4>2. CASE n # 0
        BY <1>1, <1>4, <1>5, <3>2, <3>3, <3>4, <4>2 DEF AddOptional
      <4> QED
        BY <4>1, <4>2
    <3>7. ~ \E i \in 1..(n + 1) : recorded'[i].cached = NoCount
      BY <2>1, <2>5
    <3>8. Total([i \in 1..(n + 1) |-> recorded'[i].cached]) = Total(v) + r.cached
      BY <2>2, <3>3
    <3>9. Total(v) + r.cached \in Nat
      BY <3>2, <3>3
    <3> HIDE DEF lacks
    <3> QED
      BY <3>6, <3>7, <3>8, <3>9
  <2> QED
    BY <2>3, <2>4, <2>5
<1>8. totals' \in [requests : Nat, reported : Nat, input : Nat,
                   cached : Nat \cup {NoCount}]
  <2>1. totals'.reported \in Nat /\ totals'.input \in Nat
    BY <1>1, <1>4
  <2> QED
    BY <1>4, <1>7, <2>1 DEF UsageInv
<1>9. totals'.reported = n + 1 /\ totals'.reported <= totals'.requests
  BY <1>4, <1>5
<1>10. recorded' # <<>>
  BY <1>3
<1> QED
  BY <1>3, <1>6, <1>7, <1>8, <1>9, <1>10 DEF UsageExact

\* Steps that neither begin nor end a request leave the totals alone.
LEMMA UsageKept ==
    ASSUME UsageInv, UNCHANGED <<totals, recorded>>,
           main' # "ended" => main # "ended",
           DOMAIN reply' = DOMAIN NoReply,
           reply'.usage \in Reports \cup {NoReport},
           gen' = "reading" /\ arrived' = "chunk" =>
              chunk'.usage \in Reports \cup {NoReport}
    PROVE  UsageInv'
  BY DEF UsageInv, UsageExact

\* What a provider sends has a report or none.
LEMMA ChunkUsage == \A c \in Chunks : c.usage \in Reports \cup {NoReport}
  BY DEF Chunks, Chunk

\* Steps of the request.
LEMMA UsageRequest ==
    ASSUME FlowInv, UsageInv, BeginRequest \/ RequestStep
    PROVE  UsageInv'
<1> USE DEF runVars, mainVars, genVars
<1>1. CASE BeginRequest
  <2>1. /\ totals' = [totals EXCEPT !.requests = totals.requests + 1]
        /\ recorded' = recorded /\ reply' = NoReply /\ gen' = "fresh"
    BY <1>1 DEF BeginRequest
  <2>2. /\ totals.requests \in Nat /\ totals.reported <= totals.requests
        /\ totals.reported \in Nat
    BY DEF UsageInv, UsageExact
  <2>3. /\ totals'.requests = totals.requests + 1
        /\ totals'.reported = totals.reported
        /\ totals'.input = totals.input /\ totals'.cached = totals.cached
        /\ totals' \in [requests : Nat, reported : Nat, input : Nat,
                        cached : Nat \cup {NoCount}]
    BY <2>1, <2>2 DEF UsageInv
  <2>4. UsageExact'
    BY <2>1, <2>2, <2>3 DEF UsageInv, UsageExact
  <2>5. reply'.usage = NoReport /\ DOMAIN reply' = DOMAIN NoReply
    BY <2>1 DEF NoReply
  <2> QED
    BY <2>1, <2>2, <2>3, <2>4, <2>5 DEF UsageInv
<1>2. CASE Pull \/ NoticeAbort \/ Interrupted \/ CloseGenerator
  <2>1. /\ UNCHANGED <<totals, recorded, reply, chunk, arrived>>
        /\ main # "ended" /\ (gen' = gen \/ gen' = "closing")
    BY <1>2 DEF Pull, NoticeAbort, Interrupted, CloseGenerator
  <2> QED
    BY <2>1, UsageKept DEF UsageInv
<1>3. CASE TakeEvent
  <2>1. /\ UNCHANGED <<totals, recorded, reply, chunk, arrived, gen>>
        /\ main # "ended"
    BY <1>3 DEF TakeEvent
  <2> QED
    BY <2>1, UsageKept DEF UsageInv
<1>4. CASE EndRequest
  <2>1. /\ UNCHANGED <<reply, chunk, arrived, gen>>
        /\ main = "closing" /\ main' = "ended"
        /\ IF outcome = "completed" THEN Record(reply.usage)
           ELSE UNCHANGED <<totals, recorded>>
    BY <1>4 DEF EndRequest
  <2>2. CASE outcome = "completed" /\ reply.usage # NoReport
    <3>1. reply.usage \in Reports /\ Record(reply.usage)
          /\ totals.reported < totals.requests
      BY <2>1, <2>2 DEF UsageInv
    <3>2. /\ totals' \in [requests : Nat, reported : Nat, input : Nat,
                          cached : Nat \cup {NoCount}]
          /\ recorded' \in Seq(Reports)
          /\ UsageExact'
      BY <3>1, ReportAdded
    <3> QED
      BY <2>1, <3>2 DEF UsageInv
  <2>3. CASE ~(outcome = "completed" /\ reply.usage # NoReport)
    <3>1. UNCHANGED <<totals, recorded>>
      BY <2>1, <2>3 DEF Record
    <3> QED
      BY <2>1, <3>1, UsageKept DEF UsageInv
  <2> QED
    BY <2>2, <2>3
<1> QED
  BY <1>1, <1>2, <1>3, <1>4 DEF RequestStep

\* Work on a chunk leaves the report that the reply has.
LEMMA ProduceUsage ==
    ASSUME NEW c, NEW r, Produce(c, r), DOMAIN r = DOMAIN NoReply
    PROVE  DOMAIN reply' = DOMAIN NoReply /\ reply'.usage = r.usage
<1>1. \/ \E x : reply' = [r EXCEPT !.content = x]
      \/ reply' = r
      \/ \E x : reply' = [r EXCEPT !.calls = x]
  BY DEF Produce
<1> QED
  BY <1>1 DEF NoReply

\* Steps of the generator.
LEMMA UsageGenerator ==
    ASSUME FlowInv, UsageInv, GeneratorStep
    PROVE  UsageInv'
<1> USE DEF runVars, mainVars
<1>0. UNCHANGED <<totals, recorded, main>>
  BY DEF GeneratorStep, StartGenerator, NeverRan, TakeAnswer, TakeChunk, Resume,
         ThrowCancelled, CloseResponse, InterruptClose
<1>1. CASE StartGenerator \/ NeverRan \/ ThrowCancelled \/ CloseResponse
           \/ InterruptClose
  <2>1. UNCHANGED <<reply, chunk, arrived>> /\ (gen' = gen \/ gen' # "reading")
    BY <1>1 DEF StartGenerator, NeverRan, ThrowCancelled, CloseResponse,
                InterruptClose, Leave
  <2> QED
    BY <1>0, <2>1, UsageKept DEF UsageInv
<1>2. CASE TakeAnswer
  <2>1. /\ arrived' = "none"
        /\ \/ reply' = reply
           \/ \E x, y : reply' = [NoReply EXCEPT !.content = x, !.calls = y]
    BY <1>2 DEF TakeAnswer
  <2>2. DOMAIN reply' = DOMAIN NoReply /\ reply'.usage \in Reports \cup {NoReport}
    BY <2>1 DEF UsageInv, NoReply
  <2> QED
    BY <1>0, <2>1, <2>2, UsageKept
<1>3. CASE TakeChunk
  <2>1. /\ gen = "reading" /\ arrived' = "none"
    BY <1>3 DEF TakeChunk
  <2>2. CASE arrived = "chunk"
    <3> DEFINE r == [reply EXCEPT !.usage = UsageOf(chunk),
                                  !.finished = @ \/ chunk.finished]
    <3>1. Produce(chunk, r)
      BY <1>3, <2>2 DEF TakeChunk
    <3>2. DOMAIN r = DOMAIN NoReply /\ r.usage = UsageOf(chunk)
      BY DEF UsageInv, NoReply
    <3>3. UsageOf(chunk) \in Reports \cup {NoReport}
      BY <2>1, <2>2 DEF UsageInv, UsageOf
    <3> HIDE DEF r
    <3>4. DOMAIN reply' = DOMAIN NoReply /\ reply'.usage = r.usage
      BY <3>1, <3>2, ProduceUsage
    <3> QED
      BY <1>0, <2>1, <3>2, <3>3, <3>4, UsageKept
  <2>3. CASE arrived # "chunk"
    <3>1. reply' = reply
      BY <1>3, <2>3 DEF TakeChunk
    <3> QED
      BY <1>0, <2>1, <3>1, UsageKept DEF UsageInv
  <2> QED
    BY <2>2, <2>3
<1>4. CASE Resume
  <2>1. Produce(chunk, reply) /\ arrived' = arrived /\ gen = "yielded"
    BY <1>4 DEF Resume
  <2>2. arrived' # "chunk"
    BY <2>1 DEF FlowInv, PullInv
  <2>3. DOMAIN reply' = DOMAIN NoReply /\ reply'.usage = reply.usage
    BY <2>1, ProduceUsage DEF UsageInv
  <2> QED
    BY <1>0, <2>2, <2>3, UsageKept DEF UsageInv
<1> QED
  BY <1>1, <1>2, <1>3, <1>4 DEF GeneratorStep

\* Steps of the provider, and signals.
LEMMA UsageOthers ==
    ASSUME FlowInv, UsageInv,
           Answer \/ Deliver \/ Abort \/ CancelTask \/ UNCHANGED vars
    PROVE  UsageInv'
<1> USE DEF runVars, mainVars, genVars
<1>1. CASE Answer
  <2>1. UNCHANGED <<totals, recorded, reply, gen, main>> /\ gen = "requesting"
    BY <1>1 DEF Answer
  <2> QED
    BY <2>1, UsageKept DEF UsageInv
<1>2. CASE Deliver
  <2>1. UNCHANGED <<totals, recorded, reply, gen, main>>
    BY <1>2 DEF Deliver
  <2>2. \/ \E c \in Chunks : chunk' = c
        \/ arrived' \in {"end"} \cup Errors
    BY <1>2, ErrorsNormalized DEF Deliver, Send, Fails
  <2>3. arrived' = "chunk" => chunk'.usage \in Reports \cup {NoReport}
    BY <2>2, ChunkUsage DEF Errors
  <2> QED
    BY <2>1, <2>3, UsageKept DEF UsageInv
<1>3. CASE Abort \/ CancelTask \/ UNCHANGED vars
  <2>1. /\ UNCHANGED <<totals, recorded, reply, gen, chunk, arrived>>
        /\ main' # "ended" => main # "ended"
    BY <1>3 DEF Abort, CancelTask, vars, FlowInv, PullInv
  <2> QED
    BY <2>1, UsageKept DEF UsageInv
<1> QED
  BY <1>1, <1>2, <1>3

\* A request under way has still to report.
THEOREM UsageInvariant == Spec => []UsageInv
<1>1. Init => UsageInv
  <2> SUFFICES ASSUME Init PROVE UsageInv
    OBVIOUS
  <2>1. /\ totals = [requests |-> 0, reported |-> 0, input |-> 0,
                     cached |-> NoCount]
        /\ recorded = <<>> /\ main = "ended" /\ reply = NoReply
        /\ arrived = "none"
    BY DEF Init
  <2> DEFINE v == [i \in DOMAIN recorded |-> recorded[i].input]
  <2>2. v \in Seq(Nat) /\ Len(v) = 0
    BY <2>1
  <2> HIDE DEF v
  <2>5. \A i \in 1..Len(v) : v[i] = 0
    BY <2>2
  <2>3. Total(v) = IF 0 = 0 THEN 0 ELSE Len(v)
    BY <2>2, <2>5, TotalOfSame
  <2>4. UsageExact
    BY <2>1, <2>3 DEF UsageExact, v
  <2> QED
    BY <2>1, <2>4 DEF UsageInv, NoReply
<1>2. FlowInv /\ UsageInv /\ [Next]_vars => UsageInv'
  BY UsageRequest, UsageGenerator, UsageOthers DEF Next
<1> QED
  BY <1>1, <1>2, FlowInvariant, PTL DEF Spec

\* The totals are the sums of the reports of the completed requests, and a
\* counter that one of them lacks is unknown (UsageAccumulator).
THEOREM TotalsExact == Spec => []UsageExact
<1>1. UsageInv => UsageExact
  BY DEF UsageInv
<1> QED
  BY <1>1, UsageInvariant, PTL

-----------------------------------------------------------------------------
(* What the provider sent is what the reply says.                         *)

\* The parts of a call when one more part was sent.
LEMMA MoreParts ==
    ASSUME NEW parts \in Seq(Fragments), NEW c \in Calls, NEW p \in PartsOf(c)
    PROVE  /\ Added(parts, p) \in Seq(Fragments)
           /\ \A d \in Calls :
                /\ Selected(parts, PartsOf(d)) \in Seq(PartsOf(d))
                /\ Selected(Added(parts, p), PartsOf(d)) =
                     IF d = c THEN Added(Selected(parts, PartsOf(d)), p)
                     ELSE Selected(parts, PartsOf(d))
<1>1. p \in Fragments /\ p.call = c
  BY DEF Fragments, PartsOf
<1>2. ASSUME NEW d \in Calls
      PROVE  /\ Selected(parts, PartsOf(d)) \in Seq(PartsOf(d))
             /\ Selected(Added(parts, p), PartsOf(d)) =
                  IF d = c THEN Added(Selected(parts, PartsOf(d)), p)
                  ELSE Selected(parts, PartsOf(d))
  <2>1. PICK S : S = PartsOf(d)
    OBVIOUS
  <2>2. S \cap Fragments = S /\ (p \in S <=> d = c)
    BY <1>1, <2>1 DEF Fragments, PartsOf
  <2>3. Selected(parts, S) \in Seq(S \cap Fragments)
    BY SelectedType
  <2>4. Selected(Added(parts, p), S) =
          IF p \in S THEN Added(Selected(parts, S), p) ELSE Selected(parts, S)
    BY <1>1, SelectedAdded
  <2> QED
    BY <2>1, <2>2, <2>3, <2>4
<1>3. Added(parts, p) \in Seq(Fragments)
  BY <1>1, AppendProperties DEF Added
<1> QED
  BY <1>2, <1>3

\* The arguments of a call when one more part was sent.
LEMMA MoreArguments ==
    ASSUME NEW c \in Calls, NEW mine \in Seq(PartsOf(c)), NEW p \in PartsOf(c)
    PROVE  Arguments(c, Append(mine, p)) = Arguments(c, mine)
               \o (IF p.argument = 0 THEN <<>> ELSE <<<<p.call, p.argument>>>>)
<1> DEFINE v == [i \in DOMAIN mine |-> <<c, mine[i].argument>>]
           x == <<c, p.argument>>
           S == {c} \X (Nat \ {0})
           T == {c} \X Nat
<1>1. p.argument \in Nat /\ p.call = c
      /\ \A q \in PartsOf(c) : q.argument \in Nat
  BY DEF PartsOf
<1>2. v \in Seq(T) /\ x \in T
  <2>1. \A i \in 1..Len(mine) : mine[i] \in PartsOf(c)
    OBVIOUS
  <2>2. \A i \in 1..Len(mine) : <<c, mine[i].argument>> \in T
    BY <1>1, <2>1
  <2>3. DOMAIN mine = 1..Len(mine) /\ Len(mine) \in Nat
    OBVIOUS
  <2> QED
    BY <1>1, <2>2, <2>3
<1>3. [i \in DOMAIN Append(mine, p) |-> <<c, Append(mine, p)[i].argument>>]
        = Append(v, x)
  <2>1. /\ DOMAIN Append(mine, p) = 1..(Len(mine) + 1) /\ Len(v) = Len(mine)
        /\ DOMAIN mine = 1..Len(mine) /\ Len(mine) \in Nat
        /\ \A i \in 1..Len(mine) : Append(mine, p)[i] = mine[i]
        /\ Append(mine, p)[Len(mine) + 1] = p
    OBVIOUS
  <2>2. /\ DOMAIN Append(v, x) = 1..(Len(mine) + 1)
        /\ \A i \in 1..Len(mine) : Append(v, x)[i] = v[i]
        /\ Append(v, x)[Len(mine) + 1] = x
    BY <1>2, <2>1, AppendProperties
  <2>3. Append(v, x) \in Seq(T)
    BY <1>2, AppendProperties
  <2>4. ASSUME NEW i \in 1..(Len(mine) + 1)
        PROVE  <<c, Append(mine, p)[i].argument>> = Append(v, x)[i]
    BY <2>1, <2>2
  <2> DEFINE w == Append(v, x)
  <2> HIDE DEF w
  <2>5. w = [i \in DOMAIN w |-> w[i]]
    BY <2>3 DEF w
  <2> QED
    BY <2>1, <2>2, <2>4, <2>5 DEF w
<1>4. x \in S <=> p.argument # 0
  BY <1>1
<1>5. PICK y : y = x
  OBVIOUS
<1> HIDE DEF v, x, S, T
<1>6. /\ Selected(v, S) \in Seq(S \cap T)
      /\ Selected(Append(v, y), S) =
           IF y \in S THEN Append(Selected(v, S), y) ELSE Selected(v, S)
  <2>1. y \in T
    BY <1>2, <1>5
  <2>2. Selected(v, S) \in Seq(S \cap T)
    BY <1>2, SelectedType
  <2>3. Selected(Added(v, y), S) =
          IF y \in S THEN Added(Selected(v, S), y) ELSE Selected(v, S)
    BY <1>2, <2>1, SelectedAdded
  <2> QED
    BY <2>2, <2>3 DEF Added
<1>7. PICK R : R = S \cap T
  OBVIOUS
<1>8. CASE p.argument # 0
  <2>1. y \in R /\ Selected(v, S) \in Seq(R)
    BY <1>2, <1>4, <1>5, <1>6, <1>7, <1>8
  <2>2. Append(Selected(v, S), y) = Selected(v, S) \o <<y>>
    BY <2>1, AppendIsConcat
  <2> QED
    BY <1>1, <1>3, <1>4, <1>5, <1>6, <1>8, <2>2 DEF Arguments, v, x, S
<1>9. CASE p.argument = 0
  <2>1. Selected(v, S) \in Seq(R)
    BY <1>6, <1>7
  <2>2. Selected(v, S) \o <<>> = Selected(v, S)
    BY <2>1, ConcatEmptySeq
  <2> QED
    BY <1>3, <1>4, <1>5, <1>6, <1>9, <2>2 DEF Arguments, v, S
<1> QED
  BY <1>8, <1>9

\* Without parts there are no arguments.
LEMMA NoArguments == ASSUME NEW c PROVE Arguments(c, <<>>) = <<>>
<1>1. [i \in DOMAIN <<>> |-> <<c, <<>>[i].argument>>] = <<>>
  OBVIOUS
<1> QED
  BY <1>1, SelectedEmpty DEF Arguments

\* What AddPart makes of a call.
WithPart(old, p) ==
    [id |-> IF p.head THEN p.call ELSE old.id,
     name |-> old.name \o (IF p.head THEN <<p.call>> ELSE <<>>),
     arguments |-> old.arguments
        \o (IF p.argument = 0 THEN <<>> ELSE <<<<p.call, p.argument>>>>)]

\* A call with one more part.  Only its first part may be its head.
LEMMA MoreOfCall ==
    ASSUME NEW c \in Calls, NEW mine \in Seq(PartsOf(c)), NEW p \in PartsOf(c),
           p.head => mine = <<>>,
           NEW old, old = IF mine # <<>> THEN CallOf(c, mine) ELSE NoCall
    PROVE  CallOf(c, Added(mine, p)) = WithPart(old, p)
<1> DEFINE more == IF p.argument = 0 THEN <<>> ELSE <<<<p.call, p.argument>>>>
<1>1. /\ p.call = c /\ p.head \in BOOLEAN
      /\ Append(mine, p)[1] = IF mine = <<>> THEN p ELSE mine[1]
  BY DEF PartsOf
<1>2. Arguments(c, Append(mine, p)) = Arguments(c, mine) \o more
  BY MoreArguments
<1>3. Arguments(c, <<>>) = <<>>
  BY NoArguments
<1> HIDE DEF more
<1>4. CASE mine = <<>>
  <2>1. old = NoCall
    BY <1>4
  <2>2. old.id = 0 /\ old.name = <<>> /\ old.arguments = <<>>
    BY <2>1 DEF NoCall
  <2>3. Append(mine, p)[1] = p
    BY <1>1, <1>4
  <2>4. CallOf(c, Append(mine, p)) =
          [id |-> IF p.head THEN c ELSE 0, name |-> IF p.head THEN <<c>> ELSE <<>>,
           arguments |-> old.arguments \o more]
    BY <1>2, <1>3, <1>4, <2>2, <2>3 DEF CallOf
  <2>5. <<>> \o <<c>> = <<c>> /\ <<>> \o <<>> = <<>>
    OBVIOUS
  <2> QED
    BY <1>1, <2>2, <2>4, <2>5 DEF more, WithPart, Added
<1>5. CASE mine # <<>>
  <2>1. old = CallOf(c, mine) /\ ~p.head
    BY <1>5
  <2>2. /\ old.id = IF mine[1].head THEN c ELSE 0
        /\ old.name = IF mine[1].head THEN <<c>> ELSE <<>>
        /\ old.arguments = Arguments(c, mine)
    BY <2>1 DEF CallOf
  <2>3. old.name \o <<>> = old.name
    BY <2>2
  <2>4. Append(mine, p)[1] = mine[1]
    BY <1>1, <1>5
  <2>5. CallOf(c, Append(mine, p)) =
          [id |-> old.id, name |-> old.name, arguments |-> old.arguments \o more]
    BY <1>2, <2>2, <2>4 DEF CallOf
  <2> QED
    BY <2>1, <2>3, <2>5 DEF more, WithPart, Added
<1> QED
  BY <1>4, <1>5

\* One part added to the calls of those before it makes the calls of all.
LEMMA PartAdded ==
    ASSUME NEW parts \in Seq(Fragments), NEW c \in Calls, NEW p \in PartsOf(c),
           NEW position, Key(p, position) = KeyOf(c),
           p.head => Selected(parts, PartsOf(c)) = <<>>
    PROVE  AddPart(Assembled(parts), p, position) = Assembled(Added(parts, p))
<1> DEFINE Mine(d) == Selected(parts, PartsOf(d))
           More(d) == Selected(Added(parts, p), PartsOf(d))
           there == {d \in Calls : Mine(d) # <<>>}
           k == KeyOf(c)
           cs == Assembled(parts)
           old == IF k \in DOMAIN cs THEN cs[k] ELSE NoCall
           new == WithPart(old, p)
<1>1. \A d \in Calls : /\ Mine(d) \in Seq(PartsOf(d))
                       /\ More(d) = IF d = c THEN Added(Mine(d), p) ELSE Mine(d)
  BY MoreParts
<1>2. \A d \in Calls : CallAt(KeyOf(d)) = d
  BY DEF CallAt, KeyOf, Calls
<1>3. cs = [x \in {KeyOf(d) : d \in there} |-> CallOf(CallAt(x), Mine(CallAt(x)))]
  BY DEF Assembled
<1>4. Assembled(Added(parts, p)) =
        [x \in {KeyOf(d) : d \in {e \in Calls : More(e) # <<>>}} |->
           CallOf(CallAt(x), More(CallAt(x)))]
  BY DEF Assembled
<1>5. AddPart(cs, p, position) =
        [x \in DOMAIN cs \cup {k} |-> IF x = k THEN new ELSE cs[x]]
  BY DEF AddPart, WithPart
<1> HIDE DEF cs, new
<1>6. Added(Mine(c), p) # <<>>
  BY <1>1 DEF Added
<1> HIDE DEF Mine, More
<1>7. {e \in Calls : More(e) # <<>>} = there \cup {c}
  BY <1>1, <1>6
<1>8. DOMAIN cs \cup {k} = {KeyOf(d) : d \in there \cup {c}}
  BY <1>3
<1>9. old = IF Mine(c) # <<>> THEN CallOf(c, Mine(c)) ELSE NoCall
  <2>1. k \in DOMAIN cs <=> c \in there
    BY <1>2, <1>3
  <2> QED
    BY <1>2, <1>3, <2>1
<1>10. new = CallOf(c, Added(Mine(c), p))
  <2> DEFINE mine == Mine(c)
  <2>1. mine \in Seq(PartsOf(c)) /\ (p.head => mine = <<>>)
    BY <1>1 DEF Mine
  <2>2. old = IF mine # <<>> THEN CallOf(c, mine) ELSE NoCall
    BY <1>9
  <2> HIDE DEF mine, old
  <2>3. CallOf(c, Added(mine, p)) = WithPart(old, p)
    BY <2>1, <2>2, MoreOfCall
  <2> QED
    BY <2>3 DEF new, mine
<1>11. ASSUME NEW d \in there \cup {c}
       PROVE  (IF KeyOf(d) = k THEN new ELSE cs[KeyOf(d)]) = CallOf(d, More(d))
  <2>1. KeyOf(d) = k <=> d = c
    BY <1>2
  <2>2. d # c => cs[KeyOf(d)] = CallOf(d, Mine(d))
    BY <1>2, <1>3
  <2> QED
    BY <1>1, <1>10, <2>1, <2>2
<1> HIDE DEF old, k, there
<1>12. \A x \in {KeyOf(d) : d \in there \cup {c}} :
         (IF x = k THEN new ELSE cs[x]) = CallOf(CallAt(x), More(CallAt(x)))
  <2> SUFFICES ASSUME NEW d \in there \cup {c}
               PROVE  (IF KeyOf(d) = k THEN new ELSE cs[KeyOf(d)])
                        = CallOf(CallAt(KeyOf(d)), More(CallAt(KeyOf(d))))
    OBVIOUS
  <2>1. CallAt(KeyOf(d)) = d
    BY <1>2 DEF there
  <2> QED
    BY <1>11, <2>1
<1> QED
  BY <1>4, <1>5, <1>7, <1>8, <1>12 DEF cs

\* A part of call c at a position of a list.
NextOf(c, p, position, parts) ==
    /\ p \in PartsOf(c)
    /\ Key(p, position) = KeyOf(c)
    /\ p.head => Selected(parts, PartsOf(c)) = <<>>

\* Heads and tails are parts of their calls.
LEMMA HeadsAndTails ==
    ASSUME sent.parts \in Seq(Fragments), provider = "indexed",
           NEW c \in Calls, NEW p \in Heads(c) \cup Tails(c), NEW position
    PROVE  NextOf(c, p, position, sent.parts)
<1>1. Len(SentOf(c)) + 1 \in Nat
  <2>1. PICK S : S = PartsOf(c)
    OBVIOUS
  <2>2. Selected(sent.parts, S) \in Seq(S \cap Fragments)
    BY SelectedType
  <2> QED
    BY <2>1, <2>2 DEF SentOf
<1>2. CASE p \in Heads(c)
  <2>1. SentOf(c) = <<>> /\ p \in {Part(c, TRUE, 0), Part(c, TRUE, 1)}
    BY <1>2 DEF Heads
  <2>2. p \in PartsOf(c) /\ p.index = c
    <3>1. PICK n \in {0, 1} : p = Part(c, TRUE, n)
      BY <2>1
    <3> QED
      BY <3>1 DEF Part, PartsOf
  <2> QED
    BY <2>1, <2>2 DEF NextOf, Key, KeyOf, SentOf
<1>3. CASE p \in Tails(c)
  <2>1. p = Part(c, FALSE, Len(SentOf(c)) + 1)
    BY <1>3 DEF Tails
  <2>2. p \in PartsOf(c) /\ p.index = c /\ ~p.head
    BY <1>1, <2>1 DEF Part, PartsOf
  <2> QED
    BY <2>2 DEF NextOf, Key, KeyOf
<1> QED
  BY <1>2, <1>3

\* The beginnings of a list of two.
LEMMA FirstOfTwo ==
    ASSUME NEW p, NEW q
    PROVE  SubSeq(<<p, q>>, 1, 1) = <<p>> /\ SubSeq(<<p, q>>, 1, 2) = <<p, q>>
<1>1. PICK s : s = <<p, q>>
  OBVIOUS
<1>2. s \in Seq({p, q}) /\ Len(s) = 2 /\ s[1] = p /\ s[2] = q
  BY <1>1
<1>3. /\ Len(SubSeq(s, 1, 1)) = 1 /\ SubSeq(s, 1, 1) \in Seq({p, q})
      /\ SubSeq(s, 1, 1)[1] = p
  BY <1>2, SubSeqProperties
<1>4. /\ Len(SubSeq(s, 1, 2)) = 2 /\ SubSeq(s, 1, 2) \in Seq({p, q})
      /\ SubSeq(s, 1, 2)[1] = p /\ SubSeq(s, 1, 2)[2] = q
  BY <1>2, SubSeqProperties
<1>5. SubSeq(s, 1, 1) = <<p>>
  <2>1. PICK t : t = <<p>>
    OBVIOUS
  <2>2. t \in Seq({p, q}) /\ Len(t) = 1 /\ t[1] = p
    BY <2>1
  <2>3. \A i \in 1..1 : SubSeq(s, 1, 1)[i] = t[i]
    BY <1>3, <2>2
  <2> QED
    BY <1>3, <2>1, <2>2, <2>3, SeqEqual
<1>6. SubSeq(s, 1, 2) = <<p, q>>
  <2>1. \A i \in 1..2 : SubSeq(s, 1, 2)[i] = s[i]
    BY <1>2, <1>4
  <2> QED
    BY <1>1, <1>2, <1>4, <2>1, SeqEqual
<1> QED
  BY <1>1, <1>5, <1>6

\* A chunk has no parts, one, or one of each call.
LEMMA ListsOfParts ==
    ASSUME sent.parts \in Seq(Fragments), NEW ps \in PartLists
    PROVE  \/ \E c \in Calls : \E p \in PartsOf(c) :
                /\ ps = <<p>> /\ NextOf(c, p, 1, sent.parts)
                /\ provider # "indexed" => p.head /\ sent.parts = <<>>
           \/ \E c \in Calls, d \in Calls :
                \E p \in PartsOf(c), q \in PartsOf(d) :
                /\ ps = <<p, q>> /\ c # d
                /\ NextOf(c, p, 1, sent.parts) /\ NextOf(d, q, 2, sent.parts)
                /\ provider # "indexed" => p.head /\ q.head /\ sent.parts = <<>>
<1>1. CASE provider = "indexed"
  <2>1. \/ \E c \in Calls : \E p \in Heads(c) \cup Tails(c) : ps = <<p>>
        \/ \E p \in Heads(2) \cup Tails(2), q \in Heads(1) \cup Tails(1) :
             ps = <<p, q>>
    BY <1>1 DEF PartLists
  <2>2. CASE \E c \in Calls : \E p \in Heads(c) \cup Tails(c) : ps = <<p>>
    <3>1. PICK c \in Calls : \E p \in Heads(c) \cup Tails(c) : ps = <<p>>
      BY <2>2
    <3>2. PICK p \in Heads(c) \cup Tails(c) : ps = <<p>>
      BY <3>1
    <3>3. NextOf(c, p, 1, sent.parts)
      BY <1>1, HeadsAndTails
    <3> QED
      BY <1>1, <3>2, <3>3 DEF NextOf
  <2>3. CASE \E p \in Heads(2) \cup Tails(2), q \in Heads(1) \cup Tails(1) :
               ps = <<p, q>>
    <3>1. PICK p \in Heads(2) \cup Tails(2), q \in Heads(1) \cup Tails(1) :
            ps = <<p, q>>
      BY <2>3
    <3>2. 1 \in Calls /\ 2 \in Calls /\ 1 # 2
      BY DEF Calls
    <3>3. NextOf(2, p, 1, sent.parts) /\ NextOf(1, q, 2, sent.parts)
      BY <1>1, <3>2, HeadsAndTails
    <3> QED
      BY <1>1, <3>1, <3>2, <3>3 DEF NextOf
  <2> QED
    BY <2>1, <2>2, <2>3
<1>2. CASE provider # "indexed"
  <2> DEFINE p == Part(1, TRUE, 1)
             q == Part(2, TRUE, 1)
  <2>1. sent.parts = <<>> /\ \E n \in 1..2 : ps = SubSeq(WholeCalls, 1, n)
    <3> DEFINE N == IF sent.parts = <<>> THEN 1..2 ELSE {}
    <3>1. PartLists = {SubSeq(WholeCalls, 1, n) : n \in N}
      BY <1>2 DEF PartLists
    <3> HIDE DEF N
    <3>2. PICK n \in N : ps = SubSeq(WholeCalls, 1, n)
      BY <3>1, Zenon
    <3> QED
      BY <3>2 DEF N
  <2>2. ps = <<p>> \/ ps = <<p, q>>
    <3>1. WholeCalls = <<p, q>>
      BY DEF WholeCalls
    <3> HIDE DEF p, q
    <3> QED
      BY <2>1, <3>1, FirstOfTwo
  <2>3. /\ 1 \in Calls /\ 2 \in Calls /\ p \in PartsOf(1) /\ q \in PartsOf(2)
        /\ p.head /\ q.head /\ Key(p, 1) = KeyOf(1) /\ Key(q, 2) = KeyOf(2)
    BY <1>2 DEF Calls, PartsOf, Part, Key, KeyOf
  <2>4. \A c : Selected(sent.parts, PartsOf(c)) = <<>>
    BY <2>1, SelectedEmpty
  <2>5. NextOf(1, p, 1, sent.parts) /\ NextOf(2, q, 2, sent.parts)
    BY <2>3, <2>4 DEF NextOf
  <2> HIDE DEF p, q
  <2> QED
    BY <2>1, <2>2, <2>3, <2>5
<1> QED
  BY <1>1, <1>2

\* The parts of a chunk added to the calls of those before them make the calls
\* of all, and calls sent without an index have a head.
LEMMA PartsAdded ==
    ASSUME sent.parts \in Seq(Fragments), NEW ps \in PartLists \cup {<<>>},
           NEW parts, parts = sent.parts \o ps
    PROVE  /\ parts \in Seq(Fragments)
           /\ AddParts(Assembled(sent.parts), ps) = Assembled(parts)
           /\ provider # "indexed" /\ AllHeaded =>
                \A c \in Calls : Selected(parts, PartsOf(c)) # <<>> =>
                                   Selected(parts, PartsOf(c))[1].head
<1>1. CASE ps = <<>>
  <2>1. parts = sent.parts
    BY <1>1, ConcatEmptySeq
  <2> QED
    BY <1>1, <2>1 DEF AddParts, AllHeaded, SentOf
<1>2. ASSUME NEW c \in Calls, NEW p \in PartsOf(c), ps = <<p>>,
             NextOf(c, p, 1, sent.parts),
             provider # "indexed" => p.head /\ sent.parts = <<>>
      PROVE  /\ parts \in Seq(Fragments)
             /\ AddParts(Assembled(sent.parts), ps) = Assembled(parts)
             /\ provider # "indexed" =>
                  \A e \in Calls : Selected(parts, PartsOf(e)) # <<>> =>
                                     Selected(parts, PartsOf(e))[1].head
  <2>1. parts = Added(sent.parts, p)
    BY <1>2, AppendIsConcat DEF Added
  <2>2. AddParts(Assembled(sent.parts), ps) = AddPart(Assembled(sent.parts), p, 1)
    BY <1>2 DEF AddParts
  <2>3. AddPart(Assembled(sent.parts), p, 1) = Assembled(parts)
    BY <1>2, <2>1, PartAdded DEF NextOf
  <2>4. /\ parts \in Seq(Fragments)
        /\ \A e \in Calls : Selected(parts, PartsOf(e)) =
             IF e = c THEN Added(Selected(sent.parts, PartsOf(e)), p)
             ELSE Selected(sent.parts, PartsOf(e))
    BY <2>1, MoreParts
  <2>5. ASSUME provider # "indexed", NEW e \in Calls,
               Selected(parts, PartsOf(e)) # <<>>
        PROVE  Selected(parts, PartsOf(e))[1].head
    <3>1. Selected(sent.parts, PartsOf(e)) = <<>>
      BY <1>2, <2>5, SelectedEmpty
    <3>2. Selected(parts, PartsOf(e)) = Added(<<>>, p)
      BY <2>4, <2>5, <3>1
    <3>3. Added(<<>>, p) = <<p>>
      BY DEF Added
    <3> QED
      BY <1>2, <2>5, <3>2, <3>3
  <2> QED
    BY <2>2, <2>3, <2>4, <2>5
<1>3. ASSUME NEW c \in Calls, NEW d \in Calls, NEW p \in PartsOf(c),
             NEW q \in PartsOf(d), ps = <<p, q>>, c # d,
             NextOf(c, p, 1, sent.parts), NextOf(d, q, 2, sent.parts),
             provider # "indexed" => p.head /\ q.head /\ sent.parts = <<>>
      PROVE  /\ parts \in Seq(Fragments)
             /\ AddParts(Assembled(sent.parts), ps) = Assembled(parts)
             /\ provider # "indexed" =>
                  \A e \in Calls : Selected(parts, PartsOf(e)) # <<>> =>
                                     Selected(parts, PartsOf(e))[1].head
  <2>1. PICK half : half = Added(sent.parts, p)
    OBVIOUS
  <2>2. parts = Added(half, q)
    <3>1. /\ sent.parts \o <<p, q>> = Append(Append(sent.parts, p), q)
      OBVIOUS
    <3> QED
      BY <1>3, <2>1, <3>1 DEF Added
  <2>3. AddParts(Assembled(sent.parts), ps) =
          AddPart(AddPart(Assembled(sent.parts), p, 1), q, 2)
    BY <1>3 DEF AddParts
  <2>4. AddPart(Assembled(sent.parts), p, 1) = Assembled(half)
    BY <1>3, <2>1, PartAdded DEF NextOf
  <2>5. /\ half \in Seq(Fragments)
        /\ \A e \in Calls : Selected(half, PartsOf(e)) =
             IF e = c THEN Added(Selected(sent.parts, PartsOf(e)), p)
             ELSE Selected(sent.parts, PartsOf(e))
    <3>1. sent.parts \in Seq(Fragments) /\ c \in Calls /\ p \in PartsOf(c)
      OBVIOUS
    <3> QED
      BY <2>1, <3>1, MoreParts
  <2>6. q.head => Selected(half, PartsOf(d)) = <<>>
    BY <1>3, <2>5 DEF NextOf
  <2>7. AddPart(Assembled(half), q, 2) = Assembled(parts)
    <3>1. Key(q, 2) = KeyOf(d) /\ half \in Seq(Fragments)
      BY <1>3, <2>5 DEF NextOf
    <3> QED
      BY <2>2, <2>6, <3>1, PartAdded
  <2>8. /\ parts \in Seq(Fragments)
        /\ \A e \in Calls : Selected(parts, PartsOf(e)) =
             IF e = d THEN Added(Selected(half, PartsOf(e)), q)
             ELSE Selected(half, PartsOf(e))
    <3>1. half \in Seq(Fragments) /\ d \in Calls /\ q \in PartsOf(d)
      BY <2>5
    <3>2. /\ Added(half, q) \in Seq(Fragments)
          /\ \A e \in Calls : Selected(Added(half, q), PartsOf(e)) =
               IF e = d THEN Added(Selected(half, PartsOf(e)), q)
               ELSE Selected(half, PartsOf(e))
      BY <3>1, MoreParts
    <3> QED
      BY <2>2, <3>2
  <2>9. ASSUME provider # "indexed", NEW e \in Calls,
               Selected(parts, PartsOf(e)) # <<>>
        PROVE  Selected(parts, PartsOf(e))[1].head
    <3>1. Selected(sent.parts, PartsOf(e)) = <<>>
      BY <1>3, <2>9, SelectedEmpty
    <3>2. \/ Selected(parts, PartsOf(e)) = Added(<<>>, p)
          \/ Selected(parts, PartsOf(e)) = Added(<<>>, q)
      BY <1>3, <2>5, <2>8, <2>9, <3>1
    <3>3. Added(<<>>, p) = <<p>> /\ Added(<<>>, q) = <<q>>
      BY DEF Added
    <3> QED
      BY <1>3, <2>9, <3>2, <3>3
  <2> QED
    BY <2>3, <2>4, <2>7, <2>8, <2>9
<1>4. CASE ps # <<>>
  <2>1. ps \in PartLists
    BY <1>4
  <2> QED
    BY <1>2, <1>3, <2>1, ListsOfParts
<1> QED
  BY <1>1, <1>4

\* A message that is not streamed is finished and has no report.
LEMMA MessageParts ==
    \A c \in Messages : /\ c.parts \in PartLists \cup {<<>>}
                         /\ c.usage = NoReport /\ c.finished
  BY DEF Messages, Chunk

\* What the parts, the report and the finish of a chunk may be.
LEMMA ChunkParts ==
    ASSUME NEW c \in Chunks \cup Messages
    PROVE  /\ c.parts \in PartLists \cup {<<>>}
           /\ c \in Messages => c.usage = NoReport /\ c.finished
<1>1. CASE c \in Chunks
  <2> DEFINE A == {Chunk(NextText, th, <<>>, FALSE, NoReport) : th \in BOOLEAN}
             B == {Chunk(0, TRUE, <<>>, FALSE, NoReport)}
             C == {Chunk(0, FALSE, ps, FALSE, NoReport) : ps \in PartLists}
             D == {Chunk(NextText, FALSE, ps, TRUE, NoReport) :
                     ps \in PartLists \cup {<<>>}}
             E == {Chunk(0, FALSE, <<>>, f, u) : f \in BOOLEAN, u \in Reports}
  <2>1. c \in A \cup B \cup C \cup D \cup E
    <3>1. Chunks = A \cup B \cup C \cup D \cup E
      BY DEF Chunks
    <3> HIDE DEF A, B, C, D, E
    <3> QED
      BY <1>1, <3>1
  <2>2. c \in A => c.parts = <<>>
    BY DEF Chunk
  <2>3. c \in B => c.parts = <<>>
    BY DEF Chunk
  <2>4. c \in C => c.parts \in PartLists
    BY DEF Chunk
  <2>5. c \in D => c.parts \in PartLists \cup {<<>>}
    BY DEF Chunk
  <2>6. c \in E => c.parts = <<>>
    BY DEF Chunk
  <2> HIDE DEF A, B, C, D, E
  <2>7. c.parts \in PartLists \cup {<<>>}
    BY <2>1, <2>2, <2>3, <2>4, <2>5, <2>6
  <2> QED
    BY <2>7, MessageParts
<1>2. CASE c \in Messages
  BY <1>2, MessageParts
<1> QED
  BY <1>1, <1>2

\* The text among the deltas of a chunk.
LEMMA DeltaText ==
    ASSUME NEW c, IsChunk(c)
    PROVE  Selected(DeltasOf(c), Nat \ {0}) = TextOf(c)
<1> DEFINE S == Nat \ {0}
           thought == IF c.thinking THEN <<0>> ELSE <<>>
<1>1. /\ TextOf(c) \in Seq(Nat) /\ \A i \in 1..Len(TextOf(c)) : TextOf(c)[i] \in S
  BY DEF TextOf, IsChunk
<1>2. /\ thought \in Seq(Nat)
      /\ \A i \in 1..Len(thought) : thought[i] \notin S
  OBVIOUS
<1>3. DeltasOf(c) = TextOf(c) \o thought
  BY DEF DeltasOf
<1> HIDE DEF S, thought
<1>4. Selected(TextOf(c), S) = TextOf(c)
  BY <1>1, SelectedAll
<1>5. Selected(thought, S) = <<>>
  BY <1>2, SelectedAll
<1>6. Selected(TextOf(c) \o thought, S) = Selected(TextOf(c), S) \o Selected(thought, S)
  BY <1>1, <1>2, SelectedConcat
<1>7. TextOf(c) \o <<>> = TextOf(c)
  BY <1>1, ConcatEmptySeq
<1> QED
  BY <1>3, <1>4, <1>5, <1>6, <1>7 DEF S

\* No part changes nothing.
LEMMA NothingAdded == \A cs : AddParts(cs, <<>>) = cs
  BY DEF AddParts

\* What is known of a reply r and of what was sent, s, after a step.
LEMMA WholeAfter ==
    ASSUME provider' = provider,
           NEW r, reply' = r, NEW s, sent' = s,
           NEW text, text = IF Held' THEN TextOf(chunk)' ELSE <<>>,
           NEW rest, rest = IF Held' THEN chunk'.parts ELSE <<>>,
           Selected(s.deltas, Nat \ {0}) = r.content \o text,
           Assembled(s.parts) = AddParts(r.calls, rest),
           s.usage = IF Incoming' THEN UsageOf(chunk)' ELSE r.usage
    PROVE  ReplyWhole'
<1>1. Assembled(sent.parts)' = Assembled(s.parts)
  BY DEF Assembled, KeyOf, CallAt
<1>2. AddParts(reply.calls, IF Held THEN chunk.parts ELSE <<>>)' = AddParts(r.calls, rest)
  <2>1. PICK cs : cs = r.calls
    OBVIOUS
  <2>2. AddParts(cs, rest)' = AddParts(cs, rest)
    <3>1. ASSUME NEW ds, NEW p, NEW n
          PROVE  AddPart(ds, p, n)' = AddPart(ds, p, n)
      <4>1. PICK k, l : k = Key(p, n) /\ l = Key(p, n)'
        OBVIOUS
      <4>2. k = l
        BY <4>1 DEF Key
      <4> QED
        BY <4>1, <4>2 DEF AddPart
    <3>2. CASE Len(rest) = 0
      BY <3>2 DEF AddParts
    <3>3. CASE Len(rest) = 1
      BY <3>1, <3>3 DEF AddParts
    <3>4. CASE Len(rest) # 0 /\ Len(rest) # 1
      <4>1. PICK ds : ds = AddPart(cs, rest[1], 1)
        OBVIOUS
      <4>2. AddPart(cs, rest[1], 1)' = ds
        BY <3>1, <4>1
      <4>3. AddParts(cs, rest) = AddPart(ds, rest[2], 2)
        BY <3>4, <4>1 DEF AddParts
      <4>4. AddParts(cs, rest)' = AddPart(ds, rest[2], 2)'
        BY <3>4, <4>2 DEF AddParts
      <4> QED
        BY <3>1, <4>3, <4>4
    <3> QED
      BY <3>2, <3>3, <3>4
  <2>3. /\ (reply.calls)' = cs
        /\ (IF Held THEN chunk.parts ELSE <<>>)' = rest
    BY <2>1
  <2>4. AddParts(reply.calls, IF Held THEN chunk.parts ELSE <<>>)' = AddParts(cs, rest)'
    BY <2>3
  <2> QED
    BY <2>1, <2>2, <2>4
<1> QED
  BY <1>1, <1>2 DEF ReplyWhole

\* A step that neither sends nor adds anything.
Quiet ==
    /\ UNCHANGED <<provider, sent, reply, chunk>>
    /\ gen' \in {"fresh", "requesting"} => gen \in {"fresh", "requesting"}
    /\ Incoming' => Incoming /\ gen' = gen
    /\ MayComplete' => MayComplete /\ (Held' <=> Held) /\ (Incoming' <=> Incoming)
    /\ "completed" \in {work', outcome'} =>
          "completed" \in {work, outcome} \/ (sent.finished /\ AllHeaded)

\* Such a step leaves what is known of the reply.
LEMMA QuietStep ==
    ASSUME ReplyInv, Quiet
    PROVE  ReplyInv'
<1> USE DEF Quiet
<1>1. AllHeaded' <=> AllHeaded
  BY DEF AllHeaded, SentOf
<1>2. ASSUME MayComplete' PROVE ReplyWhole'
  <2>1. ReplyWhole /\ (Held' <=> Held) /\ (Incoming' <=> Incoming)
    BY <1>2 DEF ReplyInv
  <2>2. PICK r, s, text, rest :
           /\ r = reply /\ s = sent
           /\ text = IF Held THEN TextOf(chunk) ELSE <<>>
           /\ rest = IF Held THEN chunk.parts ELSE <<>>
    OBVIOUS
  <2>3. TextOf(chunk)' = TextOf(chunk) /\ UsageOf(chunk)' = UsageOf(chunk)
    BY DEF TextOf, UsageOf
  <2>4. /\ reply' = r /\ sent' = s /\ provider' = provider
        /\ text = IF Held' THEN TextOf(chunk)' ELSE <<>>
        /\ rest = IF Held' THEN chunk'.parts ELSE <<>>
    BY <2>1, <2>2, <2>3
  <2>5. /\ Selected(s.deltas, Nat \ {0}) = r.content \o text
        /\ Assembled(s.parts) = AddParts(r.calls, rest)
        /\ s.usage = IF Incoming' THEN UsageOf(chunk)' ELSE r.usage
    BY <2>1, <2>2, <2>3 DEF ReplyWhole
  <2> QED
    BY <2>4, <2>5, WholeAfter
<1>3. /\ (sent.parts \in Seq(Fragments))'
      /\ (gen \in {"fresh", "requesting"} => reply = NoReply)'
      /\ (gen = "requesting" /\ Incoming => chunk.usage = NoReport /\ sent.finished)'
      /\ (reply.finished \/ (Incoming /\ chunk.finished) => sent.finished)'
  BY DEF ReplyInv, NoReply
<1> QED
  BY <1>1, <1>2, <1>3 DEF ReplyInv

\* The steps of the request and the signals are quiet.
LEMMA QuietRequest ==
    ASSUME FlowInv, ShownInv, ReplyInv,
           RequestStep \/ Abort \/ CancelTask \/ UNCHANGED vars
    PROVE  Quiet
<1> USE DEF runVars, mainVars, genVars
<1>1. /\ UNCHANGED <<provider, sent, reply, chunk, arrived>>
      /\ \/ gen' = gen /\ raising' = raising
         \/ gen = "yielded" /\ gen' = "closing" /\ raising' = "exit"
              /\ work' = work /\ outcome' = outcome
  BY DEF RequestStep, Pull, TakeEvent, NoticeAbort, Interrupted, CloseGenerator,
         Closes, EndRequest, Abort, CancelTask, vars
<1>2. work' = "completed" => work = "completed"
  BY DEF RequestStep, Pull, TakeEvent, NoticeAbort, Interrupted, CloseGenerator,
         EndRequest, Abort, CancelTask, vars
<1>3. outcome' = "completed" => "completed" \in {work, outcome}
  BY DEF RequestStep, Pull, TakeEvent, NoticeAbort, Interrupted, CloseGenerator,
         EndRequest, Abort, CancelTask, vars
<1>4. "completed" \in {work, outcome} => gen = "over"
  BY DEF ShownInv
<1>5. CASE gen' = gen /\ raising' = raising
  <2>1. (Held' <=> Held) /\ (Incoming' <=> Incoming)
    BY <1>1, <1>5 DEF Held, Incoming
  <2>2. MayComplete' => MayComplete
    BY <1>2, <1>3, <1>5 DEF MayComplete
  <2> QED
    BY <1>1, <1>2, <1>3, <1>5, <2>1, <2>2 DEF Quiet
<1>6. CASE /\ gen = "yielded" /\ gen' = "closing" /\ raising' = "exit"
           /\ work' = work /\ outcome' = outcome
  <2>1. ~Incoming' /\ ~MayComplete'
    BY <1>4, <1>6 DEF Incoming, MayComplete
  <2> QED
    BY <1>1, <1>4, <1>6, <2>1 DEF Quiet
<1> QED
  BY <1>1, <1>5, <1>6

\* When the checks after the loop pass, every call has a head.
LEMMA AcceptedHeads ==
    ASSUME Accepted, reply.calls = Assembled(sent.parts)
    PROVE  AllHeaded
<1> SUFFICES ASSUME NEW c \in Calls, SentOf(c) # <<>>
             PROVE  SentOf(c)[1].head
  BY DEF AllHeaded
<1>1. CallAt(KeyOf(c)) = c
  BY DEF CallAt, KeyOf, Calls
<1>2. KeyOf(c) \in DOMAIN reply.calls /\ reply.calls[KeyOf(c)] = CallOf(c, SentOf(c))
  BY <1>1 DEF Assembled, SentOf
<1>3. CallOf(c, SentOf(c)).id # 0
  BY <1>2 DEF Accepted
<1> QED
  BY <1>3 DEF CallOf

\* The steps of the generator that add nothing.
LEMMA QuietGenerator ==
    ASSUME FlowInv, ShownInv, ReplyInv,
           \/ StartGenerator \/ NeverRan \/ ThrowCancelled \/ CloseResponse
           \/ InterruptClose
    PROVE  Quiet
<1> USE DEF runVars, mainVars, Ends
<1>1. /\ work = "completed" => gen = "over"
      /\ outcome = "completed" => gen = "over"
  BY DEF ShownInv
<1>2. CASE StartGenerator
  <2>1. /\ UNCHANGED <<provider, sent, reply, chunk, arrived, outcome>>
        /\ gen = "fresh" /\ arrived = "none"
        /\ \/ gen' = "over" /\ work' = "aborted"
           \/ gen' = "requesting" /\ work' = "running"
    BY <1>2 DEF StartGenerator, FlowInv, OpenInv
  <2> QED
    BY <1>1, <2>1 DEF Quiet, Held, Incoming, MayComplete
<1>3. CASE NeverRan
  <2>1. /\ UNCHANGED <<provider, sent, reply, chunk, arrived, outcome, gen, raising>>
        /\ work' = "cancelled"
    BY <1>3 DEF NeverRan
  <2> QED
    BY <1>1, <2>1 DEF Quiet, Held, Incoming, MayComplete
<1>4. CASE ThrowCancelled
  <2>1. /\ UNCHANGED <<provider, sent, reply, chunk, arrived, outcome>>
        /\ gen \in {"requesting", "reading"}
        /\ \/ gen' = "over" /\ work' = "cancelled"
           \/ gen' = "closing" /\ raising' = "cancelled" /\ work' = "running"
    BY <1>4 DEF ThrowCancelled, Leave
  <2> QED
    BY <1>1, <2>1 DEF Quiet, Held, Incoming, MayComplete
<1>5. CASE CloseResponse
  <2>1. /\ UNCHANGED <<provider, sent, reply, chunk, arrived, outcome>>
        /\ gen = "closing" /\ gen' = "over"
        /\ work' = "completed" => raising = "none" /\ Accepted
    <3>1. raising # "completed" /\ work # "completed"
      BY <1>1, <1>5 DEF FlowInv, PullInv, Errors, CloseResponse
    <3> QED
      BY <1>5, <3>1 DEF CloseResponse
  <2>2. /\ ~Held /\ ~Incoming /\ ~Held' /\ ~Incoming'
        /\ outcome # "completed"
    BY <1>1, <2>1 DEF Held, Incoming
  <2>3. ASSUME work' = "completed"
        PROVE  MayComplete /\ sent.finished /\ AllHeaded
    <3>1. MayComplete
      BY <2>1, <2>3 DEF MayComplete
    <3>2. reply.calls = Assembled(sent.parts)
      BY <2>2, <3>1, NothingAdded DEF ReplyInv, ReplyWhole
    <3>3. sent.finished
      BY <2>1, <2>3 DEF Accepted, ReplyInv
    <3> QED
      BY <2>1, <2>3, <3>1, <3>2, <3>3, AcceptedHeads
  <2> QED
    BY <2>1, <2>2, <2>3 DEF Quiet, MayComplete
<1>6. CASE InterruptClose
  <2>1. /\ UNCHANGED <<provider, sent, reply, chunk, arrived, outcome>>
        /\ gen = "closing" /\ gen' = "over" /\ work' \in {work, "cancelled"}
    BY <1>6 DEF InterruptClose
  <2> QED
    BY <1>1, <2>1 DEF Quiet, Held, Incoming, MayComplete
<1> QED
  BY <1>2, <1>3, <1>4, <1>5, <1>6

\* So are the answers of the provider that are not chunks.
LEMMA QuietAnswers ==
    ASSUME FlowInv, ShownInv, ReplyInv,
           \/ (Answer \/ Deliver) /\ arrived' # "chunk"
           \/ (TakeAnswer \/ TakeChunk) /\ arrived # "chunk"
    PROVE  Quiet
<1> USE DEF runVars, mainVars, Ends
<1>1. /\ work = "completed" => gen = "over"
      /\ outcome = "completed" => gen = "over"
  BY DEF ShownInv
<1>2. CASE (Answer \/ Deliver) /\ arrived' # "chunk"
  <2>1. /\ UNCHANGED <<provider, sent, reply, chunk, outcome, work, gen, raising>>
        /\ arrived = "none"
    BY <1>2 DEF Answer, Deliver, Send, Fails
  <2> QED
    BY <1>1, <1>2, <2>1 DEF Quiet, Held, Incoming, MayComplete
<1>3. CASE TakeAnswer /\ arrived # "chunk"
  <2>1. /\ UNCHANGED <<provider, sent, reply, chunk, outcome>>
        /\ gen = "requesting" /\ arrived' = "none"
        /\ \/ gen' = "reading" /\ work' = work /\ raising' = raising
           \/ gen' = "closing" /\ work' = work /\ raising' = "aborted"
           \/ gen' = "over" /\ work' \in Errors
    <3>1. CASE arrived = "response"
      BY <1>3, <3>1 DEF TakeAnswer, ReadOn, Leave
    <3>2. CASE arrived # "response"
      <4>1. arrived \in Errors
        BY <1>3, <3>2 DEF TakeAnswer, FlowInv, PullInv, ShownInv
      <4> QED
        BY <1>3, <3>2, <4>1 DEF TakeAnswer
    <3> QED
      BY <3>1, <3>2
  <2> QED
    BY <1>1, <1>3, <2>1 DEF Quiet, Held, Incoming, MayComplete, Errors
<1>4. CASE TakeChunk /\ arrived # "chunk"
  <2>1. /\ UNCHANGED <<provider, sent, reply, chunk, outcome, work>>
        /\ gen = "reading" /\ arrived' = "none" /\ gen' = "closing"
    BY <1>4 DEF TakeChunk, Leave
  <2> QED
    BY <1>1, <1>4, <2>1 DEF Quiet, Held, Incoming, MayComplete
<1> QED
  BY <1>2, <1>3, <1>4

\* Work on a chunk c moves what it does from the chunk to the reply r.
LEMMA ProduceWhole ==
    ASSUME ReplyInv, NEW c, NEW r, Produce(c, r), IsChunk(c),
           DOMAIN r = DOMAIN NoReply, r.content \in Seq(Nat),
           UNCHANGED <<provider, sent, outcome>>,
           work = "running", outcome # "completed", arrived' = "none",
           Selected(sent.deltas, Nat \ {0}) = r.content \o TextOf(c),
           Assembled(sent.parts) = AddParts(r.calls, c.parts),
           sent.usage = r.usage, r.finished => sent.finished
    PROVE  ReplyInv'
<1>1. PICK s : s = sent
  OBVIOUS
<1>2. AllHeaded' <=> AllHeaded
  BY DEF AllHeaded, SentOf
<1>3. /\ (sent.parts \in Seq(Fragments))' /\ (provider # "indexed" => AllHeaded)'
      /\ ~Incoming'
  BY <1>2 DEF ReplyInv, Incoming
<1>4. ASSUME NEW x, reply' = x, x.usage = r.usage, x.finished = r.finished,
             gen' \in {"yielded", "reading", "closing"}, work' # "completed",
             ReplyWhole'
      PROVE  ReplyInv'
  BY <1>3, <1>4 DEF ReplyInv
<1>5. CASE c.text # 0
  <2>1. PICK x : /\ x = [r EXCEPT !.content = Append(@, c.text)]
                 /\ reply' = x
    BY <1>5 DEF Produce
  <2>2. /\ x.content = Append(r.content, c.text) /\ x.calls = r.calls
        /\ x.usage = r.usage /\ x.finished = r.finished
    BY <2>1 DEF NoReply
  <2>3. chunk' = AfterText(c) /\ gen' = "yielded" /\ work' = "text" /\ Held'
    BY <1>5 DEF Produce, Ends, Held
  <2>4. /\ TextOf(chunk)' = <<>> /\ chunk'.parts = c.parts
    BY <2>3 DEF AfterText, IsChunk, TextOf
  <2>5. Append(r.content, c.text) \o <<>> = r.content \o TextOf(c)
    BY <1>5 DEF TextOf, IsChunk
  <2>6. PICK text, rest : text = <<>> /\ rest = c.parts
    OBVIOUS
  <2>7. /\ Selected(s.deltas, Nat \ {0}) = x.content \o text
        /\ Assembled(s.parts) = AddParts(x.calls, rest)
        /\ s.usage = x.usage
    BY <1>1, <2>2, <2>5, <2>6
  <2>8. ReplyWhole'
    BY <1>1, <1>3, <2>1, <2>3, <2>4, <2>6, <2>7, WholeAfter
  <2> QED
    BY <1>4, <2>1, <2>2, <2>3, <2>8
<1>6. CASE c.text = 0 /\ c.thinking
  <2>1. /\ reply' = r /\ chunk' = [c EXCEPT !.thinking = FALSE]
        /\ gen' = "yielded" /\ work' = "thinking" /\ Held'
    BY <1>6 DEF Produce, Ends, Held
  <2>2. /\ TextOf(chunk)' = TextOf(c) /\ chunk'.parts = c.parts
    BY <2>1 DEF IsChunk, TextOf
  <2>3. PICK text, rest : text = TextOf(c) /\ rest = c.parts
    OBVIOUS
  <2>4. ReplyWhole'
    BY <1>1, <1>3, <2>1, <2>2, <2>3, WholeAfter
  <2> QED
    BY <1>4, <2>1, <2>4
<1>7. CASE c.text = 0 /\ ~c.thinking
  <2>1. PICK x : /\ x = [r EXCEPT !.calls = AddParts(@, c.parts)]
                 /\ reply' = x
    BY <1>7 DEF Produce
  <2>2. /\ x.content = r.content /\ x.calls = AddParts(r.calls, c.parts)
        /\ x.usage = r.usage /\ x.finished = r.finished
    BY <2>1 DEF NoReply
  <2>3. gen' \in {"reading", "closing"} /\ work' = "running" /\ ~Held'
    BY <1>3, <1>7 DEF Produce, ReadOn, Leave, Held
  <2>4. TextOf(c) = <<>>
    BY <1>7 DEF TextOf
  <2>5. PICK text, rest : text = <<>> /\ rest = <<>>
    OBVIOUS
  <2>6. /\ Selected(s.deltas, Nat \ {0}) = x.content \o text
        /\ Assembled(s.parts) = AddParts(x.calls, rest)
        /\ s.usage = x.usage
    BY <1>1, <2>2, <2>4, <2>5, NothingAdded
  <2>7. ReplyWhole'
    BY <1>1, <1>3, <2>1, <2>3, <2>5, <2>6, WholeAfter
  <2> QED
    BY <1>4, <2>1, <2>2, <2>3, <2>7
<1> QED
  BY <1>5, <1>6, <1>7 DEF IsChunk

\* Work on a chunk keeps the reply and the rest what was sent.
LEMMA ChunkReply ==
    ASSUME FlowInv, ShownInv, UsageInv, ReplyInv,
           Resume \/ (TakeChunk /\ arrived = "chunk")
    PROVE  ReplyInv'
<1>1. /\ work = "running" /\ gen \in {"reading", "yielded"} /\ Pending /\ Held
      /\ UNCHANGED <<provider, sent, outcome>>
  BY DEF Resume, TakeChunk, Pending, Held, Incoming, runVars, mainVars
<1>2. /\ ReplyWhole /\ IsChunk(chunk) /\ outcome # "completed"
      /\ DOMAIN reply = {"content", "calls", "finished", "usage"}
      /\ reply.content \in Seq(Nat)
  BY <1>1 DEF ReplyInv, MayComplete, ShownInv, UsageInv, NoReply
<1>3. /\ Selected(sent.deltas, Nat \ {0}) = reply.content \o TextOf(chunk)
      /\ Assembled(sent.parts) = AddParts(reply.calls, chunk.parts)
  BY <1>1, <1>2 DEF ReplyWhole
<1>4. PICK c : c = chunk
  OBVIOUS
<1>5. CASE Resume
  <2>1. /\ arrived' = "none" /\ ~Incoming /\ Produce(c, reply)
    BY <1>4, <1>5 DEF Resume, FlowInv, PullInv, Incoming
  <2>2. sent.usage = reply.usage /\ (reply.finished => sent.finished)
    BY <1>2, <2>1 DEF ReplyWhole, ReplyInv
  <2>3. DOMAIN reply = DOMAIN NoReply
    BY <1>2 DEF NoReply
  <2> QED
    BY <1>1, <1>2, <1>3, <1>4, <2>1, <2>2, <2>3, ProduceWhole
<1>6. CASE TakeChunk /\ arrived = "chunk"
  <2>1. PICK r : r = [reply EXCEPT !.usage = UsageOf(chunk),
                                   !.finished = @ \/ chunk.finished]
    OBVIOUS
  <2>2. Produce(c, r) /\ arrived' = "none" /\ Incoming
    BY <1>4, <1>6, <2>1 DEF TakeChunk, Incoming
  <2>3. /\ DOMAIN r = DOMAIN NoReply /\ r.content = reply.content
        /\ r.calls = reply.calls /\ r.usage = UsageOf(chunk)
        /\ r.finished = (reply.finished \/ chunk.finished)
    BY <1>2, <2>1 DEF NoReply
  <2>4. sent.usage = r.usage /\ (r.finished => sent.finished)
    BY <1>2, <2>2, <2>3 DEF ReplyWhole, ReplyInv
  <2> QED
    BY <1>1, <1>2, <1>3, <1>4, <2>2, <2>3, <2>4, ProduceWhole
<1> QED
  BY <1>5, <1>6

\* The answer of complete() is the whole reply.
LEMMA AnswerReply ==
    ASSUME FlowInv, ShownInv, ReplyInv, TakeAnswer, arrived = "chunk"
    PROVE  ReplyInv'
<1>1. /\ gen = "requesting" /\ Incoming /\ Held /\ provider = "complete"
      /\ reply = NoReply /\ chunk.usage = NoReport /\ sent.finished /\ ReplyWhole
      /\ AllHeaded /\ outcome # "completed"
  BY DEF TakeAnswer, Incoming, Held, ShownInv, ReplyInv, MayComplete
<1>2. /\ Selected(sent.deltas, Nat \ {0}) = <<>> \o TextOf(chunk)
      /\ Assembled(sent.parts) = AddParts(NoReply.calls, chunk.parts)
      /\ sent.usage = NoReport
  BY <1>1 DEF ReplyWhole, UsageOf, NoReply
<1>3. PICK r : /\ r = [NoReply EXCEPT !.content = TextOf(chunk),
                                      !.calls = AddParts(@, chunk.parts)]
               /\ reply' = r
  BY DEF TakeAnswer
<1>4. /\ r.content = TextOf(chunk) /\ r.calls = AddParts(NoReply.calls, chunk.parts)
      /\ r.usage = NoReport /\ ~r.finished
  BY <1>3 DEF NoReply
<1>5. /\ UNCHANGED <<provider, sent>> /\ gen' = "over" /\ ~Held' /\ ~Incoming'
  BY <1>1 DEF TakeAnswer, runVars, Held, Incoming
<1>6. TextOf(chunk) \in Seq(Nat)
  BY <1>1, ChunkDeltas DEF ShownInv, TakeAnswer
<1>7. PICK s, text, rest : s = sent /\ text = <<>> /\ rest = <<>>
  OBVIOUS
<1>8. /\ Selected(s.deltas, Nat \ {0}) = r.content \o text
      /\ Assembled(s.parts) = AddParts(r.calls, rest)
      /\ s.usage = r.usage
  BY <1>2, <1>4, <1>6, <1>7, ConcatEmptySeq, NothingAdded
<1>9. ReplyWhole'
  BY <1>3, <1>5, <1>7, <1>8, WholeAfter
<1>10. AllHeaded'
  BY <1>1, <1>5 DEF AllHeaded, SentOf
<1> QED
  BY <1>1, <1>3, <1>4, <1>5, <1>9, <1>10 DEF ReplyInv

\* What the provider sends is to be added.
LEMMA SendReply ==
    ASSUME FlowInv, ShownInv, UsageInv, ReplyInv,
           Answer \/ Deliver, arrived' = "chunk"
    PROVE  ReplyInv'
<1>1. PICK c \in Chunks \cup Messages :
        Send(c) /\ (gen = "requesting" => c \in Messages)
  <2>1. ~Fails
    BY ErrorsNormalized DEF Fails, Errors
  <2>2. CASE Answer
    BY <2>1, <2>2 DEF Answer
  <2>3. CASE Deliver
    BY <2>1, <2>3 DEF Deliver
  <2> QED
    BY <2>2, <2>3
<1>2. /\ gen \in {"requesting", "reading"} /\ arrived = "none"
      /\ UNCHANGED <<provider, reply, gen, work, outcome>>
  BY DEF Answer, Deliver, runVars, mainVars
<1>3. /\ ~Held /\ ~Incoming /\ Held' /\ Incoming' /\ ReplyWhole
      /\ "completed" \notin {work, outcome}
  BY <1>2 DEF Held, Incoming, ReplyInv, MayComplete, ShownInv
<1>4. /\ IsChunk(c) /\ c.parts \in PartLists \cup {<<>>}
      /\ c \in Messages => c.usage = NoReport /\ c.finished
      /\ DeltasOf(c) \in Seq(Nat) /\ sent.deltas \in Seq(Nat)
      /\ reply.content \in Seq(Nat)
  BY ChunksSent, ChunkParts, ChunkDeltas DEF ShownInv
<1>5. PICK s : s = sent'
  OBVIOUS
<1>6. /\ chunk' = c /\ s.deltas = sent.deltas \o DeltasOf(c)
      /\ s.parts = sent.parts \o c.parts
      /\ s.finished = (sent.finished \/ c.finished)
      /\ s.usage = IF c.usage = NoReport THEN sent.usage ELSE c.usage
  BY <1>1, <1>5 DEF Send
<1>7. Selected(s.deltas, Nat \ {0}) = reply.content \o TextOf(c)
  <2>1. Selected(sent.deltas, Nat \ {0}) = reply.content
    BY <1>3, <1>4, ConcatEmptySeq DEF ReplyWhole
  <2>2. Selected(DeltasOf(c), Nat \ {0}) = TextOf(c)
    BY <1>4, DeltaText
  <2>3. PICK v, d, S : v = sent.deltas /\ d = DeltasOf(c) /\ S = Nat \ {0}
    OBVIOUS
  <2>4. Selected(v \o d, S) = Selected(v, S) \o Selected(d, S)
    <3>1. v \in Seq(Nat) /\ d \in Seq(Nat)
      BY <1>4, <2>3
    <3> QED
      BY <3>1, SelectedConcat
  <2> QED
    BY <1>6, <2>1, <2>2, <2>3, <2>4
<1>8. PICK parts : parts = s.parts
  OBVIOUS
<1>9. /\ parts \in Seq(Fragments)
      /\ AddParts(Assembled(sent.parts), c.parts) = Assembled(parts)
      /\ provider # "indexed" /\ AllHeaded =>
           \A d \in Calls : Selected(parts, PartsOf(d)) # <<>> =>
                              Selected(parts, PartsOf(d))[1].head
  <2>1. sent.parts \in Seq(Fragments)
    BY DEF ReplyInv
  <2> QED
    BY <1>4, <1>6, <1>8, <2>1, PartsAdded
<1>10. Assembled(s.parts) = AddParts(reply.calls, c.parts)
  <2>1. Assembled(sent.parts) = reply.calls
    BY <1>3, NothingAdded DEF ReplyWhole
  <2> QED
    BY <1>8, <1>9, <2>1
<1>11. s.usage = UsageOf(chunk)'
  BY <1>2, <1>3, <1>6 DEF ReplyWhole, UsageOf
<1>12. TextOf(chunk)' = TextOf(c)
  BY <1>6 DEF TextOf
<1>13. PICK r, text, rest : r = reply /\ text = TextOf(c) /\ rest = c.parts
  OBVIOUS
<1>14. ReplyWhole'
  <2>1. /\ provider' = provider /\ reply' = r /\ sent' = s
        /\ text = IF Held' THEN TextOf(chunk)' ELSE <<>>
        /\ rest = IF Held' THEN chunk'.parts ELSE <<>>
    BY <1>2, <1>3, <1>5, <1>6, <1>12, <1>13
  <2>2. /\ Selected(s.deltas, Nat \ {0}) = r.content \o text
        /\ Assembled(s.parts) = AddParts(r.calls, rest)
        /\ s.usage = IF Incoming' THEN UsageOf(chunk)' ELSE r.usage
    BY <1>3, <1>7, <1>10, <1>11, <1>13
  <2> QED
    BY <2>1, <2>2, WholeAfter
<1>15. provider' # "indexed" => AllHeaded'
  <2>1. SUFFICES ASSUME provider # "indexed" PROVE AllHeaded'
    BY <1>2
  <2>2. \A d \in Calls : Selected(parts, PartsOf(d)) # <<>> =>
                           Selected(parts, PartsOf(d))[1].head
    BY <1>9, <2>1 DEF ReplyInv
  <2>3. sent'.parts = parts
    BY <1>5, <1>8
  <2> QED
    BY <2>2, <2>3 DEF AllHeaded, SentOf
<1>16. /\ (sent.parts \in Seq(Fragments))'
       /\ (gen \in {"fresh", "requesting"} => reply = NoReply)'
       /\ (gen = "requesting" /\ Incoming => chunk.usage = NoReport /\ sent.finished)'
       /\ (reply.finished \/ (Incoming /\ chunk.finished) => sent.finished)'
  <2>1. /\ gen \in {"fresh", "requesting"} => reply = NoReply
        /\ reply.finished => sent.finished
    BY DEF ReplyInv
  <2> QED
    BY <1>1, <1>2, <1>4, <1>5, <1>6, <1>8, <1>9, <2>1 DEF NoReply
<1> QED
  BY <1>2, <1>3, <1>14, <1>15, <1>16 DEF ReplyInv

\* At first nothing is sent.
LEMMA NothingAssembled == Assembled(<<>>) = <<>>
<1>1. \A c : Selected(<<>>, PartsOf(c)) = <<>>
  BY SelectedEmpty
<1>2. {KeyOf(c) : c \in {d \in Calls : Selected(<<>>, PartsOf(d)) # <<>>}} = {}
  BY <1>1
<1> QED
  BY <1>2 DEF Assembled

\* A new request has an empty reply.
LEMMA BeginReply ==
    ASSUME BeginRequest
    PROVE  ReplyInv'
<1>1. /\ gen' = "fresh" /\ arrived' = "none" /\ work' = "none" /\ outcome' = "none"
      /\ reply' = NoReply /\ provider' = provider
      /\ ~Held' /\ ~Incoming'
  BY DEF BeginRequest, Held, Incoming
<1>2. PICK s : /\ sent' = s /\ s.deltas = <<>> /\ s.parts = <<>>
               /\ s.usage = NoReport
  <2>1. PICK s : s = [NothingSent EXCEPT !.chunks = sent.chunks]
    OBVIOUS
  <2>2. s.deltas = <<>> /\ s.parts = <<>> /\ s.usage = NoReport
    BY <2>1 DEF NothingSent
  <2>3. sent' = s
    BY <2>1 DEF BeginRequest
  <2> QED
    BY <2>2, <2>3
<1>3. AllHeaded'
  <2>1. \A c : SentOf(c)' = <<>>
    BY <1>2, SelectedEmpty DEF SentOf
  <2> QED
    BY <2>1 DEF AllHeaded
<1>4. PICK r, text, rest : r = NoReply /\ text = <<>> /\ rest = <<>>
  OBVIOUS
<1>5. /\ Selected(s.deltas, Nat \ {0}) = r.content \o text
      /\ Assembled(s.parts) = AddParts(r.calls, rest)
      /\ s.usage = r.usage
  <2>1. /\ r.content = <<>> /\ r.calls = <<>> /\ r.usage = NoReport
        /\ r.content \o text = <<>>
    BY <1>4 DEF NoReply
  <2>2. Selected(<<>>, Nat \ {0}) = <<>>
    BY SelectedEmpty
  <2> QED
    BY <1>2, <1>4, <2>1, <2>2, NothingAssembled, NothingAdded
<1>6. ReplyWhole'
  BY <1>1, <1>2, <1>4, <1>5, WholeAfter
<1> QED
  BY <1>1, <1>2, <1>3, <1>6 DEF ReplyInv, NoReply

\* While a request may complete, its reply with the rest of the chunk at hand is
\* what the provider sent.
THEOREM ReplyInvariant == Spec => []ReplyInv
<1>1. Init => ReplyInv
  <2>1. SUFFICES ASSUME Init PROVE ReplyInv
    OBVIOUS
  <2>2. /\ gen = "over" /\ work = "none" /\ outcome = "none" /\ arrived = "none"
        /\ raising = "none" /\ sent.parts = <<>> /\ ~reply.finished
    BY <2>1 DEF Init, NoReply, NothingSent
  <2>3. AllHeaded
    BY <2>2, SelectedEmpty DEF AllHeaded, SentOf
  <2> QED
    BY <2>2, <2>3 DEF ReplyInv, MayComplete, Incoming
<1>2. FlowInv /\ ShownInv /\ UsageInv /\ ReplyInv /\ [Next]_vars => ReplyInv'
  <2>1. SUFFICES ASSUME FlowInv, ShownInv, UsageInv, ReplyInv, [Next]_vars
                 PROVE  ReplyInv'
    OBVIOUS
  <2>2. CASE BeginRequest
    BY <2>2, BeginReply
  <2>3. CASE RequestStep \/ Abort \/ CancelTask \/ UNCHANGED vars
    BY <2>1, <2>3, QuietRequest, QuietStep
  <2>4. CASE GeneratorStep
    <3>1. CASE \/ StartGenerator \/ NeverRan \/ ThrowCancelled \/ CloseResponse
               \/ InterruptClose
      BY <2>1, <3>1, QuietGenerator, QuietStep
    <3>2. CASE (TakeAnswer \/ TakeChunk) /\ arrived # "chunk"
      BY <2>1, <3>2, QuietAnswers, QuietStep
    <3>3. CASE TakeAnswer /\ arrived = "chunk"
      BY <2>1, <3>3, AnswerReply
    <3>4. CASE Resume \/ (TakeChunk /\ arrived = "chunk")
      BY <2>1, <3>4, ChunkReply
    <3> QED
      BY <2>4, <3>1, <3>2, <3>3, <3>4 DEF GeneratorStep
  <2>5. CASE Answer \/ Deliver
    BY <2>1, <2>5, QuietAnswers, QuietStep, SendReply
  <2> QED
    BY <2>1, <2>2, <2>3, <2>4, <2>5 DEF Next
<1> QED
  BY <1>1, <1>2, FlowInvariant, ShownInvariant, UsageInvariant, PTL DEF Spec

-----------------------------------------------------------------------------
(* The calls in order.                                                     *)

\* Which of two numbers are selected.
LEMMA SelectedOfTwo ==
    ASSUME NEW x \in Nat, NEW y \in Nat, NEW S
    PROVE  /\ x \in S /\ y \in S => Selected(<<x, y>>, S) = <<x, y>>
           /\ x \in S /\ y \notin S => Selected(<<x, y>>, S) = <<x>>
           /\ x \notin S /\ y \in S => Selected(<<x, y>>, S) = <<y>>
           /\ x \notin S /\ y \notin S => Selected(<<x, y>>, S) = <<>>
<1>1. PICK v, w, e : v = <<x>> /\ w = <<y>> /\ e = <<>>
  OBVIOUS
<1>2. /\ v \in Seq(Nat) /\ Len(v) = 1 /\ v[1] = x
      /\ w \in Seq(Nat) /\ Len(w) = 1 /\ w[1] = y
      /\ v \o w = <<x, y>> /\ e \o w = w /\ v \o e = v /\ e \o e = e
  <2>1. /\ v \in Seq(Nat) /\ Len(v) = 1 /\ v[1] = x
        /\ w \in Seq(Nat) /\ Len(w) = 1 /\ w[1] = y
        /\ e \in Seq(Nat)
    BY <1>1
  <2>2. v \o w = <<x, y>>
    <3>1. PICK t : t = <<x, y>>
      OBVIOUS
    <3>2. t \in Seq(Nat) /\ Len(t) = 2 /\ t[1] = x /\ t[2] = y
      BY <3>1
    <3>3. /\ v \o w \in Seq(Nat) /\ Len(v \o w) = 2
          /\ \A i \in 1..2 : (v \o w)[i] = t[i]
      <4>1. PICK T : T = Nat
        OBVIOUS
      <4>2. v \in Seq(T) /\ w \in Seq(T)
        BY <2>1, <4>1
      <4>3. /\ v \o w \in Seq(T) /\ Len(v \o w) = Len(v) + Len(w)
            /\ \A i \in 1..Len(v) + Len(w) :
                  (v \o w)[i] = IF i <= Len(v) THEN v[i] ELSE w[i - Len(v)]
        BY <4>2, ConcatProperties
      <4>4. (v \o w)[1] = x /\ (v \o w)[2] = y
        BY <2>1, <4>3
      <4> QED
        BY <2>1, <3>2, <4>1, <4>3, <4>4
    <3> QED
      BY <3>1, <3>2, <3>3, SeqEqual
  <2>3. e \o w = w /\ v \o e = v /\ e \o e = e
    BY <1>1, <2>1, ConcatEmptySeq
  <2> QED
    BY <1>1, <2>1, <2>2, <2>3
<1>3. Selected(v \o w, S) = Selected(v, S) \o Selected(w, S)
  BY <1>2, SelectedConcat
<1>4. Selected(v, S) = IF x \in S THEN v ELSE e
  <2>1. \A i \in 1..Len(v) : v[i] = x
    BY <1>2
  <2>2. /\ x \in S => Selected(v, S) = v
        /\ x \notin S => Selected(v, S) = <<>>
    BY <1>2, <2>1, SelectedAll
  <2> QED
    BY <1>1, <2>2
<1>5. Selected(w, S) = IF y \in S THEN w ELSE e
  <2>1. \A i \in 1..Len(w) : w[i] = y
    BY <1>2
  <2>2. /\ y \in S => Selected(w, S) = w
        /\ y \notin S => Selected(w, S) = <<>>
    BY <1>2, <2>1, SelectedAll
  <2> QED
    BY <1>1, <2>2
<1> QED
  BY <1>1, <1>2, <1>3, <1>4, <1>5

\* The first or the last of three is not selected.
LEMMA SelectedOfThree ==
    ASSUME NEW S
    PROVE  /\ 0 \notin S => Selected(<<0, 1, 2>>, S) = Selected(<<1, 2>>, S)
           /\ 2 \notin S => Selected(<<0, 1, 2>>, S) = Selected(<<0, 1>>, S)
<1>1. PICK zero, two, first, last :
        zero = <<0>> /\ two = <<2>> /\ first = <<0, 1>> /\ last = <<1, 2>>
  OBVIOUS
<1>2. /\ zero \in Seq(Nat) /\ Len(zero) = 1 /\ zero[1] = 0
      /\ two \in Seq(Nat) /\ Len(two) = 1 /\ two[1] = 2
      /\ first \in Seq(Nat) /\ last \in Seq(Nat)
      /\ <<0, 1, 2>> = zero \o last /\ <<0, 1, 2>> = first \o two
  BY <1>1
<1>3. ASSUME 0 \notin S PROVE Selected(zero \o last, S) = Selected(last, S)
  <2>1. \A i \in 1..Len(zero) : zero[i] = 0
    BY <1>2
  <2>2. Selected(zero, S) = <<>>
    BY <1>2, <1>3, <2>1, SelectedAll
  <2>3. /\ Selected(zero \o last, S) = Selected(zero, S) \o Selected(last, S)
        /\ Selected(last, S) \in Seq(S \cap Nat)
    BY <1>2, SelectedConcat
  <2> QED
    BY <2>2, <2>3, ConcatEmptySeq
<1>4. ASSUME 2 \notin S PROVE Selected(first \o two, S) = Selected(first, S)
  <2>1. \A i \in 1..Len(two) : two[i] = 2
    BY <1>2
  <2>2. Selected(two, S) = <<>>
    BY <1>2, <1>4, <2>1, SelectedAll
  <2>3. /\ Selected(first \o two, S) = Selected(first, S) \o Selected(two, S)
        /\ Selected(first, S) \in Seq(S \cap Nat)
    BY <1>2, SelectedConcat
  <2> QED
    BY <2>2, <2>3, ConcatEmptySeq
<1> QED
  BY <1>1, <1>2, <1>3, <1>4

\* The keys in order are those of the calls in order.
LEMMA KeysInOrder ==
    ASSUME NEW There \in SUBSET Calls,
           NEW there, there = Selected(<<1, 2>>, There),
           NEW keys, keys = Selected(<<0, 1, 2>>, {KeyOf(c) : c \in There})
    PROVE  /\ DOMAIN keys = DOMAIN there
           /\ \A i \in DOMAIN there : there[i] \in There /\ keys[i] = KeyOf(there[i])
<1>1. PICK K : K = {KeyOf(c) : c \in There}
  OBVIOUS
<1>2. There \subseteq {1, 2}
  BY DEF Calls
<1>3. /\ 1 \in There /\ 2 \in There => there = <<1, 2>>
      /\ 1 \in There /\ 2 \notin There => there = <<1>>
      /\ 1 \notin There /\ 2 \in There => there = <<2>>
      /\ 1 \notin There /\ 2 \notin There => there = <<>>
  BY SelectedOfTwo
<1>4. CASE provider = "indexed"
  <2>1. K = There
    BY <1>1, <1>4 DEF KeyOf
  <2>2. keys = there
    BY <1>1, <1>2, <2>1, SelectedOfThree
  <2>3. \A i \in DOMAIN there : there[i] \in There
    BY <1>3
  <2> QED
    BY <1>4, <2>2, <2>3 DEF KeyOf
<1>5. CASE provider # "indexed"
  <2>1. /\ 2 \notin K /\ (0 \in K <=> 1 \in There) /\ (1 \in K <=> 2 \in There)
    BY <1>1, <1>2, <1>5 DEF KeyOf
  <2>2. keys = Selected(<<0, 1>>, K)
    BY <1>1, <2>1, SelectedOfThree
  <2>3. /\ 1 \in There /\ 2 \in There => keys = <<0, 1>>
        /\ 1 \in There /\ 2 \notin There => keys = <<0>>
        /\ 1 \notin There /\ 2 \in There => keys = <<1>>
        /\ 1 \notin There /\ 2 \notin There => keys = <<>>
    BY <2>1, <2>2, SelectedOfTwo
  <2>4. \A c : KeyOf(c) = c - 1
    BY <1>5 DEF KeyOf
  <2>5. CASE 1 \in There /\ 2 \in There
    <3>1. there = <<1, 2>> /\ keys = <<0, 1>>
      BY <1>3, <2>3, <2>5
    <3>2. /\ DOMAIN there = 1..2 /\ DOMAIN keys = 1..2
          /\ there[1] = 1 /\ keys[1] = 0 /\ there[2] = 2 /\ keys[2] = 1
      BY <3>1
    <3>3. \A i \in 1..2 : there[i] \in There /\ keys[i] = there[i] - 1
      BY <2>5, <3>2
    <3> QED
      BY <2>4, <3>2, <3>3
  <2>6. CASE 1 \in There /\ 2 \notin There
    <3>1. there = <<1>> /\ keys = <<0>>
      BY <1>3, <2>3, <2>6
    <3>2. /\ DOMAIN there = 1..1 /\ DOMAIN keys = 1..1
          /\ there[1] = 1 /\ keys[1] = 0
      BY <3>1
    <3>3. \A i \in 1..1 : there[i] \in There /\ keys[i] = there[i] - 1
      BY <2>6, <3>2
    <3> QED
      BY <2>4, <3>2, <3>3
  <2>7. CASE 1 \notin There /\ 2 \in There
    <3>1. there = <<2>> /\ keys = <<1>>
      BY <1>3, <2>3, <2>7
    <3>2. /\ DOMAIN there = 1..1 /\ DOMAIN keys = 1..1
          /\ there[1] = 2 /\ keys[1] = 1
      BY <3>1
    <3>3. \A i \in 1..1 : there[i] \in There /\ keys[i] = there[i] - 1
      BY <2>7, <3>2
    <3> QED
      BY <2>4, <3>2, <3>3
  <2>8. CASE 1 \notin There /\ 2 \notin There
    BY <1>3, <2>3, <2>4, <2>8
  <2> QED
    BY <2>5, <2>6, <2>7, <2>8
<1> QED
  BY <1>4, <1>5

\* Calls that are put together and all have a head are those that were meant.
LEMMA CallsInOrder ==
    ASSUME AllHeaded, reply.calls = Assembled(sent.parts)
    PROVE  Returned = Meant
<1>1. PICK There : There = {c \in Calls : SentOf(c) # <<>>}
  OBVIOUS
<1>2. PICK there, keys : /\ there = Selected(<<1, 2>>, There)
                         /\ keys = Selected(<<0, 1, 2>>, {KeyOf(c) : c \in There})
  OBVIOUS
<1>3. /\ There \in SUBSET Calls /\ DOMAIN keys = DOMAIN there
      /\ \A i \in DOMAIN there : there[i] \in There /\ keys[i] = KeyOf(there[i])
  BY <1>1, <1>2, KeysInOrder
<1>4. /\ DOMAIN reply.calls = {KeyOf(c) : c \in There}
      /\ \A k \in DOMAIN reply.calls : reply.calls[k] = CallOf(CallAt(k), SentOf(CallAt(k)))
  BY <1>1 DEF Assembled, SentOf
<1>5. ASSUME NEW c \in There
      PROVE  reply.calls[KeyOf(c)] =
               [id |-> c, name |-> <<c>>, arguments |-> Arguments(c, SentOf(c))]
  <2>1. CallAt(KeyOf(c)) = c
    BY <1>3 DEF CallAt, KeyOf, Calls
  <2>2. SentOf(c)[1].head
    BY <1>1 DEF AllHeaded
  <2> QED
    BY <1>4, <2>1, <2>2 DEF CallOf
<1>6. Returned = [i \in DOMAIN keys |-> reply.calls[keys[i]]]
  BY <1>2, <1>4 DEF Returned
<1>7. Meant = [i \in DOMAIN there |->
                 [id |-> there[i], name |-> <<there[i]>>,
                  arguments |-> Arguments(there[i], SentOf(there[i]))]]
  BY <1>1, <1>2 DEF Meant
<1> QED
  BY <1>3, <1>5, <1>6, <1>7

\* A request that completes returns the message the provider sent, all of it:
\* text, calls and last usage report, however calls were cut and interleaved,
\* and never of a stream that broke off before its finish reason.
THEOREM ReturnsReply == Spec => []ReplyExact
<1>1. FlowInv /\ ShownInv /\ ReplyInv => ReplyExact
  <2>1. SUFFICES ASSUME FlowInv, ShownInv, ReplyInv, outcome = "completed"
                 PROVE  /\ sent.finished
                        /\ reply.content = Selected(sent.deltas, Nat \ {0})
                        /\ Returned = Meant
                        /\ reply.usage = sent.usage
    BY DEF ReplyExact
  <2>2. gen = "over" /\ ~Held /\ ~Incoming /\ ReplyWhole /\ reply.content \in Seq(Nat)
    BY <2>1 DEF ShownInv, Held, Incoming, ReplyInv, MayComplete
  <2>3. sent.finished /\ AllHeaded
    BY <2>1 DEF ReplyInv
  <2>4. reply.calls = Assembled(sent.parts)
    BY <2>2, NothingAdded DEF ReplyWhole
  <2> QED
    BY <2>2, <2>3, <2>4, CallsInOrder, ConcatEmptySeq DEF ReplyWhole
<1> QED
  BY <1>1, FlowInvariant, ShownInvariant, ReplyInvariant, PTL
=============================================================================
