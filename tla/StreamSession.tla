--------------------------- MODULE StreamSession ---------------------------
(***************************************************************************)
(* One request after its admission.  Streamed: the handler                 *)
(* (PublicHandler.stream, or responsesStream when bridge is TRUE), the     *)
(* producer goroutine of its streamSession, and the upstream body with its *)
(* idle timer, from PrepareStream to the settlement of the lease.  The     *)
(* body of an Anthropic or Gemini upstream is a nativeSSEBody, which       *)
(* translates each event into the frame a Chat upstream would have sent.   *)
(* Not streamed (json): the handler alone, in Service.Chat.  The client    *)
(* may leave, MAX_STREAM_DURATION may expire, the upstream may fail or     *)
(* fall silent, memory may run out and shutdown may cancel, at any moment. *)
(***************************************************************************)
EXTENDS Naturals, Sequences, SequencesExt, FiniteSets

CONSTANTS MaxFrames,   \* bound: frames the upstream sends
          Protocols,   \* of the upstream: "openai", "anthropic", "gemini"
          None

ASSUME StreamAssumption ==
    MaxFrames \in Nat \ {0} /\ Protocols \subseteq {"openai", "anthropic", "gemini"}

\* "data": a chunk without text (a tool call, another finish reason, an error).
Frames == {"text", "length", "data", "comment", "done", "bad"}
Errors == {"eof", "read", "connect", "canceled", "duration", "idle"}

\* A nil error, and no result, are no result.
ASSUME NoneAssumption == None \notin Frames \cup Errors \cup {"header"}

VARIABLES
    bridge,    \* Responses protocol, bridged to a Chat upstream; never changes
    json,      \* not streamed; never changes
    protocol,  \* Client.protocol; never changes
    hand,      \* where the handler is
    prod,      \* where the producer is
    item,      \* the result the producer is about to send
    queue,     \* s.results, of capacity 1
    closed,    \* s.ctx was cancelled by Close
    client,    \* FALSE: r.Context() is cancelled
    upctx,     \* state of upstreamCtx
    body,      \* the upstream response body
    known,     \* the body is published to prepared.Cancel
    idle,      \* timedBody.timedOut
    handle,    \* Service.upstream[id]
    adapter,   \* nativeSSEBody: "live", "error" (terminalErr) or "eof" (done)
    sent,      \* frames read from upstream, after translation
    out,       \* what was written to the client
    header, done, length, readErr, chars,   \* locals of the handler
    status,    \* outcome.Status
    fault      \* history: upstream or the duration limit really failed it

handVars == <<bridge, hand, header, done, length, readErr, chars, status, out>>
readVars == <<json, protocol, adapter, sent>>
prodVars == <<prod, item, readVars>>
upVars == <<body, known, idle, handle>>
vars == <<bridge, hand, prod, item, queue, closed, client, upctx, body, known, idle,
          handle, readVars, out, header, done, length, readErr, chars, status, fault>>

SessionDone == closed \/ ~client

\* cancel() of upstreamCtx: the first cause stays.
Cancelled == IF upctx = "live" THEN "canceled" ELSE upctx

CtxError == IF upctx = "expired" THEN "duration" ELSE "canceled"

Init ==
    /\ bridge \in BOOLEAN
    /\ json \in BOOLEAN
    /\ protocol \in Protocols
    /\ hand = "start" /\ prod = "none" /\ item = None /\ queue = << >>
    /\ closed = FALSE /\ client = TRUE /\ upctx = "live"
    /\ body = "none" /\ known = FALSE /\ idle = FALSE /\ handle = "ctx"
    /\ adapter = "live" /\ sent = << >> /\ out = << >>
    /\ header = FALSE /\ done = FALSE /\ length = FALSE /\ readErr = None
    /\ chars = 0 /\ status = "aborted" /\ fault = FALSE

-----------------------------------------------------------------------------
(* The producer: prepared.Open, then frames.                               *)

Offer(r) == item' = r /\ prod' = "send"

\* Open sees its context ended, or connects; the connection may fail.
OpenRefused ==
    /\ prod = "open"
    /\ upctx # "live"
    /\ Offer(CtxError)
    /\ UNCHANGED <<handVars, queue, closed, client, upctx, upVars, readVars, fault>>

Connect ==
    /\ prod = "open"
    /\ upctx = "live"
    /\ prod' = "connect"
    /\ UNCHANGED <<handVars, item, queue, closed, client, upctx, upVars, readVars, fault>>

\* Mutant: the connection is not bound to upstreamCtx.
ConnectFailsDetached ==
    /\ prod = "connect"
    /\ upctx = "live"
    /\ Offer("connect")
    /\ fault' = TRUE
    /\ UNCHANGED <<handVars, queue, closed, client, upctx, upVars, readVars>>

\* The upstream refuses, even while the context ends, or the context ends it.
ConnectFails ==
    /\ prod = "connect"
    /\ \/ Offer("connect") /\ fault' = TRUE
       \/ upctx # "live" /\ Offer(CtxError) /\ UNCHANGED fault
    /\ UNCHANGED <<handVars, queue, closed, client, upctx, upVars, readVars>>

Connected ==
    /\ prod = "connect"
    /\ body' = "open"
    /\ prod' = "publish"
    /\ UNCHANGED <<handVars, item, queue, closed, client, upctx, known, idle, handle, readVars, fault>>

Publish ==
    /\ prod = "publish"
    /\ known' = TRUE
    /\ prod' = "recheck"
    /\ UNCHANGED <<handVars, item, queue, closed, client, upctx, body, idle, handle, readVars, fault>>

\* Open's second look at the context: Cancel may have run before Publish.
Recheck ==
    /\ prod = "recheck"
    /\ \/ upctx # "live" /\ Offer(CtxError) /\ body' = "closed" /\ UNCHANGED handle
       \/ upctx = "live" /\ Offer("header") /\ handle' = "body" /\ UNCHANGED body
    /\ UNCHANGED <<handVars, queue, closed, client, upctx, known, idle, readVars, fault>>

\* What an upstream may send.  "error" is an event that reports an error,
\* "stop" is Anthropic's message_stop; Gemini's stream just ends.  Comments
\* pass a nativeSSEBody unchanged and are left to the Chat upstream.
Events ==
    CASE protocol = "openai" -> Frames
      [] protocol = "anthropic" -> {"text", "length", "data", "bad", "error", "stop"}
      [] protocol = "gemini" -> {"text", "length", "data", "bad", "error"}

\* The frame an event becomes; None if it is dropped and the next one is read.
translateAnthropic(e) ==
    CASE e = "stop" -> "done"
      [] e = "error" -> "data"
      [] e = "bad" -> None
      [] OTHER -> e

translateGeminiFrame(e) ==
    CASE e = "error" -> "data"
      [] e = "bad" -> None
      [] OTHER -> e

translate(e) ==
    CASE protocol = "openai" -> e
      [] protocol = "anthropic" -> translateAnthropic(e)
      [] protocol = "gemini" -> translateGeminiFrame(e)

\* The reader may hold frames that came before the body was closed.
ReadFrame ==
    /\ prod = "read"
    /\ adapter = "live"
    /\ Len(sent) < MaxFrames
    /\ \E e \in Events :
          LET f == translate(e) IN
          /\ f # None
          /\ Offer(f)
          /\ sent' = Append(sent, f)
          /\ adapter' = IF e = "error" THEN "error" ELSE adapter
          /\ fault' = (fault \/ e = "error")
    /\ UNCHANGED <<handVars, json, protocol, queue, closed, client, upctx, upVars>>

\* The upstream reported an error: the read after that event fails.
ReadFailed ==
    /\ prod = "read"
    /\ adapter = "error"
    /\ Offer("read")
    /\ UNCHANGED <<handVars, readVars, queue, closed, client, upctx, upVars, fault>>

\* The upstream breaks the body, or the transport sees the context end.
ReadBreaks ==
    /\ prod = "read"
    /\ adapter = "live"
    /\ body = "open"
    /\ \/ Offer("read") /\ fault' = TRUE
       \/ upctx # "live" /\ Offer(CtxError) /\ UNCHANGED fault
    /\ UNCHANGED <<handVars, readVars, queue, closed, client, upctx, upVars>>

\* The body ends; a nativeSSEBody makes a [DONE] of it.
ReadEnds ==
    /\ prod = "read"
    /\ adapter = "live"
    /\ body = "open"
    /\ IF protocol = "openai"
       THEN /\ Offer("eof") /\ fault' = TRUE
            /\ UNCHANGED <<adapter, sent>>
       ELSE /\ Offer("done") /\ adapter' = "eof" /\ sent' = Append(sent, "done")
            /\ UNCHANGED fault
    /\ UNCHANGED <<handVars, json, protocol, queue, closed, client, upctx, upVars>>

\* timedBody.Read of a body that was closed under it names the cause.
ReadClosed ==
    /\ prod = "read"
    /\ adapter = "live"
    /\ body = "closed"
    /\ Offer(IF idle THEN "idle" ELSE CtxError)
    /\ UNCHANGED <<handVars, queue, closed, client, upctx, upVars, readVars, fault>>

\* produce returns: response.Body.Close cancels upstreamCtx too.
Return ==
    /\ prod' = "done"
    /\ item' = None
    /\ IF body = "none"
       THEN UNCHANGED <<body, upctx>>
       ELSE body' = "closed" /\ upctx' = Cancelled
    /\ UNCHANGED <<known, idle, handle>>

\* Mutant: a result is dropped when the channel is full.
SendOrDrop ==
    /\ prod = "send"
    /\ queue' = IF queue = << >> THEN <<item>> ELSE queue
    /\ IF item \in Errors \cup {"done"}
       THEN Return
       ELSE prod' = "read" /\ item' = None /\ UNCHANGED <<upctx, upVars>>
    /\ UNCHANGED <<handVars, closed, client, readVars, fault>>

Send ==
    /\ prod = "send"
    /\ queue = << >>
    /\ queue' = <<item>>
    /\ IF item \in Errors \cup {"done"}
       THEN Return
       ELSE prod' = "read" /\ item' = None /\ UNCHANGED <<upctx, upVars>>
    /\ UNCHANGED <<handVars, closed, client, readVars, fault>>

\* Mutant: send watches the request's context, not the session's.
SendCancelledByClient ==
    /\ prod = "send"
    /\ ~client
    /\ Return
    /\ UNCHANGED <<handVars, queue, closed, client, readVars, fault>>

SendCancelled ==
    /\ prod = "send"
    /\ SessionDone
    /\ Return
    /\ UNCHANGED <<handVars, queue, closed, client, readVars, fault>>

-----------------------------------------------------------------------------
(* Around the request.                                                     *)

\* r.Context() is the parent of the session's and of the upstream's context.
ClientLeaves ==
    /\ client
    /\ hand # "end"
    /\ client' = FALSE
    /\ upctx' = Cancelled
    /\ UNCHANGED <<handVars, prodVars, queue, closed, upVars, fault>>

DurationExpires ==
    /\ upctx = "live"
    /\ upctx' = "expired"
    /\ fault' = TRUE
    /\ UNCHANGED <<handVars, prodVars, queue, closed, client, upVars>>

\* context.AfterFunc of timedBody.
ContextClosesBody ==
    /\ upctx # "live"
    /\ body = "open"
    /\ body' = "closed"
    /\ UNCHANGED <<handVars, prodVars, queue, closed, client, upctx, known, idle, handle, fault>>

\* The timer runs while nothing is read, also while send blocks.
IdleExpires ==
    /\ body = "open"
    /\ prod \in {"publish", "recheck", "send", "read"} \/ hand = "readAll"
    /\ item # "eof" /\ adapter # "eof"
    /\ idle' = TRUE
    /\ body' = "closed"
    /\ fault' = TRUE
    /\ UNCHANGED <<handVars, prodVars, queue, closed, client, upctx, known, handle>>

\* CancelActive of a shutdown.
CancelActive ==
    /\ handle # "none"
    /\ upctx' = Cancelled
    /\ body' = IF handle = "body" THEN "closed" ELSE body
    /\ UNCHANGED <<handVars, prodVars, queue, closed, client, known, idle, handle, fault>>

-----------------------------------------------------------------------------
(* The handler.                                                            *)

\* The deferred function runs next, with this outcome.
Finish(s) == hand' = "close" /\ status' = s

\* One write to the client; a failed one ends the request as aborted.
Write(what, next) ==
    \/ out' = Append(out, what) /\ next
    \/ UNCHANGED out /\ Finish("aborted")

\* newStreamSession: a comment is flushed before the upstream is asked.
Open ==
    /\ hand = "start"
    /\ ~json
    /\ \/ hand' = "loop" /\ prod' = "open" /\ UNCHANGED <<status, upctx>>
       \/ Finish("aborted") /\ upctx' = Cancelled /\ UNCHANGED prod
    /\ UNCHANGED <<bridge, item, readVars, queue, closed, client, upVars, header, done, length,
                   readErr, chars, out, fault>>

\* Next picks any ready case.
NextCancelled ==
    /\ hand = "loop"
    /\ SessionDone
    /\ Finish("aborted")
    /\ UNCHANGED <<bridge, prodVars, queue, closed, client, upctx, upVars, header, done, length,
                   readErr, chars, out, fault>>

HeartbeatFails ==
    /\ hand = "loop"
    /\ Finish("aborted")
    /\ UNCHANGED <<bridge, prodVars, queue, closed, client, upctx, upVars, header, done, length,
                   readErr, chars, out, fault>>

MemoryExceeded ==
    /\ hand = "loop"
    /\ Write("failure", Finish("aborted"))
    /\ UNCHANGED <<bridge, prodVars, queue, closed, client, upctx, upVars, header, done, length,
                   readErr, chars, fault>>

Take ==
    /\ hand = "loop"
    /\ queue # << >>
    /\ queue' = << >>
    /\ UNCHANGED <<bridge, prodVars, closed, client, upctx, upVars, fault>>

Loop == hand' = "loop" /\ UNCHANGED status
Judge == hand' = "judge" /\ UNCHANGED status

TakeHeader ==
    /\ Take
    /\ Head(queue) = "header"
    /\ header' = TRUE
    /\ IF bridge THEN Write("created", Loop) ELSE Loop /\ UNCHANGED out
    /\ UNCHANGED <<done, length, readErr, chars>>

TakeError ==
    /\ Take
    /\ Head(queue) \in Errors
    /\ readErr' = Head(queue)
    /\ Judge
    /\ UNCHANGED <<header, done, length, chars, out>>

\* Mutant: the text is counted before it is written.
TakeFrameChatEager ==
    /\ ~bridge
    /\ Take
    /\ Head(queue) \in Frames
    /\ chars' = chars + (IF Head(queue) = "text" THEN 1 ELSE 0)
    /\ Write(Head(queue), IF Head(queue) \in {"bad", "done"} THEN Judge ELSE Loop)
    /\ readErr' = IF Head(queue) = "bad" THEN "bad" ELSE readErr
    /\ done' = (done \/ Head(queue) = "done")
    /\ length' = (length \/ Head(queue) = "length")
    /\ UNCHANGED header

\* Chat: the frame is written as it came, then looked at.
TakeFrameChat ==
    /\ ~bridge
    /\ Take
    /\ LET f == Head(queue) IN
       /\ f \in Frames
       /\ \/ /\ out' = Append(out, f)
             /\ chars' = chars + (IF f = "text" THEN 1 ELSE 0)
             /\ readErr' = IF f = "bad" THEN "bad" ELSE readErr
             /\ done' = (done \/ f = "done")
             /\ length' = (length \/ f = "length")
             /\ IF f \in {"bad", "done"} THEN Judge ELSE Loop
          \/ /\ Finish("aborted")
             /\ UNCHANGED <<out, chars, readErr, done, length>>
    /\ UNCHANGED header

\* Responses: text becomes a delta event, the other frames are consumed.
TakeFrameBridge ==
    /\ bridge
    /\ Take
    /\ LET f == Head(queue) IN
       /\ f \in Frames
       /\ chars' = chars + (IF f = "text" THEN 1 ELSE 0)
       /\ readErr' = IF f = "bad" THEN "bad" ELSE readErr
       /\ done' = (done \/ f = "done")
       /\ length' = (length \/ f = "length")
       /\ CASE f \in {"text", "comment"} -> Write(f, Loop)
            [] f \in {"bad", "done"} -> Judge /\ UNCHANGED out
            [] f \in {"length", "data"} -> Loop /\ UNCHANGED out
    /\ UNCHANGED header

\* s.results is closed and empty.
TakeClosed ==
    /\ hand = "loop"
    /\ queue = << >>
    /\ prod = "done"
    /\ readErr' = "eof"
    /\ Judge
    /\ UNCHANGED <<bridge, prodVars, queue, closed, client, upctx, upVars, header, done, length,
                   chars, out, fault>>

\* Mutant: the end of the body counts as a complete answer.
ChatTerminalLax ==
    CASE ~client -> "aborted"
      [] client /\ readErr = "canceled" -> "aborted"
      [] client /\ readErr \notin {None, "eof", "canceled"} -> "failed"
      [] OTHER -> "completed"

\* Mutant: a cancelled read is an upstream failure like any other.
ChatTerminalBlames ==
    CASE ~client -> "aborted"
      [] client /\ readErr \notin {None, "eof"} -> "failed"
      [] client /\ readErr \in {None, "eof"} /\ ~(done /\ header) -> "failed"
      [] OTHER -> "completed"

\* ChatTerminal and streamOpenFailure.
ChatTerminal ==
    CASE ~client \/ readErr = "canceled" -> "aborted"
      [] client /\ readErr \notin {None, "eof", "canceled"} -> "failed"
      [] client /\ readErr \in {None, "eof"} /\ ~(done /\ header) -> "failed"
      [] OTHER -> "completed"

\* ResponsesBridgeTerminal: a truncated answer is a failure.
Terminal == IF bridge /\ ChatTerminal = "completed" /\ length THEN "failed" ELSE ChatTerminal

\* The verdict, and what the client is told of it.
Decide ==
    /\ hand = "judge"
    /\ CASE Terminal = "failed" -> Write("failure", Finish("failed"))
         [] Terminal = "completed" /\ bridge -> Write("completed", Finish("completed"))
         [] OTHER -> Finish(Terminal) /\ UNCHANGED out
    /\ UNCHANGED <<bridge, prodVars, queue, closed, client, upctx, upVars, header, done, length,
                   readErr, chars, fault>>

\* streamSession.Close: both contexts, then the body if there is one yet.
CloseCancel ==
    /\ hand = "close"
    /\ hand' = "closeBody"
    /\ closed' = TRUE
    /\ upctx' = Cancelled
    /\ UNCHANGED <<bridge, prodVars, queue, client, upVars, header, done, length, readErr, chars,
                   status, out, fault>>

CloseBody ==
    /\ hand = "closeBody"
    /\ hand' = "wait"
    /\ body' = IF known THEN "closed" ELSE body
    /\ UNCHANGED <<bridge, prodVars, queue, closed, client, upctx, known, idle, handle, header,
                   done, length, readErr, chars, status, out, fault>>

\* Mutant: Close does not wait for the producer.
SettleAtOnce ==
    /\ hand = "wait"
    /\ hand' = "end"
    /\ handle' = "none"
    /\ UNCHANGED <<bridge, prodVars, queue, closed, client, upctx, body, known, idle, header, done,
                   length, readErr, chars, status, out, fault>>

\* <-s.done, then lease.Close: the handle is forgotten.
Settle ==
    /\ hand = "wait"
    /\ prod \in {"none", "done"}
    /\ hand' = "end"
    /\ handle' = "none"
    /\ UNCHANGED <<bridge, prodVars, queue, closed, client, upctx, body, known, idle, header, done,
                   length, readErr, chars, status, out, fault>>

-----------------------------------------------------------------------------
(* Service.Chat: the answer is read as a whole, settled, then written.     *)

StatusOf(e) == IF e = "canceled" THEN "aborted" ELSE "failed"

\* ChatJSON has returned and closed its body.
Answered(s) ==
    /\ hand' = "settle" /\ status' = s
    /\ body' = IF body = "open" THEN "closed" ELSE body

chatVars == <<bridge, prodVars, queue, closed, client, upctx, known, idle, handle, header, done,
              length, readErr, chars, out>>

ChatConnected ==
    /\ hand = "start"
    /\ json
    /\ hand' = "readAll" /\ body' = "open"
    /\ UNCHANGED <<chatVars, status, fault>>

ChatConnectFails ==
    /\ hand = "start"
    /\ json
    /\ \/ Answered("failed") /\ fault' = TRUE
       \/ upctx # "live" /\ Answered(StatusOf(CtxError)) /\ UNCHANGED fault
    /\ UNCHANGED chatVars

\* The body has ended and is valid JSON.
ChatComplete ==
    /\ hand = "readAll" /\ body = "open"
    /\ Answered("completed")
    /\ UNCHANGED <<chatVars, fault>>

\* Not JSON, an error in it (nativeResponseError), or a read that failed.
ChatRejected ==
    /\ hand = "readAll" /\ body = "open"
    /\ \/ Answered("failed") /\ fault' = TRUE
       \/ upctx # "live" /\ Answered(StatusOf(CtxError)) /\ UNCHANGED fault
    /\ UNCHANGED chatVars

\* responseReadError.
ChatReadClosed ==
    /\ hand = "readAll" /\ body = "closed"
    /\ Answered(StatusOf(IF idle THEN "idle" ELSE CtxError))
    /\ UNCHANGED <<chatVars, fault>>

\* lease.Close, and the deferred cancel.
ChatSettle ==
    /\ hand = "settle"
    /\ hand' = "end" /\ handle' = "none" /\ upctx' = Cancelled
    /\ UNCHANGED <<bridge, prodVars, queue, closed, client, body, known, idle, header, done,
                   length, readErr, chars, status, out, fault>>

-----------------------------------------------------------------------------
ProducerStep ==
    \/ OpenRefused \/ Connect \/ ConnectFails \/ Connected \/ Publish \/ Recheck
    \/ ReadFrame \/ ReadFailed \/ ReadBreaks \/ ReadEnds \/ ReadClosed
    \/ Send \/ SendCancelled

\* What a goroutine does without waiting for the upstream to answer.
ProducerRuns ==
    \/ OpenRefused \/ Connect \/ Publish \/ Recheck \/ ReadFailed \/ ReadClosed
    \/ Send \/ SendCancelled
    \/ (ConnectFails /\ upctx # "live")

HandlerStep ==
    \/ Open \/ NextCancelled \/ TakeHeader \/ TakeError \/ TakeFrameChat \/ TakeFrameBridge
    \/ TakeClosed \/ Decide \/ CloseCancel \/ CloseBody \/ Settle
    \/ (ChatConnectFails /\ upctx # "live") \/ ChatReadClosed \/ ChatSettle

Next ==
    \/ ProducerStep \/ HandlerStep \/ HeartbeatFails \/ MemoryExceeded
    \/ ChatConnected \/ ChatConnectFails \/ ChatComplete \/ ChatRejected
    \/ ClientLeaves \/ DurationExpires \/ ContextClosesBody \/ IdleExpires \/ CancelActive

Ended == hand = "end" /\ UNCHANGED vars

Spec == Init /\ [][Next \/ Ended]_vars

(***************************************************************************)
(* Goroutines run, a context's AfterFunc runs, MAX_STREAM_DURATION passes. *)
(* The upstream owes nothing: no fairness for its answers, and a select    *)
(* with several ready cases is not forced to take a particular one.        *)
(***************************************************************************)
LiveSpec ==
    /\ Spec
    /\ WF_vars(ProducerRuns) /\ WF_vars(HandlerStep)
    /\ WF_vars(ContextClosesBody) /\ WF_vars(DurationExpires)

-----------------------------------------------------------------------------
(* Shape of the session.                                                   *)
TypeOK ==
    /\ hand \in {"start", "loop", "judge", "close", "closeBody", "wait", "end",
                 "readAll", "settle"}
    /\ prod \in {"none", "open", "connect", "publish", "recheck", "read", "send", "done"}
    /\ item \in Frames \cup Errors \cup {"header", None}
    /\ queue = << >> \/ \E r \in Frames \cup Errors \cup {"header"} : queue = <<r>>
    /\ bridge \in BOOLEAN /\ json \in BOOLEAN /\ closed \in BOOLEAN /\ client \in BOOLEAN
    /\ known \in BOOLEAN /\ idle \in BOOLEAN /\ header \in BOOLEAN /\ done \in BOOLEAN
    /\ length \in BOOLEAN /\ fault \in BOOLEAN
    /\ upctx \in {"live", "canceled", "expired"}
    /\ body \in {"none", "open", "closed"} /\ handle \in {"none", "ctx", "body"}
    /\ protocol \in Protocols /\ adapter \in {"live", "error", "eof"}
    /\ sent \in Seq(Frames)
    /\ out \in Seq(Frames \cup {"created", "failure", "completed"})
    /\ readErr \in Errors \cup {"bad", None} /\ chars \in Nat
    /\ status \in {"aborted", "failed", "completed"}

\* What a client was given before it was told of a failure.
Delivered == IF out # << >> /\ Last(out) = "failure" THEN Front(out) ELSE out

(* What a Chat client receives is what the upstream sent, in order and     *)
(* without gaps, whatever races the last frame; only a failure follows.    *)
DeliveredInOrder == ~bridge => IsPrefix(Delivered, sent)

(* A streamed request is settled as completed only if its client was given *)
(* the end of the answer: [DONE], or the response.completed event.         *)
CompletedIsWhole ==
    status = "completed" /\ ~json =>
        /\ out # << >> /\ Last(out) = (IF bridge THEN "completed" ELSE "done")
        /\ sent # << >> /\ Last(sent) = "done"

(* "A stream that ends early is an interruption, the part that was         *)
(* received is no complete answer" (docs/client-integration.md): a request *)
(* of an Anthropic upstream is completed only if message_stop arrived, not *)
(* if the body just ended.                                                 *)
AnswerIsWhole ==
    status = "completed" /\ protocol = "anthropic" /\ ~json => adapter # "eof"

(* Chat output is estimated from what was written to the client, also when *)
(* the stream breaks in the middle.                                        *)
BilledWasWritten ==
    ~bridge => chars = Cardinality({i \in DOMAIN out : out[i] = "text"})

(* A request counts against the upstream only if the upstream, or the      *)
(* duration limit, failed it: a leaving client or a shutdown never does.   *)
FailedIsUpstreams ==
    hand = "end" /\ status = "failed" => fault \/ "bad" \in Range(sent) \/ (bridge /\ length)

(* When the handler is done nothing of the request is left: no producer    *)
(* goroutine, no open body, no live context and no entry for CancelActive. *)
NothingLeaks ==
    hand = "end" =>
        /\ prod \in {"none", "done"} /\ body # "open"
        /\ upctx # "live" /\ handle = "none"

(* Every request is settled, even if upstream never answers.               *)
StreamEnds == <>(hand = "end")

(* After a client leaves or a shutdown cancels, nothing waits for the      *)
(* upstream or for MAX_STREAM_DURATION.                                    *)
CancelEnds == (upctx = "canceled") ~> (hand = "end")
=============================================================================
