------------------------ MODULE StreamSessionProofs ------------------------
(***************************************************************************)
(* Proofs about StreamSession, for any number of frames and any set of     *)
(* upstream protocols.                                                     *)
(***************************************************************************)
EXTENDS StreamSession, FiniteSetTheorems, SequenceTheorems, TLAPS

AnyStep == Next \/ Ended

-----------------------------------------------------------------------------
(* The inductive invariant.                                                *)

\* A request that is not streamed has no producer, and writes nothing before
\* it is settled; a streamed one never enters Service.Chat.
Modes ==
    /\ json => /\ prod = "none" /\ queue = << >> /\ out = << >> /\ chars = 0
               /\ hand \in {"start", "readAll", "settle", "end"}
    /\ ~json => hand \notin {"readAll", "settle"}
    /\ hand = "start" => prod = "none" /\ body = "none" /\ out = << >>
    /\ closed => hand \in {"closeBody", "wait", "end"}

\* Who still has to release what, at each point of handler and producer.
Released ==
    /\ ~json /\ prod \in {"none", "open", "connect"} => body = "none"
    /\ known \/ handle = "body" \/ prod \in {"publish", "recheck"} => body # "none"
    /\ prod = "done" => body # "open"
    /\ json /\ hand \in {"settle", "end"} => body # "open"
    /\ hand \in {"closeBody", "wait", "end"} => upctx # "live"
    /\ hand = "end" => handle = "none" /\ prod \in {"none", "done"}

\* What is in the channel, if anything; and whether the upstream finished.
Waiting == IF queue = << >> THEN None ELSE queue[1]
SentDone == sent # << >> /\ Last(sent) = "done"

\* The header goes first.
Sequenced ==
    /\ prod = "send" <=> item # None
    /\ prod \in {"none", "open", "connect", "publish", "recheck"} \/ item = "header" => Waiting = None
    /\ prod = "read" \/ item \in Frames => header \/ Waiting = "header"
    /\ Waiting \in Frames \/ done => header

\* [DONE] or an error goes last, and the producer stops after it; without one
\* of them it stops only for a client that left.
Stops ==
    /\ hand \in {"start", "loop"} => ~done /\ readErr = None
    /\ hand = "judge" => readErr # None \/ done
    /\ Waiting = "done" \/ done => prod = "done"
    /\ item = "done" \/ Waiting = "done" \/ done => SentDone
    /\ prod = "done" /\ hand = "loop" => ~client \/ Waiting \in Errors \cup {"done"}

\* What an error says of the upstream is true.
Caused(e) == e \in {"read", "connect", "duration", "idle", "eof"} => fault
SawBad == \E i \in DOMAIN sent : sent[i] = "bad"

Causes ==
    /\ upctx = "expired" \/ idle \/ adapter = "error" => fault
    /\ Caused(item) /\ Caused(Waiting)
    /\ readErr \in {"read", "connect", "duration", "idle"} => fault
    /\ readErr = "eof" => fault \/ ~client
    /\ item = "bad" \/ Waiting = "bad" \/ readErr = "bad" => SawBad
    /\ status = "failed" => fault \/ SawBad \/ (bridge /\ length)

\* What a Chat client was given, what waits in the channel and what the
\* producer holds are together what was read from the upstream.
Queued == IF Waiting \in Frames THEN 1 ELSE 0
Held == IF item \in Frames THEN 1 ELSE 0

InOrder ==
    ~bridge /\ hand \in {"start", "loop"} =>
        /\ Len(out) + Queued + Held =< Len(sent)
        /\ prod # "done" => Len(out) + Queued + Held = Len(sent)
        /\ Queued = 1 => sent[Len(out) + 1] = Waiting
        /\ Held = 1 => sent[Len(out) + Queued + 1] = item

Agree(n) == n =< Len(sent) /\ \A i \in 1 .. n : out[i] = sent[i]

\* A failure is the last thing a client is told.
Prefixed ==
    ~bridge =>
        \/ Agree(Len(out))
        \/ /\ hand \notin {"start", "loop", "judge"}
           /\ out # << >> /\ Last(out) = "failure" /\ Agree(Len(out) - 1)

\* The end of the answer was written before the request counts as completed.
Ending ==
    /\ hand = "judge" /\ done /\ ~bridge => out # << >> /\ Last(out) = "done"
    /\ status = "completed" /\ ~json =>
           /\ done /\ hand \in {"close", "closeBody", "wait", "end"}
           /\ out # << >> /\ Last(out) = (IF bridge THEN "completed" ELSE "done")

Inv == /\ TypeOK /\ Modes /\ Released /\ Sequenced /\ Stops /\ Causes
       /\ InOrder /\ Prefixed /\ Ending /\ BilledWasWritten

-----------------------------------------------------------------------------
(* The type invariant, in the parts that its proof takes one at a time.    *)

Places ==
    /\ hand \in {"start", "loop", "judge", "close", "closeBody", "wait", "end",
                 "readAll", "settle"}
    /\ prod \in {"none", "open", "connect", "publish", "recheck", "read", "send", "done"}
    /\ upctx \in {"live", "canceled", "expired"}
    /\ body \in {"none", "open", "closed"} /\ handle \in {"none", "ctx", "body"}
    /\ protocol \in Protocols /\ adapter \in {"live", "error", "eof"}
    /\ status \in {"aborted", "failed", "completed"}

Flags ==
    /\ bridge \in BOOLEAN /\ json \in BOOLEAN /\ closed \in BOOLEAN /\ client \in BOOLEAN
    /\ known \in BOOLEAN /\ idle \in BOOLEAN /\ header \in BOOLEAN /\ done \in BOOLEAN
    /\ length \in BOOLEAN /\ fault \in BOOLEAN

Channel ==
    /\ item \in Frames \cup Errors \cup {"header", None}
    /\ queue = << >> \/ \E r \in Frames \cup Errors \cup {"header"} : queue = <<r>>

Texts ==
    /\ sent \in Seq(Frames)
    /\ out \in Seq(Frames \cup {"created", "failure", "completed"})
    /\ readErr \in Errors \cup {"bad", None} /\ chars \in Nat

\* TypeOK is the conjunction of these parts.
LEMMA TypeParts == TypeOK <=> Places /\ Flags /\ Channel /\ Texts
  BY DEF TypeOK, Places, Flags, Channel, Texts

-----------------------------------------------------------------------------
(* What the larger actions do, with their case distinctions worked out.    *)

\* An event that is not dropped becomes a frame; a reported error becomes data.
LEMMA Translated ==
  ASSUME Places, NEW e \in Events, translate(e) # None
  PROVE translate(e) \in Frames /\ (e = "error" => translate(e) = "data")
  <1>1. protocol \in {"openai", "anthropic", "gemini"}
    BY StreamAssumption DEF Places
  <1>2. CASE protocol = "openai"
    BY <1>2 DEF Events, translate, Frames
  <1>3. CASE protocol = "anthropic"
    BY <1>3 DEF Events, translate, translateAnthropic, Frames
  <1>4. CASE protocol = "gemini"
    BY <1>4 DEF Events, translate, translateGeminiFrame, Frames
  <1> QED BY <1>1, <1>2, <1>3, <1>4

\* A frame is read: it goes to sent and is offered, and an error is a fault.
LEMMA FrameRead ==
  ASSUME Places, ReadFrame
  PROVE \E f \in Frames :
          /\ prod = "read" /\ adapter = "live"
          /\ prod' = "send" /\ item' = f /\ sent' = Append(sent, f)
          /\ adapter' \in {"live", "error"} /\ (adapter' = "error" => fault')
          /\ (fault => fault')
  <1>1. PICK e \in Events :
          /\ translate(e) # None /\ Offer(translate(e))
          /\ sent' = Append(sent, translate(e))
          /\ adapter' = IF e = "error" THEN "error" ELSE adapter
          /\ fault' = (fault \/ e = "error")
    BY DEF ReadFrame
  <1>2. translate(e) \in Frames
    BY <1>1, Translated
  <1>3. prod = "read" /\ adapter = "live"
    BY DEF ReadFrame
  <1>4. adapter' \in {"live", "error"} /\ (adapter' = "error" => fault') /\ (fault => fault')
    BY <1>1, <1>3
  <1> QED BY <1>1, <1>2, <1>3, <1>4 DEF Offer

\* What is in the channel.
LEMMA Received ==
  ASSUME Channel, queue # << >>
  PROVE /\ Head(queue) = queue[1] /\ queue = <<queue[1]>>
        /\ queue[1] \in Frames \cup Errors \cup {"header"}
  <1>1. PICK r \in Frames \cup Errors \cup {"header"} : queue = <<r>>
    BY DEF Channel
  <1> QED BY <1>1

\* The channel carries a result or nothing; a step that does not touch the
\* channel, fills it or empties it leaves the result one expects.
LEMMA WaitingIs ==
  ASSUME Channel
  PROVE /\ queue = << >> <=> Waiting = None
        /\ Waiting # None => Head(queue) = Waiting
        /\ Waiting \in Frames \cup Errors \cup {"header", None}
        /\ queue' = queue => Waiting' = Waiting
        /\ queue' = << >> => Waiting' = None
        /\ queue' = <<item>> => Waiting' = item
  BY NoneAssumption, Received DEF Waiting

\* The upstream stays finished, and is finished when [DONE] was read.
LEMMA SentDoneIs ==
  ASSUME Texts
  PROVE /\ sent' = sent => (SentDone' <=> SentDone)
        /\ sent' = Append(sent, "done") => SentDone'
  <1>1. ASSUME sent' = Append(sent, "done") PROVE SentDone'
    BY <1>1 DEF SentDone, Last, Texts
  <1> QED BY <1>1 DEF SentDone

\* A bad frame that was read stays read.
LEMMA SawBadIs ==
  ASSUME Texts
  PROVE /\ sent' = sent => (SawBad' <=> SawBad)
        /\ \A f \in Frames : sent' = Append(sent, f) => (SawBad \/ f = "bad" => SawBad')
  <1>1. ASSUME NEW f \in Frames, sent' = Append(sent, f)
        PROVE SawBad \/ f = "bad" => SawBad'
    <2>1. /\ Len(sent) \in Nat /\ DOMAIN sent = 1 .. Len(sent)
          /\ DOMAIN sent' = 1 .. (Len(sent) + 1)
          /\ \A i \in 1 .. Len(sent) : sent'[i] = sent[i]
          /\ sent'[Len(sent) + 1] = f
      BY <1>1 DEF Texts
    <2> QED BY <2>1 DEF SawBad
  <1> QED BY <1>1 DEF SawBad

\* A frame is bridged: text and comments are written, [DONE] and a bad frame
\* end the loop, anything else is consumed.
LEMMA FrameBridged ==
  ASSUME Channel, TakeFrameBridge
  PROVE /\ bridge /\ hand = "loop" /\ Head(queue) = Waiting /\ Waiting \in Frames
        /\ \/ /\ hand' = "loop" /\ status' = status /\ out' = out
              /\ Waiting \notin {"bad", "done"}
           \/ /\ hand' = "loop" /\ status' = status /\ out' = Append(out, Waiting)
              /\ Waiting \notin {"bad", "done"}
           \/ /\ hand' = "close" /\ status' = "aborted" /\ out' = out
              /\ Waiting \notin {"bad", "done"}
           \/ /\ hand' = "judge" /\ status' = status /\ out' = out
              /\ Waiting \in {"bad", "done"}
  <1> DEFINE f == Waiting
  <1>1. queue # << >> /\ bridge /\ hand = "loop"
    BY DEF TakeFrameBridge, Take
  <1>2. Head(queue) = f
    BY <1>1, WaitingIs
  <1>3. /\ f \in Frames
        /\ CASE f \in {"text", "comment"} -> Write(f, Loop)
            [] f \in {"bad", "done"} -> Judge /\ UNCHANGED out
            [] f \in {"length", "data"} -> Loop /\ UNCHANGED out
    BY <1>2 DEF TakeFrameBridge
  <1>4. CASE f \in {"text", "comment"}
    BY <1>1, <1>2, <1>3, <1>4 DEF Write, Loop, Finish
  <1>5. CASE f \in {"bad", "done"}
    BY <1>1, <1>2, <1>3, <1>5 DEF Judge
  <1>6. CASE f \in {"length", "data"}
    BY <1>1, <1>2, <1>3, <1>6 DEF Loop
  <1> QED BY <1>3, <1>4, <1>5, <1>6 DEF Frames

\* The verdict is one of three, and what is written fits it.
LEMMA Decided ==
  ASSUME Decide
  PROVE /\ hand = "judge" /\ hand' = "close"
        /\ \/ Terminal = "failed" /\ status' = "failed" /\ out' = Append(out, "failure")
           \/ status' = "aborted" /\ out' = out
           \/ /\ Terminal = "completed" /\ bridge /\ status' = "completed"
              /\ out' = Append(out, "completed")
           \/ Terminal = "completed" /\ ~bridge /\ status' = "completed" /\ out' = out
  <1>1. Terminal \in {"aborted", "failed", "completed"}
    BY DEF Terminal, ChatTerminal
  <1>2. CASE Terminal = "failed"
    BY <1>2 DEF Decide, Write, Finish
  <1>3. CASE Terminal = "completed" /\ bridge
    BY <1>3 DEF Decide, Write, Finish
  <1>4. CASE Terminal = "completed" /\ ~bridge
    BY <1>4 DEF Decide, Finish
  <1>5. CASE Terminal = "aborted"
    BY <1>5 DEF Decide, Finish
  <1> QED BY <1>1, <1>2, <1>3, <1>4, <1>5

\* Writing one more frame counts it if it is text.
LEMMA Counted ==
  ASSUME Texts, NEW w \in Frames \cup {"failure"}, out' = Append(out, w)
  PROVE Cardinality({i \in DOMAIN out' : out'[i] = "text"}) =
        Cardinality({i \in DOMAIN out : out[i] = "text"}) + (IF w = "text" THEN 1 ELSE 0)
  <1> DEFINE A == {i \in DOMAIN out : out[i] = "text"}
             B == {i \in DOMAIN out' : out'[i] = "text"}
             n == Len(out)
  <1>1. /\ n \in Nat /\ DOMAIN out = 1 .. n /\ DOMAIN out' = 1 .. (n + 1)
        /\ out'[n + 1] = w /\ \A i \in 1 .. n : out'[i] = out[i]
    BY DEF Texts
  <1>2. IsFiniteSet(A) /\ Cardinality(A) \in Nat
    <2>1. IsFiniteSet(1 .. n)
      BY <1>1, FS_Interval
    <2>2. A \subseteq 1 .. n
      BY <1>1
    <2> QED BY <2>1, <2>2, FS_Subset, FS_CardinalityType
  <1>3. CASE w = "text"
    <2>1. B = A \cup {n + 1} /\ (n + 1) \notin A
      BY <1>1, <1>3
    <2>2. Cardinality(B) = Cardinality(A) + 1
      BY <1>2, <2>1, FS_AddElement
    <2> QED BY <2>2, <1>3
  <1>4. CASE w # "text"
    <2>1. B = A
      BY <1>1, <1>4
    <2> HIDE DEF A, B
    <2>2. Cardinality(B) = Cardinality(A) + 0
      BY <1>2, <2>1
    <2> QED BY <1>4, <2>2 DEF A, B
  <1> QED BY <1>3, <1>4

\* The handler, the producer and the upstream stay at known places.
LEMMA PlacesStep ==
  ASSUME Inv, [AnyStep]_vars PROVE Places'
  <1> USE DEF Places, handVars, readVars, prodVars, upVars, chatVars, vars
  <1>0. Places /\ Channel
    BY TypeParts DEF Inv
  <1>1. CASE OpenRefused
    BY <1>0, <1>1 DEF OpenRefused, Offer, CtxError
  <1>2. CASE Connect
    BY <1>0, <1>2 DEF Connect
  <1>3. CASE ConnectFails
    BY <1>0, <1>3 DEF ConnectFails, Offer, CtxError
  <1>4. CASE Connected
    BY <1>0, <1>4 DEF Connected
  <1>5. CASE Publish
    BY <1>0, <1>5 DEF Publish
  <1>6. CASE Recheck
    BY <1>0, <1>6 DEF Recheck, Offer, CtxError
  <1>7. CASE ReadFrame
    BY <1>0, <1>7, FrameRead DEF ReadFrame
  <1>8. CASE ReadFailed
    BY <1>0, <1>8 DEF ReadFailed, Offer
  <1>9. CASE ReadBreaks
    BY <1>0, <1>9 DEF ReadBreaks, Offer, CtxError
  <1>10. CASE ReadEnds
    BY <1>0, <1>10 DEF ReadEnds, Offer
  <1>11. CASE ReadClosed
    BY <1>0, <1>11 DEF ReadClosed, Offer, CtxError
  <1>12. CASE Send
    BY <1>0, <1>12 DEF Send, Return, Cancelled
  <1>13. CASE SendCancelled
    BY <1>0, <1>13 DEF SendCancelled, Return, Cancelled, SessionDone
  <1>14. CASE Open
    BY <1>0, <1>14 DEF Open, Finish, Cancelled
  <1>15. CASE NextCancelled
    BY <1>0, <1>15 DEF NextCancelled, Finish, SessionDone
  <1>16. CASE TakeHeader
    BY <1>0, <1>16 DEF TakeHeader, Take, Write, Finish, Loop
  <1>17. CASE TakeError
    BY <1>0, <1>17 DEF TakeError, Take, Judge
  <1>18. CASE TakeFrameChat
    BY <1>0, <1>18 DEF TakeFrameChat, Take, Finish, Judge, Loop
  <1>19. CASE TakeFrameBridge
    BY <1>0, <1>19, FrameBridged DEF TakeFrameBridge, Take
  <1>20. CASE TakeClosed
    BY <1>0, <1>20 DEF TakeClosed, Judge
  <1>21. CASE Decide
    BY <1>0, <1>21, Decided DEF Decide
  <1>22. CASE CloseCancel
    BY <1>0, <1>22 DEF CloseCancel, Cancelled
  <1>23. CASE CloseBody
    BY <1>0, <1>23 DEF CloseBody
  <1>24. CASE Settle
    BY <1>0, <1>24 DEF Settle
  <1>25. CASE ChatConnectFails
    BY <1>0, <1>25 DEF ChatConnectFails, Answered, StatusOf, CtxError
  <1>26. CASE ChatReadClosed
    BY <1>0, <1>26 DEF ChatReadClosed, Answered, StatusOf, CtxError
  <1>27. CASE ChatSettle
    BY <1>0, <1>27 DEF ChatSettle, Cancelled
  <1>28. CASE HeartbeatFails
    BY <1>0, <1>28 DEF HeartbeatFails, Finish
  <1>29. CASE MemoryExceeded
    BY <1>0, <1>29 DEF MemoryExceeded, Write, Finish
  <1>30. CASE ChatConnected
    BY <1>0, <1>30 DEF ChatConnected
  <1>31. CASE ChatComplete
    BY <1>0, <1>31 DEF ChatComplete, Answered
  <1>32. CASE ChatRejected
    BY <1>0, <1>32 DEF ChatRejected, Answered, StatusOf, CtxError
  <1>33. CASE ClientLeaves
    BY <1>0, <1>33 DEF ClientLeaves, Cancelled
  <1>34. CASE DurationExpires
    BY <1>0, <1>34 DEF DurationExpires
  <1>35. CASE ContextClosesBody
    BY <1>0, <1>35 DEF ContextClosesBody
  <1>36. CASE IdleExpires
    BY <1>0, <1>36 DEF IdleExpires
  <1>37. CASE CancelActive
    BY <1>0, <1>37 DEF CancelActive, Cancelled
  <1>38. CASE UNCHANGED vars
    BY <1>0, <1>38
  <1> QED
    BY <1>1, <1>2, <1>3, <1>4, <1>5, <1>6, <1>7, <1>8, <1>9, <1>10, <1>11, <1>12, <1>13, <1>14,
       <1>15, <1>16, <1>17, <1>18, <1>19, <1>20, <1>21, <1>22, <1>23, <1>24, <1>25, <1>26, <1>27,
       <1>28, <1>29, <1>30, <1>31, <1>32, <1>33, <1>34, <1>35, <1>36, <1>37, <1>38
    DEF AnyStep, Next, ProducerStep, HandlerStep, Ended

\* The flags stay Boolean.
LEMMA FlagsStep ==
  ASSUME Inv, [AnyStep]_vars PROVE Flags'
  <1> USE DEF Flags, handVars, readVars, prodVars, upVars, chatVars, vars
  <1>0. Flags /\ Places /\ Channel
    BY TypeParts DEF Inv
  <1>1. CASE OpenRefused
    BY <1>0, <1>1 DEF OpenRefused, Offer, CtxError
  <1>2. CASE Connect
    BY <1>0, <1>2 DEF Connect
  <1>3. CASE ConnectFails
    BY <1>0, <1>3 DEF ConnectFails, Offer, CtxError
  <1>4. CASE Connected
    BY <1>0, <1>4 DEF Connected
  <1>5. CASE Publish
    BY <1>0, <1>5 DEF Publish
  <1>6. CASE Recheck
    BY <1>0, <1>6 DEF Recheck, Offer, CtxError
  <1>7. CASE ReadFrame
    BY <1>0, <1>7, FrameRead DEF ReadFrame
  <1>8. CASE ReadFailed
    BY <1>0, <1>8 DEF ReadFailed, Offer
  <1>9. CASE ReadBreaks
    BY <1>0, <1>9 DEF ReadBreaks, Offer, CtxError
  <1>10. CASE ReadEnds
    BY <1>0, <1>10 DEF ReadEnds, Offer
  <1>11. CASE ReadClosed
    BY <1>0, <1>11 DEF ReadClosed, Offer, CtxError
  <1>12. CASE Send
    BY <1>0, <1>12 DEF Send, Return, Cancelled
  <1>13. CASE SendCancelled
    BY <1>0, <1>13 DEF SendCancelled, Return, Cancelled, SessionDone
  <1>14. CASE Open
    BY <1>0, <1>14 DEF Open, Finish, Cancelled
  <1>15. CASE NextCancelled
    BY <1>0, <1>15 DEF NextCancelled, Finish, SessionDone
  <1>16. CASE TakeHeader
    BY <1>0, <1>16 DEF TakeHeader, Take, Write, Finish, Loop
  <1>17. CASE TakeError
    BY <1>0, <1>17 DEF TakeError, Take, Judge
  <1>18. CASE TakeFrameChat
    BY <1>0, <1>18 DEF TakeFrameChat, Take, Finish, Judge, Loop
  <1>19. CASE TakeFrameBridge
    BY <1>0, <1>19, FrameBridged DEF TakeFrameBridge, Take
  <1>20. CASE TakeClosed
    BY <1>0, <1>20 DEF TakeClosed, Judge
  <1>21. CASE Decide
    BY <1>0, <1>21, Decided DEF Decide
  <1>22. CASE CloseCancel
    BY <1>0, <1>22 DEF CloseCancel, Cancelled
  <1>23. CASE CloseBody
    BY <1>0, <1>23 DEF CloseBody
  <1>24. CASE Settle
    BY <1>0, <1>24 DEF Settle
  <1>25. CASE ChatConnectFails
    BY <1>0, <1>25 DEF ChatConnectFails, Answered, StatusOf, CtxError
  <1>26. CASE ChatReadClosed
    BY <1>0, <1>26 DEF ChatReadClosed, Answered, StatusOf, CtxError
  <1>27. CASE ChatSettle
    BY <1>0, <1>27 DEF ChatSettle, Cancelled
  <1>28. CASE HeartbeatFails
    BY <1>0, <1>28 DEF HeartbeatFails, Finish
  <1>29. CASE MemoryExceeded
    BY <1>0, <1>29 DEF MemoryExceeded, Write, Finish
  <1>30. CASE ChatConnected
    BY <1>0, <1>30 DEF ChatConnected
  <1>31. CASE ChatComplete
    BY <1>0, <1>31 DEF ChatComplete, Answered
  <1>32. CASE ChatRejected
    BY <1>0, <1>32 DEF ChatRejected, Answered, StatusOf, CtxError
  <1>33. CASE ClientLeaves
    BY <1>0, <1>33 DEF ClientLeaves, Cancelled
  <1>34. CASE DurationExpires
    BY <1>0, <1>34 DEF DurationExpires
  <1>35. CASE ContextClosesBody
    BY <1>0, <1>35 DEF ContextClosesBody
  <1>36. CASE IdleExpires
    BY <1>0, <1>36 DEF IdleExpires
  <1>37. CASE CancelActive
    BY <1>0, <1>37 DEF CancelActive, Cancelled
  <1>38. CASE UNCHANGED vars
    BY <1>0, <1>38
  <1> QED
    BY <1>1, <1>2, <1>3, <1>4, <1>5, <1>6, <1>7, <1>8, <1>9, <1>10, <1>11, <1>12, <1>13, <1>14,
       <1>15, <1>16, <1>17, <1>18, <1>19, <1>20, <1>21, <1>22, <1>23, <1>24, <1>25, <1>26, <1>27,
       <1>28, <1>29, <1>30, <1>31, <1>32, <1>33, <1>34, <1>35, <1>36, <1>37, <1>38
    DEF AnyStep, Next, ProducerStep, HandlerStep, Ended

\* The producer holds and the channel carries results.
LEMMA ChannelStep ==
  ASSUME Inv, [AnyStep]_vars PROVE Channel'
  <1> USE DEF Channel, handVars, readVars, prodVars, upVars, chatVars, vars
  <1>0. Places /\ Channel /\ Sequenced
    BY TypeParts DEF Inv
  <1>1. CASE OpenRefused
    BY <1>0, <1>1 DEF OpenRefused, Offer, CtxError, Frames, Errors
  <1>2. CASE Connect
    BY <1>0, <1>2 DEF Connect
  <1>3. CASE ConnectFails
    BY <1>0, <1>3 DEF ConnectFails, Offer, CtxError, Frames, Errors
  <1>4. CASE Connected
    BY <1>0, <1>4 DEF Connected
  <1>5. CASE Publish
    BY <1>0, <1>5 DEF Publish
  <1>6. CASE Recheck
    BY <1>0, <1>6 DEF Recheck, Offer, CtxError, Frames, Errors
  <1>7. CASE ReadFrame
    BY <1>0, <1>7, FrameRead DEF ReadFrame
  <1>8. CASE ReadFailed
    BY <1>0, <1>8 DEF ReadFailed, Offer, Frames, Errors
  <1>9. CASE ReadBreaks
    BY <1>0, <1>9 DEF ReadBreaks, Offer, CtxError, Frames, Errors
  <1>10. CASE ReadEnds
    BY <1>0, <1>10 DEF ReadEnds, Offer, Frames, Errors
  <1>11. CASE ReadClosed
    BY <1>0, <1>11 DEF ReadClosed, Offer, CtxError, Frames, Errors
  <1>12. CASE Send
    <2>1. item \in Frames \cup Errors \cup {"header"}
      BY <1>0, <1>12 DEF Send, Sequenced
    <2> QED BY <1>0, <2>1, <1>12 DEF Send, Return
  <1>13. CASE SendCancelled
    BY <1>0, <1>13 DEF SendCancelled, Return, Cancelled, SessionDone
  <1>14. CASE Open
    BY <1>0, <1>14 DEF Open, Finish, Cancelled
  <1>15. CASE NextCancelled
    BY <1>0, <1>15 DEF NextCancelled, Finish, SessionDone
  <1>16. CASE TakeHeader
    BY <1>0, <1>16 DEF TakeHeader, Take, Write, Finish, Loop
  <1>17. CASE TakeError
    BY <1>0, <1>17 DEF TakeError, Take, Judge
  <1>18. CASE TakeFrameChat
    BY <1>0, <1>18 DEF TakeFrameChat, Take, Finish, Judge, Loop
  <1>19. CASE TakeFrameBridge
    BY <1>0, <1>19, FrameBridged DEF TakeFrameBridge, Take
  <1>20. CASE TakeClosed
    BY <1>0, <1>20 DEF TakeClosed, Judge
  <1>21. CASE Decide
    BY <1>0, <1>21, Decided DEF Decide
  <1>22. CASE CloseCancel
    BY <1>0, <1>22 DEF CloseCancel, Cancelled
  <1>23. CASE CloseBody
    BY <1>0, <1>23 DEF CloseBody
  <1>24. CASE Settle
    BY <1>0, <1>24 DEF Settle
  <1>25. CASE ChatConnectFails
    BY <1>0, <1>25 DEF ChatConnectFails, Answered, StatusOf, CtxError
  <1>26. CASE ChatReadClosed
    BY <1>0, <1>26 DEF ChatReadClosed, Answered, StatusOf, CtxError
  <1>27. CASE ChatSettle
    BY <1>0, <1>27 DEF ChatSettle, Cancelled
  <1>28. CASE HeartbeatFails
    BY <1>0, <1>28 DEF HeartbeatFails, Finish
  <1>29. CASE MemoryExceeded
    BY <1>0, <1>29 DEF MemoryExceeded, Write, Finish
  <1>30. CASE ChatConnected
    BY <1>0, <1>30 DEF ChatConnected
  <1>31. CASE ChatComplete
    BY <1>0, <1>31 DEF ChatComplete, Answered
  <1>32. CASE ChatRejected
    BY <1>0, <1>32 DEF ChatRejected, Answered, StatusOf, CtxError
  <1>33. CASE ClientLeaves
    BY <1>0, <1>33 DEF ClientLeaves, Cancelled
  <1>34. CASE DurationExpires
    BY <1>0, <1>34 DEF DurationExpires
  <1>35. CASE ContextClosesBody
    BY <1>0, <1>35 DEF ContextClosesBody
  <1>36. CASE IdleExpires
    BY <1>0, <1>36 DEF IdleExpires
  <1>37. CASE CancelActive
    BY <1>0, <1>37 DEF CancelActive, Cancelled
  <1>38. CASE UNCHANGED vars
    BY <1>0, <1>38
  <1> QED
    BY <1>1, <1>2, <1>3, <1>4, <1>5, <1>6, <1>7, <1>8, <1>9, <1>10, <1>11, <1>12, <1>13, <1>14,
       <1>15, <1>16, <1>17, <1>18, <1>19, <1>20, <1>21, <1>22, <1>23, <1>24, <1>25, <1>26, <1>27,
       <1>28, <1>29, <1>30, <1>31, <1>32, <1>33, <1>34, <1>35, <1>36, <1>37, <1>38
    DEF AnyStep, Next, ProducerStep, HandlerStep, Ended

\* What was read and what was written are sequences of frames.
LEMMA TextsStep ==
  ASSUME Inv, [AnyStep]_vars PROVE Texts'
  <1> USE DEF Texts, handVars, readVars, prodVars, upVars, chatVars, vars
  <1>0. Texts /\ Places /\ Channel
    BY TypeParts DEF Inv
  <1>1. CASE OpenRefused
    BY <1>0, <1>1 DEF OpenRefused, Offer, CtxError
  <1>2. CASE Connect
    BY <1>0, <1>2 DEF Connect
  <1>3. CASE ConnectFails
    BY <1>0, <1>3 DEF ConnectFails, Offer, CtxError
  <1>4. CASE Connected
    BY <1>0, <1>4 DEF Connected
  <1>5. CASE Publish
    BY <1>0, <1>5 DEF Publish
  <1>6. CASE Recheck
    BY <1>0, <1>6 DEF Recheck, Offer, CtxError
  <1>7. CASE ReadFrame
    BY <1>0, <1>7, FrameRead DEF ReadFrame
  <1>8. CASE ReadFailed
    BY <1>0, <1>8 DEF ReadFailed, Offer
  <1>9. CASE ReadBreaks
    BY <1>0, <1>9 DEF ReadBreaks, Offer, CtxError
  <1>10. CASE ReadEnds
    <2>1. "done" \in Frames
      BY DEF Frames
    <2>2. sent' = sent \/ sent' = Append(sent, "done")
      BY <1>10 DEF ReadEnds
    <2> QED BY <1>0, <2>1, <2>2, <1>10 DEF ReadEnds
  <1>11. CASE ReadClosed
    BY <1>0, <1>11 DEF ReadClosed, Offer, CtxError
  <1>12. CASE Send
    BY <1>0, <1>12 DEF Send, Return, Cancelled
  <1>13. CASE SendCancelled
    BY <1>0, <1>13 DEF SendCancelled, Return, Cancelled, SessionDone
  <1>14. CASE Open
    BY <1>0, <1>14 DEF Open, Finish, Cancelled
  <1>15. CASE NextCancelled
    BY <1>0, <1>15 DEF NextCancelled, Finish, SessionDone
  <1>16. CASE TakeHeader
    BY <1>0, <1>16 DEF TakeHeader, Take, Write, Finish, Loop
  <1>17. CASE TakeError
    BY <1>0, <1>17 DEF TakeError, Take, Judge
  <1>18. CASE TakeFrameChat
    <2>1. /\ Head(queue) \in Frames
          /\ out' = Append(out, Head(queue)) \/ out' = out
      BY <1>18 DEF TakeFrameChat
    <2>2. chars' \in Nat
      BY <1>0, <1>18 DEF TakeFrameChat
    <2>3. readErr' \in Errors \cup {"bad", None}
      BY <1>0, <1>18 DEF TakeFrameChat
    <2> QED BY <1>0, <2>1, <2>2, <2>3, <1>18 DEF TakeFrameChat, Take
  <1>19. CASE TakeFrameBridge
    <2>1. /\ Head(queue) \in Frames
          /\ out' = Append(out, Head(queue)) \/ out' = out
      BY <1>0, <1>19, FrameBridged DEF TakeFrameBridge
    <2>2. chars' \in Nat
      BY <1>0, <1>19 DEF TakeFrameBridge
    <2>3. readErr' \in Errors \cup {"bad", None}
      BY <1>0, <1>19 DEF TakeFrameBridge
    <2> QED BY <1>0, <2>1, <2>2, <2>3, <1>19 DEF TakeFrameBridge, Take
  <1>20. CASE TakeClosed
    BY <1>0, <1>20 DEF TakeClosed, Judge, Errors
  <1>21. CASE Decide
    <2>1. out' = out \/ out' = Append(out, "failure") \/ out' = Append(out, "completed")
      BY <1>21, Decided
    <2>2. out' \in Seq(Frames \cup {"created", "failure", "completed"})
      <3> DEFINE S == Frames \cup {"created", "failure", "completed"}
      <3>1. out \in Seq(S) /\ "failure" \in S /\ "completed" \in S
        BY <1>0
      <3> HIDE DEF S
      <3>2. out' \in Seq(S)
        BY <2>1, <3>1
      <3> QED BY <3>2 DEF S
    <2> QED BY <1>0, <2>2, <1>21 DEF Decide
  <1>22. CASE CloseCancel
    BY <1>0, <1>22 DEF CloseCancel, Cancelled
  <1>23. CASE CloseBody
    BY <1>0, <1>23 DEF CloseBody
  <1>24. CASE Settle
    BY <1>0, <1>24 DEF Settle
  <1>25. CASE ChatConnectFails
    BY <1>0, <1>25 DEF ChatConnectFails, Answered, StatusOf, CtxError
  <1>26. CASE ChatReadClosed
    BY <1>0, <1>26 DEF ChatReadClosed, Answered, StatusOf, CtxError
  <1>27. CASE ChatSettle
    BY <1>0, <1>27 DEF ChatSettle, Cancelled
  <1>28. CASE HeartbeatFails
    BY <1>0, <1>28 DEF HeartbeatFails, Finish
  <1>29. CASE MemoryExceeded
    BY <1>0, <1>29 DEF MemoryExceeded, Write, Finish
  <1>30. CASE ChatConnected
    BY <1>0, <1>30 DEF ChatConnected
  <1>31. CASE ChatComplete
    BY <1>0, <1>31 DEF ChatComplete, Answered
  <1>32. CASE ChatRejected
    BY <1>0, <1>32 DEF ChatRejected, Answered, StatusOf, CtxError
  <1>33. CASE ClientLeaves
    BY <1>0, <1>33 DEF ClientLeaves, Cancelled
  <1>34. CASE DurationExpires
    BY <1>0, <1>34 DEF DurationExpires
  <1>35. CASE ContextClosesBody
    BY <1>0, <1>35 DEF ContextClosesBody
  <1>36. CASE IdleExpires
    BY <1>0, <1>36 DEF IdleExpires
  <1>37. CASE CancelActive
    BY <1>0, <1>37 DEF CancelActive, Cancelled
  <1>38. CASE UNCHANGED vars
    BY <1>0, <1>38
  <1> QED
    BY <1>1, <1>2, <1>3, <1>4, <1>5, <1>6, <1>7, <1>8, <1>9, <1>10, <1>11, <1>12, <1>13, <1>14,
       <1>15, <1>16, <1>17, <1>18, <1>19, <1>20, <1>21, <1>22, <1>23, <1>24, <1>25, <1>26, <1>27,
       <1>28, <1>29, <1>30, <1>31, <1>32, <1>33, <1>34, <1>35, <1>36, <1>37, <1>38
    DEF AnyStep, Next, ProducerStep, HandlerStep, Ended

\* The two kinds of request stay apart.
LEMMA ModesStep ==
  ASSUME Inv, [AnyStep]_vars PROVE Modes'
  <1> USE DEF Modes, Flags, Places, handVars, readVars, prodVars, upVars, chatVars, vars
  <1>0. Modes /\ Flags /\ Places /\ Channel /\ Texts /\ Sequenced /\ Released
    BY TypeParts DEF Inv
  <1>1. CASE OpenRefused
    BY <1>0, <1>1 DEF OpenRefused, Offer, CtxError
  <1>2. CASE Connect
    BY <1>0, <1>2 DEF Connect
  <1>3. CASE ConnectFails
    BY <1>0, <1>3 DEF ConnectFails, Offer, CtxError
  <1>4. CASE Connected
    BY <1>0, <1>4 DEF Connected
  <1>5. CASE Publish
    BY <1>0, <1>5 DEF Publish
  <1>6. CASE Recheck
    BY <1>0, <1>6 DEF Recheck, Offer, CtxError
  <1>7. CASE ReadFrame
    BY <1>0, <1>7, FrameRead DEF ReadFrame
  <1>8. CASE ReadFailed
    BY <1>0, <1>8 DEF ReadFailed, Offer
  <1>9. CASE ReadBreaks
    BY <1>0, <1>9 DEF ReadBreaks, Offer, CtxError
  <1>10. CASE ReadEnds
    BY <1>0, <1>10 DEF ReadEnds, Offer
  <1>11. CASE ReadClosed
    BY <1>0, <1>11 DEF ReadClosed, Offer, CtxError
  <1>12. CASE Send
    BY <1>0, <1>12 DEF Send, Return, Cancelled
  <1>13. CASE SendCancelled
    BY <1>0, <1>13 DEF SendCancelled, Return, Cancelled, SessionDone
  <1>14. CASE Open
    BY <1>0, <1>14 DEF Open, Finish, Cancelled
  <1>15. CASE NextCancelled
    BY <1>0, <1>15 DEF NextCancelled, Finish, SessionDone
  <1>16. CASE TakeHeader
    BY <1>0, <1>16 DEF TakeHeader, Take, Write, Finish, Loop
  <1>17. CASE TakeError
    BY <1>0, <1>17 DEF TakeError, Take, Judge
  <1>18. CASE TakeFrameChat
    BY <1>0, <1>18 DEF TakeFrameChat, Take, Finish, Judge, Loop
  <1>19. CASE TakeFrameBridge
    BY <1>0, <1>19, FrameBridged DEF TakeFrameBridge, Take
  <1>20. CASE TakeClosed
    BY <1>0, <1>20 DEF TakeClosed, Judge
  <1>21. CASE Decide
    BY <1>0, <1>21, Decided DEF Decide
  <1>22. CASE CloseCancel
    BY <1>0, <1>22 DEF CloseCancel, Cancelled
  <1>23. CASE CloseBody
    BY <1>0, <1>23 DEF CloseBody
  <1>24. CASE Settle
    BY <1>0, <1>24 DEF Settle
  <1>25. CASE ChatConnectFails
    BY <1>0, <1>25 DEF ChatConnectFails, Answered, StatusOf, CtxError
  <1>26. CASE ChatReadClosed
    BY <1>0, <1>26 DEF ChatReadClosed, Answered, StatusOf, CtxError
  <1>27. CASE ChatSettle
    BY <1>0, <1>27 DEF ChatSettle, Cancelled
  <1>28. CASE HeartbeatFails
    BY <1>0, <1>28 DEF HeartbeatFails, Finish
  <1>29. CASE MemoryExceeded
    BY <1>0, <1>29 DEF MemoryExceeded, Write, Finish
  <1>30. CASE ChatConnected
    BY <1>0, <1>30 DEF ChatConnected
  <1>31. CASE ChatComplete
    BY <1>0, <1>31 DEF ChatComplete, Answered
  <1>32. CASE ChatRejected
    BY <1>0, <1>32 DEF ChatRejected, Answered, StatusOf, CtxError
  <1>33. CASE ClientLeaves
    BY <1>0, <1>33 DEF ClientLeaves, Cancelled
  <1>34. CASE DurationExpires
    BY <1>0, <1>34 DEF DurationExpires
  <1>35. CASE ContextClosesBody
    BY <1>0, <1>35 DEF ContextClosesBody
  <1>36. CASE IdleExpires
    BY <1>0, <1>36 DEF IdleExpires
  <1>37. CASE CancelActive
    BY <1>0, <1>37 DEF CancelActive, Released
  <1>38. CASE UNCHANGED vars
    BY <1>0, <1>38
  <1> QED
    BY <1>1, <1>2, <1>3, <1>4, <1>5, <1>6, <1>7, <1>8, <1>9, <1>10, <1>11, <1>12, <1>13, <1>14,
       <1>15, <1>16, <1>17, <1>18, <1>19, <1>20, <1>21, <1>22, <1>23, <1>24, <1>25, <1>26, <1>27,
       <1>28, <1>29, <1>30, <1>31, <1>32, <1>33, <1>34, <1>35, <1>36, <1>37, <1>38
    DEF AnyStep, Next, ProducerStep, HandlerStep, Ended

\* Whatever was acquired has somebody left to release it.
LEMMA ReleasedStep ==
  ASSUME Inv, [AnyStep]_vars PROVE Released'
  <1> USE DEF Released, Modes, Places, Flags, handVars, readVars, prodVars, upVars, chatVars, vars
  <1>0. Released /\ Modes /\ Places /\ Flags /\ Channel
    BY TypeParts DEF Inv
  <1>1. CASE OpenRefused
    BY <1>0, <1>1 DEF OpenRefused, Offer, CtxError
  <1>2. CASE Connect
    BY <1>0, <1>2 DEF Connect
  <1>3. CASE ConnectFails
    BY <1>0, <1>3 DEF ConnectFails, Offer, CtxError
  <1>4. CASE Connected
    BY <1>0, <1>4 DEF Connected
  <1>5. CASE Publish
    BY <1>0, <1>5 DEF Publish
  <1>6. CASE Recheck
    BY <1>0, <1>6 DEF Recheck, Offer, CtxError
  <1>7. CASE ReadFrame
    BY <1>0, <1>7, FrameRead DEF ReadFrame
  <1>8. CASE ReadFailed
    BY <1>0, <1>8 DEF ReadFailed, Offer
  <1>9. CASE ReadBreaks
    BY <1>0, <1>9 DEF ReadBreaks, Offer, CtxError
  <1>10. CASE ReadEnds
    BY <1>0, <1>10 DEF ReadEnds, Offer
  <1>11. CASE ReadClosed
    BY <1>0, <1>11 DEF ReadClosed, Offer, CtxError
  <1>12. CASE Send
    BY <1>0, <1>12 DEF Send, Return, Cancelled
  <1>13. CASE SendCancelled
    BY <1>0, <1>13 DEF SendCancelled, Return, Cancelled, SessionDone
  <1>14. CASE Open
    BY <1>0, <1>14 DEF Open, Finish, Cancelled
  <1>15. CASE NextCancelled
    BY <1>0, <1>15 DEF NextCancelled, Finish, SessionDone
  <1>16. CASE TakeHeader
    BY <1>0, <1>16 DEF TakeHeader, Take, Write, Finish, Loop
  <1>17. CASE TakeError
    BY <1>0, <1>17 DEF TakeError, Take, Judge
  <1>18. CASE TakeFrameChat
    BY <1>0, <1>18 DEF TakeFrameChat, Take, Finish, Judge, Loop
  <1>19. CASE TakeFrameBridge
    BY <1>0, <1>19, FrameBridged DEF TakeFrameBridge, Take
  <1>20. CASE TakeClosed
    BY <1>0, <1>20 DEF TakeClosed, Judge
  <1>21. CASE Decide
    BY <1>0, <1>21, Decided DEF Decide
  <1>22. CASE CloseCancel
    BY <1>0, <1>22 DEF CloseCancel, Cancelled
  <1>23. CASE CloseBody
    BY <1>0, <1>23 DEF CloseBody
  <1>24. CASE Settle
    BY <1>0, <1>24 DEF Settle
  <1>25. CASE ChatConnectFails
    BY <1>0, <1>25 DEF ChatConnectFails, Answered, StatusOf, CtxError
  <1>26. CASE ChatReadClosed
    BY <1>0, <1>26 DEF ChatReadClosed, Answered, StatusOf, CtxError
  <1>27. CASE ChatSettle
    BY <1>0, <1>27 DEF ChatSettle, Cancelled
  <1>28. CASE HeartbeatFails
    BY <1>0, <1>28 DEF HeartbeatFails, Finish
  <1>29. CASE MemoryExceeded
    BY <1>0, <1>29 DEF MemoryExceeded, Write, Finish
  <1>30. CASE ChatConnected
    BY <1>0, <1>30 DEF ChatConnected
  <1>31. CASE ChatComplete
    BY <1>0, <1>31 DEF ChatComplete, Answered
  <1>32. CASE ChatRejected
    BY <1>0, <1>32 DEF ChatRejected, Answered, StatusOf, CtxError
  <1>33. CASE ClientLeaves
    BY <1>0, <1>33 DEF ClientLeaves, Cancelled
  <1>34. CASE DurationExpires
    BY <1>0, <1>34 DEF DurationExpires
  <1>35. CASE ContextClosesBody
    BY <1>0, <1>35 DEF ContextClosesBody
  <1>36. CASE IdleExpires
    BY <1>0, <1>36 DEF IdleExpires
  <1>37. CASE CancelActive
    BY <1>0, <1>37 DEF CancelActive, Cancelled
  <1>38. CASE UNCHANGED vars
    BY <1>0, <1>38
  <1> QED
    BY <1>1, <1>2, <1>3, <1>4, <1>5, <1>6, <1>7, <1>8, <1>9, <1>10, <1>11, <1>12, <1>13, <1>14,
       <1>15, <1>16, <1>17, <1>18, <1>19, <1>20, <1>21, <1>22, <1>23, <1>24, <1>25, <1>26, <1>27,
       <1>28, <1>29, <1>30, <1>31, <1>32, <1>33, <1>34, <1>35, <1>36, <1>37, <1>38
    DEF AnyStep, Next, ProducerStep, HandlerStep, Ended

\* The header goes first.
LEMMA SequencedStep ==
  ASSUME Inv, [AnyStep]_vars PROVE Sequenced'
  <1> USE DEF Sequenced, Places, Flags, Frames, Errors, handVars, readVars, prodVars, upVars,
      chatVars, vars
  <1>0. Sequenced /\ Stops /\ Modes /\ Places /\ Flags /\ Channel /\ Texts
    BY TypeParts DEF Inv
  <1>1. CASE OpenRefused
    BY <1>0, NoneAssumption, WaitingIs, <1>1 DEF OpenRefused, Offer, CtxError
  <1>2. CASE Connect
    BY <1>0, NoneAssumption, WaitingIs, <1>2 DEF Connect
  <1>3. CASE ConnectFails
    BY <1>0, NoneAssumption, WaitingIs, <1>3 DEF ConnectFails, Offer, CtxError
  <1>4. CASE Connected
    BY <1>0, NoneAssumption, WaitingIs, <1>4 DEF Connected
  <1>5. CASE Publish
    BY <1>0, NoneAssumption, WaitingIs, <1>5 DEF Publish
  <1>6. CASE Recheck
    BY <1>0, NoneAssumption, WaitingIs, <1>6 DEF Recheck, Offer, CtxError
  <1>7. CASE ReadFrame
    BY <1>0, NoneAssumption, WaitingIs, <1>7, FrameRead DEF ReadFrame
  <1>8. CASE ReadFailed
    BY <1>0, NoneAssumption, WaitingIs, <1>8 DEF ReadFailed, Offer
  <1>9. CASE ReadBreaks
    BY <1>0, NoneAssumption, WaitingIs, <1>9 DEF ReadBreaks, Offer, CtxError
  <1>10. CASE ReadEnds
    BY <1>0, NoneAssumption, WaitingIs, <1>10 DEF ReadEnds, Offer
  <1>11. CASE ReadClosed
    BY <1>0, NoneAssumption, WaitingIs, <1>11 DEF ReadClosed, Offer, CtxError
  <1>12. CASE Send
    <2>1. item \in Frames \cup Errors \cup {"header"} /\ Waiting = None /\ Waiting' = item
      BY <1>0, NoneAssumption, WaitingIs, <1>12 DEF Send, Channel
    <2>2. CASE item \in Errors \cup {"done"}
      BY <1>0, NoneAssumption, <2>1, <2>2, <1>12 DEF Send, Return
    <2>3. CASE item \notin Errors \cup {"done"}
      BY <1>0, NoneAssumption, <2>1, <2>3, <1>12 DEF Send
    <2> QED BY <2>2, <2>3
  <1>13. CASE SendCancelled
    BY <1>0, NoneAssumption, WaitingIs, <1>13 DEF SendCancelled, Return, Cancelled, SessionDone
  <1>14. CASE Open
    BY <1>0, NoneAssumption, WaitingIs, <1>14 DEF Open, Modes
  <1>15. CASE NextCancelled
    BY <1>0, NoneAssumption, WaitingIs, <1>15 DEF NextCancelled, Finish, SessionDone
  <1>16. CASE TakeHeader
    BY <1>0, NoneAssumption, WaitingIs, <1>16 DEF TakeHeader, Take, Write, Finish, Loop
  <1>17. CASE TakeError
    BY <1>0, NoneAssumption, WaitingIs, <1>17 DEF TakeError, Take, Judge
  <1>18. CASE TakeFrameChat
    BY <1>0, NoneAssumption, WaitingIs, <1>18 DEF TakeFrameChat, Take, Finish, Judge, Loop
  <1>19. CASE TakeFrameBridge
    BY <1>0, NoneAssumption, WaitingIs, <1>19, FrameBridged DEF TakeFrameBridge, Take
  <1>20. CASE TakeClosed
    BY <1>0, NoneAssumption, WaitingIs, <1>20 DEF TakeClosed, Judge
  <1>21. CASE Decide
    BY <1>0, NoneAssumption, WaitingIs, <1>21, Decided DEF Decide
  <1>22. CASE CloseCancel
    BY <1>0, NoneAssumption, WaitingIs, <1>22 DEF CloseCancel, Cancelled
  <1>23. CASE CloseBody
    BY <1>0, NoneAssumption, WaitingIs, <1>23 DEF CloseBody
  <1>24. CASE Settle
    BY <1>0, NoneAssumption, WaitingIs, <1>24 DEF Settle
  <1>25. CASE ChatConnectFails
    BY <1>0, NoneAssumption, WaitingIs, <1>25 DEF ChatConnectFails, Answered, StatusOf, CtxError
  <1>26. CASE ChatReadClosed
    BY <1>0, NoneAssumption, WaitingIs, <1>26 DEF ChatReadClosed, Answered, StatusOf, CtxError
  <1>27. CASE ChatSettle
    BY <1>0, NoneAssumption, WaitingIs, <1>27 DEF ChatSettle, Cancelled
  <1>28. CASE HeartbeatFails
    BY <1>0, NoneAssumption, WaitingIs, <1>28 DEF HeartbeatFails, Finish
  <1>29. CASE MemoryExceeded
    BY <1>0, NoneAssumption, WaitingIs, <1>29 DEF MemoryExceeded, Write, Finish
  <1>30. CASE ChatConnected
    BY <1>0, NoneAssumption, WaitingIs, <1>30 DEF ChatConnected
  <1>31. CASE ChatComplete
    BY <1>0, NoneAssumption, WaitingIs, <1>31 DEF ChatComplete, Answered
  <1>32. CASE ChatRejected
    BY <1>0, NoneAssumption, WaitingIs, <1>32 DEF ChatRejected, Answered, StatusOf, CtxError
  <1>33. CASE ClientLeaves
    BY <1>0, NoneAssumption, WaitingIs, <1>33 DEF ClientLeaves, Cancelled
  <1>34. CASE DurationExpires
    BY <1>0, NoneAssumption, WaitingIs, <1>34 DEF DurationExpires
  <1>35. CASE ContextClosesBody
    BY <1>0, NoneAssumption, WaitingIs, <1>35 DEF ContextClosesBody
  <1>36. CASE IdleExpires
    BY <1>0, NoneAssumption, WaitingIs, <1>36 DEF IdleExpires
  <1>37. CASE CancelActive
    BY <1>0, NoneAssumption, WaitingIs, <1>37 DEF CancelActive, Cancelled
  <1>38. CASE UNCHANGED vars
    BY <1>0, NoneAssumption, WaitingIs, <1>38
  <1> QED
    BY <1>1, <1>2, <1>3, <1>4, <1>5, <1>6, <1>7, <1>8, <1>9, <1>10, <1>11, <1>12, <1>13, <1>14,
       <1>15, <1>16, <1>17, <1>18, <1>19, <1>20, <1>21, <1>22, <1>23, <1>24, <1>25, <1>26, <1>27,
       <1>28, <1>29, <1>30, <1>31, <1>32, <1>33, <1>34, <1>35, <1>36, <1>37, <1>38
    DEF AnyStep, Next, ProducerStep, HandlerStep, Ended

\* An end goes last, and nothing after it.
LEMMA StopsStep ==
  ASSUME Inv, [AnyStep]_vars PROVE Stops'
  <1> USE DEF Stops, Places, Flags, Frames, Errors, handVars, readVars, prodVars, upVars,
      chatVars, vars
  <1>0. Stops /\ Sequenced /\ Modes /\ Places /\ Flags /\ Channel /\ Texts
    BY TypeParts DEF Inv
  <1>1. CASE OpenRefused
    BY <1>0, NoneAssumption, WaitingIs, SentDoneIs, <1>1 DEF OpenRefused, Offer, CtxError
  <1>2. CASE Connect
    BY <1>0, NoneAssumption, WaitingIs, SentDoneIs, <1>2 DEF Connect
  <1>3. CASE ConnectFails
    BY <1>0, NoneAssumption, WaitingIs, SentDoneIs, <1>3 DEF ConnectFails, Offer, CtxError
  <1>4. CASE Connected
    BY <1>0, NoneAssumption, WaitingIs, SentDoneIs, <1>4 DEF Connected
  <1>5. CASE Publish
    BY <1>0, NoneAssumption, WaitingIs, SentDoneIs, <1>5 DEF Publish
  <1>6. CASE Recheck
    BY <1>0, NoneAssumption, WaitingIs, SentDoneIs, <1>6 DEF Recheck, Offer, CtxError
  <1>7. CASE ReadFrame
    BY <1>0, NoneAssumption, WaitingIs, SentDoneIs, <1>7, FrameRead DEF ReadFrame
  <1>8. CASE ReadFailed
    BY <1>0, NoneAssumption, WaitingIs, SentDoneIs, <1>8 DEF ReadFailed, Offer
  <1>9. CASE ReadBreaks
    BY <1>0, NoneAssumption, WaitingIs, SentDoneIs, <1>9 DEF ReadBreaks, Offer, CtxError
  <1>10. CASE ReadEnds
    BY <1>0, NoneAssumption, WaitingIs, SentDoneIs, <1>10 DEF ReadEnds, Offer
  <1>11. CASE ReadClosed
    BY <1>0, NoneAssumption, WaitingIs, SentDoneIs, <1>11 DEF ReadClosed, Offer, CtxError
  <1>12. CASE Send
    BY <1>0, NoneAssumption, WaitingIs, SentDoneIs, <1>12 DEF Send, Return, Cancelled
  <1>13. CASE SendCancelled
    <2>1. Modes /\ closed => hand # "loop"
      BY DEF Modes
    <2> QED BY <1>0, <2>1, NoneAssumption, WaitingIs, SentDoneIs, <1>13 DEF SendCancelled, Return,
        SessionDone
  <1>14. CASE Open
    BY <1>0, NoneAssumption, WaitingIs, SentDoneIs, <1>14 DEF Open, Finish, Modes
  <1>15. CASE NextCancelled
    BY <1>0, NoneAssumption, WaitingIs, SentDoneIs, <1>15 DEF NextCancelled, Finish, SessionDone
  <1>16. CASE TakeHeader
    BY <1>0, NoneAssumption, WaitingIs, SentDoneIs, <1>16 DEF TakeHeader, Take, Write, Finish, Loop
  <1>17. CASE TakeError
    BY <1>0, NoneAssumption, WaitingIs, SentDoneIs, <1>17 DEF TakeError, Take, Judge
  <1>18. CASE TakeFrameChat
    <2> DEFINE f == Waiting
    <2>1. f \in Frames /\ f # None /\ Waiting' = None /\ Head(queue) = f /\ hand = "loop"
      BY <1>0, NoneAssumption, WaitingIs, <1>18 DEF TakeFrameChat, Take
    <2>2. sent' = sent /\ prod' = prod /\ item' = item /\ client' = client
      BY <1>18 DEF TakeFrameChat, Take
    <2>3. SentDone' <=> SentDone
      BY <1>0, <2>2, SentDoneIs
    <2>4. CASE hand' = "close"
      BY <1>0, NoneAssumption, <2>1, <2>2, <2>3, <2>4, <1>18 DEF TakeFrameChat, Judge, Loop, Finish
    <2>5. CASE hand' # "close"
      BY <1>0, NoneAssumption, <2>1, <2>2, <2>3, <2>5, <1>18 DEF TakeFrameChat, Judge, Loop, Finish
    <2> QED BY <2>4, <2>5
  <1>19. CASE TakeFrameBridge
    <2> DEFINE f == Waiting
    <2>1. f \in Frames /\ f # None /\ Waiting' = None /\ Head(queue) = f /\ hand = "loop"
      BY <1>0, NoneAssumption, WaitingIs, <1>19 DEF TakeFrameBridge, Take
    <2>2. sent' = sent /\ prod' = prod /\ item' = item /\ client' = client
      BY <1>19 DEF TakeFrameBridge, Take
    <2>3. SentDone' <=> SentDone
      BY <1>0, <2>2, SentDoneIs
    <2> QED BY <1>0, NoneAssumption, <2>1, <2>2, <2>3, FrameBridged, <1>19 DEF TakeFrameBridge
  <1>20. CASE TakeClosed
    BY <1>0, NoneAssumption, WaitingIs, SentDoneIs, <1>20 DEF TakeClosed, Judge
  <1>21. CASE Decide
    BY <1>0, NoneAssumption, WaitingIs, SentDoneIs, <1>21, Decided DEF Decide
  <1>22. CASE CloseCancel
    BY <1>0, NoneAssumption, WaitingIs, SentDoneIs, <1>22 DEF CloseCancel, Cancelled
  <1>23. CASE CloseBody
    BY <1>0, NoneAssumption, WaitingIs, SentDoneIs, <1>23 DEF CloseBody
  <1>24. CASE Settle
    BY <1>0, NoneAssumption, WaitingIs, SentDoneIs, <1>24 DEF Settle
  <1>25. CASE ChatConnectFails
    BY <1>0, NoneAssumption, WaitingIs, SentDoneIs, <1>25 DEF ChatConnectFails, Answered,
       StatusOf, CtxError
  <1>26. CASE ChatReadClosed
    BY <1>0, NoneAssumption, WaitingIs, SentDoneIs, <1>26 DEF ChatReadClosed, Answered, StatusOf,
       CtxError
  <1>27. CASE ChatSettle
    BY <1>0, NoneAssumption, WaitingIs, SentDoneIs, <1>27 DEF ChatSettle, Cancelled
  <1>28. CASE HeartbeatFails
    BY <1>0, NoneAssumption, WaitingIs, SentDoneIs, <1>28 DEF HeartbeatFails, Finish
  <1>29. CASE MemoryExceeded
    BY <1>0, NoneAssumption, WaitingIs, SentDoneIs, <1>29 DEF MemoryExceeded, Write, Finish
  <1>30. CASE ChatConnected
    BY <1>0, NoneAssumption, WaitingIs, SentDoneIs, <1>30 DEF ChatConnected
  <1>31. CASE ChatComplete
    BY <1>0, NoneAssumption, WaitingIs, SentDoneIs, <1>31 DEF ChatComplete, Answered
  <1>32. CASE ChatRejected
    BY <1>0, NoneAssumption, WaitingIs, SentDoneIs, <1>32 DEF ChatRejected, Answered, StatusOf,
       CtxError
  <1>33. CASE ClientLeaves
    BY <1>0, NoneAssumption, WaitingIs, SentDoneIs, <1>33 DEF ClientLeaves, Cancelled
  <1>34. CASE DurationExpires
    BY <1>0, NoneAssumption, WaitingIs, SentDoneIs, <1>34 DEF DurationExpires
  <1>35. CASE ContextClosesBody
    BY <1>0, NoneAssumption, WaitingIs, SentDoneIs, <1>35 DEF ContextClosesBody
  <1>36. CASE IdleExpires
    BY <1>0, NoneAssumption, WaitingIs, SentDoneIs, <1>36 DEF IdleExpires
  <1>37. CASE CancelActive
    BY <1>0, NoneAssumption, WaitingIs, SentDoneIs, <1>37 DEF CancelActive, Cancelled
  <1>38. CASE UNCHANGED vars
    BY <1>0, NoneAssumption, WaitingIs, SentDoneIs, <1>38
  <1> QED
    BY <1>1, <1>2, <1>3, <1>4, <1>5, <1>6, <1>7, <1>8, <1>9, <1>10, <1>11, <1>12, <1>13, <1>14,
       <1>15, <1>16, <1>17, <1>18, <1>19, <1>20, <1>21, <1>22, <1>23, <1>24, <1>25, <1>26, <1>27,
       <1>28, <1>29, <1>30, <1>31, <1>32, <1>33, <1>34, <1>35, <1>36, <1>37, <1>38
    DEF AnyStep, Next, ProducerStep, HandlerStep, Ended

\* Errors stay truthful.
LEMMA CausesStep ==
  ASSUME Inv, [AnyStep]_vars PROVE Causes'
  <1> USE DEF Causes, Caused, Places, Flags, Frames, Errors, handVars, readVars, prodVars, upVars,
      chatVars, vars
  <1>0. Causes /\ Stops /\ Sequenced /\ Modes /\ Places /\ Flags /\ Channel /\ Texts
    BY TypeParts DEF Inv
  <1>1. CASE OpenRefused
    BY <1>0, NoneAssumption, WaitingIs, SawBadIs, <1>1 DEF OpenRefused, Offer, CtxError
  <1>2. CASE Connect
    BY <1>0, NoneAssumption, WaitingIs, SawBadIs, <1>2 DEF Connect
  <1>3. CASE ConnectFails
    BY <1>0, NoneAssumption, WaitingIs, SawBadIs, <1>3 DEF ConnectFails, Offer, CtxError
  <1>4. CASE Connected
    BY <1>0, NoneAssumption, WaitingIs, SawBadIs, <1>4 DEF Connected
  <1>5. CASE Publish
    BY <1>0, NoneAssumption, WaitingIs, SawBadIs, <1>5 DEF Publish
  <1>6. CASE Recheck
    BY <1>0, NoneAssumption, WaitingIs, SawBadIs, <1>6 DEF Recheck, Offer, CtxError
  <1>7. CASE ReadFrame
    BY <1>0, NoneAssumption, WaitingIs, SawBadIs, <1>7, FrameRead DEF ReadFrame
  <1>8. CASE ReadFailed
    BY <1>0, NoneAssumption, WaitingIs, SawBadIs, <1>8 DEF ReadFailed, Offer
  <1>9. CASE ReadBreaks
    BY <1>0, NoneAssumption, WaitingIs, SawBadIs, <1>9 DEF ReadBreaks, Offer, CtxError
  <1>10. CASE ReadEnds
    BY <1>0, NoneAssumption, WaitingIs, SawBadIs, <1>10 DEF ReadEnds, Offer
  <1>11. CASE ReadClosed
    BY <1>0, NoneAssumption, WaitingIs, SawBadIs, <1>11 DEF ReadClosed, Offer, CtxError
  <1>12. CASE Send
    BY <1>0, NoneAssumption, WaitingIs, SawBadIs, <1>12 DEF Send, Return, Cancelled
  <1>13. CASE SendCancelled
    BY <1>0, NoneAssumption, WaitingIs, SawBadIs, <1>13 DEF SendCancelled, Return, Cancelled,
       SessionDone
  <1>14. CASE Open
    BY <1>0, NoneAssumption, WaitingIs, SawBadIs, <1>14 DEF Open, Finish, Cancelled
  <1>15. CASE NextCancelled
    BY <1>0, NoneAssumption, WaitingIs, SawBadIs, <1>15 DEF NextCancelled, Finish, SessionDone
  <1>16. CASE TakeHeader
    BY <1>0, NoneAssumption, WaitingIs, SawBadIs, <1>16 DEF TakeHeader, Take, Write, Finish, Loop
  <1>17. CASE TakeError
    BY <1>0, NoneAssumption, WaitingIs, SawBadIs, <1>17 DEF TakeError, Take, Judge
  <1>18. CASE TakeFrameChat
    BY <1>0, NoneAssumption, WaitingIs, SawBadIs, <1>18 DEF TakeFrameChat, Take, Finish, Judge, Loop
  <1>19. CASE TakeFrameBridge
    BY <1>0, NoneAssumption, WaitingIs, SawBadIs, <1>19, FrameBridged DEF TakeFrameBridge, Take
  <1>20. CASE TakeClosed
    BY <1>0, NoneAssumption, WaitingIs, SawBadIs, <1>20 DEF TakeClosed, Judge, Stops
  <1>21. CASE Decide
    <2>1. SawBad' <=> SawBad
      BY <1>0, SawBadIs, <1>21 DEF Decide
    <2>2. ASSUME status' = "failed" PROVE fault \/ SawBad \/ (bridge /\ length)
      <3>1. Terminal = "failed"
        BY <2>2, <1>21, Decided
      <3>2. readErr # None \/ (done /\ header)
        BY <1>0, <1>21 DEF Decide, Stops, Sequenced
      <3>3. CASE ChatTerminal = "failed"
        <4>1. client /\ readErr # "canceled" /\ readErr # None
          BY <1>0, <3>2, <3>3 DEF ChatTerminal
        <4> QED BY <1>0, <4>1 DEF Texts
      <3> QED BY <3>1, <3>3 DEF Terminal
    <2>3. Waiting' = Waiting
      BY <1>0, WaitingIs, <1>21 DEF Decide
    <2> QED BY <1>0, <2>1, <2>2, <2>3, <1>21 DEF Decide
  <1>22. CASE CloseCancel
    BY <1>0, NoneAssumption, WaitingIs, SawBadIs, <1>22 DEF CloseCancel, Cancelled
  <1>23. CASE CloseBody
    BY <1>0, NoneAssumption, WaitingIs, SawBadIs, <1>23 DEF CloseBody
  <1>24. CASE Settle
    BY <1>0, NoneAssumption, WaitingIs, SawBadIs, <1>24 DEF Settle
  <1>25. CASE ChatConnectFails
    BY <1>0, NoneAssumption, WaitingIs, SawBadIs, <1>25 DEF ChatConnectFails, Answered, StatusOf,
       CtxError
  <1>26. CASE ChatReadClosed
    BY <1>0, NoneAssumption, WaitingIs, SawBadIs, <1>26 DEF ChatReadClosed, Answered, StatusOf,
       CtxError
  <1>27. CASE ChatSettle
    BY <1>0, NoneAssumption, WaitingIs, SawBadIs, <1>27 DEF ChatSettle, Cancelled
  <1>28. CASE HeartbeatFails
    BY <1>0, NoneAssumption, WaitingIs, SawBadIs, <1>28 DEF HeartbeatFails, Finish
  <1>29. CASE MemoryExceeded
    BY <1>0, NoneAssumption, WaitingIs, SawBadIs, <1>29 DEF MemoryExceeded, Write, Finish
  <1>30. CASE ChatConnected
    BY <1>0, NoneAssumption, WaitingIs, SawBadIs, <1>30 DEF ChatConnected
  <1>31. CASE ChatComplete
    BY <1>0, NoneAssumption, WaitingIs, SawBadIs, <1>31 DEF ChatComplete, Answered
  <1>32. CASE ChatRejected
    BY <1>0, NoneAssumption, WaitingIs, SawBadIs, <1>32 DEF ChatRejected, Answered, StatusOf,
       CtxError
  <1>33. CASE ClientLeaves
    BY <1>0, NoneAssumption, WaitingIs, SawBadIs, <1>33 DEF ClientLeaves, Cancelled
  <1>34. CASE DurationExpires
    BY <1>0, NoneAssumption, WaitingIs, SawBadIs, <1>34 DEF DurationExpires
  <1>35. CASE ContextClosesBody
    BY <1>0, NoneAssumption, WaitingIs, SawBadIs, <1>35 DEF ContextClosesBody
  <1>36. CASE IdleExpires
    BY <1>0, NoneAssumption, WaitingIs, SawBadIs, <1>36 DEF IdleExpires
  <1>37. CASE CancelActive
    BY <1>0, NoneAssumption, WaitingIs, SawBadIs, <1>37 DEF CancelActive, Cancelled
  <1>38. CASE UNCHANGED vars
    BY <1>0, NoneAssumption, WaitingIs, SawBadIs, <1>38
  <1> QED
    BY <1>1, <1>2, <1>3, <1>4, <1>5, <1>6, <1>7, <1>8, <1>9, <1>10, <1>11, <1>12, <1>13, <1>14,
       <1>15, <1>16, <1>17, <1>18, <1>19, <1>20, <1>21, <1>22, <1>23, <1>24, <1>25, <1>26, <1>27,
       <1>28, <1>29, <1>30, <1>31, <1>32, <1>33, <1>34, <1>35, <1>36, <1>37, <1>38
    DEF AnyStep, Next, ProducerStep, HandlerStep, Ended

\* A Chat client gets the frames one by one.
LEMMA InOrderStep ==
  ASSUME Inv, [AnyStep]_vars PROVE InOrder'
  <1> USE DEF InOrder, Queued, Held, handVars, readVars, prodVars, upVars, chatVars, vars
  <1>0. InOrder /\ Stops /\ Sequenced /\ Modes /\ Places /\ Flags /\ Channel /\ Texts
    BY TypeParts DEF Inv
  <1>n. None \notin Frames /\ (\A r \in Errors \cup {"header"} : r \notin Frames) /\ "done" \in Frames
    BY NoneAssumption DEF Frames, Errors
  <1>l. Len(out) \in Nat /\ Len(sent) \in Nat /\ Queued \in {0, 1}
    BY <1>0 DEF Texts
  <1>a. ASSUME item = None, item' \in Errors \cup {"header"}, prod # "done",
               UNCHANGED <<sent, out, queue, hand, bridge>>
        PROVE InOrder'
    <2>1. Held = 0 /\ Held' = 0 /\ Queued' = Queued /\ Waiting' = Waiting
      BY <1>0, <1>n, <1>a, WaitingIs
    <2> HIDE DEF Held, Queued
    <2> QED BY <1>0, <1>a, <1>l, <2>1
  <1>b. ASSUME NEW f \in Frames, item = None, item' = f, sent' = Append(sent, f), prod # "done",
               UNCHANGED <<out, queue, hand, bridge>>
        PROVE InOrder'
    <2>1. Held = 0 /\ Held' = 1 /\ Queued' = Queued /\ Waiting' = Waiting
      BY <1>0, <1>n, <1>b, WaitingIs
    <2>2. /\ Len(sent') = Len(sent) + 1 /\ sent'[Len(sent) + 1] = f
          /\ \A i \in 1 .. Len(sent) : sent'[i] = sent[i]
      BY <1>0, <1>b DEF Texts
    <2> HIDE DEF Held, Queued
    <2> QED BY <1>0, <1>b, <1>l, <2>1, <2>2
  <1>1. CASE OpenRefused
    <2>1. item = None /\ item' \in Errors \cup {"header"}
      BY <1>0, <1>1 DEF OpenRefused, Offer, CtxError, Sequenced, Errors
    <2> QED BY <1>0, <1>a, <2>1, <1>1 DEF OpenRefused, Offer
  <1>2. CASE Connect
    BY <1>0, NoneAssumption, WaitingIs, <1>2 DEF Connect
  <1>3. CASE ConnectFails
    <2>1. item = None /\ item' \in Errors \cup {"header"}
      BY <1>0, <1>3 DEF ConnectFails, Offer, CtxError, Sequenced, Errors
    <2> QED BY <1>0, <1>a, <2>1, <1>3 DEF ConnectFails, Offer
  <1>4. CASE Connected
    BY <1>0, NoneAssumption, WaitingIs, <1>4 DEF Connected
  <1>5. CASE Publish
    BY <1>0, NoneAssumption, WaitingIs, <1>5 DEF Publish
  <1>6. CASE Recheck
    <2>1. item = None /\ item' \in Errors \cup {"header"}
      BY <1>0, <1>6 DEF Recheck, Offer, CtxError, Sequenced, Errors
    <2> QED BY <1>0, <1>a, <2>1, <1>6 DEF Recheck, Offer
  <1>7. CASE ReadFrame
    <2>1. item = None
      BY <1>0, <1>7 DEF ReadFrame, Sequenced
    <2>2. PICK f \in Frames : item' = f /\ sent' = Append(sent, f)
      BY <1>0, <1>7, FrameRead
    <2> QED BY <1>b, <2>1, <2>2, <1>7 DEF ReadFrame
  <1>8. CASE ReadFailed
    <2>1. item = None /\ item' \in Errors \cup {"header"}
      BY <1>0, <1>8 DEF ReadFailed, Offer, Sequenced, Errors
    <2> QED BY <1>0, <1>a, <2>1, <1>8 DEF ReadFailed, Offer
  <1>9. CASE ReadBreaks
    <2>1. item = None /\ item' \in Errors \cup {"header"}
      BY <1>0, <1>9 DEF ReadBreaks, Offer, CtxError, Sequenced, Errors
    <2> QED BY <1>0, <1>a, <2>1, <1>9 DEF ReadBreaks, Offer
  <1>10. CASE ReadEnds
    <2>1. item = None
      BY <1>0, <1>10 DEF ReadEnds, Sequenced
    <2>2. CASE protocol = "openai"
      BY <1>a, <2>1, <2>2, <1>10 DEF ReadEnds, Offer, Errors
    <2>3. CASE protocol # "openai"
      BY <1>b, <1>n, <2>1, <2>3, <1>10 DEF ReadEnds, Offer
    <2> QED BY <2>2, <2>3
  <1>11. CASE ReadClosed
    <2>1. item = None /\ item' \in Errors \cup {"header"}
      BY <1>0, <1>11 DEF ReadClosed, Offer, CtxError, Sequenced, Errors
    <2> QED BY <1>0, <1>a, <2>1, <1>11 DEF ReadClosed, Offer
  <1>12. CASE Send
    <2>1. Queued = 0 /\ Queued' = Held /\ Held' = 0 /\ Waiting' = item
      BY <1>0, <1>n, NoneAssumption, WaitingIs, <1>12 DEF Send, Return
    <2>2. Held \in {0, 1} /\ UNCHANGED <<out, sent, hand, bridge>> /\ prod # "done"
      BY <1>12 DEF Send
    <2> HIDE DEF Held, Queued
    <2> QED BY <1>0, <1>l, <2>1, <2>2
  <1>13. CASE SendCancelled
    <2>1. Queued' = Queued /\ Held' = 0 /\ Waiting' = Waiting /\ Held \in {0, 1}
      BY <1>0, <1>n, WaitingIs, <1>13 DEF SendCancelled, Return
    <2>2. UNCHANGED <<out, sent, hand, bridge>> /\ prod' = "done"
      BY <1>13 DEF SendCancelled, Return
    <2> HIDE DEF Held, Queued
    <2> QED BY <1>0, <1>l, <2>1, <2>2
  <1>14. CASE Open
    <2>1. Queued' = Queued /\ Held' = Held /\ Waiting' = Waiting
      BY <1>0, WaitingIs, <1>14 DEF Open
    <2>2. UNCHANGED <<out, sent, item, bridge>> /\ prod = "none" /\ hand = "start"
      BY <1>0, <1>14 DEF Open, Modes
    <2> HIDE DEF Held, Queued
    <2> QED BY <1>0, <2>1, <2>2
  <1>15. CASE NextCancelled
    BY <1>0, NoneAssumption, WaitingIs, <1>15 DEF NextCancelled, Finish, SessionDone
  <1>16. CASE TakeHeader
    <2>1. Queued' = 0 /\ Held' = Held /\ Queued = 0
      BY <1>0, <1>n, NoneAssumption, WaitingIs, <1>16 DEF TakeHeader, Take
    <2>2. UNCHANGED <<sent, prod, item, bridge>> /\ hand = "loop" /\ (~bridge => out' = out)
      BY <1>16 DEF TakeHeader, Take, Loop
    <2> HIDE DEF Held, Queued
    <2> QED BY <1>0, <2>1, <2>2
  <1>17. CASE TakeError
    BY <1>0, NoneAssumption, WaitingIs, <1>17 DEF TakeError, Take, Judge
  <1>18. CASE TakeFrameChat
    <2>1. CASE hand' # "loop"
      BY <2>1, <1>18 DEF TakeFrameChat, Judge, Loop, Finish
    <2>2. CASE hand' = "loop"
      <3>1. Waiting \in Frames /\ Queued = 1 /\ Queued' = 0 /\ Held' = Held /\ Held \in {0, 1}
        BY <1>0, <1>n, WaitingIs, <1>18 DEF TakeFrameChat, Take
      <3>2. UNCHANGED <<sent, prod, item, bridge>> /\ hand = "loop" /\ out' = Append(out, Waiting)
        BY <1>0, <2>2, WaitingIs, <1>18 DEF TakeFrameChat, Take, Finish
      <3>3. Len(out') = Len(out) + 1
        BY <1>0, <3>1, <3>2 DEF Texts
      <3> HIDE DEF Held, Queued
      <3> QED BY <1>0, <1>l, <3>1, <3>2, <3>3
    <2> QED BY <2>1, <2>2
  <1>19. CASE TakeFrameBridge
    BY <1>0, NoneAssumption, WaitingIs, <1>19, FrameBridged DEF TakeFrameBridge, Take
  <1>20. CASE TakeClosed
    BY <1>0, NoneAssumption, WaitingIs, <1>20 DEF TakeClosed, Judge
  <1>21. CASE Decide
    BY <1>0, NoneAssumption, WaitingIs, <1>21, Decided DEF Decide
  <1>22. CASE CloseCancel
    BY <1>0, NoneAssumption, WaitingIs, <1>22 DEF CloseCancel, Cancelled
  <1>23. CASE CloseBody
    BY <1>0, NoneAssumption, WaitingIs, <1>23 DEF CloseBody
  <1>24. CASE Settle
    BY <1>0, NoneAssumption, WaitingIs, <1>24 DEF Settle
  <1>25. CASE ChatConnectFails
    BY <1>0, NoneAssumption, WaitingIs, <1>25 DEF ChatConnectFails, Answered, StatusOf, CtxError
  <1>26. CASE ChatReadClosed
    BY <1>0, NoneAssumption, WaitingIs, <1>26 DEF ChatReadClosed, Answered, StatusOf, CtxError
  <1>27. CASE ChatSettle
    BY <1>0, NoneAssumption, WaitingIs, <1>27 DEF ChatSettle, Cancelled
  <1>28. CASE HeartbeatFails
    BY <1>0, NoneAssumption, WaitingIs, <1>28 DEF HeartbeatFails, Finish
  <1>29. CASE MemoryExceeded
    BY <1>0, NoneAssumption, WaitingIs, <1>29 DEF MemoryExceeded, Write, Finish
  <1>30. CASE ChatConnected
    BY <1>0, NoneAssumption, WaitingIs, <1>30 DEF ChatConnected
  <1>31. CASE ChatComplete
    BY <1>0, NoneAssumption, WaitingIs, <1>31 DEF ChatComplete, Answered
  <1>32. CASE ChatRejected
    BY <1>0, NoneAssumption, WaitingIs, <1>32 DEF ChatRejected, Answered, StatusOf, CtxError
  <1>33. CASE ClientLeaves
    BY <1>0, NoneAssumption, WaitingIs, <1>33 DEF ClientLeaves, Cancelled
  <1>34. CASE DurationExpires
    BY <1>0, NoneAssumption, WaitingIs, <1>34 DEF DurationExpires
  <1>35. CASE ContextClosesBody
    BY <1>0, NoneAssumption, WaitingIs, <1>35 DEF ContextClosesBody
  <1>36. CASE IdleExpires
    BY <1>0, NoneAssumption, WaitingIs, <1>36 DEF IdleExpires
  <1>37. CASE CancelActive
    BY <1>0, NoneAssumption, WaitingIs, <1>37 DEF CancelActive, Cancelled
  <1>38. CASE UNCHANGED vars
    BY <1>0, NoneAssumption, WaitingIs, <1>38
  <1> QED
    BY <1>1, <1>2, <1>3, <1>4, <1>5, <1>6, <1>7, <1>8, <1>9, <1>10, <1>11, <1>12, <1>13, <1>14,
       <1>15, <1>16, <1>17, <1>18, <1>19, <1>20, <1>21, <1>22, <1>23, <1>24, <1>25, <1>26, <1>27,
       <1>28, <1>29, <1>30, <1>31, <1>32, <1>33, <1>34, <1>35, <1>36, <1>37, <1>38
    DEF AnyStep, Next, ProducerStep, HandlerStep, Ended

\* What a Chat client was given stays the beginning of what was read.
LEMMA PrefixedStep ==
  ASSUME Inv, [AnyStep]_vars PROVE Prefixed'
  <1> USE DEF Places, handVars, readVars, prodVars, upVars, chatVars, vars
  <1>0. Prefixed /\ InOrder /\ Modes /\ Places /\ Flags /\ Channel /\ Texts
    BY TypeParts DEF Inv
  <1>a. ASSUME UNCHANGED <<out, sent, bridge>>,
               hand \notin {"start", "loop", "judge"} => hand' \notin {"start", "loop", "judge"}
        PROVE Prefixed'
    BY <1>0, <1>a DEF Prefixed, Agree
  <1>b. ASSUME NEW f \in Frames, sent' = Append(sent, f), UNCHANGED <<out, bridge, hand>>
        PROVE Prefixed'
    <2>1. /\ Len(sent) \in Nat /\ Len(out) \in Nat /\ Len(sent') = Len(sent) + 1
          /\ \A i \in 1 .. Len(sent) : sent'[i] = sent[i]
      BY <1>0, <1>b DEF Texts
    <2> QED BY <1>0, <1>b, <2>1 DEF Prefixed, Agree
  <1>c. ASSUME hand \in {"start", "loop", "judge"}, out' = Append(out, "failure"),
               UNCHANGED <<sent, bridge>>, hand' = "close"
        PROVE Prefixed'
    <2>1. /\ Len(out) \in Nat /\ Len(out') = Len(out) + 1 /\ out' # << >> /\ Last(out') = "failure"
          /\ \A i \in 1 .. Len(out) : out'[i] = out[i]
      BY <1>0, <1>c DEF Texts, Last
    <2>2. CASE bridge
      BY <1>c, <2>2 DEF Prefixed
    <2>3. CASE ~bridge
      <3>1. Agree(Len(out))
        BY <1>0, <1>c, <2>3 DEF Prefixed
      <3>2. Agree(Len(out) - 1)'
        BY <1>c, <2>1, <3>1 DEF Agree
      <3> QED BY <1>c, <2>1, <3>2 DEF Prefixed
    <2> QED BY <2>2, <2>3
  <1>1. CASE OpenRefused
    BY <1>0, <1>a, <1>1 DEF OpenRefused, Offer, CtxError
  <1>2. CASE Connect
    BY <1>0, <1>a, <1>2 DEF Connect
  <1>3. CASE ConnectFails
    BY <1>0, <1>a, <1>3 DEF ConnectFails, Offer, CtxError
  <1>4. CASE Connected
    BY <1>0, <1>a, <1>4 DEF Connected
  <1>5. CASE Publish
    BY <1>0, <1>a, <1>5 DEF Publish
  <1>6. CASE Recheck
    BY <1>0, <1>a, <1>6 DEF Recheck, Offer, CtxError
  <1>7. CASE ReadFrame
    <2>1. PICK f \in Frames : sent' = Append(sent, f)
      BY <1>0, <1>7, FrameRead
    <2> QED BY <1>b, <2>1, <1>7 DEF ReadFrame
  <1>8. CASE ReadFailed
    BY <1>0, <1>a, <1>8 DEF ReadFailed, Offer
  <1>9. CASE ReadBreaks
    BY <1>0, <1>a, <1>9 DEF ReadBreaks, Offer, CtxError
  <1>10. CASE ReadEnds
    BY <1>a, <1>b, <1>10 DEF ReadEnds, Frames
  <1>11. CASE ReadClosed
    BY <1>0, <1>a, <1>11 DEF ReadClosed, Offer, CtxError
  <1>12. CASE Send
    BY <1>0, <1>a, <1>12 DEF Send, Return, Cancelled
  <1>13. CASE SendCancelled
    BY <1>0, <1>a, <1>13 DEF SendCancelled, Return, Cancelled, SessionDone
  <1>14. CASE Open
    BY <1>0, <1>a, <1>14 DEF Open, Finish, Cancelled
  <1>15. CASE NextCancelled
    BY <1>0, <1>a, <1>15 DEF NextCancelled, Finish, SessionDone
  <1>16. CASE TakeHeader
    <2>1. CASE bridge
      BY <2>1, <1>16 DEF TakeHeader, Take, Prefixed
    <2>2. CASE ~bridge
      BY <1>a, <2>2, <1>16 DEF TakeHeader, Take, Loop
    <2> QED BY <2>1, <2>2
  <1>17. CASE TakeError
    BY <1>0, <1>a, <1>17 DEF TakeError, Take, Judge
  <1>18. CASE TakeFrameChat
    <2>1. CASE out' = out
      BY <1>a, <2>1, <1>18 DEF TakeFrameChat, Take, Judge, Loop, Finish
    <2>2. CASE out' # out
      <3>1. Waiting \in Frames /\ out' = Append(out, Waiting) /\ UNCHANGED <<sent, bridge>>
        BY <1>0, <2>2, NoneAssumption, WaitingIs, <1>18 DEF TakeFrameChat, Take
      <3>2. ~bridge /\ hand = "loop"
        BY <1>18 DEF TakeFrameChat, Take
      <3>3. Agree(Len(out))
        BY <1>0, <3>2 DEF Prefixed
      <3>4. /\ Len(out) \in Nat /\ Len(sent) \in Nat /\ Len(out') = Len(out) + 1
            /\ out'[Len(out) + 1] = Waiting /\ \A i \in 1 .. Len(out) : out'[i] = out[i]
        BY <1>0, <3>1 DEF Texts
      <3>5. Len(out) + 1 =< Len(sent) /\ sent[Len(out) + 1] = Waiting
        BY <1>0, <3>1, <3>2, <3>4 DEF InOrder, Queued, Held
      <3>6. Agree(Len(out))'
        BY <3>1, <3>3, <3>4, <3>5 DEF Agree
      <3> QED BY <3>6 DEF Prefixed
    <2> QED BY <2>1, <2>2
  <1>19. CASE TakeFrameBridge
    BY <1>19 DEF TakeFrameBridge, Take, Prefixed
  <1>20. CASE TakeClosed
    BY <1>0, <1>a, <1>20 DEF TakeClosed, Judge
  <1>21. CASE Decide
    <2>1. \/ out' = Append(out, "failure") \/ out' = out
          \/ bridge
      BY <1>21, Decided
    <2>2. hand = "judge" /\ hand' = "close" /\ UNCHANGED <<sent, bridge>>
      BY <1>21, Decided DEF Decide
    <2>3. CASE bridge
      BY <2>2, <2>3 DEF Prefixed
    <2> QED BY <1>a, <1>c, <2>1, <2>2, <2>3
  <1>22. CASE CloseCancel
    BY <1>0, <1>a, <1>22 DEF CloseCancel, Cancelled
  <1>23. CASE CloseBody
    BY <1>0, <1>a, <1>23 DEF CloseBody
  <1>24. CASE Settle
    BY <1>0, <1>a, <1>24 DEF Settle
  <1>25. CASE ChatConnectFails
    BY <1>0, <1>a, <1>25 DEF ChatConnectFails, Answered, StatusOf, CtxError
  <1>26. CASE ChatReadClosed
    BY <1>0, <1>a, <1>26 DEF ChatReadClosed, Answered, StatusOf, CtxError
  <1>27. CASE ChatSettle
    BY <1>0, <1>a, <1>27 DEF ChatSettle, Cancelled
  <1>28. CASE HeartbeatFails
    BY <1>0, <1>a, <1>28 DEF HeartbeatFails, Finish
  <1>29. CASE MemoryExceeded
    BY <1>a, <1>c, <1>29 DEF MemoryExceeded, Write, Finish
  <1>30. CASE ChatConnected
    BY <1>0, <1>a, <1>30 DEF ChatConnected
  <1>31. CASE ChatComplete
    BY <1>0, <1>a, <1>31 DEF ChatComplete, Answered
  <1>32. CASE ChatRejected
    BY <1>0, <1>a, <1>32 DEF ChatRejected, Answered, StatusOf, CtxError
  <1>33. CASE ClientLeaves
    BY <1>0, <1>a, <1>33 DEF ClientLeaves, Cancelled
  <1>34. CASE DurationExpires
    BY <1>0, <1>a, <1>34 DEF DurationExpires
  <1>35. CASE ContextClosesBody
    BY <1>0, <1>a, <1>35 DEF ContextClosesBody
  <1>36. CASE IdleExpires
    BY <1>0, <1>a, <1>36 DEF IdleExpires
  <1>37. CASE CancelActive
    BY <1>0, <1>a, <1>37 DEF CancelActive, Cancelled
  <1>38. CASE UNCHANGED vars
    BY <1>0, <1>a, <1>38
  <1> QED
    BY <1>1, <1>2, <1>3, <1>4, <1>5, <1>6, <1>7, <1>8, <1>9, <1>10, <1>11, <1>12, <1>13, <1>14,
       <1>15, <1>16, <1>17, <1>18, <1>19, <1>20, <1>21, <1>22, <1>23, <1>24, <1>25, <1>26, <1>27,
       <1>28, <1>29, <1>30, <1>31, <1>32, <1>33, <1>34, <1>35, <1>36, <1>37, <1>38
    DEF AnyStep, Next, ProducerStep, HandlerStep, Ended

\* A request is completed after its last frame was written.
LEMMA EndingStep ==
  ASSUME Inv, [AnyStep]_vars PROVE Ending'
  <1> USE DEF Ending, Places, Flags, handVars, readVars, prodVars, upVars, chatVars, vars
  <1>0. Ending /\ Stops /\ Sequenced /\ Modes /\ Places /\ Flags /\ Channel /\ Texts
    BY TypeParts DEF Inv
  <1>1. CASE OpenRefused
    BY <1>0, <1>1 DEF OpenRefused, Offer, CtxError
  <1>2. CASE Connect
    BY <1>0, <1>2 DEF Connect
  <1>3. CASE ConnectFails
    BY <1>0, <1>3 DEF ConnectFails, Offer, CtxError
  <1>4. CASE Connected
    BY <1>0, <1>4 DEF Connected
  <1>5. CASE Publish
    BY <1>0, <1>5 DEF Publish
  <1>6. CASE Recheck
    BY <1>0, <1>6 DEF Recheck, Offer, CtxError
  <1>7. CASE ReadFrame
    BY <1>0, <1>7, FrameRead DEF ReadFrame
  <1>8. CASE ReadFailed
    BY <1>0, <1>8 DEF ReadFailed, Offer
  <1>9. CASE ReadBreaks
    BY <1>0, <1>9 DEF ReadBreaks, Offer, CtxError
  <1>10. CASE ReadEnds
    BY <1>0, <1>10 DEF ReadEnds, Offer
  <1>11. CASE ReadClosed
    BY <1>0, <1>11 DEF ReadClosed, Offer, CtxError
  <1>12. CASE Send
    BY <1>0, <1>12 DEF Send, Return, Cancelled
  <1>13. CASE SendCancelled
    BY <1>0, <1>13 DEF SendCancelled, Return, Cancelled, SessionDone
  <1>14. CASE Open
    BY <1>0, <1>14 DEF Open, Finish, Cancelled
  <1>15. CASE NextCancelled
    BY <1>0, <1>15 DEF NextCancelled, Finish, SessionDone
  <1>16. CASE TakeHeader
    BY <1>0, <1>16 DEF TakeHeader, Take, Write, Finish, Loop
  <1>17. CASE TakeError
    BY <1>0, <1>17 DEF TakeError, Take, Judge, Stops
  <1>18. CASE TakeFrameChat
    <2>1. Waiting \in Frames /\ Head(queue) = Waiting /\ hand = "loop" /\ ~done /\ status # "completed"
      BY <1>0, NoneAssumption, WaitingIs, <1>18 DEF TakeFrameChat, Take, Stops, Modes
    <2>2. status' # "completed"
      BY <2>1, <1>18 DEF TakeFrameChat, Judge, Loop, Finish
    <2>3. ASSUME hand' = "judge", done' PROVE out' # << >> /\ Last(out') = "done"
      <3>1. out' = Append(out, "done")
        BY <2>1, <2>3, <1>18 DEF TakeFrameChat, Judge, Loop, Finish
      <3> QED BY <1>0, <3>1 DEF Texts, Last
    <2> QED BY <2>2, <2>3
  <1>19. CASE TakeFrameBridge
    BY <1>0, <1>19, FrameBridged DEF TakeFrameBridge, Take
  <1>20. CASE TakeClosed
    BY <1>0, <1>20 DEF TakeClosed, Judge, Stops
  <1>21. CASE Decide
    <2>1. ASSUME status' = "completed"
          PROVE done' /\ out' # << >> /\ Last(out') = (IF bridge' THEN "completed" ELSE "done")
      <3>1. Terminal = "completed" /\ hand = "judge" /\ UNCHANGED <<bridge, done>>
        BY <2>1, <1>21, Decided DEF Decide
      <3>2. ChatTerminal = "completed"
        BY <3>1 DEF Terminal
      <3>3. done
        BY <3>2 DEF ChatTerminal
      <3>4. CASE ~bridge
        BY <1>0, <2>1, <3>1, <3>3, <3>4, <1>21, Decided
      <3>5. CASE bridge
        <4>1. out' = Append(out, "completed")
          BY <2>1, <3>5, <1>21, Decided
        <4> QED BY <1>0, <3>1, <3>3, <3>5, <4>1 DEF Texts, Last
      <3> QED BY <3>4, <3>5
    <2>2. hand' = "close"
      BY <1>21, Decided
    <2> QED BY <2>1, <2>2
  <1>22. CASE CloseCancel
    BY <1>0, <1>22 DEF CloseCancel, Cancelled
  <1>23. CASE CloseBody
    BY <1>0, <1>23 DEF CloseBody
  <1>24. CASE Settle
    BY <1>0, <1>24 DEF Settle
  <1>25. CASE ChatConnectFails
    BY <1>0, <1>25 DEF ChatConnectFails, Answered, StatusOf, CtxError
  <1>26. CASE ChatReadClosed
    BY <1>0, <1>26 DEF ChatReadClosed, Answered, StatusOf, CtxError
  <1>27. CASE ChatSettle
    BY <1>0, <1>27 DEF ChatSettle, Cancelled
  <1>28. CASE HeartbeatFails
    BY <1>0, <1>28 DEF HeartbeatFails, Finish
  <1>29. CASE MemoryExceeded
    BY <1>0, <1>29 DEF MemoryExceeded, Write, Finish
  <1>30. CASE ChatConnected
    BY <1>0, <1>30 DEF ChatConnected
  <1>31. CASE ChatComplete
    BY <1>0, <1>31 DEF ChatComplete, Answered, Modes
  <1>32. CASE ChatRejected
    BY <1>0, <1>32 DEF ChatRejected, Answered, StatusOf, CtxError
  <1>33. CASE ClientLeaves
    BY <1>0, <1>33 DEF ClientLeaves, Cancelled
  <1>34. CASE DurationExpires
    BY <1>0, <1>34 DEF DurationExpires
  <1>35. CASE ContextClosesBody
    BY <1>0, <1>35 DEF ContextClosesBody
  <1>36. CASE IdleExpires
    BY <1>0, <1>36 DEF IdleExpires
  <1>37. CASE CancelActive
    BY <1>0, <1>37 DEF CancelActive, Cancelled
  <1>38. CASE UNCHANGED vars
    BY <1>0, <1>38
  <1> QED
    BY <1>1, <1>2, <1>3, <1>4, <1>5, <1>6, <1>7, <1>8, <1>9, <1>10, <1>11, <1>12, <1>13, <1>14,
       <1>15, <1>16, <1>17, <1>18, <1>19, <1>20, <1>21, <1>22, <1>23, <1>24, <1>25, <1>26, <1>27,
       <1>28, <1>29, <1>30, <1>31, <1>32, <1>33, <1>34, <1>35, <1>36, <1>37, <1>38
    DEF AnyStep, Next, ProducerStep, HandlerStep, Ended

\* A Chat client is billed for the text it was given.
LEMMA BilledWasWrittenStep ==
  ASSUME Inv, [AnyStep]_vars PROVE BilledWasWritten'
  <1> USE DEF Places, handVars, readVars, prodVars, upVars, chatVars, vars
  <1>0. BilledWasWritten /\ Places /\ Flags /\ Channel /\ Texts /\ Modes
    BY TypeParts DEF Inv
  <1>a. ASSUME UNCHANGED <<out, chars, bridge>> PROVE BilledWasWritten'
    BY <1>0, <1>a DEF BilledWasWritten
  <1>b. ASSUME NEW w \in Frames \cup {"failure"}, out' = Append(out, w), bridge' = bridge,
               chars' = chars + (IF w = "text" THEN 1 ELSE 0)
        PROVE BilledWasWritten'
    BY <1>0, <1>b, Counted DEF BilledWasWritten
  <1>1. CASE OpenRefused
    BY <1>0, <1>a, <1>1 DEF OpenRefused, Offer, CtxError
  <1>2. CASE Connect
    BY <1>0, <1>a, <1>2 DEF Connect
  <1>3. CASE ConnectFails
    BY <1>0, <1>a, <1>3 DEF ConnectFails, Offer, CtxError
  <1>4. CASE Connected
    BY <1>0, <1>a, <1>4 DEF Connected
  <1>5. CASE Publish
    BY <1>0, <1>a, <1>5 DEF Publish
  <1>6. CASE Recheck
    BY <1>0, <1>a, <1>6 DEF Recheck, Offer, CtxError
  <1>7. CASE ReadFrame
    BY <1>0, <1>a, <1>7, FrameRead DEF ReadFrame
  <1>8. CASE ReadFailed
    BY <1>0, <1>a, <1>8 DEF ReadFailed, Offer
  <1>9. CASE ReadBreaks
    BY <1>0, <1>a, <1>9 DEF ReadBreaks, Offer, CtxError
  <1>10. CASE ReadEnds
    BY <1>0, <1>a, <1>10 DEF ReadEnds, Offer
  <1>11. CASE ReadClosed
    BY <1>0, <1>a, <1>11 DEF ReadClosed, Offer, CtxError
  <1>12. CASE Send
    BY <1>0, <1>a, <1>12 DEF Send, Return, Cancelled
  <1>13. CASE SendCancelled
    BY <1>0, <1>a, <1>13 DEF SendCancelled, Return, Cancelled, SessionDone
  <1>14. CASE Open
    BY <1>0, <1>a, <1>14 DEF Open, Finish, Cancelled
  <1>15. CASE NextCancelled
    BY <1>0, <1>a, <1>15 DEF NextCancelled, Finish, SessionDone
  <1>16. CASE TakeHeader
    BY <1>a, <1>16 DEF TakeHeader, Take, BilledWasWritten
  <1>17. CASE TakeError
    BY <1>0, <1>a, <1>17 DEF TakeError, Take, Judge
  <1>18. CASE TakeFrameChat
    BY <1>a, <1>b, <1>18 DEF TakeFrameChat, Take
  <1>19. CASE TakeFrameBridge
    BY <1>19 DEF TakeFrameBridge, Take, BilledWasWritten
  <1>20. CASE TakeClosed
    BY <1>0, <1>a, <1>20 DEF TakeClosed, Judge
  <1>21. CASE Decide
    <2>1. out' = out \/ out' = Append(out, "failure") \/ bridge
      BY <1>21, Decided
    <2>2. UNCHANGED <<chars, bridge>>
      BY <1>21 DEF Decide
    <2>3. CASE bridge
      BY <2>2, <2>3 DEF BilledWasWritten
    <2> QED BY <1>0, <1>a, <1>b, <2>1, <2>2, <2>3 DEF Texts
  <1>22. CASE CloseCancel
    BY <1>0, <1>a, <1>22 DEF CloseCancel, Cancelled
  <1>23. CASE CloseBody
    BY <1>0, <1>a, <1>23 DEF CloseBody
  <1>24. CASE Settle
    BY <1>0, <1>a, <1>24 DEF Settle
  <1>25. CASE ChatConnectFails
    BY <1>0, <1>a, <1>25 DEF ChatConnectFails, Answered, StatusOf, CtxError
  <1>26. CASE ChatReadClosed
    BY <1>0, <1>a, <1>26 DEF ChatReadClosed, Answered, StatusOf, CtxError
  <1>27. CASE ChatSettle
    BY <1>0, <1>a, <1>27 DEF ChatSettle, Cancelled
  <1>28. CASE HeartbeatFails
    BY <1>0, <1>a, <1>28 DEF HeartbeatFails, Finish
  <1>29. CASE MemoryExceeded
    BY <1>0, <1>a, <1>b, <1>29 DEF MemoryExceeded, Write, Texts
  <1>30. CASE ChatConnected
    BY <1>0, <1>a, <1>30 DEF ChatConnected
  <1>31. CASE ChatComplete
    BY <1>0, <1>a, <1>31 DEF ChatComplete, Answered
  <1>32. CASE ChatRejected
    BY <1>0, <1>a, <1>32 DEF ChatRejected, Answered, StatusOf, CtxError
  <1>33. CASE ClientLeaves
    BY <1>0, <1>a, <1>33 DEF ClientLeaves, Cancelled
  <1>34. CASE DurationExpires
    BY <1>0, <1>a, <1>34 DEF DurationExpires
  <1>35. CASE ContextClosesBody
    BY <1>0, <1>a, <1>35 DEF ContextClosesBody
  <1>36. CASE IdleExpires
    BY <1>0, <1>a, <1>36 DEF IdleExpires
  <1>37. CASE CancelActive
    BY <1>0, <1>a, <1>37 DEF CancelActive, Cancelled
  <1>38. CASE UNCHANGED vars
    BY <1>0, <1>a, <1>38
  <1> QED
    BY <1>1, <1>2, <1>3, <1>4, <1>5, <1>6, <1>7, <1>8, <1>9, <1>10, <1>11, <1>12, <1>13, <1>14,
       <1>15, <1>16, <1>17, <1>18, <1>19, <1>20, <1>21, <1>22, <1>23, <1>24, <1>25, <1>26, <1>27,
       <1>28, <1>29, <1>30, <1>31, <1>32, <1>33, <1>34, <1>35, <1>36, <1>37, <1>38
    DEF AnyStep, Next, ProducerStep, HandlerStep, Ended

-----------------------------------------------------------------------------
(* The invariant, and what follows from it.                                *)

\* Every request starts in a state that satisfies the invariant.
LEMMA InitInv ==
  ASSUME Init PROVE Inv
  <1>1. TypeOK
    BY EmptySeq DEF Init, TypeOK
  <1>2. Modes /\ Released
    BY DEF Init, Modes, Released
  <1>3. Waiting = None
    BY DEF Init, Waiting
  <1>4. Sequenced /\ Stops /\ Causes
    BY <1>3, NoneAssumption DEF Init, Sequenced, Stops, Causes, Caused, Frames, Errors
  <1>5. InOrder /\ Prefixed
    BY <1>3, NoneAssumption DEF Init, InOrder, Queued, Held, Prefixed, Agree
  <1>6. Ending
    BY DEF Init, Ending
  <1>7. BilledWasWritten
    <2>1. {i \in DOMAIN out : out[i] = "text"} = {} /\ chars = 0
      BY DEF Init
    <2> QED BY <2>1, FS_EmptySet DEF BilledWasWritten
  <1> QED BY <1>1, <1>2, <1>4, <1>5, <1>6, <1>7 DEF Inv

\* Every step keeps the invariant.
LEMMA NextInv ==
  ASSUME Inv, [AnyStep]_vars PROVE Inv'
  <1>1. TypeOK'
    BY PlacesStep, FlagsStep, ChannelStep, TextsStep, TypeParts
    DEF TypeOK, Places, Flags, Channel, Texts
  <1> QED
    BY <1>1, ModesStep, ReleasedStep, SequencedStep, StopsStep, CausesStep,
       InOrderStep, PrefixedStep, EndingStep, BilledWasWrittenStep DEF Inv

\* The invariant holds throughout every request.
THEOREM InvHolds == Spec => []Inv
  <1>1. Init => Inv
    BY InitInv
  <1>2. Inv /\ [AnyStep]_vars => Inv'
    BY NextInv
  <1> QED BY <1>1, <1>2, PTL DEF Spec, AnyStep

\* NothingLeaks, at a state: producer, body, context and handle are released
\* in the order in which Close, the producer and the lease let go of them.
LEMMA InvNothingLeaks ==
  ASSUME Inv PROVE NothingLeaks
  <1>1. Released /\ Modes /\ Flags /\ Places
    BY TypeParts DEF Inv
  <1> QED BY <1>1 DEF NothingLeaks, Released, Modes, Flags, Places

\* CompletedIsWhole, at a state.
LEMMA InvCompletedIsWhole ==
  ASSUME Inv PROVE CompletedIsWhole
  <1>1. Ending /\ Stops
    BY DEF Inv
  <1> QED BY <1>1 DEF CompletedIsWhole, Ending, Stops, SentDone

\* FailedIsUpstreams, at a state.
LEMMA InvFailedIsUpstreams ==
  ASSUME Inv PROVE FailedIsUpstreams
  <1>1. Causes
    BY DEF Inv
  <1>2. SawBad => "bad" \in Range(sent)
    BY DEF SawBad, Range
  <1> QED BY <1>1, <1>2 DEF FailedIsUpstreams, Causes

\* Two sequences that agree on the length of the first: it is a prefix.
LEMMA PrefixByElements ==
  ASSUME NEW S, NEW T, NEW s \in Seq(S), NEW t \in Seq(T), Len(s) =< Len(t),
         \A i \in 1 .. Len(s) : s[i] = t[i]
  PROVE IsPrefix(s, t)
  <1>1. SubSeq(s, 1, Len(s)) = SubSeq(t, 1, Len(s))
    OBVIOUS
  <1> QED BY <1>1 DEF IsPrefix

\* DeliveredInOrder, at a state.
LEMMA InvDeliveredInOrder ==
  ASSUME Inv PROVE DeliveredInOrder
  <1> DEFINE S == Frames \cup {"created", "failure", "completed"}
  <1> SUFFICES ASSUME ~bridge PROVE IsPrefix(Delivered, sent)
    BY DEF DeliveredInOrder
  <1>1. Prefixed /\ Texts
    BY TypeParts DEF Inv
  <1>2. out \in Seq(S) /\ sent \in Seq(Frames)
    BY <1>1 DEF Texts
  <1> HIDE DEF S
  <1>3. Len(out) \in Nat
    BY <1>2, LenProperties
  <1>4. CASE out # << >> /\ Last(out) = "failure"
    <2>1. Delivered = Front(out) /\ Len(out) # 0
      BY <1>2, <1>4, EmptySeq DEF Delivered
    <2>2. /\ Front(out) \in Seq(S) /\ Len(Front(out)) = Len(out) - 1
          /\ \A i \in 1 .. Len(out) - 1 : Front(out)[i] = out[i]
      <3>1. Front(out) = SubSeq(out, 1, Len(out) - 1) /\ Len(out) - 1 \in Nat
        BY <1>3, <2>1 DEF Front
      <3>2. \A i \in 1 .. Len(out) - 1 : out[i] \in S
        BY <1>2, <1>3, ElementOfSeq
      <3> DEFINE n == Len(out) - 1
      <3>3. /\ SubSeq(out, 1, n) \in Seq(S)
            /\ Len(SubSeq(out, 1, n)) = IF 1 <= n THEN n - 1 + 1 ELSE 0
            /\ \A i \in 1 .. n - 1 + 1 : SubSeq(out, 1, n)[i] = out[1 + i - 1]
        BY <3>1, <3>2, SubSeqProperties
      <3>4. n \in Nat
        BY <3>1
      <3> HIDE DEF n
      <3>5. Len(SubSeq(out, 1, n)) = n /\ \A i \in 1 .. n : SubSeq(out, 1, n)[i] = out[i]
        BY <3>3, <3>4
      <3> QED BY <3>1, <3>3, <3>5 DEF n
    <2>3. Agree(Len(out) - 1)
      BY <1>1, <1>3, <2>1 DEF Prefixed, Agree
    <2> QED BY <1>2, <2>1, <2>2, <2>3, PrefixByElements DEF Agree
  <1>5. CASE ~(out # << >> /\ Last(out) = "failure")
    BY <1>1, <1>2, <1>5, PrefixByElements DEF Prefixed, Agree, Delivered
  <1> QED BY <1>4, <1>5

\* What a session promises, for any number of frames and any upstream
\* protocols: its state keeps its shape (TypeOK); a Chat client receives what
\* the upstream sent, in order and without gaps (DeliveredInOrder); a completed
\* request was answered to its end (CompletedIsWhole); text is billed when it
\* was written (BilledWasWritten); a failure is the upstream's or the duration
\* limit's (FailedIsUpstreams); and nothing outlives the handler (NothingLeaks).
THEOREM SessionSafe ==
  Spec => [](/\ TypeOK /\ DeliveredInOrder /\ CompletedIsWhole /\ BilledWasWritten
             /\ FailedIsUpstreams /\ NothingLeaks)
  <1>1. Inv => /\ TypeOK /\ DeliveredInOrder /\ CompletedIsWhole /\ BilledWasWritten
               /\ FailedIsUpstreams /\ NothingLeaks
    BY InvNothingLeaks, InvCompletedIsWhole, InvFailedIsUpstreams, InvDeliveredInOrder DEF Inv
  <1> QED BY <1>1, InvHolds, PTL
=============================================================================
