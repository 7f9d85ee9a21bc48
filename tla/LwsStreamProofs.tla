---------------------------- MODULE LwsStreamProofs ----------------------------
(***************************************************************************)
(* Proofs about LwsStream: for a body of any length, any sizes of pipe,    *)
(* page and loop, and whatever fails, the request is finalized once, the   *)
(* header is the one that was set, no event of the pipe is lost, and the   *)
(* client gets what was flushed, in order.                                 *)
(***************************************************************************)
EXTENDS LwsStream, SequenceTheorems, TLAPS

-------------------------------------------------------------------------------
(* Who may do what.                                                        *)

ControlTypes ==
    /\ thread \in {"lua", "writing", "done", "over"}
    /\ sealed \in BOOLEAN /\ redirect \in BOOLEAN /\ writeEnd \in BOOLEAN /\ conn \in BOOLEAN
    /\ active \in BOOLEAN /\ due \in BOOLEAN /\ blocked \in BOOLEAN /\ headerOnly \in BOOLEAN
    /\ pc \in {"events", "reading"}
    /\ streamingRc \in {"ok", "error"}
    /\ header \in Nat \ {0} /\ sentHeader \in Nat
    /\ answers = <<>> \/ \E a \in Answers : answers = <<a>>

(* The event loop reads the pipe, or waits for it or for the client, as    *)
(* long as the connection is open; who closes it, or finds it closed at    *)
(* finalization, answers.                                                  *)
LoopOK ==
    /\ writeEnd <=> thread # "over"
    /\ ~conn => pc = "events" /\ ~blocked /\ ~active /\ pipe = <<>>
    /\ pc = "reading" => ~blocked
    /\ conn => (active <=> ~blocked)
    /\ timer => delayed \/ blocked
    /\ answers = <<>> <=> conn \/ thread # "over"

(* Whoever gives pieces to the pipe has sealed the response before.        *)
SealedOK ==
    /\ headerSent => sealed /\ sentHeader = header
    /\ given # <<>> \/ pipe # <<>> \/ thread = "writing" => sealed /\ ~redirect

(* The header is sent before anything is taken from the pipe for good.  A  *)
(* connection that was closed before the finalization handler has run has  *)
(* left it word.                                                           *)
BegunOK ==
    /\ conn => streamingRc = "ok"
    /\ conn /\ ~headerSent => pipe = given /\ ~blocked
    /\ ~conn /\ thread # "over" => streamingRc = "error" \/ (headerSent /\ headerOnly)
    /\ conn /\ thread = "over" /\ pipe = <<>> => headerSent

BufferedOK ==
    answers \in {<<"plain">>, <<"page">>, <<"redirect">>} => given = <<>> /\ ~headerSent

ControlInv == ControlTypes /\ LoopOK /\ SealedOK /\ BegunOK /\ NoLostEvent /\ BufferedOK

LEMMA FirstAnswer ==
    ASSUME answers = <<>>, NEW a \in Answers, Answer(a)
    PROVE  answers' = <<a>> /\ answers' # <<>>
  BY DEF Answer

LEMMA InitControl == Init => ControlInv
<1> SUFFICES ASSUME Init PROVE ControlInv
  OBVIOUS
<1>1. ControlTypes
  <2>1. header \in Nat \ {0} /\ sentHeader \in Nat
    BY DEF Init
  <2>2. headerOnly \in BOOLEAN /\ answers = <<>> /\ thread = "lua" /\ pc = "events"
    BY DEF Init
  <2>3. sealed = FALSE /\ redirect = FALSE /\ writeEnd = TRUE /\ conn = TRUE
    BY Zenon DEF Init
  <2>4. active = TRUE /\ due = FALSE /\ blocked = FALSE /\ streamingRc = "ok"
    BY Zenon DEF Init
  <2> QED BY <2>1, <2>2, <2>3, <2>4 DEF ControlTypes
<1>2. LoopOK /\ SealedOK
  BY DEF Init, LoopOK, SealedOK, headerSent
<1>3. BegunOK /\ BufferedOK
  BY DEF Init, BegunOK, BufferedOK, headerSent
<1>4. NoLostEvent
  BY DEF Init, NoLostEvent, Readable
<1> QED BY <1>1, <1>2, <1>3, <1>4 DEF ControlInv

(* Lua, and the thread of the pool.                                        *)
LEMMA LuaControl ==
    ASSUME ControlInv, Write \/ SetHeader \/ Redirect \/ Flush \/ FlushFails \/ ThreadEnd
    PROVE  ControlInv'
<1> USE DEF ControlInv, ControlTypes, LoopOK, SealedOK, BegunOK, NoLostEvent, BufferedOK,
            headerSent, Readable, pipeVars, eventVars, loopVars, waitVars, replyVars
<1>1. CASE Write
  BY <1>1 DEF Write
<1>2. CASE SetHeader
  BY <1>2 DEF SetHeader
<1>3. CASE Redirect
  BY <1>3 DEF Redirect, MayRedirect
<1>4. CASE Flush
  BY <1>4 DEF Flush, FlushSeals
<1>5. CASE FlushFails
  BY <1>5 DEF FlushFails
<1>6. CASE ThreadEnd
  BY <1>6 DEF ThreadEnd
<1> QED BY <1>1, <1>2, <1>3, <1>4, <1>5, <1>6

LEMMA FlushWriteControl ==
    ASSUME ControlInv, FlushWrite
    PROVE  ControlInv'
<1>1. /\ UNCHANGED <<header, sealed, redirect, writeEnd, conn, active, pc, blocked, streamingRc,
                     delayed, timer, headerOnly, sentHeader, answers>>
      /\ thread = "writing" /\ thread' \in {"lua", "writing"}
      /\ conn /\ due' = (due \/ (active /\ pipe = <<>>))
      /\ \E pieces : pipe' = pipe \o pieces /\ given' = given \o pieces
  BY DEF FlushWrite, loopVars, waitVars, replyVars
<1>2. ControlTypes'
  BY <1>1 DEF ControlInv, ControlTypes
<1>3. LoopOK' /\ SealedOK'
  BY <1>1 DEF ControlInv, ControlTypes, LoopOK, SealedOK, headerSent
<1>4. BegunOK'
  BY <1>1 DEF ControlInv, ControlTypes, BegunOK, LoopOK, headerSent
<1>5. BufferedOK'
  BY <1>1 DEF ControlInv, ControlTypes, LoopOK, BufferedOK
<1>6. NoLostEvent'
  BY <1>1 DEF ControlInv, ControlTypes, LoopOK, NoLostEvent, Readable
<1> QED BY <1>2, <1>3, <1>4, <1>5, <1>6 DEF ControlInv

(* The label `error' of the stream handler: the header may have been sent, *)
(* if the response is sealed.                                              *)
LEMMA ErrorControl ==
    ASSUME ControlInv, conn, NEW code \in {"ok", "error"}, StreamError(code),
           UNCHANGED <<luaVars, headerOnly>>,
           UNCHANGED sentHeader \/ (sealed /\ sentHeader' = header),
           code = "ok" => sentHeader' # 0 /\ headerOnly,
           timer /\ ~blocked => delayed'
    PROVE  ControlInv'
<1>1. answers = <<>> /\ "aborted" \in Answers
  BY DEF ControlInv, LoopOK, Answers
<1>2. IF writeEnd THEN UNCHANGED answers ELSE answers' = <<"aborted">>
  BY <1>1, FirstAnswer DEF StreamError, MayFinalize
<1>3. answers' \notin {<<"plain">>, <<"page">>, <<"redirect">>}
  BY <1>1, <1>2
<1>4. writeEnd' => answers' = <<>>
  BY <1>1, <1>2 DEF StreamError
<1>5. ~writeEnd' => answers' # <<>> /\ \E a \in Answers : answers' = <<a>>
  BY <1>1, <1>2 DEF StreamError
<1> QED
  BY <1>3, <1>4, <1>5
  DEF StreamError, ConnClosed, EventRemoved, luaVars, ControlInv, ControlTypes, LoopOK, SealedOK,
      BegunOK, NoLostEvent, BufferedOK, headerSent, Readable

(* The label `blocked', and the return to the event loop.                  *)
LEMMA WaitControl ==
    ASSUME ControlInv, conn, NEW p, NEW d,
           WaitForClient(p, d) \/ (WaitForPipe(p) /\ blocked' = FALSE /\ (timer' => delayed')),
           timer /\ ~blocked => delayed',
           UNCHANGED <<luaVars, headerOnly>>,
           \/ UNCHANGED sentHeader /\ p = pipe /\ blocked
           \/ /\ sealed /\ pipe # <<>>
              /\ sentHeader' = IF headerSent THEN sentHeader ELSE header
    PROVE  ControlInv'
<1>1. CASE EventFails
  BY <1>1, ErrorControl DEF EventFails, headerSent
<1>2. CASE ~EventFails
  <2>1. /\ UNCHANGED <<writeEnd, conn, given, streamingRc, answers, header, sealed, redirect,
                       thread, headerOnly>>
        /\ pipe' = p /\ pc' = "events"
        /\ \/ blocked' = TRUE /\ active' = FALSE /\ due' = FALSE
           \/ blocked' = FALSE /\ (timer' => delayed') /\ active' = TRUE /\ due' = Readable(p)
    BY <1>2 DEF WaitForClient, WaitForPipe, EventAdded, EventRemoved, luaVars
  <2>2. blocked' \in BOOLEAN /\ due' \in BOOLEAN
    BY <2>1 DEF Readable, ControlInv, ControlTypes
  <2>3. ControlTypes'
    BY <2>1, <2>2 DEF ControlInv, ControlTypes
  <2>4. LoopOK' /\ SealedOK'
    BY <2>1 DEF ControlInv, ControlTypes, LoopOK, SealedOK, headerSent
  <2>5. BegunOK'
    BY <2>1 DEF ControlInv, ControlTypes, BegunOK, headerSent
  <2>6. BufferedOK'
    BY <2>1 DEF ControlInv, ControlTypes, LoopOK, BufferedOK
  <2>7. NoLostEvent'
    BY <2>1 DEF NoLostEvent, Readable
  <2> QED BY <2>3, <2>4, <2>5, <2>6, <2>7 DEF ControlInv
<1> QED BY <1>1, <1>2

(* The loop of the stream handler.                                         *)
LEMMA LoopControl ==
    ASSUME ControlInv, StreamEvent \/ ReadFails \/ ReadEnd \/ ReadAgain \/ HeaderEnds
    PROVE  ControlInv'
<1>1. pc = "reading" => conn
  BY DEF ControlInv, LoopOK
<1>2. CASE StreamEvent
  BY <1>2 DEF StreamEvent, luaVars, pipeVars, waitVars, replyVars, ControlInv, ControlTypes, LoopOK,
              SealedOK, BegunOK, NoLostEvent, BufferedOK, headerSent, Readable
<1>3. CASE ReadFails
  BY <1>1, <1>3, ErrorControl DEF ReadFails, replyVars, ControlInv, LoopOK
<1>4. CASE ReadEnd
  <2>1. conn /\ pipe = <<>> /\ ~writeEnd
    BY <1>1, <1>4 DEF ReadEnd
  <2>2. headerSent /\ answers = <<>> /\ thread = "over"
    BY <2>1 DEF ControlInv, ControlTypes, LoopOK, BegunOK
  <2>3. PICK a \in {"complete", "aborted"} : Answer(a)
    BY <1>4, <2>2 DEF ReadEnd, EndAnswer
  <2>4. answers' = <<a>> /\ answers' # <<>> /\ a \in Answers
    BY <2>2, <2>3, FirstAnswer DEF Answers
  <2>5. /\ conn' = FALSE /\ pipe' = <<>> /\ active' = FALSE /\ due' = FALSE /\ pc' = "events"
        /\ UNCHANGED <<luaVars, writeEnd, given, blocked, delayed, timer, streamingRc, headerOnly,
                       sentHeader>>
    BY <1>4 DEF ReadEnd, ConnClosed, EventRemoved, waitVars, replyVars
  <2>6. blocked = FALSE
    BY <1>4 DEF ReadEnd, ControlInv, ControlTypes, LoopOK
  <2>7. ControlTypes' /\ LoopOK'
    BY <2>2, <2>3, <2>4, <2>5, <2>6 DEF luaVars, ControlInv, ControlTypes, LoopOK
  <2>8. SealedOK' /\ BegunOK' /\ NoLostEvent' /\ BufferedOK'
    BY <2>2, <2>3, <2>4, <2>5
    DEF luaVars, ControlInv, SealedOK, BegunOK, NoLostEvent, BufferedOK, headerSent
  <2> QED BY <2>7, <2>8 DEF ControlInv
<1>5. CASE ReadAgain
  <2>1. CASE EventFails
    BY <1>1, <1>5, <2>1, ErrorControl
    DEF ReadAgain, EventFails, waitVars, replyVars, ControlInv, LoopOK
  <2>2. CASE ~EventFails
    <3>1. /\ conn /\ pipe = <<>> /\ writeEnd /\ blocked = FALSE /\ pc' = "events"
          /\ UNCHANGED <<luaVars, pipeVars, eventVars, waitVars, replyVars, streamingRc, answers>>
      BY <1>1, <1>5, <2>2 DEF ReadAgain, ControlInv, ControlTypes, LoopOK
    <3>2. ControlTypes' /\ LoopOK'
      BY <3>1
      DEF luaVars, pipeVars, eventVars, waitVars, replyVars, ControlInv, ControlTypes, LoopOK
    <3>3. SealedOK' /\ BegunOK' /\ BufferedOK'
      BY <3>1
      DEF luaVars, pipeVars, waitVars, replyVars, ControlInv, SealedOK, BegunOK, BufferedOK,
          headerSent
    <3>4. NoLostEvent'
      BY <3>1 DEF pipeVars, NoLostEvent, Readable
    <3> QED BY <3>2, <3>3, <3>4 DEF ControlInv
  <2> QED BY <2>1, <2>2
<1>6. CASE HeaderEnds
  <2>1. sealed /\ conn /\ header # 0 /\ ~headerSent
    BY <1>1, <1>6 DEF HeaderEnds, ControlInv, ControlTypes, SealedOK
  <2>2. \E code \in {"ok", "error"} : /\ StreamError(code)
                                     /\ code = "ok" => sentHeader' # 0 /\ headerOnly
    BY <1>6, <2>1 DEF HeaderEnds
  <2>3. UNCHANGED sentHeader \/ sentHeader' = header
    BY <1>6, <2>1 DEF HeaderEnds, headerSent
  <2>4. timer /\ ~blocked => delayed'
    BY <1>6 DEF HeaderEnds, NotSent, ControlInv, LoopOK
  <2> QED BY <1>6, <2>1, <2>2, <2>3, <2>4, ErrorControl DEF HeaderEnds
<1> QED BY <1>2, <1>3, <1>4, <1>5, <1>6

LEMMA ReadDataControl ==
    ASSUME ControlInv, ReadData
    PROVE  ControlInv'
<1>1. /\ conn /\ ~blocked /\ blocked = FALSE /\ pc = "reading" /\ pipe # <<>> /\ sealed
      /\ sentHeader' = IF headerSent THEN sentHeader ELSE header
      /\ UNCHANGED <<luaVars, headerOnly>>
  BY DEF ReadData, ControlInv, ControlTypes, LoopOK, SealedOK
<1>5. timer /\ ~blocked => delayed'
  <2>1. ~delayed \/ UNCHANGED delayed
    BY DEF ReadData, NotSent
  <2> QED BY <2>1 DEF ControlInv, LoopOK
<1>2. CASE \E code \in {"error"} : StreamError(code)
  BY <1>1, <1>2, <1>5, ErrorControl DEF headerSent
<1>3. CASE \E p, d : \/ WaitForClient(p, d)
                     \/ WaitForPipe(p) /\ blocked' = FALSE /\ (timer' => delayed')
  BY <1>1, <1>3, <1>5, WaitControl
<1>4. CASE /\ pipe' = Rest
           /\ timer' = delayed'
           /\ UNCHANGED <<writeEnd, conn, given, eventVars, pc, blocked, streamingRc, answers>>
  <2>1. headerSent' /\ sentHeader' = header /\ sentHeader' \in Nat
    BY <1>1 DEF headerSent, ControlInv, ControlTypes, SealedOK
  <2>2. ControlTypes' /\ LoopOK'
    BY <1>1, <1>4, <2>1 DEF eventVars, luaVars, ControlInv, ControlTypes, LoopOK
  <2>3. SealedOK' /\ BegunOK' /\ NoLostEvent'
    BY <1>1, <1>4, <2>1
    DEF eventVars, luaVars, ControlInv, LoopOK, SealedOK, BegunOK, NoLostEvent, headerSent
  <2>4. BufferedOK'
    BY <1>1, <1>4 DEF ControlInv, LoopOK, BufferedOK
  <2> QED BY <2>2, <2>3, <2>4 DEF ControlInv
<1>6. CASE EventFails
  BY <1>2, <1>6 DEF EventFails
<1>7. CASE ~EventFails
  <2>1. \/ StreamError("error")
        \/ WaitForClient(Rest, TRUE)
        \/ WaitForClient(Rest, timer)
        \/ /\ pipe' = Rest
           /\ timer' = delayed'
           /\ UNCHANGED <<writeEnd, conn, given, eventVars, pc, blocked, streamingRc, answers>>
        \/ WaitForPipe(Rest) /\ timer' = delayed' /\ UNCHANGED blocked
    BY <1>7 DEF ReadData
  <2>2. CASE WaitForPipe(Rest) /\ timer' = delayed' /\ UNCHANGED blocked
    <3>1. blocked' = FALSE /\ (timer' => delayed')
      BY <1>1, <2>2
    <3> QED BY <1>3, <2>2, <3>1
  <2> QED BY <1>2, <1>3, <1>4, <2>1, <2>2
<1> QED BY <1>6, <1>7

(* The client takes more, or does not.                                     *)
LEMMA ClientControl ==
    ASSUME ControlInv, WriteEvent \/ DelayOver \/ SendTimeout
    PROVE  ControlInv'
<1>1. blocked => conn
  BY DEF ControlInv, LoopOK
<1>2. ASSUME FlushOutput, conn, blocked PROVE ControlInv'
  <2>1. CASE \E code \in {"error"} : StreamError(code)
    BY <1>2, <2>1, ErrorControl DEF FlushOutput
  <2>2. CASE \E d : \/ WaitForClient(pipe, d)
                    \/ WaitForPipe(pipe) /\ blocked' = FALSE /\ (timer' => delayed')
    BY <1>2, <2>2, WaitControl DEF FlushOutput
  <2> QED BY <1>2, <2>1, <2>2 DEF FlushOutput, EventFails
<1>3. CASE WriteEvent
  BY <1>1, <1>2, <1>3 DEF WriteEvent
<1>4. CASE DelayOver
  <2>1. CASE blocked
    BY <1>1, <1>2, <1>4, <2>1 DEF DelayOver
  <2>2. CASE ~blocked
    BY <1>4, <2>2
    DEF DelayOver, luaVars, pipeVars, eventVars, loopVars, replyVars, ControlInv, ControlTypes,
        LoopOK, SealedOK, BegunOK, NoLostEvent, BufferedOK, headerSent, Readable
  <2> QED BY <2>1, <2>2
<1>5. CASE SendTimeout
  <2>1. timer /\ ~delayed /\ blocked
    BY <1>5 DEF SendTimeout, ControlInv, LoopOK
  <2> QED BY <1>1, <1>5, <2>1, ErrorControl DEF SendTimeout, replyVars
<1> QED BY <1>3, <1>4, <1>5

(* The finalization handler.  If the connection was closed before, the     *)
(* stream handler has left word; if it is open and the pipe empty before   *)
(* anything was sent, Lua has given nothing to it.                         *)
LEMMA FinalizationControl ==
    ASSUME ControlInv, Finalization
    PROVE  ControlInv'
<1>1. /\ pc = "events" /\ thread = "done" /\ thread' = "over" /\ writeEnd' = FALSE /\ answers = <<>>
      /\ UNCHANGED <<header, sealed, redirect, given, pc, blocked, delayed, timer, headerOnly,
                     sentHeader>>
  BY DEF Finalization, loopVars, waitVars, replyVars, ControlInv, LoopOK
<1>2. CASE FinalizeLater
  <2>1. /\ conn /\ due' = (due \/ active) /\ (headerSent \/ pipe # <<>>)
        /\ UNCHANGED <<conn, pipe, active, streamingRc, answers>>
    BY <1>2 DEF FinalizeLater, StreamingOpen, StreamingUnused, Unbegun, ControlInv, BegunOK
  <2>2. ControlTypes' /\ LoopOK'
    BY <1>1, <2>1 DEF ControlInv, ControlTypes, LoopOK
  <2>3. SealedOK' /\ BegunOK'
    BY <1>1, <2>1 DEF ControlInv, SealedOK, BegunOK, headerSent
  <2>4. BufferedOK'
    BY <1>1, <2>1 DEF ControlInv, BufferedOK, headerSent
  <2>5. NoLostEvent'
    BY <1>1, <2>1 DEF ControlInv, ControlTypes, LoopOK, NoLostEvent
  <2> QED BY <2>2, <2>3, <2>4, <2>5 DEF ControlInv
<1>3. ASSUME ~conn', ~active', ~blocked, due' \in BOOLEAN, active' \in BOOLEAN, conn' \in BOOLEAN,
             pipe' = <<>>,
             streamingRc' \in {"ok", "error"},
             NEW a \in Answers, Answer(a),
             a \in {"plain", "page", "redirect"} => given = <<>> /\ ~headerSent
      PROVE  ControlInv'
  <2>1. answers' = <<a>> /\ answers' # <<>>
    BY <1>1, <1>3, FirstAnswer
  <2>2. ControlTypes' /\ LoopOK'
    BY <1>1, <1>3, <2>1 DEF ControlInv, ControlTypes, LoopOK
  <2>3. SealedOK' /\ BegunOK' /\ NoLostEvent'
    BY <1>1, <1>3 DEF ControlInv, SealedOK, BegunOK, NoLostEvent, headerSent
  <2>4. BufferedOK'
    <3>1. SUFFICES ASSUME a \in {"plain", "page", "redirect"} PROVE BufferedOK'
      BY <2>1 DEF BufferedOK, Answers
    <3> QED BY <1>1, <1>3, <3>1 DEF BufferedOK, headerSent
  <2> QED BY <2>2, <2>3, <2>4 DEF ControlInv
<1>4. CASE FinalizeStream
  <2>1. ~conn /\ UNCHANGED <<conn, pipe, active, due, streamingRc>>
    BY <1>4 DEF FinalizeStream, StreamingOpen, StreamingUnused, Unbegun, eventVars
  <2>2. PICK a \in {"aborted", "complete"} : Answer(a)
    BY <1>4 DEF FinalizeStream
  <2>3. a \in Answers /\ a \notin {"plain", "page", "redirect"}
    BY <2>2 DEF Answers
  <2>4. /\ ~active /\ ~blocked /\ pipe = <<>> /\ active \in BOOLEAN /\ due \in BOOLEAN
        /\ conn \in BOOLEAN /\ streamingRc \in {"ok", "error"}
    BY <2>1 DEF ControlInv, ControlTypes, LoopOK
  <2> QED BY <1>3, <2>1, <2>2, <2>3, <2>4
<1>5. ASSUME ConnClosed
      PROVE  ~conn' /\ ~active' /\ due' \in BOOLEAN /\ active' \in BOOLEAN /\ conn' \in BOOLEAN
             /\ pipe' = <<>>
  BY <1>5 DEF ConnClosed, EventRemoved
<1>6. Unbegun => given = pipe /\ ~headerSent /\ ~blocked
  BY DEF Unbegun, ControlInv, BegunOK
<1>7. CASE FinalizeUninspected
  <2>1. Unbegun /\ ConnClosed /\ streamingRc' = "error" /\ Answer("aborted")
    BY <1>7 DEF FinalizeUninspected
  <2>2. "aborted" \in Answers
    BY DEF Answers
  <2> QED BY <1>3, <1>5, <1>6, <2>1, <2>2
<1>8. CASE FinalizePlain
  <2>1. ~StreamingOpen /\ ~headerSent /\ streamingRc = "ok" /\ ConnClosed /\ UNCHANGED streamingRc
    BY <1>8 DEF FinalizePlain
  <2>2. conn /\ pipe = <<>> /\ given = <<>> /\ ~blocked
    BY <1>1, <2>1
    DEF StreamingOpen, StreamingUnused, Unbegun, ControlInv, ControlTypes, LoopOK, BegunOK
  <2>3. PICK a \in {"plain", "page", "redirect"} : Answer(a)
    BY <1>8 DEF FinalizePlain, PlainAnswer
  <2>4. a \in Answers
    BY <2>3 DEF Answers
  <2> QED BY <1>3, <1>5, <2>1, <2>2, <2>3, <2>4
<1> QED BY <1>2, <1>4, <1>7, <1>8 DEF Finalization

LEMMA NextControl == ControlInv /\ [Next]_vars => ControlInv'
<1> SUFFICES ASSUME ControlInv, [Next]_vars PROVE ControlInv'
  OBVIOUS
<1>1. CASE UNCHANGED vars
  BY <1>1
  DEF vars, luaVars, pipeVars, eventVars, loopVars, waitVars, replyVars, ControlInv, ControlTypes,
      LoopOK, SealedOK, BegunOK, NoLostEvent, BufferedOK, headerSent, Readable
<1>2. CASE Answered
  BY <1>1, <1>2 DEF Answered
<1> QED
  BY <1>1, <1>2, LuaControl, FlushWriteControl, LoopControl, ReadDataControl, ClientControl,
     FinalizationControl DEF Next

THEOREM ControlInvariant == Spec => []ControlInv
  BY InitControl, NextControl, PTL DEF Spec

LEMMA OneAnswer ==
    ASSUME ControlInv, answers # <<>>
    PROVE  \E a \in Answers : answers = <<a>> /\ Len(answers) = 1 /\ ToSet(answers) = {a}
<1>1. PICK a \in Answers : answers = <<a>>
  BY DEF ControlInv, ControlTypes
<1>2. Len(<<a>>) = 1 /\ ToSet(<<a>>) = {a}
  BY DEF ToSet
<1> QED BY <1>1, <1>2

(* Whatever fails, and however late the client, the thread or the timers   *)
(* are, nobody finalizes a request twice, or before the thread is done.    *)
THEOREM OnceFinalized == Spec => []FinalizedOnce
<1>1. ControlInv => FinalizedOnce
  <2> SUFFICES ASSUME ControlInv PROVE FinalizedOnce
    OBVIOUS
  <2>1. Len(answers) <= 1
    <3>1. CASE answers = <<>>
      BY <3>1
    <3>2. CASE answers # <<>>
      <4>1. Len(answers) = 1
        BY <3>2, OneAnswer
      <4> QED BY <4>1
    <3> QED BY <3>1, <3>2
  <2> QED BY <2>1 DEF ControlInv, LoopOK, FinalizedOnce
<1> QED BY <1>1, ControlInvariant, PTL

(* A response is never both streamed and buffered, and a redirect is not   *)
(* lost.                                                                   *)
THEOREM OneMode == Spec => []SingleMode
<1>1. ControlInv => SingleMode
  <2> SUFFICES ASSUME ControlInv PROVE SingleMode
    OBVIOUS
  <2>1. redirect => given = <<>>
    BY DEF ControlInv, SealedOK
  <2>2. ASSUME NEW a \in {"plain", "page", "redirect"}, a \in ToSet(answers)
        PROVE  given = <<>> /\ ~headerSent
    <3>1. answers # <<>>
      BY <2>2 DEF ToSet
    <3>2. PICK b \in Answers : answers = <<b>> /\ ToSet(answers) = {b}
      BY <3>1, OneAnswer
    <3> QED BY <2>2, <3>2 DEF ControlInv, BufferedOK
  <2> QED BY <2>1, <2>2 DEF SingleMode
<1> QED BY <1>1, ControlInvariant, PTL

(* The header that was sent stays the one that the chunks set.             *)
THEOREM HeaderIsFrozen == Spec => []HeaderFrozen
<1>1. ControlInv => HeaderFrozen
  BY DEF ControlInv, SealedOK, HeaderFrozen
<1> QED BY <1>1, ControlInvariant, PTL

(* No wakeup of the edge triggered event is lost.                          *)
THEOREM NoEventIsLost == Spec => []NoLostEvent
<1>1. ControlInv => NoLostEvent
  BY DEF ControlInv
<1> QED BY <1>1, ControlInvariant, PTL

(* The stream handler does not come to the end before the header.          *)
THEOREM EndComesAfterHeader == Spec => []EndFollowsHeader
<1>1. ControlInv => EndFollowsHeader
  BY DEF ControlInv, LoopOK, BegunOK, EndFollowsHeader
<1> QED BY <1>1, ControlInvariant, PTL

-------------------------------------------------------------------------------
(* What is delivered.                                                      *)

LEMMA Associative ==
    \A s, t, u \in Seq(Nat) : (s \o t) \o u = s \o (t \o u)
<1> TAKE s, t, u \in Seq(Nat)
<1> QED BY ConcatAssociative, SMTT(40)

LEMMA Concatenated ==
    \A s, t \in Seq(Nat) : s \o t \in Seq(Nat)
  BY ConcatProperties, Zenon

LEMMA Equal ==
    \A s, t \in Seq(Nat) :
        Len(s) = Len(t) /\ (\A i \in 1 .. Len(s) : s[i] = t[i]) => s = t
  BY SeqEqual, Zenon

LEMMA Adjacent ==
    \A s \in Seq(Nat) : \A m \in 1 .. Len(s) + 1 : \A k \in m - 1 .. Len(s) :
        \A n \in k .. Len(s) : SubSeq(s, m, k) \o SubSeq(s, k + 1, n) = SubSeq(s, m, n)
  BY ConcatAdjacentSubSeq, Zenon

LEMMA Parts ==
    ASSUME NEW s \in Seq(Nat), NEW k \in 0 .. Len(s)
    PROVE  /\ SubSeq(s, 1, k) \in Seq(Nat) /\ SubSeq(s, k + 1, Len(s)) \in Seq(Nat)
           /\ SubSeq(s, 1, k) \o SubSeq(s, k + 1, Len(s)) = s
           /\ Len(SubSeq(s, 1, k)) = k
           /\ k = Len(s) => SubSeq(s, k + 1, Len(s)) = <<>>
<1>1. Len(s) \in Nat /\ \A i \in 1 .. Len(s) : s[i] \in Nat
  BY LenProperties, ElementOfSeq
<1>2. SubSeq(s, 1, k) \in Seq(Nat) /\ SubSeq(s, k + 1, Len(s)) \in Seq(Nat)
  BY <1>1, SubSeqProperties
<1>3. Len(SubSeq(s, 1, k)) = k
  BY <1>1, SubSeqProperties
<1>4. SubSeq(s, 1, k) \o SubSeq(s, k + 1, Len(s)) = SubSeq(s, 1, Len(s))
  <2>1. 1 \in 1 .. Len(s) + 1 /\ k \in 1 - 1 .. Len(s) /\ Len(s) \in k .. Len(s)
    BY <1>1
  <2> QED BY <2>1, Adjacent, Zenon
<1>5. SubSeq(s, 1, Len(s)) = s
  BY SubSeqFull
<1>6. k = Len(s) => SubSeq(s, k + 1, Len(s)) = <<>>
  BY <1>1, SubSeqEmpty
<1> QED BY <1>2, <1>3, <1>4, <1>5, <1>6

LEMMA PrefixOfConcat ==
    ASSUME NEW s \in Seq(Nat), NEW t \in Seq(Nat)
    PROVE  IsPrefix(s, s \o t)
<1> DEFINE u == s \o t
<1>1. /\ u \in Seq(Nat) /\ Len(u) = Len(s) + Len(t)
      /\ \A i \in 1 .. Len(s) + Len(t) : u[i] = IF i <= Len(s) THEN s[i] ELSE t[i - Len(s)]
  BY ConcatProperties
<1>2. Len(s) \in Nat /\ Len(t) \in Nat
  BY LenProperties
<1> HIDE DEF u
<1>3. \A i \in 1 .. Len(s) : u[i] = s[i] /\ s[i] \in Nat
  BY <1>1, <1>2, ElementOfSeq
<1> DEFINE a == SubSeq(s, 1, Len(s))
           b == SubSeq(u, 1, Len(s))
<1>4. /\ a \in Seq(Nat) /\ b \in Seq(Nat) /\ Len(a) = Len(b) /\ Len(a) = Len(s)
      /\ \A i \in 1 .. Len(s) : a[i] = b[i]
  <2>1. \A i \in 1 .. Len(s) : u[i] \in Nat /\ s[i] \in Nat
    BY <1>3
  <2>2. a \in Seq(Nat) /\ Len(a) = Len(s) /\ \A i \in 1 .. Len(s) : a[i] = s[i]
    BY <1>2, <2>1, SubSeqProperties
  <2>3. b \in Seq(Nat) /\ Len(b) = Len(s) /\ \A i \in 1 .. Len(s) : b[i] = u[i]
    BY <1>2, <2>1, SubSeqProperties
  <2> QED BY <1>3, <2>2, <2>3
<1> HIDE DEF a, b
<1>5. a = b
  <2>1. \A i \in 1 .. Len(a) : a[i] = b[i]
    BY <1>4
  <2> QED BY <1>4, <2>1, Equal, Zenon
<1> QED BY <1>1, <1>2, <1>5 DEF IsPrefix, a, b, u

DataTypes ==
    /\ body \in Seq(Nat) /\ written \in Nat /\ made \in Nat
    /\ pipe \in Seq(Nat) /\ given \in Seq(Nat) /\ client \in Seq(Nat) /\ busy \in Seq(Nat)

(* The output filters hold something back only while the handler waits for *)
(* the client.                                                             *)
DeliveredOK ==
    /\ conn => client \o busy \o pipe = given
    /\ conn /\ ~blocked => busy = <<>>
    /\ IsPrefix(client, given)

CompleteOK == answers = <<"complete">> => client = given

DataInv == DataTypes /\ DeliveredOK

LEMMA InitData == Init => DataInv /\ CompleteOK
<1> SUFFICES ASSUME Init PROVE DataInv /\ CompleteOK
  OBVIOUS
<1>1. <<>> \in Seq(Nat) /\ <<>> \o <<>> \o <<>> = <<>>
  BY EmptySeq, ConcatEmptySeq
<1>2. IsPrefix(<<>>, <<>>)
  BY <1>1, PrefixOfConcat, ConcatEmptySeq
<1>3. DataTypes /\ CompleteOK
  BY <1>1 DEF Init, DataTypes, CompleteOK
<1>4. DeliveredOK
  BY <1>1, <1>2 DEF Init, DeliveredOK
<1> QED BY <1>3, <1>4 DEF DataInv

(* What Lua does with the pipe.                                            *)
LEMMA LuaData ==
    ASSUME DataInv, Write \/ SetHeader \/ Redirect \/ Flush \/ FlushFails \/ ThreadEnd
    PROVE  DataInv'
<1>1. UNCHANGED <<conn, pipe, given, client, busy, blocked>>
  BY DEF Write, SetHeader, Redirect, Flush, FlushFails, ThreadEnd, pipeVars, waitVars, replyVars
<1>2. made' \in Nat /\ body' \in Seq(Nat) /\ written' \in Nat
  <2>1. CASE Write
    BY <2>1, AppendProperties DEF Write, DataInv, DataTypes
  <2>2. CASE SetHeader \/ Redirect \/ Flush \/ FlushFails \/ ThreadEnd
    BY <2>2 DEF SetHeader, Redirect, Flush, FlushFails, ThreadEnd, DataInv, DataTypes
  <2> QED BY <2>1, <2>2
<1> QED BY <1>1, <1>2 DEF DataInv, DataTypes, DeliveredOK

LEMMA FlushWriteData ==
    ASSUME ControlInv, DataInv, FlushWrite
    PROVE  DataInv'
<1>1. PICK n \in 1 .. Len(body) - written :
          /\ pipe' = pipe \o SubSeq(body, written + 1, written + n)
          /\ given' = given \o SubSeq(body, written + 1, written + n)
          /\ written' = written + n
  BY DEF FlushWrite
<1> DEFINE pieces == SubSeq(body, written + 1, written + n)
<1>2. /\ conn /\ UNCHANGED <<conn, client, busy, blocked, made>>
      /\ body' \in {body, <<>>}
  BY DEF FlushWrite, waitVars, replyVars
<1>3. /\ body \in Seq(Nat) /\ pipe \in Seq(Nat) /\ given \in Seq(Nat) /\ client \in Seq(Nat)
      /\ busy \in Seq(Nat) /\ written \in Nat /\ made \in Nat
      /\ client \o busy \o pipe = given
  BY <1>2 DEF DataInv, DataTypes, DeliveredOK
<1>4. pieces \in Seq(Nat)
  <2>1. Len(body) \in Nat /\ \A i \in 1 .. Len(body) : body[i] \in Nat
    BY <1>3, LenProperties, ElementOfSeq
  <2>2. \A i \in written + 1 .. written + n : body[i] \in Nat
    BY <1>3, <2>1
  <2> QED BY <1>3, <2>1, <2>2, SubSeqProperties
<1> HIDE DEF pieces
<1>5. /\ pipe' \in Seq(Nat) /\ given' \in Seq(Nat) /\ client \o busy \in Seq(Nat)
      /\ busy \o pipe' \in Seq(Nat)
  BY <1>1, <1>3, <1>4, ConcatProperties DEF pieces
<1>6. client \o busy \o pipe' = given'
  <2>1. (client \o busy \o pipe) \o pieces = (client \o busy) \o (pipe \o pieces)
    <3> DEFINE w == client \o busy
    <3>1. w \in Seq(Nat) /\ pipe \in Seq(Nat) /\ pieces \in Seq(Nat)
      BY <1>3, <1>4, <1>5
    <3> HIDE DEF w
    <3>2. (w \o pipe) \o pieces = w \o (pipe \o pieces)
      BY ONLY <3>1, Associative
    <3> QED BY <3>2 DEF w
  <2> QED BY <1>1, <1>3, <2>1, Zenon DEF pieces
<1>7. client \o (busy \o pipe') = given'
  <2>1. (client \o busy) \o pipe' = client \o (busy \o pipe')
    <3>1. client \in Seq(Nat) /\ busy \in Seq(Nat) /\ pipe' \in Seq(Nat)
      BY <1>3, <1>5
    <3> QED BY ONLY <3>1, Associative
  <2> QED BY <1>6, <2>1
<1>8. IsPrefix(client, given')
  BY <1>3, <1>5, <1>7, PrefixOfConcat
<1>9. DataTypes'
  <2>1. body' \in Seq(Nat)
    BY <1>2, <1>3, EmptySeq
  <2>2. written' \in Nat
    BY <1>1, <1>3
  <2> QED BY <1>2, <1>3, <1>5, <2>1, <2>2 DEF DataTypes
<1> QED BY <1>2, <1>6, <1>8, <1>9 DEF DataInv, DeliveredOK

(* The event loop leaves Lua's variables alone.                            *)
LEMMA LoopData ==
    ASSUME DataInv, UNCHANGED <<body, written, made, given>>,
           pipe' \in Seq(Nat), client' \in Seq(Nat), busy' \in Seq(Nat),
           IsPrefix(client', given),
           conn' => /\ client' \o busy' \o pipe' = given
                    /\ ~blocked' => busy' = <<>>
    PROVE  DataInv'
  BY DEF DataInv, DataTypes, DeliveredOK

(* An output filter that is passed the next pieces, when the rest is still *)
(* to come.                                                                *)
LEMMA SentData ==
    ASSUME NEW pieces \in Seq(Nat), NEW rest \in Seq(Nat), client \in Seq(Nat),
           client \o (pieces \o rest) = given,
           NEW k \in 0 .. Len(pieces), Sent(pieces, k)
    PROVE  /\ client' \in Seq(Nat) /\ busy' \in Seq(Nat)
           /\ client' \o busy' \o rest = given
           /\ IsPrefix(client', given)
           /\ k = Len(pieces) => busy' = <<>>
<1> DEFINE sent == SubSeq(pieces, 1, k)
           held == SubSeq(pieces, k + 1, Len(pieces))
<1>1. client' = client \o sent /\ busy' = held
  BY DEF Sent
<1>2. /\ sent \in Seq(Nat) /\ held \in Seq(Nat) /\ sent \o held = pieces
      /\ k = Len(pieces) => held = <<>>
  BY Parts
<1> HIDE DEF sent, held
<1>3. client \o sent \in Seq(Nat) /\ held \o rest \in Seq(Nat)
  BY <1>2, ConcatProperties
<1>4. (client \o sent) \o held = client \o pieces
  BY <1>2, Associative, Zenon
<1>5. (client \o pieces) \o rest = given
  BY Associative, Zenon
<1>6. ((client \o sent) \o held) \o rest = (client \o sent) \o (held \o rest)
  <2> DEFINE w == client \o sent
  <2>1. w \in Seq(Nat) /\ held \in Seq(Nat) /\ rest \in Seq(Nat)
    BY <1>2, <1>3
  <2> HIDE DEF w
  <2>2. (w \o held) \o rest = w \o (held \o rest)
    BY ONLY <2>1, Associative
  <2> QED BY <2>2 DEF w
<1>7. IsPrefix(client \o sent, given)
  BY <1>3, <1>4, <1>5, <1>6, PrefixOfConcat
<1> QED BY <1>1, <1>2, <1>3, <1>4, <1>5, <1>7

(* Nothing is sent.                                                        *)
LEMMA QuietData ==
    ASSUME DataInv, UNCHANGED <<body, written, made, given, client, busy>>,
           \/ UNCHANGED <<pipe, conn, blocked>>
           \/ pipe' = <<>> /\ conn' = FALSE
    PROVE  DataInv'
<1>1. pipe' \in Seq(Nat)
  BY EmptySeq DEF DataInv, DataTypes
<1>2. DataTypes'
  BY <1>1 DEF DataInv, DataTypes
<1>3. IsPrefix(client', given')
  BY DEF DataInv, DeliveredOK
<1>4. CASE UNCHANGED <<pipe, conn, blocked>>
  <2>1. DeliveredOK'
    BY <1>3, <1>4 DEF DataInv, DeliveredOK
  <2> QED BY <1>2, <2>1 DEF DataInv
<1>5. CASE pipe' = <<>> /\ conn' = FALSE
  <2>1. DeliveredOK'
    BY <1>3, <1>5 DEF DeliveredOK
  <2> QED BY <1>2, <2>1 DEF DataInv
<1> QED BY <1>4, <1>5

LEMMA ErrorData ==
    ASSUME NEW code, StreamError(code)
    PROVE  pipe' = <<>> /\ conn' = FALSE /\ UNCHANGED given
  BY DEF StreamError, ConnClosed

LEMMA WaitData ==
    ASSUME NEW p \in Seq(Nat),
           EventFails \/ (\E d : WaitForClient(p, d)) \/ WaitForPipe(p)
    PROVE  /\ UNCHANGED given
           /\ pipe' \in Seq(Nat)
           /\ conn' => pipe' = p /\ UNCHANGED conn
           /\ conn' => blocked' \/ WaitForPipe(p)
<1>1. CASE EventFails
  BY <1>1, ErrorData, EmptySeq DEF EventFails
<1>2. CASE WaitForPipe(p)
  BY <1>2 DEF WaitForPipe
<1>3. CASE ~EventFails /\ \E d : WaitForClient(p, d)
  BY <1>3 DEF WaitForClient
<1> QED BY <1>1, <1>2, <1>3

LEMMA ReadDataData ==
    ASSUME ControlInv, DataInv, ReadData
    PROVE  DataInv'
<1> DEFINE pieces == SubSeq(pipe, 1, Page)
           rest   == Rest
<1>1. /\ conn /\ ~blocked
      /\ UNCHANGED <<body, written, made>>
  BY DEF ReadData, luaVars, ControlInv, LoopOK
<1>2. /\ pipe \in Seq(Nat) /\ client \in Seq(Nat) /\ busy \in Seq(Nat) /\ busy = <<>>
      /\ client \o busy \o pipe = given /\ IsPrefix(client, given)
  BY <1>1 DEF DataInv, DataTypes, DeliveredOK
<1>3. client \o pipe = given
  BY <1>2, ConcatEmptySeq
<1>4. Page \in 0 .. Len(pipe)
  BY <1>2, StreamAssumption, LenProperties DEF Page
<1>5. /\ pieces \in Seq(Nat) /\ rest \in Seq(Nat) /\ pieces \o rest = pipe /\ Len(pieces) = Page
  BY <1>2, <1>4, Parts DEF Rest
<1> HIDE DEF pieces, rest
<1>6. CASE StreamError("error") /\ NotSent
  BY <1>1, <1>6, ErrorData, QuietData DEF NotSent
<1>7. ASSUME NEW k \in 0 .. Page, Sent(pieces, k),
             \/ EventFails \/ (\E d : WaitForClient(rest, d)) \/ WaitForPipe(rest)
             \/ pipe' = rest /\ UNCHANGED <<conn, given>>,
             conn' => k = Page \/ blocked'
      PROVE  DataInv'
  <2>1. /\ client' \in Seq(Nat) /\ busy' \in Seq(Nat) /\ client' \o busy' \o rest = given
        /\ IsPrefix(client', given) /\ (k = Len(pieces) => busy' = <<>>)
    BY <1>2, <1>3, <1>5, <1>7, SentData
  <2>2. UNCHANGED given /\ pipe' \in Seq(Nat) /\ (conn' => pipe' = rest)
    BY <1>5, <1>7, WaitData
  <2> QED BY <1>1, <1>5, <1>7, <2>1, <2>2, LoopData
<1>8. CASE /\ busy' = pieces
           /\ UNCHANGED client
           /\ WaitForClient(rest, timer)
  <2>1. UNCHANGED given /\ pipe' \in Seq(Nat) /\ (conn' => pipe' = rest)
    BY <1>5, <1>8, WaitData
  <2>2. (client \o pieces) \o rest = given
    <3>1. (client \o pieces) \o rest = client \o (pieces \o rest)
      BY <1>2, <1>5, Associative, ZenonT(60)
    <3> QED BY <1>3, <1>5, <3>1
  <2>3. conn' => blocked'
    BY <1>8, ErrorData DEF WaitForClient, EventFails
  <2> QED BY <1>1, <1>2, <1>5, <1>8, <2>1, <2>2, <2>3, LoopData
<1>9. \A d : WaitForClient(rest, d) => (conn' => blocked')
  BY ErrorData DEF WaitForClient, EventFails
<1>10. EventFails => ~conn'
  BY ErrorData DEF EventFails
<1>11. Page \in 0 .. Page /\ \A k \in 0 .. Page - 1 : k \in 0 .. Page
  BY <1>2, <1>4, LenProperties
<1>12. \/ StreamError("error") /\ NotSent
       \/ \E k \in 0 .. Page - 1 : Sent(pieces, k) /\ WaitForClient(rest, TRUE)
       \/ busy' = pieces /\ UNCHANGED client /\ WaitForClient(rest, timer)
       \/ Sent(pieces, Page) /\ pipe' = rest /\ UNCHANGED <<conn, given>>
       \/ Sent(pieces, Page) /\ (WaitForPipe(rest) \/ EventFails)
  BY DEF ReadData, pieces, rest
<1>13. CASE \E k \in 0 .. Page - 1 : Sent(pieces, k) /\ WaitForClient(rest, TRUE)
  BY <1>7, <1>9, <1>11, <1>13
<1>14. CASE Sent(pieces, Page) /\ pipe' = rest /\ UNCHANGED <<conn, given>>
  BY <1>7, <1>11, <1>14
<1>15. CASE Sent(pieces, Page) /\ (WaitForPipe(rest) \/ EventFails)
  BY <1>7, <1>11, <1>15
<1> QED BY <1>6, <1>8, <1>12, <1>13, <1>14, <1>15

LEMMA FlushOutputData ==
    ASSUME DataInv, conn, FlushOutput
    PROVE  DataInv'
<1>1. UNCHANGED <<body, written, made>>
  BY DEF FlushOutput, luaVars
<1>2. /\ pipe \in Seq(Nat) /\ client \in Seq(Nat) /\ busy \in Seq(Nat)
      /\ (client \o busy) \o pipe = given
  BY DEF DataInv, DataTypes, DeliveredOK
<1>3. client \o (busy \o pipe) = given
  <2>1. (client \o busy) \o pipe = client \o (busy \o pipe)
    BY <1>2, Associative
  <2> QED BY <1>2, <2>1
<1>4. CASE StreamError("error") /\ NotSent
  BY <1>1, <1>4, ErrorData, QuietData DEF NotSent
<1>5. CASE ~(StreamError("error") /\ NotSent)
  <2>1. PICK k \in 0 .. Len(busy) :
            /\ Sent(busy, k)
            /\ \/ k = Len(busy) /\ (WaitForPipe(pipe) \/ EventFails)
               \/ WaitForClient(pipe, TRUE)
    BY <1>5 DEF FlushOutput, Drained
  <2>2. /\ client' \in Seq(Nat) /\ busy' \in Seq(Nat) /\ client' \o busy' \o pipe = given
        /\ IsPrefix(client', given) /\ (k = Len(busy) => busy' = <<>>)
    BY <1>2, <1>3, <2>1, SentData
  <2>3. UNCHANGED given /\ pipe' \in Seq(Nat) /\ (conn' => pipe' = pipe)
    BY <1>2, <2>1, WaitData
  <2>4. WaitForClient(pipe, TRUE) => (conn' => blocked')
    BY ErrorData DEF WaitForClient, EventFails
  <2> QED BY <1>1, <2>1, <2>2, <2>3, <2>4, LoopData
<1> QED BY <1>4, <1>5

(* The handlers of the event loop.                                         *)
LEMMA EventData ==
    ASSUME ControlInv, DataInv,
           \/ StreamEvent \/ ReadFails \/ ReadEnd \/ ReadAgain \/ HeaderEnds \/ ReadData
           \/ WriteEvent \/ DelayOver \/ SendTimeout
    PROVE  DataInv'
<1>1. ASSUME NEW code, StreamError(code), UNCHANGED <<luaVars, client, busy>>
      PROVE  DataInv'
  BY <1>1, ErrorData, QuietData DEF luaVars
<1>2. CASE StreamEvent
  BY <1>2, QuietData DEF StreamEvent, luaVars, pipeVars, waitVars, replyVars
<1>3. CASE ReadFails \/ SendTimeout
  BY <1>1, <1>3 DEF ReadFails, SendTimeout, replyVars
<1>4. CASE ReadEnd
  BY <1>4, QuietData DEF ReadEnd, ConnClosed, luaVars, replyVars
<1>5. CASE ReadAgain
  <2>1. CASE EventFails
    BY <1>1, <1>5, <2>1 DEF ReadAgain, EventFails, replyVars
  <2>2. CASE ~EventFails
    BY <1>5, <2>2, QuietData DEF ReadAgain, luaVars, pipeVars, waitVars, replyVars
  <2> QED BY <2>1, <2>2
<1>6. CASE HeaderEnds
  BY <1>1, <1>6 DEF HeaderEnds, NotSent
<1>7. CASE ReadData
  BY <1>7, ReadDataData
<1>8. CASE blocked /\ FlushOutput
  <2>1. conn
    BY <1>8 DEF ControlInv, LoopOK
  <2> QED BY <1>8, <2>1, FlushOutputData
<1>9. CASE DelayOver /\ ~blocked
  BY <1>9, QuietData DEF DelayOver, luaVars, pipeVars, replyVars
<1> QED BY <1>2, <1>3, <1>4, <1>5, <1>6, <1>7, <1>8, <1>9 DEF WriteEvent, DelayOver

LEMMA NextData == ControlInv /\ DataInv /\ [Next]_vars => DataInv'
<1> SUFFICES ASSUME ControlInv, DataInv, [Next]_vars PROVE DataInv'
  OBVIOUS
<1>1. CASE Write \/ SetHeader \/ Redirect \/ Flush \/ FlushFails \/ ThreadEnd
  BY <1>1, LuaData
<1>2. CASE FlushWrite
  BY <1>2, FlushWriteData
<1>3. CASE \/ StreamEvent \/ ReadFails \/ ReadEnd \/ ReadAgain \/ HeaderEnds \/ ReadData
           \/ WriteEvent \/ DelayOver \/ SendTimeout
  BY <1>3, EventData
<1>4. CASE Finalization
  <2>1. UNCHANGED <<body, written, made, given, client, busy, blocked>>
    BY <1>4 DEF Finalization, waitVars, replyVars
  <2>2. UNCHANGED <<conn, pipe>> \/ (conn' = FALSE /\ pipe' = <<>>)
    BY <1>4 DEF Finalization, FinalizeLater, FinalizeStream, FinalizeUninspected, FinalizePlain,
                ConnClosed
  <2> QED BY <2>1, <2>2, QuietData
<1>5. CASE UNCHANGED vars \/ Answered
  BY <1>5, QuietData DEF Answered, vars, luaVars, pipeVars, waitVars, replyVars
<1> QED BY <1>1, <1>2, <1>3, <1>4, <1>5 DEF Next

(* Once the request is answered nothing is given and nothing sent.         *)
LEMMA AnsweredRests ==
    ASSUME ControlInv, answers # <<>>, [Next]_vars
    PROVE  UNCHANGED <<answers, client, given>>
<1>1. thread = "over" /\ ~conn /\ ~blocked /\ pc = "events" /\ (timer => delayed)
  BY DEF ControlInv, LoopOK
<1>2. CASE Answered \/ UNCHANGED vars
  BY <1>2 DEF Answered, vars, pipeVars, replyVars
<1>3. CASE DelayOver
  BY <1>1, <1>3 DEF DelayOver, pipeVars, replyVars
<1>4. ~(Write \/ SetHeader \/ Redirect \/ Flush \/ FlushWrite \/ FlushFails \/ ThreadEnd)
  BY <1>1 DEF Write, SetHeader, Redirect, MayRedirect, Flush, FlushWrite, FlushFails, ThreadEnd
<1>5. ~(StreamEvent \/ ReadFails \/ ReadEnd \/ ReadAgain \/ HeaderEnds \/ ReadData)
  BY <1>1 DEF StreamEvent, ReadFails, ReadEnd, ReadAgain, HeaderEnds, ReadData
<1>6. ~(WriteEvent \/ SendTimeout \/ Finalization)
  BY <1>1 DEF WriteEvent, SendTimeout, Finalization
<1> QED BY <1>2, <1>3, <1>4, <1>5, <1>6 DEF Next

(* What answers before the end of the pipe does not say "complete".        *)
LEMMA ErrorAborts ==
    ASSUME answers = <<>>, NEW code, StreamError(code)
    PROVE  answers' # <<"complete">>
<1>1. CASE MayFinalize
  BY <1>1 DEF StreamError, Answer
<1>2. CASE ~MayFinalize
  BY <1>2 DEF StreamError
<1> QED BY <1>1, <1>2

LEMMA OnlyTheEndCompletes ==
    ASSUME ControlInv, answers = <<>>, [Next]_vars, answers' = <<"complete">>
    PROVE  ReadEnd
<1> SUFFICES ASSUME ~ReadEnd PROVE FALSE
  OBVIOUS
<1>1. UNCHANGED answers => FALSE
  OBVIOUS
<1>2. ASSUME NEW code, StreamError(code) PROVE FALSE
  BY <1>2, ErrorAborts
<1>3. CASE Write \/ SetHeader \/ Redirect \/ Flush \/ FlushWrite \/ FlushFails \/ ThreadEnd
  BY <1>1, <1>3 DEF Write, SetHeader, Redirect, Flush, FlushWrite, FlushFails, ThreadEnd
<1>4. CASE StreamEvent \/ Answered \/ UNCHANGED vars
  BY <1>1, <1>4 DEF StreamEvent, Answered, vars
<1>5. CASE ReadFails \/ ReadAgain \/ HeaderEnds \/ SendTimeout
  BY <1>1, <1>2, <1>5 DEF ReadFails, ReadAgain, HeaderEnds, SendTimeout, EventFails
<1>6. CASE ReadData
  BY <1>1, <1>2, <1>6 DEF ReadData, WaitForClient, WaitForPipe, EventFails
<1>7. CASE WriteEvent \/ DelayOver
  BY <1>1, <1>2, <1>7 DEF WriteEvent, DelayOver, FlushOutput, WaitForClient, WaitForPipe,
                          EventFails
<1>8. CASE Finalization
  <2>1. thread # "over" /\ (conn => streamingRc = "ok")
    BY <1>8 DEF Finalization, ControlInv, BegunOK
  <2>2. CASE FinalizeLater
    BY <1>1, <2>2 DEF FinalizeLater
  <2>3. CASE FinalizeStream
    <3>1. ~conn
      BY <2>1, <2>3 DEF FinalizeStream, StreamingOpen, StreamingUnused, Unbegun
    <3>2. streamingRc = "error" \/ headerOnly
      BY <2>1, <3>1 DEF ControlInv, BegunOK
    <3> QED BY <2>3, <3>2 DEF FinalizeStream, Answer
  <2>4. CASE FinalizeUninspected
    BY <2>4 DEF FinalizeUninspected, Answer
  <2>5. CASE FinalizePlain
    BY <2>5 DEF FinalizePlain, PlainAnswer, Answer
  <2> QED BY <1>8, <2>2, <2>3, <2>4, <2>5 DEF Finalization
<1> QED BY <1>3, <1>4, <1>5, <1>6, <1>7, <1>8 DEF Next

LEMMA NextComplete ==
    ControlInv /\ DataInv /\ CompleteOK /\ [Next]_vars => CompleteOK'
<1> SUFFICES ASSUME ControlInv, DataInv, CompleteOK, [Next]_vars, answers' = <<"complete">>
             PROVE  client' = given'
  BY DEF CompleteOK
<1>1. CASE answers # <<>>
  BY <1>1, AnsweredRests DEF CompleteOK
<1>2. CASE answers = <<>>
  <2>1. ReadEnd
    BY <1>2, OnlyTheEndCompletes
  <2>2. conn /\ ~blocked /\ pipe = <<>> /\ UNCHANGED <<client, given>>
    BY <2>1 DEF ReadEnd, replyVars, ControlInv, LoopOK
  <2>3. client \in Seq(Nat) /\ busy = <<>> /\ (client \o busy) \o pipe = given
    BY <2>2 DEF DataInv, DataTypes, DeliveredOK
  <2>4. client \o <<>> = client
    BY <2>3, ConcatEmptySeq
  <2>5. given = client
    BY <2>2, <2>3, <2>4
  <2> QED BY <2>2, <2>5
<1> QED BY <1>1, <1>2

LEMMA DataInvariant == Spec => [](ControlInv /\ DataInv /\ CompleteOK)
<1>1. ControlInv /\ DataInv /\ CompleteOK /\ [Next]_vars
          => (ControlInv /\ DataInv /\ CompleteOK)'
  BY NextControl, NextData, NextComplete
<1>2. Init => ControlInv /\ DataInv /\ CompleteOK
  BY InitControl, InitData
<1> QED BY <1>1, <1>2, PTL DEF Spec

(* The client gets what was flushed, in order, and as long as the          *)
(* connection of the pipe is open nothing is lost on the way.              *)
THEOREM StreamIsInOrder == Spec => []StreamInOrder
<1>1. ControlInv /\ DataInv => StreamInOrder
  BY DEF DataInv, DeliveredOK, StreamInOrder
<1> QED BY <1>1, DataInvariant, PTL

(* The client of a request that is finalized without an error has all.     *)
THEOREM CompleteMeansAll == Spec => []CompleteIsAll
<1>1. ControlInv /\ CompleteOK => CompleteIsAll
  <2> SUFFICES ASSUME ControlInv, CompleteOK, "complete" \in ToSet(answers)
               PROVE  client = given
    BY DEF CompleteIsAll
  <2>1. answers # <<>>
    BY DEF ToSet
  <2>2. PICK a \in Answers : answers = <<a>> /\ ToSet(answers) = {a}
    BY <2>1, OneAnswer
  <2>3. a = "complete"
    BY <2>2
  <2> QED BY <2>2, <2>3 DEF CompleteOK
<1> QED BY <1>1, DataInvariant, PTL
===============================================================================
