------------------------------- MODULE LwsStream -------------------------------
(***************************************************************************)
(* One request of a location with lws_streaming, from the call of its      *)
(* chunks to its finalization: the flush function of lws_lib.c on a thread *)
(* of the pool, which writes the response body to a pipe; the stream       *)
(* handler of lws_module.c on the event loop, which reads the pipe and     *)
(* passes what it reads to the client; and the finalization handler, which *)
(* decides whether the pipe or the buffered body makes the response.       *)
(*                                                                         *)
(* The body is a sequence of pieces, numbered as Lua writes them.  A read  *)
(* or write of the pipe is one step, so that the two threads interleave    *)
(* there.  The read event of the pipe is edge triggered, as with epoll: it *)
(* is delivered when the pipe becomes readable while the event is active,  *)
(* and when it is added to a readable pipe.                                *)
(*                                                                         *)
(* A definition named X_<Mistake> is X with a plausible mistake in it.  No *)
(* specification uses it; it serves to see that a property depends on X.   *)
(***************************************************************************)
EXTENDS Integers, SequencesExt

CONSTANTS MaxPieces,   \* bound: the pieces Lua writes to response.body
          MaxHeaders,  \* bound: how often Lua sets the status or a header
          PipeSize,    \* the capacity of the pipe
          PageSize,    \* ngx_pagesize, the most one read takes
          ReadsMax,    \* LWS_STREAMING_READS_MAX
          RateLimits,  \* whether limit_rate applies to a response: see rateLimit
          Failures     \* the calls that may fail

(* The calls whose failure the handlers deal with: allocations, changes of *)
(* events, lws_set_response_header, the output filters and the client,     *)
(* ngx_socket_nread, fflush of the body stream.                            *)
FailingCalls == {"memory", "event", "header", "output", "inspect", "flush"}

ASSUME StreamAssumption ==
    /\ MaxPieces \in Nat
    /\ MaxHeaders \in Nat
    /\ PipeSize \in Nat \ {0}
    /\ PageSize \in Nat \ {0}
    /\ ReadsMax \in Nat \ {0}
    /\ RateLimits \subseteq BOOLEAN
    /\ Failures \subseteq FailingCalls

VARIABLES
    \* The pool thread and what it writes.
    thread,      \* "lua", "writing" in the loop of flush, "done", "over"
    body,        \* the pieces in ctx->response_body
    written,     \* the pieces of body the loop of flush has written
    made,        \* the number of the last piece
    header,      \* a number that stands for status and headers
    sealed,      \* lctx->sealed
    redirect,    \* ctx->redirect is set
    rc,          \* ctx->rc
    \* The pipe and its read event.
    writeEnd,    \* ctx->streaming_pipe[1] is open
    conn,        \* ctx->streaming_conn, and the read end, are open
    pipe,        \* the pieces in the pipe
    given,       \* every piece that was ever put into the pipe
    active,      \* the read event is registered
    due,         \* the read event is to be delivered
    \* The event loop.
    pc,          \* "events", or "reading" in the loop of the stream handler
    reads,       \* the reads of that loop
    blocked,     \* r->write_event_handler is lws_stream_write_handler
    delayed,     \* wev->delayed: the rate limit forbids to write
    timer,       \* wev->timer_set: the end of the delay, or the send timeout
    streamingRc, \* ctx->streaming_rc: "ok" or "error"
    \* The response.
    rateLimit,   \* limit_rate applies to the response
    headerOnly,  \* the request has HEAD, or a status without a body
    sentHeader,  \* the header that was sent, 0 if none was
    busy,        \* the pieces the output filters hold back
    client,      \* the pieces sent to the client
    answers      \* the calls of ngx_http_finalize_request

luaVars   == <<thread, body, written, made, header, sealed, redirect, rc>>
pipeVars  == <<writeEnd, conn, pipe, given>>
eventVars == <<active, due>>
loopVars  == <<pc, reads>>
waitVars  == <<blocked, delayed, timer>>
replyVars == <<rateLimit, headerOnly, sentHeader, busy, client>>

vars == <<luaVars, pipeVars, eventVars, loopVars, waitVars, streamingRc, replyVars, answers>>

Answers == {"complete", "aborted", "plain", "page", "redirect"}

headerSent == sentHeader # 0

(* What lws_handler prepares: the pipe, its connection and its read event. *)
Init == /\ thread = "lua" /\ body = <<>> /\ written = 0 /\ made = 0
        /\ header = 1 /\ sealed = FALSE /\ redirect = FALSE /\ rc = 0
        /\ writeEnd = TRUE /\ conn = TRUE /\ pipe = <<>> /\ given = <<>>
        /\ active = TRUE /\ due = FALSE
        /\ pc = "events" /\ reads = 0
        /\ blocked = FALSE /\ delayed = FALSE /\ timer = FALSE
        /\ streamingRc = "ok"
        /\ rateLimit \in RateLimits
        /\ headerOnly \in BOOLEAN
        /\ sentHeader = 0 /\ busy = <<>> /\ client = <<>>
        /\ answers = <<>>

-------------------------------------------------------------------------------
(* The pool thread.                                                        *)

(* Lua writes to response.body.                                            *)
Write == /\ thread = "lua"
         /\ made < MaxPieces
         /\ made' = made + 1
         /\ body' = Append(body, made')
         /\ UNCHANGED <<thread, written, header, sealed, redirect, rc, pipeVars, eventVars,
                        loopVars, waitVars, streamingRc, replyVars, answers>>

(* Lua sets response.status or a response header: an error once sealed,    *)
(* for flush makes the table of headers read-only when it seals.           *)
SetHeader == /\ thread = "lua"
             /\ ~sealed
             /\ header <= MaxHeaders
             /\ header' = header + 1
             /\ UNCHANGED <<thread, body, written, made, sealed, redirect, rc, pipeVars,
                            eventVars, loopVars, waitVars, streamingRc, replyVars, answers>>

(* lws.redirect.                                                           *)
MayRedirect == thread = "lua" /\ ~sealed

Redirect == /\ MayRedirect
            /\ redirect' = TRUE
            /\ UNCHANGED <<thread, body, written, made, header, sealed, rc, pipeVars, eventVars,
                           loopVars, waitVars, streamingRc, replyVars, answers>>

(* response.body:flush up to its loop: an error after a redirect; seals    *)
(* the response; then goes to write what the body holds, unless it holds   *)
(* nothing or fflush fails.                                                *)
FlushSeals_Not == sealed

FlushSeals == TRUE

Flush == /\ thread = "lua"
         /\ ~redirect
         /\ sealed' = FlushSeals
         /\ \/ /\ body # <<>>
               /\ thread' = "writing"
               /\ written' = 0
            \/ /\ body = <<>> \/ "flush" \in Failures
               /\ UNCHANGED <<thread, written>>
         /\ UNCHANGED <<body, made, header, redirect, rc, pipeVars, eventVars, loopVars,
                        waitVars, streamingRc, replyVars, answers>>

(* One write of flush's loop: as many pieces as the pipe takes, waiting    *)
(* while it is full.  A pipe that was empty becomes readable.              *)
FlushWrite ==
    /\ thread = "writing"
    /\ conn
    /\ Len(pipe) < PipeSize
    /\ \E n \in 1 .. Len(body) - written :
          LET pieces == SubSeq(body, written + 1, written + n)
          IN  /\ Len(pipe) + n <= PipeSize
              /\ pipe' = pipe \o pieces
              /\ given' = given \o pieces
              /\ written' = written + n
    /\ due' = (due \/ (active /\ pipe = <<>>))
    /\ IF written' = Len(body)
       THEN thread' = "lua" /\ body' = <<>>
       ELSE UNCHANGED <<thread, body>>
    /\ UNCHANGED <<made, header, sealed, redirect, rc, writeEnd, conn, active, loopVars,
                   waitVars, streamingRc, replyVars, answers>>

(* The write fails, for the event loop has closed the read end: a Lua      *)
(* error, which the chunk may catch.                                       *)
FlushFails == /\ thread = "writing"
              /\ ~conn
              /\ thread' = "lua"
              /\ UNCHANGED <<body, written, made, header, sealed, redirect, rc, pipeVars,
                             eventVars, loopVars, waitVars, streamingRc, replyVars, answers>>

(* The chunks return, or fail (-1), or ask for an error response (1).      *)
ThreadEnd == /\ thread = "lua"
             /\ thread' = "done"
             /\ rc' \in {-1, 0, 1}
             /\ UNCHANGED <<body, written, made, header, sealed, redirect, pipeVars, eventVars,
                            loopVars, waitVars, streamingRc, replyVars, answers>>

-------------------------------------------------------------------------------
(* What the handlers of the event loop do to end and to wait.              *)

Answer(a) == answers' = Append(answers, a)

(* The read event added anew: delivered if there is something to read, be  *)
(* it the end of the pipe.                                                 *)
Readable(p) == p # <<>> \/ ~writeEnd

EventAdded_StillActive(p) == active' = TRUE /\ due' = FALSE

EventAdded(p) == active' = TRUE /\ due' = Readable(p)

EventRemoved == active' = FALSE /\ due' = FALSE

(* The label `error': close the connection; finalize if the finalization   *)
(* handler has run, and leave it to that handler otherwise.                *)
MayFinalize_Always == TRUE

MayFinalize == ~writeEnd

ConnClosed == conn' = FALSE /\ pipe' = <<>> /\ EventRemoved

StreamError(code) ==
    /\ ConnClosed
    /\ blocked' = FALSE
    /\ timer' = (timer /\ ~blocked)
    /\ streamingRc' = code
    /\ pc' = "events" /\ reads' = 0
    /\ IF MayFinalize THEN Answer("aborted") ELSE UNCHANGED answers
    /\ UNCHANGED <<writeEnd, given>>

EventFails == "event" \in Failures /\ StreamError("error")

(* The label `blocked': stop reading until the client takes more.  If the  *)
(* write is delayed, the handler relies on the timer of the delay.         *)
SendTimer_Unset == FALSE

SendTimer == TRUE

WaitForClient(p, delayTimer) ==
    \/ /\ EventRemoved
       /\ blocked' = TRUE
       /\ timer' = IF delayed' THEN delayTimer ELSE SendTimer
       /\ pc' = "events" /\ reads' = 0
       /\ pipe' = p
       /\ UNCHANGED <<writeEnd, conn, given, streamingRc, answers>>
    \/ EventFails

(* Go back to the event loop with the read event of pipe p active anew.    *)
WaitForPipe(p) ==
    /\ EventAdded(p)
    /\ pc' = "events" /\ reads' = 0
    /\ pipe' = p
    /\ UNCHANGED <<writeEnd, conn, given, streamingRc, answers>>

(* ngx_http_output_filter: k of the pieces go to the client, the others    *)
(* are held back.  With a rate limit, what is sent may begin a delay, with *)
(* a timer at its end; until then nothing is sent.                         *)
Sent(pieces, k) == /\ client' = client \o SubSeq(pieces, 1, k)
                   /\ busy' = SubSeq(pieces, k + 1, Len(pieces))
                   /\ delayed' \in {FALSE, rateLimit /\ k > 0}

NotSent == UNCHANGED <<client, busy, delayed>>

-------------------------------------------------------------------------------
(* lws_stream_handler, called for the read event: a loop of reads.         *)

StreamEvent == /\ pc = "events"
               /\ conn
               /\ active
               /\ due
               /\ due' = FALSE
               /\ pc' = "reading"
               /\ reads' = 0
               /\ UNCHANGED <<luaVars, pipeVars, active, waitVars, streamingRc, replyVars,
                              answers>>

(* No buffer, or a read that fails.                                        *)
ReadFails == /\ pc = "reading"
             /\ "memory" \in Failures
             /\ StreamError("error")
             /\ UNCHANGED <<luaVars, replyVars, delayed>>

(* The end of the pipe: of the response, if it can be sent like any other  *)
(* output, or a 500 for one that was never begun.                          *)
EndAnswer == IF headerSent
             THEN {"complete"} \cup {"aborted" : f \in Failures \cap {"output"}}
             ELSE {"page"}

ReadEnd == /\ pc = "reading"
           /\ pipe = <<>>
           /\ ~writeEnd
           /\ ConnClosed
           /\ pc' = "events" /\ reads' = 0
           /\ \E a \in EndAnswer : Answer(a)
           /\ UNCHANGED <<luaVars, writeEnd, given, waitVars, streamingRc, replyVars>>

(* Nothing to read: the event stays active and is due with the next piece. *)
ReadAgain == /\ pc = "reading"
             /\ pipe = <<>>
             /\ writeEnd
             /\ \/ /\ pc' = "events" /\ reads' = 0
                   /\ UNCHANGED <<pipeVars, eventVars, waitVars, streamingRc, answers>>
                \/ EventFails /\ UNCHANGED delayed
             /\ UNCHANGED <<luaVars, replyVars>>

Page == IF Len(pipe) < PageSize THEN Len(pipe) ELSE PageSize

Rest == SubSeq(pipe, Page + 1, Len(pipe))

LastRead_OneTooMany == reads = ReadsMax

LastRead == reads + 1 = ReadsMax

(* A piece for a response that is not begun, and the header cannot be set, *)
(* or cannot be sent, or is all of the response.                           *)
HeaderEnds == /\ pc = "reading"
              /\ pipe # <<>>
              /\ ~headerSent
              /\ \/ /\ "header" \in Failures
                    /\ StreamError("error")
                    /\ UNCHANGED sentHeader
                 \/ /\ "output" \in Failures
                    /\ StreamError("error")
                    /\ sentHeader' \in {0, header}
                 \/ /\ headerOnly
                    /\ StreamError("ok")
                    /\ sentHeader' = header
              /\ NotSent
              /\ UNCHANGED <<luaVars, rateLimit, headerOnly>>

(* Pieces go to the client, after the header if they are the first.  The   *)
(* handler reads on, returns to the event loop after ReadsMax reads, or    *)
(* waits for the client.                                                   *)
ReadData ==
    /\ pc = "reading"
    /\ pipe # <<>>
    /\ headerSent \/ ~headerOnly
    /\ sentHeader' = IF headerSent THEN sentHeader ELSE header
    /\ \/ /\ "output" \in Failures
          /\ StreamError("error")
          /\ NotSent
       \/ /\ ~delayed
          /\ \E k \in 0 .. Page - 1 : Sent(SubSeq(pipe, 1, Page), k)
          /\ WaitForClient(Rest, TRUE)
       \/ /\ delayed
          /\ busy' = SubSeq(pipe, 1, Page)
          /\ UNCHANGED <<client, delayed>>
          /\ WaitForClient(Rest, timer)
       \/ /\ ~delayed
          /\ Sent(SubSeq(pipe, 1, Page), Page)
          /\ ~LastRead
          /\ pipe' = Rest
          /\ reads' = reads + 1
          /\ timer' = delayed'
          /\ UNCHANGED <<writeEnd, conn, given, eventVars, pc, blocked, streamingRc, answers>>
       \/ /\ ~delayed
          /\ Sent(SubSeq(pipe, 1, Page), Page)
          /\ LastRead
          /\ \/ /\ WaitForPipe(Rest)
                /\ timer' = delayed'
                /\ UNCHANGED blocked
             \/ EventFails
    /\ UNCHANGED <<luaVars, rateLimit, headerOnly>>

(* lws_stream_handler while the client blocks: pass on what is held back;  *)
(* once nothing is, lift the timer and return to the pipe.                 *)
Drained_AtAnyProgress(k) == k > 0 \/ busy = <<>>

Drained(k) == k = Len(busy)

FlushOutput ==
    /\ \/ /\ "output" \in Failures
          /\ StreamError("error")
          /\ NotSent
       \/ \E k \in 0 .. Len(busy) :
             /\ Sent(busy, k)
             /\ IF Drained(k)
                THEN \/ /\ WaitForPipe(pipe)
                        /\ blocked' = FALSE
                        /\ timer' = FALSE
                     \/ EventFails
                ELSE WaitForClient(pipe, TRUE)
    /\ UNCHANGED <<luaVars, rateLimit, headerOnly, sentHeader>>

(* lws_stream_write_handler: the client takes more, or its connection      *)
(* fails.  While the write is delayed, the handler goes on waiting.        *)
WriteEvent == /\ pc = "events"
              /\ blocked
              /\ ~delayed
              /\ FlushOutput

(* The timer of the write event expires.  NGINX ends a delay, and calls    *)
(* the write handler of the request, which by then may be an empty one; or *)
(* else the client is late.                                                *)
DelayOver == /\ pc = "events"
             /\ timer
             /\ delayed
             /\ IF blocked
                THEN FlushOutput
                ELSE /\ delayed' = FALSE
                     /\ timer' = FALSE
                     /\ UNCHANGED <<luaVars, pipeVars, eventVars, loopVars, blocked,
                                    streamingRc, replyVars, answers>>

SendTimeout == /\ pc = "events"
               /\ timer
               /\ ~delayed
               /\ StreamError("error")
               /\ UNCHANGED <<luaVars, replyVars, delayed>>

-------------------------------------------------------------------------------
(* lws_finalization_handler, when the thread is done.  It closes the write *)
(* end, which makes the pipe readable, and decides: if the response was    *)
(* begun, or pieces wait in the pipe, or streaming failed, streaming makes *)
(* the response; otherwise the connection is closed and the response made  *)
(* from the buffered body.                                                 *)
Unbegun == conn /\ ~headerSent /\ streamingRc = "ok"

StreamingUnused_Never == FALSE

StreamingUnused_Unchecked == Unbegun

StreamingUnused == Unbegun /\ pipe = <<>>

(* Streaming goes on, and the stream handler finalizes at the end of the   *)
(* pipe or upon an error.                                                  *)
StreamingOpen_Never == FALSE

StreamingOpen == conn /\ ~StreamingUnused

FinalizeLater == /\ StreamingOpen
                 /\ due' = (due \/ active)
                 /\ UNCHANGED <<conn, pipe, active, streamingRc, answers>>

(* The stream handler has closed the connection: an error, or a response   *)
(* that is all header.                                                     *)
FinalizeStream == /\ ~StreamingOpen
                  /\ headerSent \/ streamingRc = "error"
                  /\ Answer(IF streamingRc = "error" \/ headerOnly
                            THEN "aborted" ELSE "complete")
                  /\ UNCHANGED <<conn, pipe, eventVars, streamingRc>>

(* The pipe cannot be inspected.                                           *)
FinalizeUninspected == /\ "inspect" \in Failures
                       /\ Unbegun
                       /\ ConnClosed
                       /\ streamingRc' = "error"
                       /\ Answer("aborted")

(* Without streaming: the error response after a Lua error, the internal   *)
(* redirect, the error response that the chunks ask for, or the response   *)
(* they wrote; 500 if its header cannot be set or its body not flushed.    *)
PlainAnswer == IF rc < 0 THEN {"page"}
               ELSE IF redirect THEN {"redirect"}
               ELSE IF rc > 0 THEN {"page"}
               ELSE {"plain"} \cup {"page" : f \in Failures \cap {"header", "flush"}}

FinalizePlain == /\ ~StreamingOpen
                 /\ ~headerSent
                 /\ streamingRc = "ok"
                 /\ ConnClosed
                 /\ \E a \in PlainAnswer : Answer(a)
                 /\ UNCHANGED streamingRc

Finalization == /\ pc = "events"
                /\ thread = "done"
                /\ thread' = "over"
                /\ writeEnd' = FALSE
                /\ \/ FinalizeLater
                   \/ FinalizeStream
                   \/ FinalizeUninspected
                   \/ FinalizePlain
                /\ UNCHANGED <<body, written, made, header, sealed, redirect, rc, given,
                               loopVars, waitVars, replyVars>>

(* The request is over.                                                    *)
Answered == answers # <<>> /\ thread = "over" /\ UNCHANGED vars

Next == \/ Write
        \/ SetHeader
        \/ Redirect
        \/ Flush
        \/ FlushWrite
        \/ FlushFails
        \/ ThreadEnd
        \/ StreamEvent
        \/ ReadFails
        \/ ReadEnd
        \/ ReadAgain
        \/ HeaderEnds
        \/ ReadData
        \/ WriteEvent
        \/ DelayOver
        \/ SendTimeout
        \/ Finalization
        \/ Answered

Spec == Init /\ [][Next]_vars

(* The event loop delivers events that are due and timers that expire, and *)
(* a pool thread runs on.  That Lua code ends, however often it flushes,   *)
(* is assumed, for nothing in the code interrupts it.  The client need not *)
(* take anything.                                                          *)
Fairness == /\ WF_vars(StreamEvent)
            /\ WF_vars(ReadEnd)
            /\ WF_vars(ReadAgain)
            /\ WF_vars(HeaderEnds)
            /\ WF_vars(ReadData)
            /\ WF_vars(DelayOver)
            /\ WF_vars(SendTimeout)
            /\ WF_vars(Finalization)
            /\ WF_vars(FlushWrite)
            /\ WF_vars(FlushFails)
            /\ SF_vars(ThreadEnd)

FairSpec == Spec /\ Fairness

-------------------------------------------------------------------------------
(* Properties.                                                             *)

(* The request is finalized once, not before the finalization handler has  *)
(* run (until then the thread uses the request's context), and then no     *)
(* event of the pipe or of the client leads back to the freed context.     *)
FinalizedOnce ==
    /\ Len(answers) <= 1
    /\ answers # <<>> => thread = "over" /\ ~conn /\ ~active /\ ~blocked /\ pc = "events"

(* A response is streamed or it is buffered, never both: a redirect, an    *)
(* error page or the buffered body is the answer only if Lua gave no piece *)
(* to the pipe and no header was sent (the code looks into the pipe, which *)
(* the stream handler may not have read yet); and a redirect that Lua      *)
(* asked for is not lost because the response is streamed.                 *)
SingleMode ==
    /\ \A a \in {"plain", "page", "redirect"} :
          a \in ToSet(answers) => given = <<>> /\ ~headerSent
    /\ redirect => given = <<>>

(* The status and headers that were sent are those the chunks set: the     *)
(* event loop reads them while Lua runs only when they are sealed, so that *)
(* no later call changes them.                                             *)
HeaderFrozen == headerSent => sentHeader = header

(* While the stream is open every piece given is, in order, with the       *)
(* client, held back by the output filters or in the pipe; after that the  *)
(* client has a prefix.                                                    *)
StreamInOrder ==
    /\ IsPrefix(client, given)
    /\ conn => client \o busy \o pipe = given

(* A stream that is finalized as complete has sent all that was flushed.   *)
CompleteIsAll == "complete" \in ToSet(answers) => client = given

(* No wakeup of the edge triggered event is lost: while the handler does   *)
(* not wait for the client, a readable pipe has an event due.              *)
NoLostEvent ==
    conn /\ pc = "events" /\ ~blocked /\ Readable(pipe) => active /\ due

(* The stream handler does not find the end of the pipe before it sent the *)
(* header ("response streaming pipe closed before response was sent"): the *)
(* finalization handler closes the connection first.                       *)
EndFollowsHeader == conn /\ pipe = <<>> /\ ~writeEnd => headerSent

(* A thread that waits for room in the pipe gets it, or an error, whatever *)
(* the client does, unless a rate limit applies.                           *)
WriterIsReleased == ~rateLimit /\ thread = "writing" ~> thread # "writing"

(* A completion that the finalization handler left pending in the event    *)
(* handler (lws_module.c:1179) comes ...                                   *)
CompletionComes == thread = "over" /\ answers = <<>> ~> answers # <<>>

(* ... unless a rate limit applies.                                        *)
UnlimitedCompletes == ~rateLimit /\ thread = "over" /\ answers = <<>> ~> answers # <<>>
===============================================================================
