-------------------------------- MODULE LwsRun --------------------------------
(***************************************************************************)
(* What one Lua state does for the requests it serves in turn, and what    *)
(* each request meets on its way: the handler with its cache of file       *)
(* states (lws_module.c), lws_run with the init, pre, main and post chunk  *)
(* (lws_lib.c), lws_run_state (lws_state.c), the answer, and the internal  *)
(* redirect that leads the request to the handler again.  How states are   *)
(* pooled and shared is in LwsStates, streaming is in LwsStream: here one  *)
(* state is there for all and responses are buffered.                      *)
(*                                                                         *)
(* A Lua chunk is whatever calls of the library it makes and the result it *)
(* ends with.  A library function that is refused raises an error, which   *)
(* the chunk may catch, so that nothing has happened, or not: then it ends *)
(* with "error".                                                           *)
(*                                                                         *)
(* A definition named X_<Mistake> is X with a plausible mistake in it.  No *)
(* specification uses it; it serves to see that a property depends on X.   *)
(***************************************************************************)
EXTENDS Integers, Sequences, FiniteSets

CONSTANTS Requests,
          None,      \* nothing: no chunk, a null pointer
          Setups     \* the configurations in question

(* A configuration: the directives lws with its main chunks (a complex     *)
(* value), lws_init, lws_pre, lws_post (a file, or None), lws_stat_cache   *)
(* with its cap (0 = none) and timeout, what may fail, the files that come *)
(* and go, and the internal redirects NGINX allows a request.  Bound: the   *)
(* time when the clock stops.                                              *)
Chunks == {"init", "pre", "main", "post"}

(* An allocation for the cache of file states; the preparation of a        *)
(* request context; loading a chunk; the profiler; the response header.    *)
FailingCalls == {"cache", "prepare", "load", "profiler", "header"}

Setup(s) ==
    /\ DOMAIN s = {"main", "init", "pre", "post", "cap", "timeout", "failures", "comes", "hops",
                   "time"}
    /\ IsFiniteSet(s.main) /\ None \notin s.main
    /\ {s.cap, s.timeout, s.hops, s.time} \subseteq Nat
    /\ s.failures \subseteq FailingCalls
    /\ s.comes \subseteq s.main

ASSUME RunAssumption == None \notin Requests \cup Chunks /\ \A s \in Setups : Setup(s)

VARIABLES setup,   \* the configuration, which does not change
          now,     \* time(NULL)
          found,   \* the main files that exist now
          seen,    \* when each main file was last there, and last missing
          cache,   \* lmcf->stat_cache
          ctx,     \* the context of each request: see NewContext
          hops,    \* internal redirects each request has taken
          unread,  \* the requests whose body nobody has read yet
          L,       \* the Lua state: see NewState
          run,     \* the call of lws_run in progress, or NoRun
          log      \* the chunks that the Lua state was made to run

requestVars == <<ctx, hops, unread>>
stateVars   == <<L, run, log>>
fileVars    == <<now, found, seen>>

MainFiles == setup.main
InitFile  == setup.init
PreFile   == setup.pre
PostFile  == setup.post
Cap       == setup.cap
Timeout   == setup.timeout

Files == (MainFiles \cup {InitFile, PreFile, PostFile}) \ {None}

MayFail(call) == call \in setup.failures

vars == <<setup, fileVars, cache, requestVars, stateVars>>

(* A request context, as far as the chunks set it; "read" is what they saw *)
(* of the request body.                                                    *)
NewContext == [stage |-> "new", main |-> None, redirect |-> FALSE, read |-> "not yet",
               rc |-> 0, answer |-> 0]

(* A Lua state: created; marked for close; its init chunk done; the        *)
(* request context in its registry; and its chunks, whether they are       *)
(* cached and whose environment they have, the globals being None.         *)
NewState == [open |-> FALSE, close |-> FALSE, init |-> FALSE, current |-> None,
             chunks |-> [f \in Files |-> [cached |-> FALSE, env |-> None]]]

NoRun == [request |-> None, next |-> "end", chunk |-> None, complete |-> FALSE, result |-> 0]

Init == /\ setup \in Setups
        /\ now = 0
        /\ found \in {MainFiles, MainFiles \ setup.comes}
        /\ seen = [f \in MainFiles |-> [there |-> IF f \in found THEN 0 ELSE -Timeout,
                                        missing |-> IF f \in found THEN -Timeout ELSE 0]]
        /\ cache = [f \in MainFiles |-> None]
        /\ ctx = [r \in Requests |-> NewContext]
        /\ hops = [r \in Requests |-> 0]
        /\ unread = Requests
        /\ L = NewState
        /\ run = NoRun
        /\ log = <<>>

-------------------------------------------------------------------------------
(* Files come and go, and time passes.                                     *)
Seen(f, there, t) == IF there THEN [seen[f] EXCEPT !.there = t]
                              ELSE [seen[f] EXCEPT !.missing = t]

Tick == /\ now < setup.time
        /\ now' = now + 1
        /\ seen' = [f \in MainFiles |-> Seen(f, f \in found, now')]
        /\ UNCHANGED <<setup, found, cache, requestVars, stateVars>>

ComeOrGo(f) == /\ f \in setup.comes
               /\ found' = IF f \in found THEN found \ {f} ELSE found \cup {f}
               /\ seen' = [seen EXCEPT ![f] = Seen(f, f \notin found, now)]
               /\ UNCHANGED <<setup, now, cache, requestVars, stateVars>>

-------------------------------------------------------------------------------
(* The handler.                                                            *)

(* lws_get_file_status: the cached status unless it has timed out, else    *)
(* that of stat, which is cached.  A full cache evicts an entry, also if   *)
(* it then fails to insert the new one.                                    *)
IsFresh_TooLong(f) == cache[f] # None /\ cache[f].time + Timeout >= now

IsFresh(f) == cache[f] # None /\ cache[f].time + Timeout > now

IsFound(f) == IF IsFresh(f) THEN cache[f].found ELSE f \in found

Cached == {f \in MainFiles : cache[f] # None}

Remember(f) ==
    \E evicted \in IF f \in Cached \/ Cardinality(Cached) < Cap THEN {None} ELSE Cached :
        cache' = [g \in MainFiles |->
                    CASE g = f       -> [found |-> f \in found, time |-> now]
                      [] g = evicted -> None
                      [] OTHER       -> cache[g]]

Forget(f) ==
    /\ f \notin Cached
    /\ Cardinality(Cached) = Cap
    /\ \E evicted \in Cached :
          cache' = [g \in MainFiles |-> IF g = evicted THEN None ELSE cache[g]]

GetFileStatus(f) == \/ /\ IsFresh(f) \/ Cap = 0 \/ MayFail("cache")
                       /\ UNCHANGED cache
                    \/ /\ ~IsFresh(f)
                       /\ Cap > 0
                       /\ Remember(f) \/ (MayFail("cache") /\ Forget(f))

Answered(c, status) ==
    [NewContext EXCEPT !.stage = "over", !.main = c.main, !.answer = status]

(* lws_handler: 404 without a main file; else the context is prepared and  *)
(* the body read, which may fail.                                          *)
Chosen(r, f) == [ctx[r] EXCEPT !.main = f]

LetIn(c) == [c EXCEPT !.stage = "ready"]

Handler(r) ==
    /\ ctx[r].stage = "new"
    /\ \E f \in MainFiles :
          /\ GetFileStatus(f)
          /\ \/ ~IsFound(f) /\ ctx' = [ctx EXCEPT ![r] = Answered(Chosen(r, f), 404)]
             \/ /\ IsFound(f)
                /\ MayFail("prepare")
                /\ ctx' = [ctx EXCEPT ![r] = Answered(Chosen(r, f), 500)]
             \/ IsFound(f) /\ ctx' = [ctx EXCEPT ![r] = LetIn(Chosen(r, f))]
    /\ UNCHANGED <<setup, fileVars, hops, unread, stateVars>>

-------------------------------------------------------------------------------
(* lws_run, on a thread of the pool.                                       *)

File(c) == CASE c = "init" -> InitFile
             [] c = "pre"  -> PreFile
             [] c = "main" -> ctx[run.request].main
             [] c = "post" -> PostFile

(* The chunk that comes after chunk c.                                     *)
After_Main(c, complete) == CASE c = "init" -> "pre"
                             [] c = "pre"  -> "main"
                             [] c = "main" -> "post"
                             [] c = "post" -> "end"

After(c, complete) == CASE c = "init" -> "pre"
                        [] c = "pre"  -> IF complete THEN "post" ELSE "main"
                        [] c = "main" -> "post"
                        [] c = "post" -> "end"

(* An error in lws_run: lws_run_state marks the state l for close.         *)
Fail_Unmarked(l, r) == /\ L' = l
                       /\ run' = NoRun
                       /\ ctx' = [ctx EXCEPT ![r].stage = "done", ![r].rc = -1]

Fail(l, r) == /\ L' = [l EXCEPT !.close = TRUE]
              /\ run' = NoRun
              /\ ctx' = [ctx EXCEPT ![r].stage = "done", ![r].rc = -1]

(* What the log of a state keeps: its init chunk, and how it ended.        *)
Remembered ==
    IF log = <<>> THEN <<>>
    ELSE LET last == log[Len(log)]
         IN  (IF log[1].chunk = "init" THEN <<log[1]>> ELSE <<>>)
                 \o (IF last.result < 0 THEN <<last>> ELSE <<>>)

(* A request gets the Lua state, a new one if there is none (LwsStates).   *)
(* lws_run puts its context into the registry and starts the profiler.     *)
IsFree == \A r \in Requests : ctx[r].stage \notin {"running", "done"}

Start(r) ==
    /\ ctx[r].stage = "ready"
    /\ IsFree
    /\ LET l == [L EXCEPT !.open = TRUE, !.current = r] IN
       \/ /\ L' = l
          /\ run' = [NoRun EXCEPT !.request = r, !.next = IF L.init THEN "pre" ELSE "init"]
          /\ ctx' = [ctx EXCEPT ![r].stage = "running"]
       \/ MayFail("profiler") /\ Fail(l, r)
    /\ log' = IF L.open THEN Remembered ELSE <<>>
    /\ UNCHANGED <<setup, fileVars, cache, hops, unread>>

(* The chunk that lws_run comes to; none is running.                       *)
ComesTo(c) == run.request # None /\ run.chunk = None /\ run.next = c

InitDone(c) == c = "init" \/ L.init

(* A chunk that is not configured is passed over.                          *)
Skip(c) == /\ ComesTo(c)
           /\ File(c) = None
           /\ L' = [L EXCEPT !.init = InitDone(c)]
           /\ run' = [run EXCEPT !.next = After(c, run.complete)]
           /\ UNCHANGED <<setup, fileVars, cache, requestVars, log>>

(* lws_call up to the call: a chunk not cached is loaded, and its          *)
(* environment set.                                                        *)
EnvFor(c) == IF c = "init" THEN None ELSE run.request

Call(c) == /\ ComesTo(c)
           /\ File(c) # None
           /\ L' = [L EXCEPT !.chunks[File(c)] = [cached |-> TRUE, env |-> EnvFor(c)]]
           /\ run' = [run EXCEPT !.chunk = c]
           /\ UNCHANGED <<setup, fileVars, cache, requestVars, log>>

Logged(c, result, complete) ==
    Append(log, [request |-> run.request, hop |-> hops[run.request], chunk |-> c,
                 result |-> IF c \in {"init", "post"} /\ result > 0 THEN 0 ELSE result,
                 complete |-> complete])

LoadFails(c) == /\ ComesTo(c)
                /\ File(c) # None
                /\ ~L.chunks[File(c)].cached
                /\ MayFail("load")
                /\ Fail(L, run.request)
                /\ log' = Logged(c, -1, run.complete)
                /\ UNCHANGED <<setup, fileVars, cache, hops, unread>>

(* A chunk ends with an error: it raises one, or its result is negative or *)
(* not an integer.                                                         *)
Errs(c) == /\ run.chunk = c
           /\ Fail(L, run.request)
           /\ log' = Logged(c, -1, run.complete)
           /\ UNCHANGED <<setup, fileVars, cache, hops, unread>>

(* lws_call after the call: the chunk ends with a result.  A positive one  *)
(* of the pre chunk completes the request.                                 *)
Completes_Never(c, result) == run.complete

Completes(c, result) == run.complete \/ (c = "pre" /\ result > 0)

Results == {0, 403, 600}

Ends(c, result) ==
    /\ run.chunk = c
    /\ L' = [L EXCEPT !.init = InitDone(c)]
    /\ run' = [run EXCEPT !.chunk = None,
                          !.complete = Completes(c, result),
                          !.next = After(c, Completes(c, result)),
                          !.result = IF c \in {"pre", "main"} THEN result ELSE @]
    /\ log' = Logged(c, result, Completes(c, result))
    /\ UNCHANGED <<setup, fileVars, cache, requestVars>>

(* lws_run after the chunks: the environments of the chunks that ran are   *)
(* cleared, the profiler stopped, and the request context removed.         *)
ToClear_NotMain == {PreFile, PostFile}

ToClear == {PreFile, PostFile} \cup (IF run.complete THEN {} ELSE {ctx[run.request].main})

Cleared(l) == [l EXCEPT !.chunks = [f \in Files |->
                  IF f \in ToClear THEN [@[f] EXCEPT !.env = None] ELSE @[f]]]

Finish == /\ ComesTo("end")
          /\ \/ /\ L' = [Cleared(L) EXCEPT !.current = None]
                /\ run' = NoRun
                /\ ctx' = [ctx EXCEPT ![run.request].stage = "done",
                                      ![run.request].rc = run.result]
             \/ MayFail("profiler") /\ Fail(Cleared(L), run.request)
          /\ UNCHANGED <<setup, fileVars, cache, hops, unread, log>>

-------------------------------------------------------------------------------
(* What a chunk may do.                                                    *)

(* lws.redirect: in a pre chunk it completes the request.                  *)
Redirect(r) ==
    /\ run.request = r
    /\ run.chunk \in {"pre", "main"}
    /\ ctx' = [ctx EXCEPT ![r].redirect = TRUE]
    /\ run' = [run EXCEPT !.complete = run.complete \/ run.chunk = "pre"]
    /\ UNCHANGED <<setup, fileVars, cache, hops, unread, L, log>>

(* lws.setcomplete, lws.setclose.                                          *)
SetComplete == /\ run.chunk = "pre"
               /\ run' = [run EXCEPT !.complete = TRUE]
               /\ UNCHANGED <<setup, fileVars, cache, requestVars, L, log>>

SetClose == /\ run.chunk # None
            /\ L' = [L EXCEPT !.close = TRUE]
            /\ UNCHANGED <<setup, fileVars, cache, requestVars, run, log>>

(* request.body:read("*a"): the buffers of the request, or its file, are   *)
(* read on from where they were left.                                      *)
ReadBody(r) ==
    /\ run.request = r
    /\ run.chunk \in {"pre", "main", "post"}
    /\ ctx[r].read = "not yet"
    /\ ctx' = [ctx EXCEPT ![r].read = IF r \in unread THEN "all" ELSE "nothing"]
    /\ unread' = unread \ {r}
    /\ UNCHANGED <<setup, fileVars, cache, hops, stateVars>>

-------------------------------------------------------------------------------
(* lws_finalization_handler: the state is closed if it was marked, else it *)
(* stays for the next request.                                             *)
ReleasedState == IF L.close THEN NewState ELSE L

StatusFor_Unchecked(rc) == rc

StatusFor(rc) == IF rc >= 100 /\ rc < 600 THEN rc ELSE 500

(* A redirect leads to the handler with a new context, to some other       *)
(* location (answer 0 here), or to an error of NGINX if it is one too many.*)
Redirected(r) ==
    \/ /\ ctx' = [ctx EXCEPT ![r] = Answered(@, 0)]
       /\ UNCHANGED hops
    \/ /\ hops[r] < setup.hops
       /\ ctx' = [ctx EXCEPT ![r] = NewContext]
       /\ hops' = [hops EXCEPT ![r] = @ + 1]
    \/ /\ hops[r] = setup.hops
       /\ ctx' = [ctx EXCEPT ![r] = Answered(@, 500)]
       /\ UNCHANGED hops

StatusOf(c) == CASE c.rc < 0 -> 500
                 [] c.rc > 0 -> StatusFor(c.rc)
                 [] OTHER    -> 200

Finalization(r) ==
    /\ ctx[r].stage = "done"
    /\ L' = ReleasedState
    /\ IF ctx[r].rc >= 0 /\ ctx[r].redirect
       THEN Redirected(r)
       ELSE /\ \/ ctx' = [ctx EXCEPT ![r] = Answered(@, StatusOf(@))]
               \/ MayFail("header") /\ ctx' = [ctx EXCEPT ![r] = Answered(@, 500)]
            /\ UNCHANGED hops
    /\ UNCHANGED <<setup, fileVars, cache, unread, run, log>>

(* An idle state may be closed at any time (LwsStates says when).          *)
CloseIdle == /\ L.open
             /\ IsFree
             /\ L' = NewState
             /\ UNCHANGED <<setup, fileVars, cache, requestVars, run, log>>

AllAnswered == (\A r \in Requests : ctx[r].stage = "over") /\ UNCHANGED vars

Request(r) == Handler(r) \/ Start(r) \/ Redirect(r) \/ ReadBody(r) \/ Finalization(r)

Chunk(c) == \/ Skip(c)
            \/ Call(c)
            \/ LoadFails(c)
            \/ Errs(c)
            \/ \E result \in Results : Ends(c, result)

Next == \/ \E r \in Requests : Request(r)
        \/ \E c \in Chunks : Chunk(c)
        \/ Finish
        \/ SetComplete
        \/ SetClose
        \/ CloseIdle
        \/ \E f \in MainFiles : ComeOrGo(f)
        \/ Tick
        \/ AllAnswered

Spec == Init /\ [][Next]_vars

-------------------------------------------------------------------------------
(* Properties.                                                             *)

(* Type invariant.                                                         *)
Stages   == {"new", "ready", "running", "done", "over"}
Readings == {"not yet", "all", "nothing"}
Statuses == {0, 200, 403, 404, 500}

Context == [stage : Stages, main : MainFiles \cup {None}, redirect : BOOLEAN, read : Readings,
            rc : Results \cup {-1}, answer : Statuses]

Someone == Requests \cup {None}

TypeOK ==
    /\ setup \in Setups
    /\ now \in 0 .. setup.time
    /\ found \subseteq MainFiles
    /\ seen \in [MainFiles -> [there : Int, missing : Int]]
    /\ \A f \in Cached : cache[f] \in [found : BOOLEAN, time : 0 .. setup.time]
    /\ Cardinality(Cached) <= Cap
    /\ ctx \in [Requests -> Context]
    /\ hops \in [Requests -> 0 .. setup.hops]
    /\ unread \subseteq Requests
    /\ L \in [open : BOOLEAN, close : BOOLEAN, init : BOOLEAN, current : Someone,
              chunks : [Files -> [cached : BOOLEAN, env : Someone]]]
    /\ run \in [request : Someone, next : Chunks \cup {"end"},
                chunk : Chunks \cup {None}, complete : BOOLEAN,
                result : Results]

(* What one request leaves behind in a Lua state, no other sees: neither   *)
(* the registry nor a cached chunk refers to a request that does not hold  *)
(* the state, the library functions find the context of the one that runs, *)
(* and a state that is free to serve has its init chunk done and no error  *)
(* behind it.  lws_run clears what it set only if no chunk fails, and the  *)
(* main chunk's environment only if it did not skip the main chunk.        *)
Holders == {r \in Requests : ctx[r].stage \in {"running", "done"}}

NothingLeft ==
    /\ L.current \in Holders \cup {None}
    /\ \A f \in Files : L.chunks[f].env \in Holders \cup {None}
    /\ run.chunk # None => L.current = run.request
    /\ L.open /\ Holders = {} => L.init /\ ~L.close

(* The chunks of a state run in the order of lws_run, through any errors,  *)
(* completions, redirects and requests: init once and first; for each      *)
(* request pre, main and post, each at most once, no main after a pre      *)
(* chunk that completed the request; nothing ever after an error; and a    *)
(* request that ends well had all its chunks.                              *)
Rank(c) == CASE c = "init" -> 1 [] c = "pre" -> 2 [] c = "main" -> 3 [] c = "post" -> 4

Own(r) == {i \in DOMAIN log : log[i].request = r /\ log[i].hop = hops[r]}

RunOf(r, c) == \E i \in Own(r) : log[i].chunk = c

ChunkOrder ==
    /\ \A i, j \in DOMAIN log : i < j =>
          /\ log[i].result >= 0
          /\ log[j].chunk # "init"
          /\ log[i].request = log[j].request /\ log[i].hop = log[j].hop =>
                /\ Rank(log[i].chunk) < Rank(log[j].chunk)
                /\ log[j].chunk = "main" => ~log[i].complete
    /\ InitFile # None /\ log # <<>> => Head(log).chunk = "init"
    /\ \A r \in Requests : ctx[r].stage = "done" /\ ctx[r].rc >= 0 =>
          /\ RunOf(r, "pre") <=> PreFile # None
          /\ RunOf(r, "post") <=> PostFile # None
          /\ RunOf(r, "main") <=> \A i \in Own(r) : ~log[i].complete

(* The answer fits what the chunks did: 500 if one failed; else the        *)
(* redirect if one was asked for; else the status that the pre or the main *)
(* chunk returned, whichever of the two was the last to run, if it is one; *)
(* else the response.  The results of init and post do not count.          *)
Asked(r) == {log[i].result : i \in {j \in Own(r) : log[j].chunk \in {"pre", "main"}}} \ {0}

Fits(r) ==
    \/ MayFail("header") /\ ctx'[r].answer = 500
    \/ MayFail("profiler") /\ ctx[r].rc = -1 /\ ctx'[r].answer = 500
    \/ /\ \E i \in Own(r) : log[i].result = -1
       /\ ctx'[r].answer = 500
    \/ /\ \A i \in Own(r) : log[i].result # -1
       /\ \/ /\ ctx[r].redirect
             /\ ctx'[r].answer \in {0, 500}
          \/ /\ ~ctx[r].redirect
             /\ \/ Asked(r) = {} /\ ctx'[r].answer = 200
                \/ Asked(r) = {403} /\ ctx'[r].answer = 403
                \/ Asked(r) = {600} /\ ctx'[r].answer = 500

AnswerFits ==
    [][\A r \in Requests : ctx[r].stage = "done" /\ ctx'[r].stage # "done" => Fits(r)]_vars

(* A request is let in, or told 404, on the word of the file system: the   *)
(* main file was there, or missing, at some moment less than the timeout   *)
(* of lws_stat_cache ago, or right now.                                    *)
StatFresh ==
    [][\A r \in Requests : ctx[r].stage = "new" /\ ctx'[r].stage # "new" =>
          LET s == seen[ctx'[r].main]
              when == IF ctx'[r].answer = 404 THEN s.missing ELSE s.there
          IN  when = now \/ when + Timeout > now]_vars

(* "HTTP request body" (doc/RequestProcessing.md:46): a chunk that reads   *)
(* request.body to its end, the first to do so since the request came to   *)
(* the location, gets all of it.  (After an internal redirect the body     *)
(* handler opens a stream on the buffers that the first run has consumed.) *)
BodyIsWhole == \A r \in Requests : ctx[r].read # "nothing"
===============================================================================
